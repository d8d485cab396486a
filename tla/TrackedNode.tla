---------------------------- MODULE TrackedNode ----------------------------
(***************************************************************************)
(* The progress tree of enu/tracked.h and the walk display_progress makes  *)
(* over it (enu/main.cpp).                                                 *)
(*                                                                         *)
(* A node stands for a TrackedNode<M>.  The tree on disk is a constant:    *)
(* Parent, Dir and Size say what a scan finds.  What the program does with *)
(* it is in the variables: which nodes are linked into their parent's list *)
(* (a node that is not linked has been destroyed), who holds which mutex,  *)
(* the counters, and the one walk that may be drawing.                     *)
(*                                                                         *)
(* A task is the call of recurse on a node, and is named by that node.     *)
(* Sizes count chunks of CHUNK_SIZE bytes (main.cpp:26).                   *)
(***************************************************************************)
EXTENDS Integers, FiniteSets

CONSTANTS
  Node,      \* every entry of the directory being synchronised
  Root,      \* the directory itself
  Parent,    \* the directory an entry is in
  Dir,       \* the entries that are directories; the others are regular files
  Depth,     \* how many directories below Root an entry is
  Size,      \* number of chunks of a regular file
  MaxRows,   \* term_height()
  NULL

ASSUME TreeAssumption ==
  /\ IsFiniteSet(Node)
  /\ Dir \subseteq Node
  /\ Root \in Dir
  /\ Parent \in [Node \ {Root} -> Dir]
  /\ Depth \in [Node -> Nat]
  /\ \A n \in Node : Depth[n] = IF n = Root THEN 0 ELSE Depth[Parent[n]] + 1
  /\ Size \in [Node -> Nat]
  /\ \A n \in Dir : Size[n] = 0

ASSUME NullAssumption == NULL \notin Node

ASSUME RowsAssumption == MaxRows \in Nat

VARIABLES
  children,   \* children_: the nodes linked into each node's list
  ready,      \* ready_: the scan is finished with this node's list
  mutex,      \* mutex_ of each node: the task that holds it, or NULL
  total,      \* total_ of each node
  sum_total,  \* TrackedRoot::sum_total_
  done,       \* done_ of each node
  sum_done,   \* TrackedRoot::sum_done_
  painter,    \* TrackedRoot::mutex_: the task that is drawing, or NULL
  at,         \* the node whose children the drawing walk is in, or NULL
  todo,       \* the children of each such node the walk has still to visit
  lines       \* line_count of the walk, then last_drawn_rows_

treeVars  == <<children, ready, mutex, total, sum_total>>
countVars == <<done, sum_done>>
drawVars  == <<painter, at, todo, lines>>
trackedVars == <<treeVars, countVars, drawVars>>

Kids(n) == {c \in Node \ {Root} : Parent[c] = n}

(* The chunks of all nodes when there are f[n] of node n.                  *)
Chunks(f) == UNION {{n} \X (1..f[n]) : n \in Node}

(* What sum_total_ is once every regular file has been counted.            *)
SumTotal == Cardinality(Chunks(Size))

(* A node exists while its parent's list holds it; the root is static.     *)
Alive(n) == n = Root \/ n \in children[Parent[n]]

TrackedTypeOK ==
  /\ children \in [Node -> SUBSET Node]
  /\ \A n \in Node : children[n] \subseteq Kids(n)
  /\ ready \in [Node -> BOOLEAN]
  /\ mutex \in [Node -> Node \cup {NULL}]
  /\ total \in [Node -> Nat]
  /\ done \in [Node -> Nat]
  /\ sum_done \in Nat
  /\ painter \in Node \cup {NULL}
  /\ at \in Node \cup {NULL}
  /\ todo \in [Node -> SUBSET Node]
  /\ lines \in Nat

(* scan_dir has been joined: every list is complete and every total known, *)
(* and nothing has been sent or drawn yet.                                 *)
Scanned ==
  /\ children = [n \in Node |-> Kids(n)]
  /\ ready = [n \in Node |-> TRUE]
  /\ mutex = [n \in Node |-> NULL]
  /\ total = Size
  /\ sum_total = SumTotal
  /\ done = [n \in Node |-> 0]
  /\ sum_done = 0
  /\ painter = NULL
  /\ at = NULL
  /\ todo = [n \in Node |-> {}]
  /\ lines = 0

-----------------------------------------------------------------------------
(* The list of a node.                                                     *)

(* add_child: link c under the lock of its parent.                         *)
AddChild(c) ==
  /\ mutex[Parent[c]] = NULL
  /\ children' = [children EXCEPT ![Parent[c]] = @ \cup {c}]

(* Mutant: remove without the scoped_lock.                                 *)
RemoveUnlocked(n) ==
  children' = [children EXCEPT ![Parent[n]] = @ \ {n}]

(* remove: unlink, and so destroy, n under the lock of its parent.         *)
Remove(n) ==
  /\ mutex[Parent[n]] = NULL
  /\ children' = [children EXCEPT ![Parent[n]] = @ \ {n}]

(* unlock: tell iter_children that the list of n is complete.              *)
Unlock(n) ==
  /\ mutex[n] = NULL
  /\ ready' = [ready EXCEPT ![n] = TRUE]

ShiftTotal(n, delta) ==
  /\ total' = [total EXCEPT ![n] = @ + delta]
  /\ sum_total' = sum_total + delta

(* The two ends of iter_children: the list is stable in between because    *)
(* the mutex is held while f runs on each child.                           *)
EnterIter(t, n) ==
  /\ mutex[n] = NULL
  /\ ready[n]
  /\ mutex' = [mutex EXCEPT ![n] = t]

LeaveIter(n) == mutex' = [mutex EXCEPT ![n] = NULL]

-----------------------------------------------------------------------------
(* tick, and the walk of display_progress that it may run.                 *)

TickNode(n) ==
  /\ done' = [done EXCEPT ![n] = @ + 1]
  /\ UNCHANGED sum_done

TickSum ==
  /\ sum_done' = sum_done + 1
  /\ UNCHANGED done

(* try_lock succeeds and UPDATE_INTERVAL_MS have passed.                   *)
BeginDraw(t) ==
  /\ painter = NULL
  /\ painter' = t
  /\ lines' = 0
  /\ UNCHANGED <<at, todo>>

(* Mutant: the line of the summary is forgotten in the comparison.         *)
VisitOneTooMany(t, v, rest) ==
  IF lines = MaxRows
  THEN /\ todo' = rest
       /\ UNCHANGED <<mutex, at, lines>>
  ELSE /\ EnterIter(t, v)
       /\ todo' = [rest EXCEPT ![v] = children[v]]
       /\ at' = v
       /\ lines' = lines + 1

(* visit: one line for v, then its list is locked and its children follow; *)
(* nothing at all when the terminal is full.                               *)
Visit(t, v, rest) ==
  IF lines + 1 = MaxRows
  THEN /\ todo' = rest
       /\ UNCHANGED <<mutex, at, lines>>
  ELSE /\ EnterIter(t, v)
       /\ todo' = [rest EXCEPT ![v] = children[v]]
       /\ at' = v
       /\ lines' = lines + 1

VisitRoot(t) ==
  /\ Visit(t, Root, todo)
  /\ UNCHANGED painter

VisitChild(t) ==
  /\ at # NULL
  /\ \E c \in todo[at] : Visit(t, c, [todo EXCEPT ![at] = @ \ {c}])
  /\ UNCHANGED painter

(* The loop over the children of at ends: back to its parent's loop.       *)
LeaveVisit ==
  /\ at # NULL
  /\ todo[at] = {}
  /\ LeaveIter(at)
  /\ at' = IF at = Root THEN NULL ELSE Parent[at]
  /\ UNCHANGED <<painter, todo, lines>>

(* The summary line, and the release of TrackedRoot::mutex_.               *)
EndDraw ==
  /\ at = NULL
  /\ lines' = lines + 1
  /\ painter' = NULL
  /\ UNCHANGED <<at, todo>>
=============================================================================
