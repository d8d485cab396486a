----------------------------- MODULE SyncProofs -----------------------------
(***************************************************************************)
(* The inductive invariant of SyncWithRemote and what follows from it, for *)
(* every tree, number of threads and size of the terminal.  Its parts are  *)
(*   Shape   the types, but for the lower bound of the entries of pending, *)
(*           which is no matter of types and comes out of Tasks;           *)
(*   Locks   who may hold the mutex of a node, and that the nodes whose    *)
(*           lists the drawing walk is in form one path of linked nodes    *)
(*           that starts at Root;                                          *)
(*   Tasks   what the position of a task says about its node, about the    *)
(*           directory above it and about the entries of pending;          *)
(*   Sends   what it says about its message, about the message of its      *)
(*           directory and about the tasks of its children.                *)
(* From Sends follows that SyncWithRemote implements Delivery, for every   *)
(* tree and any number of threads.  That true means all needs one more     *)
(* thing, the absence of an infinite descent in the tree: of the nodes     *)
(* that are not done, one has the least depth.                             *)
(***************************************************************************)
EXTENDS SyncWithRemote, Lemmas

(* The control of the tasks.                                               *)
TaskShape ==
  /\ pc \in [Node -> Label]
  /\ pc[Root] # "remove"

(* What they count and number.                                             *)
DataShape ==
  /\ cur \in [Node -> Node]
  /\ pending \in [Node -> Int]
  /\ seq \in [Node -> Nat \cup {Absent}]
  /\ inc \in [Node -> Nat]
  /\ g_seq \in Nat

(* How the call ends.                                                      *)
EndShape ==
  /\ ok \in BOOLEAN
  /\ daemon \in {"alive", "ok", "err"}
  /\ status \in {"running", "fatal", "true", "false"}
  /\ sent \in [Node -> Nat]

Shape == TrackedTypeOK /\ TaskShape /\ DataShape /\ EndShape

USE DEF Absent

-----------------------------------------------------------------------------
(* Children are nodes.                                                     *)
LEMMA KidsInNode == \A n \in Node : Kids(n) \subseteq Node
BY Zenon DEF Kids

(* A set of nodes is finite and has a size.                                *)
LEMMA CardinalityNat ==
  ASSUME NEW S, S \subseteq Node
  PROVE  IsFiniteSet(S) /\ Cardinality(S) \in Nat
BY TreeAssumption, FS_Subset, FS_CardinalityType, Zenon

(* What scan_dir hands over, and the locals of sync_with_remote.           *)
LEMMA InitShape == Init => Shape
BY TreeAssumption, KidsInNode DEF Init, Scanned, Shape, TaskShape, DataShape, EndShape, TrackedTypeOK, Label

(* What the steps leave alone of the progress tree keeps its type.         *)
LEMMA TrackedStill == TrackedTypeOK /\ UNCHANGED trackedVars => TrackedTypeOK'
BY Zenon DEF TrackedTypeOK, trackedVars, treeVars, countVars, drawVars

(* Moving one task to another label.                                       *)
LEMMA GotoShape ==
  ASSUME TaskShape, NEW n \in Node, NEW l \in Label, Goto(n, l), n = Root => l # "remove"
  PROVE  TaskShape'
BY DEF TaskShape, Goto

(* Start and the three accesses to g_seq.                                  *)
LEMMA SeqShape ==
  ASSUME Shape, NEW n \in Node, Start(n) \/ LoadSeq(n) \/ LoadInc(n) \/ StoreSeq(n)
  PROVE  Shape'
<1>1. TrackedTypeOK'
  BY TrackedStill, Zenon DEF Shape, Start, LoadSeq, LoadInc, StoreSeq
<1>2. TaskShape'
  <2>1. \E l \in {"done", "seq", "inc", "store", "header"} : Goto(n, l)
    BY Zenon DEF Start, LoadSeq, LoadInc, StoreSeq
  <2> QED
    BY <2>1, GotoShape, Zenon DEF Shape, Label
<1>3. DataShape'
  <2>1. CASE Start(n)
    BY <2>1, Zenon DEF Start, Shape, DataShape
  <2>2. CASE LoadSeq(n)
    BY <2>2, Zenon DEF LoadSeq, Shape, DataShape
  <2>3. CASE LoadInc(n)
    BY <2>3, SeqAssumption DEF LoadInc, Shape, DataShape
  <2>4. CASE StoreSeq(n)
    BY <2>4, Zenon DEF StoreSeq, Shape, DataShape
  <2> QED
    BY <2>1, <2>2, <2>3, <2>4, Zenon
<1>4. EndShape'
  BY Zenon DEF Start, LoadSeq, LoadInc, StoreSeq, Shape, EndShape
<1> QED
  BY <1>1, <1>2, <1>3, <1>4, Zenon DEF Shape

(* A step of send_datamsg keeps what SendVars lists.                       *)
LEMMA SendDataShape == DataShape /\ UNCHANGED SendVars => DataShape'
BY Zenon DEF DataShape, SendVars

(* Counting a message.                                                     *)
LEMMA CountShape ==
  ASSUME EndShape, NEW n \in Node, sent' = sent \/ sent' = [sent EXCEPT ![n] = @ + 1]
  PROVE  sent' \in [Node -> Nat] /\ \A m \in Node : m # n => sent'[m] = sent[m]
BY DEF EndShape

(* NextChunk and Sent: the loop goes on, or the message is complete.       *)
LEMMA ChunkShape ==
  ASSUME Shape, NEW n \in Node, NextChunk(n), UNCHANGED <<SendVars, status>>
  PROVE  TaskShape' /\ DataShape' /\ EndShape'
<1>1. /\ \E l \in {"body", "sent"} : Goto(n, l)
      /\ sent' = sent \/ sent' = [sent EXCEPT ![n] = @ + 1]
  BY Zenon DEF NextChunk, Sent
<1>2. TaskShape'
  BY <1>1, GotoShape, Zenon DEF Shape, Label
<1>3. DataShape'
  BY SendDataShape, Zenon DEF Shape
<1>4. EndShape'
  BY <1>1, CountShape, Zenon DEF Shape, EndShape, SendVars
<1> QED
  BY <1>2, <1>3, <1>4, Zenon

(* The writes of send_datamsg.                                             *)
LEMMA SendShape ==
  ASSUME Shape, NEW n \in Node,
         SendHeader(n) \/ SendPath(n) \/ OpenFile(n) \/ SendChunk(n)
  PROVE  Shape'
<1>1. TrackedTypeOK'
  BY TrackedStill, Zenon DEF Shape, SendHeader, SendPath, OpenFile, SendChunk
<1>2. TaskShape'
  <2>1. UNCHANGED pc \/ \E l \in {"path", "report", "open", "sent", "body", "ticknode"} : Goto(n, l)
    BY Zenon DEF SendHeader, SendPath, OpenFile, SendChunk, Sent
  <2>2. CASE UNCHANGED pc
    BY <2>2, Zenon DEF Shape, TaskShape
  <2> QED
    BY <2>1, <2>2, GotoShape, Zenon DEF Shape, Label
<1>3. DataShape'
  BY SendDataShape, Zenon DEF Shape, SendHeader, SendPath, OpenFile, SendChunk
<1>4. EndShape'
  <2>1. /\ UNCHANGED <<ok, daemon>>
        /\ sent' = sent \/ sent' = [sent EXCEPT ![n] = @ + 1]
        /\ status' \in {status, "fatal"}
    BY Zenon DEF SendHeader, SendPath, OpenFile, SendChunk, Sent, SendVars
  <2> QED
    BY <2>1, CountShape, Zenon DEF Shape, EndShape
<1> QED
  BY <1>1, <1>2, <1>3, <1>4, Zenon DEF Shape

(* tick: the two counters.                                                 *)
LEMMA TickShape ==
  ASSUME Shape, NEW n \in Node, TickDone(n) \/ TickSumDone(n)
  PROVE  Shape'
<1>1. /\ UNCHANGED <<treeVars, drawVars, SendVars, status, sent>>
      /\ \E l \in {"ticksum", "draw"} : Goto(n, l)
  BY Zenon DEF TickDone, TickSumDone
<1>2. done' \in [Node -> Nat] /\ sum_done' \in Nat
  BY DEF TickDone, TickSumDone, TickNode, TickSum, Shape, TrackedTypeOK
<1>3. TrackedTypeOK'
  BY <1>1, <1>2, Zenon DEF Shape, TrackedTypeOK, treeVars, drawVars
<1>4. TaskShape'
  BY <1>1, GotoShape, Zenon DEF Shape, Label
<1>5. DataShape' /\ EndShape'
  BY <1>1, SendDataShape, Zenon DEF Shape, EndShape, SendVars
<1> QED
  BY <1>3, <1>4, <1>5, Zenon DEF Shape

(* What the walk may change of the tree.                                   *)
LEMMA WalkShape ==
  ASSUME Shape, UNCHANGED <<children, ready, total, sum_total, countVars>>,
         mutex' \in [Node -> Node \cup {NULL}], painter' \in Node \cup {NULL},
         at' \in Node \cup {NULL}, todo' \in [Node -> SUBSET Node], lines' \in Nat
  PROVE  TrackedTypeOK'
BY Zenon DEF Shape, TrackedTypeOK, countVars

(* visit locks at most the list of v.                                      *)
LEMMA VisitShape ==
  ASSUME Shape, NEW n \in Node, NEW v \in Node, NEW rest \in [Node -> SUBSET Node],
         Visit(n, v, rest)
  PROVE  /\ mutex' \in [Node -> Node \cup {NULL}] /\ at' \in Node \cup {NULL}
         /\ todo' \in [Node -> SUBSET Node] /\ lines' \in Nat
BY DEF Visit, EnterIter, Shape, TrackedTypeOK

(* tick that does not draw, and the walk of display_progress.              *)
LEMMA DrawShape ==
  ASSUME Shape, NEW n \in Node,
         SkipDraw(n) \/ StartDraw(n) \/ DrawRoot(n) \/ Draw(n) \/ FinishDraw(n)
  PROVE  Shape'
<1> USE TreeAssumption
<1>1. CASE SkipDraw(n)
  <2>1. TrackedTypeOK'
    BY <1>1, TrackedStill, Zenon DEF SkipDraw, Shape
  <2> QED
    BY <1>1, <2>1, ChunkShape, Zenon DEF SkipDraw, Shape
<1>2. CASE StartDraw(n)
  <2>1. TrackedTypeOK'
    BY <1>2, WalkShape, Zenon DEF StartDraw, BeginDraw, Shape, TrackedTypeOK, treeVars
  <2>2. TaskShape'
    BY <1>2, GotoShape, Zenon DEF StartDraw, Shape, Label
  <2>3. DataShape' /\ EndShape'
    BY <1>2, SendDataShape, Zenon DEF StartDraw, Shape, EndShape, SendVars
  <2> QED
    BY <2>1, <2>2, <2>3, Zenon DEF Shape
<1>3. CASE DrawRoot(n)
  <2>1. Visit(n, Root, todo) /\ UNCHANGED painter
    BY <1>3, Zenon DEF DrawRoot, VisitRoot
  <2>2. todo \in [Node -> SUBSET Node] /\ painter \in Node \cup {NULL}
    BY Zenon DEF Shape, TrackedTypeOK
  <2>3. TrackedTypeOK'
    BY <1>3, <2>1, <2>2, VisitShape, WalkShape, Zenon DEF DrawRoot
  <2>4. TaskShape'
    BY <1>3, GotoShape, Zenon DEF DrawRoot, Shape, Label
  <2>5. DataShape' /\ EndShape'
    BY <1>3, SendDataShape, Zenon DEF DrawRoot, Shape, EndShape, SendVars
  <2> QED
    BY <2>3, <2>4, <2>5, Zenon DEF Shape
<1>4. CASE Draw(n)
  <2>1. painter' \in Node \cup {NULL}
    BY <1>4, Zenon DEF Draw, VisitChild, LeaveVisit, Shape, TrackedTypeOK
  <2>2. /\ mutex' \in [Node -> Node \cup {NULL}] /\ at' \in Node \cup {NULL}
        /\ todo' \in [Node -> SUBSET Node] /\ lines' \in Nat
    <3>1. CASE VisitChild(n)
      <4>1. PICK c \in todo[at] : Visit(n, c, [todo EXCEPT ![at] = @ \ {c}])
        BY <3>1, Zenon DEF VisitChild
      <4>2. at \in Node /\ c \in Node
        BY <3>1, Zenon DEF VisitChild, Shape, TrackedTypeOK
      <4>3. [todo EXCEPT ![at] = @ \ {c}] \in [Node -> SUBSET Node]
        BY <4>2, Zenon DEF Shape, TrackedTypeOK
      <4> QED
        BY <4>1, <4>2, <4>3, VisitShape, Zenon
    <3>2. CASE LeaveVisit
      BY <3>2, Zenon DEF LeaveVisit, LeaveIter, Shape, TrackedTypeOK
    <3> QED
      BY <1>4, <3>1, <3>2, Zenon DEF Draw
  <2>3. TrackedTypeOK'
    BY <1>4, <2>1, <2>2, WalkShape, Zenon DEF Draw
  <2>4. TaskShape'
    BY <1>4, Zenon DEF Draw, Shape, TaskShape
  <2>5. DataShape' /\ EndShape'
    BY <1>4, SendDataShape, Zenon DEF Draw, Shape, EndShape, SendVars
  <2> QED
    BY <2>3, <2>4, <2>5, Zenon DEF Shape
<1>5. CASE FinishDraw(n)
  <2>1. TrackedTypeOK'
    BY <1>5, WalkShape DEF FinishDraw, EndDraw, Shape, TrackedTypeOK, treeVars
  <2> QED
    BY <1>5, <2>1, ChunkShape, Zenon DEF FinishDraw, Shape
<1> QED
  BY <1>1, <1>2, <1>3, <1>4, <1>5, Zenon

(* Unlinking a node.                                                       *)
LEMMA RemoveShape ==
  ASSUME Shape, NEW q \in Node, q # Root, Remove(q),
         UNCHANGED <<ready, mutex, total, sum_total, countVars, drawVars>>
  PROVE  TrackedTypeOK'
<1>1. Parent[q] \in Node
  BY TreeAssumption, Zenon
<1>2. children' \in [Node -> SUBSET Node] /\ \A m \in Node : children'[m] \subseteq Kids(m)
  BY <1>1, Zenon DEF Remove, Shape, TrackedTypeOK
<1> QED
  BY <1>2, Zenon DEF Shape, TrackedTypeOK, countVars, drawVars

(* The steps after the message, but for those that remove a node.          *)
LEMMA FanShape ==
  ASSUME Shape, NEW n \in Node,
         \/ AfterSend(n) \/ IterChildren(n) \/ SpawnChild(n) \/ EndSpawn(n)
         \/ WaitGroup(n) \/ Bubble(n)
  PROVE  Shape'
<1>1. TrackedTypeOK'
  <2>1. CASE AfterSend(n) \/ SpawnChild(n) \/ WaitGroup(n) \/ Bubble(n)
    BY <2>1, TrackedStill, Zenon DEF AfterSend, SpawnChild, WaitGroup, Bubble, Shape
  <2>2. CASE IterChildren(n) \/ EndSpawn(n)
    <3>1. /\ mutex' \in [Node -> Node \cup {NULL}]
          /\ UNCHANGED <<children, ready, total, sum_total, countVars, drawVars>>
      BY <2>2, Zenon DEF IterChildren, EndSpawn, EnterIter, LeaveIter, Shape, TrackedTypeOK
    <3> QED
      BY <3>1, WalkShape, Zenon DEF Shape, TrackedTypeOK, drawVars
  <2> QED
    BY <2>1, <2>2, Zenon
<1>2. TaskShape'
  <2>1. CASE SpawnChild(n)
    <3>1. PICK c \in children[n] : Goto(c, "queued")
      BY <2>1, Zenon DEF SpawnChild
    <3>2. c \in Node
      BY Zenon DEF Shape, TrackedTypeOK
    <3> QED
      BY <3>1, <3>2, GotoShape, Zenon DEF Shape, Label
  <2>2. CASE ~SpawnChild(n)
    <3>1. \E l \in {"iter", "remove", "spawn", "wait", "done", "climb"} :
            Goto(n, l) /\ (n = Root => l # "remove")
      BY <2>2, TreeAssumption, Zenon DEF AfterSend, IterChildren, EndSpawn, WaitGroup, Bubble
    <3> QED
      BY <3>1, GotoShape, Zenon DEF Shape, Label
  <2> QED
    BY <2>1, <2>2, Zenon
<1>3. pending' \in [Node -> Int]
  <2>1. Cardinality(children[n]) \in Int
    BY CardinalityNat DEF Shape, TrackedTypeOK
  <2> QED
    BY <2>1 DEF AfterSend, IterChildren, SpawnChild, EndSpawn, WaitGroup, Bubble,
                Shape, DataShape
<1>4. UNCHANGED <<cur, FanVars>>
  BY Zenon DEF AfterSend, IterChildren, SpawnChild, EndSpawn, WaitGroup, Bubble
<1>5. DataShape' /\ EndShape'
  BY <1>3, <1>4, Zenon DEF Shape, DataShape, EndShape, FanVars
<1> QED
  BY <1>1, <1>2, <1>5, Zenon DEF Shape

(* The two places where a node is removed.                                 *)
LEMMA DetachShape ==
  ASSUME Shape, NEW n \in Node, RemoveLeaf(n) \/ Climb(n)
  PROVE  Shape'
<1>1. CASE RemoveLeaf(n)
  <2>1. n # Root
    BY <1>1, Zenon DEF RemoveLeaf, Shape, TaskShape
  <2>2. TrackedTypeOK'
    BY <1>1, <2>1, RemoveShape, Zenon DEF RemoveLeaf
  <2>3. TaskShape'
    BY <1>1, GotoShape, Zenon DEF RemoveLeaf, Shape, Label
  <2>4. DataShape' /\ EndShape'
    BY <1>1, <2>1, TreeAssumption, Zenon DEF RemoveLeaf, Shape, DataShape, EndShape, FanVars
  <2> QED
    BY <2>2, <2>3, <2>4, Zenon DEF Shape
<1>2. CASE Climb(n) /\ cur[n] = Root
  <2>1. /\ UNCHANGED <<trackedVars, cur, FanVars>>
        /\ Goto(n, "done")
        /\ pending' = [pending EXCEPT ![cur[n]] = Absent]
    BY <1>2, Zenon DEF Climb, trackedVars, treeVars
  <2>2. TrackedTypeOK' /\ TaskShape'
    BY <2>1, TrackedStill, GotoShape, Zenon DEF Shape, Label
  <2>3. DataShape' /\ EndShape'
    BY <2>1 DEF Shape, DataShape, EndShape, FanVars
  <2> QED
    BY <2>2, <2>3, Zenon DEF Shape
<1>3. CASE Climb(n) /\ cur[n] # Root
  <2>1. PICK q \in Node : q = cur[n]
    BY Zenon DEF Shape, DataShape
  <2>2. /\ Remove(q)
        /\ cur' = [cur EXCEPT ![n] = Parent[q]]
        /\ Goto(n, "bubble")
        /\ pending' = [pending EXCEPT ![q] = Absent]
        /\ UNCHANGED <<ready, mutex, total, sum_total, countVars, drawVars, FanVars>>
    BY <1>3, <2>1, Zenon DEF Climb
  <2>3. TrackedTypeOK' /\ TaskShape'
    BY <1>3, <2>1, <2>2, RemoveShape, GotoShape, Zenon DEF Shape, Label
  <2>4. Parent[q] \in Node
    BY <1>3, <2>1, TreeAssumption, Zenon
  <2>5. DataShape' /\ EndShape'
    BY <2>2, <2>4 DEF Shape, DataShape, EndShape, FanVars
  <2> QED
    BY <2>3, <2>5, Zenon DEF Shape
<1> QED
  BY <1>1, <1>2, <1>3, Zenon

(* Failure, and the steps outside the tasks.                               *)
LEMMA EndingShape ==
  ASSUME Shape,
         \/ \E n \in Node : Report(n) \/ Drain(n)
         \/ Terminate \/ DaemonExits \/ UNCHANGED vars
  PROVE  Shape'
<1>1. TrackedTypeOK'
  BY TrackedStill, Zenon DEF Report, Drain, Terminate, DaemonExits, vars, Shape
<1>2. TaskShape'
  <2>1. CASE UNCHANGED pc
    BY <2>1, Zenon DEF Shape, TaskShape
  <2>2. CASE \E n \in Node : \E l \in {"drain", "done"} : Goto(n, l)
    BY <2>2, GotoShape, Zenon DEF Shape, Label
  <2> QED
    BY <2>1, <2>2, Zenon DEF Report, Drain, Terminate, DaemonExits, vars, syncVars
<1>3. DataShape'
  BY Zenon DEF Report, Drain, Terminate, DaemonExits, vars, syncVars, Shape, DataShape
<1>4. EndShape'
  BY Zenon DEF Report, Drain, Terminate, DaemonExits, vars, syncVars, Shape, EndShape
<1> QED
  BY <1>1, <1>2, <1>3, <1>4, Zenon DEF Shape

(* Every step of the specification.                                        *)
LEMMA NextShape == Shape /\ [Next]_vars => Shape'
BY SeqShape, SendShape, TickShape, DrawShape, FanShape, DetachShape, EndingShape, Zenon
DEF Next, Step, Finished

-----------------------------------------------------------------------------
(* Locks.                                                                  *)

USE DEF TaskShape, DataShape, EndShape

(* Where a task uses its own node and has no entry in pending.             *)
Sending ==
  {"queued", "seq", "inc", "store", "header", "path", "open", "body",
   "ticknode", "ticksum", "draw", "drawroot", "drawing", "sent"}

(* The nodes whose list the drawing walk is in.                            *)
Drawn(v) == painter # NULL /\ mutex[v] = painter

MutexOwner ==
  /\ \A n \in Node : pc[n] = "spawn" => mutex[n] = n
  /\ \A n \in Node : mutex[n] # NULL =>
       (mutex[n] = n /\ pc[n] = "spawn") \/ (mutex[n] = painter /\ pc[painter] = "drawing")
  /\ \A n \in Node : pc[n] \in {"drawroot", "drawing"} <=> painter = n

WalkPath ==
  /\ at # NULL => painter # NULL /\ mutex[at] = painter
  /\ \A v \in Node : Drawn(v) => at # NULL /\ Depth[v] <= Depth[at]
  /\ \A v, w \in Node : Drawn(v) /\ Drawn(w) /\ Depth[v] = Depth[w] => v = w
  /\ \A v \in Node \ {Root} : Drawn(v) => Drawn(Parent[v])

WalkAlive ==
  \A v \in Node : Drawn(v) => Alive(v) /\ todo[v] \subseteq children[v]

Locks == MutexOwner /\ WalkPath /\ WalkAlive

-----------------------------------------------------------------------------
lockVars == <<children, mutex, painter, at, todo>>

(* Nobody holds a lock at first.                                           *)
LEMMA InitLocks == Init => Locks
BY NullAssumption DEF Init, Scanned, Locks, MutexOwner, WalkPath, WalkAlive, Drawn

(* A step of a task outside the sections that hold a lock.                 *)
LEMMA QuietLocks ==
  ASSUME Shape, Locks, UNCHANGED lockVars,
         NEW n \in Node, pc[n] \notin {"spawn", "drawroot", "drawing"},
         NEW l \in Label \ {"spawn", "drawroot", "drawing"}, Goto(n, l)
  PROVE  Locks'
<1> USE DEF Locks, lockVars
<1>1. MutexOwner'
  BY NullAssumption, Zenon DEF Shape, TrackedTypeOK, MutexOwner, Goto
<1>2. WalkPath'
  BY Zenon DEF WalkPath, Drawn
<1>3. WalkAlive'
  BY Zenon DEF WalkAlive, Drawn, Alive
<1> QED
  BY <1>1, <1>2, <1>3, Zenon

(* A step that touches neither locks nor labels.                           *)
LEMMA StillLocks == Locks /\ UNCHANGED <<lockVars, pc>> => Locks'
BY DEF Locks, lockVars, MutexOwner, WalkPath, WalkAlive, Drawn, Alive

(* Removing a node whose parent's list nobody is in.                       *)
LEMMA RemoveLocks ==
  ASSUME Shape, Locks, UNCHANGED <<mutex, painter, at, todo>>,
         NEW m \in Node \ {Root}, Remove(m),
         NEW n \in Node, pc[n] \notin {"spawn", "drawroot", "drawing"}, Goto(n, "bubble")
  PROVE  Locks'
<1> USE DEF Locks
<1>1. MutexOwner'
  BY NullAssumption, Zenon DEF Shape, TrackedTypeOK, MutexOwner, Goto
<1>2. WalkPath'
  BY Zenon DEF WalkPath, Drawn
<1>3. WalkAlive'
  <2> SUFFICES ASSUME NEW v \in Node, Drawn(v)
               PROVE  (Alive(v) /\ todo[v] \subseteq children[v])'
    BY Zenon DEF WalkAlive, Drawn
  <2>1. Parent[m] \in Node /\ (v # Root => Parent[v] \in Node)
    BY TreeAssumption, Zenon
  <2>2. ~Drawn(Parent[m])
    BY Zenon DEF Remove, Drawn
  <2>3. v # Parent[m] /\ v # m
    BY <2>2, Zenon DEF WalkPath
  <2>4. Alive(v) /\ todo[v] \subseteq children[v]
    BY Zenon DEF WalkAlive
  <2> QED
    BY <2>1, <2>3, <2>4, Zenon DEF Remove, Alive, Shape, TrackedTypeOK
<1> QED
  BY <1>1, <1>2, <1>3, Zenon

(* try_lock of TrackedRoot::mutex_ succeeds.                               *)
LEMMA StartDrawLocks ==
  ASSUME Shape, Locks, NEW n \in Node, StartDraw(n)
  PROVE  Locks'
<1> USE DEF Locks
<1>1. at = NULL /\ \A v \in Node : mutex[v] # n
  BY NullAssumption, Zenon DEF StartDraw, BeginDraw, MutexOwner, WalkPath
<1>2. MutexOwner'
  BY NullAssumption, Zenon DEF Shape, TrackedTypeOK, MutexOwner, StartDraw, BeginDraw, Goto, treeVars
<1>3. \A v \in Node : ~Drawn(v)'
  BY <1>1, Zenon DEF StartDraw, BeginDraw, treeVars, Drawn
<1>4. Parent \in [Node \ {Root} -> Node] /\ at' = NULL
  BY <1>1, TreeAssumption, Zenon DEF StartDraw, BeginDraw
<1> QED
  BY <1>2, <1>3, <1>4, Zenon DEF WalkPath, WalkAlive

(* The walk enters the list of Root.                                       *)
LEMMA DrawRootLocks ==
  ASSUME Shape, Locks, NEW n \in Node, DrawRoot(n)
  PROVE  Locks'
<1> USE DEF Locks
<1>0. Root \in Node /\ painter = n /\ n # NULL /\ painter' = n /\ UNCHANGED children
  BY TreeAssumption, NullAssumption, Zenon DEF DrawRoot, VisitRoot, MutexOwner
<1>1. \A v \in Node : mutex[v] # n
  BY <1>0, Zenon DEF DrawRoot, MutexOwner
<1>2. at = NULL
  BY <1>0, <1>1, Zenon DEF WalkPath, Shape, TrackedTypeOK
<1>3. pc' = [pc EXCEPT ![n] = "drawing"] /\ pc[n] = "drawroot" /\ pc \in [Node -> Label]
  BY Zenon DEF DrawRoot, Goto, Shape
<1>4. CASE lines + 1 = MaxRows
  <2>1. UNCHANGED <<mutex, at>>
    BY <1>4, Zenon DEF DrawRoot, VisitRoot, Visit
  <2>2. MutexOwner'
    BY <1>0, <1>1, <1>3, <2>1, Zenon DEF MutexOwner
  <2>3. \A v \in Node : ~Drawn(v)'
    BY <1>0, <1>1, <2>1, Zenon DEF Drawn
  <2> QED
    BY <1>2, <2>1, <2>2, <2>3, Zenon DEF WalkPath, WalkAlive
<1>5. CASE lines + 1 # MaxRows
  <2>1. /\ mutex' = [mutex EXCEPT ![Root] = n] /\ mutex[Root] = NULL /\ at' = Root
        /\ todo' = [todo EXCEPT ![Root] = children[Root]]
    BY <1>5, Zenon DEF DrawRoot, VisitRoot, Visit, EnterIter
  <2>2. mutex \in [Node -> Node \cup {NULL}] /\ todo \in [Node -> SUBSET Node]
    BY Zenon DEF Shape, TrackedTypeOK
  <2>3. MutexOwner'
    BY <1>0, <1>1, <1>3, <2>1, <2>2, NullAssumption, Zenon DEF MutexOwner
  <2>4. \A v \in Node : Drawn(v)' <=> v = Root
    BY <1>0, <1>1, <2>1, <2>2, Zenon DEF Drawn
  <2>5. WalkPath'
    <3>1. (at # NULL => painter # NULL /\ mutex[at] = painter)'
      BY <1>0, <2>1, <2>2, Zenon
    <3>2. Depth[Root] \in Nat
      BY <1>0, TreeAssumption, Zenon
    <3> QED
      BY <1>0, <2>1, <2>4, <3>1, <3>2, NullAssumption DEF WalkPath
  <2>6. WalkAlive'
    BY <1>0, <2>1, <2>2, <2>4, Zenon DEF WalkAlive, Alive
  <2> QED
    BY <2>3, <2>5, <2>6, Zenon
<1> QED
  BY <1>4, <1>5, Zenon

(* The walk enters the list of a child, or finds the terminal full.        *)
LEMMA VisitLocks ==
  ASSUME Shape, Locks, NEW n \in Node, Draw(n), VisitChild(n)
  PROVE  Locks'
<1> USE DEF Locks
<1>0. painter = n /\ n # NULL /\ painter' = n /\ pc[n] = "drawing" /\ UNCHANGED <<pc, children>>
  BY NullAssumption, Zenon DEF Draw, VisitChild, MutexOwner
<1>1. at \in Node /\ Drawn(at)
  BY <1>0, Zenon DEF VisitChild, WalkPath, Drawn, Shape, TrackedTypeOK
<1>2. PICK c \in todo[at] : Visit(n, c, [todo EXCEPT ![at] = @ \ {c}])
  BY Zenon DEF VisitChild
<1>3. c \in children[at]
  BY <1>1, Zenon DEF WalkAlive
<1>4. c \in Node \ {Root} /\ Parent[c] = at /\ Depth[c] = Depth[at] + 1
  BY <1>1, <1>3, TreeAssumption DEF Shape, TrackedTypeOK, Kids
<1>5. /\ mutex \in [Node -> Node \cup {NULL}] /\ todo \in [Node -> SUBSET Node]
      /\ Depth \in [Node -> Nat]
  BY TreeAssumption, Zenon DEF Shape, TrackedTypeOK
<1>6. CASE lines + 1 = MaxRows
  <2>1. UNCHANGED <<mutex, at>> /\ todo' = [todo EXCEPT ![at] = @ \ {c}]
    BY <1>2, <1>6, Zenon DEF Visit
  <2>2. MutexOwner'
    BY <1>0, <2>1, Zenon DEF MutexOwner
  <2>3. \A v \in Node : Drawn(v)' <=> Drawn(v)
    BY <1>0, <2>1, Zenon DEF Drawn
  <2>4. WalkPath'
    BY <1>0, <2>1, Zenon DEF WalkPath, Drawn
  <2>5. WalkAlive'
    BY <1>0, <1>1, <1>5, <2>1, <2>3, Zenon DEF WalkAlive, Alive
  <2> QED
    BY <2>2, <2>4, <2>5, Zenon
<1>7. CASE lines + 1 # MaxRows
  <2>1. /\ mutex[c] = NULL /\ mutex' = [mutex EXCEPT ![c] = n] /\ at' = c
        /\ todo' = [[todo EXCEPT ![at] = @ \ {c}] EXCEPT ![c] = children[c]]
    BY <1>2, <1>7, Zenon DEF Visit, EnterIter
  <2>2. MutexOwner'
    BY <1>0, <1>4, <1>5, <2>1, NullAssumption, Zenon DEF MutexOwner
  <2>3. \A v \in Node : Drawn(v)' <=> Drawn(v) \/ v = c
    BY <1>0, <1>4, <1>5, <2>1, Zenon DEF Drawn
  <2>4. WalkPath'
    <3>1. (at # NULL => painter # NULL /\ mutex[at] = painter)'
      BY <1>0, <1>4, <1>5, <2>1, Zenon
    <3>2. \A v \in Node : Drawn(v) => Depth[v] < Depth[c]
      BY <1>1, <1>4, <1>5 DEF WalkPath
    <3>3. \A v \in Node : Drawn(v)' => at' # NULL /\ Depth[v] <= Depth[at']
      BY <1>4, <1>5, <2>1, <2>3, <3>2, NullAssumption
    <3>4. \A v, w \in Node : Drawn(v)' /\ Drawn(w)' /\ Depth[v] = Depth[w] => v = w
      BY <1>4, <1>5, <2>3, <3>2 DEF WalkPath
    <3>5. \A v \in Node \ {Root} : Drawn(v)' => Drawn(Parent[v])'
      <4>1. \A v \in Node \ {Root} : Parent[v] \in Node
        BY TreeAssumption, Zenon
      <4> QED
        BY <1>1, <1>4, <2>3, <4>1, Zenon DEF WalkPath
    <3> QED
      BY <3>1, <3>3, <3>4, <3>5, Zenon DEF WalkPath
  <2>5. WalkAlive'
    <3>1. Alive(c)
      BY <1>3, <1>4, Zenon DEF Alive
    <3>2. \A v \in Node : v # c => todo'[v] \subseteq todo[v]
      BY <1>1, <1>4, <1>5, <2>1, Zenon
    <3>3. todo'[c] = children[c]
      BY <1>4, <1>5, <2>1, Zenon
    <3>4. \A v \in Node : Alive(v)' <=> Alive(v)
      BY <1>0, Zenon DEF Alive
    <3> QED
      BY <1>0, <2>3, <3>1, <3>2, <3>3, <3>4, Zenon DEF WalkAlive
  <2> QED
    BY <2>2, <2>4, <2>5, Zenon
<1> QED
  BY <1>6, <1>7, Zenon

(* The walk leaves a list, and is back in that of the parent.              *)
LEMMA LeaveLocks ==
  ASSUME Shape, Locks, NEW n \in Node, Draw(n), LeaveVisit
  PROVE  Locks'
<1> USE DEF Locks
<1>0. painter = n /\ n # NULL /\ painter' = n /\ pc[n] = "drawing" /\ UNCHANGED <<pc, children, todo>>
  BY NullAssumption, Zenon DEF Draw, LeaveVisit, MutexOwner
<1>1. at \in Node /\ Drawn(at) /\ mutex[at] = n
  BY <1>0, Zenon DEF LeaveVisit, WalkPath, Drawn, Shape, TrackedTypeOK
<1>2. /\ mutex \in [Node -> Node \cup {NULL}]
      /\ mutex' = [mutex EXCEPT ![at] = NULL]
      /\ at' = IF at = Root THEN NULL ELSE Parent[at]
  BY Zenon DEF LeaveVisit, LeaveIter, Shape, TrackedTypeOK
<1>3. pc[at] # "spawn"
  BY <1>0, <1>1, Zenon DEF MutexOwner
<1>4. MutexOwner'
  BY <1>0, <1>1, <1>2, <1>3, NullAssumption, Zenon DEF MutexOwner
<1>5. \A v \in Node : Drawn(v)' <=> Drawn(v) /\ v # at
  BY <1>0, <1>1, <1>2, Zenon DEF Drawn
<1>6. /\ Depth \in [Node -> Nat] /\ Depth[Root] = 0
      /\ \A v \in Node \ {Root} : Parent[v] \in Node /\ Depth[v] = Depth[Parent[v]] + 1
  BY TreeAssumption, Zenon
<1>7. \A v \in Node : Drawn(v) /\ v # at => Depth[v] < Depth[at]
  BY <1>1, <1>6 DEF WalkPath
<1>8. WalkPath'
  <2>1. CASE at = Root
    <3>1. at' = NULL
      BY <1>2, <2>1, Zenon
    <3>2. \A v \in Node : ~(Depth[v] < Depth[at])
      BY <1>6, <2>1
    <3>3. \A v \in Node : ~Drawn(v)'
      BY <1>5, <1>7, <3>2, Zenon
    <3> QED
      BY <1>6, <3>1, <3>3, Zenon DEF WalkPath
  <2>2. CASE at # Root
    <3>0. at' = Parent[at] /\ Drawn(Parent[at])
      BY <1>1, <1>2, <2>2, Zenon DEF WalkPath
    <3>1. at' \in Node /\ Drawn(at') /\ at' # at /\ Depth[at] = Depth[at'] + 1
      BY <1>1, <1>6, <2>2, <3>0
    <3>2. (at # NULL => painter # NULL /\ mutex[at] = painter)'
      BY <1>0, <1>1, <1>2, <3>1, Zenon DEF Drawn
    <3>3. \A v \in Node : Drawn(v)' => at' # NULL /\ Depth[v] <= Depth[at']
      BY <1>5, <1>6, <1>7, <3>1, NullAssumption
    <3>4. \A v, w \in Node : Drawn(v)' /\ Drawn(w)' /\ Depth[v] = Depth[w] => v = w
      BY <1>5, Zenon DEF WalkPath
    <3>5. \A v \in Node \ {Root} : Drawn(v)' => Drawn(Parent[v])'
      <4> SUFFICES ASSUME NEW v \in Node \ {Root}, Drawn(v)' PROVE Drawn(Parent[v])'
        BY Zenon
      <4>1. Drawn(Parent[v]) /\ Depth[Parent[v]] < Depth[v] /\ Depth[v] < Depth[at]
        BY <1>5, <1>6, <1>7 DEF WalkPath
      <4> QED
        BY <1>5, <1>6, <4>1
    <3> QED
      BY <3>2, <3>3, <3>4, <3>5, Zenon DEF WalkPath
  <2> QED
    BY <2>1, <2>2, Zenon
<1>9. WalkAlive'
  BY <1>0, <1>5, Zenon DEF WalkAlive, Alive
<1> QED
  BY <1>4, <1>8, <1>9, Zenon

(* The walk is over and TrackedRoot::mutex_ is released.                   *)
LEMMA FinishDrawLocks ==
  ASSUME Shape, Locks, NEW n \in Node, FinishDraw(n)
  PROVE  Locks'
<1> USE DEF Locks
<1>1. /\ painter = n /\ pc[n] = "drawing" /\ at = NULL
      /\ painter' = NULL /\ at' = NULL /\ UNCHANGED mutex
  BY Zenon DEF FinishDraw, EndDraw, MutexOwner, treeVars
<1>2. \A v \in Node : mutex[v] # n
  BY <1>1, NullAssumption, Zenon DEF WalkPath, Drawn
<1>3. PICK l \in {"body", "sent"} : pc' = [pc EXCEPT ![n] = l]
  BY Zenon DEF FinishDraw, NextChunk, Sent, Goto
<1>4. MutexOwner'
  BY <1>1, <1>2, <1>3, NullAssumption, Zenon DEF MutexOwner, Shape
<1>5. \A v \in Node : ~Drawn(v)'
  BY <1>1, Zenon DEF Drawn
<1> QED
  BY <1>1, <1>4, <1>5, NullAssumption, Zenon DEF WalkPath, WalkAlive

(* Both ends of parallel_iter_children, which leave the walk alone.        *)
LEMMA SpawnLocks ==
  ASSUME Shape, Locks, NEW n \in Node, IterChildren(n) \/ EndSpawn(n)
  PROVE  Locks'
<1> USE DEF Locks
<1>1. painter # n /\ UNCHANGED <<children, painter, at, todo>>
  BY Zenon DEF IterChildren, EndSpawn, MutexOwner, drawVars
<1>2. mutex \in [Node -> Node \cup {NULL}] /\ pc \in [Node -> Label]
  BY Zenon DEF Shape, TrackedTypeOK
<1>3. mutex[n] # painter \/ painter = NULL
  BY <1>1, NullAssumption, Zenon DEF IterChildren, EnterIter, EndSpawn, MutexOwner
<1>4. MutexOwner'
  <2>1. CASE IterChildren(n)
    BY <1>1, <1>2, <2>1, NullAssumption, Zenon DEF IterChildren, EnterIter, Goto, MutexOwner
  <2>2. CASE EndSpawn(n)
    BY <1>1, <1>2, <2>2, NullAssumption DEF EndSpawn, LeaveIter, Goto, MutexOwner
  <2> QED
    BY <2>1, <2>2, Zenon
<1>5. /\ \A v \in Node : v # n => mutex'[v] = mutex[v]
      /\ mutex'[n] # painter \/ painter = NULL
  BY <1>1, <1>2, Zenon DEF IterChildren, EnterIter, EndSpawn, LeaveIter
<1>6. \A v \in Node : Drawn(v)' <=> Drawn(v)
  BY <1>1, <1>3, <1>5, Zenon DEF Drawn
<1>7. WalkPath'
  <2>1. (at # NULL => painter # NULL /\ mutex[at] = painter)'
    BY <1>1, <1>3, <1>5, Zenon DEF WalkPath, Shape, TrackedTypeOK
  <2>2. \A v \in Node \ {Root} : Parent[v] \in Node
    BY TreeAssumption, Zenon
  <2> QED
    BY <1>1, <1>6, <2>1, <2>2, Zenon DEF WalkPath
<1>8. WalkAlive'
  BY <1>1, <1>6, Zenon DEF WalkAlive, Alive
<1> QED
  BY <1>4, <1>7, <1>8, Zenon

(* The steps of a task that touch no lock and no list, neither cur nor     *)
(* pending, and do not spawn.                                              *)
Quiet == Sending \cup {"report", "drain", "done"}

QuietMove(n) ==
  \/ UNCHANGED pc
  \/ /\ pc[n] \in Sending
     /\ \E l \in Quiet \ {"queued"} : Goto(n, l)
  \/ /\ pc[n] \in {"report", "drain"}
     /\ \E l \in {"drain", "done"} : Goto(n, l)

QuietStep(n) ==
  /\ QuietMove(n)
  /\ UNCHANGED <<lockVars, cur, pending>>
  /\ {pc[n], pc'[n]} \cap {"drawroot", "drawing"} = {}

(* The actions that are such steps.                                        *)
LEMMA QuietSteps ==
  ASSUME Shape, NEW n \in Node,
         \/ Start(n) \/ LoadSeq(n) \/ LoadInc(n) \/ StoreSeq(n)
         \/ SendHeader(n) \/ SendPath(n) \/ OpenFile(n) \/ SendChunk(n)
         \/ TickDone(n) \/ TickSumDone(n) \/ SkipDraw(n)
         \/ Report(n) \/ Drain(n)
  PROVE  QuietStep(n)
<1> USE DEF Shape, QuietStep, QuietMove, Quiet, Sending, Goto, lockVars, trackedVars, treeVars,
        drawVars, SendVars
<1>1. ASSUME Start(n) \/ LoadSeq(n) \/ LoadInc(n) \/ StoreSeq(n) PROVE QuietStep(n)
  BY <1>1, Zenon DEF Start, LoadSeq, LoadInc, StoreSeq
<1>2. ASSUME SendHeader(n) \/ SendPath(n) \/ OpenFile(n) PROVE QuietStep(n)
  BY <1>2, Zenon DEF SendHeader, SendPath, OpenFile, Sent
<1>3. ASSUME SendChunk(n) \/ TickDone(n) \/ TickSumDone(n) PROVE QuietStep(n)
  BY <1>3, Zenon DEF SendChunk, TickDone, TickSumDone
<1>4. ASSUME SkipDraw(n) \/ Report(n) \/ Drain(n) PROVE QuietStep(n)
  BY <1>4, Zenon DEF SkipDraw, NextChunk, Sent, Report, Drain
<1> QED
  BY <1>1, <1>2, <1>3, <1>4, Zenon

(* Every step of the specification.                                        *)
LEMMA NextLocks == Shape /\ Locks /\ [Next]_vars => Locks'
<1> SUFFICES ASSUME Shape, Locks, [Next]_vars PROVE Locks'
  BY Zenon
<1>1. ASSUME NEW n \in Node, QuietStep(n) PROVE Locks'
  <2>1. CASE UNCHANGED pc
    BY <1>1, <2>1, StillLocks, Zenon DEF QuietStep
  <2>2. CASE ~UNCHANGED pc
    <3>1. PICK l \in Quiet : Goto(n, l)
      BY <1>1, <2>2, Zenon DEF QuietStep, QuietMove, Quiet
    <3>2. pc[n] \notin {"spawn", "drawroot", "drawing"} /\ UNCHANGED lockVars
      BY <1>1, <2>2, Zenon DEF QuietStep, QuietMove, Sending
    <3>3. l \in Label \ {"spawn", "drawroot", "drawing"}
      BY <1>1, <3>1, Zenon DEF Quiet, Sending, Label, QuietStep, Goto, Shape
    <3> QED
      BY <3>1, <3>2, <3>3, QuietLocks, Zenon
  <2> QED
    BY <2>1, <2>2, Zenon
<1>2. ASSUME NEW n \in Node, StartDraw(n) PROVE Locks'
  BY <1>2, StartDrawLocks, Zenon
<1>3. ASSUME NEW n \in Node, DrawRoot(n) PROVE Locks'
  BY <1>3, DrawRootLocks, Zenon
<1>4. ASSUME NEW n \in Node, Draw(n) PROVE Locks'
  BY <1>4, VisitLocks, LeaveLocks, Zenon DEF Draw
<1>5. ASSUME NEW n \in Node, FinishDraw(n) PROVE Locks'
  BY <1>5, FinishDrawLocks, Zenon
<1>6. ASSUME NEW n \in Node, IterChildren(n) \/ EndSpawn(n) PROVE Locks'
  BY <1>6, SpawnLocks, Zenon
<1>7. ASSUME NEW n \in Node, AfterSend(n) \/ WaitGroup(n) \/ Bubble(n) PROVE Locks'
  <2>1. /\ pc[n] \notin {"spawn", "drawroot", "drawing"} /\ UNCHANGED lockVars
        /\ \E l \in {"iter", "remove", "done", "climb"} : Goto(n, l)
    BY <1>7, Zenon DEF AfterSend, WaitGroup, Bubble, lockVars, trackedVars, treeVars, drawVars
  <2> QED
    BY <2>1, QuietLocks, Zenon DEF Label
<1>8. ASSUME NEW n \in Node, SpawnChild(n) PROVE Locks'
  <2>1. PICK c \in children[n] : pc[c] = "new" /\ Goto(c, "queued")
    BY <1>8, Zenon DEF SpawnChild
  <2>2. c \in Node /\ UNCHANGED lockVars
    BY <1>8, Zenon DEF SpawnChild, Shape, TrackedTypeOK, lockVars, trackedVars, treeVars, drawVars
  <2> QED
    BY <2>1, <2>2, QuietLocks, Zenon DEF Label
<1>9. ASSUME NEW n \in Node, RemoveLeaf(n) PROVE Locks'
  BY <1>9, RemoveLocks, Zenon DEF RemoveLeaf, drawVars, Shape
<1>10. ASSUME NEW n \in Node, Climb(n) PROVE Locks'
  <2>1. CASE cur[n] = Root
    <3>1. pc[n] = "climb" /\ UNCHANGED lockVars /\ Goto(n, "done")
      BY <1>10, <2>1, Zenon DEF Climb, lockVars, drawVars
    <3> QED
      BY <3>1, QuietLocks, Zenon DEF Label
  <2>2. CASE cur[n] # Root
    BY <1>10, <2>2, RemoveLocks, Zenon DEF Climb, drawVars, Shape
  <2> QED
    BY <2>1, <2>2, Zenon
<1>11. ASSUME Terminate \/ DaemonExits \/ UNCHANGED vars PROVE Locks'
  BY <1>11, StillLocks, Zenon
  DEF Terminate, DaemonExits, vars, syncVars, lockVars, trackedVars, treeVars, drawVars
<1> QED
  BY <1>1, <1>2, <1>3, <1>4, <1>5, <1>6, <1>7, <1>8, <1>9, <1>10, <1>11, QuietSteps, Zenon
  DEF Next, Step, Finished

-----------------------------------------------------------------------------
(* Tasks and messages.                                                     *)

Order ==
  \A c \in Node \ {Root} : pc[c] # "new" => pc[Parent[c]] \in {"spawn", "wait", "done"}

Linked ==
  /\ \A n \in Node : pc[n] \in Sending \cup {"new", "remove", "iter", "spawn"} => Alive(n)
  /\ \A n \in Node : children[n] # {} => Alive(n)
  /\ \A n \in Node : pc[n] = "remove" => children[n] = {}

Climbing ==
  \A m \in Node : pc[m] \in {"bubble", "climb"} =>
    /\ pc[cur[m]] \in {"wait", "done"}
    /\ pending[cur[m]] # Absent
    /\ Alive(cur[m])

Entries ==
  /\ \A n \in Node : pc[n] \in {"iter", "spawn"} => pending[n] # Absent
  /\ \A c \in Node \ {Root} :
       c \in children[Parent[c]] /\ pc[c] # "new" => pending[Parent[c]] # Absent

Tasks == Order /\ Linked /\ Climbing /\ Entries /\ PendingExact /\ BubbleSound

IInv == Shape /\ Locks /\ Tasks

-----------------------------------------------------------------------------
(* At first only the task of Root exists, and nothing has been removed.    *)
LEMMA InitTasks == Init => Tasks
BY TreeAssumption
DEF Init, Scanned, Tasks, Order, Linked, Climbing, Entries, PendingExact, BubbleSound,
    Alive, Kids, Sending

(* A step that only moves a task between labels where it holds its node.   *)
LEMMA QuietTasks ==
  ASSUME Shape, Tasks, NEW n \in Node, QuietMove(n), UNCHANGED <<children, cur, pending>>
  PROVE  Tasks'
<1> USE DEF Tasks
<1>1. \A m \in Node : m # n => pc'[m] = pc[m]
  BY DEF QuietMove, Goto, Shape
<1>2. \/ pc'[n] = pc[n]
      \/ pc[n] \in Sending /\ pc'[n] \in Quiet
      \/ pc[n] \in {"report", "drain"} /\ pc'[n] \in {"drain", "done"}
  BY DEF QuietMove, Goto, Shape
<1>3. Order'
  BY <1>1, <1>2, TreeAssumption, Zenon DEF Order, Quiet, Sending
<1>4. Linked'
  BY <1>1, <1>2 DEF Linked, Alive, Quiet, Sending
<1>5. Climbing'
  BY <1>1, <1>2, Zenon DEF Climbing, Alive, Quiet, Sending, Shape
<1>6. Entries'
  BY <1>1, <1>2, Zenon DEF Entries, Quiet, Sending
<1>7. \A p \in Node : Owing(p)' = Owing(p)
  BY <1>1, <1>2, Zenon DEF Owing, Quiet, Sending
<1>8. PendingExact'
  BY <1>7, Zenon DEF PendingExact
<1>9. BubbleSound'
  BY <1>1, <1>2 DEF BubbleSound, Quiet, Sending
<1> QED
  BY <1>3, <1>4, <1>5, <1>6, <1>8, <1>9, Zenon

(* A directory enters its count into pending; a leaf goes to be removed.   *)
LEMMA AfterSendTasks ==
  ASSUME Shape, Tasks, NEW n \in Node, AfterSend(n)
  PROVE  Tasks'
<1> USE DEF Tasks
<1>1. /\ pc[n] = "sent" /\ pc'[n] \in {"iter", "remove"} /\ UNCHANGED <<children, cur>>
      /\ \A m \in Node : m # n => pc'[m] = pc[m] /\ pending'[m] = pending[m]
  BY Zenon DEF AfterSend, Goto, Shape, trackedVars, treeVars
<1>2. IsFiniteSet(children[n]) /\ Cardinality(children[n]) \in Nat
  BY CardinalityNat, Zenon DEF Shape, TrackedTypeOK
<1>3. \/ pc'[n] = "iter" /\ pending'[n] = Cardinality(children[n])
      \/ pc'[n] = "remove" /\ children[n] = {} /\ pending'[n] = pending[n]
  <2>1. n \in Dir \/ children[n] = {}
    BY TreeAssumption DEF Shape, TrackedTypeOK, Kids
  <2> QED
    BY <2>1, Zenon DEF AfterSend, Goto, Shape
<1>4. \A m \in Node : pc[m] \in {"bubble", "climb"} => cur[m] # n
  BY <1>1, Zenon DEF Climbing
<1>5. Order'
  BY <1>1, TreeAssumption, Zenon DEF Order
<1>6. Linked'
  <2>1. Alive(n) /\ \A m \in Node : Alive(m)' <=> Alive(m)
    BY <1>1, Zenon DEF Linked, Alive, Sending
  <2> QED
    BY <1>1, <1>3, <2>1, Zenon DEF Linked
<1>7. Climbing'
  BY <1>1, <1>4, Zenon DEF Climbing, Alive, Shape
<1>8. Entries'
  BY <1>1, <1>2, <1>3, TreeAssumption DEF Entries
<1>9. /\ \A p \in Node : Owing(p)' = Owing(p)
      /\ Owing(n) = {}
  BY <1>1, <1>4, Zenon DEF Owing
<1>10. PendingExact'
  <2>1. ASSUME NEW p \in Node, p # n, pending'[p] # Absent
        PROVE  pending'[p] = Cardinality(children'[p]) + Cardinality(Owing(p)')
    BY <1>1, <1>9, <2>1, Zenon DEF PendingExact
  <2>2. ASSUME pending'[n] # Absent
        PROVE  pending'[n] = Cardinality(children'[n]) + Cardinality(Owing(n)')
    <3>1. Owing(n)' = {} /\ children'[n] = children[n] /\ Cardinality({}) = 0
      BY <1>1, <1>9, FS_EmptySet, Zenon
    <3>2. CASE pending'[n] = Cardinality(children[n])
      BY <1>2, <3>1, <3>2
    <3>3. CASE pending'[n] = pending[n]
      BY <1>9, <2>2, <3>1, <3>3, Zenon DEF PendingExact
    <3> QED
      BY <1>3, <3>2, <3>3, Zenon
  <2> QED
    BY <2>1, <2>2, Zenon DEF PendingExact
<1>11. BubbleSound'
  BY <1>1, <1>4 DEF BubbleSound, Shape
<1> QED
  BY <1>5, <1>6, <1>7, <1>8, <1>10, <1>11, Zenon

(* The steps of the fan-out: a child is spawned, or the task goes on.      *)
LEMMA FanTasks ==
  ASSUME Shape, Tasks, NEW n \in Node,
         IterChildren(n) \/ SpawnChild(n) \/ EndSpawn(n) \/ WaitGroup(n)
  PROVE  Tasks'
<1> USE DEF Tasks
<1>1. UNCHANGED <<children, cur, pending>>
  BY Zenon DEF IterChildren, SpawnChild, EndSpawn, WaitGroup, trackedVars, treeVars
<1>2. PICK c \in Node :
        /\ \A m \in Node : m # c => pc'[m] = pc[m]
        /\ \/ pc[c] = "iter" /\ pc'[c] = "spawn"
           \/ pc[c] = "spawn" /\ pc'[c] = "wait"
           \/ pc[c] = "wait" /\ pc'[c] = "done"
           \/ /\ pc[c] = "new" /\ pc'[c] = "queued" /\ pc[n] = "spawn"
              /\ c \in children[n] /\ c # Root /\ Parent[c] = n
  <2>1. CASE SpawnChild(n)
    <3>1. PICK c \in children[n] : pc[c] = "new" /\ Goto(c, "queued")
      BY <2>1, Zenon DEF SpawnChild
    <3>2. c \in Node /\ c # Root /\ Parent[c] = n
      BY Zenon DEF Shape, TrackedTypeOK, Kids
    <3> QED
      BY <2>1, <3>1, <3>2, Zenon DEF SpawnChild, Goto, Shape
  <2>2. CASE IterChildren(n) \/ EndSpawn(n) \/ WaitGroup(n)
    BY <2>2, Zenon DEF IterChildren, EndSpawn, WaitGroup, Goto, Shape
  <2> QED
    BY <2>1, <2>2, Zenon
<1>3. Order'
  BY <1>2, TreeAssumption, Zenon DEF Order
<1>4. Linked'
  BY <1>1, <1>2, Zenon DEF Linked, Alive, Sending
<1>5. Climbing'
  BY <1>1, <1>2, Zenon DEF Climbing, Alive, Shape
<1>6. Entries'
  BY <1>1, <1>2, Zenon DEF Entries
<1>7. \A p \in Node : Owing(p)' = Owing(p)
  BY <1>1, <1>2, Zenon DEF Owing
<1>8. PendingExact'
  BY <1>1, <1>7, Zenon DEF PendingExact
<1>9. BubbleSound'
  BY <1>1, <1>2, Zenon DEF BubbleSound
<1> QED
  BY <1>3, <1>4, <1>5, <1>6, <1>8, <1>9, Zenon

(* The decrement in bubble, by one of the tasks that owe it.               *)
LEMMA BubbleTasks ==
  ASSUME Shape, Tasks, NEW n \in Node, Bubble(n)
  PROVE  Tasks'
<1> USE DEF Tasks
<1>0. PICK q \in Node : q = cur[n]
  BY Zenon DEF Shape
<1>1. /\ q = cur[n] /\ pc[n] = "bubble" /\ UNCHANGED <<children, cur>>
      /\ \A m \in Node : m # n => pc'[m] = pc[m]
      /\ \A p \in Node : p # q => pending'[p] = pending[p]
      /\ pending[q] \in Int /\ pending'[q] = pending[q] - 1
      /\ pc'[n] \in {"climb", "done"} /\ (pc'[n] = "climb" => pending'[q] = 0)
  BY <1>0, Zenon DEF Bubble, Goto, Shape, trackedVars, treeVars
<1>2. pending[q] > 0
  BY <1>1, Zenon DEF BubbleSound
<1>3. n \in Owing(q) /\ Owing(q) \subseteq Node
  BY <1>1, Zenon DEF Owing
<1>4. Owing(q)' = Owing(q) \ {n} /\ \A p \in Node : p # q => Owing(p)' = Owing(p)
  BY <1>1, Zenon DEF Owing
<1>5. /\ Cardinality(Owing(q)) \in Nat /\ Cardinality(children[q]) \in Nat
      /\ Cardinality(Owing(q) \ {n}) = Cardinality(Owing(q)) - 1
  <2>1. children[q] \subseteq Node
    BY Zenon DEF Shape, TrackedTypeOK
  <2> QED
    BY <1>3, <2>1, CardinalityNat, FS_RemoveElement, Zenon
<1>6. pending[q] = Cardinality(children[q]) + Cardinality(Owing(q))
  BY <1>1, <1>2 DEF PendingExact
<1>7. Order'
  BY <1>1, TreeAssumption, Zenon DEF Order
<1>8. Linked'
  BY <1>1, Zenon DEF Linked, Alive, Sending
<1>9. Climbing'
  BY <1>1, <1>2 DEF Climbing, Alive, Shape
<1>10. Entries'
  BY <1>1, <1>2, TreeAssumption DEF Entries
<1>11. PendingExact'
  <2>1. pending'[q] = Cardinality(children'[q]) + Cardinality(Owing(q)')
    BY <1>1, <1>4, <1>5, <1>6
  <2> QED
    BY <1>1, <1>4, <2>1, Zenon DEF PendingExact
<1>12. BubbleSound'
  <2>1. ASSUME NEW m \in Node, m # n, pc[m] = "bubble", cur[m] = q PROVE pending[q] > 1
    <3>1. m \in Owing(q) \ {n} /\ IsFiniteSet(Owing(q) \ {n})
      BY <1>3, <2>1, CardinalityNat, Zenon DEF Owing
    <3>2. Cardinality(Owing(q) \ {n}) \in Nat /\ Cardinality(Owing(q) \ {n}) # 0
      BY <3>1, FS_EmptySet, FS_CardinalityType, Zenon
    <3> QED
      BY <1>5, <1>6, <3>2
  <2>2. \A m \in Node : pc[m] = "climb" => cur[m] # q
    BY <1>2 DEF BubbleSound
  <2>3. \A m \in Node : pc'[m] = "bubble" => pending'[cur'[m]] > 0
    BY <1>1, <2>1 DEF BubbleSound, Shape
  <2>4. \A m \in Node : pc'[m] = "climb" => pending'[cur'[m]] = 0
    BY <1>1, <2>2 DEF BubbleSound, Shape
  <2>5. \A m, k \in Node :
          pc'[m] = "climb" /\ pc'[k] = "climb" /\ cur'[m] = cur'[k] => m = k
    BY <1>1, <2>2 DEF BubbleSound
  <2> QED
    BY <2>3, <2>4, <2>5, Zenon DEF BubbleSound
<1> QED
  BY <1>7, <1>8, <1>9, <1>10, <1>11, <1>12, Zenon

(* Removing q, a node that is linked, empty and nobody else's business.    *)
LEMMA DetachTasks ==
  ASSUME Shape, Locks, Tasks,
         NEW n \in Node, pc[n] \in {"remove", "climb"},
         NEW q \in Node \ {Root}, q = n \/ pc[q] \in {"wait", "done"},
         children[q] = {}, q \in children[Parent[q]],
         \A m \in Node \ {n} : pc[m] \in {"bubble", "climb"} => cur[m] # q,
         Remove(q), Goto(n, "bubble"), cur' = [cur EXCEPT ![n] = Parent[q]],
         \/ pending' = pending
         \/ pending' = [pending EXCEPT ![q] = Absent]
  PROVE  Tasks'
<1> USE DEF Tasks
<1> DEFINE p == Parent[q]
<1>1. p \in Node /\ p # q /\ q \in Node
  BY TreeAssumption, Zenon
<1>2. /\ pc'[n] = "bubble" /\ cur'[n] = p
      /\ \A m \in Node : m # n => pc'[m] = pc[m] /\ cur'[m] = cur[m]
      /\ \A m \in Node : m # q => pending'[m] = pending[m]
      /\ pending'[q] \in {pending[q], Absent}
  BY Zenon DEF Goto, Shape
<1>3. /\ children'[p] = children[p] \ {q}
      /\ \A m \in Node : m # p => children'[m] = children[m]
  BY <1>1, Zenon DEF Remove, Shape, TrackedTypeOK
<1>4. pc[p] \in {"wait", "done"}
  <2>1. pc[p] # "spawn"
    BY <1>1, NullAssumption, Zenon DEF Remove, Locks, MutexOwner
  <2> QED
    BY <2>1, Zenon DEF Order
<1>5. pending[p] # Absent /\ Alive(p)
  BY <1>1, Zenon DEF Entries, Linked
<1>6. \A m \in Node : m # q => (Alive(m)' <=> Alive(m))
  BY <1>1, <1>3, TreeAssumption, Zenon DEF Alive
<1>7. Order'
  BY <1>2, TreeAssumption, Zenon DEF Order
<1>8. Linked'
  <2>1. \A m \in Node : children'[m] # {} => m # q /\ children[m] # {}
    BY <1>1, <1>3, Zenon
  <2>2. pc'[q] \notin Sending \cup {"new", "remove", "iter", "spawn"}
    BY <1>2, Zenon DEF Sending
  <2> QED
    BY <1>2, <1>6, <2>1, <2>2 DEF Linked, Sending
<1>9. Climbing'
  BY <1>1, <1>2, <1>4, <1>5, <1>6 DEF Climbing, Shape
<1>10. Entries'
  <2>1. \A m \in Node : pc'[m] \in {"iter", "spawn"} => pending'[m] # Absent
    BY <1>2, Zenon DEF Entries
  <2>2. ASSUME NEW c \in Node \ {Root}, c \in children'[Parent[c]], pc'[c] # "new"
        PROVE  pending'[Parent[c]] # Absent
    <3>1. Parent[c] \in Node /\ Parent[c] # q /\ c \in children[Parent[c]] /\ pc[c] # "new"
      BY <1>1, <1>2, <1>3, <2>2, TreeAssumption, Zenon
    <3> QED
      BY <1>2, <3>1, Zenon DEF Entries
  <2> QED
    BY <2>1, <2>2, Zenon DEF Entries
<1>11. n \notin Owing(p) /\ Owing(p)' = Owing(p) \cup {n}
  BY <1>2 DEF Owing
<1>12. \A m \in Node : m # p => Owing(m)' = Owing(m)
  BY <1>2 DEF Owing
<1>13. /\ Cardinality(Owing(p)) \in Nat /\ Cardinality(Owing(p)') = Cardinality(Owing(p)) + 1
       /\ Cardinality(children[p]) \in Nat
       /\ Cardinality(children'[p]) = Cardinality(children[p]) - 1
  <2>1. Owing(p) \subseteq Node /\ children[p] \subseteq Node
    BY <1>1, Zenon DEF Owing, Shape, TrackedTypeOK
  <2> QED
    BY <1>3, <1>11, <2>1, CardinalityNat, FS_AddElement, FS_RemoveElement
<1>14. pending[p] = Cardinality(children[p]) + Cardinality(Owing(p))
  BY <1>1, <1>5, Zenon DEF PendingExact
<1>15. PendingExact'
  <2>1. pending'[p] = Cardinality(children'[p]) + Cardinality(Owing(p)')
    BY <1>1, <1>2, <1>13, <1>14
  <2>2. ASSUME NEW m \in Node, m # p, pending'[m] # Absent
        PROVE  pending'[m] = Cardinality(children'[m]) + Cardinality(Owing(m)')
    BY <1>2, <1>3, <1>12, <2>2 DEF PendingExact
  <2> QED
    BY <2>1, <2>2, Zenon DEF PendingExact
<1>16. Cardinality(children[p]) # 0
  BY <1>1, CardinalityNat, FS_EmptySet, Zenon DEF Shape, TrackedTypeOK
<1>17. BubbleSound'
  <2>1. \A m \in Node : pc'[m] = "bubble" => pending'[cur'[m]] > 0
    <3>1. pending'[cur'[n]] > 0
      BY <1>1, <1>2, <1>13, <1>14, <1>16
    <3>2. ASSUME NEW m \in Node, m # n, pc'[m] = "bubble" PROVE pending'[cur'[m]] > 0
      BY <1>2, <3>2 DEF BubbleSound, Shape
    <3> QED
      BY <3>1, <3>2, Zenon
  <2>2. \A m \in Node : pc'[m] = "climb" => pending'[cur'[m]] = 0
    BY <1>2 DEF BubbleSound, Shape
  <2>3. \A m, k \in Node :
          pc'[m] = "climb" /\ pc'[k] = "climb" /\ cur'[m] = cur'[k] => m = k
    BY <1>2 DEF BubbleSound
  <2> QED
    BY <2>1, <2>2, <2>3, Zenon DEF BubbleSound
<1> QED
  BY <1>7, <1>8, <1>9, <1>10, <1>15, <1>17, Zenon

(* A regular file or an empty directory is removed by its own task.        *)
LEMMA RemoveLeafTasks ==
  ASSUME Shape, Locks, Tasks, NEW n \in Node, RemoveLeaf(n)
  PROVE  Tasks'
<1>1. n # Root /\ pc[n] = "remove" /\ children[n] = {} /\ Alive(n)
  BY Zenon DEF RemoveLeaf, Shape, Tasks, Linked
<1>2. \A m \in Node : pc[m] \in {"bubble", "climb"} => cur[m] # n
  BY <1>1, Zenon DEF Tasks, Climbing
<1> QED
  BY <1>1, <1>2, DetachTasks, Zenon DEF RemoveLeaf, Alive

(* bubble removes a directory whose count has reached zero.                *)
LEMMA ClimbTasks ==
  ASSUME Shape, Locks, Tasks, NEW n \in Node, Climb(n)
  PROVE  Tasks'
<1>0. PICK q \in Node : q = cur[n]
  BY Zenon DEF Shape
<1>1. /\ pc[n] = "climb" /\ pending[q] = 0 /\ Alive(q) /\ pc[q] \in {"wait", "done"}
      /\ pending' = [pending EXCEPT ![q] = Absent]
  BY <1>0, Zenon DEF Climb, Tasks, BubbleSound, Climbing
<1>2. children[q] = {} /\ Owing(q) = {}
  <2>1. children[q] \subseteq Node /\ Owing(q) \subseteq Node
    BY Zenon DEF Shape, TrackedTypeOK, Owing
  <2>2. Cardinality(children[q]) + Cardinality(Owing(q)) = 0
    BY <1>1 DEF Tasks, PendingExact
  <2> QED
    BY <2>1, <2>2, CardinalityNat, FS_EmptySet
<1>3. \A m \in Node \ {n} : pc[m] \in {"bubble", "climb"} => cur[m] # q
  BY <1>0, <1>1, <1>2, Zenon DEF Tasks, BubbleSound, Owing
<1>4. CASE q = Root
  <2> USE DEF Tasks
  <2>1. /\ UNCHANGED <<children, cur>> /\ pc'[n] = "done"
        /\ \A m \in Node : m # n => pc'[m] = pc[m]
        /\ \A m \in Node : m # q => pending'[m] = pending[m]
        /\ pending'[q] = Absent
    BY <1>0, <1>1, <1>4 DEF Climb, Goto, Shape
  <2>2. Order'
    BY <1>1, <2>1, TreeAssumption, Zenon DEF Order
  <2>3. Linked'
    BY <2>1, Zenon DEF Linked, Alive, Sending
  <2>4. Climbing'
    BY <1>3, <2>1, Zenon DEF Climbing, Alive, Shape
  <2>5. Entries'
    BY <1>1, <1>2, <2>1, TreeAssumption DEF Entries
  <2>6. \A p \in Node : Owing(p)' = Owing(p)
    BY <1>1, <2>1, Zenon DEF Owing
  <2>7. PendingExact'
    BY <2>1, <2>6, Zenon DEF PendingExact
  <2>8. BubbleSound'
    BY <1>3, <2>1 DEF BubbleSound, Shape
  <2> QED
    BY <2>2, <2>3, <2>4, <2>5, <2>7, <2>8, Zenon
<1>5. CASE q # Root
  <2>1. /\ q \in children[Parent[q]] /\ Remove(q) /\ Goto(n, "bubble")
        /\ cur' = [cur EXCEPT ![n] = Parent[q]]
    BY <1>0, <1>1, <1>5, Zenon DEF Climb, Alive
  <2> QED
    BY <1>1, <1>2, <1>3, <1>5, <2>1, DetachTasks, Zenon
<1> QED
  BY <1>4, <1>5, Zenon

(* Every step of the specification.                                        *)
LEMMA NextTasks == Shape /\ Locks /\ Tasks /\ [Next]_vars => Tasks'
<1> SUFFICES ASSUME Shape, Locks, Tasks, [Next]_vars PROVE Tasks'
  BY Zenon
<1>1. ASSUME NEW n \in Node, QuietStep(n) PROVE Tasks'
  BY <1>1, QuietTasks, Zenon DEF QuietStep, lockVars
<1>2. ASSUME NEW n \in Node, StartDraw(n) \/ DrawRoot(n) \/ Draw(n) \/ FinishDraw(n)
      PROVE  Tasks'
  <2>1. QuietMove(n) /\ UNCHANGED <<children, cur, pending>>
    BY <1>2, Zenon DEF StartDraw, DrawRoot, Draw, FinishDraw, NextChunk, Sent, QuietMove, Quiet,
                Sending, treeVars, SendVars
  <2> QED
    BY <2>1, QuietTasks, Zenon
<1>3. ASSUME NEW n \in Node, AfterSend(n) PROVE Tasks'
  BY <1>3, AfterSendTasks, Zenon
<1>4. ASSUME NEW n \in Node,
             IterChildren(n) \/ SpawnChild(n) \/ EndSpawn(n) \/ WaitGroup(n)
      PROVE  Tasks'
  BY <1>4, FanTasks, Zenon
<1>5. ASSUME NEW n \in Node, RemoveLeaf(n) PROVE Tasks'
  BY <1>5, RemoveLeafTasks, Zenon
<1>6. ASSUME NEW n \in Node, Bubble(n) PROVE Tasks'
  BY <1>6, BubbleTasks, Zenon
<1>7. ASSUME NEW n \in Node, Climb(n) PROVE Tasks'
  BY <1>7, ClimbTasks, Zenon
<1>8. ASSUME Terminate \/ DaemonExits \/ UNCHANGED vars PROVE Tasks'
  <2>1. UNCHANGED <<children, cur, pending, pc>> /\ Root \in Node
    BY <1>8, TreeAssumption, Zenon DEF Terminate, DaemonExits, vars, syncVars, trackedVars, treeVars
  <2> QED
    BY <2>1, QuietTasks, Zenon DEF QuietMove
<1> QED
  BY <1>1, <1>2, <1>3, <1>4, <1>5, <1>6, <1>7, <1>8, QuietSteps, Zenon DEF Next, Step, Finished

-----------------------------------------------------------------------------
(* The theorems.                                                           *)

(* The inductive invariant holds of every behaviour of sync_with_remote.   *)
THEOREM Inductive == Spec => []IInv
<1>1. Init => IInv
  BY InitShape, InitLocks, InitTasks, Zenon DEF IInv
<1>2. IInv /\ [Next]_vars => IInv'
  BY NextShape, NextLocks, NextTasks, Zenon DEF IInv
<1> QED
  BY <1>1, <1>2, PTL DEF Spec

(* Every variable keeps its type; above all, no entry of pending is ever   *)
(* decremented below zero by bubble.                                       *)
THEOREM TypeCorrect == Spec => []TypeOK
<1>1. IInv => TypeOK
  <2> SUFFICES ASSUME IInv PROVE TypeOK
    BY Zenon
  <2>1. PendingExact
    BY Zenon DEF IInv, Tasks
  <2>2. ASSUME NEW p \in Node PROVE pending[p] \in Nat \cup {Absent}
    <3>1. children[p] \subseteq Node /\ Owing(p) \subseteq Node
      BY Zenon DEF IInv, Shape, TrackedTypeOK, Owing
    <3>2. Cardinality(children[p]) \in Nat /\ Cardinality(Owing(p)) \in Nat
      BY <3>1, CardinalityNat, Zenon
    <3> QED
      BY <2>1, <3>2 DEF PendingExact
  <2>3. pending \in [Node -> Nat \cup {Absent}]
    BY <2>2, Zenon DEF IInv, Shape
  <2> QED
    BY <2>3, Zenon DEF IInv, Shape, TypeOK
<1> QED
  BY <1>1, Inductive, PTL

(* The count bubble decrements is exact at every moment, in every tree and *)
(* with any number of threads.                                             *)
THEOREM PendingIsExact == Spec => []PendingExact
<1>1. IInv => PendingExact
  BY Zenon DEF IInv, Tasks
<1> QED
  BY <1>1, Inductive, PTL

(* bubble finds its entry, never takes it below zero, and one task only    *)
(* removes each directory.                                                 *)
THEOREM BubbleIsSound == Spec => []BubbleSound
<1>1. IInv => BubbleSound
  BY Zenon DEF IInv, Tasks
<1> QED
  BY <1>1, Inductive, PTL

(* No task and no walk of display_progress uses a destroyed node.          *)
THEOREM NothingDangles == Spec => []NoDangling
<1>1. IInv => NoDangling
  <2> SUFFICES ASSUME IInv PROVE NoDangling
    BY Zenon
  <2> USE DEF IInv
  <2>1. \A n \in Holding : Alive(n)
    BY Zenon DEF Shape, Label, Holding, Tasks, Linked, Sending
  <2>2. \A n \in Node : pc[n] \in {"bubble", "climb"} => Alive(cur[n])
    BY Zenon DEF Tasks, Climbing
  <2>3. painter # NULL =>
          \A v \in Node : mutex[v] = painter => Alive(v) /\ todo[v] \subseteq children[v]
    BY Zenon DEF Locks, WalkAlive, Drawn
  <2>4. \A n \in Node : children[n] # {} => Alive(n)
    BY Zenon DEF Tasks, Linked
  <2> QED
    BY <2>1, <2>2, <2>3, <2>4, Zenon DEF NoDangling
<1> QED
  BY <1>1, Inductive, PTL

-----------------------------------------------------------------------------
(* Sends.                                                                  *)

(* Before and after the message has been written.                          *)
Before == Sending \ {"sent"}
After == {"sent", "remove", "bubble", "climb", "iter", "spawn", "wait"}

SentExact ==
  /\ \A n \in Node : sent[n] \in {0, 1}
  /\ \A n \in Node : pc[n] \in After => sent[n] = 1
  /\ \A n \in Node : sent[n] = 1 => pc[n] \in After \cup {"done"}
  /\ ok => \A n \in Node : pc[n] # "drain" /\ (pc[n] = "done" => sent[n] = 1)

ParentSent == \A c \in Node \ {Root} : pc[c] # "new" => sent[Parent[c]] = 1

AllLinked ==
  /\ \A n \in Node : pc[n] \in Sending \cup {"new"} => children[n] = Kids(n)
  /\ \A n \in Node : pc[n] \in {"remove", "bubble", "climb"} => Kids(n) = {}

KidsDone == \A n \in Node : sent[n] = 1 /\ pc[n] = "done" => \A c \in Kids(n) : pc[c] = "done"

Sends == SentExact /\ ParentSent /\ AllLinked /\ KidsDone

-----------------------------------------------------------------------------
(* When the task of Root is done and nothing has failed, all was sent.     *)
LEMMA AllSent ==
  ASSUME Shape, Sends, ok, pc[Root] = "done"
  PROVE  \A n \in Node : sent[n] = 1 /\ pc[n] = "done"
<1> DEFINE Missing == {n \in Node : pc[n] # "done"}
           Depths == {Depth[n] : n \in Missing}
<1>1. ASSUME Missing # {} PROVE FALSE
  <2>1. Depths \subseteq Nat /\ Depths # {}
    BY <1>1, TreeAssumption, Zenon
  <2>2. PICK x \in Depths : \A y \in Depths : x <= y
    BY <2>1, Least, Zenon
  <2>3. PICK n \in Missing : x = Depth[n]
    BY Zenon
  <2>4. n \in Node \ {Root} /\ Parent[n] \in Node
    BY TreeAssumption, Zenon
  <2>5. Depth[Parent[n]] < Depth[n]
    BY <2>4, TreeAssumption
  <2>6. pc[Parent[n]] = "done"
    <3>1. ASSUME Parent[n] \in Missing PROVE FALSE
      <4>1. Depth[Parent[n]] \in Depths /\ Depth[Parent[n]] \in Nat /\ Depth[n] \in Nat
        BY <2>4, <3>1, TreeAssumption, Zenon
      <4> QED
        BY <2>2, <2>3, <2>5, <4>1
    <3> QED
      BY <2>4, <3>1, Zenon
  <2>7. sent[Parent[n]] = 1 /\ n \in Kids(Parent[n])
    BY <2>4, <2>6, Zenon DEF Sends, SentExact, Kids
  <2> QED
    BY <2>4, <2>6, <2>7, Zenon DEF Sends, KidsDone
<1> QED
  BY <1>1, Zenon DEF Shape, Sends, SentExact

-----------------------------------------------------------------------------
(* A step of the task of n up to the end of its message, or of its report. *)
SendMove(n) ==
  /\ \A m \in Node : m # n => pc'[m] = pc[m]
  /\ UNCHANGED children
  /\ \/ UNCHANGED <<sent, status>>
     \/ sent' = sent /\ status' = "fatal"
     \/ sent' = [sent EXCEPT ![n] = @ + 1] /\ status' = status /\ pc[n] \in Before /\ pc'[n] = "sent"
  /\ \/ pc'[n] = pc[n] /\ UNCHANGED <<ok, sent>>
     \/ pc[n] \in Before /\ pc'[n] \in Before \cup {"report"} /\ UNCHANGED <<ok, sent>>
     \/ pc[n] \in Before /\ pc'[n] = "sent" /\ sent' = [sent EXCEPT ![n] = @ + 1] /\ UNCHANGED ok
     \/ pc[n] = "queued" /\ pc'[n] = "done" /\ ~ok' /\ UNCHANGED sent
     \/ pc[n] = "report" /\ pc'[n] \in {"drain", "done"} /\ ~ok' /\ UNCHANGED sent
     \/ pc[n] = "drain" /\ pc'[n] = "done" /\ UNCHANGED <<ok, sent>>

(* The actions that are such steps.                                        *)
LEMMA SendMoves ==
  ASSUME Shape, NEW n \in Node,
         \/ Start(n) \/ LoadSeq(n) \/ LoadInc(n) \/ StoreSeq(n)
         \/ SendHeader(n) \/ SendPath(n) \/ OpenFile(n) \/ SendChunk(n)
         \/ TickDone(n) \/ TickSumDone(n) \/ SkipDraw(n) \/ StartDraw(n)
         \/ DrawRoot(n) \/ Draw(n) \/ FinishDraw(n) \/ Report(n) \/ Drain(n)
  PROVE  SendMove(n)
<1> USE DEF Shape, SendMove, Before, Sending, Goto, trackedVars, treeVars, SendVars
<1>1. ASSUME Start(n) PROVE SendMove(n)
  BY <1>1, Zenon DEF Start, LocalSock
<1>2. ASSUME LoadSeq(n) \/ LoadInc(n) \/ StoreSeq(n) PROVE SendMove(n)
  BY <1>2, Zenon DEF LoadSeq, LoadInc, StoreSeq
<1>3. ASSUME SendHeader(n) \/ SendPath(n) \/ OpenFile(n) \/ SendChunk(n) PROVE SendMove(n)
  BY <1>3, Zenon DEF SendHeader, SendPath, OpenFile, SendChunk, Sent
<1>4. ASSUME TickDone(n) \/ TickSumDone(n) \/ SkipDraw(n) \/ StartDraw(n) PROVE SendMove(n)
  BY <1>4, Zenon DEF TickDone, TickSumDone, SkipDraw, StartDraw, NextChunk, Sent
<1>5. ASSUME DrawRoot(n) \/ Draw(n) \/ FinishDraw(n) PROVE SendMove(n)
  BY <1>5, Zenon DEF DrawRoot, Draw, FinishDraw, NextChunk, Sent
<1>6. ASSUME Report(n) \/ Drain(n) PROVE SendMove(n)
  BY <1>6, Zenon DEF Report, Drain
<1> QED
  BY <1>1, <1>2, <1>3, <1>4, <1>5, <1>6, Zenon

(* They keep Sends.                                                        *)
LEMMA SendKeeps ==
  ASSUME Shape, Sends, NEW n \in Node, SendMove(n)
  PROVE  Sends'
<1> USE DEF Sends, SendMove, Before, After, Sending
<1>1. SentExact'
  BY DEF SentExact, Shape
<1>2. ParentSent'
  <2>1. \A m \in Node : sent[m] = 1 => sent'[m] = 1
    BY CountShape, Zenon DEF SentExact, Shape
  <2>2. \A m \in Node : pc'[m] # "new" => pc[m] # "new"
    BY Zenon
  <2> QED
    BY <2>1, <2>2, TreeAssumption, Zenon DEF ParentSent
<1>3. AllLinked'
  BY Zenon DEF AllLinked
<1>4. KidsDone'
  <2>1. \A m \in Node : pc[m] = "done" => pc'[m] = "done"
    BY Zenon
  <2>2. \A m \in Node : sent'[m] = 1 /\ pc'[m] = "done" => sent[m] = 1 /\ pc[m] = "done"
    BY CountShape, Zenon DEF SentExact, Shape
  <2> QED
    BY <1>1, <2>1, <2>2 DEF KidsDone, Kids, SentExact, Shape
<1> QED
  BY <1>1, <1>2, <1>3, <1>4, Zenon

-----------------------------------------------------------------------------
(* After its message a task leaves ok, sent and status alone.              *)

(* A directory goes on to its children, a leaf to its removal.             *)
LEMMA AfterSendKeeps ==
  ASSUME Shape, Sends, NEW n \in Node, AfterSend(n)
  PROVE  Sends'
<1> USE DEF Sends
<1>1. /\ pc[n] = "sent" /\ UNCHANGED <<children, ok, sent>>
      /\ \A m \in Node : m # n => pc'[m] = pc[m]
  BY Zenon DEF AfterSend, Goto, Shape, trackedVars, treeVars, FanVars
<1>2. pc'[n] = "iter" \/ (pc'[n] = "remove" /\ Kids(n) = {})
  <2>1. n \notin Dir => Kids(n) = {}
    BY TreeAssumption, Zenon DEF Kids
  <2>2. children[n] = Kids(n)
    BY <1>1, Zenon DEF AllLinked, Sending
  <2> QED
    BY <2>1, <2>2, Zenon DEF AfterSend, Goto, Shape
<1>3. SentExact'
  BY <1>1, <1>2, Zenon DEF SentExact, After
<1>4. ParentSent'
  BY <1>1, <1>2, Zenon DEF ParentSent
<1>5. AllLinked'
  BY <1>1, <1>2, Zenon DEF AllLinked, Sending
<1>6. KidsDone'
  BY <1>1, <1>2, Zenon DEF KidsDone, Kids, Shape
<1> QED
  BY <1>3, <1>4, <1>5, <1>6, Zenon

(* The steps of the fan-out; wait ends when the tasks of all children have.*)
LEMMA FanKeeps ==
  ASSUME Shape, Sends, NEW n \in Node,
         IterChildren(n) \/ SpawnChild(n) \/ EndSpawn(n) \/ WaitGroup(n)
  PROVE  Sends'
<1> USE DEF Sends
<1>1. UNCHANGED <<children, ok, sent>>
  BY Zenon DEF IterChildren, SpawnChild, EndSpawn, WaitGroup, trackedVars, treeVars, FanVars
<1>2. PICK c \in Node :
        /\ \A m \in Node : m # c => pc'[m] = pc[m]
        /\ \/ pc[c] = "iter" /\ pc'[c] = "spawn"
           \/ pc[c] = "spawn" /\ pc'[c] = "wait"
           \/ pc[c] = "wait" /\ pc'[c] = "done" /\ \A k \in Kids(c) : pc[k] = "done"
           \/ pc[c] = "new" /\ pc'[c] = "queued" /\ pc[n] = "spawn" /\ Parent[c] = n
  <2>1. CASE SpawnChild(n)
    <3>1. PICK c \in children[n] : pc[c] = "new" /\ Goto(c, "queued")
      BY <2>1, Zenon DEF SpawnChild
    <3>2. c \in Node /\ Parent[c] = n
      BY Zenon DEF Shape, TrackedTypeOK, Kids
    <3> QED
      BY <2>1, <3>1, <3>2, Zenon DEF SpawnChild, Goto, Shape
  <2>2. CASE IterChildren(n) \/ EndSpawn(n) \/ WaitGroup(n)
    BY <2>2, Zenon DEF IterChildren, EndSpawn, WaitGroup, Goto, Shape
  <2> QED
    BY <2>1, <2>2, Zenon
<1>3. SentExact'
  BY <1>1, <1>2, Zenon DEF SentExact, After
<1>4. ParentSent'
  BY <1>1, <1>2, Zenon DEF ParentSent, SentExact, After
<1>5. AllLinked'
  BY <1>1, <1>2, Zenon DEF AllLinked, Sending
<1>6. KidsDone'
  BY <1>1, <1>2 DEF KidsDone, Kids, Shape
<1> QED
  BY <1>3, <1>4, <1>5, <1>6, Zenon

(* A leaf or an empty directory is unlinked, and counts are decremented:   *)
(* the task that climbs is that of a leaf, and the directory that loses a  *)
(* child waits or is done.                                                 *)
LEMMA ClimbKeeps ==
  ASSUME IInv, Sends, NEW n \in Node, RemoveLeaf(n) \/ Bubble(n) \/ Climb(n)
  PROVE  Sends'
<1> USE DEF Sends, IInv
<1>1. /\ UNCHANGED <<ok, sent>>
      /\ \A m \in Node : m # n => pc'[m] = pc[m]
      /\ pc[n] \in {"remove", "bubble", "climb"} /\ pc'[n] \in {"bubble", "climb", "done"}
  BY DEF RemoveLeaf, Bubble, Climb, Goto, Shape, FanVars
<1>2. Kids(n) = {}
  BY <1>1, Zenon DEF AllLinked
<1>3. \A m \in Node : pc[m] \in Sending \cup {"new"} => children'[m] = children[m]
  <2>1. ASSUME NEW q \in Node \ {Root}, Remove(q), pc[q] # "new", NEW m \in Node,
               pc[m] \in Sending \cup {"new"}
        PROVE  children'[m] = children[m]
    <3>1. pc[Parent[q]] \in {"spawn", "wait", "done"}
      BY <2>1, Zenon DEF Tasks, Order
    <3>2. m # Parent[q]
      BY <2>1, <3>1, Zenon DEF Sending
    <3> QED
      BY <2>1, <3>2, Zenon DEF Remove, Shape, TrackedTypeOK
  <2>2. CASE RemoveLeaf(n)
    BY <1>1, <2>1, <2>2, Zenon DEF RemoveLeaf, Shape
  <2>3. CASE Bubble(n)
    BY <2>3, Zenon DEF Bubble, trackedVars, treeVars
  <2>4. CASE Climb(n)
    <3>1. cur[n] \in Node /\ pc[cur[n]] # "new"
      BY <2>4, Zenon DEF Climb, Tasks, Climbing, Shape
    <3> QED
      BY <2>1, <2>4, <3>1, Zenon DEF Climb
  <2> QED
    BY <2>2, <2>3, <2>4, Zenon
<1>4. SentExact'
  BY <1>1, Zenon DEF SentExact, After
<1>5. ParentSent'
  BY <1>1, Zenon DEF ParentSent
<1>6. AllLinked'
  BY <1>1, <1>2, <1>3, Zenon DEF AllLinked, Sending
<1>7. KidsDone'
  BY <1>1, <1>2 DEF KidsDone, Kids, Shape
<1> QED
  BY <1>4, <1>5, <1>6, <1>7, Zenon

-----------------------------------------------------------------------------
(* At first nothing has been sent, and every list is complete.             *)
LEMMA InitSends == Init => Sends
BY TreeAssumption
DEF Init, Scanned, Sends, SentExact, ParentSent, AllLinked, KidsDone, Sending, After

(* Every step of the specification.                                        *)
LEMMA NextSends == IInv /\ Sends /\ [Next]_vars => Sends'
<1> SUFFICES ASSUME IInv, Sends, [Next]_vars PROVE Sends'
  BY Zenon
<1> USE DEF IInv
<1>1. ASSUME NEW n \in Node, SendMove(n) PROVE Sends'
  BY <1>1, SendKeeps, Zenon
<1>2. ASSUME NEW n \in Node, AfterSend(n) PROVE Sends'
  BY <1>2, AfterSendKeeps, Zenon
<1>3. ASSUME NEW n \in Node,
             IterChildren(n) \/ SpawnChild(n) \/ EndSpawn(n) \/ WaitGroup(n)
      PROVE  Sends'
  BY <1>3, FanKeeps, Zenon
<1>4. ASSUME NEW n \in Node, RemoveLeaf(n) \/ Bubble(n) \/ Climb(n) PROVE Sends'
  BY <1>4, ClimbKeeps, Zenon
<1>5. ASSUME Terminate \/ DaemonExits \/ UNCHANGED vars PROVE Sends'
  <2>1. UNCHANGED <<children, pc, ok, sent>>
    BY <1>5, Zenon DEF Terminate, DaemonExits, vars, syncVars, trackedVars, treeVars
  <2> QED
    BY <2>1, Zenon DEF Sends, SentExact, ParentSent, AllLinked, KidsDone
<1> QED
  BY <1>1, <1>2, <1>3, <1>4, <1>5, SendMoves, Zenon DEF Next, Step, Finished

(* A step of sync_with_remote sends one more entry, after its directory,   *)
(* or ends the call, with true only when all was sent, or does neither.    *)
LEMMA StepRefines ==
  ASSUME IInv, Sends, [Next]_vars
  PROVE  [Abstract!Next]_<<sent, status>>
<1> USE DEF IInv
<1>1. ASSUME NEW n \in Node, status = "running", SendMove(n)
      PROVE  [Abstract!Next]_<<sent, status>>
  <2>1. CASE sent' = sent /\ status' = "fatal"
    BY <1>1, <2>1, Zenon DEF Abstract!Next, Abstract!Return
  <2>2. CASE sent' = [sent EXCEPT ![n] = @ + 1] /\ status' = status /\ pc[n] \in Before
    <3>1. sent[n] = 0 /\ (n = Root \/ sent[Parent[n]] = 1)
      BY <2>2, Zenon DEF Sends, SentExact, ParentSent, Before, Sending, After
    <3>2. sent' = [sent EXCEPT ![n] = 1]
      BY <2>2, <3>1
    <3> QED
      BY <1>1, <2>2, <3>1, <3>2, Zenon DEF Abstract!Next, Abstract!Deliver
  <2> QED
    BY <1>1, <2>1, <2>2, Zenon DEF SendMove
<1>2. ASSUME NEW n \in Node,
             \/ AfterSend(n) \/ IterChildren(n) \/ SpawnChild(n) \/ EndSpawn(n)
             \/ WaitGroup(n) \/ RemoveLeaf(n) \/ Bubble(n) \/ Climb(n)
      PROVE  UNCHANGED <<sent, status>>
  BY <1>2, Zenon DEF AfterSend, IterChildren, SpawnChild, EndSpawn, WaitGroup, RemoveLeaf, Bubble,
              Climb, FanVars
<1>3. ASSUME status = "running", Terminate PROVE Abstract!Next
  <2>1. status' \in {"true", "false"} /\ sent' = sent /\ (status' = "true" => ok)
    BY <1>3, Zenon DEF Terminate
  <2>2. ok => \A n \in Node : sent[n] = 1
    BY <1>3, AllSent, Zenon DEF Terminate
  <2> QED
    BY <1>3, <2>1, <2>2, Zenon DEF Abstract!Next, Abstract!Return
<1>4. ASSUME DaemonExits \/ UNCHANGED vars PROVE UNCHANGED <<sent, status>>
  BY <1>4, Zenon DEF DaemonExits, vars, syncVars
<1> QED
  BY <1>1, <1>2, <1>3, <1>4, SendMoves, Zenon DEF Next, Step, Finished

(* sync_with_remote keeps its promise for every tree and any number of     *)
(* threads: each entry is sent once and after its directory, and true      *)
(* means that all entries were.                                            *)
THEOREM Delivers == Spec => DeliverySpec
<1>1. Init => Abstract!Init
  BY Zenon DEF Init, Abstract!Init
<1>2. Init => Sends
  BY InitSends, Zenon
<1>3. IInv /\ Sends /\ [Next]_vars => Sends' /\ [Abstract!Next]_<<sent, status>>
  BY NextSends, StepRefines, Zenon
<1> QED
  BY <1>1, <1>2, <1>3, Inductive, PTL DEF Spec, DeliverySpec, Abstract!Spec

-----------------------------------------------------------------------------
(* The rows of a frame.  While the walk is drawing there is room for the   *)
(* summary that ends it.                                                   *)
Frame == MaxRows > 0 => lines <= MaxRows /\ (painter # NULL => lines < MaxRows)

(* Every step of the specification.                                        *)
LEMMA NextFrame == Shape /\ Locks /\ Frame /\ [Next]_vars => Frame'
<1> SUFFICES ASSUME Shape, Locks, Frame, [Next]_vars PROVE Frame'
  BY Zenon
<1> USE RowsAssumption DEF Shape, TrackedTypeOK, Frame
<1>1. CASE UNCHANGED <<painter, lines>>
  BY <1>1, Zenon
<1>2. ASSUME NEW n \in Node, StartDraw(n) PROVE Frame'
  BY <1>2 DEF StartDraw, BeginDraw
<1>3. ASSUME NEW n \in Node, NEW v, NEW rest, painter = n, UNCHANGED painter, Visit(n, v, rest)
      PROVE  Frame'
  BY <1>3, NullAssumption DEF Visit
<1>4. ASSUME NEW n \in Node, DrawRoot(n) PROVE Frame'
  BY <1>3, <1>4, Zenon DEF DrawRoot, VisitRoot, Locks, MutexOwner
<1>5. ASSUME NEW n \in Node, Draw(n) PROVE Frame'
  BY <1>1, <1>3, <1>5, Zenon DEF Draw, VisitChild, LeaveVisit, Locks, MutexOwner
<1>6. ASSUME NEW n \in Node, FinishDraw(n) PROVE Frame'
  BY <1>6, NullAssumption DEF FinishDraw, EndDraw, Locks, MutexOwner
<1>7. ASSUME NEW n \in Node, Step(n) PROVE Frame'
  BY <1>1, <1>2, <1>4, <1>5, <1>6, <1>7, Zenon
  DEF Step, Start, LoadSeq, LoadInc, StoreSeq, SendHeader, SendPath, OpenFile, SendChunk,
      TickDone, TickSumDone, SkipDraw, AfterSend, IterChildren, SpawnChild, EndSpawn,
      WaitGroup, RemoveLeaf, Bubble, Climb, Report, Drain, trackedVars, drawVars
<1>8. ASSUME Terminate \/ DaemonExits \/ UNCHANGED vars PROVE Frame'
  BY <1>1, <1>8, Zenon DEF Terminate, DaemonExits, vars, trackedVars, drawVars
<1> QED
  BY <1>7, <1>8, Zenon DEF Next, Finished

(* display_progress never draws more lines than the terminal has, whatever *)
(* the tree, the height and the moment.                                    *)
THEOREM FrameAlwaysFits == Spec => []FrameFits
<1>1. Init => Frame
  BY RowsAssumption DEF Init, Scanned, Frame
<1>2. Frame => FrameFits
  BY Zenon DEF Frame, FrameFits
<1>3. IInv => Shape /\ Locks
  BY Zenon DEF IInv
<1> QED
  BY <1>1, <1>2, <1>3, NextFrame, Inductive, PTL DEF Spec

-----------------------------------------------------------------------------
(* The two counters of the progress bar.  A chunk is counted at its node   *)
(* before it is in the sum: those in between are Ticking.                  *)
Fresh == {"new", "queued", "seq", "inc", "store", "header", "path", "open"}

Ticking == {n \in Node : pc[n] = "ticksum"}

NodeCounts ==
  /\ total = Size
  /\ \A n \in Node :
       /\ done[n] <= Size[n]
       /\ pc[n] \in Fresh => done[n] = 0
       /\ pc[n] = "open" => Size[n] > 0
       /\ pc[n] \in {"body", "ticknode"} => done[n] < Size[n]
       /\ sent[n] = 1 => done[n] = Size[n]

SumCounts ==
  /\ sum_total = SumTotal
  /\ sum_done + Cardinality(Ticking) = Cardinality(Chunks(done))

Counts == NodeCounts /\ SumCounts

(* The chunks of a tree, as the shared lemmas count them.                  *)
LEMMA ChunksAreUnits == \A f : Chunks(f) = Units(Node, f)
BY Zenon DEF Chunks, Units

(* A step that counts nothing, and what it may do to the task it moves.    *)
Still(c) ==
  /\ UNCHANGED <<total, sum_total, done, sum_done>>
  /\ \A m \in Node : m # c => pc'[m] = pc[m]
  /\ \/ pc'[c] = pc[c]
     \/ pc'[c] \notin Fresh \cup {"body", "ticknode", "ticksum"} /\ pc[c] # "ticksum"
     \/ pc[c] \in Fresh /\ pc'[c] \in Fresh \ {"open"}
     \/ pc[c] = "path" /\ pc'[c] = "open" /\ Size[c] > 0
     \/ pc[c] = "open" /\ pc'[c] = "body"
     \/ pc[c] = "body" /\ pc'[c] = "ticknode"
     \/ pc[c] \in {"draw", "drawing"} /\ pc'[c] = "body" /\ done[c] < Size[c]
  /\ \/ sent' = sent
     \/ sent' = [sent EXCEPT ![c] = @ + 1] /\ (done[c] < Size[c] => pc[c] = "path" /\ Size[c] = 0)

(* All steps but the two of tick.                                          *)
LEMMA StillSteps ==
  ASSUME Shape, NEW n \in Node, Step(n), ~TickDone(n), ~TickSumDone(n)
  PROVE  \E c \in Node : Still(c)
<1> USE DEF Still, Fresh, Goto, Shape
<1>1. UNCHANGED <<total, sum_total, done, sum_done>>
  BY Zenon DEF Step, Start, LoadSeq, LoadInc, StoreSeq, SendHeader, SendPath, OpenFile, SendChunk,
         SkipDraw, StartDraw, DrawRoot, Draw, FinishDraw, AfterSend, IterChildren, SpawnChild,
         EndSpawn, WaitGroup, RemoveLeaf, Bubble, Climb, Report, Drain, trackedVars, treeVars,
         countVars
<1>2. CASE Start(n) \/ LoadSeq(n) \/ LoadInc(n) \/ StoreSeq(n)
  BY <1>1, <1>2, Zenon DEF Start, LoadSeq, LoadInc, StoreSeq
<1>3. CASE SendHeader(n) \/ SendPath(n) \/ OpenFile(n) \/ SendChunk(n)
  BY <1>1, <1>3, Zenon DEF SendHeader, SendPath, OpenFile, SendChunk, Sent
<1>4. CASE SkipDraw(n) \/ StartDraw(n) \/ DrawRoot(n) \/ Draw(n) \/ FinishDraw(n)
  BY <1>1, <1>4, Zenon DEF SkipDraw, StartDraw, DrawRoot, Draw, FinishDraw, NextChunk, Sent
<1>5. CASE SpawnChild(n)
  <2>1. PICK c \in children[n] : pc[c] = "new" /\ Goto(c, "queued")
    BY <1>5, Zenon DEF SpawnChild
  <2>2. c \in Node
    BY Zenon DEF TrackedTypeOK
  <2> QED
    BY <1>1, <1>5, <2>1, <2>2 DEF SpawnChild, FanVars
<1>6. CASE AfterSend(n) \/ IterChildren(n) \/ EndSpawn(n) \/ WaitGroup(n) \/ RemoveLeaf(n)
           \/ Bubble(n) \/ Climb(n)
  <2>1. /\ sent' = sent /\ pc[n] # "ticksum"
        /\ \E l \in {"iter", "remove", "spawn", "wait", "done", "bubble", "climb"} : Goto(n, l)
    BY <1>6, Zenon DEF AfterSend, IterChildren, EndSpawn, WaitGroup, RemoveLeaf, Bubble, Climb, FanVars
  <2> QED
    BY <1>1, <2>1, Zenon
<1>7. CASE Report(n) \/ Drain(n)
  BY <1>1, <1>7, Zenon DEF Report, Drain
<1> QED
  BY <1>2, <1>3, <1>4, <1>5, <1>6, <1>7, Zenon DEF Step

(* They keep the counts.                                                   *)
LEMMA StillCounts ==
  ASSUME Shape, Counts, NEW c \in Node, Still(c)
  PROVE  Counts'
<1> USE DEF Still
<1>1. NodeCounts'
  BY TreeAssumption DEF Counts, NodeCounts, Fresh, Shape, TrackedTypeOK
<1>2. Ticking' = Ticking
  BY Zenon DEF Ticking, Fresh
<1>3. SumCounts'
  BY <1>2, Zenon DEF Counts, SumCounts
<1> QED
  BY <1>1, <1>3, Zenon DEF Counts

(* The two steps of tick: first the node, then the sum.                    *)
LEMMA TickCounts ==
  ASSUME Shape, Counts, Sends, NEW n \in Node, TickDone(n) \/ TickSumDone(n)
  PROVE  Counts'
<1> USE DEF Counts
<1>1. /\ UNCHANGED <<total, sum_total, sent>>
      /\ \A m \in Node : m # n => pc'[m] = pc[m]
  BY Zenon DEF TickDone, TickSumDone, treeVars, Goto, Shape
<1>2. IsFiniteSet(Ticking) /\ Cardinality(Ticking) \in Nat /\ Ticking \subseteq Node
  BY CardinalityNat, Zenon DEF Ticking
<1>3. CASE TickDone(n)
  <2>1. /\ pc[n] = "ticknode" /\ pc'[n] = "ticksum" /\ sum_done' = sum_done
        /\ done' = [done EXCEPT ![n] = @ + 1] /\ done \in [Node -> Nat]
    BY <1>3, Zenon DEF TickDone, TickNode, Goto, Shape, TrackedTypeOK
  <2>2. sent[n] # 1
    BY <2>1, Zenon DEF Sends, SentExact, After
  <2>3. NodeCounts'
    <3>1. done[n] < Size[n] /\ done[n] \in Nat /\ Size[n] \in Nat
      BY <2>1, TreeAssumption, Zenon DEF NodeCounts
    <3>2. done'[n] = done[n] + 1 /\ \A m \in Node : m # n => done'[m] = done[m]
      BY <2>1, Zenon
    <3> QED
      BY <1>1, <2>1, <2>2, <3>1, <3>2 DEF NodeCounts, Fresh
  <2>4. Ticking' = Ticking \cup {n} /\ n \notin Ticking
    BY <1>1, <2>1, Zenon DEF Ticking
  <2>5. Cardinality(Ticking') = Cardinality(Ticking) + 1
    BY <1>2, <2>4, FS_AddElement, Zenon
  <2>6. Cardinality(Chunks(done')) = Cardinality(Chunks(done)) + 1
    <3>1. done \in [Node -> Nat] /\ done' \in [Node -> Nat] /\ done'[n] = done[n] + 1
          /\ \A m \in Node : m # n => done'[m] = done[m]
      BY <2>1
    <3>2. IsFiniteSet(Node) /\ 1 \in Nat
      BY TreeAssumption, Zenon
    <3>3. Cardinality(Units(Node, done')) = Cardinality(Units(Node, done)) + 1
      BY <3>1, <3>2, UnitsAdd, Zenon
    <3> QED
      BY <3>3, ChunksAreUnits, Zenon
  <2>7. SumCounts'
    BY <1>1, <1>2, <2>1, <2>5, <2>6, ChunksAreUnits, UnitsFinite, TreeAssumption DEF SumCounts, Shape, TrackedTypeOK
  <2> QED
    BY <2>3, <2>7, Zenon
<1>4. CASE TickSumDone(n)
  <2>1. pc[n] = "ticksum" /\ pc'[n] = "draw" /\ sum_done' = sum_done + 1 /\ done' = done
    BY <1>4, Zenon DEF TickSumDone, TickSum, Goto, Shape
  <2>2. NodeCounts'
    BY <1>1, <2>1, Zenon DEF NodeCounts, Fresh
  <2>3. Ticking' = Ticking \ {n} /\ n \in Ticking
    BY <1>1, <2>1, Zenon DEF Ticking
  <2>4. Cardinality(Ticking') = Cardinality(Ticking) - 1
    BY <1>2, <2>3, FS_RemoveElement, Zenon
  <2>5. SumCounts'
    BY <1>1, <1>2, <2>1, <2>4 DEF SumCounts, Shape, TrackedTypeOK
  <2> QED
    BY <2>2, <2>5, Zenon
<1> QED
  BY <1>3, <1>4, Zenon

(* Every step of the specification.                                        *)
LEMMA NextCounts == Shape /\ Sends /\ Counts /\ [Next]_vars => Counts'
<1> SUFFICES ASSUME Shape, Sends, Counts, [Next]_vars PROVE Counts'
  BY Zenon
<1>1. ASSUME NEW n \in Node, Step(n) PROVE Counts'
  BY <1>1, StillSteps, StillCounts, TickCounts, Zenon
<1>2. ASSUME Terminate \/ DaemonExits \/ UNCHANGED vars PROVE Counts'
  <2>1. UNCHANGED <<total, sum_total, done, sum_done, pc, sent>>
    BY <1>2, Zenon DEF Terminate, DaemonExits, vars, syncVars, trackedVars, treeVars, countVars
  <2> QED
    BY <2>1, Zenon DEF Counts, NodeCounts, SumCounts, Ticking
<1> QED
  BY <1>1, <1>2, Zenon DEF Next, Finished

(* At first nothing is done.                                               *)
LEMMA InitCounts == Init => Counts
<1> SUFFICES ASSUME Init PROVE Counts
  BY Zenon
<1>1. done = [n \in Node |-> 0] /\ sum_done = 0 /\ total = Size /\ sum_total = SumTotal
      /\ sent = [n \in Node |-> 0] /\ pc = [n \in Node |-> IF n = Root THEN "queued" ELSE "new"]
  BY Zenon DEF Init, Scanned
<1>2. NodeCounts
  BY <1>1, TreeAssumption DEF NodeCounts
<1>3. Ticking = {}
  BY <1>1, Zenon DEF Ticking
<1>4. Cardinality(Chunks(done)) = 0
  BY <1>1, ChunksAreUnits, NoUnits, TreeAssumption, Zenon
<1> QED
  BY <1>1, <1>2, <1>3, <1>4, FS_EmptySet DEF Counts, SumCounts

(* The sum is never ahead of the nodes, nor they of the files.             *)
LEMMA CountsFit == Shape /\ Counts => BarFits
<1> SUFFICES ASSUME Shape, Counts PROVE BarFits
  BY Zenon
<1>1. done \in [Node -> Nat] /\ sum_done \in Nat /\ Size \in [Node -> Nat]
  BY TreeAssumption, Zenon DEF Shape, TrackedTypeOK
<1>2. Cardinality(Ticking) \in Nat
  BY CardinalityNat, Zenon DEF Ticking
<1>3. Cardinality(Chunks(done)) <= SumTotal
  BY <1>1, ChunksAreUnits, UnitsGrow, TreeAssumption, Zenon DEF Counts, NodeCounts, SumTotal
<1>4. Cardinality(Chunks(done)) \in Nat /\ SumTotal \in Nat
  BY <1>1, ChunksAreUnits, UnitsFinite, TreeAssumption, Zenon DEF SumTotal
<1>5. sum_done <= sum_total
  BY <1>1, <1>2, <1>3, <1>4 DEF Counts, SumCounts
<1> QED
  BY <1>5, Zenon DEF BarFits, Counts, NodeCounts

(* The ratio of the progress bar never exceeds 1, of the whole tree and of *)
(* each file, however the two halves of tick interleave.                   *)
THEOREM BarAlwaysFits == Spec => []BarFits
<1>1. IInv => Shape
  BY Zenon DEF IInv
<1> QED
  BY <1>1, InitSends, InitCounts, NextSends, NextCounts, CountsFit, Inductive, PTL DEF Spec

-----------------------------------------------------------------------------
(* How the tree becomes empty.  A node past its message that has no entry  *)
(* in pending is gone; an entry that is 0 has a task that is about to      *)
(* remove its directory; a leaf never has one.                             *)
Late == {"bubble", "climb", "wait", "done"}

Gone(n) == children[n] = {} /\ (n = Root \/ ~Alive(n))

EmptiedAt(n) ==
  /\ sent[n] = 1 /\ pc[n] \in Late /\ pending[n] = Absent => Gone(n)
  /\ pending[n] = 0 /\ Kids(n) # {} => \E m \in Node : pc[m] = "climb" /\ cur[m] = n
  /\ n # Root /\ Kids(n) = {} => pending[n] = Absent

Emptied == \A n \in Node : EmptiedAt(n)

(* A step that leaves the lists and the entries alone.                     *)
Elsewhere(c) ==
  /\ UNCHANGED <<children, pending, cur>>
  /\ \A m \in Node : m # c => pc'[m] = pc[m] /\ (sent'[m] = 1 <=> sent[m] = 1)
  /\ pc[c] # "climb"
  /\ pc'[c] \in Late /\ sent'[c] = 1 => pending[c] # Absent \/ (sent[c] = 1 /\ pc[c] \in Late)

(* All steps but those that touch the lists and the entries.               *)
LEMMA ElsewhereSteps ==
  ASSUME IInv, Sends, NEW n \in Node, Step(n),
         ~AfterSend(n), ~RemoveLeaf(n), ~Bubble(n), ~Climb(n)
  PROVE  \E c \in Node : Elsewhere(c)
<1> USE DEF IInv
<1>1. CASE IterChildren(n) \/ EndSpawn(n) \/ WaitGroup(n)
  <2>1. /\ UNCHANGED <<children, pending, cur, sent>>
        /\ \E l \in {"spawn", "wait", "done"} : Goto(n, l)
        /\ pc[n] \in {"iter", "spawn", "wait"}
    BY <1>1, Zenon DEF IterChildren, EndSpawn, WaitGroup, FanVars, trackedVars, treeVars
  <2>2. pc[n] \in {"iter", "spawn"} => pending[n] # Absent
    BY Zenon DEF Tasks, Entries
  <2> QED
    BY <2>1, <2>2, Zenon DEF Elsewhere, Goto, Late, Shape
<1>2. CASE SpawnChild(n)
  <2>1. PICK c \in children[n] : pc[c] = "new" /\ Goto(c, "queued")
    BY <1>2, Zenon DEF SpawnChild
  <2>2. c \in Node
    BY Zenon DEF Shape, TrackedTypeOK
  <2> QED
    BY <1>2, <2>1, <2>2, Zenon DEF SpawnChild, Elsewhere, Goto, Late, Shape, FanVars, trackedVars, treeVars
<1>3. CASE SendMove(n) /\ pc[n] # "climb" /\ UNCHANGED <<children, pending, cur>>
  <2>1. sent[n] = 1 => pc[n] \in After \cup {"done"}
    BY Zenon DEF Sends, SentExact
  <2>2. \A m \in Node : m # n => sent'[m] = sent[m]
    BY <1>3, CountShape, Zenon DEF SendMove, Shape
  <2> QED
    BY <1>3, <2>1, <2>2, Zenon DEF Elsewhere, SendMove, Before, Sending, Late, After
<1>4. UNCHANGED <<children, pending, cur>> /\ pc[n] # "climb"
  BY Zenon DEF Step, Start, LoadSeq, LoadInc, StoreSeq, SendHeader, SendPath, OpenFile, SendChunk,
         TickDone, TickSumDone, SkipDraw, StartDraw, DrawRoot, Draw, FinishDraw, IterChildren,
         SpawnChild, EndSpawn, WaitGroup, Report, Drain, trackedVars, treeVars, SendVars
<1> QED
  BY <1>1, <1>2, <1>3, <1>4, SendMoves, Zenon DEF Step

(* They keep Emptied.                                                      *)
LEMMA ElsewhereEmptied ==
  ASSUME Shape, Emptied, NEW c \in Node, Elsewhere(c)
  PROVE  Emptied'
<1> SUFFICES ASSUME NEW n \in Node
             PROVE  /\ sent'[n] = 1 /\ pc'[n] \in Late /\ pending'[n] = Absent => Gone(n)'
                    /\ pending'[n] = 0 /\ Kids(n) # {} =>
                         \E m \in Node : pc'[m] = "climb" /\ cur'[m] = n
                    /\ n # Root /\ Kids(n) = {} => pending'[n] = Absent
  BY Zenon DEF Emptied, EmptiedAt
<1>1. Gone(n) => Gone(n)'
  BY Zenon DEF Elsewhere, Gone, Alive
<1> QED
  BY <1>1 DEF Emptied, EmptiedAt, Elsewhere

(* A directory enters its children, of which it has some; a leaf does not. *)
LEMMA AfterSendEmptied ==
  ASSUME Shape, Sends, Emptied, NEW n \in Node, AfterSend(n)
  PROVE  Emptied'
<1>1. /\ UNCHANGED <<children, cur, sent>> /\ pc[n] = "sent" /\ pc'[n] \notin Late
      /\ \A m \in Node : m # n => pc'[m] = pc[m] /\ pending'[m] = pending[m]
  BY Zenon DEF AfterSend, Goto, Late, Shape, FanVars, trackedVars, treeVars
<1>2. \/ pending'[n] = Cardinality(children[n]) /\ (children[n] # {} \/ n = Root)
      \/ pending'[n] = pending[n]
  BY Zenon DEF AfterSend, Shape
<1>3. children[n] = Kids(n)
  BY <1>1, Zenon DEF Sends, AllLinked, Sending
<1>4. Cardinality(children[n]) = 0 <=> children[n] = {}
  BY CardinalityNat, FS_EmptySet, Zenon DEF Shape, TrackedTypeOK
<1>5. ASSUME NEW p \in Node, Gone(p) PROVE Gone(p)'
  BY <1>1, <1>5, Zenon DEF Gone, Alive
<1>6. ASSUME NEW p \in Node, \E m \in Node : pc[m] = "climb" /\ cur[m] = p
      PROVE  \E m \in Node : pc'[m] = "climb" /\ cur'[m] = p
  BY <1>1, <1>6, Zenon
<1> SUFFICES ASSUME NEW p \in Node PROVE EmptiedAt(p)'
  BY Zenon DEF Emptied
<1>7. EmptiedAt(p)
  BY Zenon DEF Emptied
<1>8. CASE p = n
  BY <1>1, <1>2, <1>3, <1>4, <1>6, <1>7, <1>8, Zenon DEF EmptiedAt
<1>9. CASE p # n
  BY <1>1, <1>5, <1>6, <1>7, <1>9, Zenon DEF EmptiedAt
<1> QED
  BY <1>8, <1>9, Zenon

(* Lists only lose elements when a node is removed.                        *)
LEMMA RemoveGone ==
  ASSUME Shape, NEW q \in Node \ {Root}, Remove(q)
  PROVE  /\ \A p \in Node : Gone(p) => Gone(p)'
         /\ children[q] = {} => Gone(q)'
<1>1. Parent[q] \in Node /\ children' = [children EXCEPT ![Parent[q]] = @ \ {q}]
  BY TreeAssumption, Zenon DEF Remove
<1>2. \A p \in Node : children'[p] \subseteq children[p]
  BY <1>1, Zenon DEF Shape, TrackedTypeOK
<1>3. q \notin children'[Parent[q]]
  BY <1>1, Zenon DEF Shape, TrackedTypeOK
<1> QED
  BY <1>2, <1>3, TreeAssumption, Zenon DEF Gone, Alive

(* A leaf is unlinked.                                                     *)
LEMMA RemoveLeafEmptied ==
  ASSUME IInv, Sends, Emptied, NEW n \in Node, RemoveLeaf(n)
  PROVE  Emptied'
<1> USE DEF IInv
<1>1. /\ UNCHANGED <<pending, sent>> /\ pc[n] = "remove" /\ n # Root /\ Remove(n)
      /\ \A m \in Node : m # n => pc'[m] = pc[m] /\ cur'[m] = cur[m]
  BY Zenon DEF RemoveLeaf, Goto, Shape, FanVars
<1>2. children[n] = {}
  BY <1>1, Zenon DEF Tasks, Linked
<1>3. Gone(n)' /\ \A p \in Node : Gone(p) => Gone(p)'
  BY <1>1, <1>2, RemoveGone, Zenon
<1>4. ASSUME NEW p \in Node, \E m \in Node : pc[m] = "climb" /\ cur[m] = p
      PROVE  \E m \in Node : pc'[m] = "climb" /\ cur'[m] = p
  BY <1>1, <1>4, Zenon
<1> SUFFICES ASSUME NEW p \in Node PROVE EmptiedAt(p)'
  BY Zenon DEF Emptied
<1>5. EmptiedAt(p)
  BY Zenon DEF Emptied
<1>6. Gone(p) => Gone(p)'
  BY <1>3, Zenon
<1>7. CASE p = n
  BY <1>1, <1>3, <1>4, <1>5, <1>7, Zenon DEF EmptiedAt
<1>8. CASE p # n
  BY <1>1, <1>4, <1>5, <1>6, <1>8, Zenon DEF EmptiedAt
<1> QED
  BY <1>7, <1>8, Zenon

(* A count goes down: the task that makes it 0 is the one that climbs.     *)
LEMMA BubbleEmptied ==
  ASSUME IInv, Emptied, NEW n \in Node, Bubble(n)
  PROVE  Emptied'
<1> USE DEF IInv
<1>1. PICK q \in Node : q = cur[n]
  BY Zenon DEF Shape
<1>2. /\ UNCHANGED <<children, cur, sent>> /\ pc[n] = "bubble"
      /\ pending' = [pending EXCEPT ![q] = @ - 1]
      /\ pc'[n] = IF pending'[q] = 0 THEN "climb" ELSE "done"
      /\ \A m \in Node : m # n => pc'[m] = pc[m]
  BY <1>1, Zenon DEF Bubble, Goto, Shape, FanVars, trackedVars, treeVars
<1>3. pending[q] > 0 /\ pending[q] \in Int /\ pending'[q] = pending[q] - 1
  BY <1>1, <1>2, Zenon DEF Tasks, BubbleSound, Shape
<1>4. \A p \in Node : p # q => pending'[p] = pending[p]
  BY <1>2, Zenon DEF Shape
<1>5. \A p \in Node : Gone(p) => Gone(p)'
  BY <1>2, Zenon DEF Gone, Alive
<1>6. ASSUME NEW p \in Node, \E m \in Node : pc[m] = "climb" /\ cur[m] = p
      PROVE  \E m \in Node : pc'[m] = "climb" /\ cur'[m] = p
  BY <1>2, <1>6, Zenon
<1>7. pending'[q] = 0 => pc'[n] = "climb" /\ cur'[n] = q
  BY <1>1, <1>2, Zenon
<1>8. sent[n] = 1 /\ pc'[n] \in Late => sent[n] = 1 /\ pc[n] \in Late
  BY <1>2, Zenon DEF Late
<1>9. q # Root /\ Kids(q) = {} => FALSE
  BY <1>3 DEF Emptied, EmptiedAt
<1> SUFFICES ASSUME NEW p \in Node PROVE EmptiedAt(p)'
  BY Zenon DEF Emptied
<1>10. EmptiedAt(p) /\ (Gone(p) => Gone(p)')
  BY <1>5, Zenon DEF Emptied
<1>11. sent'[p] = 1 /\ pc'[p] \in Late => sent[p] = 1 /\ pc[p] \in Late
  BY <1>2, <1>8, Zenon
<1>12. CASE p = q
  <2>1. pending'[p] # Absent /\ ~(p # Root /\ Kids(p) = {})
    BY <1>3, <1>9, <1>12 DEF Absent
  <2>2. pending'[p] = 0 => \E m \in Node : pc'[m] = "climb" /\ cur'[m] = p
    BY <1>7, <1>12, Zenon
  <2> QED
    BY <2>1, <2>2, Zenon DEF EmptiedAt
<1>13. CASE p # q
  <2>1. pending'[p] = pending[p]
    BY <1>4, <1>13, Zenon
  <2> QED
    BY <1>6, <1>10, <1>11, <2>1, Zenon DEF EmptiedAt
<1> QED
  BY <1>12, <1>13, Zenon

(* The directory whose count is 0 goes; it is empty.                       *)
LEMMA ClimbEmptied ==
  ASSUME IInv, Emptied, NEW n \in Node, Climb(n)
  PROVE  Emptied'
<1> USE DEF IInv
<1>1. PICK q \in Node : q = cur[n]
  BY Zenon DEF Shape
<1>2. /\ sent' = sent /\ pc[n] = "climb" /\ pc'[n] \in {"done", "bubble"}
      /\ pending'[q] = Absent
      /\ \A p \in Node : p # q => pending'[p] = pending[p]
      /\ \A m \in Node : m # n => pc'[m] = pc[m] /\ cur'[m] = cur[m]
  BY <1>1, Zenon DEF Climb, Goto, Shape, FanVars
<1>3. pending[q] = 0
  BY <1>1, <1>2, Zenon DEF Tasks, BubbleSound
<1>4. children[q] = {}
  <2>1. children[q] \subseteq Node /\ Owing(q) \subseteq Node
    BY Zenon DEF Shape, TrackedTypeOK, Owing
  <2>2. PendingExact /\ pending[q] # Absent
    BY <1>3 DEF Tasks, Absent
  <2>3. pending[q] = Cardinality(children[q]) + Cardinality(Owing(q))
    BY <2>2, Zenon DEF PendingExact
  <2> QED
    BY <1>3, <2>1, <2>3, CardinalityNat, FS_EmptySet
<1>5. Gone(q)' /\ \A p \in Node : Gone(p) => Gone(p)'
  <2>1. CASE q = Root
    BY <1>1, <1>4, <2>1, Zenon DEF Climb, Gone, Alive
  <2>2. CASE q # Root
    BY <1>1, <1>4, <2>2, RemoveGone, Zenon DEF Climb
  <2> QED
    BY <2>1, <2>2, Zenon
<1>6. ASSUME NEW p \in Node, p # q, \E m \in Node : pc[m] = "climb" /\ cur[m] = p
      PROVE  \E m \in Node : pc'[m] = "climb" /\ cur'[m] = p
  BY <1>1, <1>2, <1>6, Zenon
<1>7. pc'[n] \in Late /\ pc[n] \in Late
  BY <1>2, Zenon DEF Late
<1> SUFFICES ASSUME NEW p \in Node PROVE EmptiedAt(p)'
  BY Zenon DEF Emptied
<1>8. EmptiedAt(p) /\ (Gone(p) => Gone(p)')
  BY <1>5, Zenon DEF Emptied
<1>9. CASE p = q
  BY <1>2, <1>3, <1>5, <1>8, <1>9 DEF EmptiedAt, Absent
<1>10. CASE p # q
  <2>1. pending'[p] = pending[p]
    BY <1>2, <1>10, Zenon
  <2>2. sent'[p] = 1 /\ pc'[p] \in Late => sent[p] = 1 /\ pc[p] \in Late
    BY <1>2, <1>7, Zenon
  <2> QED
    BY <1>6, <1>8, <1>10, <2>1, <2>2, Zenon DEF EmptiedAt
<1> QED
  BY <1>9, <1>10, Zenon

(* Every step of the specification.                                        *)
LEMMA NextEmptied == IInv /\ Sends /\ Emptied /\ [Next]_vars => Emptied'
<1> SUFFICES ASSUME IInv, Sends, Emptied, [Next]_vars PROVE Emptied'
  BY Zenon
<1>1. ASSUME NEW n \in Node, Step(n) PROVE Emptied'
  BY <1>1, ElsewhereSteps, ElsewhereEmptied, AfterSendEmptied, RemoveLeafEmptied,
     BubbleEmptied, ClimbEmptied, Zenon DEF IInv
<1>2. ASSUME Terminate \/ DaemonExits \/ UNCHANGED vars PROVE Emptied'
  <2>1. UNCHANGED <<children, pc, cur, pending, sent>>
    BY <1>2, Zenon DEF Terminate, DaemonExits, vars, syncVars, trackedVars, treeVars
  <2> QED
    BY <2>1, Zenon DEF Emptied, EmptiedAt, Gone, Alive
<1> QED
  BY <1>1, <1>2, Zenon DEF Next, Finished

(* At first no task is past its message and no entry exists.               *)
LEMMA InitEmptied == Init => Emptied
BY DEF Init, Emptied, EmptiedAt

(* When every task is done and all was sent, no list has an element left:  *)
(* the deepest directory that had one would have a child with one.         *)
LEMMA AllEmpty ==
  ASSUME IInv, Sends, Emptied, \A n \in Node : sent[n] = 1 /\ pc[n] = "done"
  PROVE  \A n \in Node : children[n] = {}
<1> USE DEF IInv
<1> DEFINE Full == {n \in Node : children[n] # {}}
           Depths == {Depth[n] : n \in Full}
<1>1. ASSUME NEW n \in Full PROVE \E c \in Full : Depth[c] = Depth[n] + 1
  <2>1. PICK c \in children[n] : TRUE
    BY Zenon
  <2>2. c \in Node \ {Root} /\ Parent[c] = n /\ Alive(c)
    BY Zenon DEF Shape, TrackedTypeOK, Kids, Alive
  <2>3. pending[c] # Absent
    BY <2>2, Zenon DEF Emptied, EmptiedAt, Gone, Late
  <2>4. pending[c] # 0
    BY <2>2, <2>3, Zenon DEF Emptied, EmptiedAt
  <2>5. Owing(c) = {} /\ pending[c] = Cardinality(children[c]) + Cardinality(Owing(c))
    BY <2>2, <2>3, Zenon DEF Owing, Tasks, PendingExact
  <2>6. Cardinality({}) = 0
    BY FS_EmptySet, Zenon
  <2>7. children[c] # {}
    BY <2>4, <2>5, <2>6
  <2> QED
    BY <2>2, <2>7, TreeAssumption, Zenon
<1>2. ASSUME Full # {} PROVE FALSE
  <2>1. Depths \subseteq Nat /\ Depths # {}
    <3>1. \A n \in Full : Depth[n] \in Nat
      BY TreeAssumption, Zenon
    <3>2. \E n \in Full : Depth[n] \in Depths
      BY <1>2, Zenon
    <3> QED
      BY <3>1, <3>2, Zenon
  <2>2. IsFiniteSet(Depths)
    <3>1. IsFiniteSet(Full)
      BY CardinalityNat, Zenon
    <3>2. [n \in Full |-> Depth[n]] \in Surjection(Full, Depths)
      BY Zenon DEF Surjection
    <3> QED
      BY <3>1, <3>2, FS_Surjection, Zenon
  <2>3. PICK x \in Depths : \A y \in Depths : y <= x
    BY <2>1, <2>2, Greatest, Zenon
  <2>4. PICK n \in Full : x = Depth[n]
    BY Zenon
  <2>5. PICK c \in Full : Depth[c] = x + 1
    BY <1>1, <2>4, Zenon
  <2>6. x + 1 \in Depths
    BY <2>5, Zenon
  <2> HIDE DEF Depths
  <2>7. x \in Nat /\ x + 1 <= x
    BY <2>1, <2>3, <2>6, Zenon
  <2> QED
    BY <2>7
<1> QED
  BY <1>2, Zenon

(* The end of a call that answers true.                                    *)
LEMMA Completes ==
  ASSUME IInv, Sends, Counts, Emptied, ok, pc[Root] = "done"
  PROVE  /\ \A n \in Node : sent[n] = 1
         /\ \A n \in Node : children[n] = {} /\ mutex[n] = NULL
         /\ sum_done = sum_total
<1> USE DEF IInv
<1>1. \A n \in Node : sent[n] = 1 /\ pc[n] = "done"
  BY AllSent, Zenon
<1>2. \A n \in Node : children[n] = {}
  BY <1>1, AllEmpty, Zenon
<1>3. \A n \in Node : mutex[n] = NULL
  BY <1>1, NullAssumption, Zenon DEF Locks, MutexOwner, Shape, TrackedTypeOK
<1>4. done = Size
  <2>1. \A n \in Node : done[n] = Size[n]
    BY <1>1, Zenon DEF Counts, NodeCounts
  <2> QED
    BY <2>1, TreeAssumption DEF Shape, TrackedTypeOK
<1>5. Ticking = {}
  BY <1>1, Zenon DEF Ticking
<1>6. sum_done \in Nat /\ Cardinality({}) = 0
  BY FS_EmptySet, Zenon DEF Shape, TrackedTypeOK
<1>7. sum_done = sum_total
  BY <1>4, <1>5, <1>6 DEF Counts, SumCounts, SumTotal
<1> QED
  BY <1>1, <1>2, <1>3, <1>7, Zenon

(* Every step of the specification.                                        *)
LEMMA NextComplete ==
  ASSUME IInv, Sends, Counts, Emptied, SuccessComplete, [Next]_vars
  PROVE  SuccessComplete'
<1>1. ASSUME status = "running", NEW n \in Node, Step(n) PROVE status' # "true"
  <2>1. CASE SendMove(n)
    BY <1>1, <2>1, Zenon DEF SendMove
  <2>2. CASE UNCHANGED status
    BY <1>1, <2>2, Zenon
  <2> QED
    BY <1>1, <2>1, <2>2, SendMoves, Zenon
    DEF Step, AfterSend, IterChildren, SpawnChild, EndSpawn, WaitGroup, RemoveLeaf, Bubble,
        Climb, FanVars, IInv
<1>2. ASSUME Terminate PROVE SuccessComplete'
  <2>1. UNCHANGED <<children, mutex, sum_done, sum_total, sent>>
    BY <1>2, Zenon DEF Terminate, trackedVars, treeVars, countVars
  <2>2. ASSUME status' = "true" PROVE ok /\ pc[Root] = "done"
    BY <1>2, <2>2, Zenon DEF Terminate
  <2> QED
    BY <2>1, <2>2, Completes, Zenon DEF SuccessComplete
<1>3. ASSUME DaemonExits \/ UNCHANGED vars PROVE SuccessComplete'
  BY <1>3, Zenon DEF DaemonExits, vars, syncVars, trackedVars, treeVars, countVars, SuccessComplete
<1> QED
  BY <1>1, <1>2, <1>3, Zenon DEF Next, Finished, SuccessComplete

(* When sync_with_remote answers true every message was written, every     *)
(* list is empty, every mutex free and the progress bar full.              *)
THEOREM TrueIsComplete == Spec => []SuccessComplete
<1>1. Init => SuccessComplete
  BY Zenon DEF Init, SuccessComplete
<1>2. IInv => Shape
  BY Zenon DEF IInv
<1> QED
  BY <1>1, <1>2, InitSends, InitCounts, InitEmptied, NextSends, NextCounts, NextEmptied,
     NextComplete, Inductive, PTL DEF Spec
=============================================================================
