------------------------------ MODULE ScanDir ------------------------------
(***************************************************************************)
(* scan_dir (enu/main.cpp): the thread that builds the progress tree, one  *)
(* directory at a time from an explicit stack.  enu_main joins it before   *)
(* it calls sync_with_remote, whose Init is what this module ends in.      *)
(*                                                                         *)
(* fs::status follows symbolic links, so Node is the tree of paths as it   *)
(* resolves them, and an entry is a directory or a regular file by what    *)
(* its path leads to.                                                      *)
(***************************************************************************)
EXTENDS TrackedNode, Sequences, Functions

CONSTANTS
  Ignored,   \* entries of another type (sockets, dangling links, ...)
  In,        \* the directory each of those is in
  Rank       \* the order of the names of the entries of a directory

ASSUME IgnoredAssumption ==
  /\ IsFiniteSet(Ignored)
  /\ Ignored \cap Node = {}
  /\ NULL \notin Ignored
  /\ In \in [Ignored -> Dir]
  /\ Rank \in [Node \cup Ignored -> Nat]

VARIABLES
  stack,     \* the directories found and not yet read
  node,      \* the directory being read, or NULL
  entries,   \* its entries still to be handled
  step,      \* what to do next with the first of them
  order,     \* the order of each list: children_ is a std::list
  scan,      \* "scanning", "fatal" or "joined"
  skipped    \* history: the directories that could not be opened

scanVars == <<stack, node, entries, step, order, scan, skipped>>
allVars == <<trackedVars, scanVars>>

ScanTypeOK ==
  /\ TrackedTypeOK
  /\ sum_total \in Nat
  /\ stack \in Seq(Dir)
  /\ node \in Dir \cup {NULL}
  /\ entries \in Seq(Node \cup Ignored)
  /\ step \in {"add", "shift", "unlock"}
  /\ order \in [Node -> Seq(Node)]
  /\ scan \in {"scanning", "fatal", "joined"}
  /\ skipped \subseteq Dir

ScanInit ==
  /\ children = [n \in Node |-> {}]
  /\ ready = [n \in Node |-> FALSE]
  /\ mutex = [n \in Node |-> NULL]
  /\ total = [n \in Node |-> 0]
  /\ sum_total = 0
  /\ done = [n \in Node |-> 0]
  /\ sum_done = 0
  /\ painter = NULL
  /\ at = NULL
  /\ todo = [n \in Node |-> {}]
  /\ lines = 0
  /\ stack = <<Root>>
  /\ node = NULL
  /\ entries = <<>>
  /\ step = "add"
  /\ order = [n \in Node |-> <<>>]
  /\ scan = "scanning"
  /\ skipped = {}

-----------------------------------------------------------------------------
Regular == Node \ Dir

(* The comparison given to std::sort.                                      *)
Less(a, b) ==
  IF a \in Regular /\ b \in Regular THEN Size[a] < Size[b] ELSE Rank[a] < Rank[b]

(* Less is not transitive when files and directories are mixed, and what   *)
(* std::sort does is then up to the library.  An insertion sort, which the *)
(* libraries use for short ranges, leaves no two neighbours out of order,  *)
(* whatever order it finds the entries in; nothing more is assumed here.   *)
Sorted(E) ==
  {s \in Injection(1..Cardinality(E), E) : \A i \in 1..(Len(s) - 1) : ~Less(s[i + 1], s[i])}

OnDisk(d) == Kids(d) \cup {x \in Ignored : In[x] = d}

Busy == scan = "scanning" /\ node # NULL

(* The top of the stack is read and sorted.  A directory that cannot be    *)
(* opened looks empty, because the test of ec is inside the loop; an error *)
(* while advancing the iterator throws in the thread.                      *)
ReadDir ==
  /\ scan = "scanning"
  /\ node = NULL
  /\ stack # <<>>
  /\ node' = stack[Len(stack)]
  /\ stack' = SubSeq(stack, 1, Len(stack) - 1)
  /\ \/ entries' \in Sorted(OnDisk(node')) /\ UNCHANGED <<scan, skipped>>
     \/ entries' = <<>> /\ skipped' = skipped \cup {node'} /\ UNCHANGED scan
     \/ entries' = <<>> /\ scan' = "fatal" /\ UNCHANGED skipped
  /\ UNCHANGED <<trackedVars, step, order>>

Emplace(c) ==
  /\ AddChild(c)
  /\ order' = [order EXCEPT ![Parent[c]] = Append(@, c)]

(* Mutant: the directory is linked but not pushed.                         *)
AddDirUnpushed ==
  /\ Busy /\ entries # <<>> /\ Head(entries) \in Dir
  /\ Emplace(Head(entries))
  /\ entries' = Tail(entries)
  /\ UNCHANGED <<ready, mutex, total, sum_total, countVars, drawVars, stack, node, step, scan,
                 skipped>>

AddDir ==
  /\ Busy /\ entries # <<>> /\ Head(entries) \in Dir
  /\ Emplace(Head(entries))
  /\ stack' = Append(stack, Head(entries))
  /\ entries' = Tail(entries)
  /\ UNCHANGED <<ready, mutex, total, sum_total, countVars, drawVars, node, step, scan, skipped>>

(* A regular file takes three steps: it is linked, counted and unlocked.   *)
AddFile ==
  /\ Busy /\ entries # <<>> /\ Head(entries) \in Regular /\ step = "add"
  /\ Emplace(Head(entries))
  /\ step' = "shift"
  /\ UNCHANGED <<ready, mutex, total, sum_total, countVars, drawVars, stack, node, entries,
                 scan, skipped>>

CountFile ==
  /\ Busy /\ step = "shift"
  /\ ShiftTotal(Head(entries), Size[Head(entries)])
  /\ step' = "unlock"
  /\ UNCHANGED <<children, ready, mutex, countVars, drawVars, stack, node, entries, order,
                 scan, skipped>>

(* Mutant: child->unlock() is forgotten.                                   *)
UnlockFileNever ==
  /\ Busy /\ step = "unlock"
  /\ entries' = Tail(entries)
  /\ step' = "add"
  /\ UNCHANGED <<trackedVars, stack, node, order, scan, skipped>>

UnlockFile ==
  /\ Busy /\ step = "unlock"
  /\ Unlock(Head(entries))
  /\ entries' = Tail(entries)
  /\ step' = "add"
  /\ UNCHANGED <<children, mutex, total, sum_total, countVars, drawVars, stack, node, order,
                 scan, skipped>>

(* Mutant: every entry that is not regular is taken for a directory.       *)
IgnoreEntryPushed ==
  /\ Busy /\ entries # <<>> /\ Head(entries) \in Ignored
  /\ stack' = Append(stack, Head(entries))
  /\ entries' = Tail(entries)
  /\ UNCHANGED <<trackedVars, node, step, order, scan, skipped>>

IgnoreEntry ==
  /\ Busy /\ entries # <<>> /\ Head(entries) \in Ignored
  /\ entries' = Tail(entries)
  /\ UNCHANGED <<trackedVars, stack, node, step, order, scan, skipped>>

(* Mutant: node->unlock() before the loop over the entries.                *)
UnlockDirEarly ==
  /\ Busy
  /\ ~ready[node] \/ entries = <<>>
  /\ Unlock(node)
  /\ node' = IF entries = <<>> THEN NULL ELSE node
  /\ UNCHANGED <<children, mutex, total, sum_total, countVars, drawVars, stack, entries, step,
                 order, scan, skipped>>

(* Mutant: a directory that could not be opened is pushed again.           *)
UnlockDirRetry ==
  /\ Busy /\ entries = <<>>
  /\ Unlock(node)
  /\ node' = NULL
  /\ stack' = IF node \in skipped THEN Append(stack, node) ELSE stack
  /\ UNCHANGED <<children, mutex, total, sum_total, countVars, drawVars, entries, step,
                 order, scan, skipped>>

UnlockDir ==
  /\ Busy /\ entries = <<>>
  /\ Unlock(node)
  /\ node' = NULL
  /\ UNCHANGED <<children, mutex, total, sum_total, countVars, drawVars, stack, entries, step,
                 order, scan, skipped>>

Join ==
  /\ scan = "scanning" /\ node = NULL /\ stack = <<>>
  /\ scan' = "joined"
  /\ UNCHANGED <<trackedVars, stack, node, entries, step, order, skipped>>

ScanStep ==
  \/ ReadDir \/ AddDir \/ AddFile \/ CountFile \/ UnlockFile \/ IgnoreEntry
  \/ UnlockDir \/ Join

ScanOver == scan # "scanning" /\ UNCHANGED allVars

ScanSpec == ScanInit /\ [][ScanStep \/ ScanOver]_allVars /\ WF_allVars(ScanStep)

-----------------------------------------------------------------------------
(* Properties.                                                             *)

(* Whoever passes the wait of iter_children finds a finished node: its     *)
(* list is what is on disk, in a directory that could be opened, and its   *)
(* total has been counted.                                                 *)
ReadyIsFinal ==
  \A n \in Node : ready[n] =>
    /\ children[n] = IF n \in skipped THEN {} ELSE Kids(n)
    /\ total[n] = Size[n]

(* The directories still to be read are linked, not ready and each on the  *)
(* stack once: no list is read twice, and none is forgotten.               *)
StackSound ==
  /\ IsInjective(stack)
  /\ \A d \in Dir : Alive(d) =>
       (~ready[d] <=> (d = node \/ d \in Range(stack)))
  /\ \A d \in Range(stack) : Alive(d) /\ d # node

(* When the thread is joined, and every directory could be opened, the     *)
(* tree is complete: the state sync_with_remote starts from.               *)
HandsOver == scan = "joined" /\ skipped = {} => Scanned

(* The scan ends, or an error of the file system ends the process.         *)
ScanEnds == <>(scan # "scanning")

(* Contrast: of two files of a directory, the smaller is listed first.     *)
SmallestFirst ==
  \A d \in Dir : \A i, j \in 1..Len(order[d]) :
    i < j /\ order[d][i] \in Regular /\ order[d][j] \in Regular =>
      Size[order[d][i]] <= Size[order[d][j]]
=============================================================================
