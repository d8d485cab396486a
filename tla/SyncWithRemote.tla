--------------------------- MODULE SyncWithRemote ---------------------------
(***************************************************************************)
(* sync_with_remote (enu/main.cpp): the tasks that walk the scanned tree,  *)
(* send one message per entry, and take the tree apart behind themselves.  *)
(*                                                                         *)
(* One task per node: its program counter is pc[n].  Between two labels a  *)
(* task makes at most one access to state that other tasks share: an       *)
(* atomic load or store, a lock, a write to the stream.                    *)
(***************************************************************************)
EXTENDS TrackedNode

CONSTANTS
  NThreads,   \* threads of the TBB arena, the main thread included
  SeqMod,     \* numeric_limits<uint32_t>::max()
  TooLong     \* entries whose relative path does not fit in 16 bits

ASSUME ThreadAssumption == NThreads \in Nat \ {0}
ASSUME SeqAssumption == SeqMod \in Nat \ {0}
ASSUME LongAssumption == TooLong \subseteq Node

VARIABLES
  pc,        \* where the task of each node is
  cur,       \* the argument of bubble, as it climbs
  pending,   \* remaining direct children; Absent when the map has no entry
  seq,       \* the sequence number of each message; Absent before it is read
  inc,       \* the value a task is about to store into g_seq
  g_seq,
  ok,
  daemon,    \* the ssh process: "alive", or how it exited, "ok" or "err"
  status,    \* of this process: "running", "fatal", or what was returned
  sent       \* history: how often the message of each node was written completely

syncVars == <<pc, cur, pending, seq, inc, g_seq, ok, daemon, status, sent>>
vars == <<trackedVars, syncVars>>

Absent == -1

Label ==
  {"new", "queued", "seq", "inc", "store", "header", "path", "open", "body",
   "ticknode", "ticksum", "draw", "drawroot", "drawing", "sent", "remove",
   "bubble", "climb", "iter", "spawn", "wait", "report", "drain", "done"}

TypeOK ==
  /\ TrackedTypeOK
  /\ pc \in [Node -> Label]
  /\ cur \in [Node -> Node]
  /\ pending \in [Node -> Nat \cup {Absent}]
  /\ seq \in [Node -> Nat \cup {Absent}]
  /\ inc \in [Node -> Nat]
  /\ g_seq \in Nat
  /\ ok \in BOOLEAN
  /\ daemon \in {"alive", "ok", "err"}
  /\ status \in {"running", "fatal", "true", "false"}
  /\ sent \in [Node -> Nat]

Init ==
  /\ Scanned
  /\ pc = [n \in Node |-> IF n = Root THEN "queued" ELSE "new"]
  /\ cur = [n \in Node |-> Root]
  /\ pending = [n \in Node |-> Absent]
  /\ seq = [n \in Node |-> Absent]
  /\ inc = [n \in Node |-> 0]
  /\ g_seq = 0
  /\ ok = TRUE
  /\ daemon = "alive"
  /\ status = "running"
  /\ sent = [n \in Node |-> 0]

-----------------------------------------------------------------------------
Goto(n, l) == pc' = [pc EXCEPT ![n] = l]

(* Frames that occupy a thread.  A task inside task_group::wait does not:  *)
(* its thread runs other tasks meanwhile.                                  *)
Running == {n \in Node : pc[n] \notin {"new", "queued", "wait", "done"}}

(* t_sock.local(): TBB value-initialises the int of a new thread.          *)
LocalSock == 0

(* Entry of recurse.  A thread whose socket is -1 would call               *)
(* connect_to_daemon, which dies on its pfatal before it connects.         *)
Start(n) ==
  /\ pc[n] = "queued"
  /\ Cardinality(Running) < NThreads
  /\ \/ ~ok /\ Goto(n, "done") /\ UNCHANGED status
     \/ /\ ok
        /\ Goto(n, "seq")
        /\ status' = IF LocalSock = -1 THEN "fatal" ELSE status
  /\ UNCHANGED <<trackedVars, cur, pending, seq, inc, g_seq, ok, daemon, sent>>

(* seq = g_seq; g_seq = (g_seq + 1) % max: two loads and a store.          *)
LoadSeq(n) ==
  /\ pc[n] = "seq"
  /\ seq' = [seq EXCEPT ![n] = g_seq]
  /\ Goto(n, "inc")
  /\ UNCHANGED <<trackedVars, cur, pending, inc, g_seq, ok, daemon, status, sent>>

LoadInc(n) ==
  /\ pc[n] = "inc"
  /\ inc' = [inc EXCEPT ![n] = (g_seq + 1) % SeqMod]
  /\ Goto(n, "store")
  /\ UNCHANGED <<trackedVars, cur, pending, seq, g_seq, ok, daemon, status, sent>>

StoreSeq(n) ==
  /\ pc[n] = "store"
  /\ g_seq' = inc[n]
  /\ Goto(n, "header")
  /\ UNCHANGED <<trackedVars, cur, pending, seq, inc, ok, daemon, status, sent>>

-----------------------------------------------------------------------------
(* send_datamsg.  Every write may fail; fs::relative, open and mmap are    *)
(* fatal when they do.                                                     *)

SendVars == <<cur, pending, seq, inc, g_seq, ok, daemon>>

(* The message of n is complete.                                           *)
Sent(n) ==
  /\ Goto(n, "sent")
  /\ sent' = [sent EXCEPT ![n] = @ + 1]

SendHeader(n) ==
  /\ pc[n] = "header"
  /\ \/ n \notin TooLong /\ Goto(n, "path") /\ UNCHANGED status
     \/ Goto(n, "report") /\ UNCHANGED status
     \/ status' = "fatal" /\ UNCHANGED pc
  /\ UNCHANGED <<trackedVars, SendVars, sent>>

SendPath(n) ==
  /\ pc[n] = "path"
  /\ \/ Size[n] > 0 /\ Goto(n, "open") /\ UNCHANGED sent
     \/ Size[n] = 0 /\ Sent(n)
     \/ Goto(n, "report") /\ UNCHANGED sent
  /\ UNCHANGED <<trackedVars, SendVars, status>>

(* open and mmap of the file; either may be fatal.                         *)
OpenFile(n) ==
  /\ pc[n] = "open"
  /\ \/ Goto(n, "body") /\ UNCHANGED status
     \/ status' = "fatal" /\ UNCHANGED pc
  /\ UNCHANGED <<trackedVars, SendVars, sent>>

(* One turn of the loop over the chunks: ok is read after the write.       *)
SendChunk(n) ==
  /\ pc[n] = "body"
  /\ \/ ok /\ Goto(n, "ticknode")
     \/ Goto(n, "report")
  /\ UNCHANGED <<trackedVars, SendVars, status, sent>>

(* Mutant: while (n_sent <= meta.fsize).                                   *)
NextChunkOver(n) ==
  IF done[n] <= Size[n] THEN Goto(n, "body") /\ UNCHANGED sent ELSE Sent(n)

(* Back in the loop after tick.                                            *)
NextChunk(n) ==
  IF done[n] < Size[n] THEN Goto(n, "body") /\ UNCHANGED sent ELSE Sent(n)

TickDone(n) ==
  /\ pc[n] = "ticknode"
  /\ TickNode(n)
  /\ Goto(n, "ticksum")
  /\ UNCHANGED <<treeVars, drawVars, SendVars, status, sent>>

TickSumDone(n) ==
  /\ pc[n] = "ticksum"
  /\ TickSum
  /\ Goto(n, "draw")
  /\ UNCHANGED <<treeVars, drawVars, SendVars, status, sent>>

(* Someone else is drawing, or it is too early to draw again.              *)
SkipDraw(n) ==
  /\ pc[n] = "draw"
  /\ NextChunk(n)
  /\ UNCHANGED <<trackedVars, SendVars, status>>

StartDraw(n) ==
  /\ pc[n] = "draw"
  /\ BeginDraw(n)
  /\ Goto(n, "drawroot")
  /\ UNCHANGED <<treeVars, countVars, SendVars, status, sent>>

DrawRoot(n) ==
  /\ pc[n] = "drawroot"
  /\ VisitRoot(n)
  /\ Goto(n, "drawing")
  /\ UNCHANGED <<children, ready, total, sum_total, countVars, SendVars, status, sent>>

Draw(n) ==
  /\ pc[n] = "drawing"
  /\ VisitChild(n) \/ LeaveVisit
  /\ UNCHANGED <<children, ready, total, sum_total, countVars, SendVars, pc, status, sent>>

FinishDraw(n) ==
  /\ pc[n] = "drawing"
  /\ EndDraw
  /\ NextChunk(n)
  /\ UNCHANGED <<treeVars, countVars, SendVars, status>>

-----------------------------------------------------------------------------
(* After the message: directories fan out, leaves are removed and bubble.  *)

FanVars == <<seq, inc, g_seq, ok, daemon, status, sent>>

(* Mutant: pending.emplace is forgotten.                                   *)
AfterSendNoEntry(n) ==
  /\ pc[n] = "sent"
  /\ Goto(n, IF n \in Dir /\ (children[n] # {} \/ n = Root) THEN "iter" ELSE "remove")
  /\ UNCHANGED <<trackedVars, cur, pending, FanVars>>

AfterSend(n) ==
  /\ pc[n] = "sent"
  /\ IF n \in Dir /\ (children[n] # {} \/ n = Root)
     THEN /\ pending' = [pending EXCEPT ![n] = Cardinality(children[n])]
          /\ Goto(n, "iter")
     ELSE Goto(n, "remove") /\ UNCHANGED pending
  /\ UNCHANGED <<trackedVars, cur, FanVars>>

IterChildren(n) ==
  /\ pc[n] = "iter"
  /\ EnterIter(n, n)
  /\ Goto(n, "spawn")
  /\ UNCHANGED <<children, ready, total, sum_total, countVars, drawVars, cur, pending, FanVars>>

(* Mutant: a child that is still in the list is handed to the group again. *)
SpawnChildAgain(n) ==
  /\ pc[n] = "spawn"
  /\ \E c \in children[n] : pc[c] \in {"new", "remove"} /\ Goto(c, "queued")
  /\ UNCHANGED <<trackedVars, cur, pending, FanVars>>

SpawnChild(n) ==
  /\ pc[n] = "spawn"
  /\ \E c \in children[n] : pc[c] = "new" /\ Goto(c, "queued")
  /\ UNCHANGED <<trackedVars, cur, pending, FanVars>>

(* Mutant: tbb.wait() moved into iter_children, under the lock.            *)
EndSpawnLocked(n) ==
  /\ pc[n] = "spawn"
  /\ \A c \in children[n] : pc[c] # "new"
  /\ Goto(n, "wait")
  /\ UNCHANGED <<trackedVars, cur, pending, FanVars>>

EndSpawn(n) ==
  /\ pc[n] = "spawn"
  /\ \A c \in children[n] : pc[c] # "new"
  /\ LeaveIter(n)
  /\ Goto(n, "wait")
  /\ UNCHANGED <<children, ready, total, sum_total, countVars, drawVars, cur, pending, FanVars>>

WaitGroup(n) ==
  /\ pc[n] = "wait"
  /\ \A c \in Kids(n) : pc[c] = "done"
  /\ Goto(n, "done")
  /\ UNCHANGED <<trackedVars, cur, pending, FanVars>>

RemoveLeaf(n) ==
  /\ pc[n] = "remove"
  /\ Remove(n)
  /\ cur' = [cur EXCEPT ![n] = Parent[n]]
  /\ Goto(n, "bubble")
  /\ UNCHANGED <<ready, mutex, total, sum_total, countVars, drawVars, pending, FanVars>>

(* Mutant: the directory goes when one child is left.                      *)
BubbleAtOne(n) ==
  /\ pc[n] = "bubble"
  /\ pending' = [pending EXCEPT ![cur[n]] = @ - 1]
  /\ Goto(n, IF pending'[cur[n]] <= 1 THEN "climb" ELSE "done")
  /\ UNCHANGED <<trackedVars, cur, FanVars>>

(* One turn of bubble up to the decrement, which the accessor makes atomic *)
Bubble(n) ==
  /\ pc[n] = "bubble"
  /\ pending' = [pending EXCEPT ![cur[n]] = @ - 1]
  /\ Goto(n, IF pending'[cur[n]] = 0 THEN "climb" ELSE "done")
  /\ UNCHANGED <<trackedVars, cur, FanVars>>

(* Mutant: node->remove() is forgotten.                                    *)
ClimbKeepsNode(n) ==
  /\ pc[n] = "climb"
  /\ pending' = [pending EXCEPT ![cur[n]] = Absent]
  /\ IF cur[n] = Root
     THEN Goto(n, "done") /\ UNCHANGED cur
     ELSE /\ cur' = [cur EXCEPT ![n] = Parent[cur[n]]]
          /\ Goto(n, "bubble")
  /\ UNCHANGED <<trackedVars, FanVars>>

(* The count reached 0: the directory goes, and its parent is next.        *)
Climb(n) ==
  /\ pc[n] = "climb"
  /\ pending' = [pending EXCEPT ![cur[n]] = Absent]
  /\ IF cur[n] = Root
     THEN Goto(n, "done") /\ UNCHANGED <<children, cur>>
     ELSE /\ Remove(cur[n])
          /\ cur' = [cur EXCEPT ![n] = Parent[cur[n]]]
          /\ Goto(n, "bubble")
  /\ UNCHANGED <<ready, mutex, total, sum_total, countVars, drawVars, FanVars>>

-----------------------------------------------------------------------------
(* Failure and the end of the call.                                        *)

(* report_async_error: the first failing task drains the remote stderr.    *)
Report(n) ==
  /\ pc[n] = "report"
  /\ ok' = FALSE
  /\ Goto(n, IF ok THEN "drain" ELSE "done")
  /\ UNCHANGED <<trackedVars, cur, pending, seq, inc, g_seq, daemon, status, sent>>

(* report_stderr_remote reads until end of file: until ssh has exited.     *)
Drain(n) ==
  /\ pc[n] = "drain"
  /\ daemon # "alive"
  /\ Goto(n, "done")
  /\ UNCHANGED <<trackedVars, cur, pending, seq, inc, g_seq, ok, daemon, status, sent>>

DaemonExits ==
  /\ daemon = "alive"
  /\ daemon' \in {"ok", "err"}
  /\ UNCHANGED <<trackedVars, pc, cur, pending, seq, inc, g_seq, ok, status, sent>>

(* Mutant: return true instead of return ok.                               *)
TerminateTrue ==
  /\ pc[Root] = "done"
  /\ daemon' \in (IF daemon = "alive" THEN {"ok", "err"} ELSE {daemon})
  /\ status' = IF daemon' = "ok" THEN "true" ELSE "false"
  /\ UNCHANGED <<trackedVars, pc, cur, pending, seq, inc, g_seq, ok, sent>>

(* daemon.terminate() and the return of sync_with_remote.                  *)
Terminate ==
  /\ pc[Root] = "done"
  /\ daemon' \in (IF daemon = "alive" THEN {"ok", "err"} ELSE {daemon})
  /\ status' = IF daemon' = "ok" /\ ok THEN "true" ELSE "false"
  /\ UNCHANGED <<trackedVars, pc, cur, pending, seq, inc, g_seq, ok, sent>>

Step(n) ==
  \/ Start(n) \/ LoadSeq(n) \/ LoadInc(n) \/ StoreSeq(n)
  \/ SendHeader(n) \/ SendPath(n) \/ OpenFile(n) \/ SendChunk(n)
  \/ TickDone(n) \/ TickSumDone(n) \/ SkipDraw(n) \/ StartDraw(n)
  \/ DrawRoot(n) \/ Draw(n) \/ FinishDraw(n)
  \/ AfterSend(n) \/ IterChildren(n) \/ SpawnChild(n) \/ EndSpawn(n)
  \/ WaitGroup(n) \/ RemoveLeaf(n) \/ Bubble(n) \/ Climb(n)
  \/ Report(n) \/ Drain(n)

Finished == status # "running" /\ UNCHANGED vars

Next ==
  \/ status = "running" /\ \E n \in Node : Step(n)
  \/ status = "running" /\ (Terminate \/ DaemonExits)
  \/ Finished

Spec == Init /\ [][Next]_vars

(* Every thread is scheduled; the remote process owes us nothing.          *)
Fairness ==
  /\ \A n \in Node : WF_vars(status = "running" /\ Step(n))
  /\ WF_vars(status = "running" /\ Terminate)

FairSpec == Spec /\ Fairness

-----------------------------------------------------------------------------
(* Properties.                                                             *)

(* The tasks whose next step uses their own node.                          *)
Holding ==
  {n \in Node : pc[n] \notin {"new", "bubble", "climb", "wait", "report", "drain", "done"}}

(* The tasks that still owe the entry of p a decrement.                    *)
Owing(p) == {m \in Node : pc[m] = "bubble" /\ cur[m] = p}

(* The count kept for a directory in pending is exact at every moment: the *)
(* children still linked plus the removed ones whose task has not yet come *)
(* to the decrement in bubble.                                             *)
PendingExact ==
  \A p \in Node :
    pending[p] # Absent => pending[p] = Cardinality(children[p]) + Cardinality(Owing(p))

(* bubble always finds the entry it looks up (the code dereferences the    *)
(* accessor unchecked), never takes it below zero, and one task only       *)
(* removes the directory whose entry has reached zero.                     *)
BubbleSound ==
  /\ \A n \in Node : pc[n] = "bubble" => pending[cur[n]] > 0
  /\ \A n \in Node : pc[n] = "climb" => pending[cur[n]] = 0
  /\ \A m, n \in Node :
       pc[m] = "climb" /\ pc[n] = "climb" /\ cur[m] = cur[n] => m = n

(* No task and no drawing walk ever uses a destroyed node: not its own, not *)
(* the directory bubble is at, not one display_progress is inside of or is *)
(* about to visit; and no directory is destroyed before what it contains.  *)
NoDangling ==
  /\ \A n \in Holding : Alive(n)
  /\ \A n \in Node : pc[n] \in {"bubble", "climb"} => Alive(cur[n])
  /\ painter # NULL =>
       \A v \in Node : mutex[v] = painter => Alive(v) /\ todo[v] \subseteq children[v]
  /\ \A n \in Node : children[n] # {} => Alive(n)

(* The ratio of the progress bar never exceeds 1, so that BAR_WIDTH -      *)
(* filled in display_progress does not wrap around.                        *)
BarFits ==
  /\ sum_done <= sum_total
  /\ \A n \in Node : done[n] <= total[n]

(* A frame never has more lines than the terminal, or the cursor movement  *)
(* of display_progress would leave stale lines behind.                     *)
FrameFits == MaxRows > 0 => lines <= MaxRows

(* sync_with_remote answers true only when every message was written once, *)
(* the tree is empty again and the progress bar is full.                   *)
SuccessComplete ==
  status = "true" =>
    /\ \A n \in Node : sent[n] = 1
    /\ \A n \in Node : children[n] = {} /\ mutex[n] = NULL
    /\ sum_done = sum_total

(* Every entry is sent at most once, whichever tasks meet it, and after its *)
(* directory; the call answers true only when all have been sent.  A second *)
(* message for an entry raises its count to 2, which Delivery does not do.  *)
Abstract == INSTANCE Delivery WITH delivered <- sent, outcome <- status
DeliverySpec == Abstract!Spec

(* The call returns (or dies), unless a failed task is left reading the    *)
(* standard error of a remote process that stays alive.                    *)
Returns ==
  \/ <>(status # "running")
  \/ <>[](daemon = "alive" /\ \E n \in Node : pc[n] = "drain")

(* Contrast: an entry has a later sequence number than its directory.      *)
ParentSeqFirst ==
  \A n \in Node \ {Root} : sent[n] > 0 => seq[Parent[n]] < seq[n]
=============================================================================
