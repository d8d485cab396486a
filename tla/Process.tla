------------------------------ MODULE Process -------------------------------
(***************************************************************************)
(* Process (enu/spawn.h, enu/spawn.cpp): child processes whose standard    *)
(* streams are pipes, and the objects that own them.                       *)
(*                                                                         *)
(* A descriptor table maps numbers to ends of pipes.  The parent is one    *)
(* thread that makes calls on its Process objects; a call that blocks      *)
(* (spawn on the result pipe, wait in waitpid) is several steps, between   *)
(* which the children run.  Pids are not reused.                           *)
(***************************************************************************)
EXTENDS Integers, FiniteSets, Sequences, Functions

CONSTANTS
  Object,    \* the variables of type Process
  MaxSpawn,  \* bound on the calls of spawn
  Systems,   \* "vfork": the parent stands still until exec; "fork": it does not
  SigChld,   \* dispositions of SIGCHLD the program may have inherited: "dfl", "ign"
  StdSets    \* the sets of standard descriptors it may have been started with

ASSUME ProcessAssumption ==
  /\ MaxSpawn \in Nat
  /\ SigChld \subseteq {"dfl", "ign"} /\ Systems \subseteq {"vfork", "fork"}
  /\ StdSets \subseteq SUBSET (0..2)

VARIABLES
  system, sigchld, std,  \* chosen once
  fdt,      \* the parent's descriptor table
  obj,      \* the Process objects
  child,    \* the children, in the order they are spawned
  pc,       \* the call the parent is in
  heard,    \* parts of a child's report that the parent has read
  waited,   \* history: children reaped by wait, not by terminate
  misused   \* history: wait was called on an object that has no child

procVars == <<system, sigchld, std, fdt, obj, child, pc, heard, waited, misused>>
choice == <<system, sigchld, std>>
ghosts == <<waited, misused>>

-----------------------------------------------------------------------------
(* Descriptor tables.                                                      *)

Bind(t, fd, e) == [x \in DOMAIN t \cup {fd} |-> IF x = fd THEN e ELSE t[x]]
Close(t, S) == Restrict(t, DOMAIN t \ S)

(* The kernel hands out the lowest number that is free; Free is the k-th.  *)
Rank(t, fd) == Cardinality((0..fd) \ DOMAIN t)
Free(t, k) == CHOOSE fd \in (0..(Cardinality(DOMAIN t) + k)) \ DOMAIN t : Rank(t, fd) = k

PipeEnds == <<"result.rd", "result.wr", "in.rd", "in.wr", "out.rd", "out.wr", "err.rd", "err.wr">>

(* The next descriptors, opened in order for the ends of the pipes of c.   *)
Open(t, c, cloexec) ==
  [fd \in DOMAIN t \cup {Free(t, k) : k \in DOMAIN PipeEnds} |->
     IF fd \in DOMAIN t THEN t[fd]
     ELSE [of |-> c, end |-> PipeEnds[Rank(t, fd)], cloexec |-> cloexec]]

(* Mutant: the pipes survive exec.                                         *)
PipesInherited(t, c) == Open(t, c, FALSE)

(* The four pipes of child c, close-on-exec at both ends.                  *)
Pipes(t, c) == Open(t, c, TRUE)

Fd(t, c, e) == CHOOSE fd \in DOMAIN t : t[fd].of = c /\ t[fd].end = e

Holds(t, c, e) == \E fd \in DOMAIN t : t[fd].of = c /\ t[fd].end = e

(* The ends that become descriptors 0, 1 and 2 of the child.               *)
Streams == <<"in.rd", "out.wr", "err.wr">>

(* dup, close, dup2, close: dup2 onto itself does nothing, and the last    *)
(* close then closes the target.                                           *)
Redirect(t, from, to) ==
  LET tmp == Free(t, 1)
      dup == Bind(t, tmp, [t[from] EXCEPT !.cloexec = FALSE])
      dup2 == Bind(Close(dup, {from}), to, dup[tmp])
  IN  Close(dup2, {tmp})

(* execve closes what is close-on-exec.                                    *)
Exec(t) == Close(t, {fd \in DOMAIN t : t[fd].cloexec})

-----------------------------------------------------------------------------
Children == 1..Len(child)
Fresh == [pid |-> -1, in_wr |-> -1, out_rd |-> -1, err_rd |-> -1]
Fds(o) == {o.in_wr, o.out_rd, o.err_rd}
Idle == [op |-> "idle"]

(* The children the kernel still keeps, and those of them that have ended. *)
Kept == {c \in Children : child[c].st # "reaped"}
Ended == {c \in Children : child[c].st \in {"zombie", "reaped"}}

ProcInit ==
  /\ system \in Systems /\ sigchld \in SigChld /\ std \in StdSets
  /\ fdt = [fd \in std |-> [of |-> 0, end |-> "std", cloexec |-> FALSE]]
  /\ obj = [p \in Object |-> Fresh]
  /\ child = <<>> /\ pc = Idle /\ heard = 0
  /\ waited = {} /\ misused = FALSE

ProcTypeOK ==
  /\ \A fd \in DOMAIN fdt : fd \in Nat /\ fdt[fd].of \in 0..Len(child)
  /\ \A p \in Object : obj[p].pid \in {-1} \cup Children /\ Fds(obj[p]) \subseteq Nat \cup {-1}
  /\ \A c \in Children :
       /\ child[c].st \in {"forked", "failing", "running", "zombie", "reaped"}
       /\ child[c].said \in 0..child[c].told /\ child[c].told \in 0..4
       /\ child[c].status \in {"none", "exit", "term", "kill"}
  /\ pc.op \in {"idle", "read", "body", "reap", "wait", "fatal"}
  /\ heard \in 0..4

-----------------------------------------------------------------------------
(* The child.                                                              *)

Become(c, r) == child' = [child EXCEPT ![c] = r]

(* With SIGCHLD ignored the kernel keeps nothing of a child that ends.     *)
End(c, r, status) ==
  Become(c, [r EXCEPT !.st = IF sigchld = "ign" THEN "reaped" ELSE "zombie",
                      !.tbl = <<>>, !.at = 0, !.term = FALSE, !.status = status])

ChildVars == <<choice, fdt, obj, pc, heard, ghosts>>

(* The loop of subprocess: close(result.rd) comes before the first round.  *)
RedirectNext(c) ==
  LET r == child[c]
      k == r.at + 1
      t == IF k = 1 THEN Close(r.tbl, {r.args["result.rd"]}) ELSE r.tbl
  IN  /\ r.st = "forked" /\ k <= 3
      /\ Become(c, [r EXCEPT !.at = k, !.tbl = Redirect(t, r.args[Streams[k]], k - 1)])
      /\ UNCHANGED ChildVars

(* The signals blocked around vfork are unblocked, and execve succeeds.    *)
Execve(c) ==
  /\ child[c].st = "forked" /\ child[c].at = 3
  /\ Become(c, [child[c] EXCEPT !.st = "running", !.masked = FALSE, !.tbl = Exec(@)])
  /\ UNCHANGED ChildVars

(* sigaction, dup, dup2 or execve fails.                                   *)
SubprocessFails(c) ==
  /\ child[c].st = "forked"
  /\ Become(c, [child[c] EXCEPT !.st = "failing"])
  /\ UNCHANGED ChildVars

(* Mutant: the text is written in one piece more.                          *)
PiecesMore == 5

(* fail writes the length, its argument, a colon and the text of errno.    *)
Pieces == 4

(* They go to whatever has the number of result.wr.                        *)
Fail(c) ==
  LET r == child[c]
      fd == r.args["result.wr"]
      reaches == fd \in DOMAIN r.tbl /\ r.tbl[fd].of = c /\ r.tbl[fd].end = "result.wr"
      told == [r EXCEPT !.told = @ + 1, !.said = @ + (IF reaches THEN 1 ELSE 0)]
  IN  /\ r.st = "failing"
      /\ IF told.told < Pieces THEN Become(c, told) ELSE End(c, told, "exit")
      /\ UNCHANGED ChildVars

(* The program the child runs ends; SIGTERM reaches it; something kills it. *)
ChildExits(c) ==
  /\ child[c].st = "running"
  /\ End(c, child[c], "exit")
  /\ UNCHANGED ChildVars

ChildTerm(c) ==
  /\ child[c].st = "running" /\ child[c].term /\ ~child[c].masked
  /\ End(c, child[c], "term")
  /\ UNCHANGED ChildVars

ChildKilled(c) ==
  /\ c \notin Ended
  /\ End(c, child[c], "kill")
  /\ UNCHANGED ChildVars

-----------------------------------------------------------------------------
(* _process_spawn.                                                         *)

(* Mutant: the parent keeps its copy of result.wr.                         *)
ChildEndsForgotten(a) == {a["in.rd"], a["out.wr"], a["err.wr"]}

ChildEnds(a) == {a["result.wr"], a["in.rd"], a["out.wr"], a["err.wr"]}

(* pfatal and fatal: the parent ends.                                      *)
Fatal == pc' = [op |-> "fatal"] /\ fdt' = <<>>

Spawn(p) ==
  /\ pc = Idle /\ obj[p] = Fresh /\ Len(child) < MaxSpawn
  /\ LET c == Len(child) + 1
         t == Pipes(fdt, c)
         a == [e \in Range(PipeEnds) |-> Fd(t, c, e)]
     IN  /\ child' = Append(child, [st |-> "forked", args |-> a, tbl |-> t, at |-> 0, told |-> 0, said |-> 0,
                                    masked |-> TRUE, term |-> FALSE, status |-> "none"])
         /\ fdt' = Close(t, ChildEnds(a))
         /\ pc' = [op |-> "read", p |-> p, c |-> c]
  /\ heard' = 0
  /\ UNCHANGED <<choice, obj, ghosts>>

(* pipe or vfork fails.                                                    *)
SpawnFails(p) ==
  /\ pc = Idle /\ obj[p] = Fresh /\ Len(child) < MaxSpawn
  /\ Fatal
  /\ UNCHANGED <<choice, obj, child, heard, ghosts>>

(* Nobody has the write end of the result pipe of c open.                  *)
ResultClosed(c) ==
  ~Holds(fdt, c, "result.wr") /\ \A d \in Children : ~Holds(child[d].tbl, c, "result.wr")

(* The child has stopped borrowing the parent's thread.                    *)
Resumed(c) == system = "vfork" => child[c].st \notin {"forked", "failing"}

(* Mutant: the result of read is not looked at.                            *)
NoReportUnread(c) == ResultClosed(c)

(* read returns zero bytes.                                                *)
NoReport(c) == child[c].said = 0 /\ ResultClosed(c)

(* The child is taken to run its program.                                  *)
Spawned ==
  /\ pc.op = "read" /\ Resumed(pc.c) /\ NoReport(pc.c)
  /\ LET a == child[pc.c].args IN
     /\ fdt' = Close(fdt, {a["result.rd"]})
     /\ obj' = [obj EXCEPT ![pc.p] = [pid |-> pc.c, in_wr |-> a["in.wr"],
                                      out_rd |-> a["out.rd"], err_rd |-> a["err.rd"]]]
  /\ pc' = Idle
  /\ UNCHANGED <<choice, child, heard, ghosts>>

ReadLength ==
  /\ pc.op = "read" /\ Resumed(pc.c) /\ child[pc.c].said > 0
  /\ pc' = [pc EXCEPT !.op = "body"] /\ heard' = 1
  /\ UNCHANGED <<choice, fdt, obj, child, ghosts>>

(* One read, which returns what is there.                                  *)
ReadText ==
  /\ pc.op = "body" /\ (child[pc.c].said > 1 \/ ResultClosed(pc.c))
  /\ pc' = [pc EXCEPT !.op = "reap"] /\ heard' = child[pc.c].said
  /\ UNCHANGED <<choice, fdt, obj, child, ghosts>>

(* waitpid on the child that failed, and fatal.                            *)
Report ==
  /\ pc.op = "reap" /\ pc.c \in Ended
  /\ Become(pc.c, [child[pc.c] EXCEPT !.st = "reaped"])
  /\ Fatal
  /\ UNCHANGED <<choice, obj, heard, ghosts>>

-----------------------------------------------------------------------------
(* wait, terminate, the move assignment and the destructor.                *)

(* Mutant: a move leaves the source as it is.                              *)
MoveKeeps(o, job) ==
  CASE job.f = "assign" -> [o EXCEPT ![job.p] = o[job.q]]
    [] job.f = "destroy" -> [o EXCEPT ![job.p] = Fresh]
    [] OTHER -> o

(* The objects once waitpid or kill has returned.                          *)
Finish(o, job) ==
  CASE job.f = "assign" -> [o EXCEPT ![job.p] = o[job.q], ![job.q].pid = -1]
    [] job.f = "destroy" -> [o EXCEPT ![job.p] = Fresh]
    [] OTHER -> o

(* Mutant: standard error is forgotten.                                    *)
ClosedFewer(job) == IF job.f = "wait" THEN {} ELSE {obj[job.p].in_wr, obj[job.p].out_rd}

(* terminate closes the descriptors of the object, unless they are         *)
(* standard ones; wait closes none.                                        *)
Closed(job) == IF job.f = "wait" THEN {} ELSE Fds(obj[job.p]) \ (0..2)

(* waitpid(-1) waits for any child.                                        *)
Awaited(pid) == IF pid = -1 THEN Kept ELSE {pid} \cap Kept

Calling(f, p, q) == [op |-> "wait", f |-> f, p |-> p, q |-> q]

Wait(p) ==
  /\ pc = Idle
  /\ pc' = Calling("wait", p, p)
  /\ misused' = (misused \/ obj[p].pid = -1)
  /\ UNCHANGED <<choice, fdt, obj, child, heard, waited>>

Reaps ==
  /\ pc.op = "wait"
  /\ \E c \in Awaited(obj[pc.p].pid) \cap Ended :
       /\ Become(c, [child[c] EXCEPT !.st = "reaped"])
       /\ waited' = IF pc.f = "wait" THEN waited \cup {c} ELSE waited
  /\ fdt' = Close(fdt, Closed(pc))
  /\ obj' = Finish([obj EXCEPT ![pc.p].pid = -1], pc)
  /\ pc' = Idle
  /\ UNCHANGED <<choice, heard, misused>>

(* ECHILD: pid is kept.                                                    *)
WaitFails ==
  /\ pc.op = "wait" /\ Awaited(obj[pc.p].pid) = {}
  /\ fdt' = Close(fdt, Closed(pc))
  /\ obj' = Finish(obj, pc)
  /\ pc' = Idle
  /\ UNCHANGED <<choice, child, heard, ghosts>>

(* terminate, alone or in operator= and the destructor.  Without a child   *)
(* it returns at once; kill fails when the child has been reaped.          *)
Terminate(f, p, q) ==
  /\ pc = Idle /\ (f = "assign" <=> p # q)
  /\ LET pid == obj[p].pid
         job == Calling(f, p, q)
     IN  \/ /\ pid \in Kept
            /\ child' = [child EXCEPT ![pid].term = pid \notin Ended]
            /\ pc' = job
            /\ UNCHANGED <<fdt, obj>>
         \/ /\ pid \notin Kept
            /\ fdt' = IF pid = -1 THEN fdt ELSE Close(fdt, Closed(job))
            /\ obj' = Finish(obj, job)
            /\ UNCHANGED <<child, pc>>
  /\ UNCHANGED <<choice, heard, ghosts>>

-----------------------------------------------------------------------------
ParentGoesOn == Spawned \/ ReadLength \/ ReadText \/ Report \/ Reaps \/ WaitFails

ParentCalls ==
  \/ \E p \in Object : Spawn(p) \/ SpawnFails(p) \/ Wait(p)
  \/ \E f \in {"terminate", "assign", "destroy"}, p, q \in Object : Terminate(f, p, q)

ChildGoesOn(c) == RedirectNext(c) \/ Execve(c) \/ SubprocessFails(c) \/ Fail(c) \/ ChildTerm(c)

Stopped == pc.op = "fatal" /\ Children = Ended /\ UNCHANGED procVars

ProcNext ==
  \/ ParentGoesOn \/ ParentCalls \/ Stopped
  \/ \E c \in Children : ChildGoesOn(c) \/ ChildExits(c) \/ ChildKilled(c)

ProcSpec == ProcInit /\ [][ProcNext]_procVars

(* The parent returns from its calls and a child gets as far as exec, and  *)
(* obeys SIGTERM; nobody has to call anything, and no program has to end.  *)
ProcFairSpec ==
  ProcSpec /\ WF_procVars(ParentGoesOn) /\ \A c \in 1..MaxSpawn : WF_procVars(c \in Children /\ ChildGoesOn(c))

-----------------------------------------------------------------------------
(* Properties.                                                             *)

(* A program runs with the three pipes of its own spawn as its standard    *)
(* streams and holds no other end of any pipe, so that each pipe ends when *)
(* its one owner closes it.  A standard stream may be missing only if its  *)
(* descriptor was closed in the parent: dup then lands on it, and close    *)
(* follows.                                                                *)
StreamsRedirected ==
  \A c \in Children : child[c].st = "running" =>
    LET t == child[c].tbl IN
    /\ std \subseteq DOMAIN t
    /\ \A fd \in DOMAIN t : fd \in 0..2 /\ t[fd].of = c /\ t[fd].end = Streams[fd + 1]

(* spawn returns an object only for a child that runs its program, or was  *)
(* killed: a child that failed before exec is reported through the result  *)
(* pipe, whole where the parent stands still in vfork.  With two standard  *)
(* descriptors closed the redirection overwrites the result pipe, and      *)
(* nothing of the kind holds.                                              *)
FailureReported ==
  Cardinality(std) >= 2 =>
    /\ \A p \in Object : obj[p].pid # -1 => child[obj[p].pid].told = 0
    /\ pc.op = "reap" /\ system = "vfork" /\ child[pc.c].status # "kill" => heard = 4

(* Every child the kernel keeps is named by one object, or by the spawn in *)
(* progress: none is left behind as a zombie and none is terminated twice, *)
(* whatever is moved, waited for and destroyed in between.                 *)
OneOwner ==
  sigchld = "dfl" /\ ~misused /\ pc.op # "fatal" =>
    \A c \in Kept :
      IF pc.op \in {"read", "body", "reap"} /\ pc.c = c
      THEN \A p \in Object : obj[p].pid # c
      ELSE \E p \in Object : {q \in Object : obj[q].pid = c} = {p}

(* An object that has a child names the parent's ends of that child's      *)
(* pipes, so terminate closes these and no other descriptor; and the       *)
(* parent has no ends open but those, and the ones wait leaves open.       *)
FdsManaged ==
  sigchld = "dfl" /\ ~misused =>
    /\ \A p \in Object : obj[p].pid # -1 /\ pc.op # "fatal" =>
         \A x \in {<<obj[p].in_wr, "in.wr">>, <<obj[p].out_rd, "out.rd">>, <<obj[p].err_rd, "err.rd">>} :
           x[1] \in DOMAIN fdt /\ fdt[x[1]].of = obj[p].pid /\ fdt[x[1]].end = x[2]
    /\ pc = Idle =>
         \A fd \in DOMAIN fdt :
           fdt[fd].of \in {0} \cup waited \cup {obj[p].pid : p \in Object}

(* spawn, wait after a signal, terminate, operator= and the destructor     *)
(* return, if the child's program does not ignore SIGTERM.                 *)
CallsReturn ==
  (pc.op \in {"read", "body", "reap"} \/ (pc.op = "wait" /\ pc.f # "wait")) ~> pc.op \in {"idle", "fatal"}
=============================================================================
