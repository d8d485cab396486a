------------------------------ MODULE Program -------------------------------
(***************************************************************************)
(* The program as a whole: Args::parse (enu/argparser.cpp), main and       *)
(* enu_main (enu/main.cpp), for the process the user starts ("local") and  *)
(* for the `enu --daemon` that its ssh starts on the other side            *)
(* ("remote").                                                             *)
(*                                                                         *)
(* What the parts do inside is in the other modules: scan_dir ends         *)
(* (ScanDir), the tasks of sync_with_remote are done, or one of them has   *)
(* failed, or one has died of fatal (SyncWithRemote), and spawn and        *)
(* terminate keep the descriptors as in Process.  ssh is external.         *)
(***************************************************************************)
EXTENDS Integers, Sequences, FiniteSetsExt

CONSTANT Lines   \* the command lines, sequences of Token

(* Arguments up to what parse tells apart, each with one dash or two.      *)
Token == {"daemon", "path", "latency", "user@host", "1.5", "", "word"}

ASSUME LinesAssumption == Lines \subseteq Seq(Token)

VARIABLES
  line,    \* the command line of the local process
  pc, rest, arg, exit,  \* of both processes; exit is "" until one has ended
  ssh,     \* "none", "runs", or how it ended: "0", "fail", "TERM", "INT"
  kill,    \* terminate has sent SIGTERM
  waited,  \* wait has reaped ssh
  ok,      \* of sync_with_remote
  sigint,  \* what SIGINT does to the local process: "default", "clear"
  broken   \* history: SIGINT came while ssh ran

vars == <<line, pc, rest, arg, exit, ssh, kill, waited, ok, sigint, broken>>

Proc == {"local", "remote"}
Args == [daemon |-> FALSE, path |-> "", latency |-> "0.0", user_host |-> ""]

Init ==
  /\ line \in Lines
  /\ pc = [local |-> "parse", remote |-> "none"]
  /\ rest = [local |-> line, remote |-> <<"daemon">>]
  /\ arg = [p \in Proc |-> Args]
  /\ exit = [p \in Proc |-> ""]
  /\ ssh = "none" /\ kill = FALSE /\ waited = FALSE /\ ok = TRUE
  /\ sigint = "default" /\ broken = FALSE

shared == <<line, ssh, kill, waited, ok, sigint, broken>>

Goto(p, next) == pc' = [pc EXCEPT ![p] = next]

Ends(p, code) ==
  /\ Goto(p, "ended")
  /\ exit' = [exit EXCEPT ![p] = code]

(* fatal and pfatal: the breakpoint of exit_break ends the process before  *)
(* its _exit(1).                                                           *)
Fatal(p) == Ends(p, "TRAP") /\ UNCHANGED <<rest, arg>>

-----------------------------------------------------------------------------
(* Args::parse.                                                            *)

(* Mutant: a flag is not taken for the value of the flag before it.        *)
ReadsValueShy(r, flag) == Len(r) > 1 /\ r[1] = flag /\ r[2] \notin {"path", "latency"}

(* read_value finds the flag and something after it.                       *)
ReadsValue(r, flag) == Len(r) > 1 /\ r[1] = flag

Reads(p, field, value, n) ==
  /\ arg' = [arg EXCEPT ![p][field] = value]
  /\ rest' = [rest EXCEPT ![p] = SubSeq(@, n + 1, Len(@))]
  /\ UNCHANGED <<pc, exit>>

(* One turn of the loop, in the order of its tests.                        *)
ParseArg(p) ==
  LET r == rest[p]
      read_flag(f) == r[1] = f
      read_target_host == r[1] = "user@host"
      rejects == ~(\/ read_flag("daemon") \/ ReadsValue(r, "path")
                   \/ ReadsValue(r, "latency") \/ read_target_host)
  IN  /\ pc[p] = "parse" /\ r # <<>>
      /\ \/ read_flag("daemon") /\ Reads(p, "daemon", TRUE, 1)
         \/ ReadsValue(r, "path") /\ Reads(p, "path", r[2], 2)
         \/ ReadsValue(r, "latency") /\ r[2] = "1.5" /\ Reads(p, "latency", r[2], 2)
         \/ ReadsValue(r, "latency") /\ r[2] # "1.5" /\ Ends(p, "ABRT") /\ UNCHANGED <<rest, arg>>
         \/ read_target_host /\ Reads(p, "user_host", r[1], 1)
         \/ rejects /\ Ends(p, "1") /\ UNCHANGED <<rest, arg>>
      /\ UNCHANGED shared

(* The check after the loop; nothing sets sequencer.                       *)
ParseEnd(p) ==
  /\ pc[p] = "parse" /\ rest[p] = <<>>
  /\ IF arg[p].daemon \/ arg[p].user_host # "" THEN Goto(p, "path") /\ UNCHANGED exit
     ELSE Ends(p, "1")
  /\ UNCHANGED <<rest, arg, shared>>

-----------------------------------------------------------------------------
(* main, with daemon_main up to the end of its first read.                 *)

(* The path, given or current, is a directory; or it is not, or cannot be  *)
(* found, and main dies.                                                   *)
CheckPath(p) ==
  /\ pc[p] = "path"
  /\ \/ /\ arg' = [arg EXCEPT ![p].path = IF @ = "" THEN "cwd" ELSE @]
        /\ Goto(p, IF arg[p].daemon THEN "read" ELSE "watch")
        /\ UNCHANGED <<rest, exit>>
     \/ Fatal(p)
  /\ UNCHANGED shared

(* Mutant: the daemon keeps reading at the end of its input.               *)
EofSpins(p) == FALSE

(* read_exact on standard input ends.  The remote one is fed through ssh   *)
(* from in_wr of the local Process: nobody writes, so what comes is the    *)
(* end, when ssh or the local process has gone.  The local one is the      *)
(* user's.                                                                 *)
Eof(p) == p = "local" \/ ssh # "runs" \/ exit["local"] # ""

ReadFails(p) ==
  /\ pc[p] = "read" /\ Eof(p)
  /\ Ends(p, "1")
  /\ UNCHANGED <<rest, arg, shared>>

(* A daemon with a terminal may be given its message there, and serve (see *)
(* Daemon) until a read fails or it dies.                                  *)
Serve(p) ==
  /\ p = "local" /\ pc[p] = "read" /\ Goto(p, "serve")
  /\ UNCHANGED <<rest, arg, exit, shared>>

ServeEnds(p) ==
  /\ pc[p] = "serve"
  /\ Fatal(p) \/ (Ends(p, "1") /\ UNCHANGED <<rest, arg>>)
  /\ UNCHANGED shared

Main(p) == ParseArg(p) \/ ParseEnd(p) \/ CheckPath(p) \/ ReadFails(p)

-----------------------------------------------------------------------------
(* enu_main and sync_with_remote, of the local process.                    *)

At(l) == pc["local"] = l
kept == <<line, rest, arg, waited, broken>>

(* watch_dir; FSEvents may refuse.                                         *)
Watch ==
  /\ At("watch")
  /\ \/ Goto("local", "arm") /\ UNCHANGED <<rest, arg, exit>>
     \/ Fatal("local")
  /\ UNCHANGED shared

Arm ==
  /\ At("arm") /\ sigint' = "clear" /\ Goto("local", "scan")
  /\ UNCHANGED <<kept, exit, ssh, kill, ok>>

(* scan_dir and the join of its thread.  The iterator over a directory may *)
(* throw in that thread, and nobody catches it.                            *)
Scan ==
  /\ At("scan")
  /\ \/ Goto("local", "spawn") /\ UNCHANGED exit
     \/ Ends("local", "ABRT")
  /\ UNCHANGED <<kept, ssh, kill, ok, sigint>>

Spawn ==
  /\ At("spawn")
  /\ \/ Goto("local", "send") /\ ssh' = "runs" /\ UNCHANGED <<rest, arg, exit>>
     \/ Fatal("local") /\ UNCHANGED ssh
  /\ UNCHANGED <<line, kill, waited, ok, sigint, broken>>

(* All tasks are done; or one has failed and reports; or one dies.         *)
Send ==
  /\ At("send")
  /\ \/ Goto("local", "kill") /\ UNCHANGED <<rest, arg, exit, ok>>
     \/ Goto("local", "drain") /\ ok' = FALSE /\ UNCHANGED <<rest, arg, exit>>
     \/ Fatal("local") /\ UNCHANGED ok
  /\ UNCHANGED <<line, ssh, kill, waited, sigint, broken>>

(* report_stderr_remote reads until ssh has closed its standard error.     *)
Drain ==
  /\ At("drain") /\ ssh # "runs"
  /\ Goto("local", "kill")
  /\ UNCHANGED <<kept, exit, ssh, kill, ok, sigint>>

(* Mutant: terminate waits without the signal.                             *)
KillForgotten == At("kill") /\ Goto("local", "wait") /\ UNCHANGED <<kept, exit, ssh, kill, ok, sigint>>

Kill ==
  /\ At("kill") /\ kill' = TRUE /\ Goto("local", "wait")
  /\ UNCHANGED <<kept, exit, ssh, ok, sigint>>

(* Mutant: the end by any signal counts as graceful.                       *)
GracefulSignals(status) == status # "fail"

(* Process::wait returns 0.                                                *)
Graceful(status) == status \in {"0", "TERM"}

(* What sync_with_remote returns.                                          *)
Synced(status, good) == Graceful(status) /\ good

(* wait, and on failure a report that finds err_rd closed and ends at      *)
(* once.                                                                   *)
Wait ==
  /\ At("wait") /\ ssh # "runs"
  /\ waited' = TRUE
  /\ Goto("local", IF Synced(ssh, ok) THEN "disarm" ELSE "failed")
  /\ UNCHANGED <<line, rest, arg, exit, ssh, kill, ok, sigint, broken>>

Failed ==
  /\ At("failed") /\ Ends("local", "1")
  /\ UNCHANGED <<kept, ssh, kill, ok, sigint>>

Disarm ==
  /\ At("disarm") /\ sigint' = "default" /\ Goto("local", "return")
  /\ UNCHANGED <<kept, exit, ssh, kill, ok>>

Return ==
  /\ At("return") /\ Ends("local", "0")
  /\ UNCHANGED <<kept, ssh, kill, ok, sigint>>

EnuMain ==
  \/ Watch \/ Arm \/ Scan \/ Spawn \/ Send \/ Drain \/ Kill \/ Wait
  \/ Failed \/ Disarm \/ Return

-----------------------------------------------------------------------------
(* The environment.                                                        *)

(* ssh connects and starts the daemon.                                     *)
Connect ==
  /\ ssh = "runs" /\ pc["remote"] = "none"
  /\ Goto("remote", "parse")
  /\ UNCHANGED <<rest, arg, exit, shared>>

SshEnds(how) ==
  /\ ssh = "runs" /\ ssh' = how
  /\ UNCHANGED <<line, pc, rest, arg, exit, kill, waited, ok, sigint, broken>>

(* It obeys SIGTERM (by dying of it or by an exit of its own), and ends    *)
(* when the daemon has ended, with its exit status.                        *)
SshMust ==
  \/ kill /\ (SshEnds("TERM") \/ SshEnds("fail"))
  \/ exit["remote"] # "" /\ SshEnds("fail")

(* It may end at any time, and others may send SIGTERM.                    *)
SshMay == SshEnds("0") \/ SshEnds("fail") \/ SshEnds("TERM")

(* Ctrl-C reaches the foreground process group: the local process and ssh, *)
(* for which spawn has reset the handlers.  The handler only erases the    *)
(* frame.                                                                  *)
Interrupt ==
  /\ exit["local"] = ""
  /\ ssh' = IF ssh = "runs" THEN "INT" ELSE ssh
  /\ broken' = (broken \/ ssh = "runs")
  /\ IF sigint = "default" THEN Ends("local", "INT") ELSE UNCHANGED <<pc, exit>>
  /\ UNCHANGED <<line, rest, arg, kill, waited, ok, sigint>>

Over == exit["local"] # "" /\ UNCHANGED vars

Next ==
  \/ \E p \in Proc : Main(p) \/ Serve(p) \/ ServeEnds(p)
  \/ EnuMain \/ Connect \/ SshMust \/ SshMay \/ Interrupt
  \/ Over

Spec == Init /\ [][Next]_vars

(* Both processes run, ssh obeys and passes on the end of the daemon; that *)
(* it connects, that a user ends the input of a daemon started by hand, or *)
(* that anything else ends ssh is not assumed.                             *)
FairSpec ==
  /\ Spec
  /\ WF_vars(Main("remote")) /\ WF_vars(EnuMain) /\ WF_vars(SshMust)
  /\ WF_vars(ParseArg("local") \/ ParseEnd("local") \/ CheckPath("local"))

-----------------------------------------------------------------------------
(* Properties.                                                             *)

(* A reference for Args::parse.  Argument i is a value when an odd number  *)
(* of value flags in a row stands before it.                               *)
ValueFlag == {"path", "latency"}
IsValue(i) ==
  \E k \in 1..i - 1 :
    /\ k % 2 = 1
    /\ \A j \in i - k..i - 1 : line[j] \in ValueFlag
    /\ i - k > 1 => line[i - k - 1] \notin ValueFlag
Options(t) == {i \in DOMAIN line : line[i] = t /\ ~IsValue(i)}
Bad ==
  \/ \E i \in DOMAIN line : ~IsValue(i) /\ line[i] \in {"1.5", "", "word"}
  \/ \E t \in ValueFlag : Len(line) \in Options(t)
  \/ \E i \in Options("latency") : line[i + 1] # "1.5"
LastValue(t, default) == IF Options(t) = {} THEN default ELSE line[Max(Options(t)) + 1]

(* Args::parse accepts exactly the command lines in which every option is  *)
(* known, has its value, and one of them is --daemon or a host; it takes   *)
(* the last value given for an option, a flag in value position included.  *)
(* Otherwise it ends the process with 1, or by the exception of stod.      *)
ParseAgrees ==
  LET accepts == ~Bad /\ (Options("daemon") # {} \/ Options("user@host") # {})
  IN  /\ At("path") =>
           /\ accepts
           /\ arg["local"] =
                [daemon |-> Options("daemon") # {}, path |-> LastValue("path", ""),
                 latency |-> LastValue("latency", "0.0"),
                 user_host |-> IF Options("user@host") = {} THEN "" ELSE "user@host"]
      /\ /\ exit["local"] \in {"1", "ABRT"}
         /\ rest["local"] # <<>> \/ (~arg["local"].daemon /\ arg["local"].user_host = "")
         => ~accepts

(* The program ends with 0 only when no task failed, ssh has been reaped,  *)
(* it ended on its own with 0 or by SIGTERM, and no Ctrl-C reached it.     *)
ExitTells ==
  exit["local"] = "0" => ok /\ waited /\ ssh \in {"0", "TERM"} /\ ~broken

(* The program ends, unless it is a daemon itself or a failed task is left *)
(* reading the standard error of an ssh whose daemon waits for an initial  *)
(* message that sync_with_remote never writes: then each waits for the     *)
(* other.                                                                  *)
EndsOrHangs ==
  \/ <>(exit["local"] # "")
  \/ <>[](arg["local"].daemon)
  \/ <>[](At("drain") /\ ssh = "runs" /\ pc["remote"] \in {"none", "read"})

(* However the local process ends, by return, fatal or signal, the daemon  *)
(* it had started ends too.                                                *)
RemoteEnds == exit["local"] # "" ~> pc["remote"] \in {"none", "ended"}
=============================================================================
