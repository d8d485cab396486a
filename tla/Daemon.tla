------------------------------- MODULE Daemon -------------------------------
(***************************************************************************)
(* daemon_main (enu/daemon.h): one thread that polls its listening and     *)
(* accepted sockets, receives one message after the other on each, and     *)
(* builds the tree below its working directory.                            *)
(*                                                                         *)
(* The clients, the kernel's descriptor table and the file system are the  *)
(* environment.  A client connects to its port and writes its messages;    *)
(* a message is HeaderLen units, one unit of path, and Size[n] units of    *)
(* contents.  Descriptors are numbers and the kernel hands out the lowest  *)
(* that is free, because the daemon keeps numbers of closed descriptors.   *)
(***************************************************************************)
EXTENDS Integers, Sequences, FiniteSets, FiniteSetsExt, Functions

CONSTANTS
  Client,
  Port,       \* the port of each client
  Script,     \* the entries each client sends, in order
  NConns,     \* DaemonInitMessage::n_conns
  HeaderLen,  \* units of a DataMessage
  Node, Root, Parent, Dir, Size,   \* as in TrackedNode
  Aborts,     \* how a client may go: "fin" (close), "rst" (connection reset)
  Systems,    \* the platforms considered: "linux", "bsd"
  Users       \* who runs the daemon: "root" is not subject to permissions

ASSUME DaemonAssumption ==
  /\ NConns \in Nat
  /\ HeaderLen \in Nat \ {0}
  /\ Port \in [Client -> Nat]
  /\ Script \in [Client -> Seq(Node)]
  /\ Root \in Dir /\ Dir \subseteq Node
  /\ Parent \in [Node \ {Root} -> Dir]
  /\ Size \in [Node -> Nat]
  /\ \A n \in Dir : Size[n] = 0
  /\ IsFiniteSet(Client)
  /\ Aborts \subseteq {"fin", "rst"}
  /\ Aborts # {} => IsInjective(Port)

(* No entry is sent twice, by the same client or by two (module Delivery). *)
ASSUME ScriptAssumption ==
  \A c, d \in Client : \A i \in 1..Len(Script[c]), j \in 1..Len(Script[d]) :
    Script[c][i] = Script[d][j] => c = d /\ i = j

VARIABLES
  system, user,  \* chosen once
  conn,      \* each client's connection: "idle", "backlog" or "accepted"
  gone,      \* how its client has left it: "no", "fin" or "rst"
  wrote,     \* units each client has written
  took,      \* units of them the daemon has read
  phase,     \* "init", "poll", "loop"; "exit" (return false), "fatal" (pfatal)
  fds,       \* the descriptors polled
  revents,   \* what poll returned for each of them
  idx,       \* the entry the loop is at
  socket_fds,
  obj,       \* the kernel's table: what each open descriptor is
  states,    \* ConnectionState by descriptor
  ANON_FILES,
  tmp,       \* temporary files on disk, named by the entry they are for
  got,       \* units written into the temporary file of each entry
  dirs,      \* directories made, with their mode
  files,     \* files renamed into place
  applied    \* history: how many messages of each client took effect

netVars == <<system, user, conn, gone, wrote>>
diskVars == <<ANON_FILES, tmp, got, dirs, files>>
pollVars == <<fds, revents, idx, socket_fds>>
vars == <<netVars, took, phase, pollVars, obj, states, diskVars, applied>>

MessageLen(n) == HeaderLen + 1 + Size[n]

(* The units of the first k messages of c, counted.                        *)
Upto ==
  [c \in Client |-> [k \in 0..Len(Script[c]) |->
     Cardinality(UNION {{i} \X (1..MessageLen(Script[c][i])) : i \in 1..k})]]

(* The message of c the daemon is in, or will read next.                   *)
Message(c) == Script[c][applied[c] + 1]

(* The permissions in the header; any directory worth sending has some.    *)
Mode == 7

ConnectionState ==
  [kind : {"Connected", "HeaderP1", "HeaderP2", "Receiving"},
   perms : {0, Mode}, progress : Nat, goal : Nat, anon_fd : Nat \cup {-1}, sock_fd : Nat]

Object == ({"listen"} \X Nat) \cup ({"conn"} \X Client) \cup ({"file"} \X Node)

TypeOK ==
  /\ system \in Systems /\ user \in Users
  /\ conn \in [Client -> {"idle", "backlog", "accepted"}]
  /\ gone \in [Client -> {"no", "fin", "rst"}]
  /\ wrote \in [Client -> Nat] /\ took \in [Client -> Nat]
  /\ phase \in {"init", "poll", "loop", "exit", "fatal"}
  /\ fds \in Seq(Nat)
  /\ revents \in Seq(SUBSET {"IN", "HUP", "NVAL"})
  /\ phase = "loop" => idx \in 1..Len(fds) /\ Len(revents) = Len(fds)
  /\ socket_fds \subseteq Nat
  /\ \A fd \in DOMAIN obj : fd \in Nat /\ obj[fd] \in Object
  /\ \A fd \in DOMAIN states : states[fd] \in ConnectionState
  /\ ANON_FILES \subseteq Node \ Dir /\ tmp \subseteq Node \ Dir
  /\ got \in [Node -> Nat]
  /\ \A d \in DOMAIN dirs : d \in Dir /\ dirs[d] \in {0, Mode}
  /\ files \subseteq Node \ Dir
  /\ \A c \in Client : applied[c] \in 0..Len(Script[c])

Init ==
  /\ system \in Systems /\ user \in Users
  /\ conn = [c \in Client |-> "idle"]
  /\ gone = [c \in Client |-> "no"]
  /\ wrote = [c \in Client |-> 0] /\ took = [c \in Client |-> 0]
  /\ phase = "init"
  /\ fds = <<>> /\ revents = <<>> /\ idx = 0 /\ socket_fds = {}
  /\ obj = <<>> /\ states = <<>>
  /\ ANON_FILES = {} /\ tmp = {} /\ got = [n \in Node |-> 0]
  /\ dirs = <<>> /\ files = {}
  /\ applied = [c \in Client |-> 0]

-----------------------------------------------------------------------------
(* The clients.                                                            *)

Bind(f, x, v) == [y \in DOMAIN f \cup {x} |-> IF y = x THEN v ELSE f[y]]
Close(f, S) == Restrict(f, DOMAIN f \ S)

(* The process runs: its sockets are gone when it ends.                    *)
Up == phase \in {"poll", "loop"}

Listening(p) == Up /\ <<"listen", p>> \in Range(obj)

Reachable(c) ==
  /\ Up /\ gone[c] = "no"
  /\ \/ conn[c] = "backlog" /\ Listening(Port[c])
     \/ conn[c] = "accepted" /\ <<"conn", c>> \in Range(obj)

(* The entries whose message has been written whole.                       *)
Written == UNION {{Script[c][i] : i \in {k \in 1..Len(Script[c]) : Upto[c][k] <= wrote[c]}}
                  : c \in Client}

(* Those whose directory has been sent, so that they may be.               *)
Startable == {Root} \cup {n \in Node \ {Root} : Parent[n] \in Written}

Connect(c) ==
  /\ conn[c] = "idle" /\ Listening(Port[c])
  /\ conn' = [conn EXCEPT ![c] = "backlog"]
  /\ UNCHANGED <<system, user, gone, wrote, took, phase, pollVars, obj, states, diskVars, applied>>

(* A client starts on an entry when its directory has been sent, as        *)
(* recurse does (module SyncWithRemote).                                   *)
Send(c) ==
  /\ Reachable(c)
  /\ wrote[c] < Upto[c][Len(Script[c])]
  /\ \A i \in 1..Len(Script[c]) :
       wrote[c] = Upto[c][i - 1] => Script[c][i] \in Startable
  /\ wrote' = [wrote EXCEPT ![c] = @ + 1]
  /\ UNCHANGED <<system, user, conn, gone, took, phase, pollVars, obj, states, diskVars, applied>>

Leave(c) ==
  /\ Reachable(c)
  /\ \E how \in Aborts : gone' = [gone EXCEPT ![c] = how]
  /\ UNCHANGED <<system, user, conn, wrote, took, phase, pollVars, obj, states, diskVars, applied>>

-----------------------------------------------------------------------------
(* The kernel, as the daemon meets it.                                     *)

(* The lowest free descriptor; 0, 1 and 2 are in use.                      *)
NewFd == Min((3..(3 + Cardinality(DOMAIN obj))) \ DOMAIN obj)

(* Connections accept can return.  BSD drops one that was reset.           *)
Backlog(p) ==
  {c \in Client : conn[c] = "backlog" /\ Port[c] = p /\ ~(system = "bsd" /\ gone[c] = "rst")}

(* A closed peer is end of file on Linux, and POLLHUP as well on BSD.      *)
Hangup(c) == gone[c] = "rst" \/ (system = "bsd" /\ gone[c] = "fin")

Revents(fd) ==
  IF fd \notin DOMAIN obj THEN {"NVAL"}
  ELSE CASE obj[fd][1] = "listen" -> {e \in {"IN"} : Backlog(obj[fd][2]) # {}}
         [] obj[fd][1] = "file" -> {"IN"}
         [] obj[fd][1] = "conn" ->
              LET c == obj[fd][2] IN
              {e \in {"IN"} : wrote[c] > took[c] \/ gone[c] # "no"}
                \cup {e \in {"HUP"} : Hangup(c)}

(* The entries whose directory exists, and lets this user in.              *)
Accessible ==
  {Root} \cup {n \in Node \ {Root} :
               Parent[n] \in DOMAIN dirs /\ (user = "root" \/ dirs[Parent[n]] # 0)}

-----------------------------------------------------------------------------
(* daemon_main.                                                            *)

(* return false: main returns, and the atexit handler removes ANON_FILES.  *)
Exit ==
  /\ phase' = "exit"
  /\ tmp' = tmp \ ANON_FILES
  /\ UNCHANGED <<netVars, took, pollVars, obj, states, ANON_FILES, got, dirs, files, applied>>

(* pfatal: the process stops where it is.                                  *)
Fatal ==
  /\ phase' = "fatal"
  /\ UNCHANGED <<netVars, took, pollVars, obj, states, diskVars, applied>>

(* bind_daemon for one port after the other: what listens where.  A call   *)
(* that fails in between is fatal.                                         *)
Bound == [fd \in 3..(2 + NConns) |-> <<"listen", fd - 3>>]

(* The init message is read from standard input and the ports are bound.   *)
Listen ==
  /\ phase = "init"
  /\ \/ Exit
     \/ Fatal
     \/ /\ phase' = "poll"
        /\ socket_fds' = 3..(2 + NConns)
        /\ fds' = [i \in 1..NConns |-> i + 2]
        /\ obj' = Bound
        /\ UNCHANGED <<netVars, took, revents, idx, states, diskVars, applied>>

Poll ==
  /\ phase = "poll"
  /\ \E i \in DOMAIN fds : Revents(fds[i]) # {}
  /\ revents' = [i \in DOMAIN fds |-> Revents(fds[i])]
  /\ phase' = "loop"
  /\ idx' = 1
  /\ UNCHANGED <<netVars, took, fds, socket_fds, obj, states, diskVars, applied>>

(* poll fails, and not with EINTR.                                         *)
PollFails == phase = "poll" /\ Fatal

(* The loop goes on at entry i of n, or back to poll after the last.       *)
Goto(i, n) ==
  IF i <= n
  THEN idx' = i /\ phase' = "loop"
  ELSE idx' = 0 /\ phase' = "poll"

(* Descriptor and events of the entry the loop is at.                      *)
Pfd == fds[idx]
Has(e) == phase = "loop" /\ e \in revents[idx]

RemoveAt(s, i) == SubSeq(s, 1, i - 1) \o SubSeq(s, i + 1, Len(s))

(* Mutant: fds.size() is read once, before the loop.                       *)
RemainingStale == Len(fds)

Remaining == Len(fds) - 1

(* POLLHUP or POLLERR: erasing the state, if there is one, closes the      *)
(* temporary file, the connection and the socket it was accepted from.     *)
HangUp ==
  /\ Has("HUP")
  /\ obj' = Close(obj, UNION {{states[fd].anon_fd, fd, states[fd].sock_fd}
                              : fd \in DOMAIN states \cap {Pfd}})
  /\ states' = Close(states, {Pfd})
  /\ fds' = RemoveAt(fds, idx)
  /\ revents' = RemoveAt(revents, idx)
  /\ Goto(idx, Remaining)
  /\ UNCHANGED <<netVars, took, socket_fds, diskVars, applied>>

(* "unexpected revent from poll".                                          *)
Skip ==
  /\ phase = "loop" /\ ~Has("HUP") /\ ~Has("IN")
  /\ Goto(idx + 1, Len(fds))
  /\ UNCHANGED <<netVars, took, fds, revents, socket_fds, obj, states, diskVars, applied>>

Incoming == Has("IN") /\ ~Has("HUP")

TooMany == Len(fds) > NConns * 2

Listens(fd) == fd \in DOMAIN obj /\ obj[fd][1] = "listen"

(* There are not too many, and accept has somebody to return.              *)
CanAccept(c) == ~TooMany /\ Listens(Pfd) /\ c \in Backlog(obj[Pfd][2])

(* When fds is at its capacity emplace_back moves it, and pfd.fd is read   *)
(* from the freed vector: the old value or another.                        *)
Accept(c) ==
  /\ Incoming /\ Pfd \in socket_fds
  /\ CanAccept(c)
  /\ conn' = [conn EXCEPT ![c] = "accepted"]
  /\ obj' = Bind(obj, NewFd, <<"conn", c>>)
  /\ fds' = Append(fds, NewFd)
  /\ revents' = Append(revents, {})
  /\ \E sock \in IF Len(fds) < NConns * 2 THEN {Pfd} ELSE {Pfd, 0} :
       states' = Bind(states, NewFd,
                      [kind |-> "Connected", perms |-> 0, progress |-> 0, goal |-> 0,
                       anon_fd |-> -1, sock_fd |-> sock])
  /\ Goto(idx + 1, Len(fds) + 1)
  /\ UNCHANGED <<system, user, gone, wrote, took, socket_fds, diskVars, applied>>

(* One too many, nothing left to accept, or no listening socket at all.    *)
AcceptFails ==
  /\ Incoming /\ Pfd \in socket_fds
  /\ \A c \in Client : ~CanAccept(c)
  /\ Fatal

-----------------------------------------------------------------------------
(* One entry of a client: advance and the stages of a message.             *)

State == states[Pfd]
Reading == Incoming /\ Pfd \notin socket_fds
Sender == obj[Pfd][2]

Begin ==
  /\ Reading /\ State.kind = "Connected"
  /\ states' = [states EXCEPT ![Pfd].kind = "HeaderP1", ![Pfd].goal = HeaderLen]
  /\ UNCHANGED <<netVars, took, phase, pollVars, obj, diskVars, applied>>

Short == Reading /\ State.kind # "Connected" /\ State.progress < State.goal

(* Mutant: end of file is taken for the end of what is expected.           *)
DoneAtEof ==
  State.progress = State.goal \/ (gone[Sender] = "fin" /\ took[Sender] = wrote[Sender])

(* Progress::Done.                                                         *)
Done == State.progress = State.goal

Complete(k) == Reading /\ State.kind = k /\ Done

(* read_partial takes what there is until it has all it wants: while the   *)
(* peer is silent the daemon waits here.                                   *)
Read ==
  /\ Short
  /\ took[Sender] < wrote[Sender]
  /\ took' = [took EXCEPT ![Sender] = @ + 1]
  /\ states' = [states EXCEPT ![Pfd].progress = @ + 1]
  /\ got' = IF State.kind = "Receiving" THEN [got EXCEPT ![Message(Sender)] = @ + 1] ELSE got
  /\ UNCHANGED <<netVars, phase, pollVars, obj, ANON_FILES, tmp, dirs, files, applied>>

(* Mutant: read_partial tries again at end of file.                        *)
ReadNothingSpins ==
  /\ Short
  /\ gone[Sender] = "fin" /\ took[Sender] = wrote[Sender]
  /\ UNCHANGED vars

(* End of file: Progress::Partial.                                         *)
ReadNothing ==
  /\ Short
  /\ gone[Sender] = "fin" /\ took[Sender] = wrote[Sender]
  /\ Goto(idx + 1, Len(fds))
  /\ UNCHANGED <<netVars, took, fds, revents, socket_fds, obj, states, diskVars, applied>>

(* ECONNRESET: Progress::Fail.  What was written before the reset may have *)
(* been received, or be lost.                                              *)
ReadFails ==
  /\ Short
  /\ gone[Sender] = "rst"
  /\ Exit

HeaderDone ==
  /\ Complete("HeaderP1")
  /\ states' = [states EXCEPT ![Pfd].kind = "HeaderP2", ![Pfd].goal = @ + 1]
  /\ UNCHANGED <<netVars, took, phase, pollVars, obj, diskVars, applied>>

(* Mutant: progress is not reset.                                          *)
ResetKeepsProgress(s) == [s EXCEPT !.kind = "Connected", !.anon_fd = -1, !.goal = 0]

(* ConnectionState::reset and kind = Connected.                            *)
Reset(s) == [s EXCEPT !.kind = "Connected", !.anon_fd = -1, !.progress = 0, !.goal = 0]

(* A directory.  state.perms is assigned to itself.                        *)
MakeDir ==
  /\ Complete("HeaderP2") /\ Message(Sender) \in Dir
  /\ Message(Sender) \notin DOMAIN dirs /\ Message(Sender) \in Accessible
  /\ dirs' = Bind(dirs, Message(Sender), State.perms)
  /\ applied' = [applied EXCEPT ![Sender] = @ + 1]
  /\ states' = [states EXCEPT ![Pfd] = Reset(@)]
  /\ Goto(idx + 1, Len(fds))
  /\ UNCHANGED <<netVars, took, fds, revents, socket_fds, obj, ANON_FILES, tmp, got, files>>

(* Mutant: the temporary file is not entered into ANON_FILES.              *)
RegisteredNot == ANON_FILES

Registered == ANON_FILES \cup {Message(Sender)}

(* A file: create_anonfile and mmap.                                       *)
MakeTemp ==
  /\ Complete("HeaderP2") /\ Message(Sender) \notin Dir
  /\ obj' = Bind(obj, NewFd, <<"file", Message(Sender)>>)
  /\ ANON_FILES' = Registered
  /\ tmp' = tmp \cup {Message(Sender)}
  /\ states' = [states EXCEPT ![Pfd].kind = "Receiving", ![Pfd].anon_fd = NewFd,
                              ![Pfd].progress = 0, ![Pfd].goal = Size[Message(Sender)]]
  /\ UNCHANGED <<netVars, took, phase, pollVars, got, dirs, files, applied>>

(* Mutant: the result of rename is not looked at.                          *)
RenamedUnchecked == TRUE

Renamed == Message(Sender) \in Accessible

(* Mutant: the temporary file stays open.                                  *)
ClosedNot == {}

Closed == {State.anon_fd}

(* fsync, move_anonfile, and the reset that closes the temporary file.     *)
FileDone ==
  /\ Complete("Receiving") /\ Renamed
  /\ files' = files \cup ({Message(Sender)} \cap Accessible)
  /\ tmp' = tmp \ {Message(Sender)}
  /\ ANON_FILES' = ANON_FILES \ {Message(Sender)}
  /\ obj' = Close(obj, Closed)
  /\ applied' = [applied EXCEPT ![Sender] = @ + 1]
  /\ states' = [states EXCEPT ![Pfd] = Reset(@)]
  /\ Goto(idx + 1, Len(fds))
  /\ UNCHANGED <<netVars, took, fds, revents, socket_fds, got, dirs>>

(* mkdir, mkstemp, ftruncate, mmap or rename fails; mkdir and rename must, *)
(* when the directory above is missing or not accessible.                  *)
DiskFails ==
  /\ Complete("HeaderP2") \/ Complete("Receiving")
  /\ Fatal

DaemonStep ==
  \/ Listen \/ Poll \/ HangUp \/ Skip \/ AcceptFails
  \/ \E c \in Client : Accept(c)
  \/ Begin \/ Read \/ ReadNothing \/ ReadFails
  \/ HeaderDone \/ MakeDir \/ MakeTemp \/ FileDone \/ DiskFails

ClientStep(c) == Connect(c) \/ Send(c)

(* The daemon has ended, or waits in poll or in the middle of a message.   *)
Waits ==
  /\ \/ phase \in {"exit", "fatal"}
     \/ phase = "poll" /\ \A i \in DOMAIN fds : Revents(fds[i]) = {}
     \/ Short /\ gone[Sender] = "no" /\ took[Sender] = wrote[Sender]
  /\ UNCHANGED vars

Next == DaemonStep \/ PollFails \/ (\E c \in Client : ClientStep(c) \/ Leave(c)) \/ Waits

Spec == Init /\ [][Next]_vars

(* The daemon is scheduled, and clients finish what they have begun; that  *)
(* poll fails is not owed to anybody.                                      *)
FairSpec == Spec /\ WF_vars(DaemonStep) /\ \A c \in Client : WF_vars(ClientStep(c))

-----------------------------------------------------------------------------
(* Properties.                                                             *)

(* A file appears under its own name only when all of it has been          *)
(* received, whatever happens to the connection: the rename in             *)
(* move_anonfile comes last.                                               *)
FilesWhole == \A n \in files : got[n] = Size[n]

(* Framing: on every connection the daemon has read the messages it has    *)
(* applied and the part of the current one its state says, no more and no  *)
(* less; so it never takes contents for a header.                          *)
InStep ==
  \A fd \in DOMAIN states :
    (fd \in DOMAIN obj /\ obj[fd][1] = "conn") =>
      LET s == states[fd]
          c == obj[fd][2]
      IN  took[c] = Upto[c][applied[c]] + s.progress +
                      (IF s.kind = "Receiving" THEN HeaderLen + 1 ELSE 0)

(* What is on disk is what was applied: each entry once, in the order of   *)
(* its connection, and nothing else.                                       *)
OnDisk ==
  DOMAIN dirs \cup files =
    UNION {{Script[c][i] : i \in 1..applied[c]} : c \in Client}

(* ANON_FILES names the temporary files on disk exactly, so that the       *)
(* atexit handler of a daemon that returns leaves none behind.             *)
TempsTracked ==
  /\ phase \in {"init", "poll", "loop"} => tmp = ANON_FILES
  /\ phase = "exit" => tmp = {}

(* Every descriptor the daemon has open can still be closed: sockets and   *)
(* connections are polled, temporary files belong to a connection.         *)
NoFdLeak ==
  \A fd \in DOMAIN obj :
    IF obj[fd][1] = "file"
    THEN \E s \in DOMAIN states : states[s].anon_fd = fd
    ELSE fd \in Range(fds)

(* Once a client has written everything, everything it wrote is applied,   *)
(* unless it leaves or the daemon ends; a client that leaves does not keep *)
(* the daemon from the others, as long as no client is silent for ever in  *)
(* the middle of a message.                                                *)
Served ==
  \A c \in Client :
    wrote[c] = Upto[c][Len(Script[c])] ~>
      applied[c] = Len(Script[c]) \/ gone[c] # "no" \/ phase \in {"exit", "fatal"}

Accepted == {c \in Client : conn[c] = "accepted"}

(* Contrast: no more connections are accepted than the init message says,  *)
(* as the comment at the check of fds.size() has it.                       *)
NoMoreThanExpected == Cardinality(Accepted) <= NConns

(* What the check does ensure: it stops the daemon one connection later.   *)
AtMostOneMore == Cardinality(Accepted) <= NConns + 1

(* Contrast: accept is called on listening sockets only, though clients    *)
(* disconnect.                                                             *)
AcceptsOnSockets == Incoming /\ Pfd \in socket_fds => Listens(Pfd)
=============================================================================
