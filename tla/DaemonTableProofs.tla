------------------------- MODULE DaemonTableProofs --------------------------
(***************************************************************************)
(* The inductive invariant DInv of daemon_main, for every number of        *)
(* clients, ports, messages and descriptors; and that it is kept by the    *)
(* clients, and by the daemon where descriptors come and go: listening,    *)
(* polling, accepting, hanging up, ending.                                 *)
(***************************************************************************)
EXTENDS Daemon, Lemmas

-----------------------------------------------------------------------------
(* The lengths of what a client sends.                                     *)

LEMMA LenScript ==
  ASSUME NEW c \in Client
  PROVE  /\ Script[c] \in Seq(Node) /\ Len(Script[c]) \in Nat
         /\ \A i \in 1..Len(Script[c]) : Script[c][i] \in Node
BY DaemonAssumption

(* MessageLen of each of the first k messages.                             *)
Lens(c, k) == [i \in 1..k |-> MessageLen(Script[c][i])]

LEMMA LensType ==
  ASSUME NEW c \in Client, NEW k \in 0..Len(Script[c])
  PROVE  /\ Lens(c, k) \in [1..k -> Nat]
         /\ Upto[c][k] = Cardinality(Units(1..k, Lens(c, k)))
         /\ IsFiniteSet(1..k)
<1>1. k \in Nat /\ \A i \in 1..k : i \in 1..Len(Script[c])
  BY LenScript
<1>2. \A i \in 1..k : MessageLen(Script[c][i]) \in Nat
  BY <1>1, LenScript, DaemonAssumption DEF MessageLen
<1>3. Lens(c, k) \in [1..k -> Nat]
  BY <1>2, Zenon DEF Lens
<1>4. Units(1..k, Lens(c, k)) = UNION {{i} \X (1..MessageLen(Script[c][i])) : i \in 1..k}
  BY Zenon DEF Units, Lens
<1>5. Upto[c][k] = Cardinality(UNION {{i} \X (1..MessageLen(Script[c][i])) : i \in 1..k})
  BY Zenon DEF Upto
<1>6. IsFiniteSet(1..k)
  BY <1>1, FS_Interval
<1> QED
  BY <1>3, <1>4, <1>5, <1>6, Zenon

(* The units of the first messages add up.                                 *)
LEMMA UptoNat ==
  ASSUME NEW c \in Client, NEW k \in 0..Len(Script[c])
  PROVE  Upto[c][k] \in Nat
BY LensType, UnitsFinite

LEMMA UptoZero ==
  ASSUME NEW c \in Client
  PROVE  Upto[c][0] = 0
<1>1. 0 \in 0..Len(Script[c])
  BY LenScript
<1>2. \A i \in 1..0 : Lens(c, 0)[i] = 0
  OBVIOUS
<1> QED
  BY <1>1, <1>2, LensType, NoUnits, Zenon

LEMMA UptoNext ==
  ASSUME NEW c \in Client, NEW k \in Nat, k < Len(Script[c])
  PROVE  /\ Upto[c][k + 1] = Upto[c][k] + MessageLen(Script[c][k + 1])
         /\ k + 1 \in 1..Len(Script[c]) /\ Script[c][k + 1] \in Node
<1>1. /\ k \in 0..Len(Script[c]) /\ k + 1 \in 0..Len(Script[c]) /\ k + 1 \in 1..Len(Script[c])
      /\ k + 1 \notin 1..k /\ 1..k + 1 = 1..k \cup {k + 1} /\ k + 1 \in 1..k + 1
  BY LenScript
<1>2. \A i \in 1..k : Lens(c, k + 1)[i] = Lens(c, k)[i]
  BY DEF Lens
<1>3. Lens(c, k + 1)[k + 1] = MessageLen(Script[c][k + 1])
  BY <1>1, Zenon DEF Lens
<1>4. /\ Lens(c, k) \in [1..k -> Nat] /\ IsFiniteSet(1..k)
      /\ Lens(c, k + 1) \in [1..k \cup {k + 1} -> Nat]
      /\ Upto[c][k] = Cardinality(Units(1..k, Lens(c, k)))
      /\ Upto[c][k + 1] = Cardinality(Units(1..k \cup {k + 1}, Lens(c, k + 1)))
  <2>1. /\ Lens(c, k + 1) \in [1..k + 1 -> Nat]
        /\ Upto[c][k + 1] = Cardinality(Units(1..k + 1, Lens(c, k + 1)))
    BY <1>1, LensType, Zenon
  <2> QED
    BY <1>1, <2>1, LensType, Zenon
<1>5. Cardinality(Units(1..k \cup {k + 1}, Lens(c, k + 1)))
        = Cardinality(Units(1..k, Lens(c, k))) + Lens(c, k + 1)[k + 1]
  <2> DEFINE S == 1..k
             n == k + 1
             f == Lens(c, k)
             g == Lens(c, k + 1)
  <2>1. /\ IsFiniteSet(S) /\ n \notin S /\ f \in [S -> Nat] /\ g \in [S \cup {n} -> Nat]
        /\ \A m \in S : g[m] = f[m]
    BY <1>1, <1>2, <1>4, Zenon
  <2> HIDE DEF S, n, f, g
  <2>2. Cardinality(Units(S \cup {n}, g)) = Cardinality(Units(S, f)) + g[n]
    BY <2>1, UnitsOneMore
  <2> QED
    BY <2>2, Zenon DEF S, n, f, g
<1> QED
  BY <1>1, <1>3, <1>4, <1>5, LenScript, Zenon

-----------------------------------------------------------------------------
(* Descriptors and lists.                                                  *)

(* The kernel finds a free descriptor.                                     *)
LEMMA NewFdIsFree ==
  ASSUME IsFiniteSet(DOMAIN obj)
  PROVE  NewFd \in Nat /\ NewFd >= 3 /\ NewFd \notin DOMAIN obj
<1> DEFINE n == Cardinality(DOMAIN obj)
           I == 3..(3 + n)
           S == I \ DOMAIN obj
<1>1. n \in Nat
  BY FS_CardinalityType, Zenon
<1>2. IsFiniteSet(I) /\ Cardinality(I) = n + 1
  <2> HIDE DEF n
  <2>1. 3 \in Int /\ 3 + n \in Int /\ 3 <= 3 + n /\ (3 + n) - 3 + 1 = n + 1
    BY <1>1
  <2> QED
    BY <2>1, FS_Interval
<1>3. S # {}
  <2> SUFFICES ASSUME S = {} PROVE FALSE
    BY Zenon
  <2>1. I \subseteq DOMAIN obj
    BY Zenon
  <2> HIDE DEF I
  <2>2. Cardinality(I) <= n
    BY <2>1, FS_Subset, Zenon
  <2> QED
    BY <1>1, <1>2, <2>2
<1>4. S \subseteq Nat /\ \A x \in S : x >= 3
  BY <1>1
<1>5. \E x \in S : \A y \in S : x <= y
  BY <1>3, <1>4, Least, Zenon
<1> HIDE DEF S
<1>6. Min(S) \in S
  BY <1>5, Zenon DEF Min
<1>7. NewFd = Min(S)
  BY Zenon DEF NewFd, S
<1> QED
  BY <1>4, <1>6, <1>7, Zenon DEF S

(* vector::erase.                                                          *)
LEMMA Removed ==
  ASSUME NEW T, NEW s \in Seq(T), NEW i \in 1..Len(s)
  PROVE  /\ RemoveAt(s, i) \in Seq(T)
         /\ Len(RemoveAt(s, i)) = Len(s) - 1
         /\ \A j \in 1..Len(s) - 1 : RemoveAt(s, i)[j] = IF j < i THEN s[j] ELSE s[j + 1]
<1> DEFINE a == SubSeq(s, 1, i - 1)
           b == SubSeq(s, i + 1, Len(s))
<1>1. /\ a \in Seq(T) /\ Len(a) = i - 1 /\ \A j \in 1..i - 1 : a[j] = s[j]
      /\ Len(s) \in Nat /\ i \in Nat
  OBVIOUS
<1>2. b \in Seq(T) /\ Len(b) = Len(s) - i /\ \A j \in 1..Len(s) - i : b[j] = s[j + i]
  OBVIOUS
<1> HIDE DEF a, b
<1>3. /\ a \o b \in Seq(T) /\ Len(a \o b) = Len(s) - 1
      /\ \A j \in 1..Len(s) - 1 : (a \o b)[j] = IF j <= i - 1 THEN a[j] ELSE b[j - (i - 1)]
  <2>1. Len(a) + Len(b) = Len(s) - 1 /\ a \in Seq(T) /\ b \in Seq(T) /\ Len(a) = i - 1
    BY <1>1, <1>2
  <2>2. /\ a \o b \in Seq(T) /\ Len(a \o b) = Len(a) + Len(b)
        /\ \A j \in 1..Len(a) + Len(b) : (a \o b)[j] = IF j <= Len(a) THEN a[j] ELSE b[j - Len(a)]
    BY <2>1
  <2> QED
    BY <2>1, <2>2, Zenon
<1>4. ASSUME NEW j \in 1..Len(s) - 1
      PROVE  (a \o b)[j] = IF j < i THEN s[j] ELSE s[j + 1]
  <2>1. CASE j < i
    BY <1>1, <1>3, <2>1
  <2>2. CASE ~(j < i)
    <3>1. j - (i - 1) \in 1..Len(s) - i /\ j - (i - 1) + i = j + 1
      BY <1>1, <2>2
    <3> QED
      BY <1>1, <1>2, <1>3, <2>2, <3>1
  <2> QED
    BY <2>1, <2>2, Zenon
<1> QED
  BY <1>3, <1>4, Zenon DEF RemoveAt, a, b

-----------------------------------------------------------------------------
(* The inductive invariant.                                                *)

(* What the variables are.                                                 *)
Plain ==
  /\ system \in Systems /\ user \in Users
  /\ conn \in [Client -> {"idle", "backlog", "accepted"}]
  /\ gone \in [Client -> {"no", "fin", "rst"}]
  /\ wrote \in [Client -> Nat] /\ took \in [Client -> Nat]
  /\ phase \in {"init", "poll", "loop", "exit", "fatal"}
  /\ socket_fds \subseteq Nat
  /\ ANON_FILES \subseteq Node \ Dir /\ tmp \subseteq Node \ Dir
  /\ got \in [Node -> Nat]
  /\ \A d \in DOMAIN dirs : d \in Dir /\ dirs[d] \in {0, Mode}
  /\ files \subseteq Node \ Dir
  /\ applied \in [Client -> Nat]
  /\ \A c \in Client : applied[c] <= Len(Script[c])

(* The loop runs over two vectors of one length.                           *)
Loop ==
  /\ fds \in Seq(Nat)
  /\ revents \in Seq(SUBSET {"IN", "HUP", "NVAL"})
  /\ phase = "loop" => idx \in 1..Len(fds) /\ Len(revents) = Len(fds)

(* The descriptor table: listening sockets stay at the numbers they were   *)
(* bound at, connections have a state, and temporary files belong to one.  *)
OpenFd(fd) ==
  /\ fd \in Nat /\ fd >= 3
  /\ \/ obj[fd] = <<"listen", fd - 3>> /\ fd < NConns + 3
     \/ \E c \in Client : obj[fd] = <<"conn", c>> /\ fd \in DOMAIN states /\ conn[c] = "accepted"
     \/ \E n \in Node : /\ obj[fd] = <<"file", n>>
                        /\ \E g \in DOMAIN states : states[g].anon_fd = fd

(* A connection state: its descriptor, its temporary file, its socket.     *)
Owns(fd) ==
  LET s == states[fd]
      c == obj[fd][2]
  IN  /\ fd \in DOMAIN obj /\ obj[fd] = <<"conn", c>> /\ c \in Client
      /\ IF s.kind = "Receiving"
         THEN s.anon_fd \in DOMAIN obj /\ obj[s.anon_fd] = <<"file", Message(c)>>
         ELSE s.anon_fd = -1
      /\ Aborts # {} =>
           s.sock_fd = 0 \/ (s.sock_fd \in DOMAIN obj /\ obj[s.sock_fd] = <<"listen", Port[c]>>)

Table ==
  /\ IsFiniteSet(DOMAIN obj)
  /\ \A fd \in DOMAIN obj : OpenFd(fd)
  /\ \A fd \in DOMAIN states : states[fd] \in ConnectionState /\ Owns(fd)
  /\ \A fd, g \in DOMAIN states : obj[fd] = obj[g] => fd = g

(* What is polled: sockets and connections; a number twice, or without a   *)
(* connection, only if it is or was that of a listening socket.            *)
Polled ==
  /\ Up => socket_fds = 3..(2 + NConns)
  /\ \A fd \in DOMAIN obj : obj[fd][1] # "file" => \E i \in DOMAIN fds : fds[i] = fd
  /\ \A i \in DOMAIN fds : fds[i] \notin socket_fds => fds[i] \in DOMAIN states
  /\ \A i, j \in DOMAIN fds : fds[i] = fds[j] /\ i # j => fds[i] \in socket_fds
  /\ phase = "loop" =>
       \A i \in DOMAIN fds : "HUP" \in revents[i] =>
         Aborts # {} /\ (fds[i] \in DOMAIN obj => obj[fds[i]][1] # "listen")

(* How far a connection has come in its messages.                          *)
InMessage(fd) ==
  LET s == states[fd]
      c == obj[fd][2]
      u == Upto[c][applied[c]]
  IN  /\ s.progress <= s.goal
      /\ s.kind = "Connected" => s.goal = 0 /\ took[c] = u
      /\ s.kind = "HeaderP1" => s.goal = HeaderLen /\ took[c] = u + s.progress
      /\ s.kind = "HeaderP2" => s.goal = HeaderLen + 1 /\ took[c] = u + s.progress
      /\ s.kind = "Receiving" =>
           /\ applied[c] < Len(Script[c]) /\ Message(c) \notin Dir
           /\ s.goal = Size[Message(c)] /\ took[c] = u + HeaderLen + 1 + s.progress

Framing ==
  /\ \A c \in Client :
       /\ took[c] <= wrote[c] /\ wrote[c] <= Upto[c][Len(Script[c])]
       /\ conn[c] # "accepted" => took[c] = 0 /\ applied[c] = 0
  /\ \A fd \in DOMAIN states : InMessage(fd)

(* The contents written: none of what is still to come, the progress of    *)
(* what is being received, all of what has its name.                       *)
Filled(fd) ==
  LET s == states[fd]
      c == obj[fd][2]
  IN  applied[c] < Len(Script[c]) =>
        got[Message(c)] = IF s.kind = "Receiving" THEN s.progress ELSE 0

Contents ==
  /\ \A c \in Client :
       /\ \A i \in 1..Len(Script[c]) : i > applied[c] + 1 => got[Script[c][i]] = 0
       /\ conn[c] # "accepted" /\ applied[c] < Len(Script[c]) => got[Message(c)] = 0
  /\ \A fd \in DOMAIN states : Filled(fd)
  /\ FilesWhole

(* How many connections there are.                                         *)
Counting ==
  /\ phase = "init" => Accepted = {}
  /\ Aborts = {} =>
       /\ \A c \in Client : gone[c] = "no"
       /\ Cardinality(Accepted) <= NConns + 1
       /\ Up => Len(fds) = NConns + Cardinality(Accepted)
  /\ Aborts # {} => \A c \in Accepted : Port[c] < NConns

DInv ==
  /\ Plain /\ Loop /\ Table /\ Polled /\ Framing /\ OnDisk /\ Contents /\ Counting
  /\ TempsTracked

-----------------------------------------------------------------------------
(* Nothing has happened.                                                   *)
LEMMA InitDaemon == Init => DInv
<1> SUFFICES ASSUME Init PROVE DInv
  BY Zenon
<1>1. Plain
  BY LenScript DEF Init, Plain
<1>2. Loop
  BY DEF Init, Loop
<1>3. DOMAIN obj = {} /\ DOMAIN states = {} /\ DOMAIN fds = {} /\ DOMAIN dirs = {}
  BY DEF Init
<1>4. Table
  BY <1>3, FS_EmptySet, Zenon DEF Table
<1>5. Polled
  BY <1>3, Zenon DEF Init, Polled, Up
<1>6. Framing
  <2>1. \A c \in Client : 0 <= Upto[c][Len(Script[c])]
    BY LenScript, UptoNat
  <2> QED
    BY <1>3, <2>1 DEF Init, Framing
<1>7. OnDisk
  BY <1>3 DEF Init, OnDisk
<1>8. Contents
  <2>1. \A c \in Client : \A i \in 1..Len(Script[c]) : got[Script[c][i]] = 0
    BY LenScript, Zenon DEF Init
  <2>2. \A c \in Client : applied[c] < Len(Script[c]) => got[Message(c)] = 0
    BY <2>1, LenScript DEF Init, Message
  <2> QED
    BY <1>3, <2>1, <2>2, Zenon DEF Init, Contents, FilesWhole
<1>9. Counting
  <2>1. Accepted = {}
    BY Zenon DEF Init, Accepted
  <2>2. Cardinality(Accepted) = 0
    BY <2>1, FS_EmptySet, Zenon
  <2> QED
    BY <2>1, <2>2, DaemonAssumption DEF Init, Counting, Up
<1>10. TempsTracked
  BY Zenon DEF Init, TempsTracked
<1> QED
  BY <1>1, <1>2, <1>4, <1>5, <1>6, <1>7, <1>8, <1>9, <1>10, Zenon DEF DInv

-----------------------------------------------------------------------------
(* What holds while nothing that it speaks of changes.                     *)
LEMMA SameTable == Table /\ UNCHANGED <<obj, states, conn, applied>> => Table'
BY DEF Table, OpenFd, Owns, Message

LEMMA SamePolled ==
  Polled /\ UNCHANGED <<phase, fds, revents, socket_fds, obj, states>> => Polled'
BY Zenon DEF Polled, Up

LEMMA SameInMessage ==
  ASSUME NEW fd, InMessage(fd), states'[fd] = states[fd], obj'[fd] = obj[fd],
         applied'[obj[fd][2]] = applied[obj[fd][2]], took'[obj[fd][2]] = took[obj[fd][2]]
  PROVE  InMessage(fd)'
BY Zenon DEF InMessage, Message

LEMMA SameFraming ==
  Framing /\ UNCHANGED <<took, wrote, conn, applied, states, obj>> => Framing'
<1> SUFFICES ASSUME Framing, UNCHANGED <<took, wrote, conn, applied, states, obj>>
             PROVE  Framing'
  OBVIOUS
<1>1. \A fd \in DOMAIN states : InMessage(fd)'
  BY SameInMessage, Zenon DEF Framing
<1> QED
  BY <1>1, Zenon DEF Framing

LEMMA SameContents ==
  Contents /\ UNCHANGED <<applied, got, conn, states, obj, files>> => Contents'
BY DEF Contents, Filled, FilesWhole, Message

LEMMA SameCounting == Counting /\ UNCHANGED <<gone, conn, phase, fds>> => Counting'
BY Zenon DEF Counting, Accepted, Up

LEMMA SameDisk == OnDisk /\ UNCHANGED <<dirs, files, applied>> => OnDisk'
BY DEF OnDisk

LEMMA SameTemps == TempsTracked /\ UNCHANGED <<phase, tmp, ANON_FILES>> => TempsTracked'
BY Zenon DEF TempsTracked

(* A client connects.                                                      *)
LEMMA ConnectKeeps ==
  ASSUME DInv, NEW c \in Client, Connect(c)
  PROVE  DInv'
<1>1. /\ conn[c] = "idle" /\ conn' = [conn EXCEPT ![c] = "backlog"]
      /\ UNCHANGED <<system, user, gone, wrote, took, phase, fds, revents, idx, socket_fds, obj,
                     states, ANON_FILES, tmp, got, dirs, files, applied>>
  BY Zenon DEF Connect, pollVars, diskVars
<1>2. /\ conn' \in [Client -> {"idle", "backlog", "accepted"}]
      /\ \A d \in Client : conn'[d] = "accepted" <=> conn[d] = "accepted"
  BY <1>1, Zenon DEF DInv, Plain
<1>3. Plain'
  BY <1>1, <1>2, Zenon DEF DInv, Plain
<1>4. Loop'
  BY <1>1, Zenon DEF DInv, Loop
<1>5. Table'
  BY <1>1, <1>2 DEF DInv, Table, OpenFd, Owns, Message
<1>6. Polled'
  BY <1>1, SamePolled, Zenon DEF DInv
<1>7. Framing'
  <2>1. \A fd \in DOMAIN states : InMessage(fd)'
    BY <1>1, SameInMessage, Zenon DEF DInv, Framing
  <2> QED
    BY <1>1, <1>2, <2>1, Zenon DEF DInv, Framing
<1>8. OnDisk' /\ TempsTracked'
  BY <1>1, SameDisk, SameTemps, Zenon DEF DInv
<1>9. Contents'
  BY <1>1, <1>2, Zenon DEF DInv, Contents, Filled, FilesWhole, Message
<1>10. Counting'
  <2>1. Accepted' = Accepted
    BY <1>2, Zenon DEF Accepted
  <2> QED
    BY <1>1, <2>1, Zenon DEF DInv, Counting, Up
<1> QED
  BY <1>3, <1>4, <1>5, <1>6, <1>7, <1>8, <1>9, <1>10, Zenon DEF DInv

(* It writes a unit of what it has to say.                                 *)
LEMMA SendKeeps ==
  ASSUME DInv, NEW c \in Client, Send(c)
  PROVE  DInv'
<1>1. /\ wrote[c] < Upto[c][Len(Script[c])] /\ wrote' = [wrote EXCEPT ![c] = @ + 1]
      /\ UNCHANGED <<system, user, conn, gone, took, phase, fds, revents, idx, socket_fds, obj,
                     states, ANON_FILES, tmp, got, dirs, files, applied>>
  BY Zenon DEF Send, pollVars, diskVars
<1>2. Plain'
  <2>1. wrote' \in [Client -> Nat]
    BY <1>1 DEF DInv, Plain
  <2> QED
    BY <1>1, <2>1, Zenon DEF DInv, Plain
<1>3. Loop'
  BY <1>1, Zenon DEF DInv, Loop
<1>4. Framing'
  <2>1. \A d \in Client : Upto[d][Len(Script[d])] \in Nat
    BY LenScript, UptoNat
  <2>2. \A d \in Client : took'[d] <= wrote'[d] /\ wrote'[d] <= Upto[d][Len(Script[d])]
    BY <1>1, <2>1 DEF DInv, Plain, Framing
  <2>3. \A fd \in DOMAIN states : InMessage(fd)'
    BY <1>1, SameInMessage, Zenon DEF DInv, Framing
  <2> QED
    BY <1>1, <2>2, <2>3, Zenon DEF DInv, Framing
<1> QED
  BY <1>1, <1>2, <1>3, <1>4, SameTable, SamePolled, SameContents, SameCounting, SameDisk, SameTemps, Zenon
     DEF DInv

(* It leaves.                                                              *)
LEMMA LeaveKeeps ==
  ASSUME DInv, NEW c \in Client, Leave(c)
  PROVE  DInv'
<1>1. PICK how \in Aborts :
        /\ gone' = [gone EXCEPT ![c] = how]
        /\ UNCHANGED <<system, user, conn, wrote, took, phase, fds, revents, idx, socket_fds, obj,
                       states, ANON_FILES, tmp, got, dirs, files, applied>>
  BY Zenon DEF Leave, pollVars, diskVars
<1>2. Plain'
  BY <1>1, DaemonAssumption, Zenon DEF DInv, Plain
<1>3. Loop'
  BY <1>1, Zenon DEF DInv, Loop
<1>4. Counting'
  BY <1>1, Zenon DEF DInv, Counting, Accepted, Up
<1> QED
  BY <1>1, <1>2, <1>3, <1>4, SameTable, SamePolled, SameContents, SameFraming, SameDisk, SameTemps, Zenon
     DEF DInv

(* The daemon ends.                                                        *)
LEMMA EndKeeps ==
  ASSUME DInv, phase \in {"init", "poll", "loop"}, Exit \/ Fatal
  PROVE  DInv'
<1>1. /\ phase' \in {"exit", "fatal"}
      /\ \/ phase' = "exit" /\ tmp' = tmp \ ANON_FILES
         \/ phase' = "fatal" /\ tmp' = tmp
      /\ UNCHANGED <<system, user, conn, gone, wrote, took, fds, revents, idx, socket_fds, obj,
                     states, ANON_FILES, got, dirs, files, applied>>
  BY Zenon DEF Exit, Fatal, netVars, pollVars, diskVars
<1>2. Plain'
  BY <1>1, Zenon DEF DInv, Plain
<1>3. Loop'
  BY <1>1, Zenon DEF DInv, Loop
<1>4. Polled'
  BY <1>1, Zenon DEF DInv, Polled, Up
<1>5. Counting'
  BY <1>1, Zenon DEF DInv, Counting, Accepted, Up
<1>6. TempsTracked'
  BY <1>1, Zenon DEF DInv, TempsTracked
<1> QED
  BY <1>1, <1>2, <1>3, <1>4, <1>5, <1>6, SameTable, SameContents, SameFraming, SameDisk, Zenon DEF DInv

(* The loop goes on without having done anything.                          *)
LEMMA GoOnKeeps ==
  ASSUME DInv, phase = "loop", Goto(idx + 1, Len(fds)),
         UNCHANGED <<netVars, took, fds, revents, socket_fds, obj, states, diskVars, applied>>
  PROVE  DInv'
<1>1. UNCHANGED <<system, user, conn, gone, wrote, took, fds, revents, socket_fds, obj,
                  states, ANON_FILES, tmp, got, dirs, files, applied>>
  BY Zenon DEF netVars, diskVars
<1>2. \/ phase' = "loop" /\ idx' = idx + 1 /\ idx + 1 <= Len(fds)
      \/ phase' = "poll"
  BY Zenon DEF Goto
<1>3. Plain'
  BY <1>1, <1>2, Zenon DEF DInv, Plain
<1>4. Loop'
  BY <1>1, <1>2 DEF DInv, Loop
<1>5. Polled'
  BY <1>1, <1>2, Zenon DEF DInv, Polled, Up
<1>6. Counting'
  BY <1>1, <1>2, Zenon DEF DInv, Counting, Accepted, Up
<1>7. TempsTracked'
  BY <1>1, <1>2, Zenon DEF DInv, TempsTracked
<1> QED
  BY <1>1, <1>3, <1>4, <1>5, <1>6, <1>7, SameTable, SameContents, SameFraming, SameDisk, Zenon DEF DInv

(* The ports are bound.                                                    *)
LEMMA ListenKeeps ==
  ASSUME DInv, Listen
  PROVE  DInv'
<1>1. phase = "init"
  BY Zenon DEF Listen
<1>2. CASE Exit \/ Fatal
  BY <1>1, <1>2, EndKeeps, Zenon
<1>3. CASE ~(Exit \/ Fatal)
  <2>1. /\ phase' = "poll" /\ socket_fds' = 3..(2 + NConns) /\ fds' = [i \in 1..NConns |-> i + 2]
        /\ obj' = [fd \in 3..(2 + NConns) |-> <<"listen", fd - 3>>]
        /\ UNCHANGED <<system, user, conn, gone, wrote, took, revents, idx, states, ANON_FILES, tmp,
                       got, dirs, files, applied>>
    BY <1>3, Zenon DEF Listen, Bound, netVars, diskVars
  <2>2. Accepted = {}
    BY <1>1, Zenon DEF DInv, Counting
  <2>3. DOMAIN states = {}
    <3> SUFFICES ASSUME NEW fd \in DOMAIN states PROVE FALSE
      BY Zenon
    <3>1. PICK c \in Client : obj[fd] = <<"conn", c>> /\ fd \in DOMAIN obj
      BY Zenon DEF DInv, Table, Owns
    <3>2. conn[c] = "accepted"
      BY <3>1 DEF DInv, Table, OpenFd
    <3> QED
      BY <2>2, <3>2, Zenon DEF Accepted
  <2>4. NConns \in Nat
    BY DaemonAssumption, Zenon
  <2>5. /\ DOMAIN obj' = 3..(2 + NConns) /\ \A fd \in 3..(2 + NConns) : obj'[fd] = <<"listen", fd - 3>>
        /\ DOMAIN fds' = 1..NConns /\ \A i \in 1..NConns : fds'[i] = i + 2
    BY <2>1, Zenon
  <2>6. Plain'
    BY <2>1, <2>4 DEF DInv, Plain
  <2>7. Loop'
    <3>1. fds' \in Seq(Nat)
      BY <2>1, <2>4
    <3> QED
      BY <2>1, <3>1, Zenon DEF DInv, Loop
  <2>8. Table'
    <3>1. IsFiniteSet(DOMAIN obj')
      BY <2>4, <2>5, FS_Interval
    <3>2. ASSUME NEW fd \in DOMAIN obj' PROVE OpenFd(fd)'
      BY <2>4, <2>5 DEF OpenFd
    <3> QED
      BY <2>1, <2>3, <3>1, <3>2, Zenon DEF Table
  <2>9. Polled'
    <3>1. \A fd \in 3..(2 + NConns) : fd - 2 \in 1..NConns /\ fds'[fd - 2] = fd
      BY <2>4, <2>5
    <3>2. \A i \in 1..NConns : fds'[i] \in 3..(2 + NConns)
      BY <2>4, <2>5
    <3> QED
      BY <2>1, <2>4, <2>5, <3>1, <3>2, Zenon DEF Polled, Up
  <2>10. Framing' /\ Contents'
    BY <2>1, <2>3, Zenon DEF DInv, Framing, Contents, FilesWhole, Message
  <2>11. Counting'
    <3>1. Accepted' = {} /\ Cardinality(Accepted') = 0
      BY <2>1, <2>2, FS_EmptySet, Zenon DEF Accepted
    <3>2. Len(fds') = NConns
      BY <2>1, <2>4
    <3> QED
      BY <2>1, <2>4, <3>1, <3>2 DEF DInv, Counting, Up
  <2>12. TempsTracked'
    BY <1>1, <2>1, Zenon DEF DInv, TempsTracked
  <2> QED
    BY <2>1, <2>6, <2>7, <2>8, <2>9, <2>10, <2>11, <2>12, SameDisk, Zenon DEF DInv
<1> QED
  BY <1>2, <1>3, Zenon

(* What poll returns: a hang-up only for a connection whose client left.   *)
LEMMA ReventsOfFd ==
  ASSUME DInv, NEW fd
  PROVE  /\ Revents(fd) \in SUBSET {"IN", "HUP", "NVAL"}
         /\ "HUP" \in Revents(fd) => Aborts # {} /\ fd \in DOMAIN obj /\ obj[fd][1] # "listen"
<1>1. CASE fd \notin DOMAIN obj
  BY <1>1, Zenon DEF Revents
<1>2. CASE fd \in DOMAIN obj
  <2>1. OpenFd(fd)
    BY <1>2, Zenon DEF DInv, Table
  <2>2. CASE obj[fd] = <<"listen", fd - 3>>
    BY <1>2, <2>2 DEF Revents
  <2>3. ASSUME NEW c \in Client, obj[fd] = <<"conn", c>>
        PROVE  /\ Revents(fd) \in SUBSET {"IN", "HUP", "NVAL"}
               /\ "HUP" \in Revents(fd) => Aborts # {} /\ obj[fd][1] # "listen"
    <3>1. Revents(fd) = {e \in {"IN"} : wrote[c] > took[c] \/ gone[c] # "no"}
                          \cup {e \in {"HUP"} : Hangup(c)}
      BY <1>2, <2>3 DEF Revents
    <3>2. Hangup(c) => gone[c] # "no"
      BY Zenon DEF Hangup
    <3> QED
      BY <2>3, <3>1, <3>2 DEF DInv, Counting
  <2>4. ASSUME NEW n \in Node, obj[fd] = <<"file", n>>
        PROVE  /\ Revents(fd) \in SUBSET {"IN", "HUP", "NVAL"}
               /\ "HUP" \notin Revents(fd)
    BY <1>2, <2>4 DEF Revents
  <2> QED
    BY <1>2, <2>1, <2>2, <2>3, <2>4, Zenon DEF OpenFd
<1> QED
  BY <1>1, <1>2, Zenon

LEMMA PollKeeps ==
  ASSUME DInv, Poll
  PROVE  DInv'
<1>1. /\ phase = "poll" /\ phase' = "loop" /\ idx' = 1 /\ DOMAIN fds # {}
      /\ revents' = [i \in DOMAIN fds |-> Revents(fds[i])]
      /\ UNCHANGED <<system, user, conn, gone, wrote, took, fds, socket_fds, obj, states,
                     ANON_FILES, tmp, got, dirs, files, applied>>
  BY Zenon DEF Poll, netVars, diskVars
<1>2. Plain'
  BY <1>1, Zenon DEF DInv, Plain
<1>3. Loop'
  <2>1. fds \in Seq(Nat) /\ Len(fds) \in Nat /\ DOMAIN fds = 1..Len(fds)
    BY DEF DInv, Loop
  <2>2. \A i \in 1..Len(fds) : Revents(fds[i]) \in SUBSET {"IN", "HUP", "NVAL"}
    BY ReventsOfFd, Zenon
  <2>3. revents' \in Seq(SUBSET {"IN", "HUP", "NVAL"}) /\ Len(revents') = Len(fds)
    BY <1>1, <2>1, <2>2
  <2>4. 1 \in 1..Len(fds)
    BY <1>1, <2>1
  <2> QED
    BY <1>1, <2>1, <2>3, <2>4, Zenon DEF Loop
<1>4. Polled'
  <2>1. \A i \in DOMAIN fds : revents'[i] = Revents(fds[i])
    BY <1>1, Zenon
  <2>2. \A i \in DOMAIN fds : "HUP" \in revents'[i] =>
          Aborts # {} /\ fds[i] \in DOMAIN obj /\ obj[fds[i]][1] # "listen"
    BY <2>1, ReventsOfFd, Zenon
  <2> QED
    BY <1>1, <2>2, Zenon DEF DInv, Polled, Up
<1>5. Counting'
  BY <1>1, Zenon DEF DInv, Counting, Accepted, Up
<1>6. TempsTracked'
  BY <1>1, Zenon DEF DInv, TempsTracked
<1> QED
  BY <1>1, <1>2, <1>3, <1>4, <1>5, <1>6, SameTable, SameFraming, SameContents, SameDisk, Zenon DEF DInv

(* Descriptors are closed.                                                 *)
LEMMA Closing ==
  ASSUME NEW f, NEW S
  PROVE  DOMAIN Close(f, S) = DOMAIN f \ S /\ \A x \in DOMAIN f \ S : Close(f, S)[x] = f[x]
BY Zenon DEF Close, Restrict

LEMMA Binding ==
  ASSUME NEW f, NEW x, NEW v
  PROVE  /\ DOMAIN Bind(f, x, v) = DOMAIN f \cup {x} /\ Bind(f, x, v)[x] = v
         /\ \A y \in DOMAIN f : y # x => Bind(f, x, v)[y] = f[y]
BY Zenon DEF Bind

(* A connection that a step leaves alone.                                  *)
LEMMA SameOwns ==
  ASSUME NEW fd, Owns(fd), states'[fd] = states[fd],
         applied'[obj[fd][2]] = applied[obj[fd][2]],
         \A g \in DOMAIN obj :
           g \in {fd, states[fd].anon_fd} \/ (Aborts # {} /\ g = states[fd].sock_fd) =>
             g \in DOMAIN obj' /\ obj'[g] = obj[g]
  PROVE  Owns(fd)'
BY Zenon DEF Owns, Message

LEMMA SameFilled ==
  ASSUME NEW fd, Filled(fd), states'[fd] = states[fd], obj'[fd] = obj[fd],
         applied'[obj[fd][2]] = applied[obj[fd][2]],
         applied[obj[fd][2]] < Len(Script[obj[fd][2]]) =>
           got'[Message(obj[fd][2])] = got[Message(obj[fd][2])]
  PROVE  Filled(fd)'
BY Zenon DEF Filled, Message

(* A connection is accepted.                                               *)
LEMMA AcceptKeeps ==
  ASSUME DInv, NEW c \in Client, Accept(c)
  PROVE  DInv'
<1>a. PICK new : new = NewFd
  BY Zenon
<1>b. PICK old : old = Pfd
  BY Zenon
<1>1. /\ phase = "loop" /\ ~(Len(fds) > NConns * 2)
      /\ old \in DOMAIN obj /\ obj[old][1] = "listen" /\ c \in Backlog(obj[old][2])
      /\ conn' = [conn EXCEPT ![c] = "accepted"]
      /\ obj' = Bind(obj, new, <<"conn", c>>)
      /\ fds' = Append(fds, new) /\ revents' = Append(revents, {})
      /\ Goto(idx + 1, Len(fds) + 1)
      /\ UNCHANGED <<system, user, gone, wrote, took, socket_fds, ANON_FILES, tmp, got, dirs, files,
                     applied>>
  BY <1>a, <1>b, Zenon DEF Accept, CanAccept, Incoming, Has, TooMany, Listens, diskVars
<1>u. UNCHANGED <<took, wrote, got, applied, socket_fds>>
  BY <1>1, Zenon
<1>2. PICK sock \in {old, 0} :
        states' = Bind(states, new, [kind |-> "Connected", perms |-> 0, progress |-> 0, goal |-> 0,
                                     anon_fd |-> -1, sock_fd |-> sock])
  BY <1>a, <1>b, Zenon DEF Accept
<1>3. /\ new \in Nat /\ new >= 3 /\ new \notin DOMAIN obj
      /\ IsFiniteSet(DOMAIN obj)
  BY <1>a, NewFdIsFree, Zenon DEF DInv, Table
<1>4. /\ fds \in Seq(Nat) /\ Len(fds) \in Nat /\ DOMAIN fds = 1..Len(fds)
      /\ idx \in 1..Len(fds) /\ Len(revents) = Len(fds)
      /\ revents \in Seq(SUBSET {"IN", "HUP", "NVAL"})
  BY <1>1 DEF DInv, Loop
<1>5. old \in Nat /\ obj[old] = <<"listen", old - 3>> /\ old < NConns + 3
  BY <1>1 DEF DInv, Table, OpenFd
<1>6. conn[c] = "backlog" /\ Port[c] = old - 3
  BY <1>1, <1>5 DEF Backlog
<1>7. /\ DOMAIN obj' = DOMAIN obj \cup {new} /\ obj'[new] = <<"conn", c>>
      /\ \A fd \in DOMAIN obj : obj'[fd] = obj[fd]
  BY <1>1, <1>3, Zenon DEF Bind
<1>8. new \notin DOMAIN states
  BY <1>3, Zenon DEF DInv, Table, Owns
<1>9. /\ DOMAIN states' = DOMAIN states \cup {new}
      /\ states'[new] = [kind |-> "Connected", perms |-> 0, progress |-> 0, goal |-> 0,
                         anon_fd |-> -1, sock_fd |-> sock]
      /\ \A fd \in DOMAIN states : states'[fd] = states[fd]
  BY <1>2, <1>8, Zenon DEF Bind
<1>10. /\ states'[new] \in ConnectionState /\ states'[new].kind = "Connected"
       /\ states'[new].progress = 0 /\ states'[new].goal = 0
       /\ states'[new].anon_fd = -1 /\ states'[new].sock_fd = sock
  BY <1>5, <1>9 DEF ConnectionState
<1>11. /\ conn'[c] = "accepted" /\ \A d \in Client : d # c => conn'[d] = conn[d]
       /\ conn' \in [Client -> {"idle", "backlog", "accepted"}]
  BY <1>1, Zenon DEF DInv, Plain
<1>12. \/ phase' = "loop" /\ idx' = idx + 1 /\ idx + 1 <= Len(fds) + 1
       \/ phase' = "poll"
  BY <1>1, Zenon DEF Goto
<1>13. /\ fds' \in Seq(Nat) /\ Len(fds') = Len(fds) + 1 /\ DOMAIN fds' = 1..Len(fds) + 1
       /\ fds'[Len(fds) + 1] = new /\ \A i \in 1..Len(fds) : fds'[i] = fds[i]
  <2>1. fds' = Append(fds, new)
    BY <1>1, Zenon
  <2> QED
    BY <1>3, <1>4, <2>1
<1>14. /\ revents' \in Seq(SUBSET {"IN", "HUP", "NVAL"}) /\ Len(revents') = Len(fds) + 1
       /\ revents'[Len(fds) + 1] = {} /\ \A i \in 1..Len(fds) : revents'[i] = revents[i]
  BY <1>1, <1>4
<1>15. Plain'
  BY <1>1, <1>11, <1>12, Zenon DEF DInv, Plain
<1>16. Loop'
  BY <1>4, <1>12, <1>13, <1>14 DEF Loop
<1>17. Table'
  <2>1. IsFiniteSet(DOMAIN obj')
    BY <1>3, <1>7, FS_AddElement, Zenon
  <2>2. ASSUME NEW fd \in DOMAIN obj PROVE OpenFd(fd)'
    <3>1. OpenFd(fd)
      BY Zenon DEF DInv, Table
    <3>2. obj'[fd] = obj[fd]
      BY <1>7, Zenon
    <3> QED
      BY <1>9, <1>11, <3>1, <3>2, Zenon DEF OpenFd
  <2>3. OpenFd(new)'
    BY <1>3, <1>7, <1>9, <1>11, Zenon DEF OpenFd
  <2>4. ASSUME NEW fd \in DOMAIN states PROVE states'[fd] \in ConnectionState /\ Owns(fd)'
    <3>1. states[fd] \in ConnectionState /\ Owns(fd) /\ states'[fd] = states[fd]
      BY <1>9, Zenon DEF DInv, Table
    <3>2. \A g \in DOMAIN obj : g \in DOMAIN obj' /\ obj'[g] = obj[g]
      BY <1>7, Zenon
    <3> QED
      BY <1>u, <3>1, <3>2, SameOwns, Zenon
  <2>5. Owns(new)'
    <3>1. new \in DOMAIN obj' /\ obj'[new] = <<"conn", c>> /\ obj'[new][2] = c
      BY <1>7
    <3>2. sock = 0 \/ (sock \in DOMAIN obj' /\ obj'[sock] = <<"listen", Port[c]>>)
      BY <1>1, <1>5, <1>6, <1>7, Zenon
    <3> QED
      BY <1>10, <3>1, <3>2, Zenon DEF Owns
  <2>6. \A fd \in DOMAIN states : obj'[fd] # obj'[new] /\ obj'[fd] = obj[fd]
    <3> SUFFICES ASSUME NEW fd \in DOMAIN states PROVE obj'[fd] # obj'[new] /\ obj'[fd] = obj[fd]
      BY Zenon
    <3>1. PICK d \in Client : fd \in DOMAIN obj /\ obj[fd] = <<"conn", d>>
      BY Zenon DEF DInv, Table, Owns
    <3>2. conn[d] = "accepted"
      BY <3>1 DEF DInv, Table, OpenFd
    <3> QED
      BY <1>6, <1>7, <3>1, <3>2
  <2> QED
    BY <1>7, <1>9, <1>10, <2>1, <2>2, <2>3, <2>4, <2>5, <2>6, Zenon DEF DInv, Table
<1>18. Polled'
  <2>1. Up => Up' /\ phase' # "init"
    BY <1>1, <1>12, Zenon DEF Up
  <2>2. \A i \in 1..Len(fds) + 1 : i \in 1..Len(fds) \/ i = Len(fds) + 1
    BY <1>4
  <2>3. /\ \A i \in 1..Len(fds) : i \in 1..Len(fds) + 1
        /\ Len(fds) + 1 \in 1..Len(fds) + 1
    BY <1>4
  <2>4. Up' => socket_fds' = 3..(2 + NConns)
    BY <1>1, Zenon DEF DInv, Polled, Up
  <2>5. ASSUME NEW fd \in DOMAIN obj', obj'[fd][1] # "file" PROVE \E i \in DOMAIN fds' : fds'[i] = fd
    BY <1>4, <1>7, <1>13, <2>3, <2>5, Zenon DEF DInv, Polled
  <2>6. \A i \in DOMAIN fds' : fds'[i] \notin socket_fds' => fds'[i] \in DOMAIN states'
    BY <1>1, <1>4, <1>9, <1>13, <2>2, Zenon DEF DInv, Polled
  <2>7. \A i \in DOMAIN fds : fds[i] = new => new \in socket_fds
    BY <1>8, Zenon DEF DInv, Polled
  <2>8. \A i, j \in DOMAIN fds' : fds'[i] = fds'[j] /\ i # j => fds'[i] \in socket_fds'
    BY <1>1, <1>4, <1>13, <2>2, <2>7 DEF DInv, Polled
  <2>9. \A i \in DOMAIN fds' : "HUP" \in revents'[i] =>
          Aborts # {} /\ (fds'[i] \in DOMAIN obj' => obj'[fds'[i]][1] # "listen")
    <3> SUFFICES ASSUME NEW i \in DOMAIN fds', "HUP" \in revents'[i]
                 PROVE  Aborts # {} /\ (fds'[i] \in DOMAIN obj' => obj'[fds'[i]][1] # "listen")
      BY Zenon
    <3>1. i \in 1..Len(fds) /\ "HUP" \in revents[i] /\ fds'[i] = fds[i]
      BY <1>13, <1>14, <2>2, Zenon
    <3>2. Aborts # {} /\ (fds[i] \in DOMAIN obj => obj[fds[i]][1] # "listen")
      BY <1>1, <1>4, <3>1, Zenon DEF DInv, Polled
    <3> QED
      BY <1>7, <3>1, <3>2
  <2> QED
    BY <2>4, <2>5, <2>6, <2>8, <2>9, Zenon DEF Polled
<1>19. Framing'
  <2>1. InMessage(new)'
    <3>1. took'[c] = 0 /\ applied'[c] = 0 /\ Upto[c][0] = 0
      BY <1>1, <1>6, UptoZero, Zenon DEF DInv, Framing
    <3> QED
      BY <1>7, <1>10, <3>1 DEF InMessage
  <2>2. ASSUME NEW fd \in DOMAIN states PROVE InMessage(fd)'
    <3>1. obj'[fd] = obj[fd]
      BY <1>7, Zenon DEF DInv, Table, Owns
    <3> QED
      BY <1>u, <1>9, <3>1, SameInMessage, Zenon DEF DInv, Framing
  <2> QED
    BY <1>1, <1>9, <1>11, <2>1, <2>2, Zenon DEF DInv, Framing
<1>20. Contents'
  <2>1. Filled(new)'
    <3>1. obj'[new][2] = c /\ states'[new].kind = "Connected"
      BY <1>7, <1>10
    <3>2. applied'[c] < Len(Script[c]) => got'[Message(c)'] = 0
      BY <1>u, <1>6, Zenon DEF DInv, Contents, Message
    <3> QED
      BY <3>1, <3>2, Zenon DEF Filled, Message
  <2>2. ASSUME NEW fd \in DOMAIN states PROVE Filled(fd)'
    <3>1. obj'[fd] = obj[fd]
      BY <1>7, Zenon DEF DInv, Table, Owns
    <3> QED
      BY <1>u, <1>9, <3>1, SameFilled, Zenon DEF DInv, Contents
  <2> QED
    BY <1>1, <1>9, <1>11, <2>1, <2>2 DEF DInv, Contents, FilesWhole, Message
<1>21. Counting'
  <2>1. Accepted' = Accepted \cup {c} /\ c \notin Accepted
    BY <1>6, <1>11, Zenon DEF Accepted
  <2>2. IsFiniteSet(Accepted)
    BY DaemonAssumption, FS_Subset, Zenon DEF Accepted
  <2>3. Cardinality(Accepted') = Cardinality(Accepted) + 1 /\ Cardinality(Accepted) \in Nat
    BY <2>1, <2>2, FS_AddElement, FS_CardinalityType, Zenon
  <2>4. NConns \in Nat
    BY DaemonAssumption, Zenon
  <2>5. CASE Aborts = {}
    <3>1. Len(fds) = NConns + Cardinality(Accepted) /\ \A d \in Client : gone[d] = "no"
      BY <1>1, <2>5, Zenon DEF DInv, Counting, Up
    <3>2. Cardinality(Accepted') <= NConns + 1
      BY <1>1, <2>3, <2>4, <3>1
    <3>3. Len(fds') = NConns + Cardinality(Accepted')
      BY <1>13, <2>3, <2>4, <3>1
    <3> QED
      BY <1>1, <1>12, <2>5, <3>1, <3>2, <3>3, Zenon DEF Counting
  <2>6. CASE Aborts # {}
    <3>1. Port[c] < NConns
      BY <1>5, <1>6, <2>4
    <3> QED
      BY <1>12, <2>1, <2>6, <3>1, Zenon DEF DInv, Counting
  <2> QED
    BY <2>5, <2>6, Zenon
<1>22. TempsTracked'
  BY <1>1, <1>12, Zenon DEF DInv, TempsTracked
<1> QED
  BY <1>1, <1>15, <1>16, <1>17, <1>18, <1>19, <1>20, <1>21, <1>22, SameDisk, Zenon DEF DInv

(* A connection hangs up, and its socket and temporary file go with it.    *)
LEMMA HangUpKeeps ==
  ASSUME DInv, HangUp
  PROVE  DInv'
<1>a. PICK old : old = Pfd
  BY Zenon
<1> DEFINE K == UNION {{states[fd].anon_fd, fd, states[fd].sock_fd} : fd \in DOMAIN states \cap {old}}
<1>1. /\ phase = "loop" /\ "HUP" \in revents[idx] /\ old = fds[idx]
      /\ obj' = Close(obj, K) /\ states' = Close(states, {old})
      /\ fds' = RemoveAt(fds, idx) /\ revents' = RemoveAt(revents, idx)
      /\ Goto(idx, Len(fds) - 1)
  BY <1>a, Zenon DEF HangUp, Has, Remaining, Pfd
<1>u. UNCHANGED <<system, user, conn, gone, wrote, took, socket_fds, ANON_FILES, tmp, got, dirs,
                  files, applied>>
  BY Zenon DEF HangUp, netVars, diskVars
<1>2. /\ fds \in Seq(Nat) /\ Len(fds) \in Nat /\ DOMAIN fds = 1..Len(fds)
      /\ idx \in 1..Len(fds) /\ Len(revents) = Len(fds)
      /\ revents \in Seq(SUBSET {"IN", "HUP", "NVAL"})
  BY <1>1 DEF DInv, Loop
<1>3. Aborts # {} /\ (old \in DOMAIN obj => obj[old][1] # "listen")
  BY <1>1, <1>2, Zenon DEF DInv, Polled
<1>4. /\ DOMAIN obj' = DOMAIN obj \ K /\ \A g \in DOMAIN obj \ K : obj'[g] = obj[g]
      /\ DOMAIN states' = DOMAIN states \ {old}
      /\ \A g \in DOMAIN states \ {old} : states'[g] = states[g]
  BY <1>1, Zenon DEF Close, Restrict
<1>5. \A g : g \in K <=> old \in DOMAIN states /\ g \in {states[old].anon_fd, old, states[old].sock_fd}
  BY Zenon
<1> HIDE DEF K
<1>6. /\ fds' \in Seq(Nat) /\ Len(fds') = Len(fds) - 1 /\ DOMAIN fds' = 1..Len(fds) - 1
      /\ \A j \in 1..Len(fds) - 1 : fds'[j] = IF j < idx THEN fds[j] ELSE fds[j + 1]
  <2>1. fds' = RemoveAt(fds, idx)
    BY <1>1, Zenon
  <2>2. fds \in Seq(Nat) /\ idx \in 1..Len(fds)
    BY <1>2, Zenon
  <2>3. /\ RemoveAt(fds, idx) \in Seq(Nat) /\ Len(RemoveAt(fds, idx)) = Len(fds) - 1
        /\ \A j \in 1..Len(fds) - 1 :
             RemoveAt(fds, idx)[j] = IF j < idx THEN fds[j] ELSE fds[j + 1]
    BY <2>2, Removed, Zenon
  <2> QED
    BY <2>1, <2>3
<1>7. /\ revents' \in Seq(SUBSET {"IN", "HUP", "NVAL"}) /\ Len(revents') = Len(fds) - 1
      /\ \A j \in 1..Len(fds) - 1 : revents'[j] = IF j < idx THEN revents[j] ELSE revents[j + 1]
  <2> DEFINE E == SUBSET {"IN", "HUP", "NVAL"}
  <2>1. revents' = RemoveAt(revents, idx)
    BY <1>1, Zenon
  <2>2. revents \in Seq(E) /\ idx \in 1..Len(revents)
    BY <1>2, Zenon
  <2> HIDE DEF E
  <2>3. /\ RemoveAt(revents, idx) \in Seq(E) /\ Len(RemoveAt(revents, idx)) = Len(revents) - 1
        /\ \A j \in 1..Len(revents) - 1 :
             RemoveAt(revents, idx)[j] = IF j < idx THEN revents[j] ELSE revents[j + 1]
    BY <2>2, Removed, Zenon
  <2>4. Len(revents) = Len(fds)
    BY <1>2, Zenon
  <2> QED
    BY <2>1, <2>3, <2>4, Zenon DEF E
<1>8. \/ phase' = "loop" /\ idx' = idx /\ idx <= Len(fds) - 1
      \/ phase' = "poll"
  BY <1>1, Zenon DEF Goto
<1>9. /\ \A g \in DOMAIN obj : OpenFd(g)
      /\ \A g \in DOMAIN states : states[g] \in ConnectionState /\ Owns(g)
      /\ \A f, g \in DOMAIN states : obj[f] = obj[g] => f = g
      /\ IsFiniteSet(DOMAIN obj)
  BY Zenon DEF DInv, Table
<1>10. ASSUME NEW g \in DOMAIN states, g # old
       PROVE  \A x \in DOMAIN obj : x \in {g, states[g].anon_fd, states[g].sock_fd} => x \notin K
  <2> SUFFICES ASSUME old \in DOMAIN states, NEW x \in DOMAIN obj,
                      x \in {g, states[g].anon_fd, states[g].sock_fd},
                      x \in {states[old].anon_fd, old, states[old].sock_fd}
               PROVE  FALSE
    BY <1>5, Zenon
  <2>1. PICK c \in Client : obj[g] = <<"conn", c>> /\ obj[g][2] = c
    BY <1>9, Zenon DEF Owns
  <2>2. PICK d \in Client : obj[old] = <<"conn", d>> /\ obj[old][2] = d
    BY <1>9, Zenon DEF Owns
  <2>3. c # d
    BY <1>9, <1>10, <2>1, <2>2
  <2>4. x >= 3 /\ x \in Nat
    BY <1>9, Zenon DEF OpenFd
  <2>5. \/ x = g /\ obj[x] = <<"conn", c>>
        \/ obj[x] = <<"file", Message(c)>> /\ states[g].kind = "Receiving"
        \/ obj[x] = <<"listen", Port[c]>>
    <3>1. Owns(g) /\ obj[g][2] = c
      BY <1>9, <2>1, Zenon
    <3>2. /\ \/ states[g].kind = "Receiving" /\ obj[states[g].anon_fd] = <<"file", Message(c)>>
             \/ states[g].anon_fd = -1
          /\ states[g].sock_fd = 0 \/ obj[states[g].sock_fd] = <<"listen", Port[c]>>
      BY <1>3, <3>1, Zenon DEF Owns
    <3> QED
      BY <2>1, <2>4, <3>2
  <2>6. \/ x = old /\ obj[x] = <<"conn", d>>
        \/ obj[x] = <<"file", Message(d)>> /\ states[old].kind = "Receiving"
        \/ obj[x] = <<"listen", Port[d]>>
    BY <1>3, <1>9, <2>2, <2>4 DEF Owns
  <2>7. Port[c] # Port[d]
    BY <1>3, <2>3, DaemonAssumption, Zenon DEF IsInjective
  <2>8. states[g].kind = "Receiving" /\ states[old].kind = "Receiving" => Message(c) # Message(d)
    <3> SUFFICES ASSUME states[g].kind = "Receiving", states[old].kind = "Receiving"
                 PROVE  Message(c) # Message(d)
      BY Zenon
    <3>1. applied[c] < Len(Script[c]) /\ applied[d] < Len(Script[d])
      BY <2>1, <2>2, Zenon DEF DInv, Framing, InMessage
    <3>2. applied[c] \in Nat /\ applied[d] \in Nat
      BY Zenon DEF DInv, Plain
    <3>3. applied[c] + 1 \in 1..Len(Script[c]) /\ applied[d] + 1 \in 1..Len(Script[d])
      BY <3>1, <3>2, LenScript
    <3> QED
      BY <2>3, <3>3, ScriptAssumption DEF Message
  <2> QED
    BY <1>10, <2>3, <2>5, <2>6, <2>7, <2>8
<1>11. Plain'
  BY <1>u, <1>8, Zenon DEF DInv, Plain
<1>12. Loop'
  BY <1>2, <1>6, <1>7, <1>8 DEF Loop
<1>13. Table'
  <2>1. IsFiniteSet(DOMAIN obj')
    BY <1>4, <1>9, FS_Subset, Zenon
  <2>2. ASSUME NEW fd \in DOMAIN obj' PROVE OpenFd(fd)'
    <3>1. fd \in DOMAIN obj /\ fd \notin K /\ OpenFd(fd) /\ obj'[fd] = obj[fd]
      BY <1>4, <1>9, Zenon
    <3>2. CASE obj[fd] = <<"listen", fd - 3>> /\ fd < NConns + 3
      BY <3>1, <3>2, Zenon DEF OpenFd
    <3>3. ASSUME NEW c \in Client, obj[fd] = <<"conn", c>>, fd \in DOMAIN states, conn[c] = "accepted"
          PROVE  OpenFd(fd)'
      <4>1. fd # old
        BY <1>5, <3>1, <3>3, Zenon
      <4> QED
        BY <1>u, <1>4, <3>1, <3>3, <4>1, Zenon DEF OpenFd
    <3>4. ASSUME NEW n \in Node, obj[fd] = <<"file", n>>, NEW g \in DOMAIN states,
                 states[g].anon_fd = fd
          PROVE  OpenFd(fd)'
      <4>1. g # old
        BY <1>5, <3>1, <3>4, Zenon
      <4>2. g \in DOMAIN states' /\ states'[g].anon_fd = fd
        BY <1>4, <3>4, <4>1, Zenon
      <4> QED
        BY <3>1, <3>4, <4>2, Zenon DEF OpenFd
    <3> QED
      BY <3>1, <3>2, <3>3, <3>4, Zenon DEF OpenFd
  <2>3. ASSUME NEW g \in DOMAIN states' PROVE states'[g] \in ConnectionState /\ Owns(g)'
    <3>1. g \in DOMAIN states /\ g # old /\ states'[g] = states[g] /\ Owns(g)
          /\ states[g] \in ConnectionState
      BY <1>4, <1>9, Zenon
    <3>2. \A x \in DOMAIN obj : x \in {g, states[g].anon_fd, states[g].sock_fd} =>
            x \in DOMAIN obj' /\ obj'[x] = obj[x]
      BY <1>4, <1>10, <3>1, Zenon
    <3> QED
      BY <1>u, <3>1, <3>2, SameOwns, Zenon
  <2>4. \A g \in DOMAIN states' : g \in DOMAIN states /\ obj'[g] = obj[g]
    <3> SUFFICES ASSUME NEW g \in DOMAIN states' PROVE g \in DOMAIN states /\ obj'[g] = obj[g]
      BY Zenon
    <3>1. g \in DOMAIN states /\ g # old /\ g \in DOMAIN obj
      BY <1>4, <1>9, Zenon DEF Owns
    <3> QED
      BY <1>4, <1>10, <3>1, Zenon
  <2> QED
    BY <1>9, <2>1, <2>2, <2>3, <2>4, Zenon DEF Table
<1>14. \A g \in DOMAIN states' :
         g \in DOMAIN states /\ g # old /\ states'[g] = states[g] /\ obj'[g] = obj[g]
  <2> SUFFICES ASSUME NEW g \in DOMAIN states'
               PROVE  g \in DOMAIN states /\ g # old /\ states'[g] = states[g] /\ obj'[g] = obj[g]
    BY Zenon
  <2>1. g \in DOMAIN states /\ g # old /\ g \in DOMAIN obj /\ states'[g] = states[g]
    BY <1>4, <1>9, Zenon DEF Owns
  <2> QED
    BY <1>4, <1>10, <2>1, Zenon
<1>15. Framing'
  <2>1. ASSUME NEW g \in DOMAIN states' PROVE InMessage(g)'
    BY <1>u, <1>14, SameInMessage, Zenon DEF DInv, Framing
  <2> QED
    BY <1>u, <2>1, Zenon DEF DInv, Framing
<1>16. Contents'
  <2>1. ASSUME NEW g \in DOMAIN states' PROVE Filled(g)'
    BY <1>u, <1>14, SameFilled, Zenon DEF DInv, Contents
  <2> QED
    BY <1>u, <2>1, Zenon DEF DInv, Contents, FilesWhole, Message
<1>17. Counting'
  BY <1>u, <1>3, <1>8, Zenon DEF DInv, Counting, Accepted
<1>18. TempsTracked'
  BY <1>u, <1>1, <1>8, Zenon DEF DInv, TempsTracked
<1>19. Polled'
  <2>1. Up' => socket_fds' = 3..(2 + NConns)
    BY <1>u, <1>1, Zenon DEF DInv, Polled, Up
  <2>2. ASSUME NEW j \in DOMAIN fds'
        PROVE  \E i \in DOMAIN fds : /\ i # idx /\ fds'[j] = fds[i] /\ revents'[j] = revents[i]
                                     /\ i = IF j < idx THEN j ELSE j + 1
    <3>1. PICK i : i = IF j < idx THEN j ELSE j + 1
      BY Zenon
    <3>2. j \in 1..Len(fds) - 1
      BY <1>6, Zenon
    <3>3. i \in DOMAIN fds /\ i # idx
      BY <1>2, <3>1, <3>2
    <3> QED
      BY <1>6, <1>7, <3>1, <3>2, <3>3, Zenon
  <2>3. ASSUME NEW i \in DOMAIN fds, i # idx PROVE \E j \in DOMAIN fds' : fds'[j] = fds[i]
    <3>1. CASE i < idx
      <4>1. i \in 1..Len(fds) - 1
        BY <1>2, <3>1
      <4> QED
        BY <1>6, <3>1, <4>1, Zenon
    <3>2. CASE ~(i < idx)
      <4>1. i - 1 \in 1..Len(fds) - 1 /\ ~(i - 1 < idx) /\ i - 1 + 1 = i
        BY <1>2, <2>3, <3>2
      <4> QED
        BY <1>6, <4>1, Zenon
    <3> QED
      BY <3>1, <3>2, Zenon
  <2>4. ASSUME NEW fd \in DOMAIN obj', obj'[fd][1] # "file" PROVE \E j \in DOMAIN fds' : fds'[j] = fd
    <3>1. fd \in DOMAIN obj /\ fd \notin K /\ obj[fd][1] # "file" /\ OpenFd(fd)
      BY <1>4, <1>9, <2>4, Zenon
    <3>2. PICK i \in DOMAIN fds : fds[i] = fd
      BY <3>1, Zenon DEF DInv, Polled
    <3>3. fd # old
      <4> SUFFICES ASSUME fd = old PROVE FALSE
        BY Zenon
      <4>1. obj[fd][1] # "listen" /\ fd \notin DOMAIN states
        BY <1>3, <1>5, <3>1, Zenon
      <4> QED
        BY <3>1, <4>1 DEF OpenFd
    <3> QED
      BY <1>1, <2>3, <3>2, <3>3, Zenon
  <2>5. ASSUME NEW j \in DOMAIN fds', fds'[j] \notin socket_fds' PROVE fds'[j] \in DOMAIN states'
    <3>1. PICK i \in DOMAIN fds : i # idx /\ fds'[j] = fds[i]
      BY <2>2, Zenon
    <3>2. fds[i] \notin socket_fds
      BY <1>u, <2>5, <3>1, Zenon
    <3>3. fds[i] \in DOMAIN states /\ fds[i] # old
      BY <1>1, <1>2, <3>1, <3>2, Zenon DEF DInv, Polled
    <3> QED
      BY <1>4, <3>1, <3>3, Zenon
  <2>6. ASSUME NEW j \in DOMAIN fds', NEW k \in DOMAIN fds', fds'[j] = fds'[k], j # k
        PROVE  fds'[j] \in socket_fds'
    <3>1. PICK i \in DOMAIN fds : fds'[j] = fds[i] /\ i = IF j < idx THEN j ELSE j + 1
      BY <2>2, Zenon
    <3>2. PICK l \in DOMAIN fds : fds'[k] = fds[l] /\ l = IF k < idx THEN k ELSE k + 1
      BY <2>2, Zenon
    <3>3. i # l
      <4>1. j \in Int /\ k \in Int /\ idx \in Int /\ j # k
        BY <1>2, <1>6, <2>6
      <4> QED
        BY <3>1, <3>2, <4>1
    <3> QED
      BY <1>u, <2>6, <3>1, <3>2, <3>3, Zenon DEF DInv, Polled
  <2>7. ASSUME NEW j \in DOMAIN fds', "HUP" \in revents'[j]
        PROVE  Aborts # {} /\ (fds'[j] \in DOMAIN obj' => obj'[fds'[j]][1] # "listen")
    <3>1. PICK i \in DOMAIN fds : fds'[j] = fds[i] /\ revents'[j] = revents[i]
      BY <2>2, Zenon
    <3>2. Aborts # {} /\ (fds[i] \in DOMAIN obj => obj[fds[i]][1] # "listen")
      BY <1>1, <2>7, <3>1, Zenon DEF DInv, Polled
    <3> QED
      BY <1>4, <3>1, <3>2, Zenon
  <2> QED
    BY <2>1, <2>4, <2>5, <2>6, <2>7, Zenon DEF Polled
<1> QED
  BY <1>u, <1>11, <1>12, <1>13, <1>15, <1>16, <1>17, <1>18, <1>19, SameDisk, Zenon DEF DInv
=============================================================================
