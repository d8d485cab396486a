---------------------------- MODULE DaemonProofs ----------------------------
(***************************************************************************)
(* The invariant of daemon_main is kept when a connection is read, and     *)
(* what follows from it.                                                   *)
(***************************************************************************)
EXTENDS DaemonTableProofs

-----------------------------------------------------------------------------
(* Reading: the loop is at a connection that has its state.                *)
LEMMA AtReading ==
  ASSUME DInv, Reading
  PROVE  /\ phase = "loop" /\ idx \in 1..Len(fds)
         /\ Pfd \in DOMAIN states /\ State \in ConnectionState
         /\ Owns(Pfd) /\ InMessage(Pfd) /\ Filled(Pfd)
         /\ Pfd \in DOMAIN obj /\ obj[Pfd] = <<"conn", Sender>> /\ obj[Pfd][2] = Sender
         /\ Sender \in Client /\ conn[Sender] = "accepted"
<1>1. phase = "loop" /\ fds[idx] \notin socket_fds
  BY Zenon DEF Reading, Incoming, Has, Pfd
<1>2. idx \in 1..Len(fds) /\ idx \in DOMAIN fds
  BY <1>1 DEF DInv, Loop
<1>3. Pfd \in DOMAIN states
  BY <1>1, <1>2, Zenon DEF DInv, Polled, Pfd
<1>4. State \in ConnectionState /\ Owns(Pfd) /\ InMessage(Pfd) /\ Filled(Pfd)
  BY <1>3, Zenon DEF DInv, Table, Framing, Contents, State
<1>5. Pfd \in DOMAIN obj /\ obj[Pfd] = <<"conn", Sender>> /\ Sender \in Client
  BY <1>4, Zenon DEF Owns, Sender
<1>6. OpenFd(Pfd)
  BY <1>5, Zenon DEF DInv, Table
<1>7. conn[Sender] = "accepted"
  BY <1>5, <1>6 DEF OpenFd
<1> QED
  BY <1>1, <1>2, <1>3, <1>4, <1>5, <1>7, Zenon DEF Sender

(* The message a connection is in, when it is known, is nobody else's.     *)
LEMMA OwnMessage ==
  ASSUME DInv, NEW c \in Client, NEW d \in Client,
         applied[c] < Len(Script[c]), NEW i \in 1..Len(Script[d]), Message(c) = Script[d][i]
  PROVE  c = d /\ i = applied[c] + 1
<1>1. applied[c] \in Nat /\ Len(Script[c]) \in Nat
  BY LenScript, Zenon DEF DInv, Plain
<1>2. applied[c] + 1 \in 1..Len(Script[c])
  BY <1>1
<1> QED
  BY <1>2, ScriptAssumption DEF Message

(* A step that reads for one connection, and the others apart.             *)
Apart ==
  /\ DOMAIN states' = DOMAIN states
  /\ \A g \in DOMAIN states : g # Pfd => states'[g] = states[g]
  /\ \A c \in Client : c # Sender => took'[c] = took[c] /\ applied'[c] = applied[c]
  /\ \A n \in Node : (n = Message(Sender) /\ State.kind = "Receiving") \/ got'[n] = got[n]
  /\ \A fd \in DOMAIN obj : fd # State.anon_fd => fd \in DOMAIN obj' /\ obj'[fd] = obj[fd]
  /\ \A fd \in DOMAIN obj' : (fd \in DOMAIN obj /\ obj'[fd] = obj[fd]) \/ obj'[fd][1] = "file"
  /\ UNCHANGED <<system, user, conn, gone, wrote, fds, revents, socket_fds>>
  /\ (phase' = phase /\ idx' = idx) \/ Goto(idx + 1, Len(fds))

(* What is read for one connection does not disturb the others.            *)
LEMMA OthersKeep ==
  ASSUME DInv, Reading, Apart, NEW g \in DOMAIN states, g # Pfd
  PROVE  /\ states'[g] \in ConnectionState /\ obj'[g] = obj[g]
         /\ Owns(g)' /\ InMessage(g)' /\ Filled(g)'
<1>1. /\ Owns(Pfd) /\ Sender \in Client /\ obj[Pfd] = <<"conn", Sender>> /\ InMessage(Pfd)
      /\ Pfd \in DOMAIN states /\ obj[Pfd][2] = Sender
  BY AtReading, Zenon
<1>2. Owns(g) /\ InMessage(g) /\ Filled(g) /\ states'[g] = states[g]
  BY Zenon DEF DInv, Table, Framing, Contents, Apart
<1>3. PICK c \in Client : g \in DOMAIN obj /\ obj[g] = <<"conn", c>> /\ obj[g][2] = c
  BY <1>2, Zenon DEF Owns
<1>4. c # Sender
  <2>1. obj[g] = obj[Pfd] => g = Pfd
    BY <1>1, Zenon DEF DInv, Table
  <2> QED
    BY <1>1, <1>3, <2>1, Zenon
<1>5. took'[c] = took[c] /\ applied'[c] = applied[c]
  BY <1>4, Zenon DEF Apart
<1>6. State.kind = "Receiving" => applied[Sender] < Len(Script[Sender])
  BY <1>1, Zenon DEF InMessage, State
<1>7. applied[c] < Len(Script[c]) => got'[Message(c)] = got[Message(c)]
  <2> SUFFICES ASSUME applied[c] < Len(Script[c]) PROVE got'[Message(c)] = got[Message(c)]
    BY Zenon
  <2>1. applied[c] + 1 \in 1..Len(Script[c])
    BY LenScript DEF DInv, Plain
  <2>2. Message(c) \in Node
    BY <2>1, LenScript, Zenon DEF Message
  <2>3. State.kind = "Receiving" => Message(c) # Message(Sender)
    BY <1>1, <1>4, <1>6, <2>1, OwnMessage, Zenon DEF Message
  <2> QED
    BY <2>2, <2>3, Zenon DEF Apart
<1>8. \A x \in DOMAIN obj :
        x \in {g, states[g].anon_fd} \/ (Aborts # {} /\ x = states[g].sock_fd) =>
          x \in DOMAIN obj' /\ obj'[x] = obj[x]
  <2> SUFFICES ASSUME NEW x \in DOMAIN obj,
                      x \in {g, states[g].anon_fd} \/ (Aborts # {} /\ x = states[g].sock_fd),
                      x = State.anon_fd
               PROVE  FALSE
    BY Zenon DEF Apart
  <2>1. x \in Nat /\ x >= 3
    BY Zenon DEF DInv, Table, OpenFd
  <2>2. State.kind = "Receiving" /\ obj[x] = <<"file", Message(Sender)>>
    BY <1>1, <2>1 DEF Owns, State
  <2>3. \/ obj[x] = <<"conn", c>>
        \/ states[g].kind = "Receiving" /\ obj[x] = <<"file", Message(c)>>
        \/ obj[x] = <<"listen", Port[c]>>
    BY <1>2, <1>3, <2>1 DEF Owns
  <2>4. states[g].kind = "Receiving" => Message(c) # Message(Sender)
    <3> SUFFICES ASSUME states[g].kind = "Receiving" PROVE Message(c) # Message(Sender)
      BY Zenon
    <3>1. applied[c] < Len(Script[c])
      BY <1>2, <1>3, Zenon DEF InMessage
    <3>2. applied[c] + 1 \in 1..Len(Script[c])
      BY <3>1, LenScript DEF DInv, Plain
    <3> QED
      BY <1>1, <1>4, <1>6, <2>2, <3>2, OwnMessage, Zenon DEF Message
  <2> QED
    BY <2>2, <2>3, <2>4
<1>9. obj'[g] = obj[g]
  BY <1>3, <1>8, Zenon
<1>10. states'[g] \in ConnectionState
  BY <1>2, Zenon DEF DInv, Table
<1>11. Owns(g)'
  BY <1>2, <1>3, <1>5, <1>8, SameOwns, Zenon
<1> QED
  BY <1>2, <1>3, <1>5, <1>7, <1>9, <1>10, <1>11, SameInMessage, SameFilled, Zenon

LEMMA ApartKeeps ==
  ASSUME DInv, Reading, Apart, NEW p, p = Pfd
  PROVE  /\ Loop' /\ Polled' /\ Counting' /\ phase' \in {"poll", "loop"}
         /\ p \in DOMAIN states' /\ obj'[p] = obj[p] /\ p \in DOMAIN obj'
         /\ \A f, g \in DOMAIN states' : obj'[f] = obj'[g] => f = g
<1>1. phase = "loop" /\ idx \in 1..Len(fds) /\ p \in DOMAIN states /\ p \in DOMAIN obj
      /\ obj[p] = <<"conn", Sender>> /\ Owns(p)
  BY AtReading, Zenon
<1>u. UNCHANGED <<conn, gone, fds, revents, socket_fds>> /\ DOMAIN states' = DOMAIN states
  BY Zenon DEF Apart
<1>2. \/ phase' = "loop" /\ idx' \in 1..Len(fds)
      \/ phase' = "poll"
  <2>1. idx \in Int /\ Len(fds) \in Int
    BY <1>1 DEF DInv, Loop
  <2> QED
    BY <1>1, <2>1 DEF Apart, Goto
<1>3. p # State.anon_fd
  <2>1. p \in Nat
    BY <1>1, Zenon DEF DInv, Table, OpenFd
  <2>2. State.anon_fd = -1 \/ obj[State.anon_fd] = <<"file", Message(Sender)>>
    BY <1>1, Zenon DEF Owns, State, Sender
  <2> QED
    BY <1>1, <2>1, <2>2
<1>4. p \in DOMAIN obj' /\ obj'[p] = obj[p]
  BY <1>1, <1>3, Zenon DEF Apart
<1>5. Loop'
  BY <1>u, <1>1, <1>2, Zenon DEF DInv, Loop
<1>6. Counting'
  BY <1>u, <1>1, <1>2, Zenon DEF DInv, Counting, Accepted, Up
<1>7. Polled'
  <2>1. \A fd \in DOMAIN obj' : (fd \in DOMAIN obj /\ obj'[fd] = obj[fd]) \/ obj'[fd][1] = "file"
    BY Zenon DEF Apart
  <2>2. Up' => socket_fds' = 3..(2 + NConns)
    BY <1>u, <1>1, Zenon DEF DInv, Polled, Up
  <2>3. ASSUME NEW fd \in DOMAIN obj', obj'[fd][1] # "file" PROVE \E i \in DOMAIN fds' : fds'[i] = fd
    BY <1>u, <2>1, <2>3, Zenon DEF DInv, Polled
  <2>4. ASSUME phase' = "loop", NEW i \in DOMAIN fds', "HUP" \in revents'[i]
        PROVE  Aborts # {} /\ (fds'[i] \in DOMAIN obj' => obj'[fds'[i]][1] # "listen")
    <3>1. Aborts # {} /\ (fds[i] \in DOMAIN obj => obj[fds[i]][1] # "listen")
      BY <1>u, <1>1, <2>4, Zenon DEF DInv, Polled
    <3> QED
      BY <1>u, <2>1, <3>1, Zenon
  <2>5. /\ \A i \in DOMAIN fds' : fds'[i] \notin socket_fds' => fds'[i] \in DOMAIN states'
        /\ \A i, j \in DOMAIN fds' : fds'[i] = fds'[j] /\ i # j => fds'[i] \in socket_fds'
    BY <1>u, Zenon DEF DInv, Polled
  <2> QED
    BY <2>2, <2>3, <2>4, <2>5, Zenon DEF Polled
<1>8. \A g \in DOMAIN states' : obj'[g] = obj[g]
  BY <1>u, <1>4, OthersKeep, Zenon
<1>9. \A f, g \in DOMAIN states' : obj'[f] = obj'[g] => f = g
  BY <1>u, <1>8, Zenon DEF DInv, Table
<1> QED
  BY <1>u, <1>1, <1>2, <1>4, <1>5, <1>6, <1>7, <1>9, Zenon

(* A step within a message: the connection keeps what it owns, and nothing *)
(* is applied.                                                             *)
LEMMA WithinMessage ==
  ASSUME DInv, Reading, Apart, NEW p, p = Pfd,
         UNCHANGED <<phase, obj, ANON_FILES, tmp, dirs, files, applied>>,
         states'[p] \in ConnectionState,
         states'[p].kind = "Receiving" <=> states[p].kind = "Receiving",
         states'[p].anon_fd = states[p].anon_fd, states'[p].sock_fd = states[p].sock_fd
  PROVE  /\ Loop' /\ Table' /\ Polled' /\ OnDisk' /\ Counting' /\ TempsTracked'
         /\ \A g \in DOMAIN states' \ {p} : InMessage(g)' /\ Filled(g)'
         /\ p \in DOMAIN states' /\ obj[p][2] = Sender
<1>1. /\ Loop' /\ Polled' /\ Counting' /\ p \in DOMAIN states'
      /\ \A f, g \in DOMAIN states' : obj'[f] = obj'[g] => f = g
  BY ApartKeeps, Zenon
<1>2. DOMAIN states' = DOMAIN states /\ Owns(p) /\ obj[p][2] = Sender
  BY AtReading, Zenon DEF Apart
<1>3. ASSUME NEW g \in DOMAIN states', g # p
      PROVE  Owns(g)' /\ InMessage(g)' /\ Filled(g)' /\ states'[g] \in ConnectionState
             /\ states'[g] = states[g]
  BY <1>2, <1>3, OthersKeep, Zenon DEF Apart
<1>4. Owns(p)'
  BY <1>2, Zenon DEF Owns, Message
<1>5. ASSUME NEW fd \in DOMAIN obj' PROVE OpenFd(fd)'
  <2>1. OpenFd(fd) /\ UNCHANGED <<obj, conn>>
    BY Zenon DEF DInv, Table, Apart
  <2>2. \A g \in DOMAIN states : g \in DOMAIN states' /\ states'[g].anon_fd = states[g].anon_fd
    BY <1>2, <1>3, Zenon
  <2> QED
    BY <2>1, <2>2, Zenon DEF OpenFd
<1>6. Table'
  BY <1>1, <1>3, <1>4, <1>5, Zenon DEF DInv, Table
<1> QED
  BY <1>1, <1>2, <1>3, <1>6, SameDisk, SameTemps, Zenon DEF DInv

LEMMA BeginKeeps ==
  ASSUME DInv, Begin
  PROVE  DInv'
<1>a. PICK p : p = Pfd
  BY Zenon
<1>1. /\ Reading /\ p \in DOMAIN states /\ states[p] \in ConnectionState /\ obj[p][2] = Sender
      /\ InMessage(p) /\ Filled(p) /\ Sender \in Client /\ states[p].kind = "Connected"
  BY <1>a, AtReading, Zenon DEF Begin, State
<1>u. UNCHANGED <<system, user, conn, gone, wrote, took, phase, fds, revents, idx, socket_fds, obj,
                  ANON_FILES, tmp, got, dirs, files, applied>>
  BY Zenon DEF Begin, netVars, pollVars, diskVars
<1>2. states' = [states EXCEPT ![p].kind = "HeaderP1", ![p].goal = HeaderLen]
  BY <1>a, Zenon DEF Begin
<1>3. /\ DOMAIN states' = DOMAIN states /\ \A g \in DOMAIN states : g # p => states'[g] = states[g]
      /\ states'[p] = [states[p] EXCEPT !.kind = "HeaderP1", !.goal = HeaderLen]
  BY <1>1, <1>2, Zenon
<1>4. /\ states'[p] \in ConnectionState /\ states'[p].kind = "HeaderP1"
      /\ states'[p].goal = HeaderLen /\ states'[p].progress = states[p].progress
      /\ states'[p].anon_fd = states[p].anon_fd /\ states'[p].sock_fd = states[p].sock_fd
  BY <1>1, <1>3, DaemonAssumption, Zenon DEF ConnectionState
<1>5. Apart
  BY <1>a, <1>u, <1>3, Zenon DEF Apart
<1>6. /\ Loop' /\ Table' /\ Polled' /\ OnDisk' /\ Counting' /\ TempsTracked'
      /\ \A g \in DOMAIN states' \ {p} : InMessage(g)' /\ Filled(g)'
  BY <1>a, <1>u, <1>1, <1>4, <1>5, WithinMessage, Zenon
<1>7. InMessage(p)'
  <2>1. states[p].progress = 0 /\ took[Sender] = Upto[Sender][applied[Sender]]
    BY <1>1 DEF InMessage, ConnectionState
  <2>2. took[Sender] \in Nat
    BY <1>1, Zenon DEF DInv, Plain
  <2>3. took[Sender] = Upto[Sender][applied[Sender]] + states'[p].progress
    BY <1>4, <2>1, <2>2
  <2>4. states'[p].progress <= states'[p].goal
    BY <1>4, <2>1, DaemonAssumption
  <2>5. obj'[p][2] = Sender /\ took' = took /\ applied' = applied
    BY <1>u, <1>1, Zenon
  <2> QED
    BY <1>4, <2>3, <2>4, <2>5, Zenon DEF InMessage
<1>8. Filled(p)'
  BY <1>u, <1>1, <1>4, Zenon DEF Filled, Message
<1>9. Framing'
  BY <1>u, <1>6, <1>7, Zenon DEF DInv, Framing
<1>10. Contents'
  BY <1>u, <1>6, <1>8, Zenon DEF DInv, Contents, FilesWhole, Message
<1>11. Plain'
  BY <1>u, Zenon DEF DInv, Plain
<1> QED
  BY <1>6, <1>9, <1>10, <1>11, Zenon DEF DInv

LEMMA HeaderDoneKeeps ==
  ASSUME DInv, HeaderDone
  PROVE  DInv'
<1>a. PICK p : p = Pfd
  BY Zenon
<1>1. /\ Reading /\ p \in DOMAIN states /\ states[p] \in ConnectionState /\ obj[p][2] = Sender
      /\ InMessage(p) /\ Filled(p) /\ Sender \in Client /\ states[p].kind = "HeaderP1"
  BY <1>a, AtReading, Zenon DEF HeaderDone, Complete, State
<1>u. UNCHANGED <<system, user, conn, gone, wrote, took, phase, fds, revents, idx, socket_fds, obj,
                  ANON_FILES, tmp, got, dirs, files, applied>>
  BY Zenon DEF HeaderDone, netVars, pollVars, diskVars
<1>2. states' = [states EXCEPT ![p].kind = "HeaderP2", ![p].goal = @ + 1]
  BY <1>a, Zenon DEF HeaderDone
<1>3. /\ DOMAIN states' = DOMAIN states /\ \A g \in DOMAIN states : g # p => states'[g] = states[g]
      /\ states'[p] = [states[p] EXCEPT !.kind = "HeaderP2", !.goal = states[p].goal + 1]
  BY <1>1, <1>2, Zenon
<1>4. /\ states'[p] \in ConnectionState /\ states'[p].kind = "HeaderP2"
      /\ states'[p].goal = states[p].goal + 1 /\ states'[p].progress = states[p].progress
      /\ states'[p].anon_fd = states[p].anon_fd /\ states'[p].sock_fd = states[p].sock_fd
  <2>1. states[p].goal + 1 \in Nat
    BY <1>1 DEF ConnectionState
  <2> QED
    BY <1>1, <1>3, <2>1, Zenon DEF ConnectionState
<1>5. Apart
  BY <1>a, <1>u, <1>3, Zenon DEF Apart
<1>6. /\ Loop' /\ Table' /\ Polled' /\ OnDisk' /\ Counting' /\ TempsTracked'
      /\ \A g \in DOMAIN states' \ {p} : InMessage(g)' /\ Filled(g)'
  BY <1>a, <1>u, <1>1, <1>4, <1>5, WithinMessage, Zenon
<1>7. InMessage(p)'
  <2>1. /\ took[Sender] = Upto[Sender][applied[Sender]] + states[p].progress
        /\ states[p].goal = HeaderLen /\ states[p].progress <= states[p].goal
    BY <1>1, Zenon DEF InMessage
  <2>2. states[p].progress \in Nat /\ states[p].goal \in Nat
    BY <1>1, Zenon DEF ConnectionState
  <2>3. states'[p].progress <= states'[p].goal /\ states'[p].goal = HeaderLen + 1
    BY <1>4, <2>1, <2>2
  <2>4. obj'[p][2] = Sender /\ took' = took /\ applied' = applied
    BY <1>u, <1>1, Zenon
  <2> QED
    BY <1>4, <2>1, <2>3, <2>4, Zenon DEF InMessage
<1>8. Filled(p)'
  BY <1>u, <1>1, <1>4, Zenon DEF Filled, Message
<1>9. Framing'
  BY <1>u, <1>6, <1>7, Zenon DEF DInv, Framing
<1>10. Contents'
  BY <1>u, <1>6, <1>8, Zenon DEF DInv, Contents, FilesWhole, Message
<1>11. Plain'
  BY <1>u, Zenon DEF DInv, Plain
<1> QED
  BY <1>6, <1>9, <1>10, <1>11, Zenon DEF DInv

(* One more unit is read; contents go into the temporary file.             *)
LEMMA ReadKeeps ==
  ASSUME DInv, Read
  PROVE  DInv'
<1>a. PICK p : p = Pfd
  BY Zenon
<1>b. PICK c \in Client : c = Sender
  BY AtReading, Zenon DEF Read, Short
<1>1. /\ Reading /\ p \in DOMAIN states /\ states[p] \in ConnectionState /\ obj[p][2] = c
      /\ InMessage(p) /\ Filled(p) /\ states[p].kind # "Connected" /\ conn[c] = "accepted"
      /\ states[p].progress < states[p].goal /\ took[c] < wrote[c]
  BY <1>a, <1>b, AtReading, Zenon DEF Read, Short, State
<1>u. UNCHANGED <<system, user, conn, gone, wrote, phase, fds, revents, idx, socket_fds, obj,
                  ANON_FILES, tmp, dirs, files, applied>>
  BY Zenon DEF Read, netVars, pollVars
<1>2. /\ states' = [states EXCEPT ![p].progress = @ + 1] /\ took' = [took EXCEPT ![c] = @ + 1]
      /\ got' = IF states[p].kind = "Receiving" THEN [got EXCEPT ![Message(c)] = @ + 1] ELSE got
  BY <1>a, <1>b, Zenon DEF Read, State
<1>3. /\ DOMAIN states' = DOMAIN states /\ \A g \in DOMAIN states : g # p => states'[g] = states[g]
      /\ states'[p] = [states[p] EXCEPT !.progress = states[p].progress + 1]
  BY <1>1, <1>2, Zenon
<1>4. states[p].progress + 1 \in Nat /\ states[p].progress \in Nat /\ states[p].goal \in Nat
  BY <1>1 DEF ConnectionState
<1>5. /\ states'[p] \in ConnectionState /\ states'[p].kind = states[p].kind
      /\ states'[p].goal = states[p].goal /\ states'[p].progress = states[p].progress + 1
      /\ states'[p].anon_fd = states[p].anon_fd /\ states'[p].sock_fd = states[p].sock_fd
  BY <1>1, <1>3, <1>4, Zenon DEF ConnectionState
<1>6. /\ took \in [Client -> Nat] /\ wrote \in [Client -> Nat] /\ got \in [Node -> Nat]
      /\ applied \in [Client -> Nat]
  BY Zenon DEF DInv, Plain
<1>7. /\ took' \in [Client -> Nat] /\ took'[c] = took[c] + 1
      /\ \A d \in Client : d # c => took'[d] = took[d]
  BY <1>2, <1>6
<1>8. states[p].kind = "Receiving" =>
        applied[c] < Len(Script[c]) /\ applied[c] + 1 \in 1..Len(Script[c]) /\ Message(c) \in Node
  <2> SUFFICES ASSUME states[p].kind = "Receiving"
               PROVE  /\ applied[c] < Len(Script[c]) /\ applied[c] + 1 \in 1..Len(Script[c])
                      /\ Message(c) \in Node
    BY Zenon
  <2>1. applied[c] < Len(Script[c])
    BY <1>1, Zenon DEF InMessage
  <2>2. applied[c] + 1 \in 1..Len(Script[c])
    BY <1>6, <2>1, LenScript
  <2> QED
    BY <2>1, <2>2, LenScript, Zenon DEF Message
<1>9. /\ got' \in [Node -> Nat]
      /\ \A n \in Node : (n = Message(c) /\ states[p].kind = "Receiving") \/ got'[n] = got[n]
      /\ states[p].kind = "Receiving" => got'[Message(c)] = got[Message(c)] + 1
  <2>1. CASE states[p].kind = "Receiving"
    <3>1. got' = [got EXCEPT ![Message(c)] = @ + 1] /\ Message(c) \in Node
      BY <1>2, <1>8, <2>1, Zenon
    <3>2. got[Message(c)] + 1 \in Nat
      BY <1>6, <3>1
    <3> QED
      BY <1>6, <2>1, <3>1, <3>2, Zenon
  <2>2. CASE states[p].kind # "Receiving"
    BY <1>2, <1>6, <2>2, Zenon
  <2> QED
    BY <2>1, <2>2, Zenon
<1>10. Apart
  BY <1>a, <1>b, <1>u, <1>3, <1>7, <1>9, Zenon DEF Apart, State
<1>11. /\ Loop' /\ Table' /\ Polled' /\ OnDisk' /\ Counting' /\ TempsTracked'
       /\ \A g \in DOMAIN states' \ {p} : InMessage(g)' /\ Filled(g)'
  BY <1>a, <1>u, <1>1, <1>5, <1>10, WithinMessage, Zenon
<1>12. InMessage(p)'
  <2> DEFINE u == Upto[c][applied[c]]
  <2>1. u \in Nat
    <3>1. applied[c] \in Nat /\ applied[c] <= Len(Script[c]) /\ Len(Script[c]) \in Nat
      BY LenScript, Zenon DEF DInv, Plain
    <3> QED
      BY <3>1, UptoNat
  <2>2. obj'[p][2] = c /\ applied' = applied /\ \A d : Message(d)' = Message(d)
    BY <1>u, <1>1, Zenon DEF Message
  <2>3. states'[p].progress <= states'[p].goal
    BY <1>1, <1>4, <1>5
  <2> HIDE DEF u
  <2>4. took[c] = u + states[p].progress => took'[c] = u + states'[p].progress
    BY <1>4, <1>5, <1>7, <2>1
  <2>5. took[c] = u + HeaderLen + 1 + states[p].progress =>
          took'[c] = u + HeaderLen + 1 + states'[p].progress
    BY <1>4, <1>5, <1>7, <2>1, DaemonAssumption
  <2> QED
    BY <1>1, <1>5, <2>2, <2>3, <2>4, <2>5, Zenon DEF InMessage, u
<1>13. Filled(p)'
  <2>1. obj'[p][2] = c /\ applied' = applied /\ \A d : Message(d)' = Message(d)
    BY <1>u, <1>1, Zenon DEF Message
  <2>2. CASE states[p].kind = "Receiving"
    <3>1. got[Message(c)] = states[p].progress
      BY <1>1, <1>8, <2>2, Zenon DEF Filled
    <3> QED
      BY <1>5, <1>9, <2>1, <2>2, <3>1, Zenon DEF Filled
  <2>3. CASE states[p].kind # "Receiving"
    <3>1. got' = got
      BY <1>2, <2>3, Zenon
    <3> QED
      BY <1>1, <1>5, <2>1, <2>3, <3>1, Zenon DEF Filled
  <2> QED
    BY <2>2, <2>3, Zenon
<1>14. Framing'
  <2>1. ASSUME NEW d \in Client PROVE took'[d] <= wrote[d]
    <3>1. CASE d = c
      BY <1>1, <1>6, <1>7, <3>1
    <3>2. CASE d # c
      BY <1>7, <3>2, Zenon DEF DInv, Framing
    <3> QED
      BY <3>1, <3>2, Zenon
  <2>2. \A d \in Client : conn[d] # "accepted" => took'[d] = 0 /\ applied[d] = 0
    BY <1>1, <1>7, Zenon DEF DInv, Framing
  <2> QED
    BY <1>u, <1>11, <1>12, <2>1, <2>2, Zenon DEF DInv, Framing
<1>15. FilesWhole'
  <2> SUFFICES ASSUME NEW n \in files PROVE got'[n] = Size[n]
    BY <1>u, Zenon DEF FilesWhole
  <2>1. n \in Node /\ got[n] = Size[n]
    BY Zenon DEF DInv, Plain, Contents, FilesWhole
  <2>x. PICK d \in Client : \E i \in 1..applied[d] : n = Script[d][i]
    BY DEF DInv, OnDisk
  <2>2. PICK i \in 1..applied[d] : n = Script[d][i]
    BY <2>x, Zenon
  <2>3. i \in 1..Len(Script[d]) /\ i # applied[d] + 1
    <3>1. applied[d] \in Nat /\ applied[d] <= Len(Script[d]) /\ Len(Script[d]) \in Nat
      BY LenScript, Zenon DEF DInv, Plain
    <3> QED
      BY <2>2, <3>1
  <2>4. ~(n = Message(c) /\ states[p].kind = "Receiving")
    BY <1>8, <2>2, <2>3, OwnMessage, Zenon, Zenon
  <2> QED
    BY <1>9, <2>1, <2>4, Zenon
<1>16. ASSUME NEW d \in Client, NEW i \in 1..Len(Script[d]), i > applied[d] + 1
       PROVE  got'[Script[d][i]] = 0
  <2>1. got[Script[d][i]] = 0 /\ Script[d][i] \in Node
    BY <1>16, LenScript, Zenon DEF DInv, Contents
  <2>2. i # applied[d] + 1
    BY <1>6, <1>16
  <2>3. ~(Script[d][i] = Message(c) /\ states[p].kind = "Receiving")
    BY <1>8, <2>2, OwnMessage, Zenon, Zenon
  <2> QED
    BY <1>9, <2>1, <2>3, Zenon
<1>17. ASSUME NEW d \in Client, conn[d] # "accepted", applied[d] < Len(Script[d])
       PROVE  got'[Message(d)] = 0
  <2>1. applied[d] + 1 \in 1..Len(Script[d])
    BY <1>6, <1>17, LenScript
  <2>2. got[Message(d)] = 0 /\ Message(d) \in Node
    BY <1>17, <2>1, LenScript, Zenon DEF DInv, Contents, Message
  <2>3. d # c
    BY <1>1, <1>17
  <2>4. ~(Message(d) = Message(c) /\ states[p].kind = "Receiving")
    BY <1>8, <2>1, <2>3, OwnMessage, Zenon, Zenon DEF Message
  <2> QED
    BY <1>9, <2>2, <2>4, Zenon
<1>18. Contents'
  <2>1. \A d : Message(d)' = Message(d)
    BY <1>u, Zenon DEF Message
  <2> QED
    BY <1>u, <1>11, <1>13, <1>15, <1>16, <1>17, <2>1, Zenon DEF Contents
<1>19. Plain'
  BY <1>u, <1>7, <1>9, Zenon DEF DInv, Plain
<1> QED
  BY <1>11, <1>14, <1>18, <1>19, Zenon DEF DInv

(* Once the path has been read there is a message, and none of its         *)
(* contents has been written.                                              *)
LEMMA AtPath ==
  ASSUME DInv, Complete("HeaderP2"), NEW c \in Client, c = Sender
  PROVE  /\ applied[c] < Len(Script[c]) /\ applied[c] \in Nat /\ Message(c) \in Node
         /\ took[c] = Upto[c][applied[c]] + HeaderLen + 1 /\ got[Message(c)] = 0
<1>1. /\ Reading /\ State.kind = "HeaderP2" /\ State.progress = State.goal /\ InMessage(Pfd)
      /\ Filled(Pfd) /\ obj[Pfd][2] = c
  BY AtReading, Zenon DEF Complete, Done
<1>2. took[c] = Upto[c][applied[c]] + (HeaderLen + 1)
  BY <1>1, Zenon DEF InMessage, State
<1>3. applied[c] \in Nat /\ applied[c] <= Len(Script[c]) /\ Len(Script[c]) \in Nat
  BY LenScript, Zenon DEF DInv, Plain
<1>4. Upto[c][applied[c]] \in Nat /\ Upto[c][Len(Script[c])] \in Nat /\ HeaderLen \in Nat
  BY <1>3, UptoNat, DaemonAssumption
<1>5. took[c] <= wrote[c] /\ wrote[c] <= Upto[c][Len(Script[c])] /\ wrote[c] \in Nat
  BY Zenon DEF DInv, Framing, Plain
<1>6. applied[c] < Len(Script[c])
  <2> SUFFICES ASSUME applied[c] = Len(Script[c]) PROVE FALSE
    BY <1>3
  <2> QED
    BY <1>2, <1>4, <1>5
<1>7. applied[c] + 1 \in 1..Len(Script[c])
  BY <1>3, <1>6
<1>8. Message(c) \in Node
  BY <1>7, LenScript, Zenon DEF Message
<1>9. took[c] = Upto[c][applied[c]] + HeaderLen + 1
  BY <1>2, <1>4
<1>10. got[Message(c)] = 0
  BY <1>1, <1>6, Zenon DEF Filled, State
<1> QED
  BY <1>3, <1>6, <1>8, <1>9, <1>10, Zenon

(* A message takes effect, and the connection is ready for the next.       *)
LEMMA MessageEnds ==
  ASSUME DInv, Reading, Apart, NEW p, p = Pfd, NEW c \in Client, c = Sender,
         applied[c] < Len(Script[c]), took[c] = Upto[c][applied[c] + 1],
         applied' = [applied EXCEPT ![c] = @ + 1], took' = took, got' = got,
         states' = [states EXCEPT ![p] = Reset(@)],
         DOMAIN dirs' \cup files' = DOMAIN dirs \cup files \cup {Message(c)}
  PROVE  /\ states'[p] \in ConnectionState /\ Owns(p)' /\ Framing' /\ OnDisk'
         /\ \A d \in Client :
              /\ \A i \in 1..Len(Script[d]) : i > applied'[d] + 1 => got'[Script[d][i]] = 0
              /\ conn'[d] # "accepted" /\ applied'[d] < Len(Script[d]) => got'[Message(d)'] = 0
         /\ \A g \in DOMAIN states' : Filled(g)'
         /\ applied' \in [Client -> Nat]
         /\ \A d \in Client : applied'[d] <= Len(Script[d])
<1>1. /\ p \in DOMAIN states /\ states[p] \in ConnectionState /\ Owns(p) /\ obj[p] = <<"conn", c>>
      /\ conn[c] = "accepted"
  BY AtReading, Zenon DEF State
<1>2. obj'[p] = obj[p] /\ p \in DOMAIN obj'
  BY ApartKeeps, Zenon
<1>u. UNCHANGED <<conn, wrote>>
  BY Zenon DEF Apart
<1>3. /\ applied \in [Client -> Nat] /\ took \in [Client -> Nat] /\ Len(Script[c]) \in Nat
      /\ \A d \in Client : applied[d] <= Len(Script[d])
  BY LenScript, Zenon DEF DInv, Plain
<1>4. /\ applied' \in [Client -> Nat] /\ applied'[c] = applied[c] + 1
      /\ \A d \in Client : d # c => applied'[d] = applied[d]
  BY <1>3
<1>5. \A d \in Client : applied'[d] <= Len(Script[d])
  BY <1>3, <1>4
<1>6. /\ DOMAIN states' = DOMAIN states /\ states'[p] = Reset(states[p])
      /\ \A g \in DOMAIN states : g # p => states'[g] = states[g]
  BY <1>1, Zenon
<1>7. /\ states'[p] \in ConnectionState /\ states'[p].kind = "Connected" /\ states'[p].anon_fd = -1
      /\ states'[p].progress = 0 /\ states'[p].goal = 0 /\ states'[p].sock_fd = states[p].sock_fd
  BY <1>1, <1>6, Zenon DEF Reset, ConnectionState
<1>8. Owns(p)'
  <2>1. Aborts # {} => \/ states[p].sock_fd = 0
                       \/ /\ states[p].sock_fd \in DOMAIN obj'
                          /\ obj'[states[p].sock_fd] = <<"listen", Port[c]>>
    <3> SUFFICES ASSUME Aborts # {}, states[p].sock_fd # 0
                 PROVE  /\ states[p].sock_fd \in DOMAIN obj'
                        /\ obj'[states[p].sock_fd] = <<"listen", Port[c]>>
      BY Zenon
    <3>1. states[p].sock_fd \in DOMAIN obj /\ obj[states[p].sock_fd] = <<"listen", Port[c]>>
      BY <1>1 DEF Owns
    <3>2. states[p].sock_fd \in Nat
      BY <1>1, Zenon DEF ConnectionState
    <3>3. State.anon_fd = -1 \/ obj[State.anon_fd] = <<"file", Message(c)>>
      BY <1>1 DEF Owns, State
    <3>4. states[p].sock_fd # State.anon_fd
      BY <3>1, <3>2, <3>3
    <3> QED
      BY <3>1, <3>4, Zenon DEF Apart
  <2> QED
    BY <1>1, <1>2, <1>7, <2>1 DEF Owns
<1>9. InMessage(p)'
  BY <1>1, <1>2, <1>4, <1>7 DEF InMessage
<1>10. ASSUME NEW g \in DOMAIN states' PROVE InMessage(g)'
  BY <1>6, <1>9, OthersKeep, Zenon
<1>11. Framing'
  <2>1. \A d \in Client : conn[d] # "accepted" => took[d] = 0 /\ applied'[d] = 0
    BY <1>1, <1>4, Zenon DEF DInv, Framing
  <2> QED
    BY <1>u, <1>10, <2>1, Zenon DEF DInv, Framing
<1>12. ASSUME NEW d \in Client, NEW i \in 1..Len(Script[d]), i > applied'[d] + 1
       PROVE  got[Script[d][i]] = 0
  <2>1. i > applied[d] + 1
    BY <1>3, <1>4, <1>12
  <2> QED
    BY <2>1, Zenon DEF DInv, Contents
<1>13. ASSUME NEW d \in Client, conn[d] # "accepted", applied'[d] < Len(Script[d])
       PROVE  got[Message(d)'] = 0
  <2>1. d # c
    BY <1>1, <1>13, Zenon
  <2>2. applied'[d] = applied[d] /\ Message(d)' = Message(d)
    BY <1>4, <2>1, Zenon DEF Message
  <2> QED
    BY <1>13, <2>2, Zenon DEF DInv, Contents
<1>14. Filled(p)'
  <2> SUFFICES ASSUME applied[c] + 1 < Len(Script[c])
               PROVE  got[Script[c][applied[c] + 1 + 1]] = 0
    BY <1>1, <1>2, <1>4, <1>7 DEF Filled, Message
  <2>1. applied[c] + 1 + 1 \in 1..Len(Script[c]) /\ applied[c] + 1 + 1 > applied[c] + 1
    BY <1>3
  <2> QED
    BY <2>1, Zenon DEF DInv, Contents
<1>15. ASSUME NEW g \in DOMAIN states' PROVE Filled(g)'
  BY <1>6, <1>14, OthersKeep, Zenon
<1>16. OnDisk'
  <2>1. \A n : (\E i \in 1..applied[c] + 1 : n = Script[c][i]) <=>
               (\E i \in 1..applied[c] : n = Script[c][i]) \/ n = Message(c)
    <3>1. \A i : i \in 1..applied[c] + 1 <=> i \in 1..applied[c] \/ i = applied[c] + 1
      BY <1>3
    <3> QED
      BY <3>1, Zenon DEF Message
  <2>2. \A n : (\E d \in Client : \E i \in 1..applied'[d] : n = Script[d][i]) <=>
               (\E d \in Client : \E i \in 1..applied[d] : n = Script[d][i]) \/ n = Message(c)
    <3> TAKE n
    <3> DEFINE Now(d) == \E i \in 1..applied[d] : n = Script[d][i]
               Then(d) == \E i \in 1..applied'[d] : n = Script[d][i]
    <3>1. Then(c) <=> Now(c) \/ n = Message(c)
      <4>1. \A i : i \in 1..applied'[c] <=> i \in 1..applied[c] + 1
        BY <1>4, Zenon
      <4>2. Then(c) <=> \E i \in 1..applied[c] + 1 : n = Script[c][i]
        BY <4>1, Zenon
      <4> HIDE DEF Then
      <4> QED
        BY <2>1, <4>2, Zenon
    <3>2. \A d \in Client : d # c => (Then(d) <=> Now(d))
      BY <1>4, Zenon
    <3> HIDE DEF Now, Then
    <3>3. (\E d \in Client : Then(d)) <=> (\E d \in Client : Now(d)) \/ n = Message(c)
      BY <3>1, <3>2, Zenon
    <3> QED
      BY <3>3, Zenon DEF Now, Then
  <2>3. \A n : n \in DOMAIN dirs \cup files <=>
               \E d \in Client : \E i \in 1..applied[d] : n = Script[d][i]
    BY DEF DInv, OnDisk
  <2>4. \A n : n \in DOMAIN dirs' \cup files' <=>
               \E d \in Client : \E i \in 1..applied'[d] : n = Script[d][i]
    BY <2>2, <2>3
  <2> QED
    BY <2>4 DEF OnDisk
<1> QED
  BY <1>u, <1>4, <1>5, <1>7, <1>8, <1>11, <1>12, <1>13, <1>15, <1>16

LEMMA MakeDirKeeps ==
  ASSUME DInv, MakeDir
  PROVE  DInv'
<1>a. PICK p : p = Pfd
  BY Zenon
<1>b. PICK c \in Client : c = Sender
  BY AtReading, Zenon DEF MakeDir, Complete
<1>1. /\ Reading /\ Complete("HeaderP2") /\ p \in DOMAIN states /\ states[p] \in ConnectionState
      /\ states[p].kind = "HeaderP2" /\ Owns(p) /\ Message(c) \in Dir /\ phase = "loop"
  BY <1>a, <1>b, AtReading, Zenon DEF MakeDir, Complete, State
<1>u. UNCHANGED <<system, user, conn, gone, wrote, took, fds, revents, socket_fds, obj,
                  ANON_FILES, tmp, got, files>>
  BY Zenon DEF MakeDir, netVars
<1>2. /\ states' = [states EXCEPT ![p] = Reset(@)] /\ applied' = [applied EXCEPT ![c] = @ + 1]
      /\ dirs' = Bind(dirs, Message(c), states[p].perms) /\ Goto(idx + 1, Len(fds))
  BY <1>a, <1>b, Zenon DEF MakeDir, State
<1>3. /\ applied[c] < Len(Script[c]) /\ applied[c] \in Nat /\ Message(c) \in Node
      /\ took[c] = Upto[c][applied[c]] + HeaderLen + 1
  BY <1>b, <1>1, AtPath, Zenon
<1>4. took[c] = Upto[c][applied[c] + 1]
  <2>1. Upto[c][applied[c] + 1] = Upto[c][applied[c]] + MessageLen(Message(c))
    BY <1>3, UptoNext, Zenon DEF Message
  <2>2. Size[Message(c)] = 0
    BY <1>1, DaemonAssumption, Zenon
  <2>3. MessageLen(Message(c)) = HeaderLen + 1
    BY <2>2, DaemonAssumption DEF MessageLen
  <2>4. Upto[c][applied[c]] \in Nat /\ HeaderLen \in Nat
    BY <1>3, UptoNat, LenScript, DaemonAssumption
  <2> QED
    BY <1>3, <2>1, <2>3, <2>4
<1>5. /\ DOMAIN states' = DOMAIN states /\ \A g \in DOMAIN states : g # p => states'[g] = states[g]
  BY <1>2, Zenon
<1>6. \A d \in Client : d # c => applied'[d] = applied[d]
  BY <1>2, Zenon DEF DInv, Plain
<1>7. Apart
  BY <1>a, <1>b, <1>u, <1>2, <1>5, <1>6, Zenon DEF Apart
<1>8. /\ Loop' /\ Polled' /\ Counting' /\ phase' \in {"poll", "loop"}
      /\ \A f, g \in DOMAIN states' : obj'[f] = obj'[g] => f = g
  BY <1>a, <1>1, <1>7, ApartKeeps, Zenon
<1>9. DOMAIN dirs' = DOMAIN dirs \cup {Message(c)}
      /\ \A d \in DOMAIN dirs' : dirs'[d] = states[p].perms \/ (d \in DOMAIN dirs /\ dirs'[d] = dirs[d])
  BY <1>2, Zenon DEF Bind
<1>10. DOMAIN dirs' \cup files' = DOMAIN dirs \cup files \cup {Message(c)}
  BY <1>u, <1>9, Zenon
<1>11. /\ states'[p] \in ConnectionState /\ Owns(p)' /\ Framing' /\ OnDisk'
       /\ \A d \in Client :
            /\ \A i \in 1..Len(Script[d]) : i > applied'[d] + 1 => got'[Script[d][i]] = 0
            /\ conn'[d] # "accepted" /\ applied'[d] < Len(Script[d]) => got'[Message(d)'] = 0
       /\ \A g \in DOMAIN states' : Filled(g)'
       /\ applied' \in [Client -> Nat]
       /\ \A d \in Client : applied'[d] <= Len(Script[d])
  BY <1>a, <1>b, <1>u, <1>1, <1>2, <1>3, <1>4, <1>7, <1>10, MessageEnds, Zenon
<1>12. Plain'
  <2>1. \A d \in DOMAIN dirs' : d \in Dir /\ dirs'[d] \in {0, Mode}
    BY <1>1, <1>9, Zenon DEF DInv, Plain, ConnectionState
  <2> QED
    BY <1>u, <1>8, <1>11, <2>1, Zenon DEF DInv, Plain
<1>13. Contents'
  BY <1>u, <1>11, Zenon DEF DInv, Contents, FilesWhole
<1>14. TempsTracked'
  BY <1>u, <1>1, <1>8, Zenon DEF DInv, TempsTracked
<1>15. \A g \in DOMAIN states' : states'[g] \in ConnectionState /\ Owns(g)'
  BY <1>a, <1>1, <1>5, <1>7, <1>11, OthersKeep, Zenon
<1>16. ASSUME NEW fd \in DOMAIN obj' PROVE OpenFd(fd)'
  <2>1. OpenFd(fd) /\ UNCHANGED <<obj, conn>>
    BY <1>u, Zenon DEF DInv, Table
  <2>2. states[p].anon_fd = -1
    BY <1>1, Zenon DEF Owns
  <2>3. fd \in Nat /\ fd # -1
    BY <2>1 DEF OpenFd
  <2>4. ASSUME NEW g \in DOMAIN states, states[g].anon_fd = fd
        PROVE  g \in DOMAIN states' /\ states'[g].anon_fd = fd
    BY <1>5, <2>2, <2>3, <2>4, Zenon
  <2> QED
    BY <1>5, <2>1, <2>4, Zenon DEF OpenFd
<1>17. Table'
  BY <1>u, <1>8, <1>15, <1>16 DEF DInv, Table
<1> QED
  BY <1>8, <1>11, <1>12, <1>13, <1>14, <1>17, Zenon DEF DInv

LEMMA FileDoneKeeps ==
  ASSUME DInv, FileDone
  PROVE  DInv'
<1>a. PICK p : p = Pfd
  BY Zenon
<1>b. PICK c \in Client : c = Sender
  BY AtReading, Zenon DEF FileDone, Complete
<1>1. /\ Reading /\ p \in DOMAIN states /\ states[p] \in ConnectionState
      /\ states[p].kind = "Receiving" /\ states[p].progress = states[p].goal
      /\ Owns(p) /\ InMessage(p) /\ Filled(p) /\ obj[p][2] = c /\ phase = "loop"
      /\ Message(c) \in Accessible
  BY <1>a, <1>b, AtReading, Zenon DEF FileDone, Complete, Done, Renamed, State
<1>u. UNCHANGED <<system, user, conn, gone, wrote, took, fds, revents, socket_fds, got, dirs>>
  BY Zenon DEF FileDone, netVars
<1>2. /\ states' = [states EXCEPT ![p] = Reset(@)] /\ applied' = [applied EXCEPT ![c] = @ + 1]
      /\ Goto(idx + 1, Len(fds)) /\ obj' = Close(obj, {states[p].anon_fd})
      /\ tmp' = tmp \ {Message(c)} /\ ANON_FILES' = ANON_FILES \ {Message(c)}
  BY <1>a, <1>b, Zenon DEF FileDone, State, Closed
<1>c. files' = files \cup {Message(c)}
  <2>1. files' = files \cup ({Message(c)} \cap Accessible)
    BY <1>b, Zenon DEF FileDone
  <2> QED
    BY <1>1, <2>1, Zenon
<1>3. /\ applied[c] < Len(Script[c]) /\ applied[c] \in Nat /\ Message(c) \notin Dir
      /\ states[p].goal = Size[Message(c)]
      /\ took[c] = Upto[c][applied[c]] + HeaderLen + 1 + states[p].progress
  BY <1>1, Zenon DEF DInv, Plain, InMessage
<1>d. Message(c) \in Node
  <2>1. applied[c] + 1 \in 1..Len(Script[c])
    BY <1>3, LenScript
  <2> QED
    BY <2>1, LenScript, Zenon DEF Message
<1>4. took[c] = Upto[c][applied[c] + 1]
  <2>1. Upto[c][applied[c] + 1] = Upto[c][applied[c]] + MessageLen(Message(c))
    BY <1>3, UptoNext, Zenon DEF Message
  <2>2. Size[Message(c)] \in Nat
    BY <1>d, DaemonAssumption, Zenon
  <2>3. Upto[c][applied[c]] \in Nat /\ HeaderLen \in Nat
    BY <1>3, UptoNat, LenScript, DaemonAssumption
  <2>4. took[c] = Upto[c][applied[c]] + HeaderLen + 1 + Size[Message(c)]
    BY <1>1, <1>3, Zenon
  <2> QED
    BY <2>1, <2>2, <2>3, <2>4 DEF MessageLen
<1>5. /\ DOMAIN states' = DOMAIN states /\ \A g \in DOMAIN states : g # p => states'[g] = states[g]
  BY <1>2, Zenon
<1>6. \A d \in Client : d # c => applied'[d] = applied[d]
  BY <1>2, Zenon DEF DInv, Plain
<1>e. /\ DOMAIN obj' = DOMAIN obj \ {states[p].anon_fd}
      /\ \A fd \in DOMAIN obj' : obj'[fd] = obj[fd]
  BY <1>2, Zenon DEF Close, Restrict
<1>7. Apart
  BY <1>a, <1>b, <1>u, <1>2, <1>5, <1>6, <1>e, Zenon DEF Apart, State
<1>8. /\ Loop' /\ Polled' /\ Counting' /\ phase' \in {"poll", "loop"}
      /\ \A f, g \in DOMAIN states' : obj'[f] = obj'[g] => f = g
  BY <1>a, <1>1, <1>7, ApartKeeps, Zenon
<1>10. DOMAIN dirs' \cup files' = DOMAIN dirs \cup files \cup {Message(c)}
  BY <1>u, <1>c, Zenon
<1>11. /\ states'[p] \in ConnectionState /\ Owns(p)' /\ Framing' /\ OnDisk'
       /\ \A d \in Client :
            /\ \A i \in 1..Len(Script[d]) : i > applied'[d] + 1 => got'[Script[d][i]] = 0
            /\ conn'[d] # "accepted" /\ applied'[d] < Len(Script[d]) => got'[Message(d)'] = 0
       /\ \A g \in DOMAIN states' : Filled(g)'
       /\ applied' \in [Client -> Nat]
       /\ \A d \in Client : applied'[d] <= Len(Script[d])
  BY <1>a, <1>b, <1>u, <1>1, <1>2, <1>3, <1>4, <1>7, <1>10, MessageEnds, Zenon
<1>12. Plain'
  BY <1>u, <1>2, <1>c, <1>3, <1>d, <1>8, <1>11, Zenon DEF DInv, Plain
<1>f. FilesWhole'
  <2>1. got[Message(c)] = Size[Message(c)]
    BY <1>1, <1>3, Zenon DEF Filled
  <2> QED
    BY <1>u, <1>c, <2>1, Zenon DEF DInv, Contents, FilesWhole
<1>13. Contents'
  BY <1>11, <1>f, Zenon DEF Contents
<1>14. TempsTracked'
  BY <1>1, <1>2, <1>8, Zenon DEF DInv, TempsTracked
<1>15. \A g \in DOMAIN states' : states'[g] \in ConnectionState /\ Owns(g)'
  BY <1>a, <1>1, <1>5, <1>7, <1>11, OthersKeep
<1>16. ASSUME NEW fd \in DOMAIN obj' PROVE OpenFd(fd)'
  <2>1. OpenFd(fd) /\ conn' = conn /\ obj'[fd] = obj[fd] /\ fd # states[p].anon_fd
    BY <1>u, <1>e, Zenon DEF DInv, Table
  <2>4. ASSUME NEW g \in DOMAIN states, states[g].anon_fd = fd
        PROVE  g \in DOMAIN states' /\ states'[g].anon_fd = fd
    BY <1>5, <2>1, <2>4, Zenon
  <2> QED
    BY <1>5, <2>1, <2>4, Zenon DEF OpenFd
<1>17. Table'
  <2>1. IsFiniteSet(DOMAIN obj')
    BY <1>e, FS_Subset, Zenon DEF DInv, Table
  <2> QED
    BY <1>8, <1>15, <1>16, <2>1, Zenon DEF Table
<1> QED
  BY <1>8, <1>11, <1>12, <1>13, <1>14, <1>17, Zenon DEF DInv

LEMMA MakeTempKeeps ==
  ASSUME DInv, MakeTemp
  PROVE  DInv'
<1>a. PICK p : p = Pfd
  BY Zenon
<1>b. PICK c \in Client : c = Sender
  BY AtReading, Zenon DEF MakeTemp, Complete
<1>c. PICK new : new = NewFd
  BY Zenon
<1>d. new \in Nat /\ new >= 3 /\ new \notin DOMAIN obj
  BY <1>c, NewFdIsFree, Zenon DEF DInv, Table
<1>1. /\ Reading /\ Complete("HeaderP2") /\ p \in DOMAIN states /\ states[p] \in ConnectionState
      /\ states[p].kind = "HeaderP2" /\ Owns(p) /\ InMessage(p) /\ Message(c) \notin Dir
      /\ phase = "loop" /\ obj[p] = <<"conn", c>> /\ p \in DOMAIN obj
  BY <1>a, <1>b, AtReading, Zenon DEF MakeTemp, Complete, State
<1>u. UNCHANGED <<system, user, conn, gone, wrote, took, phase, fds, revents, idx, socket_fds,
                  got, dirs, files, applied>>
  BY Zenon DEF MakeTemp, netVars, pollVars
<1>2. /\ states' = [states EXCEPT ![p].kind = "Receiving", ![p].anon_fd = new,
                                  ![p].progress = 0, ![p].goal = Size[Message(c)]]
      /\ obj' = Bind(obj, new, <<"file", Message(c)>>)
      /\ ANON_FILES' = ANON_FILES \cup {Message(c)} /\ tmp' = tmp \cup {Message(c)}
  BY <1>a, <1>b, <1>c, Zenon DEF MakeTemp, Registered
<1>3. /\ applied[c] < Len(Script[c]) /\ applied[c] \in Nat /\ Message(c) \in Node
      /\ took[c] = Upto[c][applied[c]] + HeaderLen + 1 /\ got[Message(c)] = 0
  BY <1>b, <1>1, AtPath
<1>4. Size[Message(c)] \in Nat
  BY <1>3, DaemonAssumption, Zenon
<1>5. /\ DOMAIN states' = DOMAIN states /\ \A g \in DOMAIN states : g # p => states'[g] = states[g]
      /\ states'[p] = [states[p] EXCEPT !.kind = "Receiving", !.anon_fd = new, !.progress = 0,
                                        !.goal = Size[Message(c)]]
  BY <1>1, <1>2, Zenon
<1>6. /\ states'[p] \in ConnectionState /\ states'[p].kind = "Receiving"
      /\ states'[p].anon_fd = new /\ states'[p].progress = 0
      /\ states'[p].goal = Size[Message(c)] /\ states'[p].sock_fd = states[p].sock_fd
  <2>1. PICK z \in Nat : z = Size[Message(c)]
    BY <1>4, Zenon
  <2>2. /\ states'[p] = [states[p] EXCEPT !.kind = "Receiving", !.anon_fd = new, !.progress = 0,
                                          !.goal = z]
        /\ states[p] \in ConnectionState /\ new \in Nat
    BY <1>1, <1>5, <1>d, <2>1, Zenon
  <2>3. /\ states'[p].kind = "Receiving" /\ states'[p].anon_fd = new /\ states'[p].progress = 0
        /\ states'[p].goal = z /\ states'[p].sock_fd = states[p].sock_fd
    BY <2>2, Zenon DEF ConnectionState
  <2>4. states'[p] \in ConnectionState
    <3>1. states'[p] = [kind |-> "Receiving", perms |-> states[p].perms, progress |-> 0, goal |-> z,
                        anon_fd |-> new, sock_fd |-> states[p].sock_fd]
      BY <2>2, Zenon DEF ConnectionState
    <3>2. states[p].perms \in {0, Mode} /\ states[p].sock_fd \in Nat /\ new \in Nat \cup {-1}
      BY <2>2, Zenon DEF ConnectionState
    <3> QED
      BY <2>1, <3>1, <3>2 DEF ConnectionState
  <2> QED
    BY <2>1, <2>3, <2>4, Zenon
<1>7. /\ DOMAIN obj' = DOMAIN obj \cup {new} /\ obj'[new] = <<"file", Message(c)>>
      /\ \A fd \in DOMAIN obj : obj'[fd] = obj[fd]
  BY <1>2, <1>d, Zenon DEF Bind
<1>8. \A d : Message(d)' = Message(d)
  BY <1>u, Zenon DEF Message
<1>9. Apart
  <2>1. \A fd \in DOMAIN obj' : (fd \in DOMAIN obj /\ obj'[fd] = obj[fd]) \/ obj'[fd][1] = "file"
    BY <1>7
  <2> QED
    BY <1>a, <1>u, <1>5, <1>7, <2>1, Zenon DEF Apart
<1>10. /\ Loop' /\ Polled' /\ Counting' /\ obj'[p] = obj[p]
       /\ \A f, g \in DOMAIN states' : obj'[f] = obj'[g] => f = g
  BY <1>a, <1>1, <1>9, ApartKeeps, Zenon
<1>11. Owns(p)'
  <2>1. Aborts # {} => \/ states[p].sock_fd = 0
                       \/ /\ states[p].sock_fd \in DOMAIN obj'
                          /\ obj'[states[p].sock_fd] = <<"listen", Port[c]>>
    BY <1>1, <1>7 DEF Owns
  <2>2. obj'[p] = <<"conn", c>> /\ p \in DOMAIN obj'
    BY <1>1, <1>7, Zenon
  <2> QED
    BY <1>6, <1>7, <1>8, <2>1, <2>2 DEF Owns
<1>12. InMessage(p)'
  <2>1. obj'[p][2] = c
    BY <1>1, <1>10
  <2>2. took[c] = Upto[c][applied[c]] + HeaderLen + 1 + states'[p].progress
    <3>1. Upto[c][applied[c]] \in Nat /\ HeaderLen \in Nat
      BY <1>3, UptoNat, LenScript, DaemonAssumption
    <3> QED
      BY <1>3, <1>6, <3>1
  <2>3. states'[p].progress <= states'[p].goal
    BY <1>4, <1>6
  <2> QED
    BY <1>u, <1>1, <1>3, <1>6, <1>8, <2>1, <2>2, <2>3, Zenon DEF InMessage
<1>13. Filled(p)'
  <2>1. obj'[p][2] = c
    BY <1>1, <1>10
  <2> QED
    BY <1>u, <1>3, <1>6, <1>8, <2>1, Zenon DEF Filled
<1>14. \A g \in DOMAIN states' :
         states'[g] \in ConnectionState /\ Owns(g)' /\ InMessage(g)' /\ Filled(g)'
  BY <1>a, <1>1, <1>5, <1>6, <1>9, <1>11, <1>12, <1>13, OthersKeep, Zenon
<1>15. ASSUME NEW fd \in DOMAIN obj' PROVE OpenFd(fd)'
  <2>1. CASE fd = new
    <3>1. p \in DOMAIN states' /\ states'[p].anon_fd = fd
      BY <1>1, <1>5, <1>6, <2>1, Zenon
    <3> QED
      BY <1>3, <1>7, <1>d, <2>1, <3>1, Zenon DEF OpenFd
  <2>2. CASE fd \in DOMAIN obj
    <3>1. OpenFd(fd) /\ conn' = conn /\ obj'[fd] = obj[fd]
      BY <1>u, <1>7, <2>2, Zenon DEF DInv, Table
    <3>2. states[p].anon_fd = -1
      BY <1>1, Zenon DEF Owns
    <3>3. fd # -1
      BY <3>1 DEF OpenFd
    <3>4. ASSUME NEW g \in DOMAIN states, states[g].anon_fd = fd
          PROVE  g \in DOMAIN states' /\ states'[g].anon_fd = fd
      BY <1>5, <3>2, <3>3, <3>4, Zenon
    <3> QED
      BY <1>5, <3>1, <3>4, Zenon DEF OpenFd
  <2> QED
    BY <1>7, <2>1, <2>2, Zenon
<1>16. Table'
  <2>1. IsFiniteSet(DOMAIN obj')
    BY <1>7, FS_AddElement DEF DInv, Table
  <2> QED
    BY <1>10, <1>14, <1>15, <2>1, Zenon DEF Table
<1>17. Framing'
  BY <1>u, <1>14, Zenon DEF DInv, Framing
<1>18. Contents'
  BY <1>u, <1>8, <1>14, Zenon DEF DInv, Contents, FilesWhole
<1>19. TempsTracked'
  BY <1>u, <1>1, <1>2, Zenon DEF DInv, TempsTracked
<1>20. Plain'
  BY <1>u, <1>1, <1>2, <1>3, Zenon DEF DInv, Plain
<1> QED
  BY <1>u, <1>10, <1>16, <1>17, <1>18, <1>19, <1>20, SameDisk DEF DInv

-----------------------------------------------------------------------------
(* Every step.                                                             *)
LEMMA DaemonInductive == DInv /\ [Next]_vars => DInv'
<1> SUFFICES ASSUME DInv, [Next]_vars PROVE DInv'
  BY Zenon
<1>1. CASE UNCHANGED vars
  <2>1. UNCHANGED <<system, user, conn, gone, wrote, took, phase, fds, revents, idx, socket_fds,
                    obj, states, ANON_FILES, tmp, got, dirs, files, applied>>
    BY <1>1, Zenon DEF vars, netVars, pollVars, diskVars
  <2>2. Plain' /\ Loop'
    BY <2>1, Zenon DEF DInv, Plain, Loop
  <2> QED
    BY <2>1, <2>2, SameTable, SamePolled, SameFraming, SameContents, SameCounting, SameDisk,
       SameTemps DEF DInv
<1>2. CASE Listen
  BY <1>2, ListenKeeps, Zenon
<1>3. CASE Poll
  BY <1>3, PollKeeps, Zenon
<1>4. CASE HangUp
  BY <1>4, HangUpKeeps, Zenon
<1>5. CASE Skip
  BY <1>5, GoOnKeeps, Zenon DEF Skip
<1>6. CASE AcceptFails
  BY <1>6, EndKeeps, Zenon DEF AcceptFails, Incoming, Has
<1>7. ASSUME NEW c \in Client, Accept(c) PROVE DInv'
  BY <1>7, AcceptKeeps, Zenon
<1>8. CASE Begin
  BY <1>8, BeginKeeps, Zenon
<1>9. CASE Read
  BY <1>9, ReadKeeps, Zenon
<1>10. CASE ReadNothing
  BY <1>10, GoOnKeeps, Zenon DEF ReadNothing, Short, Reading, Incoming, Has
<1>11. CASE ReadFails
  BY <1>11, EndKeeps, Zenon DEF ReadFails, Short, Reading, Incoming, Has
<1>12. CASE HeaderDone
  BY <1>12, HeaderDoneKeeps, Zenon
<1>13. CASE MakeDir
  BY <1>13, MakeDirKeeps, Zenon
<1>14. CASE MakeTemp
  BY <1>14, MakeTempKeeps, Zenon
<1>15. CASE FileDone
  BY <1>15, FileDoneKeeps, Zenon
<1>16. CASE DiskFails
  BY <1>16, EndKeeps, Zenon DEF DiskFails, Complete, Reading, Incoming, Has
<1>17. ASSUME NEW c \in Client, ClientStep(c) \/ Leave(c) PROVE DInv'
  BY <1>17, ConnectKeeps, SendKeeps, LeaveKeeps, Zenon DEF ClientStep
<1>18. CASE Waits
  BY <1>1, <1>18, Zenon DEF Waits
<1>19. CASE PollFails
  BY <1>19, EndKeeps, Zenon DEF PollFails
<1> QED
  BY <1>1, <1>2, <1>3, <1>4, <1>5, <1>6, <1>7, <1>8, <1>9, <1>10, <1>11, <1>12, <1>13, <1>14,
     <1>15, <1>16, <1>17, <1>18, <1>19 DEF Next, DaemonStep

LEMMA DaemonInvariant == Spec => []DInv
BY InitDaemon, DaemonInductive, PTL DEF Spec

-----------------------------------------------------------------------------
(* The variables have their types whatever the clients send, and the loop  *)
(* never runs past the vectors that it changes.                            *)
THEOREM DaemonTypes == Spec => []TypeOK
<1>1. DInv => TypeOK
  <2> SUFFICES ASSUME DInv PROVE TypeOK
    BY Zenon
  <2>1. ASSUME NEW fd \in DOMAIN obj PROVE fd \in Nat /\ obj[fd] \in Object
    <3>1. OpenFd(fd)
      BY Zenon DEF DInv, Table
    <3>2. CASE obj[fd] = <<"listen", fd - 3>>
      <4>1. fd \in Nat /\ fd - 3 \in Nat
        BY <3>1 DEF OpenFd
      <4> QED
        BY <3>2, <4>1 DEF Object
    <3>3. CASE obj[fd] # <<"listen", fd - 3>>
      BY <3>1, <3>3 DEF OpenFd, Object
    <3> QED
      BY <3>2, <3>3, Zenon
  <2>2. ASSUME NEW c \in Client PROVE applied[c] \in 0..Len(Script[c])
    BY LenScript DEF DInv, Plain
  <2>3. \A fd \in DOMAIN states : states[fd] \in ConnectionState
    BY Zenon DEF DInv, Table
  <2> QED
    BY <2>1, <2>2, <2>3 DEF DInv, Plain, Loop, TypeOK
<1> QED
  BY <1>1, DaemonInvariant, PTL

(* A file has its own name only when all of it has been received: the      *)
(* rename in move_anonfile comes after the last of the contents, whoever   *)
(* hangs up in between.                                                    *)
THEOREM FilesAreWhole == Spec => []FilesWhole
<1>1. DInv => FilesWhole
  BY Zenon DEF DInv, Contents
<1> QED
  BY <1>1, DaemonInvariant, PTL

(* No connection ever loses its place: what has been read from it is what  *)
(* was applied and the part of the current message its state says.         *)
THEOREM FramingIsKept == Spec => []InStep
<1>1. DInv => InStep
  <2> SUFFICES ASSUME DInv, NEW fd \in DOMAIN states, NEW c, c = obj[fd][2]
               PROVE  took[c] = Upto[c][applied[c]] + states[fd].progress +
                                  (IF states[fd].kind = "Receiving" THEN HeaderLen + 1 ELSE 0)
    BY Zenon DEF InStep
  <2>1. states[fd] \in ConnectionState /\ Owns(fd) /\ InMessage(fd)
    BY Zenon DEF DInv, Table, Framing
  <2>2. c \in Client
    BY <2>1, Zenon DEF Owns
  <2>3. applied[c] \in 0..Len(Script[c])
    BY <2>2, LenScript DEF DInv, Plain
  <2>4. PICK u \in Nat : u = Upto[c][applied[c]]
    BY <2>2, <2>3, UptoNat, Zenon
  <2>5. PICK q \in Nat : q = states[fd].progress
    BY <2>1, Zenon DEF ConnectionState
  <2>6. HeaderLen \in Nat
    BY DaemonAssumption, Zenon
  <2>7. CASE states[fd].kind = "Receiving"
    <3>1. took[c] = u + HeaderLen + 1 + q
      BY <2>1, <2>4, <2>5, <2>7 DEF InMessage
    <3>2. took[c] = u + q + (HeaderLen + 1)
      BY <2>6, <3>1
    <3> QED
      BY <2>4, <2>5, <2>7, <3>2, Zenon
  <2>8. CASE states[fd].kind = "Connected"
    <3>1. took[c] = u /\ q <= 0
      BY <2>1, <2>4, <2>5, <2>8, Zenon DEF InMessage
    <3>2. took[c] = u + q + 0
      BY <3>1
    <3> QED
      BY <2>4, <2>5, <2>8, <3>2, Zenon
  <2>9. CASE states[fd].kind \in {"HeaderP1", "HeaderP2"}
    <3>1. took[c] = u + q
      BY <2>1, <2>4, <2>5, <2>9 DEF InMessage
    <3>2. took[c] = u + q + 0
      BY <3>1
    <3> QED
      BY <2>4, <2>5, <2>9, <3>2, Zenon
  <2> QED
    BY <2>1, <2>7, <2>8, <2>9, Zenon DEF ConnectionState
<1> QED
  BY <1>1, DaemonInvariant, PTL

(* What is on disk is what was applied, each connection in its order.      *)
THEOREM DiskIsApplied == Spec => []OnDisk
<1>1. DInv => OnDisk
  BY Zenon DEF DInv
<1> QED
  BY <1>1, DaemonInvariant, PTL

(* ANON_FILES is exact while the daemon runs, so that one that returns     *)
(* leaves no temporary file behind.                                        *)
THEOREM TempsAreTracked == Spec => []TempsTracked
<1>1. DInv => TempsTracked
  BY Zenon DEF DInv
<1> QED
  BY <1>1, DaemonInvariant, PTL

(* Every open descriptor is polled or belongs to a connection's state.     *)
THEOREM NoDescriptorLeaks == Spec => []NoFdLeak
<1>1. DInv => NoFdLeak
  <2> SUFFICES ASSUME DInv, NEW fd \in DOMAIN obj
               PROVE  IF obj[fd][1] = "file"
                      THEN \E s \in DOMAIN states : states[s].anon_fd = fd
                      ELSE fd \in Range(fds)
    BY Zenon DEF NoFdLeak
  <2>1. CASE obj[fd][1] = "file"
    <3>1. OpenFd(fd)
      BY Zenon DEF DInv, Table
    <3> QED
      BY <2>1, <3>1 DEF OpenFd
  <2>2. CASE obj[fd][1] # "file"
    <3>1. \E i \in DOMAIN fds : fds[i] = fd
      BY <2>2, Zenon DEF DInv, Polled
    <3> QED
      BY <2>2, <3>1, Zenon DEF Range
  <2> QED
    BY <2>1, <2>2, Zenon
<1> QED
  BY <1>1, DaemonInvariant, PTL

(* The daemon accepts at most one connection more than n_conns: the check  *)
(* of fds.size() comes one connection late, and no later.                  *)
THEOREM AtMostOneTooMany == Spec => []AtMostOneMore
<1>1. DInv => AtMostOneMore
  <2> SUFFICES ASSUME DInv PROVE Cardinality(Accepted) <= NConns + 1
    BY Zenon DEF AtMostOneMore
  <2>1. CASE Aborts = {}
    BY <2>1, Zenon DEF DInv, Counting
  <2>2. CASE Aborts # {}
    <3> DEFINE port == [c \in Accepted |-> Port[c]]
    <3>1. Accepted \subseteq Client
      BY Zenon DEF Accepted
    <3>2. \A c \in Accepted : Port[c] \in 0..(NConns - 1)
      BY <2>2, <3>1, DaemonAssumption DEF DInv, Counting
    <3>3. port \in [Accepted -> 0..(NConns - 1)]
      BY <3>2, Zenon
    <3>4. IsInjective(port)
      BY <2>2, <3>1, DaemonAssumption, Zenon DEF IsInjective
    <3>5. port \in Injection(Accepted, 0..(NConns - 1))
      BY <3>3, <3>4, Zenon DEF Injection
    <3> HIDE DEF port
    <3>6. IsFiniteSet(0..(NConns - 1)) /\ Cardinality(0..(NConns - 1)) <= NConns
      <4>1. NConns - 1 \in Int /\ 0 \in Int /\ NConns \in Nat
        BY DaemonAssumption
      <4>2. /\ IsFiniteSet(0..(NConns - 1))
            /\ Cardinality(0..(NConns - 1)) = IF 0 > NConns - 1 THEN 0 ELSE (NConns - 1) - 0 + 1
        BY <4>1, FS_Interval, Zenon
      <4> QED
        BY <4>1, <4>2
    <3>7. /\ Cardinality(Accepted) <= Cardinality(0..(NConns - 1)) /\ IsFiniteSet(Accepted)
      BY <3>5, <3>6, FS_Injection, Zenon
    <3>8. Cardinality(Accepted) \in Nat /\ Cardinality(0..(NConns - 1)) \in Nat /\ NConns \in Nat
      BY <3>6, <3>7, FS_CardinalityType, DaemonAssumption, Zenon
    <3> QED
      BY <3>6, <3>7, <3>8
  <2> QED
    BY <2>1, <2>2, Zenon
<1> QED
  BY <1>1, DaemonInvariant, PTL
=============================================================================
