----------------------------- MODULE IOProofs -------------------------------
(***************************************************************************)
(* The two channels, each for itself: the functions of enu/net.h over a    *)
(* stream, for every size of the kernel's buffer and of a chunk; and the   *)
(* queue in shared memory, for every size of the ring and every number at  *)
(* which its counters wrap.                                                *)
(***************************************************************************)
EXTENDS NetIO, ShmQueue, TLAPS

-----------------------------------------------------------------------------
(* net.h.                                                                  *)

(* Counted and OkIsWhole lean on one more fact: an end is closed only      *)
(* between two calls, so that nothing is written after the end of stream.  *)
NetInv ==
  /\ NetTypeOK /\ Counted /\ OkIsWhole
  /\ \A e \in Ends : call[e].state = "running" => open[e]

LEMMA ChunkBound ==
  ASSUME NetTypeOK, NEW e \in Ends, InLoop(e)
  PROVE  Chunk(e) \in Nat /\ call[e].off + Chunk(e) <= call[e].len
BY NetAssumption DEF NetTypeOK, InLoop, Chunk

(* The invariant holds at the start.                                       *)
LEMMA NetInvInit == NetInit => NetInv
BY NetAssumption DEF NetInit, NetInv, NetTypeOK, Counted, OkIsWhole, Ends, IOKind

(* A call that begins moves nothing yet.                                   *)
LEMMA CallKeeps ==
  ASSUME NetInv, NEW e \in Ends, Call(e)
  PROVE  NetInv'
<1>1. PICK exact \in BOOLEAN, len \in Lens :
        call' = [call EXCEPT ![e] = [exact |-> exact, len |-> len, off |-> 0, start |-> moved[e],
                                     state |-> "running"]]
  BY Zenon DEF Call
<1>2. len \in Nat
  BY NetAssumption, Zenon
<1>3. open[e] /\ UNCHANGED <<open, moved>>
  BY Zenon DEF Call
<1>4. NetTypeOK'
  BY <1>1, <1>2, <1>3, Zenon DEF NetInv, NetTypeOK, IOKind
<1>5. Counted'
  BY <1>1, <1>2, <1>3 DEF NetInv, NetTypeOK, Counted
<1>6. OkIsWhole'
  BY <1>1, <1>2, <1>3, Zenon DEF NetInv, NetTypeOK, OkIsWhole
<1>7. (\A x \in Ends : call[x].state = "running" => open[x])'
  BY <1>1, <1>2, <1>3, Zenon DEF NetInv, NetTypeOK
<1> QED
  BY <1>4, <1>5, <1>6, <1>7, Zenon DEF NetInv

(* A round of the loop moves n bytes at one end and counts them there.     *)
LEMMA TransferKeeps ==
  ASSUME NetInv, NEW e \in Ends, Transfer(e)
  PROVE  NetInv'
<1>1. PICK n \in 1..Chunk(e) :
        /\ n <= Available(e)
        /\ call' = [call EXCEPT ![e].off = @ + n]
        /\ moved' = [moved EXCEPT ![e] = @ + n]
  BY Zenon DEF Transfer
<1>2. InLoop(e) /\ UNCHANGED open
  BY Zenon DEF Transfer
<1>3. n \in Nat /\ n > 0 /\ call[e].off + n <= call[e].len
  BY <1>2, ChunkBound DEF NetInv, NetTypeOK
<1>4. NetTypeOK'
  BY <1>1, <1>2, <1>3 DEF NetInv, NetTypeOK
<1>5. Counted'
  <2>1. \A x \in Ends : call'[x].start = call[x].start /\ call'[x].len = call[x].len
    BY <1>1, Zenon DEF NetInv, NetTypeOK
  <2>2. \A x \in Ends : x # e => moved'[x] = moved[x] /\ call'[x].off = call[x].off
    BY <1>1, Zenon DEF NetInv, NetTypeOK
  <2>3. moved'[e] = moved[e] + n /\ call'[e].off = call[e].off + n
    BY <1>1, Zenon DEF NetInv, NetTypeOK
  <2>4. \A x \in Ends : moved'[x] = call'[x].start + call'[x].off /\ call'[x].off <= call'[x].len
    BY <1>3, <2>1, <2>2, <2>3 DEF NetInv, NetTypeOK, Counted
  <2>5. moved'["rd"] <= moved'["wr"] /\ moved'["wr"] <= moved'["rd"] + Capacity
    BY <1>1, <1>3, <2>2, <2>3, NetAssumption DEF NetInv, NetTypeOK, Counted, Available, Ends
  <2> QED
    BY <2>4, <2>5, Zenon DEF Counted
<1>6. OkIsWhole'
  <2>1. call[e].state = "running" /\ open[e]
    BY <1>2, Zenon DEF InLoop, NetInv
  <2>2. \A x \in Ends : call'[x].state = call[x].state /\ call'[x].exact = call[x].exact
    BY <1>1, Zenon DEF NetInv, NetTypeOK
  <2>3. SUFFICES ASSUME NEW x \in Ends, call'[x].state = "Ok", call'[x].off # call'[x].len
                 PROVE  x = "rd" /\ ~call'[x].exact /\ ~open'["wr"] /\ moved'["rd"] = moved'["wr"]
    BY Zenon DEF OkIsWhole
  <2>4. x # e
    BY <2>1, <2>2, <2>3, Zenon
  <2>5. call'[x] = call[x]
    BY <1>1, <2>4, Zenon DEF NetInv, NetTypeOK
  <2>6. x = "rd" /\ ~call[x].exact /\ ~open["wr"] /\ moved["rd"] = moved["wr"]
    BY <2>3, <2>5, Zenon DEF NetInv, OkIsWhole
  <2>7. e = "wr"
    BY <2>4, <2>6, Zenon DEF Ends
  <2> QED
    BY <2>1, <2>6, <2>7, Zenon
<1>7. (\A x \in Ends : call[x].state = "running" => open[x])'
  BY <1>1, <1>2, Zenon DEF NetInv, NetTypeOK
<1> QED
  BY <1>4, <1>5, <1>6, <1>7, Zenon DEF NetInv

(* What a call that returns leaves: only a read at the end of the stream   *)
(* may be short and Ok.                                                    *)
LEMMA ReturnKeeps ==
  ASSUME NetInv, NEW e \in Ends, NEW kind \in IOKind, Return(e, kind), call[e].state = "running",
         kind = "Ok" /\ call[e].off # call[e].len =>
           e = "rd" /\ ~open["wr"] /\ moved["rd"] = moved["wr"]
  PROVE  NetInv'
<1>1. call' = [call EXCEPT ![e].state = Kind(call[e], kind)] /\ UNCHANGED <<open, moved>>
  BY Zenon DEF Return
<1>2. Kind(call[e], kind) \in IOKind
  BY Zenon DEF Kind, IOKind
<1>3. NetTypeOK'
  BY <1>1, <1>2 DEF NetInv, NetTypeOK
<1>4. Counted'
  BY <1>1 DEF NetInv, NetTypeOK, Counted
<1>5. OkIsWhole'
  <2>1. CASE Kind(call[e], kind) = "Ok"
    <3>1. kind = "Ok" /\ (call[e].exact => call[e].off = call[e].len)
      BY <2>1, Zenon DEF Kind
    <3> QED
      BY <1>1, <3>1 DEF NetInv, NetTypeOK, OkIsWhole
  <2>2. CASE Kind(call[e], kind) # "Ok"
    BY <1>1, <2>2, Zenon DEF NetInv, NetTypeOK, OkIsWhole
  <2> QED
    BY <2>1, <2>2, Zenon
<1>6. (\A x \in Ends : call[x].state = "running" => open[x])'
  BY <1>1, <1>2, Zenon DEF NetInv, NetTypeOK, IOKind
<1> QED
  BY <1>3, <1>4, <1>5, <1>6, Zenon DEF NetInv

(* An end is closed between calls; the stream does not change.             *)
LEMMA CloseKeeps ==
  ASSUME NetInv, NEW e \in Ends, CloseEnd(e)
  PROVE  NetInv'
<1>1. call[e].state # "running" /\ open' = [open EXCEPT ![e] = FALSE] /\ UNCHANGED <<call, moved>>
  BY Zenon DEF CloseEnd
<1>2. NetTypeOK' /\ Counted'
  BY <1>1, Zenon DEF NetInv, NetTypeOK, Counted
<1>3. OkIsWhole'
  BY <1>1, Zenon DEF NetInv, NetTypeOK, OkIsWhole, Ends
<1>4. (\A x \in Ends : call[x].state = "running" => open[x])'
  BY <1>1, Zenon DEF NetInv, NetTypeOK
<1> QED
  BY <1>2, <1>3, <1>4, Zenon DEF NetInv

(* Every step of the specification.                                        *)
LEMMA NetInductive == NetSpec => []NetInv
<1>1. NetInv /\ [NetNext]_netVars => NetInv'
  <2> SUFFICES ASSUME NetInv, [NetNext]_netVars PROVE NetInv'
    BY Zenon
  <2>1. CASE UNCHANGED netVars
    BY <2>1, Zenon DEF netVars, NetInv, NetTypeOK, Counted, OkIsWhole
  <2>2. CASE Over
    BY <2>2, Zenon DEF Over, netVars, NetInv, NetTypeOK, Counted, OkIsWhole
  <2>3. ASSUME NEW e \in Ends, Call(e) PROVE NetInv'
    BY <2>3, CallKeeps, Zenon
  <2>4. ASSUME NEW e \in Ends, Transfer(e) PROVE NetInv'
    BY <2>4, TransferKeeps, Zenon
  <2>5. ASSUME NEW e \in Ends, Done(e) PROVE NetInv'
    <3>1. call[e].off = call[e].len
      BY <2>5 DEF Done, InLoop, NetInv, NetTypeOK, Counted
    <3> QED
      BY <2>5, <3>1, ReturnKeeps, Zenon DEF Done, IOKind
  <2>6. ASSUME NEW e \in Ends, Zero(e) PROVE NetInv'
    <3>1. e = "rd" /\ ~open["wr"] /\ moved["rd"] = moved["wr"]
      BY <2>6 DEF Zero, Available, NetInv, NetTypeOK, Ends
    <3> QED
      BY <2>6, <3>1, ReturnKeeps, Zenon DEF Zero, InLoop, IOKind
  <2>7. ASSUME NEW e \in Ends, Error(e) PROVE NetInv'
    BY <2>7, ReturnKeeps, Zenon DEF Error, InLoop, IOKind
  <2>8. ASSUME NEW e \in Ends, CloseEnd(e) PROVE NetInv'
    BY <2>8, CloseKeeps, Zenon
  <2> QED
    BY <2>1, <2>2, <2>3, <2>4, <2>5, <2>6, <2>7, <2>8, Zenon DEF NetNext, GoesOn
<1> QED
  BY NetInvInit, <1>1, PTL DEF NetSpec

(* read_exact and write_exact never answer Ok for less than was asked, and *)
(* a short Ok read is at the end of the stream: for any buffer, chunk size *)
(* and lengths.                                                            *)
THEOREM OkMeansWhole == NetSpec => []OkIsWhole
<1>1. NetInv => OkIsWhole
  BY Zenon DEF NetInv
<1> QED
  BY <1>1, NetInductive, PTL

(* n_bytes is exactly what a call moved, whether it failed or not, and the *)
(* stream neither loses bytes nor holds more than its buffer does.         *)
THEOREM BytesAreCounted == NetSpec => []Counted
<1>1. NetInv => Counted
  BY Zenon DEF NetInv
<1> QED
  BY <1>1, NetInductive, PTL

-----------------------------------------------------------------------------
(* The queue.                                                              *)

(* The slot of the k-th value.                                             *)
Slot(k) == (k % Wrap) % Size

LEMMA ModIsIn == ASSUME NEW x \in Nat, NEW m \in Nat, m > 0 PROVE x % m \in 0..(m - 1)
BY Z3

LEMMA DivMod ==
  ASSUME NEW x \in Nat, NEW m \in Nat, m > 0
  PROVE  x \div m \in Nat /\ x = m * (x \div m) + (x % m)
BY Z3

LEMMA ModOf ==
  ASSUME NEW x \in Nat, NEW m \in Nat, m > 0, NEW q \in Nat, NEW r \in Nat, r < m, x = m * q + r
  PROVE  x % m = r
BY Z3

(* A multiple of m less than m away from zero is zero.                     *)
LEMMA SmallMultiple ==
  ASSUME NEW m \in Nat, m > 0, NEW q \in Int, NEW d \in Int, d = m * q, -m < d, d < m
  PROVE  d = 0
<1>1. CASE q >= 1
  BY <1>1, Z3
<1>2. CASE q <= -1
  BY <1>2, Z3
<1>3. CASE q = 0
  BY <1>3, Z3
<1> QED
  BY <1>1, <1>2, <1>3

(* Counting on modulo m.                                                   *)
LEMMA NextMod ==
  ASSUME NEW x \in Nat, NEW m \in Nat, m > 0
  PROVE  ((x % m) + 1) % m = (x + 1) % m
<1> DEFINE q == x \div m
           r == x % m
<1>1. q \in Nat /\ r \in 0..(m - 1) /\ x = m * q + r
  BY DivMod, ModIsIn, Zenon
<1> HIDE DEF q, r
<1>2. CASE r + 1 < m
  <2>1. x + 1 = m * q + (r + 1)
    BY <1>1, Z3
  <2>2. (x + 1) % m = r + 1
    BY <1>1, <1>2, <2>1, ModOf
  <2>3. r + 1 = m * 0 + (r + 1)
    BY <1>1, Z3
  <2>4. (r + 1) % m = r + 1
    BY <1>1, <1>2, <2>3, ModOf
  <2> QED
    BY <2>2, <2>4, Zenon DEF r
<1>3. CASE r + 1 = m
  <2>1. x + 1 = m * (q + 1) + 0
    BY <1>1, <1>3, Z3
  <2>2. (x + 1) % m = 0
    BY <1>1, <2>1, ModOf
  <2>3. r + 1 = m * 1 + 0
    BY <1>1, <1>3, Z3
  <2>4. (r + 1) % m = 0
    BY <1>1, <2>3, ModOf
  <2> QED
    BY <2>2, <2>4, Zenon DEF r
<1> QED
  BY <1>1, <1>2, <1>3

(* Equal residues differ by a multiple.                                    *)
LEMMA SameMod ==
  ASSUME NEW a \in Nat, NEW b \in Nat, NEW m \in Nat, m > 0, a % m = b % m
  PROVE  \E q \in Int : b - a = m * q
<1>1. b - a = m * ((b \div m) - (a \div m))
  <2> DEFINE qa == a \div m
             qb == b \div m
             r == a % m
  <2>1. a = m * qa + r /\ b = m * qb + r /\ qa \in Nat /\ qb \in Nat /\ r \in Nat
    BY DivMod, ModIsIn
  <2> HIDE DEF qa, qb, r
  <2>2. b - a = m * (qb - qa)
    BY <2>1, Z3
  <2> QED
    BY <2>2, Zenon DEF qa, qb
<1>2. (b \div m) - (a \div m) \in Int
  BY DivMod
<1> QED
  BY <1>1, <1>2, Zenon

LEMMA WrapPositive == Wrap \in Nat /\ Wrap > 0
BY ShmAssumption

LEMMA SafeLagBound == SafeLag \in Nat /\ 0 < SafeLag /\ SafeLag <= Size
BY ShmAssumption, ModIsIn DEF SafeLag

(* Two values less than SafeLag apart have different slots, also when the  *)
(* counters wrap between them.                                             *)
LEMMA SlotsDiffer ==
  ASSUME NEW a \in Nat, NEW b \in Nat, a < b, b - a < SafeLag
  PROVE  Slot(a) # Slot(b)
<1> DEFINE x == a % Wrap
           y == b % Wrap
           d == b - a
<1>1. x \in 0..(Wrap - 1) /\ y \in 0..(Wrap - 1)
  BY ModIsIn, ShmAssumption
<1>2. d \in Nat /\ 0 < d /\ d < Size /\ d < Wrap
  BY SafeLagBound, ShmAssumption
<1>3. PICK q \in Int : (b - y) - (a - x) = Wrap * q
  <2>1. a = Wrap * (a \div Wrap) + x /\ b = Wrap * (b \div Wrap) + y
    BY DivMod, ShmAssumption
  <2>2. a \div Wrap \in Nat /\ b \div Wrap \in Nat
    BY DivMod, ShmAssumption
  <2> DEFINE qa == a \div Wrap
             qb == b \div Wrap
  <2>3. a = Wrap * qa + x /\ b = Wrap * qb + y /\ qa \in Nat /\ qb \in Nat
    BY <2>1, <2>2, Zenon
  <2> HIDE DEF qa, qb, x, y
  <2>4. (b - y) - (a - x) = Wrap * (qb - qa)
    BY <2>3, <1>1, ShmAssumption, Z3
  <2> QED
    BY <2>3, <2>4
<1> HIDE DEF x, y
<1>4. q = 0 \/ q = 1
  <2>1. Wrap * q = d + x - y
    BY <1>1, <1>3
  <2>2. -Wrap < d + x - y /\ d + x - y < 2 * Wrap
    BY <1>1, <1>2, ShmAssumption
  <2>3. CASE q <= -1
    BY <2>1, <2>2, <2>3, <1>1, <1>2, ShmAssumption, Z3
  <2>4. CASE q >= 2
    BY <2>1, <2>2, <2>4, <1>1, <1>2, ShmAssumption, Z3
  <2> QED
    BY <2>3, <2>4
<1>5. SUFFICES ASSUME x % Size = y % Size PROVE FALSE
  BY Zenon DEF Slot, x, y
<1>6. PICK p \in Int : y - x = Size * p
  <2>1. x \in Nat /\ y \in Nat /\ Size \in Nat /\ Size > 0
    BY <1>1, ShmAssumption
  <2> QED
    BY ONLY <2>1, <1>5, SameMod, Zenon
<1>7. CASE q = 0
  <2>1. d = Size * p
    BY <1>1, <1>3, <1>6, <1>7, ShmAssumption, Z3
  <2> QED
    BY <1>2, <2>1, SmallMultiple, ShmAssumption
<1>8. CASE q = 1
  <2> DEFINE w == Wrap \div Size
             rho == Wrap % Size
  <2>1. Wrap = Size * w + rho /\ w \in Nat /\ rho \in 0..(Size - 1)
    BY DivMod, ModIsIn, ShmAssumption, Zenon
  <2>2. d = Wrap + (y - x)
    BY <1>1, <1>3, <1>8, ShmAssumption, Z3
  <2> HIDE DEF w
  <2>3. d - rho = Size * (w + p)
    <3> HIDE DEF rho, d
    <3>1. d = Size * w + rho + Size * p
      BY <2>1, <2>2, <1>6, Zenon
    <3>2. Size * w + Size * p = Size * (w + p)
      BY <2>1, <1>6, ShmAssumption, Z3
    <3> QED
      BY <3>1, <3>2, <2>1, <1>6, ShmAssumption, Z3
  <2>4. CASE rho = 0
    BY <2>3, <2>4, <2>1, <1>2, SmallMultiple, ShmAssumption
  <2>5. CASE rho # 0
    <3>1. d < rho
      BY <2>5, Zenon DEF SafeLag
    <3>2. d - rho \in Int /\ w + p \in Int /\ -Size < d - rho /\ d - rho < Size
      BY <3>1, <2>1, <1>2, ShmAssumption
    <3>3. d - rho = 0
      BY <3>2, <2>3, SmallMultiple, ShmAssumption
    <3> QED
      BY <3>1, <3>3, <2>1, <1>2
  <2> QED
    BY <2>4, <2>5, Zenon
<1> QED
  BY <1>4, <1>7, <1>8, Zenon

-----------------------------------------------------------------------------
(* Where the counters are, and what is in the buffer: the values less than *)
(* SafeLag behind, and the one being pushed.                               *)
ShmInv ==
  /\ ShmTypeOK
  /\ head_ = pushed % Wrap
  /\ \A r \in Reader :
       /\ reader[r].tail = reader[r].pos % Wrap /\ reader[r].pos <= pushed
       /\ reader[r].at = "news" => reader[r].pos < pushed
  /\ \A k \in Nat : k < pushed /\ pushed - k < SafeLag => buf_[Slot(k)] = k
  /\ writer = "stored" => buf_[Slot(pushed)] = pushed
  /\ PopRight /\ NothingNew

LEMMA SlotIsIn == ASSUME NEW k \in Nat PROVE k % Wrap \in Nat /\ Slot(k) \in 0..(Size - 1)
<1>1. k % Wrap \in Nat
  BY ModIsIn, ShmAssumption
<1> QED
  BY <1>1, ModIsIn, ShmAssumption, Zenon DEF Slot

LEMMA ShmInvInit == ShmInit => ShmInv
<1> SUFFICES ASSUME ShmInit PROVE ShmInv
  BY Zenon
<1>1. 0 % Wrap = 0
  BY ModOf, ShmAssumption
<1>2. ShmTypeOK
  BY ShmAssumption DEF ShmInit, ShmTypeOK, Out
<1>3. PopRight /\ NothingNew
  BY Zenon DEF ShmInit, PopRight, NothingNew
<1> QED
  BY <1>1, <1>2, <1>3 DEF ShmInit, ShmInv

(* The slot that push overwrites is none of those that must keep.          *)
LEMMA PushKeeps ==
  ASSUME ShmInv, Push
  PROVE  ShmInv'
<1> USE DEF ShmInv
<1>1. head_ % Size = Slot(pushed) /\ PushSlot(head_) = Slot(pushed) /\ pushed \in Nat
  BY Zenon DEF Slot, PushSlot, ShmTypeOK
<1>2. UNCHANGED <<order, mapped, head_, pushed, reader>>
  BY Zenon DEF Push
<1>3. ShmTypeOK'
  <2>1. Slot(pushed) \in 0..(Size - 1) /\ ShmTypeOK
    BY <1>1, SlotIsIn, Zenon
  <2>2. buf_' \in [0..(Size - 1) -> Int]
    BY ONLY <1>1, <2>1, Push DEF Push, ShmTypeOK
  <2>3. writer' \in {"idle", "stored", "fault"}
    BY ONLY Push, Zenon DEF Push
  <2> QED
    BY ONLY <1>2, <2>1, <2>2, <2>3, Zenon DEF ShmTypeOK
<1>4. (\A k \in Nat : k < pushed /\ pushed - k < SafeLag => buf_[Slot(k)] = k)'
  <2>1. SUFFICES ASSUME NEW k \in Nat, k < pushed, pushed - k < SafeLag PROVE buf_'[Slot(k)] = k
    BY <1>2, Zenon DEF SafeLag, Slot
  <2>2. Slot(k) # Slot(pushed) /\ buf_[Slot(k)] = k /\ Slot(k) \in 0..(Size - 1)
    BY <1>1, <2>1, SlotsDiffer, SlotIsIn, Zenon
  <2> QED
    BY <1>1, <2>2, Zenon DEF Push, ShmTypeOK
<1>5. (writer = "stored" => buf_[Slot(pushed)] = pushed)'
  <2>1. Slot(pushed) \in 0..(Size - 1) /\ buf_ \in [0..(Size - 1) -> Int]
    BY <1>1, SlotIsIn, Zenon DEF ShmTypeOK
  <2>2. writer' = "stored" => buf_'[Slot(pushed)] = pushed
    BY ONLY <1>1, <2>1, Push, Zenon DEF Push
  <2> QED
    BY ONLY <1>2, <2>2, Zenon DEF Slot
<1>6. PopRight' /\ NothingNew'
  BY <1>2, Zenon DEF PopRight, NothingNew, SafeLag
<1>7. head_' = pushed' % Wrap
  BY <1>2, Zenon
<1>8. (\A r \in Reader :
         /\ reader[r].tail = reader[r].pos % Wrap /\ reader[r].pos <= pushed
         /\ reader[r].at = "news" => reader[r].pos < pushed)'
  BY <1>2, Zenon
<1> QED
  BY <1>3, <1>4, <1>5, <1>6, <1>7, <1>8, Zenon

LEMMA PublishKeeps ==
  ASSUME ShmInv, Publish
  PROVE  ShmInv'
<1> USE DEF ShmInv
<1>1. pushed \in Nat /\ pushed' = pushed + 1 /\ writer' = "idle" /\ writer = "stored"
  BY Zenon DEF Publish, ShmTypeOK
<1>2. UNCHANGED <<order, mapped, buf_, reader>>
  BY Zenon DEF Publish
<1>3. head_' = pushed' % Wrap
  <2>1. head_ = pushed % Wrap /\ head_' = (head_ + 1) % Wrap
    BY Zenon DEF Publish
  <2>2. ((pushed % Wrap) + 1) % Wrap = (pushed + 1) % Wrap
    BY ONLY <1>1, NextMod, WrapPositive, Zenon
  <2> QED
    BY ONLY <1>1, <2>1, <2>2, Zenon
<1>4. ShmTypeOK'
  BY <1>1, <1>2, <1>3, ModIsIn, ShmAssumption DEF ShmTypeOK
<1>5. (\A k \in Nat : k < pushed /\ pushed - k < SafeLag => buf_[Slot(k)] = k)'
  <2>1. SUFFICES ASSUME NEW k \in Nat, k < pushed + 1, pushed + 1 - k < SafeLag PROVE buf_[Slot(k)] = k
    BY <1>1, <1>2 DEF SafeLag, Slot
  <2>2. CASE k = pushed
    BY <1>1, <2>2, Zenon
  <2>3. CASE k < pushed
    BY <1>1, <2>1, <2>3, SafeLagBound
  <2> QED
    BY <1>1, <2>1, <2>2, <2>3
<1>6. PopRight' /\ NothingNew'
  BY <1>2, Zenon DEF PopRight, NothingNew, SafeLag
<1>7. (\A r \in Reader :
         /\ reader[r].tail = reader[r].pos % Wrap /\ reader[r].pos <= pushed
         /\ reader[r].at = "news" => reader[r].pos < pushed)'
  BY <1>1, <1>2 DEF ShmTypeOK
<1> QED
  BY <1>1, <1>3, <1>4, <1>5, <1>6, <1>7, Zenon

(* What a step of a reader must show: the rest of the queue stays.         *)
LEMMA ReaderKeeps ==
  ASSUME ShmInv, UNCHANGED <<order, mapped, head_, buf_, writer, pushed>>,
         NEW r \in Reader, NEW x \in [tail : Nat, pos : Nat, at : {"idle", "news"}, out : Out],
         reader' = [reader EXCEPT ![r] = x],
         x.tail = x.pos % Wrap, x.pos <= pushed, x.at = "news" => x.pos < pushed,
         x.out.news /\ x.out.lag < SafeLag /\ order = "tso" => x.out.val = x.out.pos,
         ~x.out.news /\ x.out.lag < Wrap => x.out.lag = 0
  PROVE  ShmInv'
<1> USE DEF ShmInv
<1>1. \A s \in Reader : reader'[s] = IF s = r THEN x ELSE reader[s]
  BY Zenon DEF ShmTypeOK
<1>2. ShmTypeOK'
  BY Zenon DEF ShmTypeOK
<1>3. PopRight' /\ NothingNew'
  BY <1>1 DEF PopRight, NothingNew, SafeLag
<1>4. (\A s \in Reader :
         /\ reader[s].tail = reader[s].pos % Wrap /\ reader[s].pos <= pushed
         /\ reader[s].at = "news" => reader[s].pos < pushed)'
  BY <1>1
<1>5. (\A k \in Nat : k < pushed /\ pushed - k < SafeLag => buf_[Slot(k)] = k)'
  BY Zenon DEF SafeLag, Slot
<1>6. (writer = "stored" => buf_[Slot(pushed)] = pushed)'
  BY Zenon DEF Slot
<1> QED
  BY <1>2, <1>3, <1>4, <1>5, <1>6, Zenon

LEMMA AttachKeeps ==
  ASSUME ShmInv, NEW r \in Reader, Attach(r)
  PROVE  ShmInv'
<1> DEFINE x == [reader[r] EXCEPT !.tail = head_, !.pos = pushed]
<1>1. reader' = [reader EXCEPT ![r] = x] /\ UNCHANGED <<order, mapped, head_, buf_, writer, pushed>>
  BY Zenon DEF Attach
<1>2. x \in [tail : Nat, pos : Nat, at : {"idle", "news"}, out : Out]
  <2>1. reader[r] \in [tail : Nat, pos : Nat, at : {"idle", "news"}, out : Out]
    BY Zenon DEF ShmInv, ShmTypeOK
  <2>2. head_ \in Nat /\ pushed \in Nat
    BY Zenon DEF ShmInv, ShmTypeOK
  <2> QED
    BY ONLY <2>1, <2>2, Zenon
<1>3. x.tail = head_ /\ x.pos = pushed /\ x.at = "idle" /\ x.out = reader[r].out
  BY Zenon DEF ShmInv, ShmTypeOK, Attach
<1>4. /\ x.out.news /\ x.out.lag < SafeLag /\ order = "tso" => x.out.val = x.out.pos
      /\ ~x.out.news /\ x.out.lag < Wrap => x.out.lag = 0
  BY <1>3, Zenon DEF ShmInv, PopRight, NothingNew
<1>5. x.tail = x.pos % Wrap /\ x.pos <= pushed /\ (x.at = "news" => x.pos < pushed)
  BY <1>3 DEF ShmInv, ShmTypeOK
<1> HIDE DEF x
<1> QED
  BY <1>1, <1>2, <1>4, <1>5, ReaderKeeps, Zenon

(* pop compares the counters: while the reader is less than a turn behind, *)
(* they are equal only when it has seen everything.                        *)
LEMMA PopNothingKeeps ==
  ASSUME ShmInv, NEW r \in Reader, PopNothing(r)
  PROVE  ShmInv'
<1> DEFINE lag == pushed - reader[r].pos
           x == [reader[r] EXCEPT !.out = [news |-> FALSE, val |-> 0, pos |-> reader[r].pos, lag |-> lag]]
<1>1. reader' = [reader EXCEPT ![r] = x] /\ UNCHANGED <<order, mapped, head_, buf_, writer, pushed>>
  BY Zenon DEF PopNothing
<1>2. pushed \in Nat /\ reader[r].pos \in Nat /\ lag \in Nat
  BY DEF ShmInv, ShmTypeOK
<1>3. lag < Wrap => lag = 0
  <2>1. pushed % Wrap = reader[r].pos % Wrap
    BY Zenon DEF ShmInv, PopNothing, News
  <2>2. PICK q \in Int : pushed - reader[r].pos = Wrap * q
    BY ONLY <1>2, <2>1, SameMod, WrapPositive, Zenon
  <2> HIDE DEF lag
  <2>3. lag = Wrap * q
    BY <2>2, Zenon DEF lag
  <2> QED
    BY ONLY <1>2, <2>3, SmallMultiple, ShmAssumption
<1>4. x \in [tail : Nat, pos : Nat, at : {"idle", "news"}, out : Out]
  <2>1. reader[r] \in [tail : Nat, pos : Nat, at : {"idle", "news"}, out : Out]
    BY Zenon DEF ShmInv, ShmTypeOK
  <2>2. [news |-> FALSE, val |-> 0, pos |-> reader[r].pos, lag |-> lag] \in Out
    BY ONLY <1>2 DEF Out
  <2> HIDE DEF lag
  <2> QED
    BY ONLY <2>1, <2>2, Zenon
<1>5. x.tail = x.pos % Wrap /\ x.pos <= pushed /\ (x.at = "news" => x.pos < pushed)
  BY DEF ShmInv, ShmTypeOK
<1>6. ~x.out.news /\ x.out.lag = lag
  BY Zenon DEF ShmInv, ShmTypeOK
<1> HIDE DEF x
<1> QED
  BY <1>1, <1>3, <1>4, <1>5, <1>6, ReaderKeeps, Zenon

LEMMA PopNewsKeeps ==
  ASSUME ShmInv, NEW r \in Reader, PopNews(r)
  PROVE  ShmInv'
<1> DEFINE x == [reader[r] EXCEPT !.at = "news"]
<1>1. reader' = [reader EXCEPT ![r] = x] /\ UNCHANGED <<order, mapped, head_, buf_, writer, pushed>>
  BY Zenon DEF PopNews
<1>2. x \in [tail : Nat, pos : Nat, at : {"idle", "news"}, out : Out]
  BY ZenonT(30) DEF ShmInv, ShmTypeOK
<1>3. x.tail = reader[r].tail /\ x.pos = reader[r].pos /\ x.out = reader[r].out
  BY DEF ShmInv, ShmTypeOK
<1>4. reader[r].pos # pushed
  BY Zenon DEF ShmInv, PopNews, News
<1>5. x.tail = x.pos % Wrap /\ x.pos < pushed
  BY <1>3, <1>4 DEF ShmInv, ShmTypeOK
<1>6. /\ x.out.news /\ x.out.lag < SafeLag /\ order = "tso" => x.out.val = x.out.pos
      /\ ~x.out.news /\ x.out.lag < Wrap => x.out.lag = 0
  BY <1>3, Zenon DEF ShmInv, PopRight, NothingNew
<1>7. x.pos <= pushed
  BY <1>2, <1>5, Zenon DEF ShmInv, ShmTypeOK
<1> HIDE DEF x
<1> QED
  BY <1>1, <1>2, <1>5, <1>6, <1>7, ReaderKeeps, Zenon

(* The slot read still holds the value of this position, if the reader is  *)
(* less than SafeLag behind.                                               *)
LEMMA PopValueKeeps ==
  ASSUME ShmInv, NEW r \in Reader, PopValue(r)
  PROVE  ShmInv'
<1> DEFINE p == reader[r].pos
           y(v) == [tail |-> (reader[r].tail + 1) % Wrap, pos |-> p + 1, at |-> "idle",
                    out |-> [news |-> TRUE, val |-> v, pos |-> p, lag |-> pushed - p]]
<1>1. PICK v \in IF order = "weak" THEN -1..pushed ELSE {buf_[reader[r].tail % Size]} :
        reader' = [reader EXCEPT ![r] = y(v)]
  BY Zenon DEF PopValue
<1>2. UNCHANGED <<order, mapped, head_, buf_, writer, pushed>>
  BY Zenon DEF PopValue
<1>3. pushed \in Nat /\ p \in Nat /\ p < pushed /\ reader[r].tail = p % Wrap
  BY Zenon DEF ShmInv, ShmTypeOK, PopValue
<1>4. reader[r].tail % Size = Slot(p) /\ Slot(p) \in 0..(Size - 1)
  BY <1>3, SlotIsIn, Zenon DEF Slot
<1>5. v \in Int /\ (order = "tso" => v = buf_[Slot(p)])
  BY <1>1, <1>3, <1>4 DEF ShmInv, ShmTypeOK
<1>6. pushed - p < SafeLag => buf_[Slot(p)] = p
  BY <1>3, Zenon DEF ShmInv
<1>7. (reader[r].tail + 1) % Wrap = (p + 1) % Wrap /\ (p + 1) % Wrap \in Nat
  <2> HIDE DEF p
  <2>1. p \in Nat /\ p + 1 \in Nat /\ Wrap \in Nat /\ Wrap > 0
    BY ONLY <1>3, ShmAssumption
  <2>2. ((p % Wrap) + 1) % Wrap = (p + 1) % Wrap
    BY ONLY <2>1, NextMod, Zenon
  <2>3. (p + 1) % Wrap \in 0..(Wrap - 1)
    BY ONLY <2>1, ModIsIn, Zenon
  <2>4. (p + 1) % Wrap \in Nat
    BY ONLY <2>1, <2>3
  <2> QED
    BY ONLY <1>3, <2>2, <2>4, Zenon
<1> HIDE DEF p
<1>8. y(v) \in [tail : Nat, pos : Nat, at : {"idle", "news"}, out : Out]
  BY ONLY <1>3, <1>5, <1>7 DEF Out
<1>9. y(v).tail = y(v).pos % Wrap /\ y(v).pos <= pushed /\ y(v).at = "idle"
  BY ONLY <1>3, <1>7
<1>10. /\ y(v).out.news /\ y(v).out.lag = pushed - p
       /\ y(v).out.val = v /\ y(v).out.pos = p
  BY Zenon
<1> HIDE DEF y
<1> QED
  BY <1>1, <1>2, <1>5, <1>6, <1>8, <1>9, <1>10, ReaderKeeps, Zenon

(* Every step of the specification.                                        *)
LEMMA ShmInductive == ShmSpec => []ShmInv
<1>1. ShmInv /\ [ShmNext]_shmVars => ShmInv'
  <2> SUFFICES ASSUME ShmInv, [ShmNext]_shmVars PROVE ShmInv'
    BY Zenon
  <2>1. CASE UNCHANGED shmVars
    BY <2>1, Zenon DEF shmVars, ShmInv, ShmTypeOK, PopRight, NothingNew, SafeLag, Slot
  <2>2. CASE Reopen
    BY <2>2, Zenon DEF Reopen, ShmInv, ShmTypeOK, PopRight, NothingNew, SafeLag, Slot
  <2> QED
    BY <2>1, <2>2, PushKeeps, PublishKeeps, AttachKeeps, PopNothingKeeps, PopNewsKeeps, PopValueKeeps, Zenon
    DEF ShmNext
<1> QED
  BY ShmInvInit, <1>1, PTL DEF ShmSpec

(* A reader less than 2^32 % 1020 = 256 values behind never gets a wrong   *)
(* one: for any size of the ring and width of the counters, any number of  *)
(* readers, and a writer that may die between its two stores.              *)
THEOREM PopIsRight == ShmSpec => []PopRight
<1>1. ShmInv => PopRight
  BY Zenon DEF ShmInv
<1> QED
  BY <1>1, ShmInductive, PTL

(* No reader less than 2^32 values behind misses that there is one.        *)
THEOREM NewsIsSeen == ShmSpec => []NothingNew
<1>1. ShmInv => NothingNew
  BY Zenon DEF ShmInv
<1> QED
  BY <1>1, ShmInductive, PTL
=============================================================================
