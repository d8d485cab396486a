------------------------------ MODULE ShmQueue ------------------------------
(***************************************************************************)
(* ShmQueue and ShmReader (enu/shm.h): a ring in shared memory, one writer *)
(* process that may die and come back, readers that each keep a tail.      *)
(*                                                                         *)
(* The k-th value pushed is k.  pushed and pos count without wrapping, for *)
(* the properties; head and tail are the 32 bit counters of the code.      *)
(***************************************************************************)
EXTENDS Integers

CONSTANTS
  Reader,
  Wrap,      \* 2^32, where head_ and tail_ wrap
  Size,      \* buf_.size(), 1020
  Mapped,    \* slots inside the segment: 1008 of them with pages of 4096 bytes
  Orders,    \* memory orders considered: "tso" (x86), "weak" (ARM)
  MaxPush    \* bound on the calls of push

ASSUME ShmAssumption ==
  /\ Wrap \in Nat /\ Size \in Nat /\ 0 < Size /\ Size <= Wrap
  /\ Mapped \subseteq 0..Size /\ MaxPush \in Nat

VARIABLES
  order, mapped,  \* chosen once
  head_, buf_,
  writer,         \* "idle", "stored": in push, before head_ is stored; "fault"
  pushed,         \* history: values pushed
  reader          \* of each reader, tail_ and where in pop it is; history: pos, out

shmVars == <<order, mapped, head_, buf_, writer, pushed, reader>>

(* out is the last value returned, with the position it stood for and how  *)
(* far behind the reader was; news is false when there was nothing new.    *)
Out == [news : BOOLEAN, val : Int, pos : Nat, lag : Nat]

ShmTypeOK ==
  /\ order \in Orders /\ mapped \in Mapped
  /\ head_ \in Nat /\ buf_ \in [0..(Size - 1) -> Int]
  /\ writer \in {"idle", "stored", "fault"} /\ pushed \in Nat
  /\ reader \in [Reader -> [tail : Nat, pos : Nat, at : {"idle", "news"}, out : Out]]

ShmInit ==
  /\ order \in Orders /\ mapped \in Mapped
  /\ head_ = 0 /\ buf_ = [i \in 0..(Size - 1) |-> -1] /\ writer = "idle" /\ pushed = 0
  /\ reader = [r \in Reader |-> [tail |-> 0, pos |-> 0, at |-> "idle",
                                 out |-> [news |-> FALSE, val |-> 0, pos |-> 0, lag |-> 0]]]

(* Mutant: the slot after the one head_ names.                             *)
SlotOff(k) == (k + 1) % Size

(* Where push puts the value; pop looks in tail_ % Size.                   *)
PushSlot(k) == k % Size

(* push: the slot is written, or the write faults beyond the segment.      *)
Push ==
  /\ writer = "idle" /\ pushed < MaxPush
  /\ IF PushSlot(head_) < mapped
     THEN writer' = "stored" /\ buf_' = [buf_ EXCEPT ![PushSlot(head_)] = pushed]
     ELSE writer' = "fault" /\ UNCHANGED buf_
  /\ UNCHANGED <<order, mapped, head_, pushed, reader>>

(* push: head_ is stored.                                                  *)
Publish ==
  /\ writer = "stored"
  /\ head_' = (head_ + 1) % Wrap /\ pushed' = pushed + 1
  /\ writer' = "idle"
  /\ UNCHANGED <<order, mapped, buf_, reader>>

(* The writer dies and opens the queue again: the segment is as it was.    *)
Reopen ==
  /\ writer # "idle"
  /\ writer' = "idle"
  /\ UNCHANGED <<order, mapped, head_, buf_, pushed, reader>>

(* ShmQueue::reader.                                                       *)
Attach(r) ==
  /\ reader[r].at = "idle"
  /\ reader' = [reader EXCEPT ![r].tail = head_, ![r].pos = pushed]
  /\ UNCHANGED <<order, mapped, head_, buf_, writer, pushed>>

(* Mutant: tail_ is compared with the slot of head_, not with head_.       *)
NewsBySlot(r) == reader[r].tail % Size # head_ % Size

News(r) == reader[r].tail # head_

(* pop finds nothing new and returns false: an optional that holds 0.      *)
PopNothing(r) ==
  /\ reader[r].at = "idle" /\ ~News(r)
  /\ reader' = [reader EXCEPT ![r].out = [news |-> FALSE, val |-> 0, pos |-> reader[r].pos,
                                          lag |-> pushed - reader[r].pos]]
  /\ UNCHANGED <<order, mapped, head_, buf_, writer, pushed>>

PopNews(r) ==
  /\ reader[r].at = "idle" /\ News(r)
  /\ reader' = [reader EXCEPT ![r].at = "news"]
  /\ UNCHANGED <<order, mapped, head_, buf_, writer, pushed>>

(* The slot is read.  head_ was read without acquire: a weak machine may   *)
(* return what the slot held before.                                       *)
PopValue(r) ==
  /\ reader[r].at = "news"
  /\ \E v \in IF order = "weak" THEN -1..pushed ELSE {buf_[reader[r].tail % Size]} :
       reader' = [reader EXCEPT ![r] =
         [tail |-> (@.tail + 1) % Wrap, pos |-> @.pos + 1, at |-> "idle",
          out |-> [news |-> TRUE, val |-> v, pos |-> @.pos, lag |-> pushed - @.pos]]]
  /\ UNCHANGED <<order, mapped, head_, buf_, writer, pushed>>

ShmNext ==
  \/ Push \/ Publish \/ Reopen
  \/ \E r \in Reader : Attach(r) \/ PopNothing(r) \/ PopNews(r) \/ PopValue(r)

ShmSpec == ShmInit /\ [][ShmNext]_shmVars

-----------------------------------------------------------------------------
(* How far behind a reader may be.  Size does not divide 2^32, so the      *)
(* slots skip when the counters wrap: 2^32 % 1020 = 256 values.            *)
SafeLag == IF Wrap % Size = 0 THEN Size ELSE Wrap % Size

(* A reader less than SafeLag behind gets the values in order, each as it  *)
(* was pushed, although the writer overwrites slots meanwhile, dies in the *)
(* middle of a push, and the counters wrap.                                *)
PopRight ==
  \A r \in Reader :
    reader[r].out.news /\ reader[r].out.lag < SafeLag /\ order = "tso" =>
      reader[r].out.val = reader[r].out.pos

(* pop finds nothing new only when the reader has seen everything, as long *)
(* as it is less than a whole turn of the counters behind.                 *)
NothingNew ==
  \A r \in Reader :
    ~reader[r].out.news /\ reader[r].out.lag < Wrap => reader[r].out.lag = 0
=============================================================================
