------------------------------- MODULE NetIO --------------------------------
(***************************************************************************)
(* enu/net.h: write_partial, write_exact, read_partial and read_exact at   *)
(* the two ends of one stream (a pipe or a connection).                    *)
(*                                                                         *)
(* Bytes are counted, not named: a stream keeps them in order.  EINTR,     *)
(* EAGAIN and EWOULDBLOCK lead back into the loop and change nothing.      *)
(***************************************************************************)
EXTENDS Integers

CONSTANTS
  Capacity,     \* of the kernel's buffer
  MAX_RW_SIZE,
  Lens,         \* the lengths the functions are called with
  MaxBytes      \* bound on the bytes asked for at one end

ASSUME NetAssumption ==
  Capacity \in Nat \ {0} /\ MAX_RW_SIZE \in Nat \ {0} /\ Lens \subseteq Nat /\ MaxBytes \in Nat

VARIABLES
  call,   \* the call at each end: function, arguments, off, and its IOResult
  open,   \* whether each end is open
  moved   \* history: bytes written into and read from the stream

netVars == <<call, open, moved>>

Ends == {"wr", "rd"}
IOKind == {"Ok", "Fail"}

NetTypeOK ==
  /\ call \in [Ends -> [exact : BOOLEAN, len : Nat, off : Nat, start : Nat,
                        state : {"running"} \cup IOKind]]
  /\ open \in [Ends -> BOOLEAN]
  /\ moved \in [Ends -> Nat]

NetInit ==
  /\ call = [e \in Ends |-> [exact |-> FALSE, len |-> 0, off |-> 0, start |-> 0, state |-> "Ok"]]
  /\ open = [e \in Ends |-> TRUE]
  /\ moved = [e \in Ends |-> 0]

(* start is a history: the bytes moved at this end before the call.        *)
Call(e) ==
  /\ open[e] /\ call[e].state # "running"
  /\ \E exact \in BOOLEAN, len \in {l \in Lens : moved[e] + l <= MaxBytes} :
       call' = [call EXCEPT ![e] = [exact |-> exact, len |-> len, off |-> 0, start |-> moved[e],
                                    state |-> "running"]]
  /\ UNCHANGED <<open, moved>>

InLoop(e) == call[e].state = "running" /\ call[e].off < call[e].len

(* What one write or read can move.                                        *)
Available(e) == IF e = "wr" THEN Capacity - (moved["wr"] - moved["rd"]) ELSE moved["wr"] - moved["rd"]

(* Mutant: every round asks for the whole length.                          *)
ChunkWhole(e) == call[e].len

Chunk(e) == IF call[e].len - call[e].off < MAX_RW_SIZE THEN call[e].len - call[e].off ELSE MAX_RW_SIZE

(* A round of the loop that moves n bytes.                                 *)
Transfer(e) ==
  /\ InLoop(e) /\ (e = "wr" => open["rd"])
  /\ \E n \in 1..Chunk(e) :
       /\ n <= Available(e)
       /\ call' = [call EXCEPT ![e].off = @ + n]
       /\ moved' = [moved EXCEPT ![e] = @ + n]
  /\ UNCHANGED open

(* Mutant: the exact forms do not compare n_bytes with len.                *)
KindUnchecked(c, kind) == kind

(* write_exact and read_exact turn a short count into a failure.           *)
Kind(c, kind) == IF c.exact /\ c.off # c.len THEN "Fail" ELSE kind

Return(e, kind) ==
  /\ call' = [call EXCEPT ![e].state = Kind(call[e], kind)]
  /\ UNCHANGED <<open, moved>>

Done(e) == call[e].state = "running" /\ ~InLoop(e) /\ Return(e, "Ok")

(* Mutant: the loop goes on after a count of zero.                         *)
ZeroSpins(e) == InLoop(e) /\ UNCHANGED netVars

(* read returns 0 at the end of the stream; write does not on a stream.    *)
Zero(e) ==
  /\ InLoop(e) /\ e = "rd" /\ ~open["wr"] /\ Available(e) = 0
  /\ Return(e, "Ok")

(* Any other error; EPIPE when nobody can read any more.                   *)
Error(e) == InLoop(e) /\ Return(e, "Fail")

CloseEnd(e) ==
  /\ open[e] /\ call[e].state # "running"
  /\ open' = [open EXCEPT ![e] = FALSE]
  /\ UNCHANGED <<call, moved>>

GoesOn(e) == Transfer(e) \/ Done(e) \/ Zero(e)

Over == (\A e \in Ends : ~open[e]) /\ UNCHANGED netVars

NetNext == Over \/ \E e \in Ends : Call(e) \/ GoesOn(e) \/ Error(e) \/ CloseEnd(e)

NetSpec == NetInit /\ [][NetNext]_netVars

(* A thread that can go on in its call does.                               *)
NetFairSpec == NetSpec /\ \A e \in Ends : WF_netVars(GoesOn(e))

-----------------------------------------------------------------------------
(* n_bytes is what the call moved, also when it fails half way, and never  *)
(* more than asked for; what is read was written, and what is not read yet *)
(* fits the buffer.                                                        *)
Counted ==
  /\ \A e \in Ends : moved[e] = call[e].start + call[e].off /\ call[e].off <= call[e].len
  /\ moved["rd"] <= moved["wr"] /\ moved["wr"] <= moved["rd"] + Capacity

(* A call that answers Ok moved all it was asked to; only read_partial may *)
(* answer Ok with less, and then the stream has ended and is empty.        *)
OkIsWhole ==
  \A e \in Ends : call[e].state = "Ok" /\ call[e].off # call[e].len =>
    e = "rd" /\ ~call[e].exact /\ ~open["wr"] /\ moved["rd"] = moved["wr"]

(* A read returns once the writer has closed its end, or has written all   *)
(* that the read waits for.                                                *)
ReadReturns ==
  (call["rd"].state = "running" /\ (~open["wr"] \/ moved["wr"] >= call["rd"].start + call["rd"].len))
    ~> call["rd"].state # "running"
=============================================================================
