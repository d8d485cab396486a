------------------------------ MODULE Delivery ------------------------------
(***************************************************************************)
(* What sync_with_remote promises its caller (enu_main), whatever the      *)
(* number of threads and however they interleave: each entry is sent once, *)
(* never before the directory it is in, and the call answers true only     *)
(* when nothing was left out.                                              *)
(***************************************************************************)
CONSTANTS Node, Root, Parent

VARIABLES
  delivered,  \* how many times each entry has been delivered
  outcome

Init ==
  /\ delivered = [n \in Node |-> 0]
  /\ outcome = "running"

Deliver(n) ==
  /\ outcome = "running"
  /\ delivered[n] = 0
  /\ n = Root \/ delivered[Parent[n]] = 1
  /\ delivered' = [delivered EXCEPT ![n] = 1]
  /\ UNCHANGED outcome

Return ==
  /\ outcome = "running"
  /\ \/ outcome' \in {"false", "fatal"}
     \/ (\A n \in Node : delivered[n] = 1) /\ outcome' = "true"
  /\ UNCHANGED delivered

Next == (\E n \in Node : Deliver(n)) \/ Return

Spec == Init /\ [][Next]_<<delivered, outcome>>
=============================================================================
