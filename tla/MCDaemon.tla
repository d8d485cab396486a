------------------------------ MODULE MCDaemon ------------------------------
(* Two clients on two ports: one sends the root and a file, the other a    *)
(* directory and a file in it.                                             *)
EXTENDS Daemon

MCClient == {"c1", "c2"}
MCPort == [c \in MCClient |-> IF c = "c1" THEN 0 ELSE 1]
MCScript == [c \in MCClient |-> IF c = "c1" THEN <<"r", "f">> ELSE <<"d", "g">>]
MCNode == {"r", "d", "f", "g"}
MCDir == {"r", "d"}
MCParent == [n \in MCNode \ {"r"} |-> IF n = "g" THEN "d" ELSE "r"]
MCSize == [n \in MCNode |-> IF n = "f" THEN 2 ELSE 0]

(* Three clients on one port.                                              *)
Crowd == {"c1", "c2", "c3"}
CrowdSize == [n \in MCNode |-> IF n = "f" THEN 1 ELSE 0]
CrowdPort == [c \in Crowd |-> 0]
CrowdScript == [c \in Crowd |-> IF c = "c1" THEN <<"r">> ELSE IF c = "c2" THEN <<"f">> ELSE <<"d">>]
=============================================================================
