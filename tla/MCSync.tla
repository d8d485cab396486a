------------------------------- MODULE MCSync -------------------------------
(* A tree for SyncWithRemote: the root r holds a directory d with the      *)
(* files f and h, an empty directory e and a file g.                       *)
EXTENDS SyncWithRemote

MCNode == {"r", "d", "e", "f", "g", "h"}
MCDir == {"r", "d", "e"}
MCParent == [n \in MCNode \ {"r"} |-> IF n \in {"f", "h"} THEN "d" ELSE "r"]
MCDepth == [n \in MCNode |-> CASE n = "r" -> 0 [] n \in {"f", "h"} -> 2 [] OTHER -> 1]
MCSize == [n \in MCNode |-> IF n = "f" THEN 2 ELSE 0]
=============================================================================
