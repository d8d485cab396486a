------------------------------- MODULE MCScan -------------------------------
(* A tree for ScanDir: the root holds two directories, three files and a   *)
(* socket, whose names a..f sort in this order; d holds a file and a       *)
(* directory.                                                              *)
EXTENDS ScanDir

ScanNode == {"r", "a", "b", "d", "e", "f", "x", "y"}
ScanDirs == {"r", "a", "d", "y"}
ScanParent == [n \in ScanNode \ {"r"} |-> IF n \in {"x", "y"} THEN "d" ELSE "r"]
ScanDepth == [n \in ScanNode |-> CASE n = "r" -> 0 [] n \in {"x", "y"} -> 2 [] OTHER -> 1]
ScanSize == [n \in ScanNode |-> CASE n = "b" -> 2 [] n \in {"e", "x"} -> 1 [] OTHER -> 0]
ScanIgnored == {"c"}
ScanIn == [x \in ScanIgnored |-> "r"]
ScanRank == [n \in ScanNode \cup ScanIgnored |->
  CASE n = "a" -> 1 [] n = "b" -> 2 [] n = "c" -> 3 [] n = "d" -> 4 [] n = "e" -> 5
    [] n = "f" -> 6 [] n = "x" -> 1 [] n = "y" -> 2 [] OTHER -> 0]
=============================================================================
