----------------------------- MODULE MCWatcher ------------------------------
(* Instance of Watcher: paths and inodes are interchangeable.              *)
EXTENDS Watcher, TLC

Symmetry == Permutations(Path) \cup Permutations(Inode)
=============================================================================
