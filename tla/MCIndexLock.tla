---------------------------- MODULE MCIndexLock ----------------------------
(* Three contenders and enough files for each to be left with a stale one. *)
EXTENDS IndexLock, TLC

ProcSymmetry == Permutations(Procs) \cup Permutations(Inodes)
=============================================================================
