----------------------------- MODULE MCWatcher -----------------------------
(* Instances of the file watcher for TLC. *)
EXTENDS Watcher, TLC

Interchangeable == Permutations(Callbacks) \cup Permutations(Loops)
=============================================================================
