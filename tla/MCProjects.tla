----------------------------- MODULE MCProjects -----------------------------
(* Instances of the project registry for TLC. *)
EXTENDS Projects, TLC

Interchangeable == Permutations(Clients) \cup Permutations(Roots)
=============================================================================
