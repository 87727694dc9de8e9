----------------------------- MODULE MCIdentity -----------------------------
(* A configuration and two that differ from it in one point each: chunking      *)
(* version, workspace root; and two that differ in geometry alone.              *)
EXTENDS Identity, TLC

Conf(profile, root, chunking, geometry, auto) ==
  [profile |-> profile, root |-> root, chunking |-> chunking,
   geometry |-> geometry, auto |-> auto]

MCConfs ==
  {Conf("p1", "r1", 1, "g1", TRUE), Conf("p1", "r1", 2, "g1", FALSE),
   Conf("p1", "r2", 1, "g1", TRUE)}
MCInitial == {Conf("p1", "r1", 1, "g1", TRUE)}
Symmetric == Permutations(Files) \cup Permutations(Builds)
MCGeometries == {Conf("p1", "r1", 1, "g1", FALSE), Conf("p1", "r1", 1, "g2", FALSE)}
=============================================================================
