----------------------------- MODULE MCRegistry -----------------------------
(* Small registries for TLC: two or three collections, a limit below their  *)
(* number, and reloads that change one registration and remove another.     *)
EXTENDS Registry, TLC

CONSTANTS a, b, c, v1, v2

Snapshot(sa, sb, sc, limit) ==
  [spec |-> [id \in Ids |-> CASE id = a -> sa [] id = b -> sb [] OTHER -> sc],
   max |-> limit]

Fixed1 == {Snapshot(v1, v1, v1, 1)}
Fixed2 == {Snapshot(v1, v1, v1, 2)}
ChangeAndRemove == {Snapshot(v1, v1, v1, 1), Snapshot(v2, None, v1, 1)}
ShrinkLimit == {Snapshot(v1, v1, v1, 2), Snapshot(v2, v1, v1, 1)}

CallerSymmetry == Permutations(Callers)
=============================================================================
