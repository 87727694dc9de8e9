----------------------------- MODULE MCService -----------------------------
(* One thread of each kind, in three casts: two Starts against a shutdown, *)
(* a search and a Start against a shutdown, and both against a second      *)
(* process.                                                                *)
EXTENDS Service

CONSTANTS q1, w1, s1, c1

MCCasts == {{q1, w1, c1}, {w1, s1, c1}, {q1, s1, "peer"}}
=============================================================================
