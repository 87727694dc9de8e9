------------------------------ MODULE MCLaunch ------------------------------
(* Two clients that start the daemon at once, a process for each to launch, *)
(* and one manual daemon or foreign program that may take the address.      *)
EXTENDS Launch, TLC

CONSTANTS manual, foreign
=============================================================================
