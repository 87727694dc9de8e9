---------------------------- MODULE ServiceLease ----------------------------
(***************************************************************************)
(* What the registry promises to those who use it: services that start, are *)
(* lent to clients, stop and go away, over a platform (the process-wide     *)
(* runtime) that is taken down once.  Nothing is said of how many there are,*)
(* who asks for them, or which is stopped when.                             *)
(***************************************************************************)
CONSTANTS Services, Clients

VARIABLES
  life,       \* life[s]: "absent", "starting", "ready" or "stopping"
  lent,       \* lent[s]: the clients that hold s
  accepting,  \* new loans are given out
  platform    \* the platform is up

vars == <<life, lent, accepting, platform>>

Init ==
  /\ life = [s \in Services |-> "absent"]
  /\ lent = [s \in Services |-> {}]
  /\ accepting = TRUE
  /\ platform = TRUE

Start(s) ==
  /\ platform /\ life[s] = "absent"
  /\ life' = [life EXCEPT ![s] = "starting"]
  /\ UNCHANGED <<lent, accepting, platform>>

\* A service becomes ready for the client that had it started.
Ready(s, c) ==
  /\ accepting /\ life[s] = "starting"
  /\ life' = [life EXCEPT ![s] = "ready"]
  /\ lent' = [lent EXCEPT ![s] = {c}]
  /\ UNCHANGED <<accepting, platform>>

Lend(s, c) ==
  /\ accepting /\ life[s] = "ready" /\ c \notin lent[s]
  /\ lent' = [lent EXCEPT ![s] = @ \cup {c}]
  /\ UNCHANGED <<life, accepting, platform>>

\* A client gives a service back; the last one may find it stopping already.
GiveBack(s, c) ==
  /\ c \in lent[s]
  /\ lent' = [lent EXCEPT ![s] = @ \ {c}]
  /\ \/ UNCHANGED life
     \/ /\ ~accepting /\ lent[s] = {c}
        /\ life' = [life EXCEPT ![s] = "stopping"]
  /\ UNCHANGED <<accepting, platform>>

\* Services nobody holds are stopped, several at once if need be.
Stop(S) ==
  /\ \A s \in S : life[s] \in {"starting", "ready"} /\ lent[s] = {}
  /\ life' = [s \in Services |-> IF s \in S THEN "stopping" ELSE life[s]]
  /\ UNCHANGED <<lent, accepting, platform>>

Vanish(s) ==
  /\ life[s] \in {"starting", "stopping"}
  /\ life' = [life EXCEPT ![s] = "absent"]
  /\ UNCHANGED <<lent, accepting, platform>>

StopAccepting ==
  /\ accepting' = FALSE
  /\ UNCHANGED <<life, lent, platform>>

\* The platform goes down when nothing is lent or could still be; a service
\* may at most be on its way out.
TakeDown ==
  /\ ~accepting
  /\ \A s \in Services : life[s] \in {"absent", "stopping"}
  /\ platform' = FALSE
  /\ UNCHANGED <<life, lent, accepting>>

Next ==
  \/ \E s \in Services : Start(s) \/ Vanish(s)
  \/ \E s \in Services, c \in Clients : Ready(s, c) \/ Lend(s, c) \/ GiveBack(s, c)
  \/ \E S \in SUBSET Services : Stop(S)
  \/ StopAccepting
  \/ TakeDown

Spec == Init /\ [][Next]_vars
=============================================================================
