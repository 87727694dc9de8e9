---------------------------- MODULE ExclusiveLock ----------------------------
(* What a lock file stands for: at most one process has it, and a process    *)
(* that dies gives it up.                                                    *)
CONSTANTS Procs

VARIABLE owners

Init == owners = {}

Acquire(p) == owners = {} /\ owners' = {p}

GiveUp(p) == p \in owners /\ owners' = owners \ {p}

Next == \E p \in Procs : Acquire(p) \/ GiveUp(p)

Spec == Init /\ [][Next]_owners
=============================================================================
