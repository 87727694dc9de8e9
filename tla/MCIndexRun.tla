----------------------------- MODULE MCIndexRun -----------------------------
EXTENDS IndexRun

CONSTANTS f1, f2, d1, d2, d3, e1

MCText == [f \in Files |-> IF f = f1 THEN <<{d1, d2}, {d2, d3}, {d1}>>
                                     ELSE <<{e1}, {}, {}>>]
MCRemovals == [f \in Files |-> IF f = f1 THEN {} ELSE {3}]

\* The step before may have changed what a crash would leave to the next run.
MCDurable ==
  \/ pc \in {"idle", "replay", "clear", "scan", "promoteManifest", "finishing"}
  \/ pc = "files" /\ (force => todo = {})
  \/ ~force /\ pc \notin {"unchanged", "read", "chunkless", "vanished", "undo"}

\* Callers on their way are of one kind at a time, and come as late as they can: a
\* run has no use for what they know, so one that checks while it works checks
\* just before it ends, is refused or dies, and after a step that tells.
MCCallers ==
  /\ Cardinality(asks') <= 1
  /\ asks # {} => (pc # "idle" /\ pc' = "idle") \/ asks' # asks
  /\ asks' \subseteq asks \/ MCDurable
=============================================================================
