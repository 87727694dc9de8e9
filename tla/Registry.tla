------------------------------ MODULE Registry ------------------------------
(***************************************************************************)
(* The daemon's workspace registry: requests borrow a collection's service *)
(* and release it; the service is opened on first use, evicted when the    *)
(* limit on open workspaces is reached, dropped when a reload changes its  *)
(* registration, and closed when the registry shuts down.  Every action is *)
(* one critical section of Registry.mu, or one piece of work done with the *)
(* mutex released.  internal/daemon/registry.go, internal/daemon/reload.go *)
(***************************************************************************)
EXTENDS Naturals, FiniteSets

CONSTANTS
  Callers,          \* goroutines that serve requests
  Ids,              \* workspace (collection) identifiers
  Handles,          \* pool of workspaceHandle objects, reused once collected
  Snapshots,        \* the configurations a reload may read
  Reload,           \* the owner of a reservation made by ReloadProjects
  None,             \* nil, for every kind of value
  DrainMayTimeOut   \* whether Close may give up waiting (30 s) and go on

Specs == UNION {{s.spec[id] : id \in Ids} : s \in Snapshots}
Limits == {s.max : s \in Snapshots}

ASSUME RegistryAssumption ==
  /\ Snapshots # {}
  /\ \A s \in Snapshots : /\ DOMAIN s = {"spec", "max"}
                          /\ DOMAIN s.spec = Ids
                          /\ s.max \in Nat \ {0}
  /\ None \notin Ids \cup Handles \cup Callers \cup Snapshots
  /\ Reload \notin Callers \cup {None}
  /\ IsFiniteSet(Callers) /\ IsFiniteSet(Handles) /\ IsFiniteSet(Ids)
  /\ DrainMayTimeOut \in BOOLEAN

VARIABLES
  cfg,        \* the snapshot in force; spec[id] = None: id is not registered
  open,       \* open[id]: the handle requests borrow, or None
  opening,    \* opening[id]: who holds the reservation of id, or None
  older,      \* <<a, b>>: open workspace a was last used before b
  stage,      \* stage[h]: where the service behind handle h is in its life
  home,       \* home[h]: the workspace h serves
  built,      \* built[h]: the registration h was built from
  refs,       \* refs[h]: the borrow count
  indexing,   \* handles whose service runs a background indexing job
  pc,         \* pc[p]: what request p is doing
  want,       \* want[p]: the workspace it asked for
  mine,       \* mine[p]: the handle it holds, starts, or waits to see closed
  snap,       \* snap[p]: the registration it read when it reserved the slot
  reloader,   \* what the (serialized) reload is doing
  pending,    \* the snapshot it has read
  dropping,   \* the handles it still has to close
  closer,     \* how far Close has come
  discards,   \* number of discards in flight
  runtimeDone \* the process-wide runtime has been torn down

mapVars == <<cfg, open, opening, older>>
handleVars == <<stage, home, built, refs, indexing>>
callerVars == <<pc, want, mine, snap>>
reloadVars == <<reloader, pending, dropping>>
closeVars == <<closer, discards, runtimeDone>>
vars == <<mapVars, handleVars, callerVars, reloadVars, closeVars>>

Stages == {"free",        \* no service
           "starting",    \* being built by a cold open
           "open",        \* in the open map
           "detached",    \* out of the map, its discard not yet counted
           "discarding",  \* counted, its service closing
           "discarded",   \* service closed, the drain check still to come
           "sweeping"}    \* taken out of the map by Close, service closing

-----------------------------------------------------------------------------
\* What the code reads under the mutex.

closing == closer # "none"
ctxCanceled == closer \notin {"none", "flagged"}

OpenIds == {id \in Ids : open[id] # None}
OpeningIds == {id \in Ids : opening[id] # None}
AnyOpenIsIdle == OpenIds  \* slip: eviction forgets to look at refs
IdleIds == {id \in OpenIds : refs[open[id]] = 0}
Busy == OpenIds # IdleIds
OpeningNotCounted == Cardinality(OpenIds)  \* slip: cold opens take no slot
Occupied == Cardinality(OpenIds) + Cardinality(OpeningIds)
Full == Occupied >= cfg.max

\* The idle workspace whose last use lies furthest back.
Oldest(id) == id \in IdleIds /\ \A other \in IdleIds \ {id} : <<id, other>> \in older

\* Bookkeeping of lastUsed: drop the workspaces in S; make id the latest one.
Forget(S) == {pair \in older : pair[1] \notin S /\ pair[2] \notin S}
Touch(id) == Forget({id}) \cup ((OpenIds \ {id}) \X {id})

\* Slip: discards in flight are not waited for.
DrainedButDiscards == /\ closing /\ ~runtimeDone
                      /\ OpenIds = {} /\ OpeningIds = {}

\* Everything has drained and nobody has torn the runtime down yet.
Drained == /\ closing /\ ~runtimeDone
           /\ OpenIds = {} /\ OpeningIds = {} /\ discards = 0

Init ==
  /\ cfg \in Snapshots
  /\ open = [id \in Ids |-> None]
  /\ opening = [id \in Ids |-> None]
  /\ older = {}
  /\ stage = [h \in Handles |-> "free"]
  /\ home = [h \in Handles |-> None]
  /\ built = [h \in Handles |-> None]
  /\ refs = [h \in Handles |-> 0]
  /\ indexing = {}
  /\ pc = [p \in Callers |-> "idle"]
  /\ want = [p \in Callers |-> None]
  /\ mine = [p \in Callers |-> None]
  /\ snap = [p \in Callers |-> None]
  /\ reloader = "idle" /\ pending = None /\ dropping = {}
  /\ closer = "none" /\ discards = 0 /\ runtimeDone = FALSE

-----------------------------------------------------------------------------
\* BorrowService: the loop body.

Request(p, id) ==
  /\ pc[p] = "idle"
  /\ pc' = [pc EXCEPT ![p] = "asking"]
  /\ want' = [want EXCEPT ![p] = id]
  /\ UNCHANGED <<mapVars, handleVars, mine, snap, reloadVars, closeVars>>

\* The request is answered with an error and holds nothing.
AnswerError(p) ==
  /\ pc' = [pc EXCEPT ![p] = "idle"]
  /\ want' = [want EXCEPT ![p] = None]
  /\ UNCHANGED <<mapVars, handleVars, mine, snap, reloadVars, closeVars>>

RefuseClosing(p) == pc[p] = "asking" /\ closing /\ AnswerError(p)

RefuseUnknown(p) ==
  /\ pc[p] = "asking" /\ ~closing /\ cfg.spec[want[p]] = None
  /\ AnswerError(p)

\* Past the two checks above, with the workspace not open yet.
MustOpen(p) ==
  /\ pc[p] = "asking" /\ ~closing /\ cfg.spec[want[p]] # None
  /\ open[want[p]] = None

RefuseFull(p) ==
  /\ MustOpen(p) /\ opening[want[p]] = None
  /\ Full /\ IdleIds = {}
  /\ AnswerError(p)

\* Slip: an open handle is lent even when the registry closes.
BorrowWhileClosing(p) ==
  /\ pc[p] = "asking" /\ cfg.spec[want[p]] # None
  /\ open[want[p]] # None
  /\ pc' = [pc EXCEPT ![p] = "holding"]
  /\ mine' = [mine EXCEPT ![p] = open[want[p]]]
  /\ refs' = [refs EXCEPT ![open[want[p]]] = @ + 1]
  /\ older' = Touch(want[p])
  /\ UNCHANGED <<cfg, open, opening, stage, home, built, indexing, want, snap,
                 reloadVars, closeVars>>

Borrow(p) ==
  /\ pc[p] = "asking" /\ ~closing /\ cfg.spec[want[p]] # None
  /\ open[want[p]] # None
  /\ pc' = [pc EXCEPT ![p] = "holding"]
  /\ mine' = [mine EXCEPT ![p] = open[want[p]]]
  /\ refs' = [refs EXCEPT ![open[want[p]]] = @ + 1]
  /\ older' = Touch(want[p])
  /\ UNCHANGED <<cfg, open, opening, stage, home, built, indexing, want, snap,
                 reloadVars, closeVars>>

AwaitOpening(p) ==
  /\ MustOpen(p) /\ opening[want[p]] # None
  /\ pc' = [pc EXCEPT ![p] = "waiting"]
  /\ UNCHANGED <<mapVars, handleVars, want, mine, snap, reloadVars, closeVars>>

TakeReservation(p) ==
  /\ MustOpen(p) /\ opening[want[p]] = None
  /\ opening' = [opening EXCEPT ![want[p]] = p]
  /\ pc' = [pc EXCEPT ![p] = "reserved"]
  /\ snap' = [snap EXCEPT ![p] = cfg.spec[want[p]]]

Reserve(p) ==
  /\ TakeReservation(p)
  /\ ~Full
  /\ UNCHANGED <<cfg, open, older, handleVars, want, mine, reloadVars, closeVars>>

\* The slot is made by taking the least recently used idle workspace out of the
\* map; its discard is begun, and waited for, after the mutex is released.
ReserveByEvicting(p) ==
  /\ TakeReservation(p)
  /\ Full
  /\ \E old \in IdleIds :
       /\ Oldest(old)
       /\ open' = [open EXCEPT ![old] = None]
       /\ older' = Forget({old})
       /\ stage' = [stage EXCEPT ![open[old]] = "detached"]
       /\ mine' = [mine EXCEPT ![p] = open[old]]
  /\ UNCHANGED <<cfg, home, built, refs, indexing, want, reloadVars, closeVars>>

-----------------------------------------------------------------------------
\* BorrowService: the cold open, outside the mutex, and what follows it.

\* initWorkspace gets past its two looks at closeCtx and builds the service.
BeginInit(p, h) ==
  /\ pc[p] = "reserved" /\ mine[p] = None
  /\ ~ctxCanceled
  /\ stage[h] = "free"
  /\ stage' = [stage EXCEPT ![h] = "starting"]
  /\ home' = [home EXCEPT ![h] = want[p]]
  /\ built' = [built EXCEPT ![h] = snap[p]]
  /\ pc' = [pc EXCEPT ![p] = "starting"]
  /\ mine' = [mine EXCEPT ![p] = h]
  /\ UNCHANGED <<mapVars, refs, indexing, want, snap, reloadVars, closeVars>>

\* Slip: wait.done is not closed when the opener fails.
EndReservationSilently(p, id, next, letGo) ==
  /\ opening' = [opening EXCEPT ![id] = None]
  /\ pc' = [q \in Callers |-> IF q = p THEN next
                              ELSE IF /\ pc[q] = "waiting" /\ want[q] = id
                                      /\ letGo = "asking" THEN letGo
                              ELSE pc[q]]
  /\ want' = [q \in Callers |-> IF pc'[q] = "idle" THEN None ELSE want[q]]

\* The reservation of id goes away: request p moves on to next, and every
\* request waiting for it is let go, with an error or to look again.
EndReservation(p, id, next, letGo) ==
  /\ opening' = [opening EXCEPT ![id] = None]
  /\ pc' = [q \in Callers |-> IF q = p THEN next
                              ELSE IF pc[q] = "waiting" /\ want[q] = id THEN letGo
                              ELSE pc[q]]
  /\ want' = [q \in Callers |-> IF pc'[q] = "idle" THEN None ELSE want[q]]

\* The handle no longer stands for a service.
Vacate(h) ==
  /\ stage' = [stage EXCEPT ![h] = "free"]
  /\ home' = [home EXCEPT ![h] = None]
  /\ built' = [built EXCEPT ![h] = None]
  /\ indexing' = indexing \ {h}

\* Initialisation fails or panics, before or after the service was built (then
\* it is closed on the way out); closing or not, everybody gets the error.
OpenFails(p) ==
  /\ \/ /\ pc[p] = "reserved" /\ mine[p] = None
        /\ UNCHANGED <<stage, home, built, indexing>>
     \/ pc[p] = "starting" /\ Vacate(mine[p])
  /\ EndReservation(p, want[p], "idle", "idle")
  /\ mine' = [mine EXCEPT ![p] = None]
  /\ snap' = [snap EXCEPT ![p] = None]
  /\ UNCHANGED <<cfg, open, older, refs, reloadVars, closeVars>>

OpenSucceeds(p) ==
  /\ pc[p] = "starting" /\ ~closing
  /\ EndReservation(p, want[p], "holding", "asking")
  /\ open' = [open EXCEPT ![want[p]] = mine[p]]
  /\ older' = Touch(want[p])
  /\ stage' = [stage EXCEPT ![mine[p]] = "open"]
  /\ refs' = [refs EXCEPT ![mine[p]] = @ + 1]
  /\ snap' = [snap EXCEPT ![p] = None]
  /\ UNCHANGED <<cfg, home, built, indexing, mine, reloadVars, closeVars>>

\* The registry began to close meanwhile: the new service is discarded and the
\* request is answered once that is done.
OpenTooLate(p) ==
  /\ pc[p] = "starting" /\ closing
  /\ EndReservation(p, want[p], "abandoning", "idle")
  /\ stage' = [stage EXCEPT ![mine[p]] = "discarding"]
  /\ discards' = discards + 1
  /\ snap' = [snap EXCEPT ![p] = None]
  /\ UNCHANGED <<cfg, open, older, home, built, refs, indexing, mine, reloadVars,
                 closer, runtimeDone>>

-----------------------------------------------------------------------------
\* releaseFunc.  A release that finds its handle replaced, or its count at
\* zero, changes nothing.

Release(p) ==
  LET h == mine[p]
      last == refs[h] = 1
  IN
  /\ pc[p] = "holding"
  /\ pc' = [pc EXCEPT ![p] = "idle"]
  /\ want' = [want EXCEPT ![p] = None]
  /\ mine' = [mine EXCEPT ![p] = None]
  /\ IF open[want[p]] # h \/ refs[h] = 0
       THEN UNCHANGED <<open, older, stage, refs, discards>>
       ELSE /\ refs' = [refs EXCEPT ![h] = @ - 1]
            /\ IF last /\ closing
                 THEN /\ open' = [open EXCEPT ![want[p]] = None]
                      /\ older' = Forget({want[p]})
                      /\ stage' = [stage EXCEPT ![h] = "discarding"]
                      /\ discards' = discards + 1
                 ELSE /\ older' = IF last THEN Touch(want[p]) ELSE older
                      /\ UNCHANGED <<open, stage, discards>>
  /\ UNCHANGED <<cfg, opening, home, built, indexing, snap, reloadVars,
                 closer, runtimeDone>>

\* An indexing job of a service starts (automatic indexing on open, the file
\* watcher, a reindex request) and ends, without holding a borrow.
IndexStarts(h) ==
  /\ stage[h] \in {"starting", "open"} /\ h \notin indexing
  /\ indexing' = indexing \cup {h}
  /\ UNCHANGED <<mapVars, stage, home, built, refs, callerVars, reloadVars, closeVars>>

IndexEnds(h) ==
  /\ h \in indexing
  /\ indexing' = indexing \ {h}
  /\ UNCHANGED <<mapVars, stage, home, built, refs, callerVars, reloadVars, closeVars>>

-----------------------------------------------------------------------------
\* beginDiscard, discardHandle, tryShutdownRuntimeAfterDrain.

\* A reload closes its handles one after the other.
BeginDiscard(h) ==
  /\ stage[h] = "detached"
  /\ h \in dropping => \A g \in dropping : stage[g] = "detached"
  /\ stage' = [stage EXCEPT ![h] = "discarding"]
  /\ discards' = discards + 1
  /\ UNCHANGED <<mapVars, home, built, refs, indexing, callerVars, reloadVars,
                 closer, runtimeDone>>

\* phase1.Close returns and the discard is no longer counted.
CloseService(h) ==
  /\ stage[h] = "discarding"
  /\ stage' = [stage EXCEPT ![h] = "discarded"]
  /\ indexing' = indexing \ {h}
  /\ discards' = discards - 1
  /\ UNCHANGED <<mapVars, home, built, refs, callerVars, reloadVars, closer, runtimeDone>>

\* The drain check, in a critical section of its own, and the return to whoever
\* ran the discard: an evicting request goes on to its cold open, an abandoned
\* cold open is answered, a reload closes its next handle.
FinishDiscard(h) ==
  /\ stage[h] = "discarded"
  /\ runtimeDone' = (runtimeDone \/ Drained)
  /\ Vacate(h)
  /\ LET answered == {p \in Callers : mine[p] = h /\ pc[p] = "abandoning"} IN
       /\ pc' = [p \in Callers |-> IF p \in answered THEN "idle" ELSE pc[p]]
       /\ want' = [p \in Callers |-> IF p \in answered THEN None ELSE want[p]]
  /\ mine' = [p \in Callers |-> IF mine[p] = h THEN None ELSE mine[p]]
  /\ dropping' = dropping \ {h}
  /\ UNCHANGED <<mapVars, refs, snap, reloader, pending, closer, discards>>

-----------------------------------------------------------------------------
\* ReloadProjects; reloadMu lets one run at a time.

Changed == {id \in Ids : cfg.spec[id] # None /\ pending.spec[id] # cfg.spec[id]}

\* Slip: a reload only looks at open handles.
InUseOnceOpen(id) == open[id] # None /\ (refs[open[id]] > 0 \/ open[id] \in indexing)

InUse(id) == \/ opening[id] # None
             \/ open[id] # None /\ (refs[open[id]] > 0 \/ open[id] \in indexing)

ReloadLoad(s) ==
  /\ reloader = "idle" /\ ~closing
  /\ reloader' = "loaded" /\ pending' = s
  /\ UNCHANGED <<mapVars, handleVars, callerVars, dropping, closeVars>>

ReloadRefused ==
  /\ reloader = "loaded"
  /\ closing \/ \E id \in Changed : InUse(id)
  /\ reloader' = "idle" /\ pending' = None
  /\ UNCHANGED <<mapVars, handleVars, callerVars, dropping, closeVars>>

\* The snapshot is swapped and every changed workspace reserved, its handle
\* taken out of the map, in one critical section.
ReloadApply ==
  LET dropped == {open[id] : id \in Changed \cap OpenIds} IN
  /\ reloader = "loaded" /\ ~closing
  /\ \A id \in Changed : ~InUse(id)
  /\ cfg' = pending
  /\ open' = [id \in Ids |-> IF id \in Changed THEN None ELSE open[id]]
  /\ opening' = [id \in Ids |-> IF id \in Changed THEN Reload ELSE opening[id]]
  /\ older' = Forget(Changed)
  /\ stage' = [h \in Handles |-> IF h \in dropped THEN "detached" ELSE stage[h]]
  /\ dropping' = dropped
  /\ reloader' = "dropping" /\ pending' = None
  /\ UNCHANGED <<home, built, refs, indexing, callerVars, closeVars>>

ReloadEnds ==
  /\ reloader = "dropping" /\ dropping = {}
  /\ opening' = [id \in Ids |-> IF opening[id] = Reload THEN None ELSE opening[id]]
  /\ pc' = [p \in Callers |-> IF pc[p] = "waiting" /\ opening[want[p]] = Reload
                              THEN "asking" ELSE pc[p]]
  /\ reloader' = "idle"
  /\ UNCHANGED <<cfg, open, older, handleVars, want, mine, snap, pending, dropping,
                 closeVars>>

-----------------------------------------------------------------------------
\* Close.

CloseFlag ==
  /\ closer = "none" /\ closer' = "flagged"
  /\ UNCHANGED <<mapVars, handleVars, callerVars, reloadVars, discards, runtimeDone>>

CloseCancel ==
  /\ closer = "flagged" /\ closer' = "draining"
  /\ UNCHANGED <<mapVars, handleVars, callerVars, reloadVars, discards, runtimeDone>>

\* Slip: Close waits for every open workspace, not for the borrowed ones.
UndrainedWhileOpen == OpenIds # {} \/ OpeningIds # {} \/ discards > 0

Undrained == Busy \/ OpeningIds # {} \/ discards > 0

\* The drain loop is over, because everything drained or the deadline passed:
\* the idle handles leave the map without being counted as discards.
CloseSweep ==
  LET swept == {open[id] : id \in IdleIds} IN
  /\ closer = "draining"
  /\ DrainMayTimeOut \/ ~Undrained
  /\ closer' = IF Undrained THEN "sweepingOnly" ELSE "sweeping"
  /\ open' = [id \in Ids |-> IF id \in IdleIds THEN None ELSE open[id]]
  /\ older' = Forget(IdleIds)
  /\ stage' = [h \in Handles |-> IF h \in swept THEN "sweeping" ELSE stage[h]]
  /\ UNCHANGED <<cfg, opening, home, built, refs, indexing, callerVars, reloadVars,
                 discards, runtimeDone>>

SweepOne(h) ==
  /\ stage[h] = "sweeping"
  /\ Vacate(h)
  /\ UNCHANGED <<mapVars, refs, callerVars, reloadVars, closeVars>>

CloseEnds ==
  /\ closer \in {"sweeping", "sweepingOnly"}
  /\ \A h \in Handles : stage[h] # "sweeping"
  /\ closer' = "closed"
  /\ runtimeDone' = (runtimeDone \/ (closer = "sweeping" /\ Drained))
  /\ UNCHANGED <<mapVars, handleVars, callerVars, reloadVars, discards>>

-----------------------------------------------------------------------------
FreshHandles == LET unused == {h \in Handles : stage[h] = "free"}
                IN  IF unused = {} THEN {} ELSE {CHOOSE h \in unused : TRUE}

Answering(p) ==
  \/ RefuseClosing(p) \/ RefuseUnknown(p) \/ RefuseFull(p)
  \/ Borrow(p) \/ AwaitOpening(p) \/ Reserve(p) \/ ReserveByEvicting(p)

Opening(p) ==
  \/ \E h \in FreshHandles : BeginInit(p, h)
  \/ OpenFails(p) \/ OpenSucceeds(p) \/ OpenTooLate(p)

Discarding(h) == BeginDiscard(h) \/ CloseService(h) \/ FinishDiscard(h)

Reloading == ReloadRefused \/ ReloadApply \/ ReloadEnds

Closing == CloseCancel \/ CloseSweep \/ CloseEnds

Next ==
  \/ \E p \in Callers : \/ \E id \in Ids : Request(p, id)
                        \/ Answering(p) \/ Opening(p) \/ Release(p)
  \/ \E h \in Handles : IndexStarts(h) \/ IndexEnds(h) \/ Discarding(h) \/ SweepOne(h)
  \/ \E s \in Snapshots : ReloadLoad(s)
  \/ Reloading
  \/ CloseFlag \/ Closing

Spec == Init /\ [][Next]_vars

\* What the running goroutines owe: a request in progress goes on, a handler
\* ends and releases, a service closes (Phase1.Close is bounded), a started
\* reload and a started Close go on.  No request, reload, indexing job or
\* Close has to be begun.
Fairness ==
  /\ \A p \in Callers : /\ WF_vars(Answering(p))
                        /\ WF_vars(Opening(p))
                        /\ WF_vars(Release(p))
  /\ \A h \in Handles : WF_vars(Discarding(h)) /\ WF_vars(SweepOne(h))
  /\ WF_vars(Reloading)
  /\ WF_vars(Closing)

FairSpec == Spec /\ Fairness

-----------------------------------------------------------------------------
\* Properties.

TypeOK ==
  /\ cfg \in Snapshots
  /\ open \in [Ids -> Handles \cup {None}]
  /\ opening \in [Ids -> Callers \cup {Reload, None}]
  /\ older \subseteq Ids \X Ids
  /\ stage \in [Handles -> Stages]
  /\ home \in [Handles -> Ids \cup {None}]
  /\ built \in [Handles -> Specs \cup {None}]
  /\ refs \in [Handles -> Nat]
  /\ indexing \subseteq Handles
  /\ pc \in [Callers -> {"idle", "asking", "waiting", "reserved", "starting",
                         "holding", "abandoning"}]
  /\ want \in [Callers -> Ids \cup {None}]
  /\ mine \in [Callers -> Handles \cup {None}]
  /\ snap \in [Callers -> Specs \cup {None}]
  /\ reloader \in {"idle", "loaded", "dropping"}
  /\ pending \in Snapshots \cup {None}
  /\ dropping \subseteq Handles
  /\ closer \in {"none", "flagged", "draining", "sweeping", "sweepingOnly", "closed"}
  /\ discards \in Nat
  /\ runtimeDone \in BOOLEAN

Holders(h) == {p \in Callers : pc[p] = "holding" /\ mine[p] = h}

\* Handles behind which there is a service that is not known to be closed.
Live == {h \in Handles : stage[h] \notin {"free", "discarded"}}

\* No eviction, reload or shutdown takes a service away from a request that
\* holds it: a borrowed handle stays the one in the open map until released.
HeldServiceIsOpen ==
  \A p \in Callers : pc[p] = "holding" =>
    /\ open[want[p]] = mine[p]
    /\ stage[mine[p]] = "open"

\* A request is never served by a service built from a registration that a
\* reload has replaced or removed meanwhile: the cold open works on a snapshot
\* it took before, outside the mutex.
ServesCurrentRegistration ==
  \A id \in OpenIds : built[open[id]] = cfg.spec[id]

\* A collection has at most one service that is starting or open, and none at
\* all while a reload keeps it reserved.
OneActiveService ==
  \A id \in Ids :
    LET active == {h \in Handles : home[h] = id /\ stage[h] \in {"starting", "open"}}
    IN  /\ \A g, h \in active : g = h
        /\ opening[id] = Reload => active = {}

\* Never more services exist, those being started or closed included, than the
\* largest max_open_workspaces that was in force allows.
LiveWithinLimit == \E limit \in Limits : Cardinality(Live) <= limit

\* The process-wide runtime is torn down after the last open workspace, cold
\* open and discard; only services that Close itself is closing may be left.
RuntimeAfterDrain ==
  runtimeDone => \A h \in Live : stage[h] = "sweeping"

\* Whoever waits for someone else's cold open, or for a reload, is let go.
NobodyWaitsForever ==
  \A p \in Callers : pc[p] = "waiting" ~> pc[p] # "waiting"

\* A closing registry ends up with the runtime torn down.
RuntimeIsTornDown == closing ~> runtimeDone

\* The registry implements the lease it promises.
LifeOf(at) == CASE at \in {"free", "discarded"} -> "absent"
                [] at = "starting" -> "starting"
                [] at = "open" -> "ready"
                [] OTHER -> "stopping"
leaseLife == [h \in Handles |-> LifeOf(stage[h])]
leaseLent == [h \in Handles |-> Holders(h)]

Lease == INSTANCE ServiceLease WITH
  Services <- Handles, Clients <- Callers, life <- leaseLife, lent <- leaseLent,
  accepting <- ~closing, platform <- ~runtimeDone

LeaseSpec == Lease!Spec

-----------------------------------------------------------------------------
\* The inductive invariant: how the two maps, the requests, the handles and
\* the counters hang together.

\* The open map and the handles agree, and no open workspace is reserved.
MapsAgree ==
  /\ \A id \in Ids : open[id] # None =>
       /\ stage[open[id]] = "open"
       /\ home[open[id]] = id
       /\ built[open[id]] = cfg.spec[id] /\ cfg.spec[id] # None
       /\ opening[id] = None
  /\ \A h \in Handles : stage[h] = "open" => home[h] \in Ids /\ open[home[h]] = h

\* A reservation belongs to the one request that is opening the workspace, and
\* what that request read of the configuration is still in force.
ReservationsAgree ==
  /\ \A id \in Ids : opening[id] \in Callers =>
       want[opening[id]] = id /\ pc[opening[id]] \in {"reserved", "starting"}
  /\ \A p \in Callers : pc[p] \in {"reserved", "starting"} =>
       /\ want[p] \in Ids
       /\ opening[want[p]] = p
       /\ snap[p] = cfg.spec[want[p]] /\ snap[p] # None

\* What each request has in hand.
RequestsAgree ==
  \A p \in Callers :
    /\ pc[p] # "idle" => want[p] \in Ids
    /\ pc[p] \in {"idle", "asking", "waiting"} => mine[p] = None
    /\ pc[p] = "reserved" => mine[p] = None \/ stage[mine[p]] \in {"detached", "discarding", "discarded"}
    /\ pc[p] = "abandoning" => mine[p] # None /\ stage[mine[p]] \in {"discarding", "discarded"}
    /\ pc[p] = "starting" => /\ mine[p] # None
                             /\ stage[mine[p]] = "starting"
                             /\ home[mine[p]] = want[p]
                             /\ built[mine[p]] = snap[p]
    /\ pc[p] = "holding" => /\ mine[p] # None
                            /\ open[want[p]] = mine[p]
                            /\ stage[mine[p]] = "open"

\* Every service that is starting or leaving has someone who sees to it.
ServicesAgree ==
  /\ \A h \in Handles : stage[h] = "starting" =>
       \E p \in Callers : pc[p] = "starting" /\ mine[p] = h
  /\ \A h \in Handles : stage[h] = "detached" =>
       h \in dropping \/ \E p \in Callers : pc[p] = "reserved" /\ mine[p] = h
  /\ \A h \in dropping : /\ stage[h] \in {"detached", "discarding", "discarded"}
                          /\ home[h] \in Ids /\ opening[home[h]] = Reload

ReloadAgrees == /\ reloader = "loaded" => pending # None
                /\ reloader # "dropping" => dropping = {}

DiscardingHandles == {h \in Handles : stage[h] = "discarding"}

\* The counters count: refs the holders of a handle, discards the services
\* that are being closed by a discard.
RefsAgree == \A h \in Handles : refs[h] = Cardinality(Holders(h))

DiscardsAgree == discards = Cardinality(DiscardingHandles)

RuntimeAgrees == runtimeDone => /\ closing /\ OpenIds = {} /\ OpeningIds = {}
                                /\ DiscardingHandles = {}

IInv ==
  /\ TypeOK
  /\ MapsAgree
  /\ ReservationsAgree
  /\ RequestsAgree
  /\ ServicesAgree
  /\ ReloadAgrees
  /\ RefsAgree
  /\ DiscardsAgree
  /\ RuntimeAgrees

\* Requests with a slot and no service in it, nothing being closed in it either.
Pledged == {p \in Callers : /\ pc[p] = "reserved"
                            /\ mine[p] = None \/ stage[mine[p]] = "discarded"}

\* Until Close begins, every service that is leaving sits in a slot: that of the
\* request which evicted it, or the reservation of the reload which dropped it.
SlotsAgree ==
  /\ \A p, q \in Callers :
       pc[p] = "reserved" /\ pc[q] = "reserved" /\ mine[p] # None /\ mine[p] = mine[q] => p = q
  /\ \A g, h \in dropping : home[g] = home[h] => g = h
  /\ ~closing => \A h \in Handles :
       /\ stage[h] # "sweeping"
       /\ stage[h] = "discarding" =>
            h \in dropping \/ \E p \in Callers : pc[p] = "reserved" /\ mine[p] = h

\* The services there are and those still to be started stay within a limit;
\* only a new reservation adds one, and it looks at the limit in force.
SlotsSuffice ==
  \E limit \in Limits : Cardinality(Live) + Cardinality(Pledged) <= limit

SlotInv == IInv /\ SlotsAgree /\ SlotsSuffice

-----------------------------------------------------------------------------
\* What comments and documents say of the program and the program does not do.

\* "A collection that is indexing is never evicted" (docs/CONFIG.md:324).
IndexingIsNeverEvicted ==
  [][\A h \in indexing : ~closing /\ stage[h] = "open" => stage'[h] # "detached"]_vars

\* No service of a collection is started while another one still holds its
\* index directory; reload.go:175-178 says why it must not be.
AtMostOneService == \A g, h \in Live : home[g] = home[h] => g = h

\* Close "closes remaining idle handles and shuts down the zvec runtime", in
\* that order (docs/ARCHITECTURE.md:124).
RuntimeOutlivesServices == runtimeDone => Live = {}

=============================================================================
