------------------------------ MODULE Service ------------------------------
(***************************************************************************)
(* The service of one workspace: its index coordinator (Start, the         *)
(* background run, Close), its vector store handle, searches and status    *)
(* requests that open and recover that handle, the progress file it shares *)
(* with other processes, and the shutdown that closes it all.  An action   *)
(* is one critical section, one call of the file system or of the vector   *)
(* store, or one wait.  internal/service/phase1.go,                        *)
(* internal/indexer/coordinator.go, internal/store/zvec/collection.go      *)
(***************************************************************************)
EXTENDS Naturals, FiniteSets

CONSTANTS
  Requests,   \* requests that call Reindex
  Watchers,   \* callbacks of the file watcher, which call Start
  Readers,    \* requests that search, ask for the status or for readiness
  Closers,    \* calls of Shutdown
  MaxRuns,    \* bound on the runs this process starts
  Casts,      \* bound: the sets of threads that act together; "peer" is in
              \* those where another process works on the same directory
  CloseMayFail, \* whether the vector store may fail to close a handle
  Unix,       \* a directory can be renamed while its files are open
  Leased,     \* daemon: a service is closed only when no request borrows it
  None

Starters == Requests \cup Watchers

ASSUME ServiceAssumption ==
  /\ MaxRuns \in Nat
  /\ CloseMayFail \in BOOLEAN
  /\ Unix \in BOOLEAN /\ Leased \in BOOLEAN
  /\ \A t \in Starters : t \notin Readers \cup Closers
  /\ \A t \in Readers : t \notin Closers
  /\ IsFiniteSet(Readers)
  /\ Requests \cap Watchers = {}
  /\ None \notin Starters \cup Readers \cup Closers
  /\ "run" \notin Starters \cup Readers \cup Closers
  /\ None \notin {"own", "peer", "run"}

VARIABLES
  cast,        \* the threads that act in this behaviour
  interrupted, \* the lifecycle context is cancelled
  running,     \* Coordinator.running
  closed,      \* Coordinator.closed
  closeMu,     \* who holds Coordinator.zvecCloseMu
  indexLock,   \* who holds index.lock: "own" process, "peer" or None
  run,         \* the background goroutine: [phase, force, result]
  runs,        \* how many runs were started
  handle,      \* the store handle: [mode, fresh]; fresh: of the published index
  present,     \* the collection directory exists at its path
  file,        \* progress.json: its state, "running" with the process it speaks of
  peer,        \* another process: away, indexing, ending a run, or lingering
               \* with the collection open for writing
  pc,          \* pc[t]: what thread t is doing
  inner,       \* inner[s]: the goroutine of s that is inside the store
  answer,      \* answer[s]: what it sent back
  wg,          \* Phase1.searchWG
  refusing,    \* Phase1.searchesShuttingDown
  watcherOff,  \* the watcher's stopCh is closed
  idle,        \* idle[c]: [index, searches] as that Shutdown call saw them
  shutdown,    \* Phase1.shutdownState
  embedOpen    \* the embedding client is open

lockVars == <<closeMu, indexLock>>
coordVars == <<running, closed, run, runs>>
storeVars == <<handle, present>>
diskVars == <<file, peer>>
searchVars == <<inner, answer, wg, refusing, watcherOff>>
closeVars == <<idle, shutdown, embedOpen>>
vars == <<cast, interrupted, lockVars, coordVars, storeVars, diskVars, pc, searchVars, closeVars>>

Threads == Starters \cup Readers \cup Closers
Running == {"ownRunning", "peerRunning", "deadRunning"}
NoRun == [phase |-> "none", force |-> FALSE, result |-> "idle"]
Shut == [mode |-> "none", fresh |-> TRUE]
Opened(mode) == [mode |-> mode, fresh |-> TRUE]
IsOpen == handle.mode # "none"

\* The vector store locks a collection that is open for writing elsewhere.
Foreign == peer # "away"

\* What the actions of each part leave alone.
StartFrame == UNCHANGED <<cast, interrupted, searchVars, closeVars>>
RunFrame == UNCHANGED <<cast, interrupted, running, closed, runs, pc, searchVars, closeVars>>
ReaderFrame == UNCHANGED <<cast, interrupted, coordVars, refusing, watcherOff, closeVars>>
SearchFrame == UNCHANGED <<cast, interrupted, lockVars, coordVars, diskVars, refusing, watcherOff, closeVars>>
CloserFrame == UNCHANGED <<cast, running, run, runs, indexLock, diskVars, inner, answer, wg>>

Init ==
  /\ cast \in Casts /\ interrupted = FALSE
  /\ closeMu = None /\ indexLock = None
  /\ running = FALSE /\ closed = FALSE /\ run = NoRun /\ runs = 0
  /\ handle = Shut /\ present \in BOOLEAN
  /\ file \in {"deadRunning", "legacy"} /\ peer = "away"
  /\ pc = [t \in Threads |-> "idle"]
  /\ inner = [s \in Readers |-> "none"] /\ answer = [s \in Readers |-> "none"]
  /\ wg = 0 /\ refusing = FALSE /\ watcherOff = FALSE
  /\ idle = [c \in Closers |-> [index |-> TRUE, searches |-> TRUE]]
  /\ shutdown = 0 /\ embedOpen = TRUE

At(t, where) == pc[t] = where
Goto(t, where) == pc' = [pc EXCEPT ![t] = where]
Idle(T) == \A t \in T : At(t, "idle")

\* A request reaches the service unless the registry has begun to close it.
Admitted == Leased => shutdown = 0 /\ Idle(Closers)

---------------------------------------------------------------------------
(* The store handle.  openCollection(true) answers "ok", "missing" or      *)
(* "locked"; an open handle is kept as it is, whatever it refers to.       *)

OpenAnswer ==
  CASE IsOpen -> "ok" [] ~IsOpen /\ ~present -> "missing"
    [] ~IsOpen /\ present /\ Foreign -> "locked" [] OTHER -> "ok"

OpenReadOnly ==
  /\ handle' = IF OpenAnswer = "ok" /\ ~IsOpen THEN Opened("ro") ELSE handle
  /\ UNCHANGED present

\* Close: the native close may fail, and the handle is then kept.
CloseStore(ok) ==
  /\ handle' = IF ok THEN Shut ELSE handle
  /\ ok \/ (IsOpen /\ CloseMayFail)
  /\ UNCHANGED present

---------------------------------------------------------------------------
(* Coordinator.Start, called by Reindex and by the watcher's callback.     *)

ReindexBegins(t) ==
  /\ t \in Requests \cap cast /\ At(t, "idle") /\ Admitted /\ runs < MaxRuns
  /\ ~running
  /\ Goto(t, "load")
  /\ StartFrame /\ UNCHANGED <<lockVars, coordVars, storeVars, diskVars>>

WatcherBegins(t) ==
  /\ t \in Watchers \cap cast /\ At(t, "idle") /\ runs < MaxRuns
  /\ ~watcherOff /\ ~interrupted /\ ~running
  /\ Goto(t, "load")
  /\ StartFrame /\ UNCHANGED <<lockVars, coordVars, storeVars, diskVars>>

\* RecoverStalledProgress: load and look at the lock, then save.
LoadProgress(t) ==
  /\ At(t, "load")
  /\ Goto(t, IF file \in Running /\ indexLock = None THEN "saveStalled" ELSE "legacy")
  /\ StartFrame /\ UNCHANGED <<lockVars, coordVars, storeVars, diskVars>>

SaveStalled(t) ==
  /\ At(t, "saveStalled")
  /\ file' = "error"
  /\ Goto(t, "legacy")
  /\ StartFrame /\ UNCHANGED <<lockVars, coordVars, storeVars, peer>>

\* RecoverInterruptedProgress.
MigrateLegacy(t) ==
  /\ At(t, "legacy")
  /\ file' = IF file = "legacy" THEN "interrupted" ELSE file
  /\ Goto(t, "desync")
  /\ StartFrame /\ UNCHANGED <<lockVars, coordVars, storeVars, peer>>

\* manifestZvecDesync opens the collection, unless the manifest is empty.
Desync(t) ==
  /\ At(t, "desync")
  /\ OpenReadOnly \/ UNCHANGED storeVars
  /\ Goto(t, "acquire") \/ Goto(t, "idle")
  /\ StartFrame /\ UNCHANGED <<lockVars, coordVars, diskVars>>

AcquireLock(t) ==
  /\ At(t, "acquire")
  /\ IF indexLock = None /\ ~closed /\ ~running
       THEN indexLock' = "own" /\ Goto(t, "closeMu")
       ELSE UNCHANGED indexLock /\ Goto(t, "idle")
  /\ StartFrame /\ UNCHANGED <<closeMu, coordVars, storeVars, diskVars>>

\* With the close mutex taken, closed and running are looked at once more.
GivesUp(t) ==
  /\ At(t, "closeMu") /\ closeMu = None /\ (closed \/ running)
  /\ indexLock' = None
  /\ Goto(t, "idle")
  /\ StartFrame /\ UNCHANGED <<closeMu, coordVars, storeVars, diskVars>>

\* Slip: closed and running are not looked at again under the mutex.
SetsRunningUnseen(t) ==
  /\ At(t, "closeMu") /\ closeMu = None
  /\ closeMu' = t /\ running' = TRUE
  /\ Goto(t, "save")
  /\ StartFrame /\ UNCHANGED <<indexLock, closed, run, runs, storeVars, diskVars>>

SetsRunning(t) ==
  /\ At(t, "closeMu") /\ closeMu = None /\ ~closed /\ ~running
  /\ closeMu' = t /\ running' = TRUE
  /\ Goto(t, "save")
  /\ StartFrame /\ UNCHANGED <<indexLock, closed, run, runs, storeVars, diskVars>>

\* Slip: Start's own deferred unlock still runs after the hand-over.
LaunchesUnowned(t) ==
  /\ At(t, "save")
  /\ file' = "ownRunning"
  /\ \E force \in BOOLEAN : run' = [phase |-> "work", force |-> force, result |-> "idle"]
  /\ closeMu' = None /\ runs' = runs + 1
  /\ Goto(t, "idle")
  /\ StartFrame /\ UNCHANGED <<indexLock, running, closed, storeVars, peer>>

\* The lock and the mutex pass to the goroutine.
Launches(t) ==
  /\ At(t, "save")
  /\ file' = "ownRunning"
  /\ \E force \in BOOLEAN : run' = [phase |-> "work", force |-> force, result |-> "idle"]
  /\ closeMu' = "run" /\ runs' = runs + 1
  /\ Goto(t, "idle")
  /\ StartFrame /\ UNCHANGED <<indexLock, running, closed, storeVars, peer>>

SaveFails(t) ==
  /\ At(t, "save")
  /\ running' = FALSE /\ closeMu' = None
  /\ Goto(t, "unwind")
  /\ StartFrame /\ UNCHANGED <<indexLock, closed, run, runs, storeVars, diskVars>>

Unwinds(t) ==
  /\ At(t, "unwind")
  /\ indexLock' = None
  /\ Goto(t, "idle")
  /\ StartFrame /\ UNCHANGED <<closeMu, coordVars, storeVars, diskVars>>

StartStep(t) ==
  \/ LoadProgress(t) \/ SaveStalled(t) \/ MigrateLegacy(t) \/ Desync(t) \/ AcquireLock(t)
  \/ GivesUp(t) \/ SetsRunning(t) \/ Launches(t) \/ SaveFails(t) \/ Unwinds(t)

---------------------------------------------------------------------------
(* The background run, as far as it uses the handle: it upgrades it, or it *)
(* closes it to publish a staged build and opens it again; then it tears   *)
(* down in the order of the deferred function.                             *)

RunGoes(from, to) == run.phase = from /\ run' = [run EXCEPT !.phase = to]
RunEnds(from, result) ==
  /\ run.phase = from
  /\ run' = [run EXCEPT !.phase = "unlock",
                        !.result = IF interrupted THEN "interrupted" ELSE result]

\* openCollection(false): reopened for writing, created when absent.
RunOpensWritable ==
  /\ run.phase = "work" /\ ~run.force /\ handle.mode # "rw" /\ ~Foreign
  /\ handle' = Opened("rw") /\ present' = TRUE
  /\ RunFrame /\ UNCHANGED <<lockVars, run, diskVars>>

\* The upgrade of a read-only handle fails, and may lose it.
RunLosesHandle ==
  /\ run.phase = "work" /\ ~run.force /\ handle.mode # "rw"
  /\ handle' \in {handle, Shut}
  /\ RunEnds("work", "error")
  /\ RunFrame /\ UNCHANGED <<lockVars, present, diskVars>>

RunFinishes ==
  /\ \E result \in {"idle", "error"} : RunEnds("work", result) /\ (run.force => result = "error")
  /\ RunFrame /\ UNCHANGED <<lockVars, storeVars, diskVars>>

\* promoteStaging closes the active handle first.
PromoteCloses ==
  /\ run.force /\ ~interrupted
  /\ \/ RunGoes("work", "moveOld") /\ CloseStore(TRUE)
     \/ RunEnds("work", "error") /\ CloseStore(FALSE)
  /\ RunFrame /\ UNCHANGED <<lockVars, diskVars>>

\* Slip: as on a system where an open file does not matter.
RenameFree == present /\ FALSE

\* An open file keeps its directory from being renamed, except on Unix.
RenameBlocked == present /\ IsOpen /\ ~Unix

\* The first rename, of the active collection.
PromoteMoves ==
  /\ \/ RunGoes("moveOld", "moveNew") /\ ~RenameBlocked /\ present' = FALSE
     \/ RunGoes("moveOld", "restore") /\ present /\ UNCHANGED present
  /\ RunFrame /\ UNCHANGED <<lockVars, handle, diskVars>>

\* The second rename publishes the build: a handle that was opened before the
\* first one refers to a directory that is no longer there.  The old collection
\* may then fail to be deleted, which counts as a failed promotion.
PromotePublishes ==
  /\ RunGoes("moveNew", "reopen") \/ RunGoes("moveNew", "restore")
  /\ present' = TRUE
  /\ handle' = [handle EXCEPT !.fresh = ~IsOpen]
  /\ RunFrame /\ UNCHANGED <<lockVars, diskVars>>

\* It fails, and the active collection is moved back if that succeeds.
PromoteFails ==
  /\ RunGoes("moveNew", "restore")
  /\ present' \in BOOLEAN
  /\ RunFrame /\ UNCHANGED <<lockVars, handle, diskVars>>

\* c.Zvec.Open() after a promotion, and after one that failed; not after a
\* manifest that could not be promoted.
PromoteReopens ==
  /\ \/ RunEnds("reopen", IF OpenAnswer = "ok" THEN "idle" ELSE "error") /\ OpenReadOnly
     \/ RunEnds("restore", "error") /\ OpenReadOnly
     \/ RunEnds("reopen", "error") /\ UNCHANGED storeVars
  /\ RunFrame /\ UNCHANGED <<lockVars, diskVars>>

RunUnlocks ==
  /\ RunGoes("unlock", "release")
  /\ indexLock' = None
  /\ RunFrame /\ UNCHANGED <<closeMu, storeVars, diskVars>>

\* Slips: the teardown that forgets the final save, and the one that returns
\* with the mutex held.
RunReleasesUnsaved ==
  /\ RunGoes("release", "done")
  /\ closeMu' = None
  /\ RunFrame /\ UNCHANGED <<indexLock, storeVars, diskVars>>

RunReleasesNothing ==
  /\ RunGoes("release", "finalSave")
  /\ RunFrame /\ UNCHANGED <<lockVars, storeVars, diskVars>>

RunReleases ==
  /\ RunGoes("release", "finalSave")
  /\ closeMu' = None
  /\ RunFrame /\ UNCHANGED <<indexLock, storeVars, diskVars>>

\* The final write; one that fails is logged.
RunSaves ==
  /\ RunGoes("finalSave", "done")
  /\ \/ file' = run.result
     \/ file' = IF file = "ownRunning" THEN "deadRunning" ELSE file
  /\ RunFrame /\ UNCHANGED <<lockVars, storeVars, peer>>

RunStops ==
  /\ run.phase = "done"
  /\ run' = NoRun /\ running' = FALSE
  /\ UNCHANGED <<cast, interrupted, lockVars, closed, runs, storeVars, diskVars, pc, searchVars, closeVars>>

RunStep ==
  \/ RunOpensWritable \/ RunLosesHandle \/ RunFinishes \/ PromoteCloses \/ PromoteMoves
  \/ PromotePublishes \/ PromoteFails \/ PromoteReopens
  \/ RunUnlocks \/ RunReleases \/ RunSaves \/ RunStops

---------------------------------------------------------------------------
(* index_status and readiness open the collection; on a lock error they    *)
(* stop the other process, close their own handle unless indexing holds    *)
(* it, and open again.  A search recovers in the same way.                 *)

Recovering == {"kill", "tryClose", "reopen"}
Searching(t) == answer[t] = "locked"
Recovered(t) == Goto(t, IF Searching(t) THEN "relaunch" ELSE "reopen") /\ UNCHANGED <<answer, wg>>

\* The request is over; a search is counted off.
Leaves(t) ==
  /\ Goto(t, "idle")
  /\ answer' = [answer EXCEPT ![t] = "none"]
  /\ wg' = IF pc[t] \in Recovering /\ ~Searching(t) THEN wg ELSE wg - 1

Probe(t) ==
  /\ t \in cast /\ At(t, "idle") /\ Admitted /\ inner[t] = "none"
  /\ OpenReadOnly
  /\ IF OpenAnswer = "locked" THEN Goto(t, "kill") ELSE UNCHANGED pc
  /\ ReaderFrame /\ UNCHANGED <<lockVars, file, peer, inner, answer, wg>>

\* What is left when the other process dies or is stopped.
PeerGone ==
  /\ peer' = "away"
  /\ file' = IF file = "peerRunning" THEN "deadRunning" ELSE file
  /\ indexLock' = IF indexLock = "peer" THEN None ELSE indexLock

\* RecoverDuplicateStdio stops the other process, or fails.
KillDuplicates(t) ==
  /\ At(t, "kill")
  /\ \/ PeerGone /\ Goto(t, "tryClose") /\ UNCHANGED <<answer, wg>>
     \/ UNCHANGED <<peer, file, indexLock>> /\ Leaves(t)
  /\ ReaderFrame /\ UNCHANGED <<closeMu, handle, present, inner>>

\* Slip: the recovery closes the handle without asking for the mutex.
RecoveryClosesAnyway(t) ==
  /\ At(t, "tryClose") /\ t \in Readers
  /\ \/ CloseStore(TRUE) /\ Recovered(t)
     \/ CloseStore(FALSE) /\ Leaves(t)
  /\ ReaderFrame /\ UNCHANGED <<lockVars, diskVars, inner>>

\* TryLock, Close, Unlock; skipped while indexing holds the mutex.
RecoveryCloses(t) ==
  /\ At(t, "tryClose") /\ t \in Readers
  /\ \/ closeMu # None /\ UNCHANGED storeVars /\ Recovered(t)
     \/ closeMu = None /\ CloseStore(TRUE) /\ Recovered(t)
     \/ closeMu = None /\ CloseStore(FALSE) /\ Leaves(t)
  /\ ReaderFrame /\ UNCHANGED <<lockVars, diskVars, inner>>

Reopens(t) ==
  /\ At(t, "reopen")
  /\ OpenReadOnly
  /\ Goto(t, "idle")
  /\ ReaderFrame /\ UNCHANGED <<lockVars, file, peer, inner, answer, wg>>

RecoveryStep(t) == KillDuplicates(t) \/ RecoveryCloses(t) \/ Reopens(t)

---------------------------------------------------------------------------
(* A search counts itself twice: the request, and the goroutine that stays *)
(* in the store when the request is cancelled.                             *)

SearchBegins(s) ==
  /\ s \in cast /\ At(s, "idle") /\ Admitted /\ inner[s] = "none"
  /\ ~refusing
  /\ wg' = wg + 1
  /\ Goto(s, "launch")
  /\ SearchFrame /\ UNCHANGED <<storeVars, inner, answer>>

\* The query is embedded; the second beginSearch may be refused.
SearchLaunches(s) ==
  /\ pc[s] \in {"launch", "relaunch"} /\ inner[s] = "none" /\ ~refusing
  /\ inner' = [inner EXCEPT ![s] = "open"]
  /\ answer' = [answer EXCEPT ![s] = "none"]
  /\ wg' = wg + 1
  /\ Goto(s, IF At(s, "launch") THEN "await" ELSE "reawait")
  /\ SearchFrame /\ UNCHANGED storeVars

\* Answered, cancelled, refused by the embedder or by the second beginSearch.
SearchEnds(s) ==
  /\ pc[s] \in {"launch", "await", "relaunch", "reawait"}
  /\ Leaves(s)
  /\ SearchFrame /\ UNCHANGED <<storeVars, inner>>

SearchRecovers(s) ==
  /\ At(s, "await") /\ answer[s] = "locked"
  /\ Goto(s, "kill")
  /\ SearchFrame /\ UNCHANGED <<storeVars, inner, answer, wg>>

Answers(s, res) ==
  /\ inner' = [inner EXCEPT ![s] = "none"]
  /\ answer' = [answer EXCEPT ![s] = IF pc[s] \in {"await", "reawait"} THEN res ELSE @]
  /\ wg' = wg - 1

\* CollectionStore.Search opens first and takes the mutex again to query.
InnerOpens(s) ==
  /\ inner[s] = "open"
  /\ OpenReadOnly
  /\ IF OpenAnswer = "ok" THEN inner' = [inner EXCEPT ![s] = "query"] /\ UNCHANGED <<answer, wg>>
                          ELSE Answers(s, OpenAnswer)
  /\ SearchFrame /\ UNCHANGED pc

InnerQueries(s) ==
  /\ inner[s] = "query"
  /\ Answers(s, IF IsOpen THEN "ok" ELSE "missing")
  /\ SearchFrame /\ UNCHANGED <<pc, storeVars>>

InnerStep(s) == InnerOpens(s) \/ InnerQueries(s)

---------------------------------------------------------------------------
(* Phase1.Shutdown.                                                        *)

ShutdownBegins(c) ==
  /\ c \in Closers \cap cast /\ At(c, "idle") /\ shutdown # 2
  /\ Leased => Idle(Requests \cup Readers)
  /\ shutdown' = 1 /\ refusing' = TRUE
  /\ interrupted' \in {interrupted, TRUE}
  /\ Goto(c, "stopWatcher")
  /\ CloserFrame /\ UNCHANGED <<closed, closeMu, storeVars, watcherOff, idle, embedOpen>>

\* Stop returns at once when stopCh is closed already, by an earlier Stop or
\* by the end of the context; else it closes it and waits for the callbacks.
StopWatcher(c) ==
  /\ At(c, "stopWatcher")
  /\ watcherOff' = TRUE
  /\ \/ Goto(c, "awaitWatcher") /\ ~watcherOff
     \/ Goto(c, "waitIdle") /\ (watcherOff \/ interrupted)
  /\ CloserFrame /\ UNCHANGED <<interrupted, closed, closeMu, storeVars, refusing, closeVars>>

WatcherStopped(c) ==
  /\ At(c, "awaitWatcher") /\ Idle(Watchers)
  /\ Goto(c, "waitIdle")
  /\ CloserFrame /\ UNCHANGED <<interrupted, closed, closeMu, storeVars, refusing, watcherOff, closeVars>>

WaitForIdle(c) ==
  /\ At(c, "waitIdle")
  /\ \/ ~running /\ Goto(c, "coordClose") /\ UNCHANGED idle
     \/ Goto(c, "waitSearch") /\ idle' = [idle EXCEPT ![c].index = FALSE]
  /\ CloserFrame
  /\ UNCHANGED <<interrupted, closed, closeMu, storeVars, refusing, watcherOff, shutdown, embedOpen>>

\* Coordinator.Close takes the close mutex, which a run holds to its end.
CloseCoordinator(c) ==
  /\ At(c, "coordClose") /\ closeMu = None
  /\ closed' = TRUE
  /\ Goto(c, "waitSearch")
  /\ CloserFrame /\ UNCHANGED <<interrupted, closeMu, storeVars, refusing, watcherOff, closeVars>>

WaitSearches(c) ==
  /\ At(c, "waitSearch")
  /\ \/ wg = 0 /\ Goto(c, "tryClose") /\ UNCHANGED idle
     \/ Goto(c, "embed") /\ idle' = [idle EXCEPT ![c].searches = FALSE]
  /\ CloserFrame
  /\ UNCHANGED <<interrupted, closed, closeMu, storeVars, refusing, watcherOff, shutdown, embedOpen>>

\* Close under the mutex, which is kept until Shutdown returns.
ShutdownCloses(c) ==
  /\ At(c, "tryClose") /\ c \in Closers
  /\ \/ closeMu = None /\ closeMu' = c /\ \E ok \in BOOLEAN : CloseStore(ok)
     \/ closeMu # None /\ UNCHANGED <<closeMu, storeVars>>
  /\ Goto(c, "embed")
  /\ CloserFrame /\ UNCHANGED <<interrupted, closed, refusing, watcherOff, closeVars>>

\* The embedder is closed when all is idle; closed for good when the store is too.
ShutdownReturns(c) ==
  /\ At(c, "embed")
  /\ LET quiet == idle[c].index /\ idle[c].searches IN
       /\ embedOpen' = (embedOpen /\ ~quiet)
       /\ shutdown' = IF quiet /\ closeMu = c THEN 2 ELSE shutdown
  /\ closeMu' = IF closeMu = c THEN None ELSE closeMu
  /\ idle' = [idle EXCEPT ![c] = [index |-> TRUE, searches |-> TRUE]]
  /\ Goto(c, "idle")
  /\ CloserFrame /\ UNCHANGED <<interrupted, closed, storeVars, refusing, watcherOff>>

ShutdownStep(c) ==
  \/ StopWatcher(c) \/ WatcherStopped(c) \/ WaitForIdle(c) \/ CloseCoordinator(c)
  \/ WaitSearches(c) \/ ShutdownCloses(c) \/ ShutdownReturns(c)

---------------------------------------------------------------------------
(* Another process on the same directory, which writes the same progress   *)
(* file and excludes this one by the same locks.                           *)

PeerFrame ==
  UNCHANGED <<cast, interrupted, closeMu, coordVars, storeVars, pc, searchVars, closeVars>>

PeerIndexes ==
  /\ "peer" \in cast /\ peer \in {"away", "lingering"} /\ indexLock = None
  /\ peer = "away" => ~IsOpen
  /\ peer' = "indexing" /\ indexLock' = "peer" /\ file' = "peerRunning"
  /\ PeerFrame

PeerUnlocks ==
  /\ peer = "indexing"
  /\ peer' = "ending" /\ indexLock' = None
  /\ PeerFrame /\ UNCHANGED file

PeerFinishes ==
  /\ peer = "ending"
  /\ peer' = "lingering" /\ file' = "idle"
  /\ PeerFrame /\ UNCHANGED indexLock

PeerDies == peer # "away" /\ PeerGone /\ PeerFrame

PeerStep == PeerIndexes \/ PeerUnlocks \/ PeerFinishes \/ PeerDies

Next ==
  \/ \E t \in Starters : ReindexBegins(t) \/ WatcherBegins(t) \/ StartStep(t)
  \/ RunStep
  \/ \E t \in Readers : Probe(t) \/ RecoveryStep(t)
  \/ \E s \in Readers : \/ SearchBegins(s) \/ SearchLaunches(s) \/ SearchEnds(s)
                          \/ SearchRecovers(s) \/ InnerStep(s)
  \/ \E c \in Closers : ShutdownBegins(c) \/ ShutdownStep(c)
  \/ PeerStep

\* Goroutines are scheduled and a mutex is granted in the end (sync.Mutex
\* hands over to a waiter that starves); nothing makes requests arrive.
Fairness ==
  /\ WF_vars(RunStep)
  /\ \A t \in Starters : SF_vars(StartStep(t))
  /\ \A c \in Closers : SF_vars(ShutdownStep(c))

Spec == Init /\ [][Next]_vars /\ Fairness

---------------------------------------------------------------------------
RunPhases == {"work", "moveOld", "moveNew", "restore", "reopen"}
StartPcs == {"idle", "load", "saveStalled", "legacy", "desync", "acquire", "closeMu", "save",
             "unwind"}
ReaderPcs == {"idle", "launch", "await", "kill", "tryClose", "reopen", "relaunch", "reawait"}
ClosePcs == {"idle", "stopWatcher", "awaitWatcher", "waitIdle", "coordClose", "waitSearch",
             "tryClose", "embed"}

TypeOK ==
  /\ cast \in Casts /\ interrupted \in BOOLEAN
  /\ closeMu \in Threads \cup {"run", None}
  /\ indexLock \in {"own", "peer", None}
  /\ running \in BOOLEAN /\ closed \in BOOLEAN
  /\ run \in [phase : RunPhases \cup {"none", "unlock", "release", "finalSave", "done"},
              force : BOOLEAN, result : {"idle", "error", "interrupted"}]
  /\ runs \in Nat
  /\ handle \in [mode : {"none", "ro", "rw"}, fresh : BOOLEAN]
  /\ present \in BOOLEAN
  /\ file \in Running \cup {"idle", "error", "interrupted", "legacy"}
  /\ peer \in {"away", "indexing", "ending", "lingering"}
  /\ pc \in [Threads -> StartPcs \cup ReaderPcs \cup ClosePcs]
  /\ inner \in [Readers -> {"none", "open", "query"}]
  /\ answer \in [Readers -> {"none", "ok", "missing", "locked"}]
  /\ wg \in Nat /\ refusing \in BOOLEAN /\ watcherOff \in BOOLEAN
  /\ idle \in [Closers -> [index : BOOLEAN, searches : BOOLEAN]]
  /\ shutdown \in 0..2 /\ embedOpen \in BOOLEAN

\* The run's own thread of control, or the Start that prepares it, is the one
\* holder of the close mutex, of the process's index lock and of running.
\* Another process holds the index lock while it indexes.
OneIndexer ==
  /\ (closeMu = "run") <=> run.phase \in RunPhases \cup {"unlock", "release"}
  /\ run.phase \in RunPhases \cup {"unlock"} => indexLock = "own"
  /\ run.phase # "none" => running
  /\ \A t \in Starters : (closeMu = t) <=> pc[t] = "save"
  /\ \A t \in Starters : pc[t] \in {"closeMu", "save", "unwind"} =>
       /\ indexLock = "own"
       /\ run.phase \notin RunPhases \cup {"unlock"}
       /\ \A u \in Starters : pc[u] \in {"closeMu", "save", "unwind"} => u = t
  /\ \A t \in Starters : pc[t] = "save" => running /\ run.phase = "none"
  /\ closeMu \notin Readers
  /\ \A c \in Closers : closeMu = c => pc[c] = "embed"
  /\ indexLock = "peer" <=> peer = "indexing"

\* Shutdown closes the coordinator, with nothing indexing, before it goes on.
ClosedMeansQuiet ==
  /\ closed => run.phase \notin RunPhases \cup {"unlock", "release"}
  /\ closed => \A t \in Starters : pc[t] # "save"
  /\ \A c \in Closers : pc[c] \in {"waitSearch", "tryClose", "embed"} /\ idle[c].index => closed
  /\ ~embedOpen \/ shutdown = 2 => closed

InSearch(s) == pc[s] \notin Recovering \cup {"idle"} \/ (pc[s] \in Recovering /\ Searching(s))

SearchesCounted ==
  /\ wg = Cardinality({s \in Readers : InSearch(s)}) + Cardinality({s \in Readers : inner[s] # "none"})
  /\ \A c \in Closers : pc[c] # "idle" => refusing
  /\ \A c \in Closers : pc[c] = "tryClose" => wg = 0
  /\ \A c \in Closers : pc[c] = "embed" /\ idle[c].searches => wg = 0
  /\ ~embedOpen \/ shutdown = 2 => refusing /\ wg = 0

\* What a search was told is forgotten before its thread does anything else, so
\* a recovery belongs to a search exactly when the answer is "locked".
AnswersAgree ==
  \A s \in Readers :
    /\ pc[s] \in {"idle", "launch", "reopen"} => answer[s] = "none"
    /\ pc[s] \in {"kill", "tryClose"} => answer[s] \in {"none", "locked"}

\* The progress file is this process's while its run has not saved the result.
FileAgrees ==
  /\ file = "ownRunning" => run.phase \notin {"none", "done"}
  /\ file = "peerRunning" => peer \in {"indexing", "ending"}

\* Where an open file keeps its directory, an open handle has one, and nothing
\* is open while the promotion has moved the collection away.
HandleAgrees ==
  /\ run.phase = "moveNew" => ~present
  /\ ~Unix => handle.fresh /\ (IsOpen => present)

SInv ==
  /\ TypeOK /\ OneIndexer /\ ClosedMeansQuiet /\ SearchesCounted
  /\ AnswersAgree /\ FileAgrees /\ HandleAgrees

(* A service that reports itself closed, or whose embedding client Shutdown *)
(* has freed (also when it could not take the close mutex), has no run that *)
(* could still touch the store or the embedder, no search in flight and no *)
(* way to get one, whatever timed out before (phase1.go:722-790).          *)
ClosedServiceIsQuiet ==
  ~embedOpen \/ shutdown = 2 =>
    /\ run.phase \notin RunPhases
    /\ \A t \in Starters : pc[t] # "save"
    /\ \A s \in Readers : ~InSearch(s) /\ inner[s] = "none"

(* Where a rename is refused while a file is open, the handle is always of *)
(* the published index, however searches and promotions interleave.        *)
HandleIsCurrent == ~Unix => handle.fresh

(* A progress file that says "running" has a process behind it, unless one *)
(* died or failed to write: no recovery, teardown or second process leaves *)
(* it so by the order of their writes (coordinator.go:248, recover.go:17). *)
RunningFileHasRunner ==
  /\ file = "ownRunning" => running
  /\ file = "peerRunning" => peer \in {"indexing", "ending"}

(* Between the start of a run and its teardown no other thread closes the  *)
(* handle: shutdown and lock recovery give way (phase1.go:748, 885).       *)
StoreNotClosedUnderRun ==
  [][run.phase \in RunPhases /\ IsOpen /\ handle'.mode = "none" => run' # run]_vars

(* A Shutdown returns, though Coordinator.Close waits for the close mutex  *)
(* without a deadline: whoever holds it lets go (coordinator.go:110).      *)
ShutdownAlwaysReturns == \A c \in Closers : pc[c] # "idle" ~> pc[c] = "idle"

(* After Stop the watcher triggers no new job, "which lets a service       *)
(* shutdown safely release native resources (tree-sitter handles, zvec)    *)
(* without racing the watcher" (watcher.go:165): in the daemon, a closed   *)
(* service holds no handle.                                                *)
ClosedServiceHoldsNoHandle == Leased /\ shutdown = 2 => ~IsOpen
=============================================================================
