--------------------------- MODULE ServiceProofs ---------------------------
(***************************************************************************)
(* SInv of Service is inductive.  Next falls into the steps of a Start, of  *)
(* the background run, of a request, of a Shutdown and of the other         *)
(* process; for each a lemma says that it preserves SInv.  Sums over sets   *)
(* of requests are compared through the one request that moves.             *)
(***************************************************************************)
EXTENDS Service, TLAPS, FiniteSetTheorems

\* The steps of one caller of Start, of one request, of one Shutdown.
StarterStep(t) == ReindexBegins(t) \/ WatcherBegins(t) \/ StartStep(t)
ReaderStep(s) ==
  \/ Probe(s) \/ RecoveryStep(s) \/ SearchBegins(s) \/ SearchLaunches(s) \/ SearchEnds(s)
  \/ SearchRecovers(s) \/ InnerStep(s)
CloserStep(c) == ShutdownBegins(c) \/ ShutdownStep(c)

USE ServiceAssumption DEF Threads, At, Goto, lockVars, coordVars, storeVars, diskVars,
  searchVars, closeVars, Running, StartFrame, RunFrame, ReaderFrame, SearchFrame, CloserFrame, PeerFrame

\* What RunGoes makes of the run, as a record.
LEMMA GoesOn ==
  ASSUME TypeOK, NEW from, NEW to, RunGoes(from, to)
  PROVE  run.phase = from /\ run' = [phase |-> to, force |-> run.force, result |-> run.result]
BY DEF RunGoes, TypeOK

\* A run that ends goes to its unlock, whatever it reports.
LEMMA EndsWith ==
  ASSUME TypeOK, NEW from, NEW result \in {"idle", "error"}, RunEnds(from, result)
  PROVE  /\ run.phase = from
         /\ \E r \in {"idle", "error", "interrupted"} :
              run' = [phase |-> "unlock", force |-> run.force, result |-> r]
<1> DEFINE r == IF interrupted THEN "interrupted" ELSE result
<1>1. r \in {"idle", "error", "interrupted"}
  OBVIOUS
<1>2. run' = [run EXCEPT !.phase = "unlock", !.result = r] /\ run.phase = from
  BY DEF RunEnds
<1>3. run \in [phase : RunPhases \cup {"none", "unlock", "release", "finalSave", "done"},
               force : BOOLEAN, result : {"idle", "error", "interrupted"}]
  BY DEF TypeOK
<1> HIDE DEF r
<1>4. run' = [phase |-> "unlock", force |-> run.force, result |-> r]
  BY <1>2, <1>3, Zenon
<1> QED BY <1>1, <1>2, <1>4

\* openCollection(true) keeps an open handle and opens one only where a
\* collection is.
LEMMA ReadOnlyOpen ==
  ASSUME OpenReadOnly
  PROVE  present' = present /\ (handle' = handle \/ (~IsOpen /\ present /\ handle' = Opened("ro")))
<1>1. OpenAnswer = "ok" /\ ~IsOpen => present
  BY Zenon DEF OpenAnswer
<1> QED BY <1>1 DEF OpenReadOnly

\* What TypeOK says of the handle.
Handles == [mode : {"none", "ro", "rw"}, fresh : BOOLEAN]

\* The handles the actions assign.
LEMMA HandleValues == Opened("ro") \in Handles /\ Opened("rw") \in Handles /\ Shut \in Handles
BY Zenon DEF Handles, Opened, Shut

\* Opening keeps the types.
LEMMA OpenedHandle ==
  ASSUME TypeOK, OpenReadOnly
  PROVE  handle' \in Handles /\ present' \in BOOLEAN
<1>1. handle \in Handles /\ present \in BOOLEAN
  BY Zenon DEF TypeOK, Handles
<1> QED BY <1>1, ReadOnlyOpen, HandleValues

\* The second rename: the collection is there, an open handle is stale.
LEMMA Publishing ==
  ASSUME TypeOK, PromotePublishes
  PROVE  /\ RunGoes("moveNew", "reopen") \/ RunGoes("moveNew", "restore")
         /\ handle' \in Handles /\ handle'.fresh = ~IsOpen /\ handle'.mode = handle.mode
         /\ present' /\ present' \in BOOLEAN
         /\ RunFrame /\ UNCHANGED <<lockVars, diskVars>>
BY Zenon DEF PromotePublishes, TypeOK, Handles

\* The first rename: it needs that no open file blocks it.
LEMMA Moving ==
  ASSUME TypeOK, PromoteMoves
  PROVE  /\ \/ RunGoes("moveOld", "moveNew") /\ ~RenameBlocked /\ ~present'
            \/ RunGoes("moveOld", "restore") /\ present' = present
         /\ present' \in BOOLEAN
         /\ handle' = handle /\ RunFrame /\ UNCHANGED <<lockVars, diskVars>>
BY Zenon DEF PromoteMoves, TypeOK

\* promoteStaging closes the handle, or the close fails and the run ends.
LEMMA Closing ==
  ASSUME PromoteCloses
  PROVE  /\ \/ RunGoes("work", "moveOld") /\ handle' = Shut
            \/ RunEnds("work", "error") /\ handle' = handle
         /\ present' = present /\ RunFrame /\ UNCHANGED <<lockVars, diskVars>>
BY Zenon DEF PromoteCloses, CloseStore

\* Coordinator.Start keeps the types.
LEMMA StarterType ==
  ASSUME TypeOK, NEW t \in Starters, StarterStep(t)
  PROVE  TypeOK'
<1> USE DEF TypeOK, StartPcs
<1>b. running' \in BOOLEAN
  BY Zenon DEF StarterStep, StartStep, ReindexBegins, WatcherBegins, LoadProgress, SaveStalled,
     MigrateLegacy, Desync, AcquireLock, GivesUp, SetsRunning, Launches, SaveFails, Unwinds
<1>1. CASE ReindexBegins(t) \/ WatcherBegins(t) \/ LoadProgress(t)
  BY <1>1 DEF ReindexBegins, WatcherBegins, LoadProgress
<1>2. CASE SaveStalled(t) \/ MigrateLegacy(t)
  BY <1>2 DEF SaveStalled, MigrateLegacy
<1>3. CASE Desync(t)
  <2>1. handle' \in Handles /\ present' \in BOOLEAN
    BY <1>3, OpenedHandle, Zenon DEF Desync, Handles
  <2> QED BY <1>3, <2>1 DEF Desync, Handles
<1>4. CASE AcquireLock(t) \/ GivesUp(t) \/ SetsRunning(t)
  BY <1>4, <1>b DEF AcquireLock, GivesUp, SetsRunning
<1>5. CASE SaveFails(t) \/ Unwinds(t)
  BY <1>5, <1>b DEF SaveFails, Unwinds
<1>6. CASE Launches(t)
  BY <1>6 DEF Launches, RunPhases
<1> QED BY <1>1, <1>2, <1>3, <1>4, <1>5, <1>6 DEF StarterStep, StartStep

\* Start takes the close mutex, the index lock and running one at a time.
LEMMA StarterOneIndexer ==
  ASSUME SInv, NEW t \in Starters, StarterStep(t)
  PROVE  OneIndexer'
<1> USE DEF SInv, TypeOK, OneIndexer
<1>1. CASE ReindexBegins(t) \/ WatcherBegins(t)
  BY <1>1 DEF ReindexBegins, WatcherBegins
<1>2. CASE LoadProgress(t) \/ SaveStalled(t) \/ MigrateLegacy(t) \/ Desync(t)
  BY <1>2 DEF LoadProgress, SaveStalled, MigrateLegacy, Desync
<1>3. CASE AcquireLock(t)
  BY <1>3 DEF AcquireLock
<1>4. CASE GivesUp(t)
  BY <1>4 DEF GivesUp
<1>5. CASE SetsRunning(t)
  BY <1>5 DEF SetsRunning
<1>6. CASE SaveFails(t) \/ Unwinds(t)
  BY <1>6 DEF SaveFails, Unwinds
<1>7. CASE Launches(t)
  BY <1>7 DEF Launches, RunPhases
<1> QED BY <1>1, <1>2, <1>3, <1>4, <1>5, <1>6, <1>7 DEF StarterStep, StartStep

\* Start saves nothing once the coordinator is closed.
LEMMA StarterClosed ==
  ASSUME SInv, NEW t \in Starters, StarterStep(t)
  PROVE  ClosedMeansQuiet'
<1> USE DEF SInv, TypeOK, ClosedMeansQuiet
<1>1. CASE ReindexBegins(t) \/ WatcherBegins(t)
  BY <1>1 DEF ReindexBegins, WatcherBegins
<1>2. CASE LoadProgress(t) \/ SaveStalled(t) \/ MigrateLegacy(t) \/ Desync(t)
  BY <1>2 DEF LoadProgress, SaveStalled, MigrateLegacy, Desync
<1>3. CASE AcquireLock(t) \/ GivesUp(t) \/ SetsRunning(t)
  BY <1>3 DEF AcquireLock, GivesUp, SetsRunning
<1>6. CASE SaveFails(t) \/ Unwinds(t)
  BY <1>6 DEF SaveFails, Unwinds
<1>7. CASE Launches(t)
  BY <1>7 DEF Launches, RunPhases
<1> QED BY <1>1, <1>2, <1>3, <1>6, <1>7 DEF StarterStep, StartStep

\* Start touches no other thread, no search and nothing of Shutdown.
LEMMA StarterRest ==
  ASSUME SInv, NEW t \in Starters, StarterStep(t)
  PROVE  /\ UNCHANGED <<cast, interrupted, inner, answer, wg, refusing, watcherOff, closeVars>>
         /\ \A u \in Threads \ {t} : pc'[u] = pc[u]
<1> USE DEF SInv, TypeOK
<1>1. CASE ReindexBegins(t) \/ WatcherBegins(t)
  BY <1>1 DEF ReindexBegins, WatcherBegins
<1>2. CASE LoadProgress(t) \/ SaveStalled(t) \/ MigrateLegacy(t) \/ Desync(t)
  BY <1>2 DEF LoadProgress, SaveStalled, MigrateLegacy, Desync
<1>3. CASE AcquireLock(t) \/ GivesUp(t) \/ SetsRunning(t)
  BY <1>3 DEF AcquireLock, GivesUp, SetsRunning
<1>6. CASE SaveFails(t) \/ Unwinds(t) \/ Launches(t)
  BY <1>6 DEF SaveFails, Unwinds, Launches
<1> QED BY <1>1, <1>2, <1>3, <1>6 DEF StarterStep, StartStep

\* Start writes "running" only when its run takes over; the handle it opens
\* has a directory.
LEMMA StarterDisk ==
  ASSUME SInv, NEW t \in Starters, StarterStep(t)
  PROVE  FileAgrees' /\ HandleAgrees'
<1> USE DEF SInv, TypeOK, FileAgrees, HandleAgrees
<1>1. CASE ReindexBegins(t) \/ WatcherBegins(t) \/ LoadProgress(t)
  BY <1>1 DEF ReindexBegins, WatcherBegins, LoadProgress, IsOpen
<1>2. CASE SaveStalled(t) \/ MigrateLegacy(t)
  BY <1>2 DEF SaveStalled, MigrateLegacy, IsOpen
<1>3. CASE Desync(t)
  BY <1>3, ReadOnlyOpen DEF Desync, IsOpen, Opened
<1>4. CASE AcquireLock(t) \/ GivesUp(t) \/ SetsRunning(t)
  BY <1>4 DEF AcquireLock, GivesUp, SetsRunning, IsOpen
<1>5. CASE SaveFails(t) \/ Unwinds(t)
  BY <1>5 DEF SaveFails, Unwinds, IsOpen, OneIndexer
<1>6. CASE Launches(t)
  BY <1>6 DEF Launches, IsOpen, OneIndexer
<1> QED BY <1>1, <1>2, <1>3, <1>4, <1>5, <1>6 DEF StarterStep, StartStep

\* The search count holds while no request and no Shutdown moves.
LEMMA CountsKept ==
  ASSUME SearchesCounted, UNCHANGED <<inner, wg, refusing, closeVars>>,
         \A s \in Readers : pc'[s] = pc[s] /\ answer'[s] = answer[s],
         \A c \in Closers : pc'[c] = pc[c]
  PROVE  SearchesCounted'
BY DEF SearchesCounted, InSearch, Searching

\* A step of Start preserves the invariant.
LEMMA StarterKeeps ==
  ASSUME SInv, NEW t \in Starters, StarterStep(t)
  PROVE  SInv'
<1>1. SearchesCounted' /\ AnswersAgree'
  BY StarterRest, CountsKept DEF AnswersAgree, SInv
<1> QED BY <1>1, StarterType, StarterOneIndexer, StarterClosed, StarterDisk DEF SInv

\* What TypeOK says of the run.
RunType(r) ==
  r \in [phase : RunPhases \cup {"none", "unlock", "release", "finalSave", "done"},
         force : BOOLEAN, result : {"idle", "error", "interrupted"}]

\* What the run assigns to its record, the handle and the directory.
LEMMA RunStepTypes ==
  ASSUME TypeOK, RunStep
  PROVE  RunType(run') /\ handle' \in Handles /\ present' \in BOOLEAN
<1> USE DEF RunPhases
<1>a. RunType(run) /\ handle \in Handles /\ present \in BOOLEAN
  BY Zenon DEF TypeOK, Handles, RunType
<1>b. run.force \in BOOLEAN /\ run.result \in {"idle", "error", "interrupted"}
  BY <1>a DEF RunType
<1>1. CASE RunOpensWritable
  BY <1>1, <1>a, HandleValues, Zenon DEF RunOpensWritable
<1>2. CASE RunLosesHandle
  BY <1>2, <1>a, <1>b, EndsWith, HandleValues DEF RunLosesHandle, RunType
<1>3. CASE RunFinishes
  BY <1>3, <1>a, <1>b, EndsWith DEF RunFinishes, RunType
<1>4. CASE PromoteCloses
  BY <1>4, <1>a, <1>b, GoesOn, EndsWith, Closing, HandleValues DEF RunType
<1>5. CASE PromoteMoves
  BY <1>5, <1>a, <1>b, GoesOn, Moving DEF RunType
<1>6. CASE PromotePublishes
  BY <1>6, <1>b, GoesOn, Publishing DEF RunType
<1>7. CASE PromoteFails
  BY <1>7, <1>a, <1>b, GoesOn DEF PromoteFails, RunType
<1>8. CASE PromoteReopens
  <2>1. handle' \in Handles /\ present' \in BOOLEAN
    BY <1>8, <1>a, OpenedHandle, Zenon DEF PromoteReopens
  <2>2. \E r \in {"idle", "error", "interrupted"} :
          run' = [phase |-> "unlock", force |-> run.force, result |-> r]
    BY <1>8, EndsWith DEF PromoteReopens
  <2> QED BY <2>1, <2>2, <1>b DEF RunType
<1>9. CASE RunUnlocks \/ RunReleases \/ RunSaves
  BY <1>9, <1>a, <1>b, GoesOn DEF RunUnlocks, RunReleases, RunSaves, RunType
<1>10. CASE RunStops
  BY <1>10, <1>a DEF RunStops, NoRun, RunType
<1> QED BY <1>1, <1>2, <1>3, <1>4, <1>5, <1>6, <1>7, <1>8, <1>9, <1>10 DEF RunStep

\* A step of the run keeps the types.
LEMMA RunTypes ==
  ASSUME TypeOK, RunStep
  PROVE  TypeOK'
<1> USE RunStepTypes DEF TypeOK, Handles, RunType
<1>b. running' \in BOOLEAN
  BY Zenon DEF RunStep, RunOpensWritable, RunLosesHandle, RunFinishes, PromoteCloses, PromoteMoves,
    PromotePublishes, PromoteFails, PromoteReopens, RunUnlocks, RunReleases, RunSaves, RunStops
<1>1. CASE RunOpensWritable \/ RunLosesHandle \/ RunFinishes
  BY <1>1, <1>b DEF RunOpensWritable, RunLosesHandle, RunFinishes
<1>3. CASE PromoteCloses \/ PromoteReopens
  BY <1>3, <1>b, Closing DEF PromoteReopens
<1>4. CASE PromoteMoves \/ PromoteFails \/ PromotePublishes
  BY <1>4, <1>b, Publishing, Moving DEF PromoteFails
<1>7. CASE RunUnlocks \/ RunReleases
  BY <1>7, <1>b DEF RunUnlocks, RunReleases
<1>8. CASE RunSaves
  BY <1>8, <1>b DEF RunSaves
<1>9. CASE RunStops
  BY <1>9, <1>b DEF RunStops
<1> QED BY <1>1, <1>3, <1>4, <1>7, <1>8, <1>9 DEF RunStep

\* The teardown releases in order: index lock, close mutex, final save.
LEMMA RunPhase ==
  ASSUME SInv, RunStep, ~RunStops
  PROVE  /\ UNCHANGED <<cast, interrupted, running, closed, runs, peer, pc, searchVars, closeVars>>
         /\ \/ /\ run.phase \in RunPhases
               /\ run'.phase \in RunPhases \cup {"unlock"}
               /\ UNCHANGED <<closeMu, indexLock, file>>
            \/ /\ run.phase = "unlock" /\ run'.phase = "release" /\ indexLock' = None
               /\ UNCHANGED <<closeMu, file>>
            \/ /\ run.phase = "release" /\ run'.phase = "finalSave" /\ closeMu' = None
               /\ UNCHANGED <<indexLock, file>>
            \/ /\ run.phase = "finalSave" /\ run'.phase = "done" /\ UNCHANGED <<closeMu, indexLock>>
               /\ file' = "peerRunning" => file = "peerRunning"
               /\ file' # "ownRunning"
<1> USE DEF SInv, TypeOK, RunPhases
<1>1. CASE RunOpensWritable \/ RunLosesHandle \/ RunFinishes
  BY <1>1, EndsWith DEF RunOpensWritable, RunLosesHandle, RunFinishes
<1>3. CASE PromoteCloses \/ PromoteReopens
  BY <1>3, GoesOn, EndsWith, Closing DEF PromoteReopens
<1>4. CASE PromoteMoves \/ PromoteFails \/ PromotePublishes
  BY <1>4, GoesOn, Publishing, Moving DEF PromoteFails
<1>7. CASE RunUnlocks \/ RunReleases
  BY <1>7, GoesOn DEF RunUnlocks, RunReleases
<1>8. CASE RunSaves
  BY <1>8, GoesOn DEF RunSaves
<1> QED BY <1>1, <1>3, <1>4, <1>7, <1>8 DEF RunStep

\* While it works the run owns the locks, and gives them back in that order.
LEMMA RunControl ==
  ASSUME SInv, RunStep
  PROVE  OneIndexer' /\ ClosedMeansQuiet' /\ FileAgrees'
<1>1. CASE RunStops
  BY <1>1 DEF RunStops, NoRun, SInv, TypeOK, OneIndexer, ClosedMeansQuiet, FileAgrees, RunPhases
<1>2. CASE ~RunStops
  <2>1. OneIndexer'
    BY <1>2, RunPhase DEF SInv, TypeOK, OneIndexer, RunPhases
  <2>2. ClosedMeansQuiet'
    BY <1>2, RunPhase DEF SInv, TypeOK, ClosedMeansQuiet, RunPhases
  <2>3. FileAgrees'
    BY <1>2, RunPhase DEF SInv, TypeOK, FileAgrees, RunPhases
  <2> QED BY <2>1, <2>2, <2>3
<1> QED BY <1>1, <1>2

\* The promotion moves a directory only with the handle closed where an open
\* file would keep it.
LEMMA RunHandle ==
  ASSUME SInv, RunStep
  PROVE  HandleAgrees'
<1> USE DEF SInv, TypeOK, HandleAgrees, IsOpen
<1>1. CASE RunOpensWritable \/ RunLosesHandle
  BY <1>1, EndsWith DEF RunOpensWritable, RunLosesHandle, Opened, Shut
<1>2. CASE RunFinishes
  BY <1>2, EndsWith DEF RunFinishes
<1>3. CASE PromoteCloses
  BY <1>3, GoesOn, EndsWith, Closing DEF Shut
<1>4. CASE PromoteMoves
  BY <1>4, GoesOn, Moving DEF RenameBlocked
<1>9. CASE PromoteFails
  BY <1>9, GoesOn DEF PromoteFails
<1>5. CASE PromotePublishes
  BY <1>5, GoesOn, Publishing
<1>6. CASE PromoteReopens
  BY <1>6, EndsWith, ReadOnlyOpen DEF PromoteReopens, Opened
<1>7. CASE RunUnlocks \/ RunReleases \/ RunSaves
  BY <1>7, GoesOn DEF RunUnlocks, RunReleases, RunSaves
<1>8. CASE RunStops
  BY <1>8 DEF RunStops, NoRun
<1> QED BY <1>1, <1>2, <1>3, <1>4, <1>5, <1>6, <1>7, <1>8, <1>9 DEF RunStep

\* A step of the run preserves the invariant.
LEMMA RunKeeps ==
  ASSUME SInv, RunStep
  PROVE  SInv'
<1>1. UNCHANGED <<pc, searchVars, closeVars>>
  BY RunPhase DEF RunStops
<1>2. SearchesCounted' /\ AnswersAgree'
  BY <1>1, CountsKept DEF AnswersAgree, SInv
<1> QED BY <1>2, RunTypes, RunControl, RunHandle DEF SInv

\* Two sets that differ at most in x differ in size as x says.
LEMMA OneChanges ==
  ASSUME NEW S, NEW T, NEW x, IsFiniteSet(S), S \ {x} = T \ {x}
  PROVE  /\ IsFiniteSet(T)
         /\ Cardinality(T) = Cardinality(S) + (IF x \in T THEN 1 ELSE 0) - (IF x \in S THEN 1 ELSE 0)
<1>1. /\ IsFiniteSet(S \ {x}) /\ Cardinality(S \ {x}) \in Nat /\ Cardinality(S) \in Nat
      /\ Cardinality(S \ {x}) = IF x \in S THEN Cardinality(S) - 1 ELSE Cardinality(S)
  BY FS_RemoveElement, FS_CardinalityType
<1>2. CASE x \in T
  <2>1. T = (S \ {x}) \cup {x} /\ x \notin S \ {x}
    BY <1>2
  <2>2. IsFiniteSet(T) /\ Cardinality(T) = Cardinality(S \ {x}) + 1
    BY <1>1, <2>1, FS_AddElement
  <2> QED BY <1>1, <1>2, <2>2
<1>3. CASE x \notin T
  <2>1. T = S \ {x}
    BY <1>3
  <2> QED BY <1>1, <1>3, <2>1
<1> QED BY <1>2, <1>3

\* The two sets that searchWG counts.
Searchers == {s \in Readers : InSearch(s)}
Inside == {s \in Readers : inner[s] # "none"}

\* A request leaves the coordinator alone; it may stop the other process, and
\* close or open the handle.
LEMMA ReaderFrames ==
  ASSUME SInv, NEW s \in Readers, ReaderStep(s)
  PROVE  /\ UNCHANGED <<cast, interrupted, coordVars, closeMu, refusing, watcherOff, closeVars, present>>
         /\ UNCHANGED <<indexLock, file, peer>> \/ PeerGone
         /\ \/ handle' \in {handle, Shut}
            \/ ~IsOpen /\ present /\ handle' = Opened("ro")
<1>1. CASE Probe(s)
  BY <1>1, ReadOnlyOpen DEF Probe
<1>2. CASE KillDuplicates(s)
  BY <1>2 DEF KillDuplicates
<1>3. CASE RecoveryCloses(s)
  BY <1>3, Zenon DEF RecoveryCloses, CloseStore
<1>4. CASE Reopens(s)
  BY <1>4, ReadOnlyOpen DEF Reopens
<1>5. CASE SearchBegins(s) \/ SearchLaunches(s) \/ SearchEnds(s) \/ SearchRecovers(s)
  BY <1>5 DEF SearchBegins, SearchLaunches, SearchEnds, SearchRecovers
<1>6. CASE InnerOpens(s)
  BY <1>6, ReadOnlyOpen DEF InnerOpens
<1>7. CASE InnerQueries(s)
  BY <1>7 DEF InnerQueries
<1> QED BY <1>1, <1>2, <1>3, <1>4, <1>5, <1>6, <1>7 DEF ReaderStep, RecoveryStep, InnerStep

\* Only request s moved; the wait group followed its two parts; what it was told
\* is forgotten or belongs to a recovery.
Moved(s) ==
  /\ \A u \in Threads \ {s} : pc'[u] = pc[u]
  /\ \A u \in Readers \ {s} : inner'[u] = inner[u] /\ answer'[u] = answer[u]
  /\ pc' \in [Threads -> StartPcs \cup ReaderPcs \cup ClosePcs]
  /\ inner' \in [Readers -> {"none", "open", "query"}]
  /\ answer' \in [Readers -> {"none", "ok", "missing", "locked"}]

Counted(s) ==
  wg' = wg + (IF InSearch(s)' THEN 1 ELSE 0) - (IF InSearch(s) THEN 1 ELSE 0)
           + (IF inner'[s] # "none" THEN 1 ELSE 0) - (IF inner[s] # "none" THEN 1 ELSE 0)

Told(s) ==
  /\ pc'[s] \in {"idle", "launch", "reopen"} => answer'[s] = "none"
  /\ pc'[s] \in {"kill", "tryClose"} => answer'[s] \in {"none", "locked"}

\* A recovery closes the handle only when the close mutex is free.
LEMMA RecoveryClosing ==
  ASSUME NEW s, RecoveryCloses(s)
  PROVE  /\ pc[s] = "tryClose" /\ s \in Readers /\ UNCHANGED <<inner, refusing>>
         /\ Recovered(s) \/ Leaves(s)
         /\ handle' = Shut /\ handle # Shut => closeMu = None
BY Zenon DEF RecoveryCloses, CloseStore

\* The goroutine in the store goes on to query, or reports why it cannot.
LEMMA InnerOpening ==
  ASSUME NEW s, InnerOpens(s)
  PROVE  /\ inner[s] = "open" /\ UNCHANGED <<pc, refusing>>
         /\ \/ inner' = [inner EXCEPT ![s] = "query"] /\ UNCHANGED <<answer, wg>>
            \/ \E res \in {"missing", "locked"} : Answers(s, res)
<1>1. OpenAnswer \in {"ok", "missing", "locked"}
  BY Zenon DEF OpenAnswer
<1>2. CASE OpenAnswer = "ok"
  BY <1>2, Zenon DEF InnerOpens
<1>3. CASE OpenAnswer # "ok"
  BY <1>1, <1>3, Zenon DEF InnerOpens
<1> QED BY <1>2, <1>3

\* A step of a request moves that request only, and the wait group by as much
\* as its two parts enter or leave; upwards never while shutting down.
LEMMA ReaderMoves ==
  ASSUME SInv, NEW s \in Readers, ReaderStep(s)
  PROVE  Moved(s) /\ Counted(s) /\ Told(s) /\ (refusing => wg' <= wg)
<1> USE DEF SInv, TypeOK, Moved, Counted, Told, AnswersAgree, InSearch, Searching, Recovering, ReaderPcs
<1>1. CASE Probe(s)
  BY <1>1 DEF Probe
<1>2. CASE KillDuplicates(s)
  BY <1>2 DEF KillDuplicates, Leaves
<1>3. CASE RecoveryCloses(s)
  <2>1. CASE Recovered(s)
    BY <1>3, <2>1, RecoveryClosing DEF Recovered
  <2>2. CASE Leaves(s)
    BY <1>3, <2>2, RecoveryClosing DEF Leaves
  <2> QED BY <1>3, <2>1, <2>2, RecoveryClosing
<1>4. CASE Reopens(s)
  BY <1>4 DEF Reopens
<1>5. CASE SearchBegins(s)
  BY <1>5 DEF SearchBegins
<1>8. CASE SearchLaunches(s)
  BY <1>8 DEF SearchLaunches
<1>9. CASE SearchEnds(s)
  BY <1>9 DEF SearchEnds, Leaves
<1>10. CASE SearchRecovers(s)
  BY <1>10 DEF SearchRecovers
<1>6. CASE InnerOpens(s)
  BY <1>6, InnerOpening DEF Answers
<1>7. CASE InnerQueries(s)
  BY <1>7 DEF InnerQueries, Answers
<1> QED BY <1>1, <1>2, <1>3, <1>4, <1>5, <1>6, <1>7, <1>8, <1>9, <1>10 DEF ReaderStep, RecoveryStep, InnerStep

\* The wait group counts the searches and their goroutines after the step.
LEMMA ReaderCounts ==
  ASSUME SInv, NEW s \in Readers, ReaderStep(s)
  PROVE  wg' \in Nat /\ SearchesCounted' /\ AnswersAgree'
<1>1. Moved(s) /\ Counted(s) /\ Told(s) /\ (refusing => wg' <= wg)
  BY ReaderMoves
<1>2. UNCHANGED <<refusing, idle, shutdown, embedOpen>>
  BY ReaderFrames
<1>3. IsFiniteSet(Searchers) /\ IsFiniteSet(Inside)
  BY FS_Subset DEF Searchers, Inside
<1>4. Searchers \ {s} = Searchers' \ {s} /\ Inside \ {s} = Inside' \ {s}
  BY <1>1 DEF Moved, Searchers, Inside, InSearch, Searching
<1>5. /\ IsFiniteSet(Searchers') /\ IsFiniteSet(Inside')
      /\ Cardinality(Searchers')
           = Cardinality(Searchers) + (IF s \in Searchers' THEN 1 ELSE 0) - (IF s \in Searchers THEN 1 ELSE 0)
      /\ Cardinality(Inside')
           = Cardinality(Inside) + (IF s \in Inside' THEN 1 ELSE 0) - (IF s \in Inside THEN 1 ELSE 0)
  BY <1>3, <1>4, OneChanges
<1>6. /\ Cardinality(Searchers) \in Nat /\ Cardinality(Inside) \in Nat
      /\ Cardinality(Searchers') \in Nat /\ Cardinality(Inside') \in Nat
  BY <1>3, <1>5, FS_CardinalityType
<1>7. /\ s \in Searchers <=> InSearch(s)
      /\ s \in Searchers' <=> InSearch(s)'
      /\ s \in Inside <=> inner[s] # "none"
      /\ s \in Inside' <=> inner'[s] # "none"
  BY DEF Searchers, Inside
<1>8. wg = Cardinality(Searchers) + Cardinality(Inside)
  BY DEF SInv, SearchesCounted, Searchers, Inside
<1>9. wg' = Cardinality(Searchers') + Cardinality(Inside')
  BY <1>1, <1>5, <1>6, <1>7, <1>8 DEF Counted
<1>10. wg' \in Nat /\ (refusing /\ wg = 0 => wg' = 0)
  BY <1>1, <1>6, <1>9
<1>11. SearchesCounted'
  <2>1. \A c \in Closers : pc'[c] = pc[c]
    BY <1>1 DEF Moved
  <2>2. wg' = Cardinality({u \in Readers : InSearch(u)})' + Cardinality({u \in Readers : inner[u] # "none"})'
    BY <1>9 DEF Searchers, Inside
  <2> QED BY <1>2, <1>10, <2>1, <2>2 DEF SInv, SearchesCounted
<1>12. AnswersAgree'
  BY <1>1 DEF Moved, Told, AnswersAgree, SInv
<1> QED BY <1>10, <1>11, <1>12

\* A step of a request preserves the invariant.
LEMMA ReaderKeeps ==
  ASSUME SInv, NEW s \in Readers, ReaderStep(s)
  PROVE  SInv'
<1> USE DEF SInv
<1>1. Moved(s)
  BY ReaderMoves
<1>2. UNCHANGED <<cast, interrupted, coordVars, closeMu, refusing, watcherOff, closeVars, present>>
  BY ReaderFrames
<1>3. UNCHANGED <<indexLock, file, peer>> \/ PeerGone
  BY ReaderFrames
<1>4. \/ handle' \in {handle, Shut}
      \/ ~IsOpen /\ present /\ handle' = Opened("ro")
  BY ReaderFrames
<1>5. TypeOK'
  <2>1. handle' \in Handles
    BY <1>4, HandleValues, Zenon DEF TypeOK, Handles
  <2>2. /\ indexLock' \in {"own", "peer", None} /\ peer' \in {"away", "indexing", "ending", "lingering"}
        /\ file' \in Running \cup {"idle", "error", "interrupted", "legacy"}
    BY <1>3 DEF TypeOK, PeerGone
  <2>3. wg' \in Nat
    BY ReaderCounts
  <2> QED BY <1>1, <1>2, <2>1, <2>2, <2>3 DEF TypeOK, Moved, Handles
<1>6. \A t \in Starters \cup Closers : pc'[t] = pc[t]
  BY <1>1 DEF Moved
<1>7. indexLock' = indexLock \/ indexLock = "peer"
  BY <1>3 DEF PeerGone
<1>8. OneIndexer'
  BY <1>2, <1>3, <1>6, <1>7 DEF OneIndexer, TypeOK, PeerGone
<1>9. ClosedMeansQuiet'
  BY <1>2, <1>6 DEF ClosedMeansQuiet
<1>10. FileAgrees'
  BY <1>2, <1>3 DEF FileAgrees, PeerGone
<1>11. HandleAgrees'
  BY <1>2, <1>4 DEF HandleAgrees, IsOpen, Shut, Opened
<1> QED BY <1>5, <1>8, <1>9, <1>10, <1>11, ReaderCounts

\* What Shutdown leaves alone, and the types of what it assigns.
LEMMA CloserFrames ==
  ASSUME SInv, NEW c \in Closers, CloserStep(c)
  PROVE  /\ UNCHANGED <<cast, running, run, runs, indexLock, diskVars, inner, answer, wg, present>>
         /\ \E to \in ClosePcs : pc' = [pc EXCEPT ![c] = to]
         /\ interrupted' \in BOOLEAN /\ closed' \in BOOLEAN /\ refusing' \in BOOLEAN
         /\ watcherOff' \in BOOLEAN /\ embedOpen' \in BOOLEAN
         /\ handle' \in {handle, Shut} /\ closeMu' \in {closeMu, c, None}
         /\ shutdown' \in {shutdown, 1, 2}
<1> USE DEF ClosePcs
<1>1. CASE ShutdownBegins(c)
  BY <1>1, Zenon DEF ShutdownBegins, SInv, TypeOK
<1>2. CASE StopWatcher(c)
  BY <1>2, Zenon DEF StopWatcher, SInv, TypeOK
<1>3. CASE WatcherStopped(c)
  BY <1>3, Zenon DEF WatcherStopped, SInv, TypeOK
<1>4. CASE WaitForIdle(c)
  BY <1>4, Zenon DEF WaitForIdle, SInv, TypeOK
<1>5. CASE CloseCoordinator(c)
  BY <1>5, Zenon DEF CloseCoordinator, SInv, TypeOK
<1>6. CASE WaitSearches(c)
  BY <1>6, Zenon DEF WaitSearches, SInv, TypeOK
<1>7. CASE ShutdownCloses(c)
  BY <1>7, Zenon DEF ShutdownCloses, CloseStore, SInv, TypeOK
<1>8. CASE ShutdownReturns(c)
  BY <1>8, Zenon DEF ShutdownReturns, SInv, TypeOK
<1> QED BY <1>1, <1>2, <1>3, <1>4, <1>5, <1>6, <1>7, <1>8 DEF CloserStep, ShutdownStep

\* What TypeOK says of idle[c].
Waits == [index : BOOLEAN, searches : BOOLEAN]

\* A wait that timed out is recorded; the other one stays as it was.
LEMMA GaveUpOn ==
  ASSUME NEW r \in Waits
  PROVE  /\ [r EXCEPT !.index = FALSE] \in Waits
         /\ [r EXCEPT !.index = FALSE].index = FALSE
         /\ [r EXCEPT !.index = FALSE].searches = r.searches
         /\ [r EXCEPT !.searches = FALSE] \in Waits
         /\ [r EXCEPT !.searches = FALSE].index = r.index
         /\ [r EXCEPT !.searches = FALSE].searches = FALSE
BY Zenon DEF Waits

\* What a Shutdown saw of its waits changes only by giving up on one.
LEMMA Waited ==
  ASSUME SInv, NEW c \in Closers, CloserStep(c)
  PROVE  /\ idle' \in [Closers -> Waits]
         /\ \A d \in Closers \ {c} : idle'[d] = idle[d]
         /\ pc'[c] # "idle" =>
              /\ idle'[c].index => idle[c].index
              /\ idle'[c].searches => idle[c].searches
<1>1. idle \in [Closers -> Waits]
  BY Zenon DEF SInv, TypeOK, Waits
<1>2. CASE ShutdownBegins(c) \/ StopWatcher(c) \/ WatcherStopped(c) \/ CloseCoordinator(c) \/ ShutdownCloses(c)
  BY <1>1, <1>2, Zenon DEF ShutdownBegins, StopWatcher, WatcherStopped, CloseCoordinator, ShutdownCloses
<1>3. CASE UNCHANGED idle
  BY <1>1, <1>3
<1>4. CASE idle' = [idle EXCEPT ![c].index = FALSE]
  <2> DEFINE r == [idle[c] EXCEPT !.index = FALSE]
  <2>1. r \in Waits /\ (r.index => idle[c].index) /\ (r.searches => idle[c].searches)
    BY <1>1, GaveUpOn, Zenon
  <2>2. idle' = [idle EXCEPT ![c] = r]
    BY <1>4, Zenon
  <2> QED BY <1>1, <2>1, <2>2, Zenon
<1>5. CASE idle' = [idle EXCEPT ![c].searches = FALSE]
  <2> DEFINE r == [idle[c] EXCEPT !.searches = FALSE]
  <2>1. r \in Waits /\ (r.index => idle[c].index) /\ (r.searches => idle[c].searches)
    BY <1>1, GaveUpOn, Zenon
  <2>2. idle' = [idle EXCEPT ![c] = r]
    BY <1>5, Zenon
  <2> QED BY <1>1, <2>1, <2>2, Zenon
<1>6. CASE ShutdownReturns(c)
  <2>1. idle' = [idle EXCEPT ![c] = [index |-> TRUE, searches |-> TRUE]]
    BY <1>6, Zenon DEF ShutdownReturns
  <2>2. [index |-> TRUE, searches |-> TRUE] \in Waits
    BY Zenon DEF Waits
  <2>3. pc' = [pc EXCEPT ![c] = "idle"] /\ pc \in [Threads -> StartPcs \cup ReaderPcs \cup ClosePcs]
    BY <1>6, Zenon DEF ShutdownReturns, SInv, TypeOK
  <2>4. pc'[c] = "idle"
    BY <2>3
  <2> QED BY <1>1, <2>1, <2>2, <2>4
<1>7. CASE WaitForIdle(c) \/ WaitSearches(c)
  <2>1. \/ UNCHANGED idle
        \/ idle' = [idle EXCEPT ![c].index = FALSE]
        \/ idle' = [idle EXCEPT ![c].searches = FALSE]
    BY <1>7, Zenon DEF WaitForIdle, WaitSearches
  <2> QED BY <1>3, <1>4, <1>5, <2>1
<1> QED BY <1>2, <1>3, <1>6, <1>7 DEF CloserStep, ShutdownStep, ShutdownBegins, StopWatcher, WatcherStopped, CloseCoordinator, ShutdownCloses

\* The order of Shutdown: closed before the searches are awaited, the
\* embedder freed and shutdown reported only after both waits succeeded.
LEMMA CloserGoes ==
  ASSUME SInv, NEW c \in Closers, CloserStep(c)
  PROVE  /\ pc[c] # "embed" /\ pc'[c] # "embed" => UNCHANGED closeMu
         /\ pc[c] # "embed" /\ pc'[c] = "embed" => closeMu' = closeMu \/ (closeMu = None /\ closeMu' = c)
         /\ pc[c] = "embed" => pc'[c] = "idle" /\ closeMu' = IF closeMu = c THEN None ELSE closeMu
         /\ closed' # closed => pc[c] = "coordClose" /\ closeMu = None /\ closed'
         /\ pc'[c] \in {"waitSearch", "tryClose", "embed"} /\ idle'[c].index =>
              pc[c] \in {"waitSearch", "tryClose", "embed"} \/ closed'
         /\ pc'[c] = "tryClose" => wg = 0
         /\ pc'[c] = "embed" /\ idle'[c].searches => pc[c] = "tryClose"
         /\ refusing => refusing'
         /\ pc[c] = "idle" => refusing'
         /\ embedOpen' # embedOpen \/ (shutdown' = 2 /\ shutdown # 2) =>
              pc[c] = "embed" /\ idle[c].index /\ idle[c].searches
<1> USE DEF SInv, TypeOK
<1>0. pc \in [Threads -> StartPcs \cup ReaderPcs \cup ClosePcs] /\ idle \in [Closers -> Waits]
  BY Zenon DEF Waits
<1>1. CASE ShutdownBegins(c)
  BY <1>0, <1>1 DEF ShutdownBegins
<1>2. CASE StopWatcher(c)
  BY <1>0, <1>2 DEF StopWatcher
<1>3. CASE WatcherStopped(c)
  BY <1>0, <1>3 DEF WatcherStopped
<1>4. CASE WaitForIdle(c)
  BY <1>0, <1>4 DEF WaitForIdle
<1>5. CASE CloseCoordinator(c)
  BY <1>0, <1>5 DEF CloseCoordinator
<1>6. CASE WaitSearches(c)
  BY <1>0, <1>6 DEF WaitSearches
<1>7. CASE ShutdownCloses(c)
  BY <1>0, <1>7 DEF ShutdownCloses
<1>8. CASE ShutdownReturns(c)
  BY <1>0, <1>8 DEF ShutdownReturns
<1> QED BY <1>1, <1>2, <1>3, <1>4, <1>5, <1>6, <1>7, <1>8 DEF CloserStep, ShutdownStep

\* A step of Shutdown preserves the invariant.
LEMMA CloserKeeps ==
  ASSUME SInv, NEW c \in Closers, CloserStep(c)
  PROVE  SInv'
<1> USE DEF SInv
<1>1. UNCHANGED <<cast, running, run, runs, indexLock, diskVars, inner, answer, wg, present>>
  BY CloserFrames
<1>2. PICK to \in ClosePcs : pc' = [pc EXCEPT ![c] = to]
  BY CloserFrames
<1>3. /\ interrupted' \in BOOLEAN /\ closed' \in BOOLEAN /\ refusing' \in BOOLEAN
      /\ watcherOff' \in BOOLEAN /\ embedOpen' \in BOOLEAN
      /\ handle' \in {handle, Shut} /\ closeMu' \in {closeMu, c, None}
      /\ shutdown' \in {shutdown, 1, 2}
  BY CloserFrames
<1>4. /\ pc' \in [Threads -> StartPcs \cup ReaderPcs \cup ClosePcs] /\ pc'[c] = to
      /\ \A t \in Threads \ {c} : pc'[t] = pc[t]
  BY <1>2 DEF TypeOK
<1>5. TypeOK'
  <2>1. handle' \in Handles
    BY <1>3, HandleValues, Zenon DEF TypeOK, Handles
  <2>2. idle' \in [Closers -> [index : BOOLEAN, searches : BOOLEAN]]
    BY Waited DEF Waits
  <2> QED BY <1>1, <1>3, <1>4, <2>1, <2>2 DEF TypeOK, Handles
<1>6. OneIndexer'
  <2>1. \A t \in Starters \cup Readers : t # c /\ pc'[t] = pc[t]
    BY <1>4
  <2> QED BY <1>1, <1>3, <1>4, <2>1, CloserGoes DEF OneIndexer, TypeOK
<1>7. \A d \in Closers \ {c} : pc'[d] = pc[d] /\ idle'[d] = idle[d]
  BY <1>4, Waited
<1>8. \A t \in Starters \cup Readers : pc'[t] = pc[t]
  BY <1>4
<1>9. closed => closed'
  BY CloserGoes
<1>10. ClosedMeansQuiet'
  <2>1. closed' => /\ run.phase \notin RunPhases \cup {"unlock", "release"}
                   /\ \A t \in Starters : pc[t] # "save"
    BY CloserGoes DEF ClosedMeansQuiet, OneIndexer
  <2>2. \A d \in Closers : pc'[d] \in {"waitSearch", "tryClose", "embed"} /\ idle'[d].index => closed'
    BY <1>7, <1>9, CloserGoes, Waited DEF ClosedMeansQuiet
  <2>3. ~embedOpen' \/ shutdown' = 2 => closed'
    BY <1>3, <1>9, CloserGoes DEF ClosedMeansQuiet, TypeOK
  <2> QED BY <1>1, <1>8, <2>1, <2>2, <2>3 DEF ClosedMeansQuiet
<1>11. SearchesCounted'
  <2>1. /\ {s \in Readers : InSearch(s)}' = {s \in Readers : InSearch(s)}
        /\ {s \in Readers : inner[s] # "none"}' = {s \in Readers : inner[s] # "none"}
    BY <1>1, <1>8 DEF InSearch, Searching
  <2>2. \A d \in Closers : pc'[d] # "idle" => refusing'
    BY <1>7, CloserGoes DEF SearchesCounted
  <2>3. \A d \in Closers : pc'[d] = "tryClose" => wg = 0
    BY <1>7, CloserGoes DEF SearchesCounted
  <2>4. \A d \in Closers : pc'[d] = "embed" /\ idle'[d].searches => wg = 0
    BY <1>7, CloserGoes DEF SearchesCounted
  <2>5. ~embedOpen' \/ shutdown' = 2 => refusing' /\ wg = 0
    BY <1>3, CloserGoes DEF SearchesCounted, TypeOK
  <2> QED BY <1>1, <2>1, <2>2, <2>3, <2>4, <2>5 DEF SearchesCounted
<1>12. AnswersAgree'
  BY <1>1, <1>8 DEF AnswersAgree
<1>13. FileAgrees'
  BY <1>1 DEF FileAgrees
<1>14. HandleAgrees'
  BY <1>1, <1>3 DEF HandleAgrees, IsOpen, Shut
<1> QED BY <1>5, <1>6, <1>10, <1>11, <1>12, <1>13, <1>14

\* A step of the other process preserves the invariant.
LEMMA PeerKeeps ==
  ASSUME SInv, PeerStep
  PROVE  SInv'
<1> USE DEF SInv, TypeOK
<1>1. /\ UNCHANGED <<cast, interrupted, closeMu, coordVars, storeVars, pc, searchVars, closeVars>>
      /\ indexLock' \in {"own", "peer", None} /\ (indexLock = "own" => indexLock' = "own")
      /\ peer' \in {"away", "indexing", "ending", "lingering"}
      /\ file' \in Running \cup {"idle", "error", "interrupted", "legacy"}
      /\ indexLock' = "peer" <=> peer' = "indexing"
      /\ FileAgrees'
  <2>1. CASE PeerIndexes
    BY <2>1 DEF PeerIndexes, FileAgrees, OneIndexer
  <2>2. CASE PeerUnlocks \/ PeerFinishes
    BY <2>2 DEF PeerUnlocks, PeerFinishes, FileAgrees, OneIndexer
  <2>3. CASE PeerDies
    BY <2>3 DEF PeerDies, PeerGone, FileAgrees, OneIndexer
  <2> QED BY <2>1, <2>2, <2>3 DEF PeerStep
<1>2. TypeOK'
  BY <1>1
<1>3. OneIndexer' /\ ClosedMeansQuiet'
  BY <1>1 DEF OneIndexer, ClosedMeansQuiet
<1>4. SearchesCounted' /\ AnswersAgree' /\ HandleAgrees'
  BY <1>1, CountsKept DEF AnswersAgree, HandleAgrees, IsOpen
<1> QED BY <1>1, <1>2, <1>3, <1>4

\* The invariant holds when the service starts.
LEMMA InitialService == Init => SInv
<1> SUFFICES ASSUME Init PROVE SInv
  OBVIOUS
<1> USE DEF Init
<1>1. /\ interrupted \in BOOLEAN /\ running \in BOOLEAN /\ closed \in BOOLEAN /\ present \in BOOLEAN
      /\ refusing \in BOOLEAN /\ watcherOff \in BOOLEAN /\ embedOpen \in BOOLEAN
      /\ handle \in [mode : {"none", "ro", "rw"}, fresh : BOOLEAN]
      /\ run \in [phase : RunPhases \cup {"none", "unlock", "release", "finalSave", "done"},
                  force : BOOLEAN, result : {"idle", "error", "interrupted"}]
      /\ idle \in [Closers -> [index : BOOLEAN, searches : BOOLEAN]]
  BY Zenon DEF Shut, NoRun
<1>2. TypeOK
  BY <1>1 DEF TypeOK, StartPcs
<1>3. OneIndexer /\ ClosedMeansQuiet
  BY DEF OneIndexer, ClosedMeansQuiet, NoRun, RunPhases
<1>4. SearchesCounted
  <2>1. {s \in Readers : InSearch(s)} = {} /\ {s \in Readers : inner[s] # "none"} = {}
    BY DEF InSearch, Searching, Recovering
  <2>2. wg = Cardinality({s \in Readers : InSearch(s)}) + Cardinality({s \in Readers : inner[s] # "none"})
    <3>1. Cardinality({}) = 0
      BY FS_EmptySet
    <3>2. wg = Cardinality({}) + Cardinality({})
      BY <3>1
    <3> QED BY <2>1, <3>2, Zenon
  <2>3. \A c \in Closers : pc[c] = "idle"
    OBVIOUS
  <2> QED BY <2>2, <2>3 DEF SearchesCounted
<1>5. AnswersAgree /\ FileAgrees /\ HandleAgrees
  BY DEF AnswersAgree, FileAgrees, HandleAgrees, NoRun, Shut, IsOpen
<1> QED BY <1>2, <1>3, <1>4, <1>5 DEF SInv

\* Every step belongs to one of the five kinds of actors.
LEMMA NextSteps ==
  ASSUME Next
  PROVE  \/ \E t \in Starters : StarterStep(t)
         \/ RunStep
         \/ \E s \in Readers : ReaderStep(s)
         \/ \E c \in Closers : CloserStep(c)
         \/ PeerStep
BY DEF Next, StarterStep, ReaderStep, CloserStep

\* Every step preserves the invariant.
LEMMA StepKeeps == SInv /\ [Next]_vars => SInv'
<1> SUFFICES ASSUME SInv, [Next]_vars PROVE SInv'
  OBVIOUS
<1>1. CASE UNCHANGED vars
  BY <1>1, CountsKept DEF vars, SInv, TypeOK, OneIndexer, ClosedMeansQuiet, AnswersAgree, FileAgrees,
     HandleAgrees, IsOpen
<1>2. CASE Next
  BY <1>2, NextSteps, StarterKeeps, RunKeeps, ReaderKeeps, CloserKeeps, PeerKeeps
<1> QED BY <1>1, <1>2

(* Whatever Start, the run, requests, Shutdown and another process          *)
(* interleave: the locks, running and the phase of the run agree, closed    *)
(* means quiet, and searchWG counts the searches (phase1.go, coordinator.go).*)
THEOREM ServiceInvariant == Spec => []SInv
BY InitialService, StepKeeps, PTL DEF Spec

(* A service reported closed, or whose embedder is freed, has no run in its *)
(* working phases, no Start about to launch one, no request in a search and *)
(* no goroutine in the store, for any number of threads and of timeouts     *)
(* (phase1.go:722-790).                                                     *)
THEOREM ClosedServiceIsQuietHolds == Spec => []ClosedServiceIsQuiet
<1>1. SInv => ClosedServiceIsQuiet
  <2> SUFFICES ASSUME SInv, ~embedOpen \/ shutdown = 2
               PROVE  /\ run.phase \notin RunPhases
                      /\ \A t \in Starters : pc[t] # "save"
                      /\ \A s \in Readers : ~InSearch(s) /\ inner[s] = "none"
    BY DEF ClosedServiceIsQuiet
  <2>1. run.phase \notin RunPhases /\ \A t \in Starters : pc[t] # "save"
    BY DEF SInv, ClosedMeansQuiet
  <2>2. wg = Cardinality(Searchers) + Cardinality(Inside) /\ wg = 0
    BY DEF SInv, SearchesCounted, Searchers, Inside
  <2>3. /\ IsFiniteSet(Searchers) /\ Cardinality(Searchers) \in Nat
        /\ IsFiniteSet(Inside) /\ Cardinality(Inside) \in Nat
    BY FS_Subset, FS_CardinalityType DEF Searchers, Inside
  <2>4. Searchers = {} /\ Inside = {}
    BY <2>2, <2>3, FS_EmptySet
  <2> QED BY <2>1, <2>4 DEF Searchers, Inside
<1> QED BY <1>1, ServiceInvariant, PTL

(* Where a rename is refused while a file of the directory is open, no      *)
(* handle ever refers to an index that a promotion has replaced.            *)
THEOREM HandleIsCurrentHolds == Spec => []HandleIsCurrent
<1>1. SInv => HandleIsCurrent
  BY DEF SInv, HandleAgrees, HandleIsCurrent
<1> QED BY <1>1, ServiceInvariant, PTL

(* progress.json says "running" for a process only while that process does, *)
(* unless one died or failed to write (coordinator.go:248, recover.go:17).  *)
THEOREM RunningFileHasRunnerHolds == Spec => []RunningFileHasRunner
<1>1. SInv => RunningFileHasRunner
  BY DEF SInv, FileAgrees, OneIndexer, RunningFileHasRunner
<1> QED BY <1>1, ServiceInvariant, PTL

\* Who closes an open handle has found the close mutex free, or is the run.
LEMMA OnlyFreeClosed ==
  ASSUME SInv, Next, IsOpen, handle'.mode = "none"
  PROVE  closeMu = None \/ (RunStep /\ run' # run)
<1> USE DEF SInv, TypeOK, IsOpen
<1>1. ASSUME NEW t \in Starters, StarterStep(t) PROVE FALSE
  <2>1. handle' = handle
    BY <1>1, ReadOnlyOpen, Zenon DEF StarterStep, StartStep, ReindexBegins, WatcherBegins, LoadProgress,
       SaveStalled, MigrateLegacy, Desync, AcquireLock, GivesUp, SetsRunning, Launches, SaveFails, Unwinds
  <2> QED BY <2>1
<1>2. ASSUME NEW s \in Readers, ReaderStep(s) PROVE closeMu = None
  <2>1. handle' # handle /\ handle' # Opened("ro")
    BY DEF Opened
  <2>2. RecoveryCloses(s)
    BY <1>2, <2>1, ReadOnlyOpen, Zenon DEF ReaderStep, RecoveryStep, InnerStep, Probe, KillDuplicates, Reopens,
       SearchBegins, SearchLaunches, SearchEnds, SearchRecovers, InnerOpens, InnerQueries
  <2> QED BY <2>1, <2>2, Zenon DEF RecoveryCloses, CloseStore
<1>3. ASSUME NEW c \in Closers, CloserStep(c) PROVE closeMu = None
  <2>1. handle' # handle
    OBVIOUS
  <2> QED BY <1>3, <2>1, Zenon DEF CloserStep, ShutdownStep, ShutdownBegins, StopWatcher, WatcherStopped,
       WaitForIdle, CloseCoordinator, WaitSearches, ShutdownCloses, ShutdownReturns
<1>4. ASSUME RunStep PROVE run' # run
  <2> USE DEF RunPhases
  <2>1. handle' # handle
    OBVIOUS
  <2>2. ~RunOpensWritable
    BY DEF RunOpensWritable, Opened
  <2>3. ~(RunFinishes \/ PromoteMoves \/ PromoteFails \/ RunUnlocks \/ RunReleases \/ RunSaves \/ RunStops)
    BY <2>1, Zenon DEF RunFinishes, PromoteMoves, PromoteFails, RunUnlocks, RunReleases, RunSaves, RunStops
  <2>4. CASE RunLosesHandle
    BY <2>4, EndsWith DEF RunLosesHandle
  <2>5. CASE PromoteCloses
    BY <2>5, GoesOn, EndsWith, Closing
  <2>6. CASE PromotePublishes
    BY <2>6, GoesOn, Publishing
  <2>7. CASE PromoteReopens
    BY <2>7, EndsWith DEF PromoteReopens
  <2> QED BY <1>4, <2>2, <2>3, <2>4, <2>5, <2>6, <2>7 DEF RunStep
<1>5. ~PeerStep
  BY Zenon DEF PeerStep, PeerIndexes, PeerUnlocks, PeerFinishes, PeerDies
<1> QED BY <1>1, <1>2, <1>3, <1>4, <1>5, NextSteps

(* From its start to its teardown only the run itself closes the handle it  *)
(* works on: recoveries and Shutdown need the close mutex, which it holds   *)
(* (phase1.go:748, 885).                                                    *)
THEOREM StoreNotClosedUnderRunHolds == Spec => StoreNotClosedUnderRun
<1>1. SInv /\ [Next]_vars =>
        [run.phase \in RunPhases /\ IsOpen /\ handle'.mode = "none" => run' # run]_vars
  <2> SUFFICES ASSUME SInv, Next, run.phase \in RunPhases, IsOpen, handle'.mode = "none"
               PROVE  run' # run
    OBVIOUS
  <2>1. closeMu = "run"
    BY DEF SInv, OneIndexer
  <2> QED BY <2>1, OnlyFreeClosed
<1> QED BY <1>1, ServiceInvariant, PTL DEF Spec, StoreNotClosedUnderRun

-----------------------------------------------------------------------------
\* index.lock as the two processes use it.
LockHolders == IF indexLock = None THEN {} ELSE {indexLock}

Guard == INSTANCE ExclusiveLock WITH Procs <- {"own", "peer"}, owners <- LockHolders

\* A lock that is free may be taken; one that is held may be given up.
LEMMA GuardStep ==
  ASSUME SInv, [Next]_vars
  PROVE  [Guard!Next]_LockHolders
<1> USE DEF SInv, TypeOK
<1>1. CASE UNCHANGED indexLock
  BY <1>1 DEF LockHolders
<1>2. ASSUME NEW p \in {"own", "peer"}, indexLock = None, indexLock' = p PROVE Guard!Next
  BY <1>2 DEF LockHolders, Guard!Next, Guard!Acquire
<1>3. ASSUME indexLock # None, indexLock' = None PROVE Guard!Next
  BY <1>3 DEF LockHolders, Guard!Next, Guard!GiveUp
<1>4. ASSUME NEW t \in Starters, StarterStep(t)
      PROVE  \/ UNCHANGED indexLock
             \/ indexLock = None /\ indexLock' = "own"
             \/ indexLock = "own" /\ indexLock' = None
  BY <1>4 DEF StarterStep, StartStep, ReindexBegins, WatcherBegins, LoadProgress, SaveStalled,
     MigrateLegacy, Desync, AcquireLock, GivesUp, SetsRunning, Launches, SaveFails, Unwinds, OneIndexer
<1>5. ASSUME RunStep
      PROVE  UNCHANGED indexLock \/ (indexLock = "own" /\ indexLock' = None)
  BY <1>5 DEF RunStep, RunOpensWritable, RunLosesHandle, RunFinishes, PromoteCloses, PromoteMoves,
     PromotePublishes, PromoteFails, PromoteReopens, RunUnlocks, RunReleases, RunSaves, RunStops,
     RunGoes, OneIndexer
<1>6. ASSUME NEW s \in Readers, ReaderStep(s)
      PROVE  UNCHANGED indexLock \/ (indexLock = "peer" /\ indexLock' = None)
  BY <1>6 DEF ReaderStep, RecoveryStep, InnerStep, Probe, KillDuplicates, PeerGone, RecoveryCloses,
     Reopens, SearchBegins, SearchLaunches, SearchEnds, SearchRecovers, InnerOpens, InnerQueries
<1>7. ASSUME NEW c \in Closers, CloserStep(c) PROVE UNCHANGED indexLock
  BY <1>7 DEF CloserStep, ShutdownStep, ShutdownBegins, StopWatcher, WatcherStopped, WaitForIdle,
     CloseCoordinator, WaitSearches, ShutdownCloses, ShutdownReturns
<1>8. ASSUME PeerStep
      PROVE  \/ UNCHANGED indexLock
             \/ indexLock = None /\ indexLock' = "peer"
             \/ indexLock = "peer" /\ indexLock' = None
  BY <1>8 DEF PeerStep, PeerIndexes, PeerUnlocks, PeerFinishes, PeerDies, PeerGone, OneIndexer
<1>9. "own" # None /\ "peer" # None
  OBVIOUS
<1> QED
  BY <1>1, <1>2, <1>3, <1>4, <1>5, <1>6, <1>7, <1>8, <1>9, NextSteps DEF vars

(* The run and the other process take and leave index.lock as the exclusive *)
(* lock allows, a Start handing it to its run and a recovery that stops the *)
(* other process included (coordinator.go:206-256, lifecycle/recover.go).   *)
THEOREM IndexersObeyTheLock == Spec => Guard!Spec
<1>1. Init => Guard!Init
  BY DEF Init, Guard!Init, LockHolders
<1>2. SInv /\ [Next]_vars => [Guard!Next]_LockHolders
  BY GuardStep
<1> QED BY <1>1, <1>2, ServiceInvariant, PTL DEF Spec, Guard!Spec
=============================================================================
