--------------------------- MODULE WatcherProofs ---------------------------
(***************************************************************************)
(* WInv of Watcher is inductive, and with it the two safety promises of    *)
(* the watcher.  The wait groups are compared with the goroutines they     *)
(* count through the one callback or retry loop that a step moves.         *)
(***************************************************************************)
EXTENDS Watcher, TLAPS, FiniteSetTheorems

USE ConstAssumption, StarterAssumption DEF vars, sources, workers, ends, runs, Ending, Begin, CoordinatorStart

\* The steps of the goroutines of Start, of files, of the coordinator, and of
\* one that stops the watcher.
SourceStep ==
  Start \/ FileChanges \/ BackendReports \/ BackendEnds \/ LoopTakes \/ LoopEnds \/ Schedule
OutsideStep == OtherStart \/ RunEnds \/ Cancel
StopStep(p) ==
  \/ p = Starter /\ StarterWakes
  \/ Finish(p)
  \/ p \in Stops /\ (StopCalled(p) \/ Join(p))

\* Two sets that differ at most in x differ in size as x says.
LEMMA OneDiffers ==
  ASSUME NEW S, NEW T, NEW x, IsFiniteSet(S), S \ {x} = T \ {x}
  PROVE  Cardinality(T) = Cardinality(S) + (IF x \in T THEN 1 ELSE 0) - (IF x \in S THEN 1 ELSE 0)
<1>1. /\ IsFiniteSet(S \ {x}) /\ Cardinality(S \ {x}) \in Nat /\ Cardinality(S) \in Nat
      /\ Cardinality(S \ {x}) = IF x \in S THEN Cardinality(S) - 1 ELSE Cardinality(S)
  BY FS_RemoveElement, FS_CardinalityType
<1>2. CASE x \in T
  <2>1. T = (S \ {x}) \cup {x} /\ x \notin S \ {x}
    BY <1>2
  <2>2. Cardinality(T) = Cardinality(S \ {x}) + 1
    BY <1>1, <2>1, FS_AddElement
  <2> QED BY <1>1, <1>2, <2>2
<1>3. CASE x \notin T
  <2>1. T = S \ {x}
    BY <1>3
  <2> QED BY <1>1, <1>3, <2>1
<1> QED BY <1>2, <1>3

\* The goroutines that the wait groups count are finitely many.
LEMMA CountsAreNumbers ==
  /\ IsFiniteSet(InFlight) /\ Cardinality(InFlight) \in Nat
  /\ IsFiniteSet(Retrying) /\ Cardinality(Retrying) \in Nat
<1>1. IsFiniteSet(InFlight) /\ IsFiniteSet(Retrying)
  BY FS_Subset DEF InFlight, Retrying
<1> QED BY <1>1, FS_CardinalityType

\* At most one member means at most one in number.
LEMMA AtMostOne ==
  ASSUME NEW S, \A x \in S, y \in S : x = y
  PROVE  IsFiniteSet(S) /\ Cardinality(S) \in {0, 1} /\ (S = {} => Cardinality(S) = 0)
<1>1. CASE S = {}
  BY <1>1, FS_EmptySet
<1>2. CASE S # {}
  <2>1. PICK x \in S : TRUE
    BY <1>2
  <2>2. S = {x}
    BY <2>1
  <2> QED BY <1>2, <2>2, FS_Singleton
<1> QED BY <1>1, <1>2

\* A callback that moves is counted in and out of debounceWg.
LEMMA CallbackCounted ==
  ASSUME WInv, NEW c \in Callbacks, Callback(c)
  PROVE  CallbacksCounted'
<1> USE DEF WInv, TypeOK
<1>1. InFlight \ {c} = InFlight' \ {c} /\ (c \in InFlight <=> callback[c] # "free")
      /\ (c \in InFlight' <=> callback'[c] # "free")
  BY DEF Callback, TimerFires, CallbackChecks, CallbackAsks, CallbackDefers, CallbackClaims,
     CallbackSpawns, CallbackReady, CallbackStarts, CallbackAt, InFlight
<1>2. debounceWg' + (IF callback[c] # "free" THEN 1 ELSE 0) + (IF armed THEN 1 ELSE 0)
        = debounceWg + (IF callback'[c] # "free" THEN 1 ELSE 0) + (IF armed' THEN 1 ELSE 0)
  BY DEF Callback, TimerFires, CallbackChecks, CallbackAsks, CallbackDefers, CallbackClaims,
     CallbackSpawns, CallbackReady, CallbackStarts, CallbackAt
<1>3. Cardinality(InFlight') = Cardinality(InFlight) + (IF c \in InFlight' THEN 1 ELSE 0)
                                 - (IF c \in InFlight THEN 1 ELSE 0)
  BY <1>1, CountsAreNumbers, OneDiffers
<1>4. debounceWg = Cardinality(InFlight) + (IF armed THEN 1 ELSE 0) /\ debounceWg' \in Int
  BY DEF CallbacksCounted, Callback, TimerFires, CallbackChecks, CallbackAsks, CallbackDefers, CallbackClaims,
     CallbackSpawns, CallbackReady, CallbackStarts, CallbackAt
<1>5. Cardinality(InFlight) \in Nat
  BY CountsAreNumbers
<1> HIDE DEF WInv, TypeOK
<1>6. debounceWg' = Cardinality(InFlight') + (IF armed' THEN 1 ELSE 0)
  BY <1>1, <1>2, <1>3, <1>4, <1>5
<1> QED BY <1>6 DEF CallbacksCounted

\* A retry loop that appears or ends is counted in or out of wg.
LEMMA LoopCounted ==
  ASSUME WInv, NEW l \in Loops, NEW to, retry' = [retry EXCEPT ![l] = to],
         UNCHANGED <<backend, loop>>,
         wg' = wg + (IF to # "none" THEN 1 ELSE 0) - (IF retry[l] # "none" THEN 1 ELSE 0)
  PROVE  wg' = Cardinality(Retrying') + Present(backend', "gone") + Present(loop', "done")
<1>1. /\ Retrying \ {l} = Retrying' \ {l}
      /\ l \in Retrying <=> retry[l] # "none"
      /\ l \in Retrying' <=> to # "none"
  BY DEF Retrying, WInv, TypeOK
<1>2. Cardinality(Retrying') = Cardinality(Retrying) + (IF l \in Retrying' THEN 1 ELSE 0)
                                 - (IF l \in Retrying THEN 1 ELSE 0)
  BY <1>1, CountsAreNumbers, OneDiffers
<1>3. wg = Cardinality(Retrying) + Present(backend, "gone") + Present(loop, "done")
  BY DEF WInv, GoroutinesCounted
<1> QED BY <1>1, <1>2, <1>3, CountsAreNumbers DEF Present

\* What a callback does: it moves alone, or it spawns the retry loop it claimed.
LEMMA CallbackMoves ==
  ASSUME WInv, NEW c \in Callbacks, Callback(c)
  PROVE  /\ UNCHANGED <<sources, loop, ends>>
         /\ \A d \in Callbacks \ {c} : callback'[d] = callback[d]
         /\ callback[c] \in {"free", "check"} /\ Ending => callback'[c] \in {"free", "check"}
         /\ \/ UNCHANGED <<retry, wg>> /\ (callback'[c] = "spawn" => ~retryActive)
            \/ callback[c] = "spawn" /\ callback'[c] = "free" /\ wg' = wg + 1 /\ UNCHANGED retryActive
               /\ \E l \in Loops : retry[l] = "none" /\ retry' = [retry EXCEPT ![l] = "tick"]
         /\ callback'[c] = "spawn" => callback[c] = "busy"
         /\ TypeOK' /\ (retryActive => retryActive') /\ (callback'[c] = "spawn" => retryActive')
<1> USE DEF WInv, TypeOK, CallbackAt
<1>b. retryActive' \in BOOLEAN /\ retryPending' \in BOOLEAN /\ armed' \in BOOLEAN /\ running' \in BOOLEAN
  BY Zenon DEF Callback, TimerFires, CallbackChecks, CallbackAsks, CallbackDefers, CallbackClaims,
     CallbackSpawns, CallbackReady, CallbackStarts
<1>1. CASE TimerFires(c)
  BY <1>1, <1>b DEF TimerFires
<1>2. CASE CallbackChecks(c) \/ CallbackAsks(c) \/ CallbackReady(c)
  BY <1>2, <1>b DEF CallbackChecks, CallbackAsks, CallbackReady
<1>3. CASE CallbackDefers(c) \/ CallbackClaims(c)
  BY <1>3, <1>b DEF CallbackDefers, CallbackClaims
<1>4. CASE CallbackSpawns(c)
  <2>1. PICK l \in Loops : retry[l] = "none" /\ retry' = [retry EXCEPT ![l] = "tick"]
    BY <1>4 DEF CallbackSpawns
  <2>2. /\ UNCHANGED <<sources, loop, ends, armed, retryActive, retryPending, runs>>
        /\ callback[c] = "spawn" /\ callback' = [callback EXCEPT ![c] = "free"]
        /\ wg' = wg + 1 /\ debounceWg' = debounceWg - 1
    BY <1>4 DEF CallbackSpawns
  <2>3. TypeOK'
    BY <2>1, <2>2
  <2> QED BY <2>1, <2>2, <2>3
<1>5. CASE CallbackStarts(c)
  BY <1>5, <1>b DEF CallbackStarts
<1> QED BY <1>1, <1>2, <1>3, <1>4, <1>5 DEF Callback

\* A step of a callback preserves the invariant.
LEMMA CallbackKeeps ==
  ASSUME WInv, NEW c \in Callbacks, Callback(c)
  PROVE  WInv'
<1> USE DEF WInv
<1>1. GoroutinesCounted'
  <2>1. UNCHANGED <<backend, loop, finisher>>
    BY CallbackMoves
  <2>2. wg' = Cardinality(Retrying') + Present(backend', "gone") + Present(loop', "done")
    <3>1. CASE UNCHANGED <<retry, wg>>
      <4>1. Retrying' = Retrying
        BY <3>1 DEF Retrying
      <4> QED BY <2>1, <3>1, <4>1 DEF GoroutinesCounted, Present
    <3>2. CASE ~UNCHANGED <<retry, wg>>
      <4>1. PICK l \in Loops : retry[l] = "none" /\ retry' = [retry EXCEPT ![l] = "tick"] /\ wg' = wg + 1
        BY <3>2, CallbackMoves
      <4>2. wg' = wg + (IF "tick" # "none" THEN 1 ELSE 0) - (IF retry[l] # "none" THEN 1 ELSE 0)
        BY <4>1 DEF TypeOK
      <4> QED BY <2>1, <4>1, <4>2, LoopCounted
    <3> QED BY <3>1, <3>2
  <2> QED BY <2>1, <2>2 DEF GoroutinesCounted
<1>2. RetryOwned'
  BY CallbackMoves DEF RetryOwned, LiveLoops, Spawning, TypeOK
<1>3. StopOrder'
  <2>1. UNCHANGED <<backend, loop, ends>>
    BY CallbackMoves
  <2>2. \A p \in Stops \cup {Starter} : finisher[p] \in {"join", "returned"} =>
          UNCHANGED retry /\ \A d \in Callbacks : callback'[d] \in {"free", "check"}
    BY CallbackMoves DEF StopOrder
  <2> QED BY <2>1, <2>2 DEF StopOrder, Retrying
<1> QED BY <1>1, <1>2, <1>3, CallbackMoves, CallbackCounted

\* A step of a retry loop preserves the invariant.
LEMMA RetryKeeps ==
  ASSUME WInv, NEW l \in Loops, Retry(l)
  PROVE  WInv'
<1> USE DEF WInv
<1>1. /\ UNCHANGED <<sources, loop, armed, callback, debounceWg, ends>> /\ TypeOK'
      /\ retry[l] # "none"
      /\ \E to \in {"none", "tick", "clear", "start", "call", "again", "leave", "done"} :
           /\ retry' = [retry EXCEPT ![l] = to]
           /\ wg' = wg + (IF to # "none" THEN 1 ELSE 0) - (IF retry[l] # "none" THEN 1 ELSE 0)
           /\ to \notin {"none", "done"} => retry[l] # "done" /\ retryActive' = retryActive
           /\ to = "none" => retry[l] = "done" /\ retryActive' = retryActive
           /\ to = "done" => retry[l] = "leave"
  <2> USE DEF TypeOK, RetryAt
  <2>b. retryActive' \in BOOLEAN /\ retryPending' \in BOOLEAN /\ running' \in BOOLEAN
    BY Zenon DEF Retry, RetryStops, RetryTicks, RetryClears, RetryReady, RetryStarts, RetryAgain,
       RetryLeaves, RetryDone
  <2>1. CASE RetryStops(l) \/ RetryTicks(l) \/ RetryClears(l)
    BY <2>1, <2>b DEF RetryStops, RetryTicks, RetryClears
  <2>2. CASE RetryReady(l) \/ RetryAgain(l)
    BY <2>2, <2>b DEF RetryReady, RetryAgain
  <2>3. CASE RetryStarts(l)
    BY <2>3, <2>b DEF RetryStarts
  <2>4. CASE RetryLeaves(l) \/ RetryDone(l)
    BY <2>4, <2>b DEF RetryLeaves, RetryDone
  <2> QED BY <2>1, <2>2, <2>3, <2>4 DEF Retry
<1>2. CallbacksCounted'
  BY <1>1 DEF CallbacksCounted, InFlight
<1>3. GoroutinesCounted'
  BY <1>1, LoopCounted DEF GoroutinesCounted
<1>4. RetryOwned'
  BY <1>1 DEF RetryOwned, LiveLoops, Spawning, TypeOK
<1>5. StopOrder'
  <2>1. \A p \in Stops : finisher[p] # "returned"
    BY <1>1 DEF StopOrder, Retrying
  <2> QED BY <1>1, <2>1 DEF StopOrder
<1> QED BY <1>1, <1>2, <1>3, <1>4, <1>5

\* A step of the backend, the loop, a file or the coordinator preserves it.
LEMMA SourceKeeps ==
  ASSUME WInv, SourceStep \/ OutsideStep
  PROVE  WInv'
<1> USE DEF WInv
<1>1. TypeOK'
  <2> USE DEF TypeOK
  <2>b. /\ running' \in BOOLEAN /\ armed' \in BOOLEAN /\ canceled' \in BOOLEAN
    BY Zenon DEF SourceStep, OutsideStep, Start, FileChanges, BackendReports, BackendEnds, LoopTakes,
       LoopEnds, Schedule, OtherStart, RunEnds, Cancel
  <2>1. CASE Start \/ FileChanges \/ BackendReports \/ BackendEnds
    BY <2>1, <2>b DEF Start, FileChanges, BackendReports, BackendEnds
  <2>2. CASE LoopTakes \/ LoopEnds \/ Schedule
    BY <2>2, <2>b DEF LoopTakes, LoopEnds, Schedule
  <2>3. CASE OutsideStep
    BY <2>3, <2>b DEF OutsideStep, OtherStart, RunEnds, Cancel
  <2> QED BY <2>1, <2>2, <2>3 DEF SourceStep
<1>2. /\ UNCHANGED <<callback, retry, retryActive, stopped>>
      /\ \A p \in Stops : finisher'[p] = finisher[p]
      /\ finisher'[Starter] # finisher[Starter] => finisher'[Starter] = "wait"
      /\ wg' - Present(backend', "gone") - Present(loop', "done")
           = wg - Present(backend, "gone") - Present(loop, "done")
      /\ debounceWg' - (IF armed' THEN 1 ELSE 0) = debounceWg - (IF armed THEN 1 ELSE 0)
      /\ finisher'[Starter] = "out" => finisher[Starter] = "out" /\ UNCHANGED <<backend, loop>>
      /\ backend = "gone" /\ loop = "done" => UNCHANGED <<backend, loop>>
  <2> USE DEF TypeOK, Present, GoroutinesCounted
  <2>1. CASE Start \/ FileChanges \/ BackendReports \/ BackendEnds
    BY <2>1 DEF Start, FileChanges, BackendReports, BackendEnds
  <2>2. CASE LoopTakes \/ LoopEnds \/ Schedule
    BY <2>2 DEF LoopTakes, LoopEnds, Schedule
  <2>3. CASE OutsideStep
    BY <2>3 DEF OutsideStep, OtherStart, RunEnds, Cancel
  <2> QED BY <2>1, <2>2, <2>3 DEF SourceStep
<1>3. InFlight' = InFlight /\ Retrying' = Retrying
  BY <1>2 DEF InFlight, Retrying
<1>4. CallbacksCounted'
  BY <1>1, <1>2, <1>3, CountsAreNumbers DEF CallbacksCounted, TypeOK
<1>5. GoroutinesCounted'
  BY <1>1, <1>2, <1>3, CountsAreNumbers DEF GoroutinesCounted, TypeOK, Present
<1>6. RetryOwned'
  BY <1>2 DEF RetryOwned, LiveLoops, Spawning
<1>7. StopOrder'
  BY <1>2, <1>3 DEF StopOrder
<1> QED BY <1>1, <1>4, <1>5, <1>6, <1>7

\* A step of a Stop, or of the goroutine of Start that ends, preserves it.
LEMMA StopKeeps ==
  ASSUME WInv, NEW p \in Stops \cup {Starter}, StopStep(p)
  PROVE  WInv'
<1> USE DEF WInv
<1>1. /\ UNCHANGED <<sources, loop, workers, wg, canceled, runs>> /\ TypeOK'
      /\ \A q \in Stops \cup {Starter} : q # p => finisher'[q] = finisher[q]
      /\ debounceWg' - (IF armed' THEN 1 ELSE 0) = debounceWg - (IF armed THEN 1 ELSE 0)
      /\ stopped => stopped'
      /\ finisher'[p] # "out"
      /\ finisher'[p] = "drain" => stopped'
      /\ finisher'[p] \in {"join", "returned"} =>
           \/ finisher[p] = "drain" /\ debounceWg = 0 /\ ~(p \in Stops /\ finisher'[p] = "returned")
           \/ p \in Stops /\ finisher[p] = "join" /\ wg = 0
  <2> USE DEF TypeOK, FinisherAt
  <2>b. armed' \in BOOLEAN /\ stopped' \in BOOLEAN
    BY Zenon DEF StopStep, Finish, StopCalled, StarterWakes, Disarm, CloseStop, Drain, Join
  <2>1. CASE p = Starter /\ StarterWakes
    BY <2>1, <2>b DEF StarterWakes
  <2>2. CASE Disarm(p) \/ CloseStop(p)
    BY <2>2, <2>b DEF Disarm, CloseStop
  <2>3. CASE Drain(p)
    BY <2>3, <2>b DEF Drain
  <2>4. CASE p \in Stops /\ (StopCalled(p) \/ Join(p))
    BY <2>4, <2>b DEF StopCalled, Join
  <2> QED BY <2>1, <2>2, <2>3, <2>4 DEF StopStep, Finish
<1>2. InFlight' = InFlight /\ Retrying' = Retrying
  BY <1>1 DEF InFlight, Retrying
<1>3. CallbacksCounted'
  BY <1>1, <1>2, CountsAreNumbers DEF CallbacksCounted, TypeOK
<1>4. GoroutinesCounted'
  BY <1>1, <1>2 DEF GoroutinesCounted, Present
<1>5. RetryOwned'
  BY <1>1 DEF RetryOwned, LiveLoops, Spawning
<1>6. StopOrder'
  <2>1. debounceWg = 0 => \A c \in Callbacks : callback[c] = "free"
    <3>1. debounceWg = 0 => InFlight = {}
      BY CountsAreNumbers, FS_EmptySet DEF CallbacksCounted
    <3> QED BY <3>1 DEF InFlight
  <2>2. wg = 0 => backend = "gone" /\ loop = "done" /\ Retrying = {}
    BY CountsAreNumbers, FS_EmptySet DEF GoroutinesCounted, Present
  <2>3. finisher'[p] \in {"drain", "join", "returned"} => stopped'
    BY <1>1 DEF StopOrder
  <2>4. finisher'[p] \in {"join", "returned"} => \A c \in Callbacks : callback[c] \in {"free", "check"}
    BY <1>1, <2>1 DEF StopOrder
  <2>5. p \in Stops /\ finisher'[p] = "returned" => backend = "gone" /\ loop = "done" /\ Retrying = {}
    BY <1>1, <2>2
  <2> QED BY <1>1, <1>2, <2>3, <2>4, <2>5 DEF StopOrder
<1> QED BY <1>1, <1>3, <1>4, <1>5, <1>6

\* The invariant holds once PrepareRun has counted the two goroutines of Start.
LEMMA InitialWatcher == Init => WInv
<1> SUFFICES ASSUME Init PROVE WInv
  OBVIOUS
<1> USE DEF Init
<1>1. TypeOK
  <2>1. armed \in BOOLEAN /\ retryActive \in BOOLEAN /\ retryPending \in BOOLEAN /\ stopped \in BOOLEAN
        /\ canceled \in BOOLEAN /\ running \in BOOLEAN
    BY Zenon
  <2> QED BY <2>1 DEF TypeOK
<1>2. InFlight = {} /\ Retrying = {} /\ LiveLoops = {} /\ Spawning = {}
  BY DEF InFlight, Retrying, LiveLoops, Spawning
<1>3. Cardinality(InFlight) = 0 /\ Cardinality(Retrying) = 0
  BY <1>2, FS_EmptySet
<1>4. CallbacksCounted /\ GoroutinesCounted
  BY <1>3 DEF CallbacksCounted, GoroutinesCounted, Present
<1>5. RetryOwned /\ StopOrder
  BY <1>2 DEF RetryOwned, StopOrder
<1> QED BY <1>1, <1>4, <1>5 DEF WInv

\* Every step preserves the invariant.
LEMMA WatcherStepKeeps == WInv /\ [Next]_vars => WInv'
<1> SUFFICES ASSUME WInv, [Next]_vars PROVE WInv'
  OBVIOUS
<1>1. CASE UNCHANGED vars
  BY <1>1 DEF WInv, TypeOK, CallbacksCounted, GoroutinesCounted, RetryOwned, StopOrder, InFlight,
     Retrying, LiveLoops, Spawning, Present
<1>2. CASE Next
  <2>1. \/ SourceStep \/ OutsideStep
        \/ \E c \in Callbacks : Callback(c)
        \/ \E l \in Loops : Retry(l)
        \/ \E p \in Stops \cup {Starter} : StopStep(p)
    BY <1>2 DEF Next, SourceStep, OutsideStep, StopStep
  <2> QED BY <2>1, SourceKeeps, CallbackKeeps, RetryKeeps, StopKeeps
<1> QED BY <1>1, <1>2

(* For any number of callbacks, retry loops and callers of Stop: the wait    *)
(* groups count exactly the goroutines there are, retryActive has one owner, *)
(* and each stage of a Stop finds what the one before it waited for          *)
(* (watcher.go:85-175).                                                      *)
THEOREM WatcherInvariant == Spec => []WInv
BY InitialWatcher, WatcherStepKeeps, PTL DEF Spec

(* However callbacks find runs on, there is one retry loop at most, be it    *)
(* running or about to be spawned (watcher.go:238-243).                      *)
THEOREM OneRetryLoopHolds == Spec => []OneRetryLoop
<1>1. WInv => OneRetryLoop
  <2> SUFFICES ASSUME WInv PROVE OneRetryLoop
    OBVIOUS
  <2>1. DOMAIN retry = Loops
    BY DEF WInv, TypeOK
  <2>2. Live({"none", "done"}, retry) = Cardinality(LiveLoops)
    BY <2>1 DEF Live, LiveLoops
  <2>3. Cardinality(LiveLoops) \in {0, 1} /\ Cardinality(Spawning) \in {0, 1}
        /\ (LiveLoops = {} => Cardinality(LiveLoops) = 0) /\ (Spawning = {} => Cardinality(Spawning) = 0)
    BY AtMostOne DEF WInv, RetryOwned
  <2>4. Cardinality(LiveLoops) + Cardinality(Spawning) <= 1
    BY <2>3 DEF WInv, RetryOwned
  <2> QED BY <2>2, <2>4 DEF OneRetryLoop, Spawning
<1> QED BY <1>1, WatcherInvariant, PTL

(* When a Stop that did the stopping has returned, nothing of the watcher is *)
(* left that could start a run, not even a timer set while it was stopping   *)
(* (watcher.go:160-164).                                                     *)
THEOREM StopIsFinalHolds == Spec => []StopIsFinal
<1>1. WInv => StopIsFinal
  BY DEF WInv, StopOrder, StopIsFinal, Retrying
<1> QED BY <1>1, WatcherInvariant, PTL
=============================================================================
