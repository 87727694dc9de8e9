------------------------------ MODULE Watcher ------------------------------
(***************************************************************************)
(* The file watcher of a workspace: a backend that turns changed files     *)
(* into events, a loop that debounces them, timer callbacks and a retry    *)
(* loop that start indexing runs, and the goroutines that stop it all.     *)
(* internal/watcher/{watcher,polling,fsnotify,backend}.go                  *)
(*                                                                         *)
(* Changes are numbered; a run takes in those made before it starts.  A    *)
(* path that the extensions and skipped directories exclude is no change.  *)
(* The fields that only Snapshot reads are left out.                       *)
(***************************************************************************)
EXTENDS Integers, FiniteSets

CONSTANTS
  Callbacks,    \* timer callbacks that can be in flight at once
  Loops,        \* retry loops that can exist at once
  Stops,        \* callers of Stop
  MaxChanges,   \* changes made to files
  EventCap,     \* capacity of the events channel (64 in the code)
  OthersStart   \* whether requests start runs as well

ASSUME ConstAssumption ==
  /\ MaxChanges \in Nat /\ EventCap \in Nat \ {0} /\ OthersStart \in BOOLEAN
  /\ Cardinality(Loops) > 1 /\ Callbacks # {}
  /\ IsFiniteSet(Callbacks) /\ IsFiniteSet(Loops)

Starter == "starter"
ASSUME StarterAssumption == Starter \notin Stops

VARIABLES
  changed, reported,  \* the last change; the last one the backend has seen
  events,             \* events in the channel
  backend, loop,      \* where the two goroutines of Start are
  armed,              \* w.debounce is a timer that has not fired
  callback, retry,    \* where each callback and each retry loop is
  retryActive, retryPending,
  wg, debounceWg,     \* the two wait groups
  stopped, canceled,  \* stopCh is closed; the context is done
  finisher,           \* where each Stop and the goroutine of Start is
  running, scanning, indexed  \* the coordinator: its run, what that takes in, what is indexed

vars == <<changed, reported, events, backend, loop, armed, callback, retry, retryActive,
          retryPending, wg, debounceWg, stopped, canceled, finisher, running, scanning, indexed>>
sources == <<changed, reported, events, backend>>
workers == <<callback, retry, retryActive, retryPending>>
ends == <<stopped, canceled, finisher>>
runs == <<running, scanning, indexed>>

Ending == stopped \/ canceled

Init ==
  /\ changed = 0 /\ reported = 0 /\ events = 0 /\ backend = "off" /\ loop = "off"
  /\ armed = FALSE /\ callback = [c \in Callbacks |-> "free"] /\ retry = [l \in Loops |-> "none"]
  /\ retryActive = FALSE /\ retryPending = FALSE
  /\ wg = 2 /\ debounceWg = 0  \* PrepareRun
  /\ stopped = FALSE /\ canceled = FALSE
  /\ finisher = [p \in Stops \cup {Starter} |-> "out"]
  /\ running = FALSE /\ scanning = 0 /\ indexed = 0

---------------------------------------------------------------------------
(* Start, the backend and the loop.                                        *)

Start ==
  /\ finisher[Starter] = "out"
  /\ finisher' = [finisher EXCEPT ![Starter] = "wait"]
  /\ backend' = "watch" /\ loop' = "select"
  /\ UNCHANGED <<changed, reported, events, armed, workers, wg, debounceWg, stopped, canceled, runs>>

FileChanges ==
  /\ changed < MaxChanges
  /\ changed' = changed + 1
  /\ UNCHANGED <<reported, events, backend, loop, armed, workers, wg, debounceWg, ends, runs>>

\* A poll finds a difference, or the system reports one; the send waits for
\* room in the channel.
BackendReports ==
  /\ backend = "watch" /\ reported < changed /\ events < EventCap
  /\ reported' = changed /\ events' = events + 1
  /\ UNCHANGED <<changed, backend, loop, armed, workers, wg, debounceWg, ends, runs>>

\* The backend returns, or fails; its goroutine closes the channel.
BackendEnds ==
  /\ backend = "watch"
  /\ backend' = "gone" /\ wg' = wg - 1
  /\ UNCHANGED <<changed, reported, events, loop, armed, workers, debounceWg, ends, runs>>

LoopTakes ==
  /\ loop = "select" /\ events > 0
  /\ events' = events - 1 /\ loop' = "schedule"
  /\ UNCHANGED <<changed, reported, backend, armed, workers, wg, debounceWg, ends, runs>>

LoopEnds ==
  /\ loop = "select" /\ (Ending \/ (backend = "gone" /\ events = 0))
  /\ loop' = "done" /\ wg' = wg - 1
  /\ UNCHANGED <<sources, armed, workers, debounceWg, ends, runs>>

\* scheduleDebounce: a timer that has not fired is replaced.
Schedule ==
  /\ loop = "schedule"
  /\ loop' = "select" /\ armed' = TRUE
  /\ debounceWg' = IF armed THEN debounceWg ELSE debounceWg + 1
  /\ UNCHANGED <<sources, workers, wg, ends, runs>>

---------------------------------------------------------------------------
(* The coordinator.                                                        *)

Begin == running' = TRUE /\ scanning' = changed /\ UNCHANGED indexed

\* coordinator.Start: refused while a run is on (ErrAlreadyRunning).
CoordinatorStart == IF running THEN UNCHANGED runs ELSE Begin

OtherStart ==
  /\ OthersStart /\ ~running
  /\ Begin
  /\ UNCHANGED <<sources, loop, armed, workers, wg, debounceWg, ends>>

RunEnds ==
  /\ running
  /\ running' = FALSE /\ indexed' = scanning
  /\ UNCHANGED <<sources, loop, armed, workers, wg, debounceWg, ends, scanning>>

---------------------------------------------------------------------------
(* The callback of the timer: triggerReindex.                              *)

CallbackAt(c, from, to) ==
  /\ callback[c] = from
  /\ callback' = [callback EXCEPT ![c] = to]
  /\ debounceWg' = IF to = "free" THEN debounceWg - 1 ELSE debounceWg
  /\ UNCHANGED <<sources, loop, ends>>

TimerFires(c) ==
  /\ armed
  /\ CallbackAt(c, "free", "check")
  /\ armed' = FALSE
  /\ UNCHANGED <<retry, retryActive, retryPending, wg, runs>>

CallbackChecks(c) ==
  /\ CallbackAt(c, "check", IF Ending THEN "free" ELSE "ask")
  /\ UNCHANGED <<armed, retry, retryActive, retryPending, wg, runs>>

CallbackAsks(c) ==
  /\ CallbackAt(c, "ask", IF running THEN "busy" ELSE "start")
  /\ UNCHANGED <<armed, retry, retryActive, retryPending, wg, runs>>

\* A run is on: the retry loop that exists is told, or one is made.
CallbackDefers(c) ==
  /\ retryActive
  /\ CallbackAt(c, "busy", "free")
  /\ retryPending' = TRUE
  /\ UNCHANGED <<armed, retry, retryActive, wg, runs>>

\* Slip: the callback does not look for a loop that exists.
ClaimsAnyway(c) ==
  /\ CallbackAt(c, "busy", "spawn")
  /\ retryActive' = TRUE
  /\ UNCHANGED <<armed, retry, retryPending, wg, runs>>

CallbackClaims(c) ==
  /\ ~retryActive
  /\ CallbackAt(c, "busy", "spawn")
  /\ retryActive' = TRUE
  /\ UNCHANGED <<armed, retry, retryPending, wg, runs>>

CallbackSpawns(c) ==
  /\ CallbackAt(c, "spawn", "free")
  /\ \E l \in Loops : retry[l] = "none" /\ retry' = [retry EXCEPT ![l] = "tick"]
  /\ wg' = wg + 1
  /\ UNCHANGED <<armed, retryActive, retryPending, runs>>

\* startReindex.
CallbackReady(c) ==
  /\ CallbackAt(c, "start", IF Ending THEN "free" ELSE "call")
  /\ UNCHANGED <<armed, retry, retryActive, retryPending, wg, runs>>

CallbackStarts(c) ==
  /\ CallbackAt(c, "call", "free")
  /\ CoordinatorStart
  /\ UNCHANGED <<armed, retry, retryActive, retryPending, wg>>

Callback(c) ==
  \/ TimerFires(c) \/ CallbackChecks(c) \/ CallbackAsks(c) \/ CallbackDefers(c)
  \/ CallbackClaims(c) \/ CallbackSpawns(c) \/ CallbackReady(c) \/ CallbackStarts(c)

---------------------------------------------------------------------------
(* runRetryLoop.                                                           *)

RetryAt(l, from, to) ==
  /\ retry[l] = from
  /\ retry' = [retry EXCEPT ![l] = to]
  /\ UNCHANGED <<sources, loop, armed, callback, debounceWg, ends>>

RetryStops(l) ==
  /\ Ending
  /\ RetryAt(l, "tick", "leave")
  /\ UNCHANGED <<retryActive, retryPending, wg, runs>>

\* A tick that finds the coordinator idle.
RetryTicks(l) ==
  /\ ~running
  /\ RetryAt(l, "tick", "clear")
  /\ UNCHANGED <<retryActive, retryPending, wg, runs>>

RetryClears(l) ==
  /\ RetryAt(l, "clear", "start")
  /\ retryPending' = FALSE
  /\ UNCHANGED <<retryActive, wg, runs>>

RetryReady(l) ==
  /\ RetryAt(l, "start", IF Ending THEN "again" ELSE "call")
  /\ UNCHANGED <<retryActive, retryPending, wg, runs>>

RetryStarts(l) ==
  /\ RetryAt(l, "call", "again")
  /\ CoordinatorStart
  /\ UNCHANGED <<retryActive, retryPending, wg>>

RetryAgain(l) ==
  /\ RetryAt(l, "again", IF retryPending THEN "tick" ELSE "leave")
  /\ UNCHANGED <<retryActive, retryPending, wg, runs>>

RetryLeaves(l) ==
  /\ RetryAt(l, "leave", "done")
  /\ retryActive' = FALSE
  /\ UNCHANGED <<retryPending, wg, runs>>

\* Slip: the loop that ends does not count itself out.
RetryDoneUncounted(l) ==
  /\ RetryAt(l, "done", "none")
  /\ UNCHANGED <<wg, retryActive, retryPending, runs>>

RetryDone(l) ==
  /\ RetryAt(l, "done", "none")
  /\ wg' = wg - 1
  /\ UNCHANGED <<retryActive, retryPending, runs>>

Retry(l) ==
  \/ RetryStops(l) \/ RetryTicks(l) \/ RetryClears(l) \/ RetryReady(l) \/ RetryStarts(l)
  \/ RetryAgain(l) \/ RetryLeaves(l) \/ RetryDone(l)

---------------------------------------------------------------------------
(* The end: the context, Stop, and finishStop, which the goroutine of      *)
(* Start runs too.                                                         *)

Cancel ==
  /\ ~canceled /\ canceled' = TRUE
  /\ UNCHANGED <<sources, loop, armed, workers, wg, debounceWg, stopped, finisher, runs>>

FinisherAt(p, from, to) ==
  /\ finisher[p] = from
  /\ finisher' = [finisher EXCEPT ![p] = to]
  /\ UNCHANGED <<sources, loop, workers, wg, canceled, runs>>

\* A Stop that finds stopCh closed returns without waiting.
StopCalled(s) ==
  /\ FinisherAt(s, "out", IF stopped THEN "early" ELSE "disarm")
  /\ UNCHANGED <<armed, debounceWg, stopped>>

StarterWakes ==
  /\ canceled
  /\ FinisherAt(Starter, "wait", "disarm")
  /\ UNCHANGED <<armed, debounceWg, stopped>>

Disarm(p) ==
  /\ FinisherAt(p, "disarm", "close")
  /\ armed' = FALSE
  /\ debounceWg' = IF armed THEN debounceWg - 1 ELSE debounceWg
  /\ UNCHANGED stopped

CloseStop(p) ==
  /\ FinisherAt(p, "close", "drain")
  /\ stopped' = TRUE
  /\ UNCHANGED <<armed, debounceWg>>

\* Slip: the callbacks in flight are not waited for.
DrainSkips(p) ==
  /\ FinisherAt(p, "drain", IF p = Starter THEN "returned" ELSE "join")
  /\ UNCHANGED <<armed, debounceWg, stopped>>

\* debounceWg.Wait.
Drain(p) ==
  /\ debounceWg = 0
  /\ FinisherAt(p, "drain", IF p = Starter THEN "returned" ELSE "join")
  /\ UNCHANGED <<armed, debounceWg, stopped>>

\* wg.Wait.
Join(s) ==
  /\ wg = 0
  /\ FinisherAt(s, "join", "returned")
  /\ UNCHANGED <<armed, debounceWg, stopped>>

Finish(p) == Disarm(p) \/ CloseStop(p) \/ Drain(p)

Next ==
  \/ Start \/ FileChanges \/ BackendReports \/ BackendEnds \/ LoopTakes \/ LoopEnds \/ Schedule
  \/ OtherStart \/ RunEnds \/ Cancel \/ StarterWakes \/ Finish(Starter)
  \/ \E c \in Callbacks : Callback(c)
  \/ \E l \in Loops : Retry(l)
  \/ \E s \in Stops : StopCalled(s) \/ Finish(s) \/ Join(s)

\* Goroutines run, timers fire, runs end; a backend ends once it is told to.
Fairness ==
  /\ WF_vars(Start) /\ WF_vars(BackendReports) /\ WF_vars(Ending /\ BackendEnds)
  /\ WF_vars(LoopTakes) /\ WF_vars(LoopEnds) /\ WF_vars(Schedule) /\ WF_vars(RunEnds)
  /\ \A c \in Callbacks : WF_vars(Callback(c))
  /\ \A l \in Loops : WF_vars(Retry(l))
  /\ \A s \in Stops : WF_vars(Finish(s) \/ Join(s))

Spec == Init /\ [][Next]_vars /\ Fairness

---------------------------------------------------------------------------
(* What the goroutines keep to, so that the promises below hold.           *)

TypeOK ==
  /\ changed \in Nat /\ reported \in Nat /\ events \in Nat
  /\ backend \in {"off", "watch", "gone"} /\ loop \in {"off", "select", "schedule", "done"}
  /\ armed \in BOOLEAN /\ retryActive \in BOOLEAN /\ retryPending \in BOOLEAN
  /\ callback \in [Callbacks -> {"free", "check", "ask", "busy", "spawn", "start", "call"}]
  /\ retry \in [Loops -> {"none", "tick", "clear", "start", "call", "again", "leave", "done"}]
  /\ wg \in Int /\ debounceWg \in Int
  /\ stopped \in BOOLEAN /\ canceled \in BOOLEAN
  /\ finisher \in [Stops \cup {Starter} ->
                     {"out", "early", "wait", "disarm", "close", "drain", "join", "returned"}]
  /\ running \in BOOLEAN /\ scanning \in Nat /\ indexed \in Nat

Present(goroutine, end) == IF goroutine = end THEN 0 ELSE 1
InFlight == {c \in Callbacks : callback[c] # "free"}
Retrying == {l \in Loops : retry[l] # "none"}

\* debounceWg counts the timer that is set and the callbacks of those that fired.
CallbacksCounted == debounceWg = Cardinality(InFlight) + (IF armed THEN 1 ELSE 0)

\* wg counts the backend, the loop and the retry loops, from PrepareRun on.
GoroutinesCounted ==
  /\ wg = Cardinality(Retrying) + Present(backend, "gone") + Present(loop, "done")
  /\ finisher[Starter] = "out" => backend = "off" /\ loop = "off"

\* retryActive belongs to one retry loop, or to the callback about to spawn it.
LiveLoops == {l \in Loops : retry[l] \notin {"none", "done"}}
Spawning == {c \in Callbacks : callback[c] = "spawn"}
RetryOwned ==
  /\ LiveLoops # {} \/ Spawning # {} => retryActive
  /\ LiveLoops = {} \/ Spawning = {}
  /\ \A l \in LiveLoops, m \in LiveLoops : l = m
  /\ \A c \in Spawning, d \in Spawning : c = d

\* Past debounceWg.Wait no callback gets beyond its look at stopCh; past wg.Wait
\* there is no goroutine, and nobody who could make one.
StopOrder ==
  \A p \in Stops \cup {Starter} :
    /\ finisher[p] \in {"drain", "join", "returned"} => stopped
    /\ finisher[p] \in {"join", "returned"} => \A c \in Callbacks : callback[c] \in {"free", "check"}
    /\ p \in Stops /\ finisher[p] = "returned" => backend = "gone" /\ loop = "done" /\ Retrying = {}

WInv == TypeOK /\ CallbacksCounted /\ GoroutinesCounted /\ RetryOwned /\ StopOrder

---------------------------------------------------------------------------
(* What the watcher promises.                                              *)

Live(where, at) == Cardinality({x \in DOMAIN at : at[x] \notin where})

\* Callbacks that find a run on share one retry loop (watcher.go:238-243).
OneRetryLoop ==
  Live({"none", "done"}, retry) + Cardinality({c \in Callbacks : callback[c] = "spawn"}) <= 1

\* Once a Stop that did the stopping has returned, nothing of the watcher can
\* start a run any more: a late timer only finds stopCh closed, and the loop,
\* the backend and the retry loop are gone (watcher.go:160-164).
StopIsFinal ==
  (\E s \in Stops : finisher[s] = "returned") =>
    /\ backend = "gone" /\ loop = "done"
    /\ \A c \in Callbacks : callback[c] \in {"free", "check"}
    /\ \A l \in Loops : retry[l] = "none"

\* A Stop that waits for callbacks and goroutines gets to its end, whatever
\* they wait for (watcher.go:157, 173).
StopReturns ==
  \A s \in Stops : finisher[s] = "disarm" ~> finisher[s] = "returned"

\* A change the backend reported is taken in by some later run, unless the
\* watcher ends (watcher.go:35).
ChangeIsIndexed ==
  \A n \in 1 .. MaxChanges : (changed = n) ~> (indexed >= n \/ Ending \/ backend = "gone")
=============================================================================
