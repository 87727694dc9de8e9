-------------------------------- MODULE Stdio --------------------------------
(***************************************************************************)
(* Per-project server processes of one workspace: a process that starts    *)
(* scans the process table and terminates the others, takes stdio.lock,    *)
(* serves its transports until its context is cancelled, drains them and   *)
(* closes.  The system reuses the process ids of the dead.                 *)
(* internal/lifecycle/*.go, cmd/.../main.go (runPerProject,                *)
(* serveTransports, awaitTransportResults)                                 *)
(***************************************************************************)
EXTENDS Naturals, FiniteSets

CONSTANTS
  Servers,     \* per-project processes of the workspace, each started once
  HttpOnly,    \* those of them that run without --stdio
  Bystanders,  \* other processes of the machine
  Wrappers,    \* those of them whose command line names the program and the workspace
  StdioWrappers,  \* those of the latter whose command line has --stdio as well
  Pids,        \* process ids
  Nobody

ASSUME StdioAssumption ==
  /\ HttpOnly \subseteq Servers
  /\ Servers \cap Bystanders = {}
  /\ StdioWrappers \subseteq Wrappers /\ Wrappers \subseteq Bystanders
  /\ Nobody \notin Servers \cup Bystanders \cup Pids

Processes == Servers \cup Bystanders
Retries == 3   \* stdioLockRetries

\* The sets of transports serveTransports may have to start.
Transports(p) ==
  IF p \in HttpOnly THEN {{"http"}} ELSE {{"stdio"}, {"http", "stdio"}}

VARIABLES
  stage,      \* stage[p]: what server p is doing
  pid,        \* pid[q]: the id of process q, or Nobody while it does not live
  ended,      \* processes that have lived
  parent,     \* parent[p]: the launcher p watches, by id and start time
  attempt,    \* attempt[p]: how often p has tried to take stdio.lock
  targets,    \* targets[p]: the processes its scan has found and it has not dealt with
  victim,     \* victim[p]: the one it has signalled and gives time to exit, or Nobody
  cancelled,  \* servers whose context is cancelled
  up,         \* up[p]: transports of p that have not reported their end
  stdioLock,  \* stdio.lock: the server that holds it, or Nobody
  hit         \* pairs of a server and a process it has signalled

table == <<pid, ended, stdioLock>>
scanVars == <<targets, victim>>
stdioVars == <<stage, table, parent, attempt, scanVars, cancelled, up, hit>>

\* A process is remembered by its id and its start time; which process it is
\* stands for the latter.
Remembered(q) == [pid |-> pid[q], start |-> q]

StdioInit ==
  /\ stage = [p \in Servers |-> "off"]
  /\ pid = [q \in Processes |-> Nobody]
  /\ ended = {}
  /\ parent = [p \in Servers |-> Nobody]
  /\ attempt = [p \in Servers |-> 1]
  /\ targets = [p \in Servers |-> {}]
  /\ victim = [p \in Servers |-> Nobody]
  /\ cancelled = {}
  /\ up = [p \in Servers |-> {}]
  /\ stdioLock = Nobody
  /\ hit = {}

Enters(p, next) == stage' = [stage EXCEPT ![p] = next]
Alive == {q \in Processes : pid[q] # Nobody}

\* The process that an id names now.
Named(n) == {q \in Alive : pid[q] = n}
FreePids == {n \in Pids : Named(n) = {}}

\* sameLiveProcess, sameProcess: the id still names the remembered process.
StillNames(r) == r.start \in Named(r.pid)

\* f with the value v for the servers in S.
Reset(f, S, v) == [p \in Servers |-> IF p \in S THEN v ELSE f[p]]

\* Processes end: what they remembered is lost, the system gives their ids and
\* locks back.
End(dead) ==
  /\ stage' = Reset(stage, dead, "gone")
  /\ pid' = [q \in Processes |-> IF q \in dead THEN Nobody ELSE pid[q]]
  /\ ended' = ended \cup dead
  /\ stdioLock' = IF stdioLock \in dead THEN Nobody ELSE stdioLock
  /\ parent' = Reset(parent, dead, Nobody)
  /\ attempt' = Reset(attempt, dead, 1)
  /\ targets' = Reset(targets, dead, {})
  /\ cancelled' = cancelled \ dead
  /\ up' = Reset(up, dead, {})

-----------------------------------------------------------------------------
\* The process table.

\* The editor or shell starts a server, which remembers who that was.
ServerStarts(p) ==
  /\ stage[p] = "off"
  /\ \E n \in FreePids : pid' = [pid EXCEPT ![p] = n]
  /\ \E b \in Bystanders \cap Alive : parent' = [parent EXCEPT ![p] = Remembered(b)]
  /\ Enters(p, "scanning")
  /\ UNCHANGED <<ended, stdioLock, attempt, scanVars, cancelled, up, hit>>

BystanderStarts(b) ==
  /\ pid[b] = Nobody /\ b \notin ended
  /\ \E n \in FreePids : pid' = [pid EXCEPT ![b] = n]
  /\ UNCHANGED <<stage, ended, stdioLock, parent, attempt, scanVars, cancelled, up, hit>>

BystanderEnds(b) ==
  /\ pid[b] # Nobody
  /\ End({b})
  /\ UNCHANGED <<victim, hit>>

EndsItself(p) ==
  /\ End({p})
  /\ victim' = Reset(victim, {p}, Nobody)
  /\ UNCHANGED hit

ServerDies(p) == pid[p] # Nobody /\ EndsItself(p)

\* Slip: a launcher is taken to live as long as anything has its id.
WatchesId(p) ==
  /\ p \notin HttpOnly
  /\ pid[p] # Nobody /\ p \notin cancelled
  /\ Named(parent[p].pid) = {}
  /\ cancelled' = cancelled \cup {p}
  /\ UNCHANGED <<stage, table, parent, attempt, scanVars, up, hit>>

\* A tick of watchParents, which run starts only for --stdio: the launcher is
\* gone, and so the context is cancelled.
WatchesParent(p) ==
  /\ p \notin HttpOnly
  /\ pid[p] # Nobody /\ p \notin cancelled
  /\ ~StillNames(parent[p])
  /\ cancelled' = cancelled \cup {p}
  /\ UNCHANGED <<stage, table, parent, attempt, scanVars, up, hit>>

-----------------------------------------------------------------------------
\* PrepareWorkspaceLocks.  Both scans go by the command line, which launcher
\* scripts and package runners have as well as servers.  A process whose
\* command line cannot be read is passed over; its command line and its start
\* time are read in one step here.

\* isExcludedPID: the scanning server and the processes that launched it.
LaunchChain(p) == {p} \cup (Alive \cap {parent[p].start})

Finds(p, S) ==
  \E found \in SUBSET S :
    targets' = [targets EXCEPT ![p] = {Remembered(q) : q \in found}]

\* What has --stdio on its command line, the scanning server excepted.
ScansStdio(p) ==
  /\ stage[p] = "scanning"
  /\ Finds(p, (Alive \cap ((Servers \ HttpOnly) \cup StdioWrappers)) \ {p})
  /\ Enters(p, "stopping")
  /\ UNCHANGED <<table, parent, attempt, victim, cancelled, up, hit>>

\* Whatever names the program and the workspace, the launch chain excepted.
ScansWrappers(p) ==
  /\ stage[p] = "rescanning"
  /\ Finds(p, (Alive \cap (Servers \cup Wrappers)) \ LaunchChain(p))
  /\ Enters(p, "restopping")
  /\ UNCHANGED <<table, parent, attempt, victim, cancelled, up, hit>>

Signals(p, c) ==
  /\ cancelled' = cancelled \cup (Named(c.pid) \cap Servers)
  /\ hit' = hit \cup ({p} \X Named(c.pid))

\* terminatePIDChecked: SIGTERM, after another look at the start time.  The
\* signalled process only has its context cancelled.
Terminates(p) ==
  /\ stage[p] \in {"stopping", "restopping"} /\ victim[p] = Nobody
  /\ \E c \in targets[p] :
       /\ targets' = [targets EXCEPT ![p] = @ \ {c}]
       /\ IF StillNames(c)
            THEN Signals(p, c) /\ victim' = [victim EXCEPT ![p] = c]
            ELSE UNCHANGED <<cancelled, hit, victim>>
  /\ UNCHANGED <<stage, table, parent, attempt, up>>

\* Slip: whatever has the id after the grace period is killed.
KillsById(p) ==
  /\ stage[p] \in {"stopping", "restopping"} /\ victim[p] # Nobody
  /\ LET dead == Named(victim[p].pid) IN
       /\ End(dead)
       /\ hit' = hit \cup ({p} \X dead)
       /\ victim' = Reset(victim, dead \cup {p}, Nobody)

\* After the grace period: SIGKILL, if the id still names that process.
Kills(p) ==
  /\ stage[p] \in {"stopping", "restopping"} /\ victim[p] # Nobody
  /\ LET dead == IF StillNames(victim[p]) THEN {victim[p].start} ELSE {} IN
       /\ End(dead)
       /\ hit' = hit \cup ({p} \X dead)
       /\ victim' = Reset(victim, dead \cup {p}, Nobody)

HasStopped(p) ==
  /\ stage[p] \in {"stopping", "restopping"}
  /\ victim[p] = Nobody /\ targets[p] = {}
  /\ Enters(p, IF stage[p] = "stopping" THEN "rescanning" ELSE "locking")
  /\ UNCHANGED <<table, parent, attempt, scanVars, cancelled, up, hit>>

-----------------------------------------------------------------------------
\* PrepareStdio: the lock, with three attempts that each scan again.

TakesLock(p) ==
  /\ stage[p] = "locking" /\ stdioLock = Nobody
  /\ stdioLock' = p
  /\ Enters(p, "opening")
  /\ UNCHANGED <<pid, ended, parent, attempt, scanVars, cancelled, up, hit>>

TriesAgain(p) ==
  /\ stage[p] = "locking" /\ stdioLock # Nobody /\ attempt[p] < Retries
  /\ attempt' = [attempt EXCEPT ![p] = @ + 1]
  /\ Enters(p, "scanning")
  /\ UNCHANGED <<table, parent, scanVars, cancelled, up, hit>>

GivesUp(p) ==
  /\ stage[p] = "locking" /\ stdioLock # Nobody /\ attempt[p] = Retries
  /\ EndsItself(p)

-----------------------------------------------------------------------------
\* runPerProject: the service, its transports, and the way out.

Opens(p) ==
  /\ stage[p] = "opening"
  /\ \E started \in Transports(p) : up' = [up EXCEPT ![p] = started]
  /\ Enters(p, "serving")
  /\ UNCHANGED <<table, parent, attempt, scanVars, cancelled, hit>>

\* A transport ends by itself (end of input, an address in use) or because the
\* context is cancelled.  When others run, awaitTransportResults cancels it.
TransportEnds(p, t) ==
  /\ stage[p] = "serving" /\ t \in up[p]
  /\ up' = [up EXCEPT ![p] = @ \ {t}]
  /\ cancelled' = cancelled \cup {p}
  /\ UNCHANGED <<stage, table, parent, attempt, scanVars, hit>>

\* All have reported, or those that have not are given up after 15 s.
Drains(p) ==
  /\ stage[p] = "serving"
  /\ up[p] = {} \/ p \in cancelled
  /\ Enters(p, "closing")
  /\ UNCHANGED <<table, parent, attempt, scanVars, cancelled, up, hit>>

\* Slip: what was set up is torn down in the same order, the lock first.
ClosesInOrder(p) ==
  /\ stage[p] = "closing"
  /\ stdioLock' = Nobody
  /\ UNCHANGED <<stage, pid, ended, parent, attempt, scanVars, cancelled, up, hit>>

\* perProjectRuntime.Close: the service, then the lock; the process exits.
Closes(p) ==
  /\ stage[p] = "closing"
  /\ Enters(p, "closed")
  /\ UNCHANGED <<table, parent, attempt, scanVars, cancelled, up, hit>>

Exits(p) == stage[p] = "closed" /\ EndsItself(p)

Preparing(p) ==
  ScansStdio(p) \/ ScansWrappers(p) \/ Terminates(p) \/ Kills(p) \/ HasStopped(p)
    \/ TakesLock(p) \/ TriesAgain(p) \/ GivesUp(p)

Leaving(p) == Drains(p) \/ Closes(p) \/ Exits(p)

StdioNext ==
  \/ \E p \in Servers :
       \/ ServerStarts(p) \/ ServerDies(p) \/ WatchesParent(p)
       \/ Preparing(p) \/ Opens(p) \/ Leaving(p)
       \/ \E t \in {"http", "stdio"} : TransportEnds(p, t)
  \/ \E b \in Bystanders : BystanderStarts(b) \/ BystanderEnds(b)

StdioSpec == StdioInit /\ [][StdioNext]_stdioVars

\* Live servers run on, and their ticker ticks.
FairStdio ==
  /\ StdioSpec
  /\ \A p \in Servers :
       /\ WF_stdioVars(Preparing(p)) /\ WF_stdioVars(Opens(p)) /\ WF_stdioVars(Leaving(p))
       /\ WF_stdioVars(WatchesParent(p))

-----------------------------------------------------------------------------
\* Properties.

PastLock == {"opening", "serving", "closing", "closed"}
Stages == PastLock \cup {"off", "scanning", "stopping", "rescanning", "restopping",
                       "locking", "gone"}
Records == [pid : Pids, start : Processes]

StdioTypeOK ==
  /\ stage \in [Servers -> Stages]
  /\ pid \in [Processes -> Pids \cup {Nobody}]
  /\ ended \subseteq Processes
  /\ parent \in [Servers -> Records \cup {Nobody}]
  /\ attempt \in [Servers -> 1..Retries]
  /\ targets \in [Servers -> SUBSET Records]
  /\ victim \in [Servers -> Records \cup {Nobody}]
  /\ cancelled \subseteq Servers
  /\ up \in [Servers -> SUBSET {"http", "stdio"}]
  /\ stdioLock \in Servers \cup {Nobody}
  /\ hit \subseteq Servers \X Processes

\* The processes a server may signal: what names the program and the workspace, and
\* of those its own launcher only when that has --stdio on its command line.
MayStop ==
  [p \in Servers |->
    Servers \cup StdioWrappers \cup
      {q \in Wrappers : parent[p] # Nobody => q # parent[p].start}]

\* "defending against pid reuse" (proc_candidate.go): only what names the program
\* and the workspace on its command line is signalled, and never the launcher that
\* is excluded from the second scan, even when an id passes to another process
\* between the scan, the signal and the kill.
BystandersAreSafe == \A h \in hit : h[2] \in MayStop[h[1]]

\* What the proofs rest on: a server past its lock has it, ids are unique, and a
\* server remembers only what it may stop, and nothing before it has started.
SInv ==
  /\ StdioTypeOK
  /\ \A p \in Servers : stage[p] \in PastLock => stdioLock = p
  /\ \A q, r \in Processes : pid[q] # Nobody /\ pid[q] = pid[r] => q = r
  /\ \A p \in Servers :
       /\ \A t \in targets[p] : t.start \in MayStop[p]
       /\ victim[p] # Nobody => victim[p].start \in MayStop[p]
       /\ stage[p] = "off" =>
            targets[p] = {} /\ victim[p] = Nobody /\ \A h \in hit : h[1] # p
  /\ BystandersAreSafe

\* "another MCP stdio instance is running for this workspace" (prepare.go): the
\* service of a workspace, from its start to the end of its close, is up in one
\* process at a time, whoever is killed or replaced meanwhile.
OneServer ==
  \A p, q \in Servers :
    {stage[p], stage[q]} \subseteq {"opening", "serving", "closing"} => p = q

\* A --stdio server whose launcher is gone does not stay behind, even when the id of the
\* launcher has passed to another process (parent_watch.go).
OrphansLeave ==
  \A p \in Servers \ HttpOnly :
    pid[p] # Nobody /\ ~StillNames(parent[p]) ~> stage[p] = "gone"

\* "the second process reclaims orphan locks and surfaces the competing instance
\* ... instead of competing for the index" (DEVELOPMENT.md): a server that
\* serves, with its launcher alive, is not signalled by a newcomer.
CompetitorIsLeftAlone ==
  [][\A p \in Servers :
       stage[p] = "serving" /\ p \notin cancelled /\ StillNames(parent[p]) =>
         \A q \in Servers : <<q, p>> \notin hit']_stdioVars
=============================================================================
