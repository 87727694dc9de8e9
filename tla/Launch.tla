------------------------------- MODULE Launch -------------------------------
(***************************************************************************)
(* How the proxies find, start and share the one user-level daemon of the  *)
(* machine: the token file every process may create, the probe of /health, *)
(* the detached launch, the singleton lock, the listener, and the graceful *)
(* stop.  Processes start, race and die in any order.                      *)
(* internal/daemonclient/client.go, auth.go, launch_unix.go,               *)
(* internal/transport/http/server.go, cmd/.../main.go (runDaemon)          *)
(***************************************************************************)
EXTENDS Naturals, FiniteSets

CONSTANTS
  Clients,      \* proxies and --ensure-daemon commands
  Daemons,      \* daemon processes, each launched at most once
  Strangers,    \* other programs that may listen on the daemon's address
  Legacy,       \* those of them that answer /health as a manual daemon does
  None, Empty   \* no file, process or listener; a token file without content

ASSUME LaunchAssumption ==
  /\ Clients \cap Daemons = {}
  /\ Strangers \cap (Clients \cup Daemons) = {}
  /\ Legacy \subseteq Strangers
  /\ {None, Empty} \cap (Clients \cup Daemons \cup Strangers) = {}
  /\ None # Empty

Procs == Clients \cup Daemons

VARIABLES
  pc,       \* pc[p]: what process p is doing
  file,     \* auth.token: None, Empty, or the process whose token it holds
  token,    \* token[p]: the token p works with (named by its maker), or None
  lock,     \* daemon.lock: the daemon that holds it, or None
  port,     \* who listens on the daemon's address, or None
  told,     \* daemons whose context is cancelled: a signal or /v1/admin/stop
  mishaps   \* what has gone wrong so far, for the properties to refer to

vars == <<pc, file, token, lock, port, told, mishaps>>

Init ==
  /\ pc = [p \in Procs |-> "off"]
  /\ file = None
  /\ token = [p \in Procs |-> None]
  /\ lock = None
  /\ port = None
  /\ told = {}
  /\ mishaps = {}

Goto(p, next) == pc' = [pc EXCEPT ![p] = next]
Mishap(what) == mishaps' = mishaps \cup {what}

\* Where a process goes on with its token, and what it does without one: a
\* client reports the error, a daemon returns and so releases its lock.
AfterToken(p) == IF p \in Clients THEN "probing" ELSE "binding"
WithoutToken(p) == IF p \in Clients THEN "failed" ELSE "closed"

-----------------------------------------------------------------------------
\* EnsureAuthToken, the same in every process.

ReadsToken(p) ==
  /\ pc[p] = "token" /\ file \in Procs
  /\ token' = [token EXCEPT ![p] = file]
  /\ Goto(p, AfterToken(p))
  /\ UNCHANGED <<file, lock, port, told, mishaps>>

\* Slip: the file is created without O_EXCL, so that a later creator empties it.
CreatesTokenOver(p) ==
  /\ pc[p] = "token" /\ file \in {None, Empty}
  /\ file' = Empty
  /\ Goto(p, "writing")
  /\ UNCHANGED <<token, lock, port, told, mishaps>>

\* createAuthToken: the file exists from here on, without content.
CreatesToken(p) ==
  /\ pc[p] = "token" /\ file = None
  /\ file' = Empty
  /\ Goto(p, "writing")
  /\ UNCHANGED <<token, lock, port, told, mishaps>>

WritesToken(p) ==
  /\ pc[p] = "writing"
  /\ file' = p
  /\ Goto(p, "syncing")
  /\ UNCHANGED <<token, lock, port, told, mishaps>>

KeepsToken(p) ==
  /\ pc[p] = "syncing"
  /\ token' = [token EXCEPT ![p] = p]
  /\ Goto(p, AfterToken(p))
  /\ UNCHANGED <<file, lock, port, told, mishaps>>

\* A failed write, sync or close takes the file away again; after the write
\* others may have read it.
WithdrawsToken(p) ==
  /\ pc[p] \in {"writing", "syncing"}
  /\ file' = None
  /\ Mishap(IF pc[p] = "syncing" THEN "withdrawn" ELSE "unwritten")
  /\ Goto(p, WithoutToken(p))
  /\ UNCHANGED <<token, lock, port, told>>

\* Slip: the process that lost the creation reports it as an error.
GivesUpTokenAtOnce(p) ==
  /\ pc[p] = "token" /\ file = Empty
  /\ Goto(p, WithoutToken(p))
  /\ UNCHANGED <<file, token, lock, port, told, mishaps>>

\* Slip: the wait for the creator has no deadline.
GivesUpTokenNever(p) == FALSE /\ UNCHANGED vars

\* After two seconds with an empty file.  A creator that lives has filled it by
\* then: a write and a sync of 65 bytes.
GivesUpToken(p) ==
  /\ pc[p] = "token" /\ file = Empty
  /\ \A q \in Procs : pc[q] # "writing"
  /\ Goto(p, WithoutToken(p))
  /\ UNCHANGED <<file, token, lock, port, told, mishaps>>

-----------------------------------------------------------------------------
\* Client.EnsureRunning.

Starts(c) ==
  /\ pc[c] = "off"
  /\ Goto(c, "token")
  /\ UNCHANGED <<file, token, lock, port, told, mishaps>>

\* probeHealth: /health is answered without a look at the token, so that any
\* daemon of this program passes.
Healthy == port \in Daemons \cup Legacy
ForeignListener == port \in Strangers \ Legacy

\* Whoever listens may drop the connection or not answer within three seconds.
NoAnswer == IF port = None THEN UNCHANGED mishaps ELSE Mishap("mute")

\* The first probe, and the one made under the client's mutex: a daemon that
\* answers is used, an answer of another program is an error, and no answer
\* leads to the next step.
Probes(c) ==
  /\ pc[c] \in {"probing", "reprobing"}
  /\ \/ Healthy /\ Goto(c, "connected") /\ UNCHANGED mishaps
     \/ ForeignListener /\ Goto(c, "failed") /\ UNCHANGED mishaps
     \/ NoAnswer /\ Goto(c, IF pc[c] = "probing" THEN "reprobing" ELSE "launching")
  /\ UNCHANGED <<file, token, lock, port, told>>

\* startDetached: the daemon does not depend on the client from here on.
Launches(c) ==
  /\ pc[c] = "launching"
  /\ \E d \in Daemons :
       /\ pc[d] = "off"
       /\ pc' = [pc EXCEPT ![c] = "waiting", ![d] = "starting"]
  /\ UNCHANGED <<file, token, lock, port, told, mishaps>>

LaunchFails(c) ==
  /\ pc[c] = "launching"
  /\ Goto(c, "failed")
  /\ Mishap("launch")
  /\ UNCHANGED <<file, token, lock, port, told>>

\* waitHealthy: every error, a foreign listener included, means another try.
FindsDaemon(c) ==
  /\ pc[c] = "waiting" /\ Healthy
  /\ Goto(c, "connected")
  /\ UNCHANGED <<file, token, lock, port, told, mishaps>>

\* Daemons on their way to listening.
Rising == {d \in Daemons : pc[d] \in {"starting", "loading", "token", "writing",
                                      "syncing", "binding"}}

\* Fifteen seconds without an answer of a daemon.  One that is coming up listens
\* by then, since it reads two files and opens no collection before it does.
GivesUpWaiting(c) ==
  /\ pc[c] = "waiting"
  /\ \/ ~Healthy /\ Rising = {} /\ UNCHANGED mishaps
     \/ port # None /\ NoAnswer
  /\ Goto(c, "failed")
  /\ UNCHANGED <<file, token, lock, port, told>>

-----------------------------------------------------------------------------
\* runDaemon.

LocksDaemon(d) ==
  /\ pc[d] = "starting" /\ lock = None
  /\ lock' = d
  /\ Goto(d, "loading")
  /\ UNCHANGED <<file, token, port, told, mishaps>>

\* ErrDaemonAlreadyRunning: not an error, the process exits with status 0.
AlreadyRunning(d) ==
  /\ pc[d] = "starting" /\ lock # None
  /\ Goto(d, "gone")
  /\ UNCHANGED <<file, token, lock, port, told, mishaps>>

LoadsConfig(d) ==
  /\ pc[d] = "loading"
  /\ \/ Goto(d, "token") /\ UNCHANGED mishaps
     \/ Goto(d, "closed") /\ Mishap("config")
  /\ UNCHANGED <<file, token, lock, port, told>>

\* ListenAndServe.  The registry exists already.  A daemon that was told to stop
\* may find its server shut down before it listens.
Binds(d) ==
  /\ pc[d] = "binding" /\ port = None
  /\ port' = d
  /\ Goto(d, "serving")
  /\ UNCHANGED <<file, token, lock, told, mishaps>>

DoesNotBind(d) ==
  /\ pc[d] = "binding"
  /\ port # None \/ d \in told
  /\ Goto(d, "closing")
  /\ UNCHANGED <<file, token, lock, port, told, mishaps>>

\* A signal at any time, or /v1/admin/stop of a daemon that listens.
Stopped(d) ==
  /\ pc[d] \notin {"off", "gone"} /\ d \notin told
  /\ told' = told \cup {d}
  /\ Mishap("stop")
  /\ UNCHANGED <<pc, file, token, lock, port>>

\* Slip: the lock is released with the listener, before the registry closes.
ShutsUnlocked(d) ==
  /\ pc[d] = "serving" /\ d \in told
  /\ port' = None
  /\ lock' = None
  /\ Goto(d, "closing")
  /\ UNCHANGED <<file, token, told, mishaps>>

\* Server.Shutdown closes the listener first, and ListenAndServe returns at
\* once: what follows does not wait for it to end.
Shuts(d) ==
  /\ pc[d] = "serving" /\ d \in told
  /\ port' = None
  /\ Goto(d, "closing")
  /\ UNCHANGED <<file, token, lock, told, mishaps>>

\* registry.Close returns.
ClosesRegistry(d) ==
  /\ pc[d] = "closing"
  /\ Goto(d, "closed")
  /\ UNCHANGED <<file, token, lock, port, told, mishaps>>

\* The deferred release runs last, and the process exits.
Releases(d) ==
  /\ pc[d] = "closed"
  /\ lock' = None
  /\ Goto(d, "gone")
  /\ UNCHANGED <<file, token, port, told, mishaps>>

-----------------------------------------------------------------------------
\* The system gives a dead process's lock and port back; a token file it had
\* created stays as it was.
Dies(p) ==
  /\ pc[p] \notin {"off", "gone", "failed"}
  /\ Goto(p, "gone")
  /\ lock' = IF lock = p THEN None ELSE lock
  /\ port' = IF port = p THEN None ELSE port
  /\ Mishap("death")
  /\ UNCHANGED <<file, token, told>>

\* Another program takes the address, and leaves it.
StrangerComes ==
  /\ port = None /\ "stranger" \notin mishaps
  /\ port' \in Strangers
  /\ Mishap("stranger")
  /\ UNCHANGED <<pc, file, token, lock, told>>

StrangerLeaves ==
  /\ port \in Strangers
  /\ port' = None
  /\ UNCHANGED <<pc, file, token, lock, told, mishaps>>

Tokening(p) ==
  ReadsToken(p) \/ CreatesToken(p) \/ WritesToken(p) \/ KeepsToken(p)
    \/ WithdrawsToken(p) \/ GivesUpToken(p)

Ensuring(c) ==
  Probes(c) \/ Launches(c) \/ LaunchFails(c) \/ FindsDaemon(c) \/ GivesUpWaiting(c)

Daemoning(d) ==
  LocksDaemon(d) \/ AlreadyRunning(d) \/ LoadsConfig(d) \/ Binds(d)
    \/ DoesNotBind(d) \/ Shuts(d) \/ ClosesRegistry(d) \/ Releases(d)

Next ==
  \/ \E p \in Procs : Tokening(p) \/ Dies(p)
  \/ \E c \in Clients : Starts(c) \/ Ensuring(c)
  \/ \E d \in Daemons : Daemoning(d) \/ Stopped(d)
  \/ StrangerComes \/ StrangerLeaves

Spec == Init /\ [][Next]_vars

\* Live processes run on, and the client's timers fire.
FairSpec ==
  /\ Spec
  /\ \A p \in Procs : WF_vars(Tokening(p))
  /\ \A c \in Clients : WF_vars(Ensuring(c))
  /\ \A d \in Daemons : WF_vars(Daemoning(d))

-----------------------------------------------------------------------------
\* Properties.

States == {"off", "token", "writing", "syncing", "probing", "reprobing",
           "launching", "waiting", "connected", "failed", "starting", "loading",
           "binding", "serving", "closing", "closed", "gone"}

TypeOK ==
  /\ pc \in [Procs -> States]
  /\ file \in Procs \cup {None, Empty}
  /\ token \in [Procs -> Procs \cup {None}]
  /\ lock \in Daemons \cup {None}
  /\ port \in Daemons \cup Strangers \cup {None}
  /\ told \subseteq Daemons

\* What the proofs rest on: a daemon between its lock and its release holds the
\* lock, whoever listens serves, one process at most makes the token, and every
\* token in use is the one in the file unless one was withdrawn.
Holding == {"loading", "token", "writing", "syncing", "binding", "serving",
            "closing", "closed"}
Making == {"writing", "syncing"}
WithToken == {"probing", "reprobing", "launching", "waiting", "connected",
              "binding", "serving"}

LInv ==
  /\ TypeOK
  /\ \A d \in Daemons : pc[d] \in Holding => lock = d
  /\ port \in Daemons => pc[port] = "serving"
  /\ "withdrawn" \notin mishaps =>
       /\ \A p \in Procs : pc[p] = "writing" => file = Empty
       /\ \A p \in Procs : pc[p] = "syncing" => file = p
       /\ \A p, q \in Procs : pc[p] \in Making /\ pc[q] \in Making => p = q
       /\ \A p \in Procs : token[p] # None => file = token[p]
       /\ \A p \in Procs : pc[p] \in WithToken => token[p] # None

\* Before anything has gone wrong: an empty token file has a creator at work, a
\* lock has a daemon behind it that has not begun to close, a daemon that serves
\* listens, and whoever waits for a daemon waits for one that rises or serves.
Undisturbed ==
  mishaps = {} =>
    /\ told = {} /\ port \notin Strangers
    /\ file = Empty => \E q \in Procs : pc[q] = "writing"
    /\ lock # None => pc[lock] \in Holding
    /\ \A d \in Daemons : pc[d] \notin {"closing", "closed"}
    /\ \A d \in Daemons : pc[d] = "serving" => port = d
    /\ (\E c \in Clients : pc[c] = "waiting")
         => \E d \in Daemons : pc[d] = "serving" \/ pc[d] \in {"starting"} \cup Holding
    /\ \A p \in Procs : pc[p] # "failed"

\* Daemons with a registry, and so perhaps with open collections.
WithRegistry == {d \in Daemons : pc[d] \in {"binding", "serving", "closing"}}

\* "A second daemon must not open the registry or the collections"
\* (main.go, runDaemon), not even while the first one is still closing them.
OneRegistry == \A d, e \in WithRegistry : d = e

\* A client that was told it is connected holds the token the daemon checks:
\* "concurrent creators converge on exactly one token" (auth.go).  A creator
\* whose sync failed has withdrawn a token that others may have read.
ConnectedIsAuthorized ==
  "withdrawn" \notin mishaps =>
    \A c \in Clients, d \in Daemons :
      pc[c] = "connected" /\ port = d => token[c] = token[d]

\* Races alone never make EnsureRunning fail: however many clients start at
\* once, with no daemon, token file or registry yet, each one ends connected
\* unless a process died, was stopped or failed, a stranger had the address, or a
\* listener did not answer in time.
RacesAreHarmless ==
  mishaps = {} => \A p \in Procs : pc[p] # "failed"

\* Every EnsureRunning comes to an end, whatever happens to the daemons and to
\* whoever was creating the token.
EnsureRunningReturns ==
  \A c \in Clients : pc[c] = "token" ~> pc[c] \in {"connected", "failed", "gone"}
=============================================================================
