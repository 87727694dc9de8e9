-------------------------- MODULE LifecycleProofs --------------------------
(***************************************************************************)
(* The two kinds of process.  Of clients and daemons (Launch): one         *)
(* registry per machine and one token, for any number of processes.  Of    *)
(* the servers a project starts for itself (Stdio): one per workspace, and *)
(* no process but its servers signalled, for any number of processes and   *)
(* process ids.                                                            *)
(***************************************************************************)
EXTENDS Launch, Stdio, TLAPS

(* Clients and daemons.                                                    *)

\* The initial state satisfies the invariant: no process runs.
LEMMA LInvInit == Init => LInv
BY LaunchAssumption DEF Init, LInv, TypeOK, States, Procs, Holding, Making, WithToken

\* EnsureAuthToken keeps it: a token is made by the one process that created the
\* file, and read from the file.
LEMMA TokenKeepsLInv ==
  ASSUME LInv, NEW p \in Procs, Tokening(p)
  PROVE  LInv'
<1> USE LaunchAssumption
       DEF LInv, TypeOK, States, Procs, Holding, Making, WithToken,
           Goto, Mishap, AfterToken, WithoutToken
<1>1. CASE ReadsToken(p)
  BY <1>1 DEF ReadsToken
<1>2. CASE CreatesToken(p)
  BY <1>2 DEF CreatesToken
<1>3. CASE WritesToken(p)
  BY <1>3 DEF WritesToken
<1>4. CASE KeepsToken(p)
  BY <1>4 DEF KeepsToken
<1>5. CASE WithdrawsToken(p)
  BY <1>5 DEF WithdrawsToken
<1>6. CASE GivesUpToken(p)
  BY <1>6 DEF GivesUpToken
<1> QED BY <1>1, <1>2, <1>3, <1>4, <1>5, <1>6 DEF Tokening

\* EnsureRunning keeps it: a client touches neither lock nor listener.
LEMMA ClientKeepsLInv ==
  ASSUME LInv, NEW c \in Clients, Starts(c) \/ Ensuring(c)
  PROVE  LInv'
<1> USE LaunchAssumption
       DEF LInv, TypeOK, States, Procs, Holding, Making, WithToken, Goto, Mishap
<1>1. CASE Starts(c)
  BY <1>1 DEF Starts
<1>2. CASE Probes(c)
  BY <1>2 DEF Probes, NoAnswer
<1>3. CASE Launches(c)
  BY <1>3 DEF Launches
<1>4. CASE LaunchFails(c)
  BY <1>4 DEF LaunchFails
<1>5. CASE FindsDaemon(c)
  BY <1>5 DEF FindsDaemon
<1>6. CASE GivesUpWaiting(c)
  BY <1>6 DEF GivesUpWaiting, NoAnswer
<1> QED BY <1>1, <1>2, <1>3, <1>4, <1>5, <1>6 DEF Ensuring

\* runDaemon keeps it: the lock is taken first and released last.
LEMMA DaemonKeepsLInv ==
  ASSUME LInv, NEW d \in Daemons, Daemoning(d) \/ Stopped(d)
  PROVE  LInv'
<1> USE LaunchAssumption
       DEF LInv, TypeOK, States, Procs, Holding, Making, WithToken, Goto, Mishap
<1>1. CASE LocksDaemon(d)
  BY <1>1 DEF LocksDaemon
<1>2. CASE AlreadyRunning(d)
  BY <1>2 DEF AlreadyRunning
<1>3. CASE LoadsConfig(d)
  BY <1>3 DEF LoadsConfig
<1>4. CASE Binds(d)
  BY <1>4 DEF Binds
<1>5. CASE DoesNotBind(d)
  BY <1>5 DEF DoesNotBind
<1>6. CASE Shuts(d)
  BY <1>6 DEF Shuts
<1>7. CASE ClosesRegistry(d)
  BY <1>7 DEF ClosesRegistry
<1>8. CASE Releases(d)
  BY <1>8 DEF Releases
<1>9. CASE Stopped(d)
  BY <1>9 DEF Stopped
<1> QED BY <1>1, <1>2, <1>3, <1>4, <1>5, <1>6, <1>7, <1>8, <1>9 DEF Daemoning

\* Deaths and strangers keep it: the system frees what the dead process held.
LEMMA WorldKeepsLInv ==
  ASSUME LInv,
         \/ \E p \in Procs : Dies(p)
         \/ StrangerComes
         \/ StrangerLeaves
  PROVE  LInv'
<1> USE LaunchAssumption
       DEF LInv, TypeOK, States, Procs, Holding, Making, WithToken, Goto, Mishap
<1>1. ASSUME NEW p \in Procs, Dies(p) PROVE LInv'
  BY <1>1 DEF Dies
<1>2. CASE StrangerComes
  BY <1>2 DEF StrangerComes
<1>3. CASE StrangerLeaves
  BY <1>3 DEF StrangerLeaves
<1> QED BY <1>1, <1>2, <1>3

\* The invariant holds of every run of any number of clients and daemons.
THEOREM LInvHolds == Spec => []LInv
<1>1. Init => LInv
  BY LInvInit
<1>2. LInv /\ [Next]_vars => LInv'
  <2> SUFFICES ASSUME LInv, [Next]_vars PROVE LInv'
    OBVIOUS
  <2>1. CASE UNCHANGED vars
    BY <2>1 DEF vars, LInv, TypeOK
  <2>2. CASE Next
    BY <2>2, TokenKeepsLInv, ClientKeepsLInv, DaemonKeepsLInv, WorldKeepsLInv DEF Next
  <2> QED BY <2>1, <2>2
<1> QED BY <1>1, <1>2, PTL DEF Spec

\* At most one daemon of the machine has a registry, whatever dies or is
\* stopped (main.go, runDaemon; client.go, AcquireDaemonLock).
THEOREM OneRegistryHolds == Spec => []OneRegistry
<1>1. LInv => OneRegistry
  BY DEF LInv, OneRegistry, WithRegistry, Holding
<1> QED BY <1>1, LInvHolds, PTL

\* A connected client holds the token of the daemon that serves, unless a token
\* was withdrawn after it had been written (auth.go, EnsureAuthToken).
THEOREM ConnectedIsAuthorizedHolds == Spec => []ConnectedIsAuthorized
<1>1. LInv => ConnectedIsAuthorized
  BY LaunchAssumption DEF LInv, ConnectedIsAuthorized, WithToken, Procs
<1> QED BY <1>1, LInvHolds, PTL

\* Nothing has gone wrong at first, and nobody runs.
LEMMA InitUndisturbed == Init => Undisturbed
BY LaunchAssumption DEF Init, Undisturbed, Procs

\* Without a mishap, the step before had none either.
LEMMA MishapsStay == Next => mishaps \subseteq mishaps'
BY DEF Next, Tokening, ReadsToken, CreatesToken, WritesToken, KeepsToken, WithdrawsToken, GivesUpToken,
   Dies, Starts, Ensuring, Probes, Launches, LaunchFails, FindsDaemon, GivesUpWaiting, Daemoning,
   LocksDaemon, AlreadyRunning, LoadsConfig, Binds, DoesNotBind, Shuts, ClosesRegistry, Releases,
   Stopped, StrangerComes, StrangerLeaves, Mishap, NoAnswer, vars

\* EnsureAuthToken fails nobody while every creator of the file is at work.
LEMMA TokenKeepsUndisturbed ==
  ASSUME LInv, Undisturbed, NEW p \in Procs, Tokening(p)
  PROVE  Undisturbed'
<1> SUFFICES ASSUME mishaps' = {}, mishaps = {} PROVE Undisturbed'
  BY MishapsStay DEF Undisturbed, Next
<1> USE LaunchAssumption
       DEF LInv, TypeOK, States, Procs, Holding, Making, Undisturbed, Goto, Mishap, AfterToken, WithoutToken
<1>1. CASE ReadsToken(p)
  BY <1>1 DEF ReadsToken
<1>2. CASE CreatesToken(p)
  BY <1>2 DEF CreatesToken
<1>3. CASE WritesToken(p)
  BY <1>3 DEF WritesToken
<1>4. CASE KeepsToken(p)
  BY <1>4 DEF KeepsToken
<1>5. ~WithdrawsToken(p)
  BY DEF WithdrawsToken
<1>6. ~GivesUpToken(p)
  BY DEF GivesUpToken
<1> QED BY <1>1, <1>2, <1>3, <1>4, <1>5, <1>6 DEF Tokening

\* EnsureRunning fails nobody while there is no stranger and a daemon rises.
LEMMA ClientKeepsUndisturbed ==
  ASSUME LInv, Undisturbed, NEW c \in Clients, Starts(c) \/ Ensuring(c)
  PROVE  Undisturbed'
<1> SUFFICES ASSUME mishaps' = {}, mishaps = {} PROVE Undisturbed'
  BY MishapsStay DEF Undisturbed, Next
<1> USE LaunchAssumption
       DEF LInv, TypeOK, States, Procs, Holding, Making, Undisturbed, Goto, Mishap, Healthy
<1>1. CASE Starts(c)
  BY <1>1 DEF Starts
<1>2. CASE Probes(c)
  BY <1>2 DEF Probes, ForeignListener, NoAnswer
<1>3. CASE Launches(c)
  BY <1>3 DEF Launches
<1>4. ~LaunchFails(c)
  BY DEF LaunchFails
<1>5. CASE FindsDaemon(c)
  BY <1>5 DEF FindsDaemon
<1>6. ~GivesUpWaiting(c)
  BY DEF GivesUpWaiting, Rising, NoAnswer
<1> QED BY <1>1, <1>2, <1>3, <1>4, <1>5, <1>6 DEF Ensuring

\* A daemon that rises goes on to serve, or leaves another one that does.
LEMMA DaemonKeepsUndisturbed ==
  ASSUME LInv, Undisturbed, NEW d \in Daemons, Daemoning(d) \/ Stopped(d)
  PROVE  Undisturbed'
<1> SUFFICES ASSUME mishaps' = {}, mishaps = {} PROVE Undisturbed'
  BY MishapsStay DEF Undisturbed, Next
<1> USE LaunchAssumption
       DEF LInv, TypeOK, States, Procs, Holding, Making, Undisturbed, Goto, Mishap
<1>1. CASE LocksDaemon(d)
  BY <1>1 DEF LocksDaemon
<1>2. CASE AlreadyRunning(d)
  BY <1>2 DEF AlreadyRunning
<1>3. CASE LoadsConfig(d)
  BY <1>3 DEF LoadsConfig
<1>4. CASE Binds(d)
  BY <1>4 DEF Binds
<1>5. ~DoesNotBind(d)
  BY DEF DoesNotBind
<1>6. ~(Shuts(d) \/ ClosesRegistry(d) \/ Releases(d))
  BY DEF Shuts, ClosesRegistry, Releases
<1>7. ~Stopped(d)
  BY DEF Stopped
<1> QED BY <1>1, <1>2, <1>3, <1>4, <1>5, <1>6, <1>7 DEF Daemoning

\* A death and a stranger are mishaps.
LEMMA WorldKeepsUndisturbed ==
  ASSUME LInv, Undisturbed,
         \/ \E p \in Procs : Dies(p)
         \/ StrangerComes
         \/ StrangerLeaves
  PROVE  Undisturbed'
<1> SUFFICES ASSUME mishaps' = {}, mishaps = {} PROVE Undisturbed'
  BY MishapsStay DEF Undisturbed, Next
<1> QED BY DEF Undisturbed, Dies, StrangerComes, StrangerLeaves, Mishap

(* However many clients and daemons race, and whatever each finds half done *)
(* by another: while no process died, was stopped or failed and no stranger *)
(* came, no EnsureRunning has failed (client.go, auth.go, runDaemon).       *)
THEOREM RacesAreHarmlessHolds == Spec => []RacesAreHarmless
<1>1. Init => Undisturbed
  BY InitUndisturbed
<1>2. LInv /\ Undisturbed /\ [Next]_vars => Undisturbed'
  <2> SUFFICES ASSUME LInv, Undisturbed, [Next]_vars PROVE Undisturbed'
    OBVIOUS
  <2>1. CASE UNCHANGED vars
    BY <2>1 DEF vars, Undisturbed
  <2>2. CASE Next
    BY <2>2, TokenKeepsUndisturbed, ClientKeepsUndisturbed, DaemonKeepsUndisturbed,
       WorldKeepsUndisturbed DEF Next
  <2> QED BY <2>1, <2>2
<1>3. Undisturbed => RacesAreHarmless
  BY DEF Undisturbed, RacesAreHarmless
<1> QED BY <1>1, <1>2, <1>3, LInvHolds, PTL DEF Spec

-----------------------------------------------------------------------------
\* daemon.lock as the daemons use it: one holder, who may die.
LockHolders == IF lock = None THEN {} ELSE {lock}

Guard == INSTANCE ExclusiveLock WITH Procs <- Daemons, owners <- LockHolders

\* Only a daemon that finds the lock free takes it, and only its holder gives it up.
LEMMA GuardStep ==
  ASSUME LInv, [Next]_vars
  PROVE  [Guard!Next]_LockHolders
<1> USE LaunchAssumption DEF LInv, TypeOK, Procs
<1>1. CASE UNCHANGED lock
  BY <1>1 DEF LockHolders
<1>2. ASSUME NEW d \in Daemons, lock = None, lock' = d PROVE Guard!Next
  BY <1>2 DEF LockHolders, Guard!Next, Guard!Acquire
<1>3. ASSUME lock # None, lock' = None PROVE Guard!Next
  BY <1>3 DEF LockHolders, Guard!Next, Guard!GiveUp
<1>4. ASSUME NEW p \in Procs, Dies(p) PROVE UNCHANGED lock \/ (lock # None /\ lock' = None)
  BY <1>4 DEF Dies
<1>5. ASSUME NEW p \in Procs, Tokening(p) PROVE UNCHANGED lock
  BY <1>5 DEF Tokening, ReadsToken, CreatesToken, WritesToken, KeepsToken, WithdrawsToken,
              GivesUpToken
<1>6. ASSUME NEW c \in Clients, Starts(c) \/ Ensuring(c) PROVE UNCHANGED lock
  BY <1>6 DEF Starts, Ensuring, Probes, Launches, LaunchFails, FindsDaemon, GivesUpWaiting
<1>7. ASSUME NEW d \in Daemons, Daemoning(d) \/ Stopped(d)
      PROVE  \/ UNCHANGED lock
             \/ lock = None /\ lock' = d
             \/ lock = d /\ lock' = None
  BY <1>7 DEF Daemoning, LocksDaemon, AlreadyRunning, LoadsConfig, Binds, DoesNotBind, Shuts,
              ClosesRegistry, Releases, Stopped, Holding
<1> QED
  BY <1>1, <1>2, <1>3, <1>4, <1>5, <1>6, <1>7 DEF Next, StrangerComes, StrangerLeaves, vars

\* The daemons take and leave daemon.lock as the exclusive lock allows, which
\* is what a lock file implements where open files cannot be unlinked.
THEOREM DaemonsObeyTheLock == Spec => Guard!Spec
<1>1. Init => Guard!Init
  BY DEF Init, Guard!Init, LockHolders
<1>2. LInv /\ [Next]_vars => [Guard!Next]_LockHolders
  BY GuardStep
<1> QED BY <1>1, <1>2, LInvHolds, PTL DEF Spec, Guard!Spec

---------------------------------------------------------------------------
(* The servers of a workspace.                                             *)

\* The initial state satisfies the invariant: nothing lives.
LEMMA SInvInit == StdioInit => SInv
BY StdioAssumption
   DEF StdioInit, SInv, StdioTypeOK, Stages, PastLock, Processes, Retries, Records,
       BystandersAreSafe

\* What is remembered of a live process is a record of the table.
LEMMA RememberedRecord ==
  ASSUME StdioTypeOK, NEW q \in Alive
  PROVE  Remembered(q) \in Records /\ Remembered(q).start = q
BY StdioAssumption DEF StdioTypeOK, Alive, Remembered, Records, Processes

\* Ends of processes keep the invariant, if what they add to the signalled ones
\* the signaller may stop.  A dead server has no launcher to spare.
LEMMA EndKeepsSInv ==
  ASSUME SInv, NEW dead \in SUBSET Processes, End(dead),
         hit' \subseteq Servers \X Processes, \A h \in hit' : h[2] \in MayStop[h[1]],
         \A h \in hit' : h \in hit \/ stage[h[1]] # "off",
         NEW forgotten \in SUBSET Processes, victim' = Reset(victim, forgotten, Nobody)
  PROVE  SInv'
<1> USE StdioAssumption DEF End, Reset
<1>1. StdioTypeOK'
  BY DEF SInv, StdioTypeOK, Stages, Processes, PastLock, Retries
<1>2. (\A p \in Servers : stage[p] \in PastLock => stdioLock = p)'
  BY DEF SInv, StdioTypeOK, PastLock, Processes
<1>3. (\A q, r \in Processes : pid[q] # Nobody /\ pid[q] = pid[r] => q = r)'
  BY DEF SInv, StdioTypeOK
<1>4. \A p \in Servers : MayStop[p] \subseteq MayStop'[p]
  BY DEF MayStop, SInv, StdioTypeOK
<1>5. ASSUME NEW p \in Servers
      PROVE  /\ \A t \in targets'[p] : t.start \in MayStop'[p]
             /\ victim'[p] # Nobody => victim'[p].start \in MayStop'[p]
             /\ stage'[p] = "off" =>
                  targets'[p] = {} /\ victim'[p] = Nobody /\ \A h \in hit' : h[1] # p
  <2>1. targets'[p] \subseteq targets[p] /\ victim'[p] \in {victim[p], Nobody}
    BY DEF SInv, StdioTypeOK
  <2>2. stage'[p] \in {stage[p], "gone"}
    BY DEF SInv, StdioTypeOK
  <2> QED BY <1>4, <2>1, <2>2 DEF SInv
<1>6. BystandersAreSafe'
  BY <1>4 DEF BystandersAreSafe
<1> HIDE DEF End, Reset
<1> QED BY <1>1, <1>2, <1>3, <1>5, <1>6 DEF SInv

\* A server that ends by itself signals nobody.
LEMMA EndsItselfKeepsSInv ==
  ASSUME SInv, NEW p \in Servers, EndsItself(p)
  PROVE  SInv'
<1>1. {p} \in SUBSET Processes
  BY DEF Processes
<1>2. hit' = hit /\ hit \subseteq Servers \X Processes
  BY DEF EndsItself, SInv, StdioTypeOK
<1>3. End({p}) /\ victim' = Reset(victim, {p}, Nobody)
  BY DEF EndsItself
<1>4. \A h \in hit' : h[2] \in MayStop[h[1]]
  BY <1>2 DEF SInv, BystandersAreSafe
<1> QED BY <1>1, <1>2, <1>3, <1>4, EndKeepsSInv

\* Steps that leave the table of targets and what was signalled alone keep the
\* rest, when no launcher changes and no server is off again.
LEMMA QuietKeepsSInv ==
  ASSUME SInv, StdioTypeOK',
         pid' = pid, parent' = parent, targets' = targets, victim' = victim, hit' = hit,
         \A p \in Servers : stage'[p] = "off" => stage[p] = "off",
         \A p \in Servers : stage'[p] \in PastLock => stdioLock' = p
  PROVE  SInv'
<1>1. MayStop' = MayStop
  BY DEF MayStop
<1> QED BY <1>1 DEF SInv, BystandersAreSafe

\* The id of a record that still names its process names nothing else.
LEMMA NamesOne ==
  ASSUME SInv, NEW r \in Records, StillNames(r)
  PROVE  Named(r.pid) = {r.start}
BY StdioAssumption DEF SInv, StdioTypeOK, StillNames, Named, Alive, Records

\* Starting, ending and watching keep the invariant.
LEMMA TableKeepsSInv ==
  ASSUME SInv,
         \/ \E p \in Servers : ServerStarts(p) \/ ServerDies(p) \/ WatchesParent(p)
         \/ \E b \in Bystanders : BystanderStarts(b) \/ BystanderEnds(b)
  PROVE  SInv'
<1> USE StdioAssumption
<1>1. ASSUME NEW p \in Servers, ServerStarts(p) PROVE SInv'
  <2>1. \A b \in Bystanders \cap Alive : Remembered(b) \in Records
    BY RememberedRecord DEF SInv
  <2>2. \A n \in FreePids, q \in Processes : pid[q] # n
    BY DEF FreePids, Named, Alive, SInv, StdioTypeOK
  <2>3. PICK b \in Bystanders \cap Alive : parent' = [parent EXCEPT ![p] = Remembered(b)]
    BY <1>1 DEF ServerStarts
  <2>8. FreePids \subseteq Pids
    BY DEF FreePids
  <2>5. parent' \in [Servers -> Records \cup {Nobody}]
    BY <2>1, <2>3 DEF SInv, StdioTypeOK
  <2>6. pid' \in [Processes -> Pids \cup {Nobody}]
    <3>1. PICK n \in Pids : pid' = [pid EXCEPT ![p] = n]
      BY <1>1, <2>8 DEF ServerStarts
    <3>2. pid \in [Processes -> Pids \cup {Nobody}]
      BY DEF SInv, StdioTypeOK
    <3> QED BY <3>1, <3>2
  <2>7. StdioTypeOK'
    BY <1>1, <2>5, <2>6 DEF ServerStarts, SInv, StdioTypeOK, Enters, Stages, scanVars
  <2>4. (\A q, r \in Processes : pid[q] # Nobody /\ pid[q] = pid[r] => q = r)'
    BY <1>1, <2>2 DEF ServerStarts, SInv, StdioTypeOK, Processes
  <2>9. stage[p] = "off" /\ stage' = [stage EXCEPT ![p] = "scanning"]
        /\ UNCHANGED <<stdioLock, targets, victim, hit>>
    BY <1>1 DEF ServerStarts, Enters, scanVars
  <2>10. \A q \in Servers \ {p} : MayStop[q] = MayStop'[q]
    BY <2>3 DEF MayStop, SInv, StdioTypeOK
  <2>11. \A h \in hit : h[1] \in Servers \ {p}
    BY <2>9 DEF SInv, StdioTypeOK
  <2>12. BystandersAreSafe'
    BY <2>9, <2>10, <2>11 DEF SInv, BystandersAreSafe
  <2>13. (\A q \in Servers : stage[q] \in PastLock => stdioLock = q)'
    BY <2>9 DEF SInv, StdioTypeOK, PastLock
  <2>14. ASSUME NEW q \in Servers
         PROVE  /\ \A t \in targets'[q] : t.start \in MayStop'[q]
                /\ victim'[q] # Nobody => victim'[q].start \in MayStop'[q]
                /\ stage'[q] = "off" =>
                     targets'[q] = {} /\ victim'[q] = Nobody /\ \A h \in hit' : h[1] # q
    BY <2>9, <2>10 DEF SInv, StdioTypeOK
  <2> QED BY <2>4, <2>7, <2>12, <2>13, <2>14 DEF SInv
<1>2. ASSUME NEW p \in Servers, ServerDies(p) PROVE SInv'
  BY <1>2, EndsItselfKeepsSInv DEF ServerDies
<1>3. ASSUME NEW p \in Servers, WatchesParent(p) PROVE SInv'
  <2>1. StdioTypeOK' /\ pid' = pid /\ parent' = parent
        /\ targets' = targets /\ victim' = victim /\ hit' = hit
        /\ stage' = stage /\ stdioLock' = stdioLock
    BY <1>3 DEF WatchesParent, SInv, StdioTypeOK, table, scanVars
  <2> QED BY <2>1, QuietKeepsSInv DEF SInv
<1>4. ASSUME NEW b \in Bystanders, BystanderStarts(b) PROVE SInv'
  <2>1. \A n \in FreePids, q \in Processes : pid[q] # n
    BY DEF FreePids, Named, Alive, SInv, StdioTypeOK
  <2>2. (\A q, r \in Processes : pid[q] # Nobody /\ pid[q] = pid[r] => q = r)'
    BY <1>4, <2>1 DEF BystanderStarts, SInv, StdioTypeOK, Processes
  <2>3. StdioTypeOK'
    BY <1>4 DEF BystanderStarts, SInv, StdioTypeOK, scanVars, FreePids, Processes
  <2>4. UNCHANGED <<stage, stdioLock, parent, targets, victim, hit>>
    BY <1>4 DEF BystanderStarts, scanVars
  <2>5. MayStop' = MayStop
    BY <2>4 DEF MayStop
  <2> QED BY <2>2, <2>3, <2>4, <2>5 DEF SInv, BystandersAreSafe
<1>5. ASSUME NEW b \in Bystanders, BystanderEnds(b) PROVE SInv'
  <2>1. victim' = Reset(victim, {}, Nobody)
    BY <1>5 DEF BystanderEnds, Reset, SInv, StdioTypeOK
  <2>2. End({b}) /\ hit' = hit /\ {b} \in SUBSET Processes
    BY <1>5 DEF BystanderEnds, Processes
  <2>3. hit' \subseteq Servers \X Processes /\ \A h \in hit' : h[2] \in MayStop[h[1]]
    BY <2>2 DEF SInv, StdioTypeOK, BystandersAreSafe
  <2> QED BY <2>1, <2>2, <2>3, EndKeepsSInv
<1> QED BY <1>1, <1>2, <1>3, <1>4, <1>5

\* Preparing keeps it: a scan finds what it may stop, and a signal or a kill
\* goes to an id that was looked at again.
LEMMA PreparingKeepsSInv ==
  ASSUME SInv, NEW p \in Servers, Preparing(p)
  PROVE  SInv'
<1> USE StdioAssumption
<1>1. CASE ScansStdio(p) \/ ScansWrappers(p)
  <2>1. PICK found \in SUBSET Alive :
          /\ targets' = [targets EXCEPT ![p] = {Remembered(q) : q \in found}]
          /\ found \subseteq MayStop[p]
    <3>1. CASE ScansStdio(p)
      <4>1. PICK found \in SUBSET ((Alive \cap ((Servers \ HttpOnly) \cup StdioWrappers)) \ {p}) :
              targets' = [targets EXCEPT ![p] = {Remembered(q) : q \in found}]
        BY <3>1 DEF ScansStdio, Finds
      <4>2. found \in SUBSET Alive
        BY <4>1
      <4>3. found \subseteq MayStop[p]
        BY <4>1 DEF MayStop
      <4> QED BY <4>1, <4>2, <4>3
    <3>2. CASE ScansWrappers(p)
      <4>1. PICK found \in SUBSET ((Alive \cap (Servers \cup Wrappers)) \ LaunchChain(p)) :
              targets' = [targets EXCEPT ![p] = {Remembered(q) : q \in found}]
        BY <3>2 DEF ScansWrappers, Finds
      <4>2. found \in SUBSET Alive
        BY <4>1
      <4>3. found \subseteq MayStop[p]
        BY <4>1 DEF MayStop, LaunchChain
      <4> QED BY <4>1, <4>2, <4>3
    <3> QED BY <1>1, <3>1, <3>2
  <2>2. \A q \in found : Remembered(q) \in Records /\ Remembered(q).start = q
    BY <2>1, RememberedRecord DEF SInv
  <2>4. /\ UNCHANGED <<table, parent, attempt, victim, cancelled, up, hit>>
        /\ stage' \in [Servers -> Stages]
        /\ \A q \in Servers : stage'[q] \in PastLock => stage[q] \in PastLock
        /\ \A q \in Servers : stage'[q] = "off" => stage[q] = "off" /\ q # p
    BY <1>1 DEF ScansStdio, ScansWrappers, SInv, StdioTypeOK, Stages, PastLock, Enters
  <2>3. {Remembered(q) : q \in found} \subseteq Records
    BY <2>2
  <2>5. StdioTypeOK'
    BY <2>1, <2>3, <2>4 DEF SInv, StdioTypeOK, table
  <2>6. MayStop' = MayStop
    BY <2>4 DEF MayStop
  <2>7. \A q \in Servers : \A t \in targets'[q] : t.start \in MayStop'[q]
    BY <2>1, <2>2, <2>6 DEF SInv, StdioTypeOK
  <2>8. \A q \in Servers : q # p => targets'[q] = targets[q]
    BY <2>1 DEF SInv, StdioTypeOK
  <2> QED BY <2>4, <2>5, <2>6, <2>7, <2>8 DEF SInv, table, BystandersAreSafe
<1>2. CASE Terminates(p)
  <2>1. PICK t \in targets[p] :
          /\ targets' = [targets EXCEPT ![p] = @ \ {t}]
          /\ IF StillNames(t)
               THEN Signals(p, t) /\ victim' = [victim EXCEPT ![p] = t]
               ELSE UNCHANGED <<cancelled, hit, victim>>
    BY <1>2 DEF Terminates
  <2>2. t \in Records /\ t.start \in MayStop[p]
    BY DEF SInv, StdioTypeOK
  <2>3. stage[p] # "off" /\ UNCHANGED <<stage, pid, ended, stdioLock, parent, attempt, up>>
    BY <1>2 DEF Terminates, table
  <2>4. hit' \subseteq hit \cup {<<p, t.start>>} /\ cancelled' \subseteq Servers
        /\ victim' \in {victim, [victim EXCEPT ![p] = t]}
    <3>1. CASE StillNames(t)
      <4>1. Named(t.pid) = {t.start}
        BY <2>2, <3>1, NamesOne
      <4>2. hit' = hit \cup ({p} \X {t.start}) /\ cancelled' = cancelled \cup ({t.start} \cap Servers)
        BY <2>1, <3>1, <4>1 DEF Signals
      <4> QED BY <2>1, <3>1, <4>2 DEF SInv, StdioTypeOK
    <3>2. CASE ~StillNames(t)
      BY <2>1, <3>2 DEF SInv, StdioTypeOK
    <3> QED BY <3>1, <3>2
  <2>5. StdioTypeOK'
    BY <2>1, <2>2, <2>3, <2>4 DEF SInv, StdioTypeOK, Records
  <2>6. MayStop' = MayStop
    BY <2>3 DEF MayStop
  <2>7. BystandersAreSafe'
    BY <2>2, <2>4, <2>6 DEF SInv, BystandersAreSafe
  <2>8. ASSUME NEW q \in Servers
        PROVE  /\ targets'[q] \subseteq targets[q]
               /\ victim'[q] # Nobody => victim'[q] = victim[q] \/ (q = p /\ victim'[q] = t)
               /\ q # p => victim'[q] = victim[q]
    BY <2>1, <2>4 DEF SInv, StdioTypeOK
  <2>9. ASSUME NEW q \in Servers
        PROVE  /\ \A u \in targets'[q] : u.start \in MayStop'[q]
               /\ victim'[q] # Nobody => victim'[q].start \in MayStop'[q]
               /\ stage'[q] = "off" =>
                    targets'[q] = {} /\ victim'[q] = Nobody /\ \A h \in hit' : h[1] # q
    BY <2>2, <2>3, <2>4, <2>6, <2>8 DEF SInv
  <2> QED BY <2>3, <2>5, <2>7, <2>9 DEF SInv
<1>3. CASE Kills(p)
  <2> DEFINE dead == IF StillNames(victim[p]) THEN {victim[p].start} ELSE {}
  <2>1. victim[p] \in Records /\ victim[p].start \in MayStop[p] /\ stage[p] # "off"
    BY <1>3 DEF Kills, SInv, StdioTypeOK
  <2>2. End(dead) /\ victim' = Reset(victim, dead \cup {p}, Nobody)
        /\ hit' = hit \cup ({p} \X dead)
    BY <1>3 DEF Kills
  <2>3. dead \subseteq {victim[p].start} /\ victim[p].start \in Processes
    BY <2>1 DEF Records
  <2> HIDE DEF dead
  <2>4. hit' \subseteq Servers \X Processes /\ dead \in SUBSET Processes
        /\ dead \cup {p} \in SUBSET Processes
    BY <2>2, <2>3 DEF SInv, StdioTypeOK, Processes
  <2>5. \A h \in hit' : (h \in hit \/ stage[h[1]] # "off") /\ h[2] \in MayStop[h[1]]
    BY <2>1, <2>2, <2>3 DEF SInv, BystandersAreSafe
  <2> QED BY <2>2, <2>4, <2>5, EndKeepsSInv
<1>4. CASE HasStopped(p)
  <2>1. /\ StdioTypeOK' /\ pid' = pid /\ parent' = parent
        /\ targets' = targets /\ victim' = victim /\ hit' = hit
        /\ \A q \in Servers : stage'[q] = "off" => stage[q] = "off"
        /\ \A q \in Servers : stage'[q] \in PastLock => stdioLock' = q
    BY <1>4 DEF HasStopped, SInv, StdioTypeOK, Stages, PastLock, Enters, table, scanVars
  <2> QED BY <2>1, QuietKeepsSInv
<1>5. CASE TakesLock(p)
  <2>1. /\ StdioTypeOK' /\ pid' = pid /\ parent' = parent
        /\ targets' = targets /\ victim' = victim /\ hit' = hit
        /\ \A q \in Servers : stage'[q] = "off" => stage[q] = "off"
        /\ \A q \in Servers : stage'[q] \in PastLock => stdioLock' = q
    BY <1>5 DEF TakesLock, SInv, StdioTypeOK, Stages, PastLock, Enters, scanVars
  <2> QED BY <2>1, QuietKeepsSInv
<1>6. CASE TriesAgain(p)
  <2>1. /\ StdioTypeOK' /\ pid' = pid /\ parent' = parent
        /\ targets' = targets /\ victim' = victim /\ hit' = hit
        /\ \A q \in Servers : stage'[q] = "off" => stage[q] = "off"
        /\ \A q \in Servers : stage'[q] \in PastLock => stdioLock' = q
    BY <1>6 DEF TriesAgain, SInv, StdioTypeOK, Stages, PastLock, Enters, table, scanVars, Retries
  <2> QED BY <2>1, QuietKeepsSInv
<1>7. CASE GivesUp(p)
  BY <1>7, EndsItselfKeepsSInv DEF GivesUp
<1> QED BY <1>1, <1>2, <1>3, <1>4, <1>5, <1>6, <1>7 DEF Preparing

\* Serving and leaving keep it: the lock goes last.
LEMMA ServingKeepsSInv ==
  ASSUME SInv, NEW p \in Servers,
         \/ Opens(p) \/ Leaving(p)
         \/ \E t \in {"http", "stdio"} : TransportEnds(p, t)
  PROVE  SInv'
<1> USE StdioAssumption
<1>1. CASE Opens(p)
  <2>1. /\ StdioTypeOK' /\ pid' = pid /\ parent' = parent
        /\ targets' = targets /\ victim' = victim /\ hit' = hit
        /\ \A q \in Servers : stage'[q] = "off" => stage[q] = "off"
        /\ \A q \in Servers : stage'[q] \in PastLock => stdioLock' = q
    BY <1>1 DEF Opens, Transports, SInv, StdioTypeOK, Stages, PastLock, Enters, table, scanVars
  <2> QED BY <2>1, QuietKeepsSInv
<1>2. CASE Drains(p)
  <2>1. /\ StdioTypeOK' /\ pid' = pid /\ parent' = parent
        /\ targets' = targets /\ victim' = victim /\ hit' = hit
        /\ \A q \in Servers : stage'[q] = "off" => stage[q] = "off"
        /\ \A q \in Servers : stage'[q] \in PastLock => stdioLock' = q
    BY <1>2 DEF Drains, SInv, StdioTypeOK, Stages, PastLock, Enters, table, scanVars
  <2> QED BY <2>1, QuietKeepsSInv
<1>3. CASE Closes(p)
  <2>1. /\ StdioTypeOK' /\ pid' = pid /\ parent' = parent
        /\ targets' = targets /\ victim' = victim /\ hit' = hit
        /\ \A q \in Servers : stage'[q] = "off" => stage[q] = "off"
        /\ \A q \in Servers : stage'[q] \in PastLock => stdioLock' = q
    BY <1>3 DEF Closes, SInv, StdioTypeOK, Stages, PastLock, Enters, table, scanVars
  <2> QED BY <2>1, QuietKeepsSInv
<1>4. CASE Exits(p)
  BY <1>4, EndsItselfKeepsSInv DEF Exits
<1>5. ASSUME NEW t \in {"http", "stdio"}, TransportEnds(p, t) PROVE SInv'
  <2>1. /\ StdioTypeOK' /\ pid' = pid /\ parent' = parent
        /\ targets' = targets /\ victim' = victim /\ hit' = hit
        /\ \A q \in Servers : stage'[q] = "off" => stage[q] = "off"
        /\ \A q \in Servers : stage'[q] \in PastLock => stdioLock' = q
    BY <1>5 DEF TransportEnds, SInv, StdioTypeOK, Stages, PastLock, Enters, table, scanVars
  <2> QED BY <2>1, QuietKeepsSInv
<1> QED BY <1>1, <1>2, <1>3, <1>4, <1>5 DEF Leaving

\* The invariant holds of every run of any number of processes.
THEOREM StdioInvHolds == StdioSpec => []SInv
<1>1. StdioInit => SInv
  BY SInvInit
<1>2. SInv /\ [StdioNext]_stdioVars => SInv'
  <2> SUFFICES ASSUME SInv, [StdioNext]_stdioVars PROVE SInv'
    OBVIOUS
  <2>1. CASE UNCHANGED stdioVars
    <3>1. StdioTypeOK' /\ pid' = pid /\ parent' = parent
        /\ targets' = targets /\ victim' = victim /\ hit' = hit
        /\ stage' = stage /\ stdioLock' = stdioLock
      BY <2>1 DEF stdioVars, table, scanVars, SInv, StdioTypeOK
    <3> QED BY <3>1, QuietKeepsSInv DEF SInv
  <2>2. CASE StdioNext
    BY <2>2, TableKeepsSInv, PreparingKeepsSInv, ServingKeepsSInv DEF StdioNext
  <2> QED BY <2>1, <2>2
<1> QED BY <1>1, <1>2, PTL DEF StdioSpec

\* At most one process has the service of the workspace up (prepare.go,
\* PrepareStdio; main.go, setupPerProject and perProjectRuntime.Close).
THEOREM OneServerHolds == StdioSpec => []OneServer
<1>1. SInv => OneServer
  BY DEF SInv, OneServer, PastLock
<1> QED BY <1>1, StdioInvHolds, PTL

\* Only what names the program and the workspace is signalled, and no server's own
\* launcher that has no --stdio, however ids are reused (proc_candidate.go,
\* terminatePIDChecked; stale_unix.go, terminatePID; parent_watch.go, isExcludedPID).
THEOREM BystandersAreSafeHolds == StdioSpec => []BystandersAreSafe
<1>1. SInv => BystandersAreSafe
  BY DEF SInv
<1> QED BY <1>1, StdioInvHolds, PTL

-----------------------------------------------------------------------------
\* stdio.lock as the servers use it: one holder, who may die.
StdioLockHolders == IF stdioLock = Nobody THEN {} ELSE {stdioLock}

StdioGuard == INSTANCE ExclusiveLock WITH Procs <- Servers, owners <- StdioLockHolders

\* Only a server that finds the lock free takes it; it leaves it by its end.
LEMMA StdioGuardStep ==
  ASSUME SInv, [StdioNext]_stdioVars
  PROVE  [StdioGuard!Next]_StdioLockHolders
<1> USE StdioAssumption DEF SInv, StdioTypeOK
<1>1. CASE UNCHANGED stdioLock
  BY <1>1 DEF StdioLockHolders
<1>2. ASSUME NEW p \in Servers, stdioLock = Nobody, stdioLock' = p PROVE StdioGuard!Next
  BY <1>2 DEF StdioLockHolders, StdioGuard!Next, StdioGuard!Acquire
<1>3. ASSUME stdioLock # Nobody, stdioLock' = Nobody PROVE StdioGuard!Next
  BY <1>3 DEF StdioLockHolders, StdioGuard!Next, StdioGuard!GiveUp
<1>4. ASSUME NEW dead, End(dead) PROVE UNCHANGED stdioLock \/ (stdioLock # Nobody /\ stdioLock' = Nobody)
  BY <1>4 DEF End
<1>5. ASSUME NEW p \in Servers,
             ServerStarts(p) \/ WatchesParent(p) \/ Opens(p) \/ Drains(p) \/ Closes(p)
      PROVE  UNCHANGED stdioLock
  BY <1>5 DEF ServerStarts, WatchesParent, Opens, Drains, Closes, table
<1>6. ASSUME NEW p \in Servers, ServerDies(p) \/ Exits(p)
      PROVE  UNCHANGED stdioLock \/ (stdioLock # Nobody /\ stdioLock' = Nobody)
  BY <1>4, <1>6 DEF ServerDies, Exits, EndsItself
<1>7. ASSUME NEW p \in Servers, Preparing(p)
      PROVE  UNCHANGED stdioLock \/ (stdioLock = Nobody /\ stdioLock' = p) \/ (stdioLock # Nobody /\ stdioLock' = Nobody)
  BY <1>4, <1>7 DEF Preparing, ScansStdio, ScansWrappers, Terminates, Kills, HasStopped,
                    TakesLock, TriesAgain, GivesUp, EndsItself, table
<1>8. ASSUME NEW p \in Servers, NEW t, TransportEnds(p, t) PROVE UNCHANGED stdioLock
  BY <1>8 DEF TransportEnds, table
<1>9. ASSUME NEW b \in Bystanders, BystanderStarts(b) \/ BystanderEnds(b)
      PROVE  UNCHANGED stdioLock \/ (stdioLock # Nobody /\ stdioLock' = Nobody)
  BY <1>4, <1>9 DEF BystanderStarts, BystanderEnds
<1> QED
  BY <1>1, <1>2, <1>3, <1>5, <1>6, <1>7, <1>8, <1>9 DEF StdioNext, Leaving, stdioVars, table

\* The servers take and leave stdio.lock as the exclusive lock allows, which
\* is what a lock file implements where open files cannot be unlinked.
THEOREM ServersObeyTheLock == StdioSpec => StdioGuard!Spec
<1>1. StdioInit => StdioGuard!Init
  BY DEF StdioInit, StdioGuard!Init, StdioLockHolders
<1>2. SInv /\ [StdioNext]_stdioVars => [StdioGuard!Next]_StdioLockHolders
  BY StdioGuardStep
<1> QED BY <1>1, <1>2, StdioInvHolds, PTL DEF StdioSpec, StdioGuard!Spec
=============================================================================
