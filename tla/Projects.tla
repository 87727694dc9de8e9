------------------------------ MODULE Projects ------------------------------
(***************************************************************************)
(* The user-level project registry: one registration file per collection,  *)
(* a project.yaml in every project, and the commands that change both and  *)
(* have the daemon reload them, each with its rollback.                    *)
(* internal/daemon/{project_manager,projects}.go, internal/config/         *)
(* project.go, cmd/mcp-semantic-search-zvec-go/project_commands.go         *)
(*                                                                         *)
(* Files hold what the code compares: a registration its root, a           *)
(* project.yaml its collection id.  Malformed files, descriptions and      *)
(* overrides are left out; projects.lock is a mutual exclusion lock (see   *)
(* IndexLock).                                                             *)
(***************************************************************************)
EXTENDS Integers, FiniteSets

CONSTANTS
  Clients,      \* processes that run a command
  Roots,        \* project directories
  MaxIds,       \* collection ids that can be made
  MaxCommands,  \* commands that are run
  MaxMoves,     \* times the user copies, moves or empties a project
  MayCrash,     \* whether a command can die half way
  None

Ids == 1 .. MaxIds

ASSUME ConstAssumption ==
  /\ MaxIds \in Nat \ {0} /\ MaxCommands \in Nat /\ MaxMoves \in Nat
  /\ MayCrash \in BOOLEAN /\ None \notin Roots \cup Ids \cup Clients

VARIABLES
  reg,     \* the root in each file of projects.d
  yaml,    \* the collection id in the project.yaml of each root
  there,   \* the roots that exist
  used,    \* ids made so far
  holder,  \* who holds projects.lock
  cmd,     \* the command of each client
  served,  \* what the running daemon serves
  alive, inUse,       \* whether there is a daemon; its collections in use
  commands, moves,    \* how many there have been
  causes   \* what has happened that the registry may not survive

vars == <<reg, yaml, there, used, holder, cmd, served, alive, inUse, commands, moves, causes>>
files == <<reg, yaml, there>>
daemon == <<served, alive, inUse>>
counts == <<commands, moves>>

Idle == [op |-> "none", root |-> None, at |-> "idle", id |-> None, kept |-> None,
         \* what it captured, and its number if it began alone
         prevId |-> None, prevRoot |-> None, prevYaml |-> None, alone |-> 0]

Nothing == [id \in Ids |-> None]

Init ==
  /\ reg = Nothing /\ yaml = [r \in Roots |-> None] /\ there \in SUBSET Roots
  /\ used = 0 /\ holder = None /\ cmd = [c \in Clients |-> Idle]
  /\ served = Nothing /\ alive = FALSE /\ inUse = {}
  /\ commands = 0 /\ moves = 0 /\ causes = {}

---------------------------------------------------------------------------
(* Reading the registry.                                                   *)

Registered(r) == {id \in Ids : reg[id] = r}

\* loadRegistrations refuses a root that is registered twice.
Loads == \A r \in Roots : Cardinality(Registered(r)) <= 1

\* findRegistrationByRoot.
RootId(r) == IF Registered(r) = {} THEN None ELSE CHOOSE id \in Registered(r) : TRUE

\* findRegistrationByID.
RootOf(id) == IF id = None THEN None ELSE reg[id]

\* LoadProjectsDirWithSkipped: entries whose project disagrees are skipped.
Loadable == [id \in Ids |->
  IF reg[id] # None /\ reg[id] \in there /\ yaml[reg[id]] = id THEN reg[id] ELSE None]

Claims(r, id) == r \in there /\ yaml[r] = id

WriteYaml(r, id) == yaml' = [yaml EXCEPT ![r] = id] /\ there' = IF id = None THEN there ELSE there \cup {r}

---------------------------------------------------------------------------
(* A command.                                                              *)

At(c, at) == cmd[c].at = at
Goes(c, at) == cmd' = [cmd EXCEPT ![c] = IF at = "idle" THEN Idle ELSE [@ EXCEPT !.at = at]]

\* The last two after a step of the rollback has failed.
RollingBack(c) ==
  cmd[c].at \in {"rollback", "stale", "restore", "yamlback", "restore-partly", "yaml-partly"}

\* A rollback works without the lock, on what the command saw at its start,
\* which another command may have changed since.
Races(c) == causes' = IF cmd[c].alone = commands THEN causes ELSE causes \cup {"race"}

Begin(c) ==
  /\ At(c, "idle") /\ commands < MaxCommands
  /\ \E op \in {"add", "remove", "new", "relocate"}, r \in Roots :
       /\ op = "remove" \/ r \in there
       /\ cmd' = [cmd EXCEPT ![c] = [Idle EXCEPT !.op = op, !.root = r, !.at = "capture",
            !.alone = IF \A d \in Clients : At(d, "idle") THEN commands + 1 ELSE 0]]
  /\ commands' = commands + 1
  /\ UNCHANGED <<files, used, holder, daemon, moves, causes>>

\* registrationForRoot; for a relocation, the registration of the id that the
\* project.yaml of the new root names.
CaptureReg(c) ==
  LET r == cmd[c].root
      id == IF cmd[c].op = "relocate" THEN yaml[r] ELSE RootId(r)
      found == RootOf(id) # None
  IN /\ At(c, "capture")
     /\ IF ~Loads THEN Goes(c, "idle")
        ELSE cmd' = [cmd EXCEPT ![c] =
               [@ EXCEPT !.at = IF cmd[c].op = "relocate" THEN "acquire" ELSE "yaml?",
                         !.prevId = IF found THEN id ELSE None,
                         !.prevRoot = IF found THEN reg[id] ELSE None]]
     /\ UNCHANGED <<files, used, holder, daemon, counts, causes>>

CaptureYaml(c) ==
  /\ At(c, "yaml?")
  /\ cmd' = [cmd EXCEPT ![c] = [@ EXCEPT !.at = "acquire", !.prevYaml = yaml[cmd[c].root]]]
  /\ UNCHANGED <<files, used, holder, daemon, counts, causes>>

Acquire(c) ==
  /\ At(c, "acquire") /\ holder = None
  /\ holder' = c /\ Goes(c, "locked")
  /\ UNCHANGED <<files, used, daemon, counts, causes>>

\* The command ends its critical section and goes on at the given place.
Leaves(c, at) == holder' = None /\ Goes(c, at) /\ UNCHANGED <<used, daemon, counts>>

Locked(c, op) == At(c, "locked") /\ cmd[c].op = op /\ Loads

RefuseUnloadable(c) ==
  /\ At(c, "locked") /\ ~Loads
  /\ Leaves(c, "idle")
  /\ UNCHANGED <<files, causes>>

---------------------------------------------------------------------------
(* AddProject and NewProjectCollection.                                    *)

\* The project.yaml of a registered root went missing.
AddRepairs(c) ==
  LET r == cmd[c].root IN
  /\ Locked(c, "add") /\ yaml[r] = None /\ RootId(r) # None
  /\ WriteYaml(r, RootId(r)) /\ UNCHANGED reg
  /\ Leaves(c, "reload")
  /\ UNCHANGED causes

\* Slip: the registration of this root is not looked at.
AddableByIdOnly(r, id) == reg[id] \in {None, r}

\* project.yaml is the authority, unless the root or the id is taken.
Addable(r, id) == RootId(r) \in {None, id} /\ reg[id] \in {None, r}

AddRegisters(c) ==
  LET r == cmd[c].root  id == yaml[r] IN
  /\ Locked(c, "add") /\ id # None /\ Addable(r, id)
  /\ reg' = [reg EXCEPT ![id] = r]
  /\ Leaves(c, "reload")
  /\ UNCHANGED <<yaml, there, causes>>

AddRefused(c) ==
  LET r == cmd[c].root  id == yaml[r] IN
  /\ Locked(c, "add") /\ id # None /\ ~Addable(r, id)
  /\ Leaves(c, "idle")
  /\ UNCHANGED <<files, causes>>

\* A new id goes to project.yaml first (persistNewProject).  A fork takes the
\* old id from project.yaml, not from the registration of the root.
Mints(c) ==
  LET r == cmd[c].root  id == used + 1 IN
  /\ used < MaxIds
  /\ \/ Locked(c, "add") /\ yaml[r] = None /\ RootId(r) = None
     \/ Locked(c, "new")
  /\ WriteYaml(r, id) /\ used' = id
  /\ cmd' = [cmd EXCEPT ![c] = [@ EXCEPT !.at = "reg", !.id = id, !.kept = yaml[r]]]
  /\ causes' = IF RootId(r) \notin {None, yaml[r]} THEN causes \cup {"fork"} ELSE causes
  /\ UNCHANGED <<reg, holder, daemon, counts>>

\* Slip: the old id is dropped wherever it is registered.
OldRegistrationAnywhere(c) == cmd[c].kept # None /\ RootOf(cmd[c].kept) # None

\* The registration that a fork replaces.
OldRegistration(c) ==
  cmd[c].op = "new" /\ cmd[c].kept # None /\ RootOf(cmd[c].kept) = cmd[c].root

Registers(c) ==
  /\ At(c, "reg")
  /\ reg' = [reg EXCEPT ![cmd[c].id] = cmd[c].root]
  /\ IF OldRegistration(c) THEN Goes(c, "old") /\ UNCHANGED <<holder, used, daemon, counts>>
     ELSE Leaves(c, "reload")
  /\ UNCHANGED <<yaml, there, causes>>

\* The registration cannot be written: the project.yaml is put back.
RegisterFails(c) ==
  /\ At(c, "reg")
  /\ WriteYaml(cmd[c].root, cmd[c].kept) /\ UNCHANGED reg
  /\ Leaves(c, "idle")
  /\ UNCHANGED causes

DropsOld(c) ==
  /\ At(c, "old")
  /\ reg' = [reg EXCEPT ![cmd[c].kept] = None]
  /\ Leaves(c, "reload")
  /\ UNCHANGED <<yaml, there, causes>>

DropFails(c) ==
  /\ At(c, "old")
  /\ Leaves(c, "idle")
  /\ causes' = causes \cup {"drop"}
  /\ UNCHANGED files

Adds(c) == AddRepairs(c) \/ AddRegisters(c) \/ AddRefused(c)
Forks(c) == Mints(c) \/ Registers(c) \/ RegisterFails(c) \/ DropsOld(c) \/ DropFails(c)

---------------------------------------------------------------------------
(* RemoveProject and RelocateProject.                                      *)

RemovesNothing(c) ==
  /\ Locked(c, "remove") /\ RootId(cmd[c].root) = None
  /\ Leaves(c, IF cmd[c].prevId = None THEN "idle" ELSE "reload")
  /\ UNCHANGED <<files, causes>>

Unregisters(c) ==
  /\ Locked(c, "remove") /\ RootId(cmd[c].root) # None
  /\ reg' = [reg EXCEPT ![RootId(cmd[c].root)] = None]
  /\ Goes(c, "unyaml")
  /\ UNCHANGED <<yaml, there, used, holder, daemon, counts, causes>>

RemovesYaml(c) ==
  /\ At(c, "unyaml")
  /\ WriteYaml(cmd[c].root, None) /\ UNCHANGED reg
  /\ Leaves(c, IF cmd[c].prevId = None THEN "idle" ELSE "reload")
  /\ UNCHANGED causes

\* The id must be registered, not in use, and given up by its old root.
Movable(c) ==
  LET r == cmd[c].root  id == yaml[r] IN
  /\ RootOf(id) \notin {None, r}
  /\ id \notin inUse /\ ~Claims(reg[id], id)

RelocateRefused(c) ==
  LET r == cmd[c].root IN
  /\ Locked(c, "relocate") /\ ~Movable(c) /\ (RootOf(yaml[r]) # r)
  /\ Leaves(c, "idle")
  /\ UNCHANGED <<files, causes>>

RelocateSame(c) ==
  LET r == cmd[c].root IN
  /\ Locked(c, "relocate") /\ RootOf(yaml[r]) = r
  /\ Leaves(c, "reload")
  /\ UNCHANGED <<files, causes>>

\* Nobody asks whether the new root is registered for another collection.
Relocates(c) ==
  LET r == cmd[c].root  id == yaml[r] IN
  /\ Locked(c, "relocate") /\ Movable(c)
  /\ reg' = [reg EXCEPT ![id] = r]
  /\ Leaves(c, "reload")
  /\ causes' = IF RootId(r) # None THEN causes \cup {"relocate"} ELSE causes
  /\ UNCHANGED <<yaml, there>>

Removes(c) == RemovesNothing(c) \/ Unregisters(c) \/ RemovesYaml(c)
Moves(c) == RelocateRefused(c) \/ RelocateSame(c) \/ Relocates(c)

---------------------------------------------------------------------------
(* The reload, and the rollback of a change that the daemon refuses.       *)

\* ReloadProjects: collections whose registration changed or went away.
Changed == {id \in Ids : served[id] # None /\ Loadable[id] # served[id]}

ReloadSkips(c) ==
  /\ At(c, "reload") /\ ~alive /\ cmd[c].op \in {"remove", "relocate"}
  /\ Goes(c, "idle")
  /\ UNCHANGED <<files, used, holder, daemon, counts, causes>>

\* A daemon that is started, or one that finds nothing changed in use.
ReloadApplies(c) ==
  /\ At(c, "reload") /\ Changed \cap inUse = {}
  /\ alive \/ cmd[c].op \in {"add", "new"}
  /\ alive' = TRUE /\ served' = Loadable /\ Goes(c, "idle")
  /\ UNCHANGED <<files, used, holder, inUse, counts, causes>>

ReloadRefused(c) ==
  LET k == cmd[c] IN
  /\ At(c, "reload") /\ Changed \cap inUse # {}
  /\ Goes(c, IF k.op = "relocate" THEN IF k.prevId = None THEN "idle" ELSE "restore"
             ELSE IF k.op = "add" /\ k.prevId # None THEN "idle" ELSE "rollback")
  /\ UNCHANGED <<files, used, holder, daemon, counts, causes>>

\* Slip: a root that was not registered before has nothing to drop.
StaleIfForked(c, id) == cmd[c].prevId # None /\ id \notin {None, cmd[c].prevId}

\* A registration of the root that was not there before the command.
Stale(c, id) == id \notin {None, cmd[c].prevId}

\* restore reads the registrations without the lock, and gives up with an error
\* when it cannot.
FindsStale(c) ==
  LET id == RootId(cmd[c].root) IN
  /\ At(c, "rollback")
  /\ \/ Goes(c, "idle")
     \/ /\ Loads
        /\ cmd' = [cmd EXCEPT ![c] =
             [@ EXCEPT !.id = id, !.at = IF Stale(c, id) THEN "stale" ELSE "restore"]]
  /\ Races(c)
  /\ UNCHANGED <<files, used, holder, daemon, counts>>

\* RemoveRegistrationOnly.
DropsStale(c) ==
  /\ At(c, "stale") /\ holder = None
  /\ reg' = [reg EXCEPT ![cmd[c].id] = None] /\ Goes(c, "restore")
  /\ Races(c)
  /\ UNCHANGED <<yaml, there, used, holder, daemon, counts>>

\* A step that fails is a problem to report in the end, and the next one is
\* taken: the registration that was to go will have another one beside it.
StaleFails(c) ==
  /\ At(c, "stale")
  /\ Goes(c, "restore-partly")
  /\ causes' = IF cmd[c].prevId = None THEN causes ELSE causes \cup {"stale"}
  /\ UNCHANGED <<files, used, holder, daemon, counts>>

Restoring(c) == At(c, "restore") \/ At(c, "restore-partly")

\* RestoreRegistration.
Restored(c) == [reg EXCEPT ![cmd[c].prevId] = cmd[c].prevRoot]

Restores(c) ==
  /\ Restoring(c)
  /\ IF cmd[c].prevId = None THEN UNCHANGED reg ELSE holder = None /\ reg' = Restored(c)
  /\ Goes(c, IF cmd[c].op = "relocate" THEN "idle"
             ELSE IF At(c, "restore") THEN "yamlback" ELSE "yaml-partly")
  /\ Races(c)
  /\ UNCHANGED <<yaml, there, used, holder, daemon, counts>>

RestoreFails(c) ==
  /\ Restoring(c) /\ cmd[c].prevId # None
  /\ Goes(c, IF cmd[c].op = "relocate" THEN "idle" ELSE "yaml-partly")
  /\ UNCHANGED <<files, used, holder, daemon, counts, causes>>

RestoresYaml(c) ==
  /\ At(c, "yamlback") \/ At(c, "yaml-partly")
  /\ WriteYaml(cmd[c].root, cmd[c].prevYaml)
  /\ Goes(c, "idle")
  /\ Races(c)
  /\ UNCHANGED <<reg, used, holder, daemon, counts>>

YamlFails(c) ==
  /\ At(c, "yamlback") \/ At(c, "yaml-partly")
  /\ Goes(c, "idle")
  /\ UNCHANGED <<files, used, holder, daemon, counts, causes>>

\* The process dies, and the system drops its lock; or a step fails and the
\* command ends with that error.
Crash(c) ==
  /\ MayCrash /\ cmd[c].at # "idle"
  /\ Goes(c, "idle")
  /\ holder' = IF holder = c THEN None ELSE holder
  /\ causes' = IF At(c, "old") THEN causes \cup {"drop"} ELSE causes
  /\ UNCHANGED <<files, used, daemon, counts>>

Rollback(c) ==
  FindsStale(c) \/ DropsStale(c) \/ StaleFails(c) \/ Restores(c) \/ RestoreFails(c)
    \/ RestoresYaml(c) \/ YamlFails(c)
Reload(c) == ReloadSkips(c) \/ ReloadApplies(c) \/ ReloadRefused(c)

---------------------------------------------------------------------------
(* The daemon's requests, and the user.                                    *)

Uses(id) ==
  /\ served[id] # None /\ id \notin inUse
  /\ inUse' = inUse \cup {id}
  /\ UNCHANGED <<files, used, holder, cmd, served, alive, counts, causes>>

Rests(id) ==
  /\ id \in inUse
  /\ inUse' = inUse \ {id}
  /\ UNCHANGED <<files, used, holder, cmd, served, alive, counts, causes>>

DaemonStops ==
  /\ alive
  /\ alive' = FALSE /\ served' = Nothing /\ inUse' = {}
  /\ UNCHANGED <<files, used, holder, cmd, counts, causes>>

UserActs ==
  /\ moves < MaxMoves /\ moves' = moves + 1
  /\ \/ \E a \in there : \E b \in Roots \ {a} :  \* copies a project, or moves it
          /\ there' \in {there \cup {b}, (there \cup {b}) \ {a}}
          /\ yaml' = [yaml EXCEPT ![b] = yaml[a], ![a] = IF a \in there' THEN @ ELSE None]
     \/ \E a \in there :  \* removes its project.yaml
          there' = there /\ yaml' = [yaml EXCEPT ![a] = None]
  /\ UNCHANGED <<reg, used, holder, cmd, daemon, commands, causes>>

Command(c) ==
  \/ Begin(c) \/ CaptureReg(c) \/ CaptureYaml(c) \/ Acquire(c) \/ RefuseUnloadable(c)
  \/ Adds(c) \/ Forks(c) \/ Removes(c) \/ Moves(c) \/ Reload(c) \/ Rollback(c) \/ Crash(c)

Next ==
  \/ \E c \in Clients : Command(c)
  \/ \E id \in Ids : Uses(id) \/ Rests(id)
  \/ DaemonStops \/ UserActs

Spec == Init /\ [][Next]_vars

---------------------------------------------------------------------------
(* What the commands promise.                                              *)

\* Whenever no command is writing, the registry can be read: no root is
\* registered twice, which loadRegistrations refuses for every later command
\* (project_manager.go:141).  The exceptions are the causes on record: a fork
\* that dies or fails before it drops the old registration (587), a fork of a
\* root whose registration its project.yaml does not name (564), a relocation
\* onto a registered root (700), a rollback that meets another command, and one
\* that restores a registration after the removal of the one that took its place
\* has failed (project_commands.go:196-208).
RegistryLoads == holder = None /\ causes = {} => Loads

\* A fork leaves one registration of its root: "The root now maps to the new
\* id; drop only this root's old registration" (project_manager.go:583).
ForkKeepsOneRegistration == holder = None /\ causes \subseteq {"fork"} => Loads

\* A command changes no registration of another project; a relocation moves
\* the one of the id it was asked to move.  Only a rollback, which works on
\* what it saw before, may (project_manager.go:539-541, 583-590).
OthersUntouched ==
  [][\A id \in Ids : reg[id] # None /\ reg'[id] # reg[id] =>
       \E c \in Clients : cmd'[c] # cmd[c] /\
         \/ reg[id] = cmd[c].root
         \/ cmd[c].op = "relocate" /\ reg'[id] = cmd[c].root
         \/ RollingBack(c)]_vars

\* A change that the daemon refused with a conflict is undone, as far as the
\* rollback does not report a problem: in the end the root has the registration
\* it had before the command, and its project.yaml is put back even when the
\* registration could not be ("best effort per file: a partial restore is
\* reported, never silently ignored", project_commands.go:176-177; 99-102).
RefusedChangeIsUndone ==
  [][\A c \in Clients : RestoresYaml(c) /\ causes' = {} =>
       LET k == cmd[c] IN
       /\ yaml'[k.root] = k.prevYaml
       /\ k.at = "yamlback" => {id \in Ids : reg'[id] = k.root} = {k.prevId} \ {None}]_vars
---------------------------------------------------------------------------
(* The inductive invariant.                                                *)

Critical == {"locked", "reg", "old", "unyaml"}
Places == Critical \cup {"idle", "capture", "yaml?", "acquire", "reload", "rollback", "stale",
                         "restore", "yamlback", "restore-partly", "yaml-partly"}

Id == Ids \cup {None}
Root == Roots \cup {None}

CommandStates == [op : {"none", "add", "remove", "new", "relocate"}, root : Root, at : Places,
                  id : Id, kept : Id, prevId : Id, prevRoot : Root, prevYaml : Id, alone : Nat]

Causes == {"race", "fork", "drop", "relocate", "stale"}

TypeOK ==
  /\ reg \in [Ids -> Root] /\ yaml \in [Roots -> Id] /\ there \subseteq Roots
  /\ used \in Nat /\ used <= MaxIds /\ holder \in Clients \cup {None}
  /\ cmd \in [Clients -> CommandStates]
  /\ served \in [Ids -> Root] /\ alive \in BOOLEAN /\ inUse \subseteq Ids
  /\ commands \in Nat /\ moves \in Nat /\ causes \subseteq Causes

\* Who writes has the lock, and knows what it writes about.
Ordered ==
  \A c \in Clients :
    /\ cmd[c].at \in Critical <=> holder = c
    /\ cmd[c].at # "idle" => cmd[c].op # "none" /\ cmd[c].root # None
    /\ cmd[c].at \in {"reg", "old"} => \/ cmd[c].op = "new"
                                       \/ cmd[c].op = "add" /\ cmd[c].kept = None
    /\ cmd[c].at = "unyaml" => cmd[c].op = "remove"
    /\ cmd[c].at \in {"yaml?", "rollback", "stale", "yamlback", "restore-partly", "yaml-partly"}
         => cmd[c].op # "relocate"
    /\ cmd[c].op # "relocate" /\ cmd[c].prevId # None => cmd[c].prevRoot = cmd[c].root

\* Ids are used in order, so that a new one is nobody's.
Numbered ==
  /\ \A id \in Ids : reg[id] # None => id <= used
  /\ \A r \in Roots : yaml[r] # None => yaml[r] <= used
  /\ \A c \in Clients : \A id \in {cmd[c].kept, cmd[c].prevId, cmd[c].prevYaml} :
       id # None => id <= used
  /\ \A c \in Clients : cmd[c].at = "reg" => cmd[c].id \in Ids /\ reg[cmd[c].id] = None
                                            /\ cmd[c].id = used

\* No other command has run since this one began.
Alone(c) == cmd[c].at # "idle" /\ cmd[c].alone = commands

OthersIdle ==
  \A c \in Clients : /\ cmd[c].alone <= commands
                     /\ Alone(c) => \A d \in Clients \ {c} : At(d, "idle")

\* A root has one registration, or two while a fork is about to drop the old one.
OneEach ==
  \A i, j \in Ids : reg[i] # None /\ reg[i] = reg[j] /\ i # j =>
    /\ holder # None /\ At(holder, "old")
    /\ cmd[holder].kept \in {i, j}

\* What a new registration will meet, and what a rollback in solitude may find.
Undoable(c) ==
  LET k == cmd[c] IN
  /\ k.at = "reg" => Registered(k.root) \subseteq {k.kept}
  /\ Alone(c) /\ k.at = "stale" => k.id \in Ids /\ Registered(k.root) \subseteq {k.id}
  /\ Alone(c) /\ k.at = "restore" /\ k.op # "relocate" => Registered(k.root) \subseteq {k.prevId}
  /\ k.at = "restore-partly" => k.prevId = None
  /\ Alone(c) /\ k.at = "yamlback" => Registered(k.root) = {k.prevId} \ {None}
  /\ Alone(c) /\ k.op = "relocate" /\ k.prevId # None =>
       /\ k.at \in {"acquire", "locked"} => Registered(k.prevRoot) = {k.prevId}
       /\ k.at \in {"reload", "restore"} => Registered(k.prevRoot) \subseteq {k.prevId}

\* The old registration that a fork is about to drop is its root's.
Dropping == \A c \in Clients : At(c, "old") => RootOf(cmd[c].kept) = cmd[c].root

\* What goes wrong with the registry is on record in causes.
PInv ==
  /\ TypeOK /\ Ordered /\ Numbered /\ OthersIdle
  /\ causes = {} => OneEach /\ \A c \in Clients : Undoable(c)
=============================================================================
