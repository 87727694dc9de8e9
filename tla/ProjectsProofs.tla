--------------------------- MODULE ProjectsProofs ---------------------------
(***************************************************************************)
(* The commands on the project registry, and the lock file they contend    *)
(* for.  The inductive invariant of the commands is PInv; each action has  *)
(* a lemma.  The lock file excludes where a file that is open cannot be    *)
(* removed, for any number of contenders and of files.  (Where it can be,  *)
(* it does not: model checking shows how.)                                 *)
(***************************************************************************)
EXTENDS Projects, IndexLock, FiniteSetTheorems, TLAPS

LEMMA IdsAre == Ids \subseteq Nat /\ None \notin Ids /\ IsFiniteSet(Ids)
BY ConstAssumption, FS_Interval DEF Ids

\* A client's command goes on, and nothing happens to the others'.
LEMMA GoesOn ==
  ASSUME TypeOK, NEW c \in Clients, NEW at \in Places, Goes(c, at)
  PROVE  /\ cmd' \in [Clients -> CommandStates]
         /\ \A d \in Clients \ {c} : cmd'[d] = cmd[d]
         /\ cmd'[c].at = at
         /\ at = "idle" => cmd'[c] = Idle
         /\ at # "idle" =>
              /\ cmd'[c].op = cmd[c].op /\ cmd'[c].root = cmd[c].root /\ cmd'[c].id = cmd[c].id
              /\ cmd'[c].kept = cmd[c].kept /\ cmd'[c].prevId = cmd[c].prevId
              /\ cmd'[c].prevRoot = cmd[c].prevRoot /\ cmd'[c].prevYaml = cmd[c].prevYaml
              /\ cmd'[c].alone = cmd[c].alone
BY DEF TypeOK, CommandStates, Places, Critical, Goes, Idle, Id, Root

LEMMA RootIdIs ==
  ASSUME TypeOK, NEW r \in Roots
  PROVE  \/ RootId(r) = None /\ Registered(r) = {}
         \/ RootId(r) \in Ids /\ reg[RootId(r)] = r
BY Zenon, IdsAre DEF RootId, Registered

\* The registry loads if no root is registered twice.
LEMMA LoadsWhenOne ==
  ASSUME TypeOK, \A i, j \in Ids : reg[i] # None /\ reg[i] = reg[j] => i = j
  PROVE  Loads
<1> SUFFICES ASSUME NEW r \in Roots PROVE Cardinality(Registered(r)) <= 1
  BY DEF Loads
<1>1. r # None
  BY ConstAssumption
<1>2. CASE Registered(r) = {}
  BY <1>2, FS_EmptySet
<1>3. CASE Registered(r) # {}
  <2>1. PICK i \in Ids : Registered(r) = {i}
    BY <1>1, <1>3 DEF Registered
  <2> QED BY <2>1, FS_Singleton
<1> QED BY <1>2, <1>3

LEMMA OneWhenLoads ==
  ASSUME TypeOK, Loads, NEW i \in Ids, NEW j \in Ids, reg[i] # None, reg[i] = reg[j]
  PROVE  i = j
<1>1. reg[i] \in Roots /\ i \in Registered(reg[i]) /\ j \in Registered(reg[i])
  BY DEF TypeOK, Root, Registered
<1>2. Cardinality(Registered(reg[i])) <= 1
  BY <1>1 DEF Loads
<1>3. IsFiniteSet(Registered(reg[i])) /\ {i, j} \subseteq Registered(reg[i])
  BY <1>1, IdsAre, FS_Subset DEF Registered
<1>4. Cardinality({i, j}) <= 1
  BY <1>2, <1>3, FS_Subset, FS_CardinalityType
<1>5. i # j => Cardinality({i, j}) = 2
  <2> SUFFICES ASSUME i # j PROVE Cardinality({i, j}) = 2
    OBVIOUS
  <2>1. IsFiniteSet({i}) /\ Cardinality({i}) = 1
    BY FS_Singleton
  <2>2. {i, j} = {i} \cup {j} /\ j \notin {i}
    OBVIOUS
  <2> QED BY <2>1, <2>2, FS_AddElement
<1> QED BY <1>4, <1>5

LEMMA RegistrationsOf ==
  ASSUME TypeOK, \A i, j \in Ids : reg[i] # None /\ reg[i] = reg[j] => i = j,
         NEW r \in Roots
  PROVE  \/ RootId(r) = None /\ Registered(r) = {}
         \/ RootId(r) \in Ids /\ reg[RootId(r)] = r /\ Registered(r) = {RootId(r)}
BY RootIdIs, ConstAssumption DEF Registered

\* While no fork is about to drop a registration, a root has one at most.
LEMMA OneApart ==
  ASSUME PInv, causes = {}, holder = None \/ ~At(holder, "old")
  PROVE  \A i, j \in Ids : reg[i] # None /\ reg[i] = reg[j] => i = j
BY DEF PInv, OneEach

LEMMA Solitude ==
  ASSUME PInv, NEW c \in Clients, Alone(c), cmd[c].at \notin Critical
  PROVE  holder = None
BY DEF PInv, OthersIdle, Ordered, Alone, At, Critical, TypeOK

\* What a step of one command leaves true of the others'.
LEMMA OthersStand ==
  ASSUME PInv, NEW c \in Clients, ~At(c, "idle"), UNCHANGED commands,
         \A d \in Clients \ {c} : cmd'[d] = cmd[d],
         reg' = reg \/ holder \in {c, None}, causes = {}
  PROVE  \A d \in Clients \ {c} : Undoable(d)'
<1> SUFFICES ASSUME NEW d \in Clients \ {c} PROVE Undoable(d)'
  OBVIOUS
<1>1. ~Alone(d)
  BY DEF PInv, OthersIdle
<1>2. ~Alone(d)'
  BY <1>1 DEF Alone
<1>3. cmd[d].at = "reg" => holder = d /\ d # None
  BY ConstAssumption DEF PInv, Ordered, Critical
<1>4. cmd[d].at = "reg" => reg' = reg
  BY <1>3
<1>5. Undoable(d)
  BY DEF PInv
<1> QED BY <1>2, <1>4, <1>5 DEF Undoable, Registered

LEMMA StaysAlone ==
  ASSUME PInv, NEW c \in Clients, ~At(c, "idle"), UNCHANGED commands,
         \A d \in Clients \ {c} : cmd'[d] = cmd[d],
         \/ cmd'[c].alone = cmd[c].alone
         \/ cmd'[c].at = "idle" /\ cmd'[c].alone = 0
  PROVE  OthersIdle'
<1>1. commands \in Nat /\ OthersIdle
  BY DEF PInv, TypeOK
<1>2. \A d \in Clients : cmd'[d].alone <= commands
  BY <1>1 DEF OthersIdle
<1>3. ASSUME NEW d \in Clients, Alone(d)' PROVE d = c /\ Alone(c)
  BY <1>1, <1>3 DEF OthersIdle, Alone, At
<1> QED BY <1>1, <1>2, <1>3 DEF OthersIdle, At

\* A command that ends without a change, and not in the middle of a fork.
LEMMA BacksOut ==
  ASSUME PInv, NEW c \in Clients, Goes(c, "idle"), ~At(c, "idle"), ~At(c, "old"),
         holder' = (IF holder = c THEN None ELSE holder),
         UNCHANGED <<reg, yaml, there, used, served, alive, inUse, commands, moves>>,
         causes \subseteq causes', causes' \subseteq Causes
  PROVE  PInv'
<1>1. /\ cmd' \in [Clients -> CommandStates] /\ cmd'[c] = Idle
      /\ \A d \in Clients \ {c} : cmd'[d] = cmd[d]
  BY GoesOn DEF PInv, Places
<1>2. TypeOK'
  BY <1>1 DEF PInv, TypeOK
<1>3. Ordered'
  BY <1>1, ConstAssumption DEF PInv, TypeOK, Ordered, Critical, Idle
<1>4. Numbered'
  BY <1>1 DEF PInv, TypeOK, Numbered, Idle
<1>5. OthersIdle'
  BY <1>1, StaysAlone DEF Idle
<1>6. causes' = {} => OneEach'
  BY <1>1, ConstAssumption DEF PInv, TypeOK, OneEach, Ordered, Critical, At
<1>7. causes' = {} => \A d \in Clients : Undoable(d)'
  BY <1>1, OthersStand DEF Undoable, Alone, Idle
<1> QED BY <1>2, <1>3, <1>4, <1>5, <1>6, <1>7 DEF PInv

LEMMA CaptureRegKeeps ==
  ASSUME PInv, NEW c \in Clients, CaptureReg(c)
  PROVE  PInv'
<1> DEFINE r == cmd[c].root
           id == IF cmd[c].op = "relocate" THEN yaml[r] ELSE RootId(r)
           found == RootOf(id) # None
<1>1. r \in Roots /\ cmd[c].at = "capture" /\ TypeOK
  BY DEF PInv, TypeOK, CommandStates, Ordered, CaptureReg, At, Root
<1>2. found => id \in Ids /\ reg[id] # None /\ (cmd[c].op # "relocate" => reg[id] = r)
  BY <1>1, RootIdIs DEF TypeOK, RootOf, Id
<1>3. UNCHANGED <<reg, yaml, there, used, holder, served, alive, inUse, commands, moves, causes>>
  BY DEF CaptureReg, files, daemon, counts
<1>4. CASE ~Loads
  <2>1. Goes(c, "idle") /\ holder # c
    BY <1>1, <1>4 DEF CaptureReg, PInv, Ordered, Critical
  <2> QED BY <1>1, <1>3, <2>1, BacksOut DEF At, TypeOK
<1>5. CASE Loads
  <2>1. cmd' = [cmd EXCEPT ![c] =
               [@ EXCEPT !.at = IF cmd[c].op = "relocate" THEN "acquire" ELSE "yaml?",
                         !.prevId = IF found THEN id ELSE None,
                         !.prevRoot = IF found THEN reg[id] ELSE None]]
    BY <1>5 DEF CaptureReg
  <2>2. found => reg[id] \in Roots
    BY <1>1, <1>2 DEF TypeOK, Root
  <2> HIDE DEF r, id, found
  <2>3. /\ cmd' \in [Clients -> CommandStates]
        /\ \A d \in Clients \ {c} : cmd'[d] = cmd[d]
        /\ cmd'[c].at = IF cmd[c].op = "relocate" THEN "acquire" ELSE "yaml?"
        /\ cmd'[c].prevId = IF found THEN id ELSE None
        /\ cmd'[c].prevRoot = IF found THEN reg[id] ELSE None
        /\ cmd'[c].op = cmd[c].op /\ cmd'[c].root = cmd[c].root /\ cmd'[c].kept = cmd[c].kept
        /\ cmd'[c].prevYaml = cmd[c].prevYaml /\ cmd'[c].alone = cmd[c].alone
    <3> DEFINE k == cmd[c]
               new == [k EXCEPT !.at = IF cmd[c].op = "relocate" THEN "acquire" ELSE "yaml?",
                                !.prevId = IF found THEN id ELSE None,
                                !.prevRoot = IF found THEN reg[id] ELSE None]
    <3>1. /\ k \in CommandStates /\ cmd' = [cmd EXCEPT ![c] = new]
          /\ cmd \in [Clients -> CommandStates]
      BY <1>1, <2>1 DEF TypeOK
    <3>2. (IF found THEN id ELSE None) \in Id /\ (IF found THEN reg[id] ELSE None) \in Root
      BY <1>2, <2>2 DEF Id, Root
    <3>3. /\ new \in CommandStates
          /\ new.at = (IF cmd[c].op = "relocate" THEN "acquire" ELSE "yaml?")
          /\ new.prevId = (IF found THEN id ELSE None)
          /\ new.prevRoot = (IF found THEN reg[id] ELSE None) /\ new.op = k.op
          /\ new.root = k.root /\ new.kept = k.kept /\ new.prevYaml = k.prevYaml
          /\ new.alone = k.alone
      BY <3>1, <3>2 DEF CommandStates, Places, Critical
    <3> HIDE DEF new
    <3> QED BY <3>1, <3>3
  <2>4. TypeOK'
    BY <1>3, <2>3 DEF PInv, TypeOK
  <2>5. Ordered'
    BY <1>1, <1>2, <1>3, <2>3 DEF PInv, Ordered, Critical, r
  <2>6. Numbered'
    BY <1>1, <1>2, <1>3, <2>3 DEF PInv, Numbered
  <2>7. OthersIdle'
    BY <1>1, <1>3, <2>3, StaysAlone DEF At
  <2>8. causes' = {} => OneEach'
    BY <1>1, <1>3, <2>3, ConstAssumption DEF PInv, Ordered, Critical, OneEach, At, TypeOK
  <2>9. Undoable(c)'
    <3>1. found => Registered(reg[id]) = {id}
      BY <1>1, <1>2, <1>5, OneWhenLoads DEF Registered
    <3> QED BY <1>3, <2>3, <3>1 DEF Undoable, Registered
  <2>10. causes' = {} => \A d \in Clients : Undoable(d)'
    BY <1>1, <1>3, <2>3, <2>9, OthersStand DEF At
  <2> QED BY <2>4, <2>5, <2>6, <2>7, <2>8, <2>10 DEF PInv
<1> QED BY <1>4, <1>5

LEMMA CaptureYamlKeeps ==
  ASSUME PInv, NEW c \in Clients, CaptureYaml(c)
  PROVE  PInv'
<1>1. cmd[c].root \in Roots /\ cmd[c].at = "yaml?" /\ TypeOK
  BY DEF PInv, TypeOK, CommandStates, Ordered, CaptureYaml, At, Root
<1>2. UNCHANGED <<reg, yaml, there, used, holder, served, alive, inUse, commands, moves, causes>>
  BY DEF CaptureYaml, files, daemon, counts
<1>3. yaml[cmd[c].root] \in Id
  BY <1>1 DEF TypeOK
<1>4. /\ cmd' \in [Clients -> CommandStates]
      /\ \A d \in Clients \ {c} : cmd'[d] = cmd[d]
      /\ cmd'[c].at = "acquire" /\ cmd'[c].prevYaml = yaml[cmd[c].root]
      /\ cmd'[c].prevId = cmd[c].prevId /\ cmd'[c].prevRoot = cmd[c].prevRoot
      /\ cmd'[c].op = cmd[c].op /\ cmd'[c].root = cmd[c].root /\ cmd'[c].kept = cmd[c].kept
      /\ cmd'[c].alone = cmd[c].alone
  <2> DEFINE k == cmd[c]
             new == [k EXCEPT !.at = "acquire", !.prevYaml = yaml[k.root]]
  <2>1. k \in CommandStates /\ cmd' = [cmd EXCEPT ![c] = new] /\ cmd \in [Clients -> CommandStates]
    BY <1>1 DEF CaptureYaml, TypeOK
  <2>2. /\ new \in CommandStates /\ new.at = "acquire" /\ new.prevYaml = yaml[k.root]
        /\ new.prevId = k.prevId /\ new.prevRoot = k.prevRoot /\ new.op = k.op
        /\ new.root = k.root /\ new.kept = k.kept /\ new.alone = k.alone
    BY <1>3, <2>1 DEF CommandStates, Places, Critical
  <2> HIDE DEF new
  <2> QED BY <2>1, <2>2
<1>5. cmd[c].op # "relocate"
  BY <1>1 DEF PInv, Ordered
<1>6. TypeOK'
  BY <1>2, <1>4 DEF PInv, TypeOK
<1>7. Ordered'
  BY <1>1, <1>2, <1>4 DEF PInv, Ordered, Critical
<1>8. Numbered'
  BY <1>1, <1>2, <1>4 DEF PInv, Numbered
<1>9. OthersIdle'
  BY <1>1, <1>2, <1>4, StaysAlone DEF At
<1>10. causes' = {} => OneEach'
  BY <1>1, <1>2, <1>4, ConstAssumption DEF PInv, Ordered, Critical, OneEach, At, TypeOK
<1>11. Undoable(c)'
  BY <1>4, <1>5 DEF Undoable
<1>12. causes' = {} => \A d \in Clients : Undoable(d)'
  BY <1>1, <1>2, <1>4, <1>11, OthersStand DEF At
<1> QED BY <1>6, <1>7, <1>8, <1>9, <1>10, <1>12 DEF PInv

LEMMA AcquireKeeps ==
  ASSUME PInv, NEW c \in Clients, Acquire(c)
  PROVE  PInv'
<1> USE ConstAssumption, IdsAre DEF PInv, files, daemon, counts, At, Goes, Acquire
<1>1. TypeOK'
  BY DEF TypeOK, CommandStates, Places, Critical, Idle, Id, Root
<1>2. Ordered'
  BY DEF TypeOK, CommandStates, Ordered, Critical, Idle
<1>3. Numbered'
  BY DEF TypeOK, CommandStates, Ordered, Critical, Numbered, Idle
<1>4. OthersIdle'
  BY DEF TypeOK, CommandStates, OthersIdle, Alone, Idle
<1>5. causes' = {} => OneEach'
  BY DEF TypeOK, CommandStates, Ordered, Critical, OneEach, Idle
<1>6. causes' = {} => \A d \in Clients : Undoable(d)'
  BY DEF TypeOK, CommandStates, Ordered, Critical, OthersIdle, Undoable, Registered, Alone, Idle
<1> QED BY <1>1, <1>2, <1>3, <1>4, <1>5, <1>6

LEMMA RefuseUnloadableKeeps ==
  ASSUME PInv, NEW c \in Clients, RefuseUnloadable(c)
  PROVE  PInv'
<1>1. /\ Goes(c, "idle") /\ ~At(c, "idle") /\ ~At(c, "old")
      /\ holder' = (IF holder = c THEN None ELSE holder)
  BY ConstAssumption DEF PInv, Ordered, Critical, At, Leaves, RefuseUnloadable
<1>2. /\ UNCHANGED <<reg, yaml, there, used, served, alive, inUse, commands, moves>>
      /\ causes' = causes /\ causes \subseteq Causes
  BY DEF PInv, TypeOK, files, daemon, counts, Leaves, RefuseUnloadable
<1> QED BY <1>1, <1>2, BacksOut

LEMMA WritesYaml ==
  ASSUME TypeOK, NEW r \in Roots, NEW id \in Id, WriteYaml(r, id)
  PROVE  /\ yaml' \in [Roots -> Id] /\ there' \subseteq Roots
         /\ yaml'[r] = id /\ \A q \in Roots \ {r} : yaml'[q] = yaml[q]
BY DEF TypeOK, WriteYaml

LEMMA AddRepairsKeeps ==
  ASSUME PInv, NEW c \in Clients, AddRepairs(c)
  PROVE  PInv'
<1> DEFINE r == cmd[c].root
<1>1. r \in Roots /\ cmd[c].at = "locked" /\ holder = c /\ TypeOK
  BY DEF PInv, TypeOK, CommandStates, Ordered, Critical, AddRepairs, Locked, At, Root
<1>2. /\ UNCHANGED <<reg, used, served, alive, inUse, commands, moves, causes>>
      /\ holder' = None /\ Goes(c, "reload") /\ cmd[c].op = "add"
  BY DEF AddRepairs, Leaves, Locked, daemon, counts
<1>3. RootId(r) \in Ids /\ reg[RootId(r)] = r
  BY <1>1, RootIdIs DEF AddRepairs
<1>4. /\ yaml' \in [Roots -> Id] /\ there' \subseteq Roots
      /\ yaml'[r] = RootId(r) /\ \A q \in Roots \ {r} : yaml'[q] = yaml[q]
  BY <1>1, <1>3, WritesYaml DEF AddRepairs, Id
<1> HIDE DEF r
<1>5. /\ cmd' \in [Clients -> CommandStates] /\ cmd'[c].at = "reload"
      /\ \A d \in Clients \ {c} : cmd'[d] = cmd[d]
      /\ cmd'[c].op = cmd[c].op /\ cmd'[c].root = cmd[c].root /\ cmd'[c].kept = cmd[c].kept
      /\ cmd'[c].prevId = cmd[c].prevId /\ cmd'[c].prevRoot = cmd[c].prevRoot
      /\ cmd'[c].prevYaml = cmd[c].prevYaml /\ cmd'[c].alone = cmd[c].alone
  BY <1>1, <1>2, GoesOn DEF Places
<1>6. TypeOK'
  BY <1>1, <1>2, <1>4, <1>5 DEF TypeOK
<1>7. Ordered'
  BY <1>1, <1>2, <1>5, ConstAssumption DEF PInv, Ordered, Critical
<1>8. Numbered'
  BY <1>1, <1>2, <1>3, <1>4, <1>5, ConstAssumption DEF PInv, Numbered
<1>9. OthersIdle'
  BY <1>1, <1>2, <1>5, StaysAlone DEF At
<1>10. causes' = {} => OneEach'
  BY <1>1, <1>2, <1>5 DEF PInv, OneEach, At
<1>11. causes' = {} => \A d \in Clients : Undoable(d)'
  BY <1>1, <1>2, <1>5, OthersStand DEF At, Undoable
<1> QED BY <1>6, <1>7, <1>8, <1>9, <1>10, <1>11 DEF PInv

LEMMA AddRegistersKeeps ==
  ASSUME PInv, NEW c \in Clients, AddRegisters(c)
  PROVE  PInv'
<1> DEFINE r == cmd[c].root
           id == yaml[r]
<1>1. r \in Roots /\ cmd[c].at = "locked" /\ holder = c /\ TypeOK
  BY DEF PInv, TypeOK, CommandStates, Ordered, Critical, AddRegisters, Locked, At, Root
<1>2. /\ UNCHANGED <<yaml, there, used, served, alive, inUse, commands, moves, causes>>
      /\ holder' = None /\ Goes(c, "reload") /\ cmd[c].op = "add" /\ Loads
      /\ id # None /\ RootId(r) \in {None, id} /\ reg' = [reg EXCEPT ![id] = r]
  BY DEF AddRegisters, Addable, Leaves, Locked, daemon, counts
<1>3. id \in Ids /\ id <= used
  BY <1>1, <1>2 DEF TypeOK, Id, PInv, Numbered
<1>4. Registered(r) \subseteq {id}
  <2>1. \A i, j \in Ids : reg[i] # None /\ reg[i] = reg[j] => i = j
    BY <1>1, <1>2, OneWhenLoads
  <2>2. Registered(r) = {} \/ (RootId(r) \in Ids /\ Registered(r) = {RootId(r)})
    BY <1>1, <2>1, RegistrationsOf
  <2>3. RootId(r) \in Ids => RootId(r) = id
    BY <1>2, IdsAre
  <2> QED BY <2>2, <2>3
<1> HIDE DEF r, id
<1>5. /\ cmd' \in [Clients -> CommandStates] /\ cmd'[c].at = "reload"
      /\ \A d \in Clients \ {c} : cmd'[d] = cmd[d]
      /\ cmd'[c].op = cmd[c].op /\ cmd'[c].root = cmd[c].root /\ cmd'[c].kept = cmd[c].kept
      /\ cmd'[c].prevId = cmd[c].prevId /\ cmd'[c].prevRoot = cmd[c].prevRoot
      /\ cmd'[c].prevYaml = cmd[c].prevYaml /\ cmd'[c].alone = cmd[c].alone
  BY <1>1, <1>2, GoesOn DEF Places
<1>a. reg' \in [Ids -> Root] /\ reg'[id] = r /\ \A i \in Ids \ {id} : reg'[i] = reg[i]
  BY <1>1, <1>2, <1>3 DEF TypeOK, Root
<1>6. TypeOK'
  BY <1>1, <1>2, <1>5, <1>a DEF TypeOK
<1>7. Ordered'
  BY <1>1, <1>2, <1>5, ConstAssumption DEF PInv, Ordered, Critical
<1>8. Numbered'
  BY <1>1, <1>2, <1>3, <1>5, <1>a, ConstAssumption DEF PInv, Numbered, Ordered, Critical
<1>9. OthersIdle'
  BY <1>1, <1>2, <1>5, StaysAlone DEF At
<1>10. causes' = {} => OneEach'
  BY <1>1, <1>2, <1>3, <1>4, <1>a DEF PInv, OneEach, At, Registered
<1>11. causes' = {} => \A d \in Clients : Undoable(d)'
  BY <1>1, <1>2, <1>5, OthersStand DEF At, Undoable
<1> QED BY <1>6, <1>7, <1>8, <1>9, <1>10, <1>11 DEF PInv

LEMMA AddRefusedKeeps ==
  ASSUME PInv, NEW c \in Clients, AddRefused(c)
  PROVE  PInv'
<1>1. /\ Goes(c, "idle") /\ ~At(c, "idle") /\ ~At(c, "old")
      /\ holder' = (IF holder = c THEN None ELSE holder)
  BY ConstAssumption DEF PInv, Ordered, Critical, At, Leaves, Locked, AddRefused
<1>2. /\ UNCHANGED <<reg, yaml, there, used, served, alive, inUse, commands, moves>>
      /\ causes' = causes /\ causes \subseteq Causes
  BY DEF PInv, TypeOK, files, daemon, counts, Leaves, AddRefused
<1> QED BY <1>1, <1>2, BacksOut

LEMMA MintsKeeps ==
  ASSUME PInv, NEW c \in Clients, Mints(c)
  PROVE  PInv'
<1> DEFINE r == cmd[c].root
           id == used + 1
<1>1. /\ r \in Roots /\ cmd[c].at = "locked" /\ holder = c /\ TypeOK /\ Loads
      /\ \/ cmd[c].op = "new"
         \/ cmd[c].op = "add" /\ yaml[r] = None /\ RootId(r) = None
  BY DEF PInv, TypeOK, CommandStates, Ordered, Critical, Mints, Locked, At, Root
<1>2. /\ UNCHANGED <<reg, holder, served, alive, inUse, commands, moves>>
      /\ used < MaxIds /\ used' = id
      /\ causes' = IF RootId(r) \notin {None, yaml[r]} THEN causes \cup {"fork"} ELSE causes
  BY DEF Mints, daemon, counts
<1>3. id \in Ids /\ id \in Nat /\ reg[id] = None /\ id > used /\ used \in Nat /\ id <= MaxIds
  BY <1>1, <1>2, ConstAssumption DEF TypeOK, PInv, Numbered, Ids
<1>4. /\ yaml' \in [Roots -> Id] /\ there' \subseteq Roots
      /\ yaml'[r] = id /\ \A q \in Roots \ {r} : yaml'[q] = yaml[q]
  BY <1>1, <1>3, WritesYaml DEF Mints, Id
<1>5. /\ cmd' \in [Clients -> CommandStates] /\ cmd'[c].at = "reg" /\ cmd'[c].id = id
      /\ cmd'[c].kept = yaml[r]
      /\ \A d \in Clients \ {c} : cmd'[d] = cmd[d]
      /\ cmd'[c].op = cmd[c].op /\ cmd'[c].root = r
      /\ cmd'[c].prevId = cmd[c].prevId /\ cmd'[c].prevRoot = cmd[c].prevRoot
      /\ cmd'[c].prevYaml = cmd[c].prevYaml /\ cmd'[c].alone = cmd[c].alone
  <2> DEFINE k == cmd[c]
             new == [k EXCEPT !.at = "reg", !.id = id, !.kept = yaml[r]]
  <2>1. k \in CommandStates /\ cmd' = [cmd EXCEPT ![c] = new] /\ cmd \in [Clients -> CommandStates]
    BY <1>1 DEF Mints, TypeOK
  <2>2. id \in Id /\ yaml[r] \in Id
    BY <1>1, <1>3 DEF TypeOK, Id
  <2> HIDE DEF id
  <2>3. /\ new \in CommandStates /\ new.at = "reg" /\ new.id = id /\ new.kept = yaml[r]
        /\ new.prevId = k.prevId /\ new.prevRoot = k.prevRoot /\ new.op = k.op
        /\ new.root = k.root /\ new.prevYaml = k.prevYaml /\ new.alone = k.alone
    BY <2>1, <2>2 DEF CommandStates, Places, Critical
  <2> HIDE DEF new
  <2> QED BY <2>1, <2>3
<1>6. causes' = {} => causes = {} /\ Registered(r) \subseteq {yaml[r]}
  <2>1. \A i, j \in Ids : reg[i] # None /\ reg[i] = reg[j] => i = j
    BY <1>1, OneWhenLoads
  <2>2. Registered(r) = {} \/ (RootId(r) \in Ids /\ Registered(r) = {RootId(r)})
    BY <1>1, <2>1, RegistrationsOf
  <2>3. causes' = {} => causes = {} /\ RootId(r) \in {None, yaml[r]}
    BY <1>2
  <2>4. RootId(r) \in Ids => RootId(r) # None
    BY IdsAre
  <2> QED BY <2>2, <2>3, <2>4
<1> HIDE DEF r, id
<1>7. TypeOK'
  BY <1>1, <1>2, <1>3, <1>4, <1>5 DEF Causes, TypeOK
<1>8. Ordered'
  BY <1>1, <1>2, <1>5 DEF PInv, Ordered, Critical, r
<1>9. Numbered'
  <2>1. Numbered /\ (yaml[r] # None => yaml[r] <= used)
    BY <1>1 DEF PInv, Numbered
  <2>2. \A x \in Ids : x <= used => x <= used'
    BY <1>2, <1>3, IdsAre DEF id
  <2>3. \A i \in Ids : reg'[i] # None => i <= used'
    BY <1>2, <2>1, <2>2 DEF Numbered
  <2>4. \A q \in Roots : yaml'[q] # None => yaml'[q] <= used'
    <3>1. \A q \in Roots \ {r} : yaml'[q] # None => yaml'[q] <= used'
      BY <1>1, <1>4, <2>1, <2>2 DEF Numbered, TypeOK, Id
    <3>2. yaml'[r] <= used'
      BY <1>2, <1>3, <1>4
    <3> QED BY <3>1, <3>2
  <2>5. \A d \in Clients : cmd[d].kept \in Id /\ cmd[d].prevId \in Id /\ cmd[d].prevYaml \in Id
    BY <1>1 DEF TypeOK, CommandStates
  <2>6. \A d \in Clients : \A i \in {cmd'[d].kept, cmd'[d].prevId, cmd'[d].prevYaml} :
          i # None => i <= used'
    BY <1>1, <1>2, <1>5, <2>1, <2>2, <2>5 DEF Numbered, Id, TypeOK
  <2>7. \A d \in Clients : cmd'[d].at = "reg" => d = c
    BY <1>1, <1>5 DEF PInv, Ordered, Critical
  <2> QED BY <1>2, <1>3, <1>5, <2>3, <2>4, <2>6, <2>7 DEF Numbered
<1>10. OthersIdle'
  BY <1>1, <1>2, <1>5, StaysAlone DEF At
<1>11. causes' = {} => OneEach'
  BY <1>1, <1>2, <1>6 DEF PInv, OneEach, At
<1>12. causes' = {} => \A d \in Clients : Undoable(d)'
  BY <1>1, <1>2, <1>5, <1>6, OthersStand DEF At, Undoable, Registered
<1> QED BY <1>7, <1>8, <1>9, <1>10, <1>11, <1>12 DEF PInv

LEMMA RegistersKeeps ==
  ASSUME PInv, NEW c \in Clients, Registers(c)
  PROVE  PInv'
<1> DEFINE r == cmd[c].root
           id == cmd[c].id
<1>1. /\ r \in Roots /\ cmd[c].at = "reg" /\ holder = c /\ TypeOK /\ c # None /\ r # None
      /\ id \in Ids /\ reg[id] = None /\ id = used /\ (cmd[c].op = "new" \/ cmd[c].kept = None)
  BY ConstAssumption
     DEF PInv, TypeOK, CommandStates, Ordered, Critical, Numbered, Registers, At, Root, Id
<1>2. /\ UNCHANGED <<yaml, there, used, served, alive, inUse, commands, moves, causes>>
      /\ reg' = [reg EXCEPT ![id] = r]
      /\ \/ OldRegistration(c) /\ Goes(c, "old") /\ holder' = holder
         \/ ~OldRegistration(c) /\ Goes(c, "reload") /\ holder' = None
  BY DEF Registers, Leaves, daemon, counts
<1>3. reg' \in [Ids -> Root] /\ reg'[id] = r /\ \A i \in Ids \ {id} : reg'[i] = reg[i]
  BY <1>1, <1>2 DEF TypeOK, Root
<1>4. /\ cmd' \in [Clients -> CommandStates]
      /\ cmd'[c].at = (IF OldRegistration(c) THEN "old" ELSE "reload")
      /\ \A d \in Clients \ {c} : cmd'[d] = cmd[d]
      /\ cmd'[c].op = cmd[c].op /\ cmd'[c].root = cmd[c].root /\ cmd'[c].kept = cmd[c].kept
      /\ cmd'[c].prevId = cmd[c].prevId /\ cmd'[c].prevRoot = cmd[c].prevRoot
      /\ cmd'[c].prevYaml = cmd[c].prevYaml /\ cmd'[c].alone = cmd[c].alone
  <2>1. CASE OldRegistration(c)
    BY <1>1, <1>2, <2>1, GoesOn DEF Places, Critical
  <2>2. CASE ~OldRegistration(c)
    BY <1>1, <1>2, <2>2, GoesOn DEF Places
  <2> QED BY <2>1, <2>2
<1>5. TypeOK'
  BY <1>1, <1>2, <1>3, <1>4 DEF TypeOK
<1>6. Ordered'
  BY <1>1, <1>2, <1>4, ConstAssumption DEF PInv, Ordered, Critical, OldRegistration
<1>7. Numbered'
  <2>1. \A d \in Clients : cmd'[d].at # "reg"
    BY <1>1, <1>4 DEF PInv, Ordered, Critical
  <2>2. Numbered
    BY DEF PInv
  <2>3. \A i \in Ids : reg'[i] # None => i <= used'
    <3>1. id <= used
      BY <1>1 DEF TypeOK
    <3>2. \A i \in Ids \ {id} : reg'[i] # None => i <= used'
      BY <1>2, <1>3, <2>2 DEF Numbered
    <3> QED BY <1>2, <3>1, <3>2
  <2>4. \A d \in Clients : \A i \in {cmd'[d].kept, cmd'[d].prevId, cmd'[d].prevYaml} :
          i # None => i <= used'
    BY <1>2, <1>4, <2>2 DEF Numbered
  <2> QED BY <1>2, <2>1, <2>2, <2>3, <2>4 DEF Numbered
<1>8. OthersIdle'
  BY <1>1, <1>2, <1>4, StaysAlone DEF At
<1>9. ASSUME causes' = {} PROVE OneEach'
  <2>1. /\ \A i, j \in Ids : reg[i] # None /\ reg[i] = reg[j] => i = j
        /\ \A i \in Ids : reg[i] = r => i = cmd[c].kept
    BY <1>1, <1>2, <1>9, OneApart DEF PInv, At, Undoable, Registered
  <2>2. SUFFICES ASSUME NEW i \in Ids, NEW j \in Ids, reg'[i] # None, reg'[i] = reg'[j], i # j
                 PROVE  holder' # None /\ At(holder, "old")' /\ (cmd[holder].kept)' \in {i, j}
    BY DEF OneEach
  <2>3. PICK old \in {i, j} : old = cmd[c].kept /\ old # id /\ reg[old] = r
    BY <1>1, <1>3, <2>1, <2>2
  <2>4. OldRegistration(c)
    BY <1>1, <2>3, IdsAre DEF OldRegistration, RootOf
  <2> QED BY <1>1, <1>2, <1>4, <2>3, <2>4 DEF At
<1>10. causes' = {} => \A d \in Clients : Undoable(d)'
  <2>1. causes' = {} => Undoable(c)'
    BY <1>1, <1>4 DEF Undoable, PInv, Ordered
  <2> QED BY <1>1, <1>2, <1>4, <2>1, OthersStand DEF At
<1> QED BY <1>5, <1>6, <1>7, <1>8, <1>9, <1>10 DEF PInv

LEMMA RegisterFailsKeeps ==
  ASSUME PInv, NEW c \in Clients, RegisterFails(c)
  PROVE  PInv'
<1> USE ConstAssumption, IdsAre DEF PInv, daemon, counts, At, Goes, Leaves, RegisterFails
<1>1. TypeOK'
  <2>1. cmd' \in [Clients -> CommandStates]
    BY DEF TypeOK, CommandStates, Places, Critical, Idle, Id, Root
  <2>2. reg' \in [Ids -> Root]
    BY DEF TypeOK, CommandStates, Ordered, Id, Root
  <2>3. yaml' \in [Roots -> Id] /\ there' \subseteq Roots
    BY DEF TypeOK, CommandStates, Ordered, Id, Root, WriteYaml
  <2>4. served' \in [Ids -> Root] /\ used' \in Nat /\ used' <= MaxIds
    BY DEF TypeOK, Loadable, Root
  <2> QED BY <2>1, <2>2, <2>3, <2>4 DEF TypeOK
<1>2. Ordered'
  BY DEF TypeOK, CommandStates, Ordered, Critical, Idle
<1>3. Numbered'
  BY DEF TypeOK, CommandStates, Ordered, Critical, Numbered, Idle, WriteYaml
<1>4. OthersIdle'
  BY DEF TypeOK, CommandStates, OthersIdle, Alone, Idle
<1>5. causes' = {} => OneEach'
  BY DEF TypeOK, CommandStates, Ordered, Critical, OneEach, Idle
<1>6. causes' = {} => \A d \in Clients : Undoable(d)'
  BY DEF TypeOK, CommandStates, Ordered, Critical, OthersIdle, Undoable, Registered, Alone, Idle
<1> QED BY <1>1, <1>2, <1>3, <1>4, <1>5, <1>6

LEMMA DropsOldKeeps ==
  ASSUME PInv, NEW c \in Clients, DropsOld(c)
  PROVE  PInv'
<1> DEFINE kept == cmd[c].kept
<1>1. /\ cmd[c].at = "old" /\ holder = c /\ TypeOK /\ c # None
      /\ cmd[c].op \in {"add", "new"} /\ kept \in Id
  BY ConstAssumption DEF PInv, TypeOK, CommandStates, Ordered, Critical, DropsOld, At
<1>2. /\ UNCHANGED <<yaml, there, used, served, alive, inUse, commands, moves, causes>>
      /\ reg' = [reg EXCEPT ![kept] = None] /\ holder' = None /\ Goes(c, "reload")
  BY DEF DropsOld, Leaves, daemon, counts
<1>3. /\ reg' \in [Ids -> Root] /\ (kept \in Ids => reg'[kept] = None)
      /\ \A i \in Ids \ {kept} : reg'[i] = reg[i]
  BY <1>1, <1>2 DEF TypeOK, Root
<1> HIDE DEF kept
<1>4. /\ cmd' \in [Clients -> CommandStates] /\ cmd'[c].at = "reload"
      /\ \A d \in Clients \ {c} : cmd'[d] = cmd[d]
      /\ cmd'[c].op = cmd[c].op /\ cmd'[c].root = cmd[c].root /\ cmd'[c].kept = cmd[c].kept
      /\ cmd'[c].prevId = cmd[c].prevId /\ cmd'[c].prevRoot = cmd[c].prevRoot
      /\ cmd'[c].prevYaml = cmd[c].prevYaml /\ cmd'[c].alone = cmd[c].alone
  BY <1>1, <1>2, GoesOn DEF Places
<1>5. TypeOK'
  BY <1>1, <1>2, <1>3, <1>4 DEF TypeOK, Root
<1>6. Ordered'
  BY <1>1, <1>2, <1>4, ConstAssumption DEF PInv, Ordered, Critical
<1>7. Numbered'
  <2>1. \A i \in Ids : reg'[i] # None => reg'[i] = reg[i]
    BY <1>3
  <2>2. \A d \in Clients : cmd'[d].at # "reg"
    BY <1>1, <1>4 DEF PInv, Ordered, Critical
  <2> QED BY <1>2, <1>4, <2>1, <2>2 DEF PInv, Numbered
<1>8. OthersIdle'
  BY <1>1, <1>2, <1>4, StaysAlone DEF At
<1>9. causes' = {} => OneEach'
  <2>1. \A i, j \in Ids :
          causes = {} /\ reg[i] # None /\ reg[i] = reg[j] /\ i # j => kept \in {i, j}
    BY <1>1 DEF PInv, OneEach, kept
  <2> QED BY <1>2, <1>3, <2>1 DEF OneEach
<1>10. causes' = {} => \A d \in Clients : Undoable(d)'
  <2>1. Undoable(c)'
    BY <1>1, <1>4 DEF Undoable
  <2> QED BY <1>1, <1>2, <1>4, <2>1, OthersStand DEF At
<1> QED BY <1>5, <1>6, <1>7, <1>8, <1>9, <1>10 DEF PInv

LEMMA DropFailsKeeps ==
  ASSUME PInv, NEW c \in Clients, DropFails(c)
  PROVE  PInv'
<1> USE ConstAssumption, IdsAre DEF PInv, files, daemon, counts, At, Goes, Leaves, DropFails
<1>1. TypeOK'
  BY DEF Causes, TypeOK, CommandStates, Places, Critical, Idle, Id, Root
<1>2. Ordered'
  BY DEF TypeOK, CommandStates, Ordered, Critical, Idle
<1>3. Numbered'
  BY DEF TypeOK, CommandStates, Ordered, Critical, Numbered, Idle
<1>4. OthersIdle'
  BY DEF TypeOK, CommandStates, OthersIdle, Alone, Idle
<1>5. causes' = {} => OneEach'
  BY DEF TypeOK, CommandStates, Ordered, Critical, OneEach, Idle
<1>6. causes' = {} => \A d \in Clients : Undoable(d)'
  BY DEF TypeOK, CommandStates, Ordered, Critical, OthersIdle, Undoable, Registered, Alone, Idle
<1> QED BY <1>1, <1>2, <1>3, <1>4, <1>5, <1>6

LEMMA RemovesNothingKeeps ==
  ASSUME PInv, NEW c \in Clients, RemovesNothing(c)
  PROVE  PInv'
<1> USE ConstAssumption, IdsAre DEF PInv, files, daemon, counts, At, Goes, Leaves, Locked,
      RemovesNothing
<1>1. TypeOK'
  BY DEF TypeOK, CommandStates, Places, Critical, Idle, Id, Root
<1>2. Ordered'
  BY DEF TypeOK, CommandStates, Ordered, Critical, Idle
<1>3. Numbered'
  BY DEF TypeOK, CommandStates, Ordered, Critical, Numbered, Idle
<1>4. OthersIdle'
  BY DEF TypeOK, CommandStates, OthersIdle, Alone, Idle
<1>5. causes' = {} => OneEach'
  BY DEF TypeOK, CommandStates, Ordered, Critical, OneEach, Idle
<1>6. causes' = {} => \A d \in Clients : Undoable(d)'
  BY DEF TypeOK, CommandStates, Ordered, Critical, OthersIdle, Undoable, Registered, Alone, Idle
<1> QED BY <1>1, <1>2, <1>3, <1>4, <1>5, <1>6

LEMMA UnregistersKeeps ==
  ASSUME PInv, NEW c \in Clients, Unregisters(c)
  PROVE  PInv'
<1> USE ConstAssumption, IdsAre DEF PInv, daemon, counts, At, Goes, Locked, Unregisters
<1>1. TypeOK'
  <2>1. cmd' \in [Clients -> CommandStates]
    BY DEF TypeOK, CommandStates, Places, Critical, Idle, Id, Root
  <2>2. reg' \in [Ids -> Root]
    BY DEF TypeOK, CommandStates, Ordered, Id, Root
  <2>3. yaml' \in [Roots -> Id] /\ there' \subseteq Roots
    BY DEF TypeOK, CommandStates, Ordered, Id, Root
  <2>4. served' \in [Ids -> Root] /\ used' \in Nat /\ used' <= MaxIds
    BY DEF TypeOK, Loadable, Root
  <2> QED BY <2>1, <2>2, <2>3, <2>4 DEF TypeOK
<1>2. Ordered'
  BY DEF TypeOK, CommandStates, Ordered, Critical, Idle
<1>3. Numbered'
  BY DEF TypeOK, CommandStates, Ordered, Critical, Numbered, Idle
<1>4. OthersIdle'
  BY DEF TypeOK, CommandStates, OthersIdle, Alone, Idle
<1>5. causes' = {} => OneEach'
  BY DEF TypeOK, CommandStates, Ordered, Critical, OneEach, Idle
<1>6. causes' = {} => \A d \in Clients : Undoable(d)'
  BY DEF TypeOK, CommandStates, Ordered, Critical, OthersIdle, Undoable, Registered, Alone, Idle
<1> QED BY <1>1, <1>2, <1>3, <1>4, <1>5, <1>6

LEMMA RemovesYamlKeeps ==
  ASSUME PInv, NEW c \in Clients, RemovesYaml(c)
  PROVE  PInv'
<1> DEFINE r == cmd[c].root
           next == IF cmd[c].prevId = None THEN "idle" ELSE "reload"
<1>1. /\ r \in Roots /\ cmd[c].at = "unyaml" /\ holder = c /\ TypeOK /\ c # None
      /\ cmd[c].op = "remove"
  BY ConstAssumption DEF PInv, TypeOK, CommandStates, Ordered, Critical, RemovesYaml, At, Root
<1>2. /\ UNCHANGED <<reg, used, served, alive, inUse, commands, moves, causes>>
      /\ holder' = None /\ Goes(c, next)
  BY DEF RemovesYaml, Leaves, daemon, counts
<1>3. /\ yaml' \in [Roots -> Id] /\ there' \subseteq Roots
      /\ \A q \in Roots : yaml'[q] \in {None, yaml[q]}
  BY <1>1, WritesYaml DEF RemovesYaml, Id
<1>4. next \in {"idle", "reload"} /\ next \in Places
  BY DEF Places
<1> HIDE DEF next
<1>5. /\ cmd' \in [Clients -> CommandStates] /\ cmd'[c].at = next
      /\ \A d \in Clients \ {c} : cmd'[d] = cmd[d]
      /\ next = "idle" => cmd'[c] = Idle
      /\ next # "idle" =>
           /\ cmd'[c].op = cmd[c].op /\ cmd'[c].root = r /\ cmd'[c].kept = cmd[c].kept
           /\ cmd'[c].prevId = cmd[c].prevId /\ cmd'[c].prevRoot = cmd[c].prevRoot
           /\ cmd'[c].prevYaml = cmd[c].prevYaml /\ cmd'[c].alone = cmd[c].alone
  BY <1>1, <1>2, <1>4, GoesOn
<1>6. TypeOK'
  BY <1>1, <1>2, <1>3, <1>5 DEF TypeOK
<1>7. Ordered'
  BY <1>1, <1>2, <1>4, <1>5, ConstAssumption DEF PInv, Ordered, Critical, Idle
<1>8. Numbered'
  BY <1>1, <1>2, <1>3, <1>4, <1>5 DEF PInv, Numbered, Idle
<1>9. OthersIdle'
  BY <1>1, <1>2, <1>5, StaysAlone DEF At, Idle
<1>10. causes' = {} => OneEach'
  BY <1>1, <1>2 DEF PInv, OneEach, At
<1>11. causes' = {} => \A d \in Clients : Undoable(d)'
  <2>1. Undoable(c)'
    BY <1>1, <1>4, <1>5 DEF Undoable, Idle
  <2> QED BY <1>1, <1>2, <1>5, <2>1, OthersStand DEF At
<1> QED BY <1>6, <1>7, <1>8, <1>9, <1>10, <1>11 DEF PInv

LEMMA RelocateRefusedKeeps ==
  ASSUME PInv, NEW c \in Clients, RelocateRefused(c)
  PROVE  PInv'
<1>1. /\ Goes(c, "idle") /\ ~At(c, "idle") /\ ~At(c, "old")
      /\ holder' = (IF holder = c THEN None ELSE holder)
  BY ConstAssumption DEF PInv, Ordered, Critical, At, Leaves, Locked, RelocateRefused
<1>2. /\ UNCHANGED <<reg, yaml, there, used, served, alive, inUse, commands, moves>>
      /\ causes' = causes /\ causes \subseteq Causes
  BY DEF PInv, TypeOK, files, daemon, counts, Leaves, RelocateRefused
<1> QED BY <1>1, <1>2, BacksOut

LEMMA RelocateSameKeeps ==
  ASSUME PInv, NEW c \in Clients, RelocateSame(c)
  PROVE  PInv'
<1> USE ConstAssumption, IdsAre DEF PInv, files, daemon, counts, At, Goes, Leaves, Locked,
      RelocateSame
<1>1. TypeOK'
  BY DEF TypeOK, CommandStates, Places, Critical, Idle, Id, Root
<1>2. Ordered'
  BY DEF TypeOK, CommandStates, Ordered, Critical, Idle
<1>3. Numbered'
  BY DEF TypeOK, CommandStates, Ordered, Critical, Numbered, Idle
<1>4. OthersIdle'
  BY DEF TypeOK, CommandStates, OthersIdle, Alone, Idle
<1>5. causes' = {} => OneEach'
  BY DEF TypeOK, CommandStates, Ordered, Critical, OneEach, Idle
<1>6. causes' = {} => \A d \in Clients : Undoable(d)'
  BY DEF TypeOK, CommandStates, Ordered, Critical, OthersIdle, Undoable, Registered, Alone, Idle
<1> QED BY <1>1, <1>2, <1>3, <1>4, <1>5, <1>6

LEMMA RelocatesKeeps ==
  ASSUME PInv, NEW c \in Clients, Relocates(c)
  PROVE  PInv'
<1> DEFINE r == cmd[c].root
           id == yaml[r]
<1>1. /\ r \in Roots /\ cmd[c].at = "locked" /\ holder = c /\ TypeOK /\ Loads
      /\ cmd[c].op = "relocate" /\ r # None /\ c # None
  BY ConstAssumption
     DEF PInv, TypeOK, CommandStates, Ordered, Critical, Relocates, Locked, At, Root
<1>2. /\ UNCHANGED <<yaml, there, used, served, alive, inUse, commands, moves>>
      /\ reg' = [reg EXCEPT ![id] = r] /\ holder' = None /\ Goes(c, "reload")
      /\ RootOf(id) \notin {None, r}
      /\ causes' = IF RootId(r) # None THEN causes \cup {"relocate"} ELSE causes
  BY DEF Relocates, Movable, Leaves, daemon, counts
<1>3. id \in Ids /\ id <= used /\ reg[id] # None
  BY <1>1, <1>2, ConstAssumption DEF TypeOK, Id, RootOf, PInv, Numbered
<1>4. causes' = {} => causes = {} /\ Registered(r) = {}
  BY <1>1, <1>2, RootIdIs, IdsAre
<1> HIDE DEF r, id
<1>5. /\ cmd' \in [Clients -> CommandStates] /\ cmd'[c].at = "reload"
      /\ \A d \in Clients \ {c} : cmd'[d] = cmd[d]
      /\ cmd'[c].op = cmd[c].op /\ cmd'[c].root = cmd[c].root /\ cmd'[c].kept = cmd[c].kept
      /\ cmd'[c].prevId = cmd[c].prevId /\ cmd'[c].prevRoot = cmd[c].prevRoot
      /\ cmd'[c].prevYaml = cmd[c].prevYaml /\ cmd'[c].alone = cmd[c].alone
  BY <1>1, <1>2, GoesOn DEF Places
<1>6. reg' \in [Ids -> Root] /\ reg'[id] = r /\ \A i \in Ids \ {id} : reg'[i] = reg[i]
  BY <1>1, <1>2, <1>3 DEF TypeOK, Root
<1>7. TypeOK'
  BY <1>1, <1>2, <1>5, <1>6 DEF Causes, TypeOK
<1>8. Ordered'
  BY <1>1, <1>2, <1>5, ConstAssumption DEF PInv, Ordered, Critical
<1>9. Numbered'
  <2>1. \A d \in Clients : cmd'[d].at # "reg"
    BY <1>1, <1>5 DEF PInv, Ordered, Critical
  <2>2. \A i \in Ids : reg'[i] # None => reg[i] # None
    BY <1>3, <1>6
  <2> QED BY <1>2, <1>5, <2>1, <2>2 DEF PInv, Numbered
<1>10. OthersIdle'
  BY <1>1, <1>2, <1>5, StaysAlone DEF At
<1>11. causes' = {} => OneEach'
  BY <1>1, <1>3, <1>4, <1>6 DEF PInv, OneEach, At, Registered
<1>12. ASSUME causes' = {} PROVE \A d \in Clients : Undoable(d)'
  <2>1. Undoable(c)'
    <3>1. Undoable(c) /\ Alone(c)' = Alone(c)
      BY <1>1, <1>2, <1>4, <1>5, <1>12 DEF PInv, Alone
    <3>2. Alone(c) /\ cmd[c].prevId # None =>
            Registered(cmd[c].prevRoot) = {cmd[c].prevId} /\ cmd[c].prevRoot # r
      BY <1>1, <1>4, <1>12, <3>1 DEF Undoable
    <3> QED BY <1>5, <1>6, <3>1, <3>2 DEF Undoable, Registered
  <2> QED BY <1>1, <1>2, <1>4, <1>5, <1>12, <2>1, OthersStand DEF At
<1> QED BY <1>7, <1>8, <1>9, <1>10, <1>11, <1>12 DEF PInv

LEMMA ReloadSkipsKeeps ==
  ASSUME PInv, NEW c \in Clients, ReloadSkips(c)
  PROVE  PInv'
<1>1. /\ Goes(c, "idle") /\ ~At(c, "idle") /\ ~At(c, "old")
      /\ holder' = (IF holder = c THEN None ELSE holder)
  BY ConstAssumption DEF PInv, Ordered, Critical, At, ReloadSkips
<1>2. /\ UNCHANGED <<reg, yaml, there, used, served, alive, inUse, commands, moves>>
      /\ causes' = causes /\ causes \subseteq Causes
  BY DEF PInv, TypeOK, files, daemon, counts, ReloadSkips
<1> QED BY <1>1, <1>2, BacksOut

LEMMA ReloadAppliesKeeps ==
  ASSUME PInv, NEW c \in Clients, ReloadApplies(c)
  PROVE  PInv'
<1> USE ConstAssumption, IdsAre DEF PInv, files, counts, At, Goes, ReloadApplies
<1>1. TypeOK'
  <2>1. cmd' \in [Clients -> CommandStates]
    BY DEF TypeOK, CommandStates, Places, Critical, Idle, Id, Root
  <2>2. reg' \in [Ids -> Root]
    BY DEF TypeOK, CommandStates, Ordered, Id, Root
  <2>3. yaml' \in [Roots -> Id] /\ there' \subseteq Roots
    BY DEF TypeOK, CommandStates, Ordered, Id, Root
  <2>4. served' \in [Ids -> Root] /\ used' \in Nat /\ used' <= MaxIds
    BY DEF TypeOK, Loadable, Root
  <2> QED BY <2>1, <2>2, <2>3, <2>4 DEF TypeOK
<1>2. Ordered'
  BY DEF TypeOK, CommandStates, Ordered, Critical, Idle
<1>3. Numbered'
  BY DEF TypeOK, CommandStates, Ordered, Critical, Numbered, Idle
<1>4. OthersIdle'
  BY DEF TypeOK, CommandStates, OthersIdle, Alone, Idle
<1>5. causes' = {} => OneEach'
  BY DEF TypeOK, CommandStates, Ordered, Critical, OneEach, Idle
<1>6. causes' = {} => \A d \in Clients : Undoable(d)'
  BY DEF TypeOK, CommandStates, Ordered, Critical, OthersIdle, Undoable, Registered, Alone, Idle
<1> QED BY <1>1, <1>2, <1>3, <1>4, <1>5, <1>6

LEMMA ReloadRefusedKeeps ==
  ASSUME PInv, NEW c \in Clients, ReloadRefused(c)
  PROVE  PInv'
<1> USE ConstAssumption, IdsAre DEF PInv, files, daemon, counts, At, Goes, ReloadRefused
<1>1. TypeOK'
  BY DEF TypeOK, CommandStates, Places, Critical, Idle, Id, Root
<1>2. Ordered'
  BY DEF TypeOK, CommandStates, Ordered, Critical, Idle
<1>3. Numbered'
  BY DEF TypeOK, CommandStates, Ordered, Critical, Numbered, Idle
<1>4. OthersIdle'
  BY DEF TypeOK, CommandStates, OthersIdle, Alone, Idle
<1>5. causes' = {} => OneEach'
  BY DEF TypeOK, CommandStates, Ordered, Critical, OneEach, Idle
<1>6. causes' = {} => \A d \in Clients : Undoable(d)'
  BY DEF TypeOK, CommandStates, Ordered, Critical, OthersIdle, Undoable, Registered, Alone, Idle
<1> QED BY <1>1, <1>2, <1>3, <1>4, <1>5, <1>6

LEMMA FindsStaleKeeps ==
  ASSUME PInv, NEW c \in Clients, FindsStale(c)
  PROVE  PInv'
<1> DEFINE r == cmd[c].root
           id == RootId(r)
           next == IF Stale(c, id) THEN "stale" ELSE "restore"
<1>1. r \in Roots /\ cmd[c].at = "rollback" /\ TypeOK /\ holder # c /\ cmd[c].op # "relocate"
  BY DEF PInv, TypeOK, CommandStates, Ordered, Critical, FindsStale, At, Root
<1>2. /\ UNCHANGED <<reg, yaml, there, used, holder, served, alive, inUse, commands, moves>>
      /\ causes' = IF cmd[c].alone = commands THEN causes ELSE causes \cup {"race"}
  BY DEF FindsStale, Races, files, daemon, counts
<1>3. CASE Goes(c, "idle")
  <2>1. causes \subseteq causes' /\ causes' \subseteq Causes
    BY <1>1, <1>2 DEF TypeOK, Causes
  <2> QED BY <1>1, <1>2, <1>3, <2>1, BacksOut DEF At
<1>4. CASE Loads /\ cmd' = [cmd EXCEPT ![c] = [@ EXCEPT !.id = id, !.at = next]]
  <2>1. id \in Id /\ Registered(r) \subseteq {id}
    <3>1. \A i, j \in Ids : reg[i] # None /\ reg[i] = reg[j] => i = j
      BY <1>1, <1>4, OneWhenLoads
    <3> QED BY <1>1, <3>1, RegistrationsOf DEF Id
  <2>2. cmd' = [cmd EXCEPT ![c] = [@ EXCEPT !.id = id, !.at = next]]
    BY <1>4
  <2>3. (next = "stale" /\ Stale(c, id)) \/ (next = "restore" /\ ~Stale(c, id))
    <3>1. CASE Stale(c, id)
      BY <3>1
    <3>2. CASE ~Stale(c, id)
      BY <3>2
    <3> QED BY <3>1, <3>2
  <2> HIDE DEF r, id, next
  <2>4. /\ cmd' \in [Clients -> CommandStates] /\ cmd'[c].at = next /\ cmd'[c].id = id
        /\ \A d \in Clients \ {c} : cmd'[d] = cmd[d]
        /\ cmd'[c].op = cmd[c].op /\ cmd'[c].root = cmd[c].root /\ cmd'[c].kept = cmd[c].kept
        /\ cmd'[c].prevId = cmd[c].prevId /\ cmd'[c].prevRoot = cmd[c].prevRoot
        /\ cmd'[c].prevYaml = cmd[c].prevYaml /\ cmd'[c].alone = cmd[c].alone
    <3> DEFINE k == cmd[c]
               new == [k EXCEPT !.id = id, !.at = next]
    <3>1. /\ k \in CommandStates /\ cmd' = [cmd EXCEPT ![c] = new]
          /\ cmd \in [Clients -> CommandStates]
      BY <1>1, <2>2 DEF TypeOK
    <3>2. /\ new \in CommandStates /\ new.at = next /\ new.id = id /\ new.kept = k.kept
          /\ new.prevId = k.prevId /\ new.prevRoot = k.prevRoot /\ new.op = k.op
          /\ new.root = k.root /\ new.prevYaml = k.prevYaml /\ new.alone = k.alone
      BY <2>1, <2>3, <3>1 DEF CommandStates, Places
    <3> HIDE DEF new
    <3> QED BY <3>1, <3>2
  <2>5. TypeOK'
    BY <1>1, <1>2, <2>4 DEF Causes, TypeOK
  <2>6. Ordered'
    BY <1>1, <1>2, <2>3, <2>4 DEF PInv, Ordered, Critical
  <2>7. Numbered'
    BY <1>1, <1>2, <2>3, <2>4 DEF PInv, Numbered
  <2>8. OthersIdle'
    BY <1>1, <1>2, <2>4, StaysAlone DEF At
  <2>9. causes' = {} => OneEach'
    BY <1>1, <1>2, <1>4, OneWhenLoads DEF OneEach
  <2>10. Undoable(c)'
    <3>1. Registered(r)' \subseteq {id} /\ cmd'[c].root = r /\ None \notin Registered(r)'
      BY <1>2, <2>1, <2>4, IdsAre DEF Registered, r
    <3>2. Stale(c, id) => id \in Ids
      BY <2>1 DEF Stale, Id
    <3>3. ~Stale(c, id) => Registered(r)' \subseteq {cmd'[c].prevId}
      BY <2>4, <3>1 DEF Stale
    <3>4. cmd'[c].at \in {"stale", "restore"} /\ cmd'[c].op # "relocate"
      BY <1>1, <2>3, <2>4
    <3>5. CASE next = "stale"
      <4>1. id \in Ids /\ cmd'[c].id = id /\ cmd'[c].at = "stale"
        BY <2>3, <2>4, <3>2, <3>5
      <4> QED BY <3>1, <3>4, <4>1 DEF Undoable, Registered, r
    <3>6. CASE next = "restore"
      <4>1. Registered(r)' \subseteq {cmd'[c].prevId} /\ cmd'[c].at = "restore"
        BY <2>3, <2>4, <3>3, <3>6
      <4> QED BY <3>1, <3>4, <4>1 DEF Undoable, Registered, r
    <3> QED BY <2>3, <3>5, <3>6
  <2>11. causes' = {} => \A d \in Clients : Undoable(d)'
    BY <1>1, <1>2, <2>4, <2>10, OthersStand DEF At
  <2> QED BY <2>5, <2>6, <2>7, <2>8, <2>9, <2>11 DEF PInv
<1> QED BY <1>3, <1>4 DEF FindsStale

LEMMA DropsStaleKeeps ==
  ASSUME PInv, NEW c \in Clients, DropsStale(c)
  PROVE  PInv'
<1> USE ConstAssumption, IdsAre DEF PInv, daemon, counts, At, Goes, Races, DropsStale
<1>1. TypeOK'
  <2>1. cmd' \in [Clients -> CommandStates]
    BY DEF TypeOK, CommandStates, Places, Critical, Idle, Id, Root
  <2>2. reg' \in [Ids -> Root]
    BY DEF TypeOK, CommandStates, Ordered, Id, Root
  <2>3. yaml' \in [Roots -> Id] /\ there' \subseteq Roots
    BY DEF TypeOK, CommandStates, Ordered, Id, Root
  <2>4. served' \in [Ids -> Root] /\ used' \in Nat /\ used' <= MaxIds
    BY DEF TypeOK, Loadable, Root
  <2> QED BY <2>1, <2>2, <2>3, <2>4 DEF Causes, TypeOK
<1>2. Ordered'
  BY DEF TypeOK, CommandStates, Ordered, Critical, Idle
<1>3. Numbered'
  BY DEF TypeOK, CommandStates, Ordered, Critical, Numbered, Idle
<1>4. OthersIdle'
  BY DEF TypeOK, CommandStates, OthersIdle, Alone, Idle
<1>5. causes' = {} => OneEach'
  BY DEF TypeOK, CommandStates, Ordered, Critical, OneEach, Idle
<1>6. causes' = {} => \A d \in Clients : Undoable(d)'
  BY DEF TypeOK, CommandStates, Ordered, Critical, OthersIdle, Undoable, Registered, Alone, Idle
<1> QED BY <1>1, <1>2, <1>3, <1>4, <1>5, <1>6

\* A rollback that goes on after a failed step, with nothing written by it.
LEMMA StepFailed ==
  ASSUME PInv, NEW c \in Clients, NEW at \in {"restore-partly", "yaml-partly"}, Goes(c, at),
         cmd[c].at \in {"stale", "restore", "restore-partly"}, cmd[c].op # "relocate",
         UNCHANGED <<reg, yaml, there, used, holder, served, alive, inUse, commands, moves>>,
         causes \subseteq causes', causes' \subseteq Causes,
         causes' = {} /\ at = "restore-partly" => cmd[c].prevId = None
  PROVE  PInv'
<1>1. TypeOK /\ at \in Places /\ holder # c /\ ~At(c, "idle")
  BY DEF PInv, TypeOK, Ordered, Places, Critical, At
<1>2. /\ cmd' \in [Clients -> CommandStates] /\ cmd'[c].at = at
      /\ \A d \in Clients \ {c} : cmd'[d] = cmd[d]
      /\ cmd'[c].op = cmd[c].op /\ cmd'[c].root = cmd[c].root /\ cmd'[c].kept = cmd[c].kept
      /\ cmd'[c].prevId = cmd[c].prevId /\ cmd'[c].prevRoot = cmd[c].prevRoot
      /\ cmd'[c].prevYaml = cmd[c].prevYaml /\ cmd'[c].alone = cmd[c].alone
  BY <1>1, GoesOn
<1>3. TypeOK'
  BY <1>1, <1>2 DEF TypeOK
<1>4. Ordered'
  BY <1>1, <1>2 DEF PInv, Ordered, Critical
<1>5. Numbered'
  BY <1>1, <1>2 DEF PInv, Numbered
<1>6. OthersIdle'
  BY <1>1, <1>2, StaysAlone
<1>7. causes' = {} => OneEach'
  BY <1>1, <1>2, ConstAssumption DEF PInv, OneEach, At, TypeOK, Ordered, Critical
<1>8. causes' = {} => \A d \in Clients : Undoable(d)'
  BY <1>1, <1>2, OthersStand DEF Undoable
<1> QED BY <1>3, <1>4, <1>5, <1>6, <1>7, <1>8 DEF PInv

LEMMA StaleFailsKeeps ==
  ASSUME PInv, NEW c \in Clients, StaleFails(c)
  PROVE  PInv'
<1>1. /\ cmd[c].at = "stale" /\ cmd[c].op # "relocate" /\ Goes(c, "restore-partly")
      /\ UNCHANGED <<reg, yaml, there, used, holder, served, alive, inUse, commands, moves>>
  BY DEF PInv, Ordered, StaleFails, At, files, daemon, counts
<1>2. /\ causes \subseteq causes' /\ causes' \subseteq Causes
      /\ causes' = {} => cmd[c].prevId = None
  BY DEF PInv, TypeOK, Causes, StaleFails
<1> QED BY <1>1, <1>2, StepFailed

LEMMA RestoreFailsKeeps ==
  ASSUME PInv, NEW c \in Clients, RestoreFails(c)
  PROVE  PInv'
<1>1. /\ cmd[c].at \in {"restore", "restore-partly"} /\ causes' = causes
      /\ causes \subseteq Causes /\ holder # c
      /\ UNCHANGED <<reg, yaml, there, used, holder, served, alive, inUse, commands, moves>>
  BY DEF PInv, TypeOK, Ordered, Critical, RestoreFails, Restoring, At, files, daemon, counts
<1>2. CASE cmd[c].op = "relocate"
  <2>1. Goes(c, "idle")
    BY <1>2 DEF RestoreFails
  <2> QED BY <1>1, <2>1, BacksOut DEF At
<1>3. CASE cmd[c].op # "relocate"
  <2>1. Goes(c, "yaml-partly")
    BY <1>3 DEF RestoreFails
  <2> QED BY <1>1, <1>3, <2>1, StepFailed
<1> QED BY <1>2, <1>3

LEMMA YamlFailsKeeps ==
  ASSUME PInv, NEW c \in Clients, YamlFails(c)
  PROVE  PInv'
<1>1. /\ Goes(c, "idle") /\ ~At(c, "idle") /\ ~At(c, "old") /\ holder # c
      /\ causes' = causes /\ causes \subseteq Causes
      /\ UNCHANGED <<reg, yaml, there, used, holder, served, alive, inUse, commands, moves>>
  BY DEF PInv, TypeOK, Ordered, Critical, YamlFails, At, files, daemon, counts
<1> QED BY <1>1, BacksOut

LEMMA RestoresKeeps ==
  ASSUME PInv, NEW c \in Clients, Restores(c)
  PROVE  PInv'
<1> DEFINE k == cmd[c]
           next == IF k.op = "relocate" THEN "idle"
                   ELSE IF k.at = "restore" THEN "yamlback" ELSE "yaml-partly"
<1>1. /\ k.at \in {"restore", "restore-partly"} /\ TypeOK /\ holder # c /\ k.prevId \in Id /\ k.prevRoot \in Root
      /\ (k.op # "relocate" /\ k.prevId # None => k.prevRoot = k.root) /\ k.root \in Roots
      /\ (k.prevId # None => k.prevId <= used)
  BY DEF PInv, TypeOK, CommandStates, Ordered, Numbered, Critical, Restores, Restoring, At, Root
<1>2. /\ UNCHANGED <<yaml, there, used, holder, served, alive, inUse, commands, moves>>
      /\ causes' = IF k.alone = commands THEN causes ELSE causes \cup {"race"}
      /\ Goes(c, next)
      /\ \/ k.prevId = None /\ reg' = reg
         \/ k.prevId # None /\ holder = None /\ reg' = [reg EXCEPT ![k.prevId] = k.prevRoot]
  BY DEF Restores, Restored, Races, At, daemon, counts
<1>3. /\ reg' \in [Ids -> Root]
      /\ \A i \in Ids : reg'[i] = reg[i] \/ (i = k.prevId /\ holder = None /\ reg'[i] = k.prevRoot)
      /\ k.prevId # None => k.prevId \in Ids /\ reg'[k.prevId] = k.prevRoot /\ holder = None
  <2> DEFINE id == k.prevId
             root == k.prevRoot
  <2>1. reg \in [Ids -> Root] /\ root \in Root /\ id \in Ids \cup {None}
    BY <1>1 DEF TypeOK, Id
  <2>2. \/ id = None /\ reg' = reg
        \/ id # None /\ holder = None /\ reg' = [reg EXCEPT ![id] = root]
    BY <1>2
  <2> HIDE DEF id, root
  <2>3. CASE id = None /\ reg' = reg
    BY <2>1, <2>3 DEF id
  <2>4. CASE id # None /\ holder = None /\ reg' = [reg EXCEPT ![id] = root]
    <3>1. id \in Ids
      BY <2>1, <2>4
    <3>2. reg' \in [Ids -> Root] /\ reg'[id] = root /\ \A i \in Ids \ {id} : reg'[i] = reg[i]
      BY <2>1, <2>4, <3>1
    <3> QED BY <2>4, <3>1, <3>2 DEF id, root
  <2> QED BY <2>2, <2>3, <2>4
<1>4. /\ next \in Places /\ (next = "idle" <=> k.op = "relocate")
      /\ next \in {"idle", "yamlback", "yaml-partly"} /\ (next = "yamlback" => k.at = "restore")
  BY DEF Places
<1> HIDE DEF next
<1>5. /\ cmd' \in [Clients -> CommandStates] /\ cmd'[c].at = next
      /\ \A d \in Clients \ {c} : cmd'[d] = cmd[d]
      /\ next = "idle" => cmd'[c] = Idle
      /\ next # "idle" =>
           /\ cmd'[c].op = k.op /\ cmd'[c].root = k.root /\ cmd'[c].kept = k.kept
           /\ cmd'[c].prevId = k.prevId /\ cmd'[c].prevRoot = k.prevRoot
           /\ cmd'[c].prevYaml = k.prevYaml /\ cmd'[c].alone = k.alone
  BY <1>1, <1>2, <1>4, GoesOn
<1>6. TypeOK'
  BY <1>1, <1>2, <1>3, <1>5 DEF Causes, TypeOK
<1>7. Ordered'
  BY <1>1, <1>2, <1>4, <1>5 DEF PInv, Ordered, Critical, Idle
<1>8. Numbered'
  <2>1. \A i \in Ids : reg'[i] # None => i <= used'
    BY <1>1, <1>2, <1>3 DEF PInv, Numbered
  <2>2. \A d \in Clients : cmd'[d].at = "reg" => d # c /\ holder = d /\ d # None
    BY <1>4, <1>5, ConstAssumption DEF PInv, Ordered, Critical
  <2>3. \A d \in Clients : cmd'[d].at = "reg" => reg' = reg /\ cmd'[d] = cmd[d]
    BY <1>2, <1>5, <2>2
  <2>4. \A d \in Clients : \A i \in {cmd'[d].kept, cmd'[d].prevId, cmd'[d].prevYaml} :
          i # None => i <= used'
    BY <1>2, <1>5 DEF PInv, Numbered, Idle
  <2> QED BY <1>2, <2>1, <2>3, <2>4 DEF PInv, Numbered
<1>9. OthersIdle'
  BY <1>1, <1>2, <1>5, StaysAlone DEF At, Idle
<1>10. ASSUME causes' = {} PROVE OneEach' /\ \A d \in Clients : Undoable(d)'
  <2>1. Alone(c) /\ causes = {} /\ Undoable(c)
    BY <1>1, <1>2, <1>10 DEF Alone, PInv
  <2>2. holder = None
    BY <1>1, <2>1, Solitude DEF Critical
  <2>3. \A i, j \in Ids : reg[i] # None /\ reg[i] = reg[j] => i = j
    BY <2>1, <2>2, OneApart
  <2>4. \A i \in Ids : k.prevId # None /\ reg[i] = k.prevRoot => i = k.prevId
    <3>1. k.prevId # None => k.at = "restore"
      BY <1>1, <2>1 DEF Undoable
    <3> QED BY <1>1, <2>1, <3>1 DEF Undoable, Registered
  <2>5. OneEach'
    <3> SUFFICES ASSUME NEW i \in Ids, NEW j \in Ids, reg'[i] # None, reg'[i] = reg'[j], i # j
                 PROVE  FALSE
      BY DEF OneEach
    <3>1. \A x \in Ids : k.prevId # None /\ reg'[x] = k.prevRoot => x = k.prevId
      BY <1>3, <2>4
    <3>2. \A x \in Ids : reg'[x] = reg[x] \/ (x = k.prevId /\ reg'[x] = k.prevRoot)
      BY <1>3
    <3>3. k.prevId \in Ids => k.prevId # None
      BY IdsAre
    <3> QED BY <2>3, <3>1, <3>2, <3>3
  <2>6. Undoable(c)'
    <3>1. next = "yamlback" => {i \in Ids : reg'[i] = k.root} = {k.prevId} \ {None}
      <4>1. next = "yamlback" => Registered(k.root) \subseteq {k.prevId}
        BY <1>1, <1>4, <2>1 DEF Undoable
      <4>2. next = "yamlback" => k.op # "relocate" /\ k.root # None
        BY <1>1, <1>4, ConstAssumption
      <4> HIDE DEF k
      <4>3. CASE k.prevId = None
        BY <1>2, <4>1, <4>3, IdsAre DEF Registered
      <4>4. CASE k.prevId # None
        <5>1. k.prevId \in Ids /\ reg'[k.prevId] = k.prevRoot
          BY <1>3, <4>4
        <5>2. next = "yamlback" => k.prevRoot = k.root
          BY <1>1, <4>2, <4>4
        <5>3. \A i \in Ids \ {k.prevId} : reg'[i] = reg[i]
          BY <1>3
        <5> QED BY <4>1, <4>4, <5>1, <5>2, <5>3 DEF Registered
      <4> QED BY <4>3, <4>4
    <3> QED BY <1>4, <1>5, <3>1 DEF Undoable, Registered, Idle
  <2> QED BY <1>1, <1>2, <1>5, <2>1, <2>2, <2>5, <2>6, OthersStand DEF At
<1> QED BY <1>6, <1>7, <1>8, <1>9, <1>10 DEF PInv

LEMMA RestoresYamlKeeps ==
  ASSUME PInv, NEW c \in Clients, RestoresYaml(c)
  PROVE  PInv'
<1> USE ConstAssumption, IdsAre DEF PInv, daemon, counts, At, Goes, Races, RestoresYaml
<1>1. TypeOK'
  <2>1. cmd' \in [Clients -> CommandStates]
    BY DEF TypeOK, CommandStates, Places, Critical, Idle, Id, Root
  <2>2. reg' \in [Ids -> Root]
    BY DEF TypeOK, CommandStates, Ordered, Id, Root
  <2>3. yaml' \in [Roots -> Id] /\ there' \subseteq Roots
    BY DEF TypeOK, CommandStates, Ordered, Id, Root, WriteYaml
  <2>4. served' \in [Ids -> Root] /\ used' \in Nat /\ used' <= MaxIds
    BY DEF TypeOK, Loadable, Root
  <2> QED BY <2>1, <2>2, <2>3, <2>4 DEF Causes, TypeOK
<1>2. Ordered'
  BY DEF TypeOK, CommandStates, Ordered, Critical, Idle
<1>3. Numbered'
  BY DEF TypeOK, CommandStates, Ordered, Critical, Numbered, Idle, WriteYaml
<1>4. OthersIdle'
  BY DEF TypeOK, CommandStates, OthersIdle, Alone, Idle
<1>5. causes' = {} => OneEach'
  BY DEF TypeOK, CommandStates, Ordered, Critical, OneEach, Idle
<1>6. causes' = {} => \A d \in Clients : Undoable(d)'
  BY DEF TypeOK, CommandStates, Ordered, Critical, OthersIdle, Undoable, Registered, Alone, Idle
<1> QED BY <1>1, <1>2, <1>3, <1>4, <1>5, <1>6

LEMMA CrashKeeps ==
  ASSUME PInv, NEW c \in Clients, Crash(c)
  PROVE  PInv'
<1> USE ConstAssumption, IdsAre DEF PInv, files, daemon, counts, At, Goes, Crash
<1>1. TypeOK'
  BY DEF Causes, TypeOK, CommandStates, Places, Critical, Idle, Id, Root
<1>2. Ordered'
  BY DEF TypeOK, CommandStates, Ordered, Critical, Idle
<1>3. Numbered'
  BY DEF TypeOK, CommandStates, Ordered, Critical, Numbered, Idle
<1>4. OthersIdle'
  BY DEF TypeOK, CommandStates, OthersIdle, Alone, Idle
<1>5. causes' = {} => OneEach'
  BY DEF TypeOK, CommandStates, Ordered, Critical, OneEach, Idle
<1>6. causes' = {} => \A d \in Clients : Undoable(d)'
  BY DEF TypeOK, CommandStates, Ordered, Critical, OthersIdle, Undoable, Registered, Alone, Idle
<1> QED BY <1>1, <1>2, <1>3, <1>4, <1>5, <1>6

---------------------------------------------------------------------------
LEMMA BeginKeeps ==
  ASSUME PInv, NEW c \in Clients, Begin(c)
  PROVE  PInv'
<1>1. TypeOK /\ cmd[c].at = "idle" /\ commands \in Nat
  BY DEF PInv, TypeOK, Begin, At
<1>2. UNCHANGED <<reg, yaml, there, used, holder, served, alive, inUse, moves, causes>>
  BY DEF Begin, files, daemon
<1>3. commands' = commands + 1 /\ commands' \in Nat
  BY <1>1 DEF Begin
<1>4. PICK op \in {"add", "remove", "new", "relocate"}, r \in Roots :
        cmd' = [cmd EXCEPT ![c] = [Idle EXCEPT !.op = op, !.root = r, !.at = "capture",
            !.alone = IF \A d \in Clients : At(d, "idle") THEN commands + 1 ELSE 0]]
  BY DEF Begin
<1> DEFINE alone == IF \A d \in Clients : At(d, "idle") THEN commands + 1 ELSE 0
<1>5. alone \in Nat /\ alone <= commands'
      /\ (alone = commands' => \A d \in Clients : cmd[d].at = "idle")
  BY <1>1, <1>3 DEF At
<1>6. cmd' = [cmd EXCEPT ![c] = [Idle EXCEPT !.op = op, !.root = r, !.at = "capture",
                                             !.alone = alone]]
  BY <1>4
<1> HIDE DEF alone
<1>7. /\ cmd' \in [Clients -> CommandStates]
      /\ \A d \in Clients \ {c} : cmd'[d] = cmd[d]
      /\ cmd'[c].at = "capture" /\ cmd'[c].op = op /\ cmd'[c].root = r
      /\ cmd'[c].kept = None /\ cmd'[c].prevId = None /\ cmd'[c].prevYaml = None
      /\ cmd'[c].alone = alone
  <2> DEFINE new == [Idle EXCEPT !.op = op, !.root = r, !.at = "capture", !.alone = alone]
  <2>1. /\ new \in CommandStates /\ new.at = "capture" /\ new.op = op /\ new.root = r
        /\ new.kept = None /\ new.prevId = None /\ new.prevYaml = None /\ new.alone = alone
    BY <1>5 DEF Idle, CommandStates, Places, Id, Root
  <2>2. cmd' = [cmd EXCEPT ![c] = new] /\ cmd \in [Clients -> CommandStates]
    BY <1>1, <1>6 DEF TypeOK
  <2> HIDE DEF new
  <2> QED BY <2>1, <2>2
<1>8. TypeOK'
  BY <1>1, <1>2, <1>3, <1>7 DEF TypeOK
<1>9. Ordered'
  BY <1>1, <1>2, <1>7, ConstAssumption DEF PInv, Ordered, Critical
<1>10. Numbered'
  BY <1>2, <1>7 DEF PInv, Numbered
<1>11. ASSUME NEW d \in Clients PROVE (cmd[d].alone <= commands)' /\
              (Alone(d)' => d = c /\ \A e \in Clients : cmd[e].at = "idle")
  <2>1. cmd[d].alone \in Nat /\ cmd[d].alone <= commands
    BY <1>1 DEF PInv, OthersIdle, TypeOK, CommandStates
  <2>2. CASE d = c
    BY <1>5, <1>7, <2>2 DEF Alone
  <2>3. CASE d # c
    BY <1>1, <1>3, <1>7, <2>1, <2>3 DEF Alone
  <2> QED BY <2>2, <2>3
<1>12. OthersIdle'
  BY <1>7, <1>11 DEF OthersIdle, At
<1>13. causes' = {} => OneEach'
  BY <1>1, <1>2, <1>7, ConstAssumption DEF PInv, OneEach, At, TypeOK, Ordered, Critical
<1>14. ASSUME causes' = {} PROVE \A d \in Clients : Undoable(d)'
  <2> SUFFICES ASSUME NEW d \in Clients PROVE Undoable(d)'
    OBVIOUS
  <2>1. CASE d = c
    BY <1>7, <2>1 DEF Undoable
  <2>2. CASE d # c
    <3>1. ~Alone(d)'
      BY <1>11, <2>2
    <3>2. Undoable(d)
      BY <1>2, <1>14 DEF PInv
    <3> QED BY <1>2, <1>7, <2>2, <3>1, <3>2 DEF Undoable, Registered
  <2> QED BY <2>1, <2>2
<1> QED BY <1>8, <1>9, <1>10, <1>12, <1>13, <1>14 DEF PInv

\* Nothing happens to the commands.
LEMMA Elsewhere ==
  ASSUME PInv, UNCHANGED <<reg, used, holder, cmd, commands, causes>>,
         yaml' \in [Roots -> Id], there' \subseteq Roots,
         \A r \in Roots : yaml'[r] = None \/ \E q \in Roots : yaml'[r] = yaml[q],
         served' \in [Ids -> Root], alive' \in BOOLEAN, inUse' \subseteq Ids, moves' \in Nat
  PROVE  PInv'
<1>1. TypeOK'
  BY DEF PInv, TypeOK
<1>2. Ordered' /\ OthersIdle'
  BY DEF PInv, Ordered, OthersIdle, Alone, At
<1>3. Numbered'
  BY DEF PInv, Numbered
<1>4. causes' = {} => OneEach' /\ \A c \in Clients : Undoable(c)'
  BY DEF PInv, OneEach, At, Undoable, Alone, Registered
<1> QED BY <1>1, <1>2, <1>3, <1>4 DEF PInv

LEMMA DaemonKeeps ==
  ASSUME PInv, DaemonStops \/ \E id \in Ids : Uses(id) \/ Rests(id)
  PROVE  PInv'
<1> USE DEF files, counts
<1>1. TypeOK
  BY DEF PInv
<1>2. CASE DaemonStops
  <2>1. alive' \in BOOLEAN
    BY <1>2, Zenon DEF DaemonStops
  <2> QED BY <1>1, <1>2, <2>1, Elsewhere DEF DaemonStops, TypeOK, Nothing, Root
<1>3. CASE \E id \in Ids : Uses(id) \/ Rests(id)
  BY <1>1, <1>3, Elsewhere DEF Uses, Rests, TypeOK
<1> QED BY <1>2, <1>3

LEMMA UserKeeps ==
  ASSUME PInv, UserActs
  PROVE  PInv'
<1>1. TypeOK
  BY DEF PInv
<1>2. /\ UNCHANGED <<reg, used, holder, cmd, served, alive, inUse, commands, causes>>
      /\ moves' \in Nat
  BY <1>1 DEF UserActs, daemon, TypeOK
<1>3. /\ yaml' \in [Roots -> Id] /\ there' \subseteq Roots
      /\ \A r \in Roots : yaml'[r] = None \/ \E q \in Roots : yaml'[r] = yaml[q]
  <2>1. ASSUME NEW a \in there, NEW b \in Roots \ {a},
               there' \in {there \cup {b}, (there \cup {b}) \ {a}},
               yaml' = [yaml EXCEPT ![b] = yaml[a], ![a] = IF a \in there' THEN @ ELSE None]
        PROVE  /\ yaml' \in [Roots -> Id] /\ there' \subseteq Roots
               /\ \A r \in Roots : yaml'[r] = None \/ \E q \in Roots : yaml'[r] = yaml[q]
    <3>1. /\ yaml' \in [Roots -> Id] /\ there' \subseteq Roots
      BY <1>1, <2>1 DEF TypeOK, Id
    <3>2. ASSUME NEW r \in Roots PROVE yaml'[r] \in {None, yaml[r], yaml[a]}
      BY <1>1, <2>1 DEF TypeOK
    <3> QED BY <1>1, <3>1, <3>2 DEF TypeOK
  <2>2. ASSUME NEW a \in there, there' = there, yaml' = [yaml EXCEPT ![a] = None]
        PROVE  /\ yaml' \in [Roots -> Id] /\ there' \subseteq Roots
               /\ \A r \in Roots : yaml'[r] = None \/ \E q \in Roots : yaml'[r] = yaml[q]
    BY <1>1, <2>2 DEF TypeOK, Id
  <2> QED BY <2>1, <2>2 DEF UserActs
<1> QED BY <1>1, <1>2, <1>3, Elsewhere DEF TypeOK

---------------------------------------------------------------------------
LEMMA InitEstablishes == Init => PInv /\ Dropping
<1> SUFFICES ASSUME Init PROVE PInv /\ Dropping
  OBVIOUS
<1>1. TypeOK
  <2>1. alive \in BOOLEAN
    BY Zenon DEF Init
  <2>2. Idle \in CommandStates
    BY DEF Idle, CommandStates, Places, Id, Root
  <2> QED BY <2>1, <2>2, ConstAssumption DEF Init, TypeOK, Nothing, Id, Root
<1>2. Ordered /\ OthersIdle /\ Dropping
  BY ConstAssumption DEF Init, Idle, Ordered, Critical, OthersIdle, Alone, At, Dropping
<1>3. Numbered
  BY DEF Init, Idle, Nothing, Numbered
<1>4. OneEach /\ \A c \in Clients : Undoable(c)
  BY DEF Init, Idle, Nothing, OneEach, Undoable, Alone
<1> QED BY <1>1, <1>2, <1>3, <1>4 DEF PInv

LEMMA CommandKeeps ==
  ASSUME PInv, NEW c \in Clients, Command(c)
  PROVE  PInv'
BY BeginKeeps, CaptureRegKeeps, CaptureYamlKeeps, AcquireKeeps, RefuseUnloadableKeeps,
   AddRepairsKeeps, AddRegistersKeeps, AddRefusedKeeps, MintsKeeps, RegistersKeeps,
         RegisterFailsKeeps, DropsOldKeeps, DropFailsKeeps, RemovesNothingKeeps,
               UnregistersKeeps, RemovesYamlKeeps, RelocateRefusedKeeps, RelocateSameKeeps,
                     RelocatesKeeps, ReloadSkipsKeeps, ReloadAppliesKeeps, ReloadRefusedKeeps,
                           FindsStaleKeeps, DropsStaleKeeps, StaleFailsKeeps, RestoresKeeps,
                                 RestoreFailsKeeps, RestoresYamlKeeps, YamlFailsKeeps, CrashKeeps
   DEF Command, Adds, Forks, Removes, Moves, Reload, Rollback

LEMMA NextKeeps == PInv /\ [Next]_vars => PInv'
<1> SUFFICES ASSUME PInv, [Next]_vars PROVE PInv'
  OBVIOUS
<1>1. CASE \E c \in Clients : Command(c)
  BY <1>1, CommandKeeps
<1>2. CASE DaemonStops \/ \E id \in Ids : Uses(id) \/ Rests(id)
  BY <1>2, DaemonKeeps
<1>3. CASE UserActs
  BY <1>3, UserKeeps
<1>4. CASE UNCHANGED vars
  BY <1>4, Elsewhere DEF PInv, TypeOK, vars
<1> QED BY <1>1, <1>2, <1>3, <1>4 DEF Next

---------------------------------------------------------------------------
\* What a command's step does to the registrations and to other commands.
Framed(c) ==
  /\ \A d \in Clients \ {c} : cmd'[d] = cmd[d]
  /\ reg' = reg \/ holder \in {c, None}
  /\ cmd'[c].at = "old" => Registers(c)
  /\ \A id \in Ids : reg[id] # None /\ reg'[id] # reg[id] =>
       /\ cmd'[c] # cmd[c]
       /\ \/ reg[id] = cmd[c].root
          \/ cmd[c].op = "relocate" /\ reg'[id] = cmd[c].root
          \/ RollingBack(c)

LEMMA CommandIsFramed ==
  ASSUME PInv, Dropping, NEW c \in Clients, Command(c)
  PROVE  Framed(c)
<1> USE DEF Framed, files, At, Idle
<1>1. TypeOK
  BY DEF PInv
<1>2. CASE Begin(c)
  BY <1>1, <1>2 DEF Begin, TypeOK
<1>a. ASSUME NEW at \in Places, Goes(c, at)
      PROVE  (\A d \in Clients \ {c} : cmd'[d] = cmd[d]) /\ cmd'[c].at = at
  BY <1>1, <1>a, GoesOn
<1>3. CASE CaptureReg(c)
  <2>1. CASE Loads
    <3> DEFINE id == IF cmd[c].op = "relocate" THEN yaml[cmd[c].root] ELSE RootId(cmd[c].root)
               found == RootOf(id) # None
               k == [cmd[c] EXCEPT !.at = IF cmd[c].op = "relocate" THEN "acquire" ELSE "yaml?",
                                   !.prevId = IF found THEN id ELSE None,
                                   !.prevRoot = IF found THEN reg[id] ELSE None]
    <3>1. cmd' = [cmd EXCEPT ![c] = k] /\ reg' = reg
      BY <1>3, <2>1 DEF CaptureReg
    <3>2. k.at # "old"
      BY <1>1 DEF TypeOK, CommandStates
    <3> HIDE DEF k
    <3> QED BY <1>1, <3>1, <3>2 DEF TypeOK
  <2>2. CASE ~Loads
    BY <1>1, <1>3, <1>a, <2>2 DEF CaptureReg, Places
  <2> QED BY <2>1, <2>2
<1>4. CASE CaptureYaml(c)
  BY <1>1, <1>4 DEF CaptureYaml, Leaves, Goes, Locked, TypeOK
<1>5. CASE Acquire(c)
  BY <1>1, <1>5 DEF Acquire, Leaves, Goes, Locked, TypeOK
<1>6. CASE RefuseUnloadable(c)
  BY <1>1, <1>6 DEF RefuseUnloadable, Leaves, Goes, Locked, TypeOK
<1>7. CASE AddRepairs(c)
  BY <1>1, <1>7 DEF AddRepairs, Leaves, Goes, Locked, TypeOK
<1>8. CASE AddRegisters(c)
  BY <1>1, <1>8 DEF AddRegisters, Leaves, Goes, Locked, Addable, TypeOK, PInv, Ordered, Critical
<1>9. CASE AddRefused(c)
  BY <1>1, <1>9 DEF AddRefused, Leaves, Goes, Locked, TypeOK
<1>10. CASE Mints(c)
  BY <1>1, <1>10 DEF Mints, Leaves, Goes, Locked, TypeOK
<1>11. CASE Registers(c)
  BY <1>1, <1>11 DEF Registers, Leaves, Goes, TypeOK, PInv, Ordered, Critical, Numbered
<1>12. CASE RegisterFails(c)
  BY <1>1, <1>12 DEF RegisterFails, Leaves, Goes, Locked, TypeOK
<1>13. CASE DropsOld(c)
  <2>1. /\ cmd[c].at = "old" /\ Goes(c, "reload") /\ holder = c
        /\ reg' = [reg EXCEPT ![cmd[c].kept] = None] /\ RootOf(cmd[c].kept) = cmd[c].root
        /\ cmd[c].root # None
    BY <1>13 DEF DropsOld, Leaves, PInv, Ordered, Critical, Dropping
  <2>2. \A id \in Ids : reg'[id] # reg[id] => reg[id] = cmd[c].root
    BY <1>1, <2>1 DEF TypeOK, RootOf
  <2> QED BY <1>a, <2>1, <2>2 DEF Places
<1>14. CASE DropFails(c)
  BY <1>1, <1>14 DEF DropFails, Leaves, Goes, Locked, TypeOK
<1>15. CASE RemovesNothing(c)
  BY <1>1, <1>15 DEF RemovesNothing, Leaves, Goes, Locked, TypeOK
<1>16. CASE Unregisters(c)
  <2>1. /\ cmd[c].at = "locked" /\ Goes(c, "unyaml") /\ holder = c
        /\ reg' = [reg EXCEPT ![RootId(cmd[c].root)] = None]
        /\ cmd[c].root \in Roots /\ RootId(cmd[c].root) # None
    BY <1>1, <1>16
       DEF Unregisters, Locked, PInv, Ordered, Critical, TypeOK, CommandStates, Root
  <2>2. \A id \in Ids : reg'[id] # reg[id] => reg[id] = cmd[c].root
    BY <1>1, <2>1, RootIdIs DEF TypeOK
  <2> QED BY <1>a, <2>1, <2>2 DEF Places, Critical
<1>17. CASE RemovesYaml(c)
  BY <1>1, <1>17 DEF RemovesYaml, Leaves, Goes, Locked, TypeOK
<1>18. CASE RelocateRefused(c)
  BY <1>1, <1>18 DEF RelocateRefused, Leaves, Goes, Locked, TypeOK
<1>19. CASE RelocateSame(c)
  BY <1>1, <1>19 DEF RelocateSame, Leaves, Goes, Locked, TypeOK
<1>20. CASE Relocates(c)
  <2>1. /\ cmd[c].at = "locked" /\ Goes(c, "reload") /\ holder = c
        /\ cmd[c].op = "relocate" /\ reg' = [reg EXCEPT ![yaml[cmd[c].root]] = cmd[c].root]
    BY <1>20 DEF Relocates, Leaves, Locked, PInv, Ordered, Critical
  <2>2. \A id \in Ids : reg'[id] \in {reg[id], cmd[c].root}
    BY <1>1, <2>1 DEF TypeOK
  <2> QED BY <1>a, <2>1, <2>2 DEF Places
<1>21. CASE ReloadSkips(c)
  BY <1>1, <1>21 DEF ReloadSkips, Leaves, Goes, Locked, TypeOK
<1>22. CASE ReloadApplies(c)
  BY <1>1, <1>22 DEF ReloadApplies, Leaves, Goes, Locked, TypeOK
<1>23. CASE ReloadRefused(c)
  BY <1>1, <1>23 DEF ReloadRefused, Leaves, Goes, Locked, TypeOK
<1>24. CASE FindsStale(c)
  <2> DEFINE k == [cmd[c] EXCEPT !.id = RootId(cmd[c].root),
                     !.at = IF Stale(c, RootId(cmd[c].root)) THEN "stale" ELSE "restore"]
  <2>1. CASE cmd' = [cmd EXCEPT ![c] = k]
    <3>1. reg' = reg
      BY <1>24 DEF FindsStale
    <3>2. k.at # "old"
      BY <1>1 DEF TypeOK, CommandStates
    <3> HIDE DEF k
    <3> QED BY <1>1, <2>1, <3>1, <3>2 DEF TypeOK
  <2>2. CASE Goes(c, "idle")
    BY <1>1, <1>24, <1>a, <2>2 DEF FindsStale, Places
  <2> QED BY <1>24, <2>1, <2>2 DEF FindsStale
<1>25. CASE DropsStale(c)
  <2>1. cmd[c].at = "stale" /\ Goes(c, "restore") /\ holder = None
    BY <1>25 DEF DropsStale
  <2> QED BY <1>a, <2>1 DEF RollingBack, Places
<1>26. CASE Restores(c)
  <2>1. /\ cmd[c].at \in {"restore", "restore-partly"} /\ cmd \in [Clients -> CommandStates]
        /\ Goes(c, "idle") \/ Goes(c, "yamlback") \/ Goes(c, "yaml-partly")
    BY <1>1, <1>26 DEF Restores, Restoring, TypeOK
  <2>2. reg' = reg \/ holder = None
    BY <1>26 DEF Restores
  <2> QED BY <1>a, <2>1, <2>2 DEF RollingBack, Places
<1>27. CASE RestoresYaml(c)
  BY <1>1, <1>27 DEF RestoresYaml, Leaves, Goes, Locked, TypeOK
<1>28. CASE Crash(c)
  BY <1>1, <1>28 DEF Crash, Leaves, Goes, Locked, TypeOK
<1>29. CASE StaleFails(c)
  BY <1>a, <1>29 DEF StaleFails, Places
<1>30. CASE RestoreFails(c)
  <2>1. reg' = reg /\ (Goes(c, "idle") \/ Goes(c, "yaml-partly"))
    BY <1>30 DEF RestoreFails
  <2> QED BY <1>a, <2>1 DEF Places
<1>31. CASE YamlFails(c)
  BY <1>a, <1>31 DEF YamlFails, Places
<1> QED BY <1>2, <1>3, <1>4, <1>5, <1>6, <1>7, <1>8, <1>9, <1>10, <1>11, <1>12, <1>13, <1>14,
      <1>15, <1>16, <1>17, <1>18, <1>19, <1>20, <1>21, <1>22, <1>23, <1>24, <1>25, <1>26, <1>27,
            <1>28, <1>29, <1>30, <1>31
   DEF Command, Adds, Forks, Removes, Moves, Reload, Rollback

LEMMA DroppingKeeps == PInv /\ Dropping /\ [Next]_vars => Dropping'
<1> SUFFICES ASSUME PInv, Dropping, [Next]_vars, NEW d \in Clients, cmd'[d].at = "old"
             PROVE  (RootOf(cmd[d].kept) = cmd[d].root)'
  BY DEF Dropping, At
<1>1. CASE UNCHANGED <<reg, cmd>>
  BY <1>1 DEF Dropping, RootOf, At
<1>2. ASSUME NEW c \in Clients, Command(c) PROVE (RootOf(cmd[d].kept) = cmd[d].root)'
  <2>1. Framed(c)
    BY <1>2, CommandIsFramed
  <2>2. CASE d = c
    <3>1. Registers(c) /\ TypeOK /\ cmd[c].at = "reg"
      BY <2>1, <2>2 DEF Framed, PInv, Registers, At
    <3>2. OldRegistration(c) /\ Goes(c, "old")
      <4>1. Goes(c, "reload") => cmd'[c].at = "reload"
        BY <3>1, GoesOn DEF Places
      <4> QED BY <2>2, <3>1, <4>1 DEF Registers, Leaves
    <3>3. /\ cmd'[c].kept = cmd[c].kept /\ cmd'[c].root = cmd[c].root
      BY <3>1, <3>2, GoesOn DEF Places, Critical
    <3>4. /\ cmd[c].kept # None /\ reg[cmd[c].kept] = cmd[c].root /\ cmd[c].kept \in Id
          /\ cmd[c].root # None /\ reg[cmd[c].id] = None
      BY <3>1, <3>2 DEF OldRegistration, RootOf, TypeOK, CommandStates, PInv, Ordered, Numbered
    <3>5. reg'[cmd[c].kept] = reg[cmd[c].kept]
      BY <3>1, <3>4 DEF Registers, TypeOK, Id
    <3> QED BY <2>2, <3>3, <3>4, <3>5 DEF RootOf
  <2>3. CASE d # c
    <3>1. cmd'[d] = cmd[d] /\ holder = d /\ d # None
      BY <2>1, <2>3, ConstAssumption DEF Framed, PInv, Ordered, Critical
    <3> QED BY <2>1, <2>3, <3>1 DEF Framed, Dropping, RootOf, At
  <2> QED BY <2>2, <2>3
<1> QED BY <1>1, <1>2 DEF Next, vars, DaemonStops, Uses, Rests, UserActs, files

LEMMA LockStep ==
  ASSUME PInv, NEW c \in Clients, Command(c)
  PROVE  \/ holder' = holder
         \/ holder = None /\ holder' = c
         \/ holder = c /\ holder' = None
<1> USE DEF At
<1>1. cmd[c].at \in Critical => holder = c
  BY DEF PInv, Ordered
<1>2. CASE Begin(c) \/ CaptureReg(c) \/ CaptureYaml(c) \/ Acquire(c)
  BY <1>2 DEF Begin, CaptureReg, CaptureYaml, Acquire
<1>3. CASE RefuseUnloadable(c) \/ Adds(c)
  BY <1>1, <1>3
     DEF RefuseUnloadable, Adds, AddRepairs, AddRegisters, AddRefused, Locked, Leaves, Critical
<1>4. CASE Forks(c)
  BY <1>1, <1>4
     DEF Forks, Mints, Registers, RegisterFails, DropsOld, DropFails, Leaves, Critical
<1>5. CASE Removes(c) \/ Moves(c)
  BY <1>1, <1>5
     DEF Removes, RemovesNothing, Unregisters, RemovesYaml, Moves, RelocateRefused,
         RelocateSame, Relocates, Locked, Leaves, Critical
<1>6. CASE Reload(c)
  BY <1>6 DEF Reload, ReloadSkips, ReloadApplies, ReloadRefused
<1>7. CASE Rollback(c)
  BY <1>7 DEF Rollback, FindsStale, DropsStale, StaleFails, Restores, RestoreFails,
              RestoresYaml, YamlFails
<1>8. CASE Crash(c)
  BY <1>8 DEF Crash
<1> QED BY <1>2, <1>3, <1>4, <1>5, <1>6, <1>7, <1>8 DEF Command

---------------------------------------------------------------------------
\* What every reachable state of the registry and its commands satisfies.
THEOREM ProjectsInvariant == Spec => [](PInv /\ Dropping)
<1>1. Init => PInv /\ Dropping
  BY InitEstablishes
<1>2. PInv /\ Dropping /\ [Next]_vars => (PInv /\ Dropping)'
  BY NextKeeps, DroppingKeeps
<1> QED BY <1>1, <1>2, PTL DEF Spec

\* Whenever no command is writing and nothing on record went wrong, no root
\* is registered twice.
THEOREM RegistryLoadsHolds == Spec => []RegistryLoads
<1>1. PInv => RegistryLoads
  BY OneApart, LoadsWhenOne DEF PInv, RegistryLoads
<1> QED BY <1>1, ProjectsInvariant, PTL

\* A command changes no registration of another project.
THEOREM OthersUntouchedHolds == Spec => OthersUntouched
<1> DEFINE Untouched == \A id \in Ids : reg[id] # None /\ reg'[id] # reg[id] =>
       \E c \in Clients : cmd'[c] # cmd[c] /\
         \/ reg[id] = cmd[c].root
         \/ cmd[c].op = "relocate" /\ reg'[id] = cmd[c].root
         \/ RollingBack(c)
<1>1. PInv /\ Dropping /\ [Next]_vars => Untouched
  <2> SUFFICES ASSUME PInv, Dropping, [Next]_vars PROVE Untouched
    OBVIOUS
  <2>1. CASE \E c \in Clients : Command(c)
    BY <2>1, CommandIsFramed DEF Framed
  <2>2. CASE UNCHANGED reg
    BY <2>2
  <2> QED BY <2>1, <2>2 DEF Next, vars, DaemonStops, Uses, Rests, UserActs, files
<1> QED BY <1>1, ProjectsInvariant, PTL DEF Spec, OthersUntouched

\* A change that the daemon refused is undone by a rollback that reports no
\* problem, and project.yaml by every rollback that can write it.
THEOREM RefusedChangeIsUndoneHolds == Spec => RefusedChangeIsUndone
<1> DEFINE Undone == \A c \in Clients : RestoresYaml(c) /\ causes' = {} =>
       LET k == cmd[c] IN
       /\ yaml'[k.root] = k.prevYaml
       /\ k.at = "yamlback" => {id \in Ids : reg'[id] = k.root} = {k.prevId} \ {None}
<1>1. PInv => Undone
  <2> SUFFICES ASSUME PInv, NEW c \in Clients, RestoresYaml(c), causes' = {}
               PROVE  /\ yaml'[cmd[c].root] = cmd[c].prevYaml
                      /\ cmd[c].at = "yamlback" =>
                           {id \in Ids : reg'[id] = cmd[c].root} = {cmd[c].prevId} \ {None}
    BY Zenon
  <2>1. /\ cmd[c].root \in Roots /\ yaml \in [Roots -> Id] /\ reg' = reg
        /\ causes = {} /\ cmd[c].alone = commands
        /\ cmd[c].at \in {"yamlback", "yaml-partly"}
    BY DEF PInv, TypeOK, CommandStates, Ordered, Root, RestoresYaml, Races, At
  <2>2. yaml'[cmd[c].root] = cmd[c].prevYaml
    BY <2>1 DEF RestoresYaml, WriteYaml
  <2>3. Undoable(c) /\ Alone(c)
    BY <2>1 DEF PInv, Alone
  <2> QED BY <2>1, <2>2, <2>3 DEF Undoable, Registered
<1> QED BY <1>1, ProjectsInvariant, PTL DEF RefusedChangeIsUndone

---------------------------------------------------------------------------
\* projects.lock as the commands use it: one holder, who may die.
Writers == IF holder = None THEN {} ELSE {holder}

Guard == INSTANCE ExclusiveLock WITH Procs <- Clients, owners <- Writers

LEMMA GuardStep ==
  ASSUME PInv, [Next]_vars
  PROVE  [Guard!Next]_Writers
<1>1. CASE UNCHANGED holder
  BY <1>1 DEF Writers
<1>2. ASSUME NEW c \in Clients, Command(c) PROVE [Guard!Next]_Writers
  <2>1. c # None
    BY ConstAssumption
  <2>2. CASE holder = None /\ holder' = c
    BY <2>1, <2>2 DEF Writers, Guard!Next, Guard!Acquire
  <2>3. CASE holder = c /\ holder' = None
    BY <2>1, <2>3 DEF Writers, Guard!Next, Guard!GiveUp
  <2> QED BY <1>1, <1>2, <2>2, <2>3, LockStep
<1> QED BY <1>1, <1>2 DEF Next, vars, DaemonStops, Uses, Rests, UserActs

\* The commands take and leave projects.lock as the exclusive lock allows,
\* which is what a lock file implements where open files cannot be unlinked.
THEOREM CommandsObeyTheLock == Spec => Guard!Spec
<1>1. Init => Guard!Init
  BY DEF Init, Guard!Init, Writers
<1>2. PInv /\ [Next]_vars => [Guard!Next]_Writers
  BY GuardStep
<1> QED BY <1>1, <1>2, ProjectsInvariant, PTL DEF Spec, Guard!Spec

---------------------------------------------------------------------------
\* The lock file: see IndexLock.

LEMMA FileInit == LockInit => LockInv
BY LockAssumption DEF LockInit, LockInv, LockTypeOK, States

LEMMA FileStep ==
  ASSUME UnlinkWhileOpen = FALSE, LockInv, [LockNext]_lockVars
  PROVE  LockInv'
<1> USE LockAssumption DEF LockInv, LockTypeOK, Goto
<1>1. ASSUME NEW p \in Procs,
             ReclaimOpens(p) \/ NothingToReclaim(p) \/ ReclaimRefused(p)
      PROVE  LockInv'
  BY <1>1 DEF ReclaimOpens, NothingToReclaim, ReclaimRefused, Closed, States
<1>2. ASSUME NEW p \in Procs, ReclaimTruncates(p) PROVE LockInv'
  BY <1>2 DEF ReclaimTruncates, States
<1>3. ASSUME NEW p \in Procs, ReclaimEnds(p) PROVE LockInv'
  BY <1>3 DEF ReclaimEnds, Closed, States
<1>4. ASSUME NEW p \in Procs, OpenExisting(p) PROVE LockInv'
  BY <1>4 DEF OpenExisting, States
\* Nobody has a descriptor while the path names nothing, so a new file is alone.
<1>5. ASSUME NEW p \in Procs, OpenCreates(p) PROVE LockInv'
  BY <1>5 DEF OpenCreates, Fresh, States
<1>6. ASSUME NEW p \in Procs, Refused(p) PROVE LockInv'
  BY <1>6 DEF Refused, Closed, States
<1>7. ASSUME NEW p \in Procs, TakesLock(p) PROVE LockInv'
  BY <1>7 DEF TakesLock, States
<1>8. ASSUME NEW p \in Procs, WritesPayload(p) PROVE LockInv'
  BY <1>8 DEF WritesPayload, States
<1>9. ASSUME NEW p \in Procs, Unlocks(p) PROVE LockInv'
  BY <1>9 DEF Unlocks, Closed, States
<1>10. ASSUME NEW p \in Procs, ReadsOwner(p) PROVE LockInv'
  BY <1>10 DEF ReadsOwner, States
\* The one step that needs the assumption: no descriptor loses its file.
<1>11. ASSUME NEW p \in Procs, Unlinks(p) PROVE LockInv'
  BY <1>11 DEF Unlinks, Removable, States
<1>12. ASSUME NEW p \in Procs, Dies(p) PROVE LockInv'
  BY <1>12 DEF Dies, Closed, States
<1>13. CASE UNCHANGED lockVars
  BY <1>13 DEF lockVars
<1> QED
  BY <1>1, <1>2, <1>3, <1>4, <1>5, <1>6, <1>7, <1>8, <1>9, <1>10, <1>11, <1>12, <1>13
  DEF LockNext, Acquiring, Releasing

LEMMA Excludes == LockInv => MutualExclusion /\ HeldFileIsNamed
BY LockAssumption DEF LockInv, LockTypeOK, MutualExclusion, HeldFileIsNamed, Owners

LEMMA FileInvariant ==
  ASSUME UnlinkWhileOpen = FALSE
  PROVE  LockSpec => []LockInv
<1>1. LockInit => LockInv
  BY FileInit
<1>2. LockInv /\ [LockNext]_lockVars => LockInv'
  BY FileStep
<1> QED BY <1>1, <1>2, PTL DEF LockSpec

\* Without removal of open files at most one contender owns a lock file.
THEOREM LockExcludes ==
  ASSUME UnlinkWhileOpen = FALSE
  PROVE  LockSpec => []MutualExclusion
<1>1. LockSpec => []LockInv
  BY FileInvariant
<1> QED BY <1>1, Excludes, PTL

\* Nor does a lock file lose its name while it is owned.
THEOREM HeldFileStaysNamed ==
  ASSUME UnlinkWhileOpen = FALSE
  PROVE  LockSpec => []HeldFileIsNamed
<1>1. LockSpec => []LockInv
  BY FileInvariant
<1> QED BY <1>1, Excludes, PTL

\* A step of a contender is a step of the exclusive lock or none at all.
LEMMA MutexStep ==
  ASSUME LockInv, LockInv', [LockNext]_lockVars
  PROVE  [Mutex!Next]_(Owners)
<1> USE LockAssumption DEF LockInv, LockTypeOK, Goto
<1>1. ASSUME NEW p \in Procs, TakesLock(p) PROVE Mutex!Acquire(p)
  <2>1. Owners = {}
    BY <1>1 DEF TakesLock, Owners
  <2>2. Owners' = {p}
    BY <1>1, <2>1 DEF TakesLock, Owners
  <2> QED BY <2>1, <2>2 DEF Mutex!Acquire
<1>2. ASSUME NEW p \in Procs, Unlocks(p) PROVE Mutex!GiveUp(p)
  BY <1>2 DEF Unlocks, Owners, Mutex!GiveUp
<1>3. ASSUME NEW p \in Procs, Dies(p) PROVE Mutex!GiveUp(p) \/ UNCHANGED Owners
  <2>1. Owners' = Owners \ {p}
    BY <1>3 DEF Dies, Owners
  <2> QED BY <2>1 DEF Mutex!GiveUp
<1>4. ASSUME NEW p \in Procs, WritesPayload(p) PROVE UNCHANGED Owners
  BY <1>4 DEF WritesPayload, Owners
<1>5. ASSUME NEW p \in Procs,
             \/ ReclaimOpens(p) \/ NothingToReclaim(p) \/ ReclaimRefused(p)
             \/ ReclaimTruncates(p) \/ ReclaimEnds(p) \/ OpenExisting(p)
             \/ OpenCreates(p) \/ Refused(p) \/ ReadsOwner(p) \/ Unlinks(p)
      PROVE  UNCHANGED Owners
  BY <1>5 DEF ReclaimOpens, NothingToReclaim, ReclaimRefused, ReclaimTruncates,
     ReclaimEnds, OpenExisting, OpenCreates, Refused, ReadsOwner, Unlinks, Owners
<1>6. CASE UNCHANGED lockVars
  BY <1>6 DEF lockVars, Owners
<1> QED
  BY <1>1, <1>2, <1>3, <1>4, <1>5, <1>6 DEF LockNext, Acquiring, Releasing, Mutex!Next

\* The lock file implements the exclusive lock of module ExclusiveLock.
THEOREM LockImplementsMutex ==
  ASSUME UnlinkWhileOpen = FALSE
  PROVE  LockSpec => MutexSpec
<1>1. LockInit => Mutex!Init
  BY DEF LockInit, Mutex!Init, Owners
<1>2. LockSpec => []LockInv
  BY FileInvariant
<1> QED
  BY <1>1, <1>2, MutexStep, PTL DEF LockSpec, MutexSpec, Mutex!Spec
=============================================================================
