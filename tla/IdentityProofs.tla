--------------------------- MODULE IdentityProofs ---------------------------
(***************************************************************************)
(* GInv of Identity is inductive: whatever fails, crashes or interleaves   *)
(* during the migrations, resets and runs, index_meta.json tells the truth *)
(* about the chunks in the index, as far as nothing else is on record; and *)
(* a rebuild publishes its own chunks only.                                *)
(***************************************************************************)
EXTENDS Identity, TLAPS

USE IdentityAssumption DEF vars, disk, process, bounds, Here

\* What the service and the run are, as records.
LEMMA Records ==
  ASSUME TypeOK
  PROVE  /\ step = [at |-> step.at, force |-> step.force] /\ step.force \in BOOLEAN
         /\ run = [phase |-> run.phase, force |-> run.force] /\ run.force \in BOOLEAN
BY DEF TypeOK

\* The places of the startup and the request, and the phases of the run.
Stages == {"migrate", "wipe", "clear", "stamp", "identity", "drop", "restamp", "launch", "ready"}
Phases == {"none", "reconcile", "restamp", "open", "index", "swap", "rows"}

\* Going on to the next stage of the startup or the request.
LEMMA Going ==
  ASSUME TypeOK, NEW s \in Stages, Go(s) \/ (\E f \in BOOLEAN : Goes(s, f))
  PROVE  /\ UNCHANGED <<conf, build, run>>
         /\ step'.at = s /\ step'.force \in BOOLEAN /\ step' = [at |-> step'.at, force |-> step'.force]
BY Records DEF TypeOK, Go, Goes, Stages

\* Going on to the next phase of the run.
LEMMA Phasing ==
  ASSUME TypeOK, NEW p \in Phases, Phase(p)
  PROVE  /\ UNCHANGED <<conf, build, step>>
         /\ run'.phase = p /\ run'.force = run.force /\ run' = [phase |-> p, force |-> run.force]
BY DEF TypeOK, Phase

\* The end of a run.
LEMMA Ending ==
  ASSUME Ends
  PROVE  /\ UNCHANGED <<conf, build, step>>
         /\ run'.phase = "none" /\ run'.force = FALSE /\ run' = [phase |-> "none", force |-> FALSE]
BY DEF Ends, Idle

\* What this process writes is a meta of its own.
LEMMA MetaIsOurs ==
  ASSUME TypeOK, NEW g \in {c.geometry : c \in Confs} \cup {None}
  PROVE  /\ MetaWith(g) \in Metas /\ MetaWith(g) # None
         /\ MetaWith(g).profile = conf.profile /\ MetaWith(g).root = conf.root
         /\ MetaWith(g).chunking = conf.chunking /\ MetaWith(g).build = build
<1>0. conf \in Confs /\ build \in Builds
  BY DEF TypeOK
<1>1. MetaWith(g) \in Metas
  BY <1>0 DEF MetaWith, Metas, NameOf, Names
<1> QED BY <1>1 DEF MetaWith

\* So are the chunks it writes, and the name it writes them under is a name.
LEMMA ChunkIsOurs ==
  ASSUME TypeOK, NEW f \in Files
  PROVE  /\ Chunk(f) \in Chunks /\ NameOf(conf) \in Names
         /\ Chunk(f).file = f /\ Chunk(f).chunking = conf.chunking /\ Chunk(f).build = build
BY DEF TypeOK, Chunk, Chunks, Names

\* The collection of the configuration is one of the names.
LEMMA HereIsName == TypeOK => NameOf(conf) \in Names
BY DEF TypeOK, Names

\* The index that a meta written here describes.
LEMMA DescribedHere ==
  ASSUME TypeOK, NEW g \in {c.geometry : c \in Confs} \cup {None}
  PROVE  NameOf(MetaWith(g)) = NameOf(conf)
BY MetaIsOurs DEF NameOf

\* A new stamp over the collection of this process: what it says of the chunks is
\* true, or on record.
LEMMA Stamping ==
  ASSUME TypeOK, OneGeneration, NEW g \in {c.geometry : c \in Confs} \cup {None},
         Stamps(MetaWith(g)), UNCHANGED <<conf, build, active>>
  PROVE  /\ meta' \in Metas /\ mixed' \subseteq {"chunking", "build", "geometry"}
         /\ Ours' /\ OneGeneration'
<1>1. /\ meta' = MetaWith(g) /\ meta' \in Metas /\ meta' # None /\ NameOf(meta') = NameOf(conf)
      /\ meta'.profile = conf.profile /\ meta'.chunking = conf.chunking /\ meta'.build = build
  BY MetaIsOurs, DescribedHere DEF Stamps
<1> DEFINE kept == meta # None /\ NameOf(meta) = Here
           off(k) == active[Here] # {} /\ (kept => k \in mixed \/ meta[k] # MetaWith(g)[k])
<1>2. mixed' = {k \in {"chunking", "build", "geometry"} : off(k)}
  BY DEF Stamps
<1>3. MetaWith(g)["chunking"] = conf.chunking /\ MetaWith(g)["build"] = build
  BY DEF MetaWith
<1>4. ASSUME NEW d \in active[NameOf(conf)], "chunking" \notin mixed' PROVE d.chunking = conf.chunking
  <2>1. ~off("chunking")
    BY <1>2, <1>4
  <2>2. kept /\ "chunking" \notin mixed /\ meta["chunking"] = conf.chunking
    BY <1>3, <1>4, <2>1
  <2> QED BY <1>4, <2>2 DEF OneGeneration, Described
<1>5. ASSUME NEW d \in active[NameOf(conf)], "build" \notin mixed' PROVE d.build = build
  <2>1. ~off("build")
    BY <1>2, <1>5
  <2>2. kept /\ "build" \notin mixed /\ meta["build"] = build
    BY <1>3, <1>5, <2>1
  <2> QED BY <1>5, <2>2 DEF OneGeneration, Described
<1>6. OneGeneration'
  BY <1>1, <1>4, <1>5 DEF OneGeneration, Described
<1>7. Ours'
  BY <1>1 DEF Ours, Valid, NameOf
<1> QED BY <1>1, <1>2, <1>6, <1>7

\* A collection is removed: what is left is described as before.
LEMMA Removing ==
  ASSUME TypeOK, OneGeneration, NEW n, Removes(n), UNCHANGED <<conf, build, meta>>
  PROVE  /\ active' \in [Names -> SUBSET Chunks] /\ mixed' \subseteq {"chunking", "build", "geometry"}
         /\ \A m \in Names : active'[m] \in {active[m], {}}
         /\ n \in Names => active'[n] = {}
         /\ OneGeneration'
<1>1. /\ active' = [active EXCEPT ![n] = {}]
      /\ mixed' = IF meta # None /\ NameOf(meta) = n THEN {} ELSE mixed
  BY DEF Removes
<1>2. /\ active' \in [Names -> SUBSET Chunks]
      /\ \A m \in Names : active'[m] \in {active[m], {}}
      /\ n \in Names => active'[n] = {}
  BY <1>1 DEF TypeOK
<1>3. OneGeneration'
  <2>1. CASE meta = None
    BY <2>1 DEF OneGeneration
  <2>2. CASE meta # None /\ NameOf(meta) = n /\ n \in Names
    BY <1>2, <2>2 DEF OneGeneration, Described, NameOf
  <2>3. CASE meta # None /\ NameOf(meta) # n
    <3>1. active'[NameOf(meta)] = active[NameOf(meta)] /\ mixed' = mixed
      BY <1>1, <2>3 DEF TypeOK
    <3> QED BY <2>3, <3>1 DEF OneGeneration, Described, NameOf
  <2>4. CASE meta # None /\ NameOf(meta) = n /\ n \notin Names
    BY <2>4 DEF TypeOK, Metas, NameOf, Names
  <2> QED BY <2>1, <2>2, <2>3, <2>4
<1> QED BY <1>1, <1>2, <1>3 DEF TypeOK

-----------------------------------------------------------------------------
\* The startup and the reset.

\* What writes no file, leaves the process in place and does not come out of a
\* stage past the wipe into one, keeps the invariant.
LEMMA Calm ==
  ASSUME GInv, UNCHANGED <<conf, build, disk, dirty, mixed, bounds>>,
         step'.at \in Stages, step'.force \in BOOLEAN,
         step' = [at |-> step'.at, force |-> step'.force],
         step'.at \in {"clear", "stamp"} => step.at \in {"clear", "stamp"},
         run'.phase \in Phases, run'.force \in BOOLEAN,
         run' = [phase |-> run'.phase, force |-> run'.force],
         run'.phase \in {"open", "index", "swap", "rows"} => run' = run
  PROVE  GInv'
<1> USE DEF GInv
<1>1. TypeOK'
  BY DEF TypeOK, Stages, Phases
<1>2. StartupAgrees'
  BY DEF StartupAgrees, Own
<1>3. RunAgrees'
  BY DEF RunAgrees, Ours, Valid, NameOf, Chunk
<1>4. OneGeneration'
  BY DEF OneGeneration, Described, NameOf
<1> QED BY <1>1, <1>2, <1>3, <1>4

\* A restart, too: what is on disk still agrees with itself.
LEMMA RestartsKeep == ASSUME GInv, Restarts PROVE GInv'
<1> USE DEF GInv
<1>1. /\ conf' \in Confs /\ build' \in Builds /\ restarts' = restarts + 1
      /\ UNCHANGED <<disk, dirty, mixed, edits>>
      /\ step' = [at |-> "migrate", force |-> FALSE] /\ run' = [phase |-> "none", force |-> FALSE]
  BY DEF Restarts, Idle
<1>2. TypeOK'
  BY <1>1 DEF TypeOK
<1> QED BY <1>1, <1>2 DEF StartupAgrees, RunAgrees, OneGeneration, Described, NameOf

\* The checks decide where the startup goes and write nothing.
LEMMA ChecksKeep == ASSUME GInv, ChecksBuild \/ ChecksIdentity PROVE GInv'
<1> USE DEF GInv, At
<1>1. \E s \in {"wipe", "identity", "drop", "launch", "ready"} : Go(s) \/ \E f \in BOOLEAN : Goes(s, f)
  <2>1. CASE ChecksBuild
    BY <2>1, Zenon DEF ChecksBuild
  <2>2. CASE ChecksIdentity
    BY <2>2, Zenon DEF ChecksIdentity, Ready
  <2> QED BY <2>1, <2>2
<1>2. PICK s \in {"wipe", "identity", "drop", "launch", "ready"} : Go(s) \/ \E f \in BOOLEAN : Goes(s, f)
  BY <1>1
<1>3. /\ UNCHANGED <<conf, build, run>> /\ step'.at = s
      /\ step'.force \in BOOLEAN /\ step' = [at |-> step'.at, force |-> step'.force]
  BY <1>2, Going DEF Stages
<1>4. UNCHANGED <<disk, dirty, mixed, bounds>>
  BY DEF ChecksBuild, ChecksIdentity
<1> QED BY <1>2, <1>3, <1>4, Records, Calm DEF Stages, Phases, TypeOK

\* The migration empties the active collection, or fails and goes on.
LEMMA WipesKeeps == ASSUME GInv, Wipes PROVE GInv'
<1> USE DEF GInv, At
<1>0. UNCHANGED <<meta, staged, rows, stagedRows, dirty, bounds>>
  BY DEF Wipes
<1>1. CASE Removes(Here) /\ Go("clear")
  <2>1. /\ UNCHANGED <<conf, build, run>> /\ step'.at = "clear"
        /\ step'.force \in BOOLEAN /\ step' = [at |-> step'.at, force |-> step'.force]
    BY <1>1, Going DEF Stages
  <2>2. /\ active' \in [Names -> SUBSET Chunks] /\ mixed' \subseteq {"chunking", "build", "geometry"}
        /\ active'[NameOf(conf)] = {} /\ OneGeneration'
    BY <1>0, <1>1, <2>1, Removing, HereIsName
  <2>3. TypeOK'
    BY <1>0, <2>1, <2>2 DEF TypeOK
  <2>4. StartupAgrees' /\ RunAgrees'
    BY <1>0, <2>1, <2>2 DEF StartupAgrees, RunAgrees, Ours, Valid, NameOf, Chunk
  <2> QED BY <2>2, <2>3, <2>4
<1>2. CASE UNCHANGED <<active, mixed>> /\ Go("identity")
  <2>1. /\ UNCHANGED <<conf, build, run>> /\ step'.at = "identity"
        /\ step'.force \in BOOLEAN /\ step' = [at |-> step'.at, force |-> step'.force]
    BY <1>2, Going DEF Stages
  <2> QED BY <1>0, <1>2, <2>1, Records, Calm DEF Stages, Phases, TypeOK
<1> QED BY <1>1, <1>2 DEF Wipes

\* The manifest is cleared beside the collection.
LEMMA ClearsKeeps == ASSUME GInv, ClearsManifest PROVE GInv'
<1> USE DEF GInv, At
<1>1. PICK s \in {"stamp", "identity"} : Go(s)
  BY Zenon DEF ClearsManifest
<1>2. /\ UNCHANGED <<conf, build, run>> /\ step'.at = s
      /\ step'.force \in BOOLEAN /\ step' = [at |-> step'.at, force |-> step'.force]
  BY <1>1, Going DEF Stages
<1>3. /\ UNCHANGED <<meta, active, staged, stagedRows, mixed, bounds>> /\ step.at = "clear"
      /\ rows' \in {rows, {}} /\ dirty' \in {dirty, dirty \cap stagedRows}
  BY DEF ClearsManifest
<1>4. TypeOK'
  BY <1>1, <1>2, <1>3 DEF TypeOK
<1> QED BY <1>1, <1>2, <1>3, <1>4
        DEF StartupAgrees, Own, RunAgrees, Ours, Valid, Chunk, OneGeneration, Described, NameOf

\* The new stamp is true of the collection it describes: it was empty, and what
\* is there now a run of this process has put there.
LEMMA StampsKeeps == ASSUME GInv, StampsBuild PROVE GInv'
<1> USE DEF GInv, At
<1>0. UNCHANGED <<active, staged, rows, stagedRows, dirty, bounds>> /\ step.at = "stamp"
  BY DEF StampsBuild
<1>1. CASE meta' = MetaWith(None) /\ mixed' = {} /\ (IF conf.auto THEN Goes("launch", TRUE) ELSE Ready)
  <2>1. PICK s \in {"launch", "ready"} : \E f \in BOOLEAN : Goes(s, f)
    BY <1>1, Zenon DEF Ready
  <2>2. /\ UNCHANGED <<conf, build, run>> /\ step'.at = s
        /\ step'.force \in BOOLEAN /\ step' = [at |-> step'.at, force |-> step'.force]
    BY <2>1, Going DEF Stages
  <2>3. /\ meta' \in Metas /\ meta' # None /\ NameOf(meta') = NameOf(conf) /\ meta'.build = build
        /\ meta'.profile = conf.profile /\ meta'.chunking = conf.chunking
    BY <1>1, MetaIsOurs, DescribedHere
  <2>4. TypeOK'
    BY <1>0, <1>1, <2>1, <2>2, <2>3 DEF TypeOK
  <2>5. OneGeneration'
    BY <1>0, <2>2, <2>3 DEF OneGeneration, Described, StartupAgrees, Own
  <2>6. StartupAgrees' /\ RunAgrees'
    BY <1>0, <2>1, <2>2, <2>3 DEF StartupAgrees, RunAgrees, Ours, Valid, NameOf, Chunk
  <2> QED BY <2>4, <2>5, <2>6
<1>2. CASE UNCHANGED <<meta, mixed>> /\ Go("identity")
  <2>1. /\ UNCHANGED <<conf, build, run>> /\ step'.at = "identity"
        /\ step'.force \in BOOLEAN /\ step' = [at |-> step'.at, force |-> step'.force]
    BY <1>2, Going DEF Stages
  <2> QED BY <1>0, <1>2, <2>1, Records, Calm DEF Stages, Phases, TypeOK
<1> QED BY <1>1, <1>2 DEF StampsBuild

\* A change of identity removes the collection of another name.
LEMMA DropsKeeps == ASSUME GInv, DropsOld PROVE GInv'
<1> USE DEF GInv, At
<1>1. PICK s \in {"restamp", "ready"} : Go(s) \/ Goes(s, FALSE)
  BY Zenon DEF DropsOld, Ready
<1>2. /\ UNCHANGED <<conf, build, run>> /\ step'.at = s
      /\ step'.force \in BOOLEAN /\ step' = [at |-> step'.at, force |-> step'.force]
  BY <1>1, Going DEF Stages
<1>3. UNCHANGED <<meta, staged, rows, stagedRows, dirty, bounds>>
  BY DEF DropsOld
<1>4. CASE UNCHANGED <<active, mixed>>
  BY <1>1, <1>2, <1>3, <1>4, Records, Calm DEF Stages, Phases, TypeOK
<1>5. CASE Removes(NameOf(meta))
  <2>1. /\ active' \in [Names -> SUBSET Chunks] /\ mixed' \subseteq {"chunking", "build", "geometry"}
        /\ OneGeneration'
    BY <1>2, <1>3, <1>5, Removing
  <2>2. TypeOK'
    BY <1>1, <1>2, <1>3, <2>1 DEF TypeOK
  <2>3. StartupAgrees' /\ RunAgrees'
    BY <1>1, <1>2, <1>3 DEF StartupAgrees, RunAgrees, Ours, Valid, NameOf, Chunk
  <2> QED BY <2>1, <2>2, <2>3
<1> QED BY <1>4, <1>5 DEF DropsOld

\* The meta is written over what is there, and that is on record.
LEMMA RestampsKeeps == ASSUME GInv, Restamps PROVE GInv'
<1> USE DEF GInv, At
<1>0. UNCHANGED <<active, staged, rows, stagedRows, dirty, bounds>>
  BY DEF Restamps
<1>1. CASE Stamps(MetaWith(conf.geometry)) /\ Goes("launch", TRUE)
  <2>1. /\ UNCHANGED <<conf, build, run>> /\ step'.at = "launch"
        /\ step'.force \in BOOLEAN /\ step' = [at |-> step'.at, force |-> step'.force]
    BY <1>1, Going DEF Stages
  <2>2. conf.geometry \in {c.geometry : c \in Confs} \cup {None}
    BY DEF TypeOK
  <2>3. /\ meta' \in Metas /\ mixed' \subseteq {"chunking", "build", "geometry"}
        /\ Ours' /\ OneGeneration'
    BY <1>0, <1>1, <2>1, <2>2, Stamping
  <2>4. TypeOK'
    BY <1>0, <2>1, <2>3 DEF TypeOK
  <2>5. StartupAgrees' /\ RunAgrees'
    BY <1>0, <2>1, <2>3 DEF StartupAgrees, RunAgrees, NameOf, Chunk
  <2> QED BY <2>3, <2>4, <2>5
<1>2. CASE UNCHANGED <<meta, mixed>> /\ Ready
  <2>1. /\ UNCHANGED <<conf, build, run>> /\ step'.at = "ready"
        /\ step'.force \in BOOLEAN /\ step' = [at |-> step'.at, force |-> step'.force]
    BY <1>2, Going DEF Stages, Ready
  <2> QED BY <1>0, <1>2, <2>1, Records, Calm DEF Stages, Phases, TypeOK
<1> QED BY <1>1, <1>2 DEF Restamps

\* Launches, requests and the watcher start runs and write nothing.
LEMMA StartingKeeps == ASSUME GInv, Starting PROVE GInv'
<1> USE DEF GInv, At
<1>1. ASSUME NEW force \in BOOLEAN, Starts(force)
      PROVE  /\ run'.phase = "reconcile" /\ run'.force \in BOOLEAN
             /\ run' = [phase |-> run'.phase, force |-> run'.force]
  <2>1. PICK forced \in {force, TRUE} : run' = [phase |-> "reconcile", force |-> forced]
    BY <1>1, Zenon DEF Starts
  <2>2. forced \in BOOLEAN
    BY <2>1
  <2> QED BY <2>1, <2>2
<1>2. CASE Launches
  <2>1. step.force \in BOOLEAN
    BY Records
  <2>2. run' = run \/ (/\ run'.phase = "reconcile" /\ run'.force \in BOOLEAN
                       /\ run' = [phase |-> run'.phase, force |-> run'.force])
    BY <1>1, <1>2, <2>1 DEF Launches
  <2> QED BY <1>2, <2>2, Records, Calm DEF Launches, Stages, Phases, TypeOK
<1>3. CASE WatcherStarts
  <2>1. /\ run'.phase = "reconcile" /\ run'.force \in BOOLEAN
        /\ run' = [phase |-> run'.phase, force |-> run'.force]
    BY <1>1, <1>3 DEF WatcherStarts
  <2> QED BY <1>3, <2>1, Records, Calm DEF WatcherStarts, Stages, Phases, TypeOK
<1>4. ASSUME NEW force \in BOOLEAN, Requests(force) PROVE GInv'
  <2>1. PICK s \in {"drop", "launch"} : Go(s) \/ Goes(s, force)
    BY <1>4, Zenon DEF Requests
  <2>2. /\ UNCHANGED <<conf, build, run>> /\ step'.at = s
        /\ step'.force \in BOOLEAN /\ step' = [at |-> step'.at, force |-> step'.force]
    BY <2>1, Going DEF Stages
  <2> QED BY <1>4, <2>1, <2>2, Records, Calm DEF Requests, Stages, Phases, TypeOK
<1> QED BY <1>2, <1>3, <1>4 DEF Starting

-----------------------------------------------------------------------------
\* The run.

\* The run stamps an unstamped index, drops a foreign one, refuses it, or goes on
\* under a meta of its own (ReconcileIndex).
LEMMA ReconcilesKeeps == ASSUME GInv, Reconciles PROVE GInv'
<1> USE DEF GInv
<1>0. run.phase = "reconcile" /\ UNCHANGED <<staged, rows, stagedRows, dirty, bounds>>
  BY DEF Reconciles
<1>1. \/ meta = None /\ Stamps(MetaWith(None)) /\ Phase("open") /\ UNCHANGED active
      \/ Phase("restamp") /\ UNCHANGED meta /\ (Removes(NameOf(meta)) \/ UNCHANGED <<active, mixed>>)
      \/ Ends /\ UNCHANGED <<meta, active, mixed>>
      \/ meta # None /\ ~Foreign /\ Phase("open") /\ UNCHANGED <<meta, active, mixed>>
  BY Zenon DEF Reconciles
<1>2. CASE meta = None /\ Stamps(MetaWith(None)) /\ Phase("open") /\ UNCHANGED active
  <2>1. /\ UNCHANGED <<conf, build, step>> /\ run'.phase = "open"
        /\ run'.force = run.force /\ run' = [phase |-> "open", force |-> run.force]
    BY <1>2, Phasing DEF Phases
  <2>2. /\ meta' \in Metas /\ mixed' \subseteq {"chunking", "build", "geometry"}
        /\ Ours' /\ OneGeneration'
    BY <1>2, <2>1, Stamping
  <2>3. TypeOK'
    BY <1>0, <1>2, <2>1, <2>2, Records DEF TypeOK
  <2>4. StartupAgrees' /\ RunAgrees'
    BY <1>0, <1>2, <2>1, <2>2 DEF StartupAgrees, Own, RunAgrees, NameOf
  <2> QED BY <2>2, <2>3, <2>4
<1>3. CASE Phase("restamp") /\ UNCHANGED meta /\ (Removes(NameOf(meta)) \/ UNCHANGED <<active, mixed>>)
  <2>1. /\ UNCHANGED <<conf, build, step>> /\ run'.phase = "restamp"
        /\ run' = [phase |-> "restamp", force |-> run.force]
    BY <1>3, Phasing DEF Phases
  <2>2. /\ active' \in [Names -> SUBSET Chunks] /\ mixed' \subseteq {"chunking", "build", "geometry"}
        /\ \A m \in Names : active'[m] \in {active[m], {}}
        /\ OneGeneration'
    <3>1. CASE Removes(NameOf(meta))
      BY <1>3, <2>1, <3>1, Removing
    <3>2. CASE UNCHANGED <<active, mixed>>
      BY <1>3, <2>1, <3>2 DEF TypeOK, OneGeneration, Described, NameOf
    <3> QED BY <1>3, <3>1, <3>2
  <2>3. TypeOK'
    BY <1>0, <1>3, <2>1, <2>2, Records DEF TypeOK
  <2>4. StartupAgrees' /\ RunAgrees'
    BY <1>0, <1>3, <2>1, <2>2, HereIsName DEF StartupAgrees, Own, RunAgrees, NameOf
  <2> QED BY <2>2, <2>3, <2>4
<1>4. CASE Ends /\ UNCHANGED <<meta, active, mixed>>
  <2>1. UNCHANGED <<conf, build, step>> /\ run'.phase = "none" /\ run' = [phase |-> "none", force |-> FALSE]
    BY <1>4, Ending
  <2> QED BY <1>0, <1>4, <2>1, Records, Calm DEF Stages, Phases, TypeOK
<1>5. CASE meta # None /\ ~Foreign /\ Phase("open") /\ UNCHANGED <<meta, active, mixed>>
  <2>1. /\ UNCHANGED <<conf, build, step>> /\ run'.phase = "open"
        /\ run'.force = run.force /\ run' = [phase |-> "open", force |-> run.force]
    BY <1>5, Phasing DEF Phases
  <2>2. TypeOK'
    BY <1>0, <1>5, <2>1, Records DEF TypeOK
  <2>3. StartupAgrees'
    BY <1>5, <2>1 DEF StartupAgrees, Own
  <2>4. RunAgrees'
    BY <1>5, <2>1 DEF RunAgrees, Ours, Valid, NameOf, Foreign
  <2> QED BY <1>5, <2>1, <2>2, <2>3, <2>4 DEF OneGeneration, Described, NameOf
<1> QED BY <1>1, <1>2, <1>3, <1>4, <1>5

\* The run's restamp, over a collection of its name that it keeps.
LEMMA RunRestampsKeeps == ASSUME GInv, RunRestamps PROVE GInv'
<1> USE DEF GInv, RunRestamps
<1>1. /\ UNCHANGED <<conf, build, step>> /\ run'.phase = "open"
      /\ run'.force = run.force /\ run' = [phase |-> "open", force |-> run.force]
  BY Phasing DEF Phases
<1>2. /\ meta' \in Metas /\ mixed' \subseteq {"chunking", "build", "geometry"}
      /\ Ours' /\ OneGeneration'
  BY <1>1, Stamping
<1>3. TypeOK'
  BY <1>1, <1>2, Records DEF TypeOK
<1>4. StartupAgrees' /\ RunAgrees'
  BY <1>1, <1>2 DEF StartupAgrees, Own, RunAgrees, NameOf
<1> QED BY <1>2, <1>3, <1>4

\* A forced run starts from an empty staging collection.
LEMMA OpensKeeps == ASSUME GInv, Opens PROVE GInv'
<1> USE DEF GInv, Opens
<1>1. /\ UNCHANGED <<conf, build, step>> /\ run'.phase = "index" /\ run.phase = "open"
      /\ run'.force = run.force /\ run' = [phase |-> "index", force |-> run.force]
      /\ UNCHANGED <<meta, active, rows, dirty, mixed, bounds>>
  BY Phasing DEF Phases
<1>2. /\ run.force => staged' = [staged EXCEPT ![NameOf(conf)] = {}] /\ stagedRows' \in {{}, stagedRows}
      /\ ~run.force => UNCHANGED <<staged, stagedRows>>
  OBVIOUS
<1>3. TypeOK'
  BY <1>1, <1>2, Records DEF TypeOK
<1>4. StartupAgrees'
  BY <1>1 DEF StartupAgrees, Own
<1>5. RunAgrees'
  BY <1>1, <1>2, HereIsName DEF RunAgrees, Ours, Valid, NameOf, TypeOK
<1> QED BY <1>1, <1>3, <1>4, <1>5 DEF OneGeneration, Described, NameOf

\* A run ends without a write.
LEMMA EndKeeps == ASSUME GInv, RunEnds PROVE GInv'
<1>1. UNCHANGED <<conf, build, step>> /\ run'.phase = "none" /\ run' = [phase |-> "none", force |-> FALSE]
  BY Ending DEF RunEnds
<1> QED BY <1>1, Records, Calm DEF RunEnds, Stages, Phases, GInv, TypeOK

\* A file is indexed: into staging by a forced run; else beside the chunks that
\* the meta describes, and the zvec-go is on record where it is another.
LEMMA IndexesKeeps == ASSUME GInv, NEW f \in Files, Indexes(f) PROVE GInv'
<1> USE DEF GInv
<1> DEFINE put(s) == {d \in s : d.file # f} \cup {Chunk(f)}
<1>0. run.phase = "index" /\ Ours /\ UNCHANGED <<conf, build, step, run, meta, bounds>>
  BY DEF Indexes, RunAgrees
<1>1. Chunk(f) \in Chunks /\ Chunk(f).chunking = conf.chunking /\ Chunk(f).build = build
  BY ChunkIsOurs
<1>2. CASE run.force
  <2>1. /\ stagedRows' = stagedRows \cup {f} /\ UNCHANGED <<active, rows, dirty, mixed>>
        /\ staged' = [staged EXCEPT ![NameOf(conf)] = put(@)]
    BY <1>2 DEF Indexes
  <2>2. staged'[NameOf(conf)] = put(staged[NameOf(conf)])
    BY <2>1, HereIsName DEF TypeOK
  <2>3. staged'[NameOf(conf)] \subseteq {Chunk(g) : g \in Files}
    BY <1>0, <1>2, <2>2 DEF RunAgrees
  <2>4. TypeOK'
    BY <1>0, <1>1, <2>1 DEF TypeOK
  <2>5. RunAgrees'
    BY <1>0, <2>3 DEF RunAgrees, Ours, Valid, NameOf, Chunk
  <2> QED BY <1>0, <2>1, <2>4, <2>5 DEF StartupAgrees, Own, OneGeneration, Described, NameOf
<1>3. CASE ~run.force
  <2>1. /\ active' = [active EXCEPT ![NameOf(conf)] = put(@)]
        /\ rows' = rows \cup {f} /\ dirty' = dirty \ {f} /\ UNCHANGED <<staged, stagedRows>>
        /\ mixed' = IF meta.build = build THEN mixed ELSE mixed \cup {"build"}
    BY <1>3 DEF Indexes
  <2>2. active'[NameOf(conf)] = put(active[NameOf(conf)])
    BY <2>1, HereIsName DEF TypeOK
  <2>3. TypeOK'
    BY <1>0, <1>1, <2>1 DEF TypeOK
  <2>4. StartupAgrees'
    BY <1>0, <1>1, <2>2 DEF StartupAgrees, Own
  <2>5. RunAgrees'
    BY <1>0, <1>3, <2>1 DEF RunAgrees, Ours, Valid, NameOf
  <2>6. OneGeneration'
    BY <1>0, <1>1, <2>1, <2>2 DEF OneGeneration, Described, Ours, Valid
  <2> QED BY <2>3, <2>4, <2>5, <2>6
<1> QED BY <1>2, <1>3

-----------------------------------------------------------------------------
\* The promotion.

\* The active collection is moved aside.
LEMMA MovesKeeps == ASSUME GInv, MovesAside PROVE GInv'
<1> USE DEF GInv, MovesAside
<1>1. /\ UNCHANGED <<conf, build, step>> /\ run'.phase = "swap" /\ run.phase = "index" /\ run.force
      /\ run'.force = run.force /\ run' = [phase |-> "swap", force |-> run.force]
      /\ UNCHANGED <<meta, staged, rows, stagedRows, dirty, bounds>>
  BY Phasing DEF Phases
<1>2. /\ active' \in [Names -> SUBSET Chunks] /\ mixed' \subseteq {"chunking", "build", "geometry"}
      /\ active'[NameOf(conf)] = {} /\ OneGeneration'
  BY <1>1, Removing, HereIsName
<1>3. TypeOK'
  BY <1>1, <1>2, Records DEF TypeOK
<1>4. StartupAgrees' /\ RunAgrees'
  BY <1>1, <1>2 DEF StartupAgrees, RunAgrees, Ours, Valid, NameOf, Chunk
<1> QED BY <1>2, <1>3, <1>4

\* The staged chunks, all of this process, take the place of the active ones.
LEMMA SwapsKeeps ==
  ASSUME GInv, Swaps
  PROVE  GInv' /\ active'[Here] \subseteq {Chunk(f) : f \in Files} /\ UNCHANGED conf
<1> USE DEF GInv, Swaps
<1>0. /\ run.phase = "swap" /\ run.force /\ Ours
      /\ staged[NameOf(conf)] \subseteq {Chunk(f) : f \in Files}
  BY DEF RunAgrees
<1>1. /\ UNCHANGED <<conf, build, step>> /\ run'.phase \in {"rows", "none"} /\ run'.force \in BOOLEAN
      /\ run' = [phase |-> run'.phase, force |-> run'.force] /\ stagedRows' \in {stagedRows, {}}
  <2>1. CASE Phase("rows") /\ UNCHANGED stagedRows
    BY <2>1, Phasing, Records DEF Phases
  <2>2. CASE Ends /\ stagedRows' = {}
    BY <2>2, Ending
  <2> QED BY <2>1, <2>2
<1>2. /\ active' = [active EXCEPT ![NameOf(conf)] = staged[NameOf(conf)]]
      /\ staged' = [staged EXCEPT ![NameOf(conf)] = {}]
      /\ mixed' = IF meta.build = build THEN {} ELSE {"build"}
      /\ UNCHANGED <<meta, rows, dirty, bounds>>
  OBVIOUS
<1>3. active'[NameOf(conf)] = staged[NameOf(conf)]
  BY <1>2, HereIsName DEF TypeOK
<1>4. \A d \in active'[NameOf(conf)] : d.chunking = conf.chunking /\ d.build = build
  BY <1>0, <1>3, ChunkIsOurs
<1>5. TypeOK'
  BY <1>1, <1>2, HereIsName DEF TypeOK
<1>6. StartupAgrees'
  BY <1>1, <1>4 DEF StartupAgrees, Own
<1>7. RunAgrees'
  BY <1>0, <1>1, <1>2 DEF RunAgrees, Ours, Valid, NameOf
<1>8. OneGeneration'
  BY <1>0, <1>2, <1>4 DEF OneGeneration, Described, Ours, Valid
<1> QED BY <1>0, <1>1, <1>3, <1>5, <1>6, <1>7, <1>8

\* A promotion that fails discards the staged build.
LEMMA FailedKeeps == ASSUME GInv, PromotionFails PROVE GInv'
<1> USE DEF GInv, PromotionFails
<1>1. /\ UNCHANGED <<conf, build, step>> /\ run'.phase = "none" /\ run' = [phase |-> "none", force |-> FALSE]
      /\ UNCHANGED <<meta, active, rows, dirty, mixed, bounds>> /\ stagedRows' = {}
      /\ staged' = [staged EXCEPT ![NameOf(conf)] = {}]
  BY Ending
<1>2. TypeOK'
  BY <1>1 DEF TypeOK
<1> QED BY <1>1, <1>2 DEF StartupAgrees, Own, RunAgrees, OneGeneration, Described, NameOf

\* The manifest, at last.
LEMMA ManifestKeeps == ASSUME GInv, SwapsManifest PROVE GInv'
<1> USE DEF GInv, SwapsManifest
<1>1. /\ UNCHANGED <<conf, build, step>> /\ run'.phase = "none" /\ run' = [phase |-> "none", force |-> FALSE]
      /\ UNCHANGED <<meta, active, staged, mixed, bounds>>
      /\ rows' \in {stagedRows, {}} /\ stagedRows' \in {stagedRows, {}} /\ dirty' \subseteq dirty
  BY Ending
<1>2. TypeOK'
  BY <1>1 DEF TypeOK
<1> QED BY <1>1, <1>2 DEF StartupAgrees, Own, RunAgrees, OneGeneration, Described, NameOf

-----------------------------------------------------------------------------
\* An edit touches nothing of the index but its agreement with the disk.
LEMMA EditsKeep == ASSUME GInv, NEW f \in Files, Edits(f) PROVE GInv'
<1> USE DEF GInv
<1>1. dirty' = dirty \cup {f} /\ edits' = edits + 1 /\ UNCHANGED <<disk, process, mixed, restarts>>
  BY DEF Edits
<1>2. TypeOK'
  BY <1>1 DEF TypeOK
<1> QED BY <1>1, <1>2 DEF StartupAgrees, Own, RunAgrees, Ours, Valid, NameOf, Chunk, OneGeneration, Described

\* The first process finds nothing, or an index of an older zvec-go without a meta.
LEMMA InitHolds == Init => GInv
<1> SUFFICES ASSUME Init PROVE GInv
  OBVIOUS
<1>1. PICK old \in {{}} \cup {{[Chunk(f) EXCEPT !.build = b] : f \in Files} : b \in Builds \ {build}} :
         active = [n \in Names |-> IF n = NameOf(conf) THEN old ELSE {}] /\ rows = {d.file : d \in old}
  BY DEF Init
<1>2. conf \in Confs /\ build \in Builds
  BY DEF Init
<1>3. ASSUME NEW f \in Files, NEW b \in Builds
      PROVE  [Chunk(f) EXCEPT !.build = b] \in Chunks
  BY <1>2 DEF Chunk, Chunks
<1>4. old \in SUBSET Chunks
  BY <1>1, <1>3
<1>5. rows \subseteq Files
  BY <1>1, <1>4 DEF Chunks
<1>6. TypeOK
  BY <1>1, <1>2, <1>4, <1>5 DEF Init, TypeOK, Idle
<1> QED BY <1>6 DEF Init, GInv, StartupAgrees, RunAgrees, OneGeneration, Idle

\* Every step keeps GInv.
LEMMA StepKeeps == GInv /\ [Next]_vars => GInv'
<1> SUFFICES ASSUME GInv, [Next]_vars PROVE GInv'
  OBVIOUS
<1>1. CASE Startup
  BY <1>1, ChecksKeep, WipesKeeps, ClearsKeeps, StampsKeeps DEF Startup
<1>2. CASE Reset
  BY <1>2, DropsKeeps, RestampsKeeps DEF Reset
<1>3. CASE Starting
  BY <1>3, StartingKeeps
<1>4. CASE Running
  BY <1>4, ReconcilesKeeps, RunRestampsKeeps, OpensKeeps, EndKeeps DEF Running
<1>5. CASE Promotes
  BY <1>5, MovesKeeps, SwapsKeeps, FailedKeeps, ManifestKeeps DEF Promotes
<1>6. CASE Restarts
  BY <1>6, RestartsKeep
<1>7. CASE \E f \in Files : Indexes(f) \/ Edits(f)
  BY <1>7, IndexesKeeps, EditsKeep
<1>8. CASE UNCHANGED vars
  BY <1>8 DEF GInv, TypeOK, StartupAgrees, Own, RunAgrees, OneGeneration, Described, Ours, Valid, NameOf, Chunk
<1> QED BY <1>1, <1>2, <1>3, <1>4, <1>5, <1>6, <1>7, <1>8 DEF Next

\* The strengthened invariant: the meta, the chunks, the startup and the run agree.
THEOREM IdentityInvariant == Spec => []GInv
BY InitHolds, StepKeeps, PTL DEF Spec

\* Whatever crashes, fails, is upgraded or reconfigured, index_meta.json names the
\* chunking and the zvec-go of all chunks it describes, except in what is on
\* record: a stamp written over an index of another kind, or an incremental run
\* under the stamp of another zvec-go (reconcile.go:77, migrate.go:44).
THEOREM OneGenerationHolds == Spec => []OneGeneration
BY IdentityInvariant, PTL DEF GInv

-----------------------------------------------------------------------------
\* In the middle of a promotion only its next step puts chunks into the active
\* collection.
LEMMA OnlySwaps ==
  ASSUME GInv, [Next]_vars, run.phase = "swap"
  PROVE  Swaps \/ active'[NameOf(conf)] \in {active[NameOf(conf)], {}}
<1>1. TypeOK /\ NameOf(conf) \in Names
  BY HereIsName DEF GInv
<1>2. ASSUME NEW n, Removes(n) PROVE active'[NameOf(conf)] \in {active[NameOf(conf)], {}}
  BY <1>1, <1>2 DEF Removes, TypeOK
<1>3. CASE Startup \/ Reset
  BY <1>2, <1>3
     DEF Startup, Reset, ChecksBuild, Wipes, ClearsManifest, StampsBuild, ChecksIdentity, DropsOld, Restamps
<1>4. CASE Starting \/ Restarts
  BY <1>4 DEF Starting, Launches, WatcherStarts, Requests, Restarts
<1>5. CASE Running
  BY <1>5 DEF Running, Reconciles, RunRestamps, Opens, RunEnds
<1>6. CASE Promotes
  BY <1>2, <1>6 DEF Promotes, MovesAside, PromotionFails, SwapsManifest
<1>7. CASE \E f \in Files : Indexes(f) \/ Edits(f)
  BY <1>7 DEF Indexes, Edits
<1>8. CASE UNCHANGED vars
  BY <1>8
<1> QED BY <1>3, <1>4, <1>5, <1>6, <1>7, <1>8 DEF Next

\* A rebuild publishes chunks of its own configuration and zvec-go only, whatever
\* an interrupted rebuild left (coordinator.go:344) and whatever runs beside it.
THEOREM RebuildIsPureHolds == Spec => RebuildIsPure
<1>1. ASSUME GInv, [Next]_vars, run.phase = "swap", active'[Here] # active[Here]
      PROVE  active'[Here] \subseteq {Chunk(f) : f \in Files}
  BY <1>1, OnlySwaps, SwapsKeeps
<1> QED BY <1>1, IdentityInvariant, PTL DEF Spec, RebuildIsPure
=============================================================================
