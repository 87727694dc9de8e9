------------------------------- MODULE Identity -------------------------------
(***************************************************************************)
(* What index_meta.json says of an index directory, and what is in it: the *)
(* migrations at the start of a service, forced and incremental reindexing *)
(* across restarts under another configuration or another zvec-go.         *)
(* internal/store/zvec/{meta,reconcile,migrate}.go, service/phase1.go      *)
(* (PrepareStartup, Reindex), indexer/coordinator.go (Start, run)          *)
(***************************************************************************)
EXTENDS Naturals, FiniteSets

CONSTANTS
  Files,        \* files of the workspace
  Confs,        \* configurations: [profile, root, chunking, geometry, auto]
  Initial,      \* bound: those a first process may have
  Builds,       \* versions of zvec-go the program may be linked with
  MaxRestarts,  \* bound: restarts
  MaxEdits,     \* bound: edits of indexed files
  None

\* The name of a collection is a hash of the root (or the collection id), the
\* profile and its dimensions.
NameOf(m) == <<m.profile, m.root>>
Names == {NameOf(c) : c \in Confs}

\* The index_meta.json that the configurations and builds can write.
Metas ==
  {m \in [profile : {c.profile : c \in Confs}, root : {c.root : c \in Confs},
          chunking : {c.chunking : c \in Confs},
          geometry : {c.geometry : c \in Confs} \cup {None}, build : Builds] : NameOf(m) \in Names}

ASSUME IdentityAssumption ==
  /\ Initial \subseteq Confs /\ None \notin Builds \cup Metas
  /\ MaxRestarts \in Nat /\ MaxEdits \in Nat

VARIABLES
  conf, build,  \* the configuration and the zvec-go of the current process
  meta,         \* index_meta.json, or None
  active,       \* active[n]: the chunks of the collection of that name
  staged,       \* staged[n]: those of its staging collection
  rows,         \* files that have a row in manifest.db
  stagedRows,   \* files that have one in the staging manifest
  dirty,        \* files changed since their row was written
  step,         \* where the startup or the request is: [at, force]
  run,          \* the indexing run: [phase, force]
  mixed,        \* ghost: in what the chunks may differ from the meta, since it was
                \* written over an index of another kind
  restarts, edits

disk == <<meta, active, staged, rows, stagedRows>>
process == <<conf, build, step, run>>
bounds == <<restarts, edits>>
vars == <<disk, process, dirty, mixed, bounds>>

-----------------------------------------------------------------------------
\* Identities.

Here == NameOf(conf)

\* indexMetaFromIdentity; only the service computes the chunking fingerprint.
MetaWith(geometry) ==
  [profile |-> conf.profile, root |-> conf.root, chunking |-> conf.chunking,
   geometry |-> geometry, build |-> build]

\* Slip: the chunking of the index is not looked at.
ValidButChunking(m) == m.profile = conf.profile

\* ValidateIndexMeta.  The workspace id is pinned: a move of the root passes.
Valid(m) == m.profile = conf.profile /\ m.chunking = conf.chunking

\* IndexIdentityMismatch, with the fingerprint the service passes.
Mismatch ==
  meta # None /\ (~Valid(meta) \/ meta.geometry \notin {None, conf.geometry})

\* ReconcileIndex, in the run: without a fingerprint, but with the name.
Foreign == meta # None /\ (~Valid(meta) \/ NameOf(meta) # Here)

NeedsMigration ==
  IF meta # None THEN meta.build # build
                 ELSE rows # {} \/ \E n \in Names : active[n] # {}

Chunk(f) ==
  [file |-> f, chunking |-> conf.chunking, geometry |-> conf.geometry, build |-> build]

\* The meta m is written over the collection of this process.  What it says of
\* the chunks there is right as far as the old meta described them, told the
\* truth, and said the same.
Stamps(m) ==
  LET kept == meta # None /\ NameOf(meta) = Here
      off(k) == active[Here] # {} /\ (kept => k \in mixed \/ meta[k] # m[k])
  IN meta' = m /\ mixed' = {k \in {"chunking", "build", "geometry"} : off(k)}

\* A collection is removed: of the one that the meta describes nothing is left.
Removes(n) ==
  /\ active' = [active EXCEPT ![n] = {}]
  /\ mixed' = IF meta # None /\ NameOf(meta) = n THEN {} ELSE mixed

-----------------------------------------------------------------------------
At(s) == step.at = s
Go(s) == step' = [step EXCEPT !.at = s] /\ UNCHANGED <<conf, build, run>>
Goes(s, force) == step' = [at |-> s, force |-> force] /\ UNCHANGED <<conf, build, run>>
Ready == Goes("ready", FALSE)
Idle == [phase |-> "none", force |-> FALSE]

Init ==
  /\ conf \in Initial /\ build \in Builds
  /\ meta = None
  /\ \E old \in {{}} \cup {{[Chunk(f) EXCEPT !.build = b] : f \in Files} : b \in Builds \ {build}} :
       /\ active = [n \in Names |-> IF n = Here THEN old ELSE {}]
       /\ rows = {d.file : d \in old}
  /\ staged = [n \in Names |-> {}] /\ stagedRows = {}
  /\ dirty = {} /\ mixed = {}
  /\ step = [at |-> "migrate", force |-> FALSE]
  /\ run = Idle
  /\ restarts = 0 /\ edits = 0

\* PrepareStartup, beside a watcher that has been started already.  First
\* runZvecGoMigrationIfNeeded; whatever fails, the startup goes on with the
\* identity.
ChecksBuild ==
  /\ At("migrate")
  /\ Go(IF NeedsMigration THEN "wipe" ELSE "identity")
  /\ UNCHANGED <<disk, dirty, mixed, bounds>>

Wipes ==
  /\ At("wipe")
  /\ \/ Removes(Here) /\ Go("clear")
     \/ UNCHANGED <<active, mixed>> /\ Go("identity")
  /\ UNCHANGED <<meta, staged, rows, stagedRows, dirty, bounds>>

ClearsManifest ==
  /\ At("clear")
  /\ \/ rows' = {} /\ dirty' = dirty \cap stagedRows /\ Go("stamp")
     \/ UNCHANGED <<rows, dirty>> /\ Go("identity")
  /\ UNCHANGED <<meta, active, staged, stagedRows, mixed, bounds>>

\* What is in the collection now, a run of this process has put there.
StampsBuild ==
  /\ At("stamp")
  /\ \/ /\ meta' = MetaWith(None) /\ mixed' = {}
        /\ IF conf.auto THEN Goes("launch", TRUE) ELSE Ready
     \/ UNCHANGED <<meta, mixed>> /\ Go("identity")
  /\ UNCHANGED <<active, staged, rows, stagedRows, dirty, bounds>>

\* Then runIdentityMigrationIfNeeded, and StartAutoIndex.
ChecksIdentity ==
  /\ At("identity")
  /\ CASE Mismatch /\ conf.auto -> Go("drop")
       [] ~Mismatch /\ conf.auto -> Goes("launch", FALSE)
       [] OTHER -> Ready
  /\ UNCHANGED <<disk, dirty, mixed, bounds>>

\* ResetIndexForIdentityChange: the directory of another name, then the meta.
DropsOld ==
  /\ At("drop")
  /\ \/ /\ IF meta = None \/ NameOf(meta) = Here THEN UNCHANGED <<active, mixed>> ELSE Removes(NameOf(meta))
        /\ Go("restamp")
     \/ UNCHANGED <<active, mixed>> /\ Ready
  /\ UNCHANGED <<meta, staged, rows, stagedRows, dirty, bounds>>

\* The chunks that the new meta does not describe stay, until a rebuild has
\* replaced them.
Restamps ==
  /\ At("restamp")
  /\ \/ Stamps(MetaWith(conf.geometry)) /\ Goes("launch", TRUE)
     \/ UNCHANGED <<meta, mixed>> /\ Ready
  /\ UNCHANGED <<active, staged, rows, stagedRows, dirty, bounds>>

-----------------------------------------------------------------------------
\* Coordinator.Start, by the startup, a request or the watcher; a run that is in
\* progress refuses it.  A start that finds manifest and vectors in disagreement
\* forces the run: what it compares is IndexRun's, here the answer is left open.
Starts(force) == \E forced \in {force, TRUE} : run' = [phase |-> "reconcile", force |-> forced]

Launches ==
  /\ At("launch")
  /\ IF run.phase = "none" THEN Starts(step.force) ELSE UNCHANGED run
  /\ step' = [at |-> "ready", force |-> FALSE]
  /\ UNCHANGED <<conf, build, disk, dirty, mixed, bounds>>

\* The watcher calls Start whatever the startup or a request is doing.
WatcherStarts ==
  /\ run.phase = "none"
  /\ Starts(FALSE)
  /\ UNCHANGED <<conf, build, step, disk, dirty, mixed, bounds>>

\* Reindex: an idle service, then the identity, then Start.
Requests(force) ==
  /\ At("ready") /\ run.phase = "none"
  /\ Mismatch => force
  /\ IF Mismatch THEN Go("drop") ELSE Goes("launch", force)
  /\ UNCHANGED <<disk, dirty, mixed, bounds>>

-----------------------------------------------------------------------------
\* Coordinator.run.
Phase(p) == run' = [run EXCEPT !.phase = p] /\ UNCHANGED <<conf, build, step>>
Ends == run' = Idle /\ UNCHANGED <<conf, build, step>>

\* ReconcileIndex.
Reconciles ==
  /\ run.phase = "reconcile"
  /\ CASE meta = None -> Stamps(MetaWith(None)) /\ Phase("open") /\ UNCHANGED active
       [] Foreign /\ run.force ->
            /\ IF NameOf(meta) = Here THEN UNCHANGED <<active, mixed>> ELSE Removes(NameOf(meta))
            /\ Phase("restamp") /\ UNCHANGED meta
       [] Foreign /\ ~run.force -> Ends /\ UNCHANGED <<meta, active, mixed>>
       [] OTHER -> Phase("open") /\ UNCHANGED <<meta, active, mixed>>
  /\ UNCHANGED <<staged, rows, stagedRows, dirty, bounds>>

RunRestamps ==
  /\ run.phase = "restamp"
  /\ Stamps(MetaWith(None)) /\ Phase("open")
  /\ UNCHANGED <<active, staged, rows, stagedRows, dirty, bounds>>

\* Slip: what an interrupted build left in staging is kept.
OpensAsLeft ==
  /\ run.phase = "open"
  /\ Phase("index")
  /\ UNCHANGED <<disk, dirty, mixed, bounds>>

\* A forced run builds into staging, which it empties first; that the old staging
\* manifest could not be removed is passed over.
Opens ==
  /\ run.phase = "open"
  /\ IF run.force THEN staged' = [staged EXCEPT ![Here] = {}] /\ stagedRows' \in {{}, stagedRows}
                  ELSE UNCHANGED <<staged, stagedRows>>
  /\ Phase("index")
  /\ UNCHANGED <<meta, active, rows, dirty, mixed, bounds>>

\* A file with an unchanged row is passed over; the old chunks of others go.  An
\* incremental run writes beside what is there, whatever the migration was.
Indexes(f) ==
  LET put(s) == {d \in s : d.file # f} \cup {Chunk(f)} IN
  /\ run.phase = "index"
  /\ IF run.force
       THEN /\ staged' = [staged EXCEPT ![Here] = put(@)]
            /\ stagedRows' = stagedRows \cup {f}
            /\ UNCHANGED <<active, rows, dirty, mixed>>
       ELSE /\ f \notin rows \/ f \in dirty
            /\ active' = [active EXCEPT ![Here] = put(@)]
            /\ rows' = rows \cup {f} /\ dirty' = dirty \ {f}
            /\ mixed' = IF meta.build = build THEN mixed ELSE mixed \cup {"build"}
            /\ UNCHANGED <<staged, stagedRows>>
  /\ UNCHANGED <<meta, process, bounds>>

\* A rebuild is published with the files it has: others were skipped.  The active
\* collection is moved aside, the staged one takes its place.
MovesAside ==
  /\ run.phase = "index" /\ run.force /\ staged[Here] # {}
  /\ Removes(Here) /\ Phase("swap")
  /\ UNCHANGED <<meta, staged, rows, stagedRows, dirty, bounds>>

\* The removal of what was moved aside may fail, and the manifest is discarded.
Swaps ==
  /\ run.phase = "swap"
  /\ active' = [active EXCEPT ![Here] = staged[Here]]
  /\ staged' = [staged EXCEPT ![Here] = {}]
  /\ mixed' = IF meta.build = build THEN {} ELSE {"build"}
  /\ \/ Phase("rows") /\ UNCHANGED stagedRows
     \/ Ends /\ stagedRows' = {}
  /\ UNCHANGED <<meta, rows, dirty, bounds>>

\* A rename fails.  The active collection has been put back, or could not be.
PromotionFails ==
  /\ run.force /\ run.phase \in {"index", "swap"}
  /\ staged' = [staged EXCEPT ![Here] = {}] /\ stagedRows' = {}
  /\ Ends
  /\ UNCHANGED <<meta, active, rows, dirty, mixed, bounds>>

\* The manifest, likewise; the old one may be gone and the new one not there.
\* What was edited during the rebuild stays dirty.
SwapsManifest ==
  /\ run.phase = "rows"
  /\ \/ rows' = stagedRows /\ stagedRows' = {} /\ dirty' \in SUBSET (dirty \cap stagedRows)
     \/ rows' = {} /\ UNCHANGED <<stagedRows, dirty>>
  /\ Ends
  /\ UNCHANGED <<meta, active, staged, mixed, bounds>>

\* The files are done, or a step fails, or the context is cancelled.
RunEnds ==
  /\ run.phase \notin {"none", "swap"} /\ Ends
  /\ UNCHANGED <<disk, dirty, mixed, bounds>>

Edits(f) ==
  /\ edits < MaxEdits /\ f \in (rows \cup stagedRows) \ dirty
  /\ dirty' = dirty \cup {f} /\ edits' = edits + 1
  /\ UNCHANGED <<disk, process, mixed, restarts>>

\* The process ends at any point, and another starts, perhaps of another
\* version, under another configuration.
Restarts ==
  /\ restarts < MaxRestarts /\ restarts' = restarts + 1
  /\ conf' \in Confs /\ build' \in Builds
  /\ step' = [at |-> "migrate", force |-> FALSE]
  /\ run' = Idle
  /\ UNCHANGED <<disk, dirty, mixed, edits>>

Startup == ChecksBuild \/ Wipes \/ ClearsManifest \/ StampsBuild \/ ChecksIdentity
Reset == DropsOld \/ Restamps
Starting == Launches \/ WatcherStarts \/ \E force \in BOOLEAN : Requests(force)
Running == Reconciles \/ RunRestamps \/ Opens \/ RunEnds
Promotes == MovesAside \/ Swaps \/ PromotionFails \/ SwapsManifest

Next ==
  \/ Startup \/ Reset \/ Starting \/ Running \/ Promotes \/ Restarts
  \/ \E f \in Files : Indexes(f) \/ Edits(f)

Spec == Init /\ [][Next]_vars

-----------------------------------------------------------------------------
\* Properties.

Chunks ==
  [file : Files, chunking : {c.chunking : c \in Confs},
   geometry : {c.geometry : c \in Confs}, build : Builds]

TypeOK ==
  /\ conf \in Confs /\ build \in Builds
  /\ meta \in Metas \cup {None}
  /\ active \in [Names -> SUBSET Chunks] /\ staged \in [Names -> SUBSET Chunks]
  /\ rows \subseteq Files /\ stagedRows \subseteq Files /\ dirty \subseteq Files
  /\ step \in [at : {"migrate", "wipe", "clear", "stamp", "identity", "drop", "restamp", "launch",
                     "ready"}, force : BOOLEAN]
  /\ run \in [phase : {"none", "reconcile", "restamp", "open", "index", "swap", "rows"}, force : BOOLEAN]
  /\ mixed \subseteq {"chunking", "build", "geometry"}
  /\ restarts \in Nat /\ edits \in Nat

\* The collection that index_meta.json describes.
Described == active[NameOf(meta)]

\* index_meta.json names the chunking and the zvec-go of every chunk in the index
\* it describes, through crashes, restarts and failures at any point
\* (reconcile.go:77, migrate.go:44), but for what is on record: a reset writes
\* the new meta over an index of another chunking and leaves it to a rebuild; an
\* index without a meta is stamped by a run that comes before the migration or
\* after it has failed; and then incremental runs go on under the stamp of
\* another zvec-go.  These end with a rebuild that is published or a collection
\* that is removed, and with nothing else.
OneGeneration ==
  meta # None => \A d \in Described :
    /\ "chunking" \notin mixed => d.chunking = meta.chunking
    /\ "build" \notin mixed => d.build = meta.build

\* The meta is the one this process would write, geometry aside.
Ours == meta # None /\ Valid(meta) /\ NameOf(meta) = Here

Own(d) == d.chunking = conf.chunking /\ d.build = build

\* Between the wipe and the stamp only runs of this process put chunks there.
StartupAgrees == step.at \in {"clear", "stamp"} => \A d \in active[Here] : Own(d)

\* A run writes under a meta of its own, whatever is restamped meanwhile.
RunAgrees ==
  /\ run.phase \in {"open", "index", "swap", "rows"} => Ours
  /\ run.phase = "swap" => run.force
  /\ run.phase \in {"index", "swap"} /\ run.force => staged[Here] \subseteq {Chunk(f) : f \in Files}

GInv == TypeOK /\ StartupAgrees /\ RunAgrees /\ OneGeneration

\* What a rebuild publishes is of its own configuration and build, whatever an
\* interrupted rebuild of another left in staging (coordinator.go:344) and
\* whatever is restamped, wiped or refused beside it.
RebuildIsPure ==
  [][run.phase = "swap" /\ active'[Here] # active[Here]
       => active'[Here] \subseteq {Chunk(f) : f \in Files}]_vars

\* "The fingerprint makes such a change visible as an identity mismatch" and
\* "mixing geometries in one index silently degrades results" (reconcile.go): an
\* index holds chunks of one geometry, unless a restamp was written over it.
OneGeometry ==
  meta # None /\ "geometry" \notin mixed =>
    \A d, e \in Described : d.geometry = e.geometry
=============================================================================
