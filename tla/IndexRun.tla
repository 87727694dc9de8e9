------------------------------ MODULE IndexRun ------------------------------
(***************************************************************************)
(* One collection's index through indexing runs, failures and crashes: the *)
(* vectors in zvec, the manifest rows that name them, and the cleanup      *)
(* journal that insures the deletion of stale ones.  Every action is one   *)
(* durable operation or one read of the working tree, so that a crash can  *)
(* fall between any two.  internal/indexer/coordinator.go (Start, run,     *)
(* indexFile), internal/store/manifest, internal/store/zvec/staging.go     *)
(***************************************************************************)
EXTENDS Naturals, FiniteSets, Sequences

CONSTANTS
  Files,          \* relative paths in the workspace
  Text,           \* Text[f][e]: the document ids of f's chunks after edit e
  Removals,       \* Removals[f]: the edits that remove the file
  None,
  MayFail         \* operations on zvec, the manifest, the journal and directories
                  \* may fail

Edits(f) == DOMAIN Text[f]
DocsOf(f) == UNION {Text[f][e] : e \in Edits(f)}
Docs == UNION {DocsOf(f) : f \in Files}
Rows == [stamp : Nat, ids : SUBSET Docs]

\* A document id is a hash over the path, so no two files share one.
ASSUME IndexAssumption ==
  /\ \A f \in Files : /\ Text[f] \in Seq(SUBSET Docs) /\ Len(Text[f]) > 0
                      /\ IsFiniteSet(DocsOf(f))
  /\ \A f, g \in Files : f # g => DocsOf(f) \cap DocsOf(g) = {}
  /\ None \notin Files \cup Rows /\ IsFiniteSet(Files)
  /\ MayFail \in BOOLEAN

VARIABLES
  disk,     \* disk[f]: the latest edit of f; it stands for mtime, size and hash
  col,      \* document ids in the active collection
  man,      \* man[f]: f's row of manifest.db, [stamp, ids], or None
  journal,  \* document ids in cleanup.jsonl, or None when there is no such file
  stCol,    \* the staging collection of a forced run
  stMan,    \* manifest.staging.db
  pc,       \* where the run is
  force,    \* the run rebuilds everything in staging
  todo,     \* discovered files still to be looked at
  found,    \* the discovered set
  cur,      \* the file at hand
  stamp,    \* its edit when it was stat'ed and hashed
  rest,     \* its chunks still to be written
  fresh,    \* newDocIDs: its chunks known to be written
  stale,    \* its old document ids that are not in fresh
  outcome,  \* "ok", "warnings" (files failed) or "error"
  asks,     \* callers of Start that found no reason to rebuild and have not
            \* started yet: "fresh", or "overtaken" by what happened since
  base,     \* history: disk when the run began
  whole,    \* history: the run rebuilds everything, or began with the vectors of
            \* all its rows
  settled,  \* history: ... and with no other vectors
  intact    \* history: no replay, removal or append of the journal has failed

diskVars == <<col, man, journal, stCol, stMan>>
fileVars == <<cur, stamp, rest, fresh, stale>>
planVars == <<force, todo, found>>
\* What a run leaves alone while it works.
kept == <<asks, base, settled, whole, intact>>
vars == <<disk, diskVars, pc, planVars, fileVars, outcome, kept>>

NoRows == [f \in Files |-> None]
RowIds(m) == UNION {m[f].ids : f \in {f \in Files : m[f] # None}}
ManifestIds == RowIds(man)

\* The file is in the working tree.
There(f) == disk[f] \notin Removals[f]

NoFile == /\ cur' = None /\ stamp' = 0 /\ rest' = {} /\ fresh' = {} /\ stale' = {}

Init ==
  /\ disk = [f \in Files |-> 1]
  /\ col = {} /\ man = NoRows /\ journal = None
  /\ stCol = {} /\ stMan = NoRows
  /\ pc = "idle" /\ force = FALSE /\ todo = {} /\ found = {}
  /\ cur = None /\ stamp = 0 /\ rest = {} /\ fresh = {} /\ stale = {}
  /\ outcome = "ok"
  /\ asks = {} /\ base = disk /\ whole = TRUE /\ settled = TRUE /\ intact = TRUE

-----------------------------------------------------------------------------
\* Start, and the beginning of run.

\* The user edits, removes or restores a file, at any time.
Edit(f) ==
  /\ disk[f] < Len(Text[f])
  /\ disk' = [disk EXCEPT ![f] = @ + 1]
  /\ UNCHANGED <<diskVars, pc, planVars, fileVars, outcome, kept>>

\* Slip: the vectors are counted, not looked up.
DesyncByCount == ManifestIds # {} /\ Cardinality(ManifestIds) # Cardinality(col)

\* manifestZvecDesync: as many vectors as the manifest names, and those.  A
\* missing collection is an empty one.  (Row counts add up to the number of
\* distinct ids, so the comparison of those two decides nothing.)
Desync ==
  /\ ManifestIds # {}
  /\ \/ Cardinality(ManifestIds) # Cardinality(col)
     \/ ~(ManifestIds \subseteq col)

\* Start compares vectors and rows before it looks for a run in progress and takes
\* the locks.  While a run works it may find anything: the comparison reads the
\* manifest first and the vectors later.
Check ==
  /\ pc = "idle" => ~Desync
  /\ asks' = asks \cup {"fresh"}
  /\ UNCHANGED <<disk, diskVars, pc, planVars, fileVars, outcome, base, settled, whole, intact>>

\* Another run holds the lock.
Refuse ==
  /\ pc # "idle" /\ asks # {}
  /\ asks' \in (SUBSET asks) \ {asks}
  /\ UNCHANGED <<disk, diskVars, pc, planVars, fileVars, outcome, base, settled, whole, intact>>

\* The locks are taken: for a rebuild, asked for or found necessary, or as an
\* earlier check had it, whatever the index is like by now.
Start(decision) ==
  /\ pc = "idle" /\ decision \in asks \cup {"rebuild"}
  /\ pc' = "replay"
  /\ force' = (decision = "rebuild")
  /\ asks' = asks \ {decision}
  /\ outcome' = "ok"
  /\ base' = disk
  /\ whole' = (force' \/ ManifestIds \subseteq col)
  /\ settled' = (force' \/ ManifestIds = col)
  /\ UNCHANGED <<disk, diskVars, todo, found, fileVars, intact>>

\* OpenCleanupJournal creates the file; reconcileCleanupJournal finds nothing.
NothingToReplay ==
  /\ pc = "replay" /\ journal \in {None, {}}
  /\ journal' = {}
  /\ pc' = "scan"
  /\ UNCHANGED <<disk, col, man, stCol, stMan, planVars, fileVars, outcome, kept>>

Replay ==
  /\ pc = "replay" /\ journal \notin {None, {}}
  /\ col' = col \ journal
  /\ pc' = "clear"
  /\ UNCHANGED <<disk, man, journal, stCol, stMan, planVars, fileVars, outcome, kept>>

\* The run goes on with the journal as it is.
ReplayFails ==
  /\ MayFail /\ pc = "replay" /\ journal \notin {None, {}}
  /\ \E gone \in SUBSET journal : col' = col \ gone
  /\ pc' = "scan"
  /\ intact' = FALSE
  /\ UNCHANGED <<disk, man, journal, stCol, stMan, planVars, fileVars, outcome, asks, base, settled, whole>>

\* Clear removes the file; an error of it is dropped.
ClearJournal ==
  /\ pc = "clear"
  /\ \/ journal' = None /\ UNCHANGED intact
     \/ MayFail /\ intact' = FALSE /\ UNCHANGED journal
  /\ pc' = "scan"
  /\ UNCHANGED <<disk, col, man, stCol, stMan, planVars, fileVars, outcome, asks, base, settled, whole>>

\* A forced run wipes what an earlier one left in staging.  Then Discover: a
\* path that cannot be read is skipped as if it were not there.
Discover ==
  LET there == {f \in Files : There(f)} IN
  /\ pc = "scan"
  /\ found' \in IF MayFail THEN SUBSET there ELSE {there}
  /\ todo' = found'
  /\ stCol' = {} /\ stMan' = NoRows
  /\ pc' = "files"
  /\ UNCHANGED <<disk, col, man, journal, force, fileVars, outcome, kept>>

\* The index directory, the manifest, the journal or staging cannot be opened.
PrepareFails ==
  /\ MayFail /\ pc \in {"replay", "scan"}
  /\ pc' = "finishing" /\ outcome' = "error"
  /\ UNCHANGED <<disk, diskVars, planVars, fileVars, kept>>

-----------------------------------------------------------------------------
\* indexFile.  A forced run works on staging and knows no old rows.

target == IF force THEN stCol ELSE col
rows == IF force THEN stMan ELSE man
OldIds == IF force \/ man[cur] = None THEN {} ELSE man[cur].ids

SetTarget(docs) == IF force THEN stCol' = docs /\ UNCHANGED col
                            ELSE col' = docs /\ UNCHANGED stCol
SetRow(f, row) == IF force THEN stMan' = [stMan EXCEPT ![f] = row] /\ UNCHANGED man
                           ELSE man' = [man EXCEPT ![f] = row] /\ UNCHANGED stMan

NextFile == /\ todo' = todo \ {cur} /\ NoFile /\ pc' = "files"

\* DeleteByIDs that fails may have deleted any of them.
DeletesSome(docs) == MayFail /\ \E gone \in SUBSET docs : SetTarget(target \ gone)

\* The run ends with an error.
Abort == pc' = "finishing" /\ outcome' = "error" /\ NoFile /\ UNCHANGED todo

\* An error of one file: a corrupt segment or an unreadable file is skipped and
\* counted, anything else aborts the run.
FailFile == Abort \/ (NextFile /\ outcome' = "warnings")

\* Stat and content hash.
LookAt(f) ==
  /\ pc = "files" /\ f \in todo
  /\ cur' = f /\ stamp' = disk[f]
  /\ rest' = {} /\ fresh' = {} /\ stale' = {}
  /\ pc' = CASE ~There(f) -> "vanished"
             [] ~force /\ man[f] # None /\ man[f].stamp = disk[f] -> "unchanged"
             [] OTHER -> "read"
  /\ UNCHANGED <<disk, diskVars, planVars, outcome, kept>>

Unchanged ==
  /\ pc = "unchanged" /\ NextFile
  /\ UNCHANGED <<disk, diskVars, force, found, outcome, kept>>

\* ProcessBatches reads the file, which may have changed since it was hashed.
ReadText ==
  LET now == Text[cur][disk[cur]] IN
  /\ pc = "read"
  /\ pc' = CASE ~There(cur) -> "vanished" [] There(cur) /\ now = {} -> "chunkless"
             [] OTHER -> "upsert"
  /\ rest' = IF There(cur) THEN now ELSE {}
  /\ UNCHANGED <<disk, diskVars, planVars, cur, stamp, fresh, stale, outcome, kept>>

\* The file cannot be read, or is too large, or has too long a line.
ReadFails ==
  /\ MayFail /\ pc = "read"
  /\ FailFile
  /\ UNCHANGED <<disk, diskVars, force, found, kept>>

UpsertBatch ==
  /\ pc = "upsert"
  /\ \E batch \in SUBSET rest \ {{}} :
       /\ SetTarget(target \cup batch)
       /\ fresh' = fresh \cup batch
       /\ rest' = rest \ batch
  /\ pc' = IF rest' = {} THEN "commit" ELSE "upsert"
  /\ UNCHANGED <<disk, man, journal, stMan, planVars, cur, stamp, stale, outcome, kept>>

\* Embedding or the upsert fails: some of the batch is written, and as many (a
\* prefix of the batch), or none, are reported to be.
UpsertFails ==
  /\ MayFail /\ pc = "upsert"
  /\ \E written, reported \in SUBSET rest :
       /\ reported = {} \/ Cardinality(reported) = Cardinality(written)
       /\ SetTarget(target \cup written)
       /\ fresh' = fresh \cup reported
  /\ pc' = "rollback"
  /\ UNCHANGED <<disk, man, journal, stMan, planVars, cur, stamp, rest, stale, outcome, kept>>

RolledBack == fresh \ OldIds

\* After a failed batch the error decides what is next; after a failed commit
\* ("undo") the run ends.
Rollback ==
  /\ pc \in {"rollback", "undo"}
  /\ SetTarget(target \ RolledBack) \/ DeletesSome(RolledBack)
  /\ IF pc = "rollback" THEN FailFile ELSE Abort
  /\ UNCHANGED <<disk, man, journal, stMan, force, found, kept>>

\* The file has no chunks any more: its vectors go first, then its row.
ChunklessVectors ==
  /\ pc = "chunkless"
  /\ SetTarget(target \ OldIds)
  /\ pc' = "chunklessRow"
  /\ UNCHANGED <<disk, man, journal, stMan, planVars, fileVars, outcome, kept>>

ChunklessFails ==
  /\ pc = "chunkless" /\ OldIds # {}
  /\ DeletesSome(OldIds)
  /\ FailFile
  /\ UNCHANGED <<disk, man, journal, stMan, force, found, kept>>

ChunklessRow ==
  /\ pc = "chunklessRow"
  /\ \/ SetRow(cur, None) /\ NextFile /\ UNCHANGED outcome
     \/ MayFail /\ Abort /\ UNCHANGED <<man, stMan>>
  /\ UNCHANGED <<disk, col, journal, stCol, force, found, kept>>

\* Slip: stale ids are those of the row, whether rewritten or not.
StaleWhole == OldIds
Stale == OldIds \ fresh

\* Slip: the row is stamped with the file as it is by now.
CommitLatest ==
  /\ pc = "commit"
  /\ SetRow(cur, [stamp |-> disk[cur], ids |-> fresh])
  /\ IF Stale = {} THEN NextFile
     ELSE stale' = Stale /\ pc' = "journal" /\ UNCHANGED <<todo, cur, stamp, rest, fresh>>
  /\ UNCHANGED <<disk, col, journal, stCol, force, found, outcome, kept>>

\* The row is committed before anything stale is journaled or deleted.
Commit ==
  /\ pc = "commit"
  /\ SetRow(cur, [stamp |-> stamp, ids |-> fresh])
  /\ IF Stale = {} THEN NextFile
     ELSE stale' = Stale /\ pc' = "journal" /\ UNCHANGED <<todo, cur, stamp, rest, fresh>>
  /\ UNCHANGED <<disk, col, journal, stCol, force, found, outcome, kept>>

CommitFails ==
  /\ MayFail /\ pc = "commit"
  /\ pc' = "undo"
  /\ UNCHANGED <<disk, diskVars, planVars, fileVars, outcome, kept>>

\* Append opens the file without creating it; its error is logged and dropped.
AppendJournal ==
  /\ pc = "journal"
  /\ \/ journal' = (IF journal = None THEN None ELSE journal \cup stale) /\ UNCHANGED intact
     \/ MayFail /\ intact' = FALSE /\ UNCHANGED journal
  /\ pc' = "stale"
  /\ UNCHANGED <<disk, col, man, stCol, stMan, planVars, fileVars, outcome, asks, base, settled, whole>>

\* deleteStaleVectorsFrom, after its three attempts.
DeleteStale ==
  /\ pc = "stale"
  /\ \/ SetTarget(target \ stale) /\ NextFile /\ UNCHANGED outcome
     \/ DeletesSome(stale) /\ FailFile
  /\ UNCHANGED <<disk, man, journal, stMan, force, found, kept>>

-----------------------------------------------------------------------------
\* purgeRemovedFile, for a file that vanished during the run.

VanishedVectors ==
  /\ pc = "vanished" /\ rows[cur] # None
  /\ col' = col \ rows[cur].ids
  /\ pc' = "vanishedRow"
  /\ UNCHANGED <<disk, man, journal, stCol, stMan, planVars, fileVars, outcome, kept>>

VanishedRow ==
  /\ \/ pc = "vanishedRow" /\ SetRow(cur, None)
     \/ pc = "vanished" /\ rows[cur] = None /\ UNCHANGED <<man, stMan>>
  /\ NextFile
  /\ found' = found \ {cur}
  /\ UNCHANGED <<disk, col, journal, stCol, force, outcome, kept>>

\* The file is counted as failed.
VanishFails ==
  /\ MayFail
  /\ \/ /\ pc = "vanished" /\ rows[cur] # None
        /\ \E gone \in SUBSET rows[cur].ids : col' = col \ gone
     \/ pc = "vanishedRow" /\ UNCHANGED col
  /\ NextFile
  /\ outcome' = "warnings"
  /\ UNCHANGED <<disk, man, journal, stCol, stMan, force, found, kept>>

\* The lifecycle context is canceled, or the stall watcher gives up.
Interrupted ==
  /\ pc = "files" /\ todo # {}
  /\ Abort
  /\ UNCHANGED <<disk, diskVars, force, found, kept>>

-----------------------------------------------------------------------------
\* After the last file: an incremental run purges the rows of files it did not
\* discover, vectors first.

Removed == {f \in Files : man[f] # None /\ f \notin found}

\* Slip: the row goes although its vectors could not be deleted.
PurgeVectorsQuietly(f) ==
  /\ pc = "files" /\ todo = {} /\ ~force /\ f \in Removed
  /\ \/ col' = col \ man[f].ids
     \/ MayFail /\ \E gone \in SUBSET man[f].ids : col' = col \ gone
  /\ pc' = "purgeRow" /\ cur' = f
  /\ UNCHANGED <<disk, man, journal, stCol, stMan, planVars, stamp, rest, fresh, stale,
                 outcome, kept>>

PurgeVectors(f) ==
  /\ pc = "files" /\ todo = {} /\ ~force /\ f \in Removed
  /\ \/ col' = col \ man[f].ids /\ pc' = "purgeRow" /\ cur' = f /\ UNCHANGED outcome
     \/ /\ MayFail
        /\ \E gone \in SUBSET man[f].ids : col' = col \ gone
        /\ pc' = "finishing" /\ outcome' = "error" /\ UNCHANGED cur
  /\ UNCHANGED <<disk, man, journal, stCol, stMan, planVars, stamp, rest, fresh, stale, kept>>

PurgeRow ==
  /\ pc = "purgeRow"
  /\ \/ man' = [man EXCEPT ![cur] = None] /\ pc' = "files" /\ UNCHANGED outcome
     \/ MayFail /\ pc' = "finishing" /\ outcome' = "error" /\ UNCHANGED man
  /\ NoFile
  /\ UNCHANGED <<disk, col, journal, stCol, stMan, planVars, kept>>

AllDone ==
  /\ pc = "files" /\ todo = {} /\ ~force /\ Removed = {}
  /\ pc' = "finishing"
  /\ UNCHANGED <<disk, diskVars, planVars, fileVars, outcome, kept>>

-----------------------------------------------------------------------------
\* promoteStaging: the staging collection takes the active one's place, then
\* the staging manifest does.  The build may have skipped files.  A failure may
\* come before the first rename, after the second, or leave nothing in place.

PromoteCollection ==
  /\ pc = "files" /\ todo = {} /\ force
  /\ \/ col' = stCol /\ pc' = "promoteManifest" /\ UNCHANGED outcome
     \/ MayFail /\ pc' = "finishing" /\ outcome' = "error" /\ col' \in {col, stCol, {}}
  /\ UNCHANGED <<disk, man, journal, stCol, stMan, planVars, fileVars, kept>>

PromoteManifest ==
  /\ pc = "promoteManifest"
  /\ \/ man' = stMan /\ UNCHANGED outcome
     \/ MayFail /\ outcome' = "error" /\ man' \in {man, stMan, NoRows}
  /\ pc' = "finishing"
  /\ UNCHANGED <<disk, col, journal, stCol, stMan, planVars, fileVars, kept>>

\* What was checked before a run ended badly says nothing of what it left.
Overtaken == IF asks = {} THEN {} ELSE {"overtaken"}

Finish ==
  /\ pc = "finishing"
  /\ asks' = IF outcome = "ok" /\ whole /\ intact THEN asks ELSE Overtaken
  /\ pc' = "idle" /\ force' = FALSE /\ todo' = {} /\ found' = {} /\ NoFile
  /\ stCol' = {} /\ stMan' = NoRows
  /\ UNCHANGED <<disk, col, man, journal, outcome, base, settled, whole, intact>>

\* The process dies.  In the middle of a promotion the path may name nothing:
\* the active directory, or file, is renamed away before the new one is named.
\* In the middle of a replay some of the deletes are done.
Crash ==
  /\ pc # "idle"
  /\ CASE pc = "files" /\ todo = {} /\ force -> col' \in {col, {}}
       [] pc = "replay" /\ journal # None -> \E gone \in SUBSET journal : col' = col \ gone
       [] OTHER -> UNCHANGED col
  /\ IF pc = "promoteManifest" THEN man' \in {man, NoRows} ELSE UNCHANGED man
  /\ pc' = "idle" /\ force' = FALSE /\ todo' = {} /\ found' = {} /\ NoFile
  /\ stCol' = {} /\ stMan' = NoRows
  /\ outcome' = "error"
  /\ asks' = Overtaken
  /\ UNCHANGED <<disk, journal, base, settled, whole, intact>>

Callers == Check \/ Refuse

Preparing == PrepareFails \/ Discover \/ NothingToReplay \/ Replay \/ ReplayFails \/ ClearJournal

IndexFile ==
  \/ \E f \in Files : LookAt(f)
  \/ Unchanged \/ ReadText \/ ReadFails \/ UpsertBatch \/ UpsertFails \/ Rollback
  \/ ChunklessVectors \/ ChunklessFails \/ ChunklessRow
  \/ Commit \/ CommitFails \/ AppendJournal \/ DeleteStale
  \/ VanishedVectors \/ VanishedRow \/ VanishFails

Ending ==
  \/ \E f \in Files : PurgeVectors(f)
  \/ PurgeRow \/ AllDone \/ PromoteCollection \/ PromoteManifest \/ Finish

Next ==
  \/ \E f \in Files : Edit(f)
  \/ Callers \/ \E decision \in {"rebuild", "fresh", "overtaken"} : Start(decision)
  \/ Preparing \/ IndexFile \/ Interrupted \/ Ending \/ Crash

Spec == Init /\ [][Next]_vars

-----------------------------------------------------------------------------
\* Properties.

EndedWell == pc = "finishing" /\ outcome = "ok"

\* A run that rebuilt everything, or began with the vectors of all its rows, and
\* reports no error and no failed file leaves no row whose vectors are not all
\* there, whatever failed or crashed before (but for the journal itself): nothing
\* that later runs skip as unchanged is missing from search.
CleanRunIsComplete == intact /\ whole /\ EndedWell => ManifestIds \subseteq col

\* What such a run indexed is what the working tree says, for each file that was
\* not edited meanwhile; files it did not discover have no row.  If vectors and
\* rows agreed when it began, or it rebuilt everything, there are no other
\* vectors either, as long as the journal works: search finds nothing that is
\* not indexed.
CleanRunMatchesDisk ==
  EndedWell =>
    /\ \A f \in Files : disk[f] = base[f] =>
         LET text == Text[f][disk[f]] IN
           IF f \in found /\ text # {}
             THEN man[f] # None /\ man[f].stamp = disk[f] /\ man[f].ids = text
             ELSE man[f] = None
    /\ settled /\ intact => col = ManifestIds

\* The journal never names a vector that a committed row names: its replay
\* "would delete vectors the committed manifest still references"
\* (coordinator.go:683-686), until an operation on the journal itself fails.
ReplayIsSafe == journal # None => journal \cap ManifestIds = {}
JournalNamesNoLiveVector == intact => ReplayIsSafe

\* Stale vectors that are not deleted yet are in the journal, "doc ids that must
\* be removed from zvec after a crash" (cleanup.go:14).
StaleIsInsured == pc = "stale" => journal # None /\ stale \subseteq journal

\* Outside promotions a row goes only after its vectors, "so a crash cannot
\* orphan vectors with no manifest trail" (docs/ARCHITECTURE.md:262), until an
\* operation on the journal fails.
RowOutlivesItsVectors ==
  [][intact /\ pc # "promoteManifest" =>
       \A f \in Files : man[f] # None /\ man'[f] = None => man[f].ids \cap col = {}]_vars

\* An incremental run starts only on an index whose rows have all their vectors,
\* unless between the check and the start another run failed, died, lost track
\* of the journal or had itself begun on rows without their vectors.
IncrementalStartsComplete ==
  [][pc = "idle" /\ pc' = "replay" /\ "fresh" \in asks \ asks' => ManifestIds \subseteq col]_vars

-----------------------------------------------------------------------------
\* The inductive invariant.

FilePhases == {"unchanged", "read", "upsert", "rollback", "undo", "chunkless",
               "chunklessRow", "commit", "journal", "stale", "vanished", "vanishedRow"}
Places == FilePhases \cup {"idle", "replay", "clear", "scan", "files", "purgeRow",
                           "promoteManifest", "finishing"}

TypeOK ==
  /\ disk \in [Files -> Nat] /\ \A f \in Files : disk[f] \in Edits(f)
  /\ col \subseteq Docs /\ stCol \subseteq Docs
  /\ man \in [Files -> Rows \cup {None}] /\ stMan \in [Files -> Rows \cup {None}]
  /\ journal = None \/ journal \subseteq Docs
  /\ pc \in Places
  /\ force \in BOOLEAN /\ todo \subseteq found /\ found \subseteq Files
  /\ cur \in Files \cup {None} /\ stamp \in Nat
  /\ outcome \in {"ok", "warnings", "error"}
  /\ asks \subseteq {"fresh", "overtaken"}
  /\ base \in [Files -> Nat] /\ settled \in BOOLEAN /\ whole \in BOOLEAN

\* A row names documents of its own file, and so does the work in progress; what
\* is about to be committed is written.
RowsAreOwn ==
  \A f \in Files : /\ man[f] # None => man[f].ids \subseteq DocsOf(f)
                   /\ stMan[f] # None => stMan[f].ids \subseteq DocsOf(f)

WorkIsOwn ==
  /\ pc \in {"idle", "replay", "clear", "scan"} => todo = {}
  /\ pc \in FilePhases => cur \in todo
  /\ pc = "purgeRow" => cur \in Files /\ ~force
  /\ pc = "promoteManifest" => force
  /\ cur \in Files => rest \cup fresh \cup stale \subseteq DocsOf(cur)
  /\ pc \notin FilePhases => rest \cup fresh \cup stale = {}
  /\ pc \in {"read", "upsert", "commit"} => fresh \subseteq target
  /\ pc \in {"journal", "stale"} =>
       ~force /\ stale \cap man[cur].ids = {}

\* The journal names dead vectors only, none of a file that is still to come
\* and so may revive them, and nothing at all while staging is built.
JournalAgrees ==
  /\ journal # None => \A f \in Files : man[f] # None => journal \cap man[f].ids = {}
  /\ pc = "scan" => journal \in {None, {}}
  /\ force /\ pc \notin {"idle", "replay", "clear", "finishing"} => journal \in {None, {}}
  /\ journal # None /\ pc # "finishing" =>
       \A f \in todo : journal \cap DocsOf(f) = {} \/ (f = cur /\ pc = "stale")

StagingAgrees ==
  /\ \A f \in Files : stMan[f] # None => stMan[f].ids \subseteq stCol
  /\ \A f \in todo : stMan[f] = None
  /\ pc = "promoteManifest" => col = stCol

\* Rows whose vectors are just gone go next.
Doomed == {"chunklessRow", "vanishedRow", "purgeRow"}

VectorsAgree ==
  /\ whole /\ outcome = "ok" /\ ~force /\ pc # "idle" =>
       \A f \in Files : man[f] # None => man[f].ids \subseteq col \/ (f = cur /\ pc \in Doomed)
  /\ whole /\ EndedWell => \A f \in Files : man[f] # None => man[f].ids \subseteq col
  /\ pc \in Doomed /\ ~force /\ man[cur] # None => man[cur].ids \cap col = {}
  /\ pc = "vanishedRow" => ~force

Basics == TypeOK /\ RowsAreOwn /\ WorkIsOwn

IInv == Basics /\ JournalAgrees /\ StagingAgrees /\ VectorsAgree

-----------------------------------------------------------------------------
\* The inductive invariant of what a run leaves, journal or not: files are edited
\* while they are read, but a stamp only grows.

Indexing == FilePhases \cup {"files", "purgeRow", "promoteManifest"}

\* A row with the stamp of the file as it is now tells what is in it now.
Truthful(m) ==
  \A f \in Files : m[f] # None =>
    /\ m[f].stamp <= disk[f]
    /\ m[f].stamp = disk[f] => m[f].ids = Text[f][disk[f]] /\ m[f].ids # {}

\* The manifest m is right about f, if f has not been edited since the run began.
Right(m, f) ==
  disk[f] = base[f] =>
    LET text == Text[f][disk[f]] IN
      IF text # {} THEN m[f] # None /\ m[f].stamp = disk[f] /\ m[f].ids = text
                   ELSE m[f] = None

\* The file at hand was looked at after the run began and read after that.
StampsAgree ==
  /\ \A f \in Files : base[f] <= disk[f]
  /\ Truthful(man) /\ Truthful(stMan)
  /\ pc \in FilePhases => base[cur] <= stamp /\ stamp <= disk[cur]
  /\ pc \in {"upsert", "commit"} /\ stamp = disk[cur] =>
       fresh \cup rest = Text[cur][disk[cur]] /\ fresh \cup rest # {}
  /\ pc = "commit" => rest = {}
  /\ pc \in {"chunkless", "chunklessRow"} /\ stamp = disk[cur] => Text[cur][disk[cur]] = {}
  /\ pc = "unchanged" => ~force /\ man[cur] # None /\ man[cur].stamp = stamp
  /\ pc \in {"unchanged", "read", "vanished", "chunkless"} \cup Doomed => fresh \cup stale = {}
  /\ pc \in {"upsert", "commit"} => stale = {}
  /\ pc \in {"journal", "stale"} => man[cur] # None /\ man[cur].ids = fresh

\* The files dealt with have the rows they should have, as long as no file failed.
FilesAgree ==
  /\ pc \in Indexing /\ force => \A f \in Files \ found : stMan[f] = None
  /\ pc \in Indexing /\ outcome = "ok" => \A f \in found \ todo : Right(rows, f)
  /\ pc \in {"journal", "stale"} /\ outcome = "ok" => Right(man, cur)
  /\ pc \in {"purgeRow", "promoteManifest"} => todo = {}
  /\ pc = "purgeRow" => cur \notin found
  /\ EndedWell => \A f \in Files :
       IF f \in found THEN Right(man, f) ELSE disk[f] = base[f] => man[f] = None

DiskInv == Basics /\ StampsAgree /\ FilesAgree

\* Vectors already deleted of a row that is next.
Gone == IF pc \in Doomed /\ rows[cur] # None THEN rows[cur].ids ELSE {}

\* A run that began with vectors and rows in agreement, or builds anew, has no
\* vectors but those of its rows and of the file at hand, until a file fails.
SettledAgrees ==
  settled /\ outcome = "ok" =>
    /\ pc \in {"replay", "clear", "scan"} /\ ~force => col = ManifestIds
    /\ pc \in Indexing \ {"rollback", "undo"} =>
         target = (RowIds(rows) \ Gone) \cup fresh \cup stale
    /\ pc = "finishing" => col = ManifestIds

\* What a check found is so until it is overtaken.
ChecksHold == pc = "idle" /\ "fresh" \in asks => ManifestIds \subseteq col

RunInv == DiskInv /\ ChecksHold /\ (intact => IInv /\ SettledAgrees)
=============================================================================
