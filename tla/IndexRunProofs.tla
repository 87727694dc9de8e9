---------------------------- MODULE IndexRunProofs ----------------------------
EXTENDS IndexRun, FiniteSetTheorems, TLAPS

-----------------------------------------------------------------------------
\* Documents, files and edits.

LEMMA OwnDocs ==
  ASSUME NEW f \in Files
  PROVE  DocsOf(f) \subseteq Docs
BY DEF Docs

LEMMA TextIsOwn ==
  ASSUME NEW f \in Files, NEW e \in Edits(f)
  PROVE  Text[f][e] \subseteq DocsOf(f)
BY DEF DocsOf

LEMMA OthersDocs ==
  ASSUME NEW f \in Files, NEW g \in Files, f # g
  PROVE  DocsOf(f) \cap DocsOf(g) = {}
BY IndexAssumption

LEMMA EditsAre ==
  ASSUME NEW f \in Files
  PROVE  Edits(f) = 1..Len(Text[f]) /\ Len(Text[f]) \in Nat /\ 1 \in Edits(f)
BY IndexAssumption DEF Edits

-----------------------------------------------------------------------------
\* One step and rows, vectors, staging and the journal.  For each action, Basics is
\* kept whatever has failed, and IInv as long as the journal works.

LEMMA InitEstablishes == Init => IInv
<1> SUFFICES ASSUME Init PROVE IInv
  OBVIOUS
<1> USE DEF Init, NoRows
<1>1. TypeOK
  BY EditsAre DEF TypeOK, Places
<1>2. RowsAreOwn /\ WorkIsOwn /\ JournalAgrees
  BY IndexAssumption DEF RowsAreOwn, WorkIsOwn, JournalAgrees, FilePhases
<1>3. StagingAgrees /\ VectorsAgree
  BY DEF StagingAgrees, VectorsAgree
<1> QED BY <1>1, <1>2, <1>3 DEF IInv, Basics

LEMMA EditBasics ==
  ASSUME Basics, NEW f \in Files, Edit(f)
  PROVE  Basics'
<1> USE IndexAssumption, OwnDocs, TextIsOwn, OthersDocs
    DEF Basics, diskVars, planVars, fileVars, kept, NoFile, NoRows, target
<1>1. TypeOK'
  <2>1. disk' \in [Files -> Nat] /\ \A g \in Files : disk'[g] \in Edits(g)
    BY EditsAre DEF TypeOK, Edit
  <2> QED BY <2>1 DEF TypeOK, Places, FilePhases, Rows, Edit
<1>2. RowsAreOwn'
  BY DEF RowsAreOwn, Edit
<1>3. WorkIsOwn'
  BY DEF WorkIsOwn, Edit
<1> QED BY <1>1, <1>2, <1>3

LEMMA EditKeeps ==
  ASSUME IInv, intact', NEW f \in Files, Edit(f)
  PROVE  IInv'
<1> USE IndexAssumption, OwnDocs, TextIsOwn, OthersDocs
    DEF IInv, Basics, diskVars, planVars, fileVars, kept, NoFile, NoRows, target
<1>1. Basics'
  BY EditBasics
<1>4. JournalAgrees'
  BY DEF JournalAgrees, Edit
<1>5. StagingAgrees'
  BY DEF StagingAgrees, Edit
<1>6. VectorsAgree'
  BY DEF VectorsAgree, EndedWell, Edit
<1> QED BY <1>1, <1>4, <1>5, <1>6

\* Callers that check and are refused touch nothing but themselves.
LEMMA CallersLeave ==
  ASSUME Callers
  PROVE  /\ disk' = disk /\ col' = col /\ man' = man /\ journal' = journal
         /\ stCol' = stCol /\ stMan' = stMan /\ pc' = pc /\ force' = force
         /\ todo' = todo /\ found' = found /\ cur' = cur /\ stamp' = stamp
         /\ rest' = rest /\ fresh' = fresh /\ stale' = stale /\ outcome' = outcome
         /\ base' = base /\ whole' = whole /\ settled' = settled /\ intact' = intact
         /\ asks' \subseteq asks \cup {"fresh"}
BY DEF Callers, Check, Refuse, diskVars, planVars, fileVars

LEMMA CallersBasics ==
  ASSUME Basics, Callers
  PROVE  Basics'
<1>1. TypeOK'
  BY CallersLeave DEF Basics, TypeOK
<1>2. RowsAreOwn'
  BY CallersLeave DEF Basics, RowsAreOwn
<1>3. WorkIsOwn'
  BY CallersLeave DEF Basics, WorkIsOwn, target
<1> QED BY <1>1, <1>2, <1>3 DEF Basics

LEMMA CallersKeeps ==
  ASSUME IInv, intact', Callers
  PROVE  IInv'
<1>1. Basics'
  BY CallersBasics DEF IInv
<1>4. JournalAgrees'
  BY CallersLeave DEF IInv, JournalAgrees
<1>5. StagingAgrees'
  BY CallersLeave DEF IInv, StagingAgrees
<1>6. VectorsAgree'
  BY CallersLeave DEF IInv, VectorsAgree, EndedWell
<1> QED BY <1>1, <1>4, <1>5, <1>6 DEF IInv

LEMMA StartBasics ==
  ASSUME Basics, NEW decision \in {"rebuild", "fresh", "overtaken"}, Start(decision)
  PROVE  Basics'
<1> USE IndexAssumption, OwnDocs, TextIsOwn, OthersDocs
    DEF Basics, diskVars, planVars, fileVars, kept, NoFile, NoRows, target
<1>1. TypeOK'
  BY DEF TypeOK, Places, Start
<1>2. RowsAreOwn'
  BY DEF RowsAreOwn, Start
<1>3. WorkIsOwn'
  BY DEF WorkIsOwn, FilePhases, Start
<1> QED BY <1>1, <1>2, <1>3

LEMMA StartKeeps ==
  ASSUME IInv, intact', NEW decision \in {"rebuild", "fresh", "overtaken"}, Start(decision)
  PROVE  IInv'
<1> USE IndexAssumption, OwnDocs, TextIsOwn, OthersDocs
    DEF IInv, Basics, diskVars, planVars, fileVars, kept, NoFile, NoRows, target
<1>1. Basics'
  BY StartBasics
<1>4. JournalAgrees'
  BY DEF JournalAgrees, Start
<1>5. StagingAgrees'
  BY DEF StagingAgrees, Start
<1>6. VectorsAgree'
  <2>1. whole' /\ ~force' => ManifestIds \subseteq col
    BY DEF Start
  <2>2. \A g \in Files : man[g] # None => man[g].ids \subseteq ManifestIds
    BY DEF ManifestIds, RowIds
  <2>3. outcome' = "ok" /\ pc' = "replay" /\ man' = man /\ col' = col
    BY DEF Start
  <2> QED BY <2>1, <2>2, <2>3 DEF VectorsAgree, Doomed, EndedWell
<1> QED BY <1>1, <1>4, <1>5, <1>6

LEMMA NothingToReplayBasics ==
  ASSUME Basics, NothingToReplay
  PROVE  Basics'
<1> USE IndexAssumption, OwnDocs, TextIsOwn, OthersDocs
    DEF Basics, diskVars, planVars, fileVars, kept, NoFile, NoRows, target
<1>1. TypeOK'
  BY DEF TypeOK, Places, NothingToReplay
<1>2. RowsAreOwn'
  BY DEF RowsAreOwn, NothingToReplay
<1>3. WorkIsOwn'
  BY DEF WorkIsOwn, FilePhases, NothingToReplay
<1> QED BY <1>1, <1>2, <1>3

LEMMA NothingToReplayKeeps ==
  ASSUME IInv, intact', NothingToReplay
  PROVE  IInv'
<1> USE IndexAssumption, OwnDocs, TextIsOwn, OthersDocs
    DEF IInv, Basics, diskVars, planVars, fileVars, kept, NoFile, NoRows, target
<1>1. Basics'
  BY NothingToReplayBasics
<1>4. JournalAgrees'
  BY DEF JournalAgrees, NothingToReplay
<1>5. StagingAgrees'
  BY DEF StagingAgrees, NothingToReplay
<1>6. VectorsAgree'
  BY DEF VectorsAgree, Doomed, EndedWell, NothingToReplay
<1> QED BY <1>1, <1>4, <1>5, <1>6

LEMMA ReplayBasics ==
  ASSUME Basics, Replay
  PROVE  Basics'
<1> USE IndexAssumption, OwnDocs, TextIsOwn, OthersDocs
    DEF Basics, diskVars, planVars, fileVars, kept, NoFile, NoRows, target
<1>1. TypeOK'
  BY DEF TypeOK, Places, Replay
<1>2. RowsAreOwn'
  BY DEF RowsAreOwn, Replay
<1>3. WorkIsOwn'
  BY DEF WorkIsOwn, FilePhases, Replay
<1> QED BY <1>1, <1>2, <1>3

LEMMA ReplayKeeps ==
  ASSUME IInv, intact', Replay
  PROVE  IInv'
<1> USE IndexAssumption, OwnDocs, TextIsOwn, OthersDocs
    DEF IInv, Basics, diskVars, planVars, fileVars, kept, NoFile, NoRows, target
<1>1. Basics'
  BY ReplayBasics
<1>4. JournalAgrees'
  BY DEF JournalAgrees, Replay
<1>5. StagingAgrees'
  BY DEF StagingAgrees, Replay
<1>6. VectorsAgree'
  BY DEF JournalAgrees, VectorsAgree, Doomed, EndedWell, Replay
<1> QED BY <1>1, <1>4, <1>5, <1>6

LEMMA ReplayFailsBasics ==
  ASSUME Basics, ReplayFails
  PROVE  Basics'
<1> USE IndexAssumption, OwnDocs, TextIsOwn, OthersDocs
    DEF Basics, diskVars, planVars, fileVars, kept, NoFile, NoRows, target
<1>1. TypeOK'
  BY DEF TypeOK, Places, ReplayFails
<1>2. RowsAreOwn'
  BY DEF RowsAreOwn, ReplayFails
<1>3. WorkIsOwn'
  BY DEF WorkIsOwn, FilePhases, ReplayFails
<1> QED BY <1>1, <1>2, <1>3

LEMMA ReplayFailsKeeps ==
  ASSUME IInv, intact', ReplayFails
  PROVE  IInv'
<1> USE IndexAssumption, OwnDocs, TextIsOwn, OthersDocs
    DEF IInv, Basics, diskVars, planVars, fileVars, kept, NoFile, NoRows, target
<1>1. Basics'
  BY ReplayFailsBasics
<1>4. JournalAgrees'
  BY DEF ReplayFails
<1>5. StagingAgrees'
  BY DEF ReplayFails
<1>6. VectorsAgree'
  BY DEF ReplayFails
<1> QED BY <1>1, <1>4, <1>5, <1>6

LEMMA ClearJournalBasics ==
  ASSUME Basics, ClearJournal
  PROVE  Basics'
<1> USE IndexAssumption, OwnDocs, TextIsOwn, OthersDocs
    DEF Basics, diskVars, planVars, fileVars, kept, NoFile, NoRows, target
<1>1. TypeOK'
  BY DEF TypeOK, Places, ClearJournal
<1>2. RowsAreOwn'
  BY DEF RowsAreOwn, ClearJournal
<1>3. WorkIsOwn'
  BY DEF WorkIsOwn, FilePhases, ClearJournal
<1> QED BY <1>1, <1>2, <1>3

LEMMA ClearJournalKeeps ==
  ASSUME IInv, intact', ClearJournal
  PROVE  IInv'
<1> USE IndexAssumption, OwnDocs, TextIsOwn, OthersDocs
    DEF IInv, Basics, diskVars, planVars, fileVars, kept, NoFile, NoRows, target
<1>1. Basics'
  BY ClearJournalBasics
<1>4. JournalAgrees'
  BY DEF JournalAgrees, ClearJournal
<1>5. StagingAgrees'
  BY DEF StagingAgrees, ClearJournal
<1>6. VectorsAgree'
  BY DEF VectorsAgree, Doomed, EndedWell, ClearJournal
<1> QED BY <1>1, <1>4, <1>5, <1>6

LEMMA DiscoverBasics ==
  ASSUME Basics, Discover
  PROVE  Basics'
<1> USE IndexAssumption, OwnDocs, TextIsOwn, OthersDocs
    DEF Basics, diskVars, planVars, fileVars, kept, NoFile, NoRows, target
<1>1. TypeOK'
  BY DEF TypeOK, Places, Discover
<1>2. RowsAreOwn'
  BY DEF RowsAreOwn, Discover
<1>3. WorkIsOwn'
  BY DEF WorkIsOwn, FilePhases, Discover
<1> QED BY <1>1, <1>2, <1>3

LEMMA DiscoverKeeps ==
  ASSUME IInv, intact', Discover
  PROVE  IInv'
<1> USE IndexAssumption, OwnDocs, TextIsOwn, OthersDocs
    DEF IInv, Basics, diskVars, planVars, fileVars, kept, NoFile, NoRows, target
<1>1. Basics'
  BY DiscoverBasics
<1>4. JournalAgrees'
  BY DEF JournalAgrees, Discover
<1>5. StagingAgrees'
  BY DEF StagingAgrees, Discover
<1>6. VectorsAgree'
  BY DEF VectorsAgree, Doomed, EndedWell, Discover
<1> QED BY <1>1, <1>4, <1>5, <1>6

LEMMA PrepareFailsBasics ==
  ASSUME Basics, PrepareFails
  PROVE  Basics'
<1> USE IndexAssumption, OwnDocs, TextIsOwn, OthersDocs
    DEF Basics, diskVars, planVars, fileVars, kept, NoFile, NoRows, target
<1>1. TypeOK'
  BY DEF TypeOK, Places, PrepareFails
<1>2. RowsAreOwn'
  BY DEF RowsAreOwn, PrepareFails
<1>3. WorkIsOwn'
  BY DEF WorkIsOwn, FilePhases, PrepareFails
<1> QED BY <1>1, <1>2, <1>3

LEMMA PrepareFailsKeeps ==
  ASSUME IInv, intact', PrepareFails
  PROVE  IInv'
<1> USE IndexAssumption, OwnDocs, TextIsOwn, OthersDocs
    DEF IInv, Basics, diskVars, planVars, fileVars, kept, NoFile, NoRows, target
<1>1. Basics'
  BY PrepareFailsBasics
<1>4. JournalAgrees'
  BY DEF JournalAgrees, PrepareFails
<1>5. StagingAgrees'
  BY DEF StagingAgrees, PrepareFails
<1>6. VectorsAgree'
  BY DEF VectorsAgree, Doomed, EndedWell, PrepareFails
<1> QED BY <1>1, <1>4, <1>5, <1>6

LEMMA LookAtBasics ==
  ASSUME Basics, NEW f \in Files, LookAt(f)
  PROVE  Basics'
<1> USE IndexAssumption, OwnDocs, TextIsOwn, OthersDocs
    DEF Basics, diskVars, planVars, fileVars, kept, NoFile, NoRows, target
<1>1. TypeOK'
  BY DEF TypeOK, Places, FilePhases, LookAt
<1>2. RowsAreOwn'
  BY DEF RowsAreOwn, LookAt
<1>3. WorkIsOwn'
  BY DEF WorkIsOwn, LookAt
<1> QED BY <1>1, <1>2, <1>3

LEMMA LookAtKeeps ==
  ASSUME IInv, intact', NEW f \in Files, LookAt(f)
  PROVE  IInv'
<1> USE IndexAssumption, OwnDocs, TextIsOwn, OthersDocs
    DEF IInv, Basics, diskVars, planVars, fileVars, kept, NoFile, NoRows, target
<1>1. Basics'
  BY LookAtBasics
<1>4. JournalAgrees'
  BY DEF JournalAgrees, LookAt
<1>5. StagingAgrees'
  BY DEF StagingAgrees, LookAt
<1>6. VectorsAgree'
  BY DEF VectorsAgree, Doomed, EndedWell, LookAt
<1> QED BY <1>1, <1>4, <1>5, <1>6

LEMMA UnchangedBasics ==
  ASSUME Basics, Unchanged
  PROVE  Basics'
<1> USE IndexAssumption, OwnDocs, TextIsOwn, OthersDocs
    DEF Basics, diskVars, planVars, fileVars, kept, NoFile, NoRows, target
<1>1. TypeOK'
  BY DEF TypeOK, Places, Unchanged, NextFile
<1>2. RowsAreOwn'
  BY DEF RowsAreOwn, Unchanged
<1>3. WorkIsOwn'
  BY DEF WorkIsOwn, FilePhases, Unchanged, NextFile
<1> QED BY <1>1, <1>2, <1>3

LEMMA UnchangedKeeps ==
  ASSUME IInv, intact', Unchanged
  PROVE  IInv'
<1> USE IndexAssumption, OwnDocs, TextIsOwn, OthersDocs
    DEF IInv, Basics, diskVars, planVars, fileVars, kept, NoFile, NoRows, target
<1>1. Basics'
  BY UnchangedBasics
<1>4. JournalAgrees'
  BY DEF JournalAgrees, Unchanged, NextFile
<1>5. StagingAgrees'
  BY DEF StagingAgrees, Unchanged, NextFile
<1>6. VectorsAgree'
  BY DEF VectorsAgree, Doomed, EndedWell, Unchanged, NextFile
<1> QED BY <1>1, <1>4, <1>5, <1>6

LEMMA ReadTextBasics ==
  ASSUME Basics, ReadText
  PROVE  Basics'
<1> USE IndexAssumption, OwnDocs, TextIsOwn, OthersDocs
    DEF Basics, diskVars, planVars, fileVars, kept, NoFile, NoRows, target
<1>1. TypeOK'
  BY DEF TypeOK, Places, FilePhases, ReadText
<1>2. RowsAreOwn'
  BY DEF RowsAreOwn, ReadText
<1>3. WorkIsOwn'
  BY DEF TypeOK, WorkIsOwn, FilePhases, ReadText
<1> QED BY <1>1, <1>2, <1>3

LEMMA ReadTextKeeps ==
  ASSUME IInv, intact', ReadText
  PROVE  IInv'
<1> USE IndexAssumption, OwnDocs, TextIsOwn, OthersDocs
    DEF IInv, Basics, diskVars, planVars, fileVars, kept, NoFile, NoRows, target
<1>1. Basics'
  BY ReadTextBasics
<1>4. JournalAgrees'
  BY DEF JournalAgrees, ReadText
<1>5. StagingAgrees'
  BY DEF StagingAgrees, ReadText
<1>6. VectorsAgree'
  BY DEF VectorsAgree, Doomed, EndedWell, ReadText
<1> QED BY <1>1, <1>4, <1>5, <1>6

LEMMA ReadFailsBasics ==
  ASSUME Basics, ReadFails
  PROVE  Basics'
<1> USE IndexAssumption, OwnDocs, TextIsOwn, OthersDocs
    DEF Basics, diskVars, planVars, fileVars, kept, NoFile, NoRows, target
<1>1. TypeOK'
  BY DEF TypeOK, Places, ReadFails, FailFile, Abort, NextFile
<1>2. RowsAreOwn'
  BY DEF RowsAreOwn, ReadFails
<1>3. WorkIsOwn'
  BY DEF WorkIsOwn, FilePhases, ReadFails, FailFile, Abort, NextFile
<1> QED BY <1>1, <1>2, <1>3

LEMMA ReadFailsKeeps ==
  ASSUME IInv, intact', ReadFails
  PROVE  IInv'
<1> USE IndexAssumption, OwnDocs, TextIsOwn, OthersDocs
    DEF IInv, Basics, diskVars, planVars, fileVars, kept, NoFile, NoRows, target
<1>1. Basics'
  BY ReadFailsBasics
<1>4. JournalAgrees'
  BY DEF JournalAgrees, ReadFails, FailFile, Abort, NextFile
<1>5. StagingAgrees'
  BY DEF StagingAgrees, ReadFails, FailFile, Abort, NextFile
<1>6. VectorsAgree'
  BY DEF VectorsAgree, Doomed, EndedWell, ReadFails, FailFile, Abort, NextFile
<1> QED BY <1>1, <1>4, <1>5, <1>6

LEMMA UpsertBatchBasics ==
  ASSUME Basics, UpsertBatch
  PROVE  Basics'
<1> USE IndexAssumption, OwnDocs, TextIsOwn, OthersDocs
    DEF Basics, diskVars, planVars, fileVars, kept, NoFile, NoRows, target
<1>1. TypeOK'
  BY DEF TypeOK, WorkIsOwn, Places, FilePhases, UpsertBatch, SetTarget
<1>2. RowsAreOwn'
  BY DEF RowsAreOwn, UpsertBatch
<1>3. WorkIsOwn'
  BY DEF WorkIsOwn, FilePhases, UpsertBatch, SetTarget
<1> QED BY <1>1, <1>2, <1>3

LEMMA UpsertBatchKeeps ==
  ASSUME IInv, intact', UpsertBatch
  PROVE  IInv'
<1> USE IndexAssumption, OwnDocs, TextIsOwn, OthersDocs
    DEF IInv, Basics, diskVars, planVars, fileVars, kept, NoFile, NoRows, target
<1>1. Basics'
  BY UpsertBatchBasics
<1>4. JournalAgrees'
  BY DEF JournalAgrees, UpsertBatch
<1>5. StagingAgrees'
  BY DEF StagingAgrees, UpsertBatch, SetTarget
<1>6. VectorsAgree'
  BY DEF VectorsAgree, Doomed, EndedWell, UpsertBatch, SetTarget
<1> QED BY <1>1, <1>4, <1>5, <1>6

LEMMA UpsertFailsBasics ==
  ASSUME Basics, UpsertFails
  PROVE  Basics'
<1> USE IndexAssumption, OwnDocs, TextIsOwn, OthersDocs
    DEF Basics, diskVars, planVars, fileVars, kept, NoFile, NoRows, target
<1>1. TypeOK'
  BY DEF TypeOK, WorkIsOwn, Places, FilePhases, UpsertFails, SetTarget
<1>2. RowsAreOwn'
  BY DEF RowsAreOwn, UpsertFails
<1>3. WorkIsOwn'
  BY DEF WorkIsOwn, FilePhases, UpsertFails
<1> QED BY <1>1, <1>2, <1>3

LEMMA UpsertFailsKeeps ==
  ASSUME IInv, intact', UpsertFails
  PROVE  IInv'
<1> USE IndexAssumption, OwnDocs, TextIsOwn, OthersDocs
    DEF IInv, Basics, diskVars, planVars, fileVars, kept, NoFile, NoRows, target
<1>1. Basics'
  BY UpsertFailsBasics
<1>4. JournalAgrees'
  BY DEF JournalAgrees, UpsertFails
<1>5. StagingAgrees'
  BY DEF StagingAgrees, UpsertFails, SetTarget
<1>6. VectorsAgree'
  BY DEF VectorsAgree, Doomed, EndedWell, UpsertFails, SetTarget
<1> QED BY <1>1, <1>4, <1>5, <1>6

LEMMA RollbackBasics ==
  ASSUME Basics, Rollback
  PROVE  Basics'
<1> USE IndexAssumption, OwnDocs, TextIsOwn, OthersDocs
    DEF Basics, diskVars, planVars, fileVars, kept, NoFile, NoRows, target
<1>1. TypeOK'
  BY DEF TypeOK, Places, Rollback, SetTarget, DeletesSome, FailFile, Abort, NextFile
<1>2. RowsAreOwn'
  BY DEF RowsAreOwn, Rollback
<1>3. WorkIsOwn'
  BY DEF WorkIsOwn, FilePhases, Rollback, FailFile, Abort, NextFile
<1> QED BY <1>1, <1>2, <1>3

LEMMA RollbackKeeps ==
  ASSUME IInv, intact', Rollback
  PROVE  IInv'
<1> USE IndexAssumption, OwnDocs, TextIsOwn, OthersDocs
    DEF IInv, Basics, diskVars, planVars, fileVars, kept, NoFile, NoRows, target
<1>1. Basics'
  BY RollbackBasics
<1>4. JournalAgrees'
  BY DEF JournalAgrees, Rollback, FailFile, Abort, NextFile
<1>5. StagingAgrees'
  <2>1. cur \in todo /\ cur \in Files /\ stMan' = stMan /\ todo' \subseteq todo
        /\ pc' # "promoteManifest"
    BY DEF TypeOK, WorkIsOwn, FilePhases, Rollback, FailFile, Abort, NextFile
  <2>2. stMan[cur] = None /\ RolledBack \subseteq DocsOf(cur)
    BY <2>1 DEF StagingAgrees, WorkIsOwn, RolledBack
  <2>3. stCol \ RolledBack \subseteq stCol'
    BY DEF Rollback, SetTarget, DeletesSome
  <2>4. ASSUME NEW g \in Files, stMan[g] # None
        PROVE  stMan[g].ids \subseteq stCol'
    BY <2>1, <2>2, <2>3, <2>4 DEF StagingAgrees, RowsAreOwn
  <2> QED BY <2>1, <2>4 DEF StagingAgrees
<1>6. VectorsAgree'
  BY DEF VectorsAgree, Doomed, EndedWell, Rollback, FailFile, Abort, NextFile
<1> QED BY <1>1, <1>4, <1>5, <1>6

LEMMA ChunklessVectorsBasics ==
  ASSUME Basics, ChunklessVectors
  PROVE  Basics'
<1> USE IndexAssumption, OwnDocs, TextIsOwn, OthersDocs
    DEF Basics, diskVars, planVars, fileVars, kept, NoFile, NoRows, target
<1>1. TypeOK'
  BY DEF TypeOK, Places, FilePhases, ChunklessVectors, SetTarget
<1>2. RowsAreOwn'
  BY DEF RowsAreOwn, ChunklessVectors
<1>3. WorkIsOwn'
  BY DEF WorkIsOwn, FilePhases, ChunklessVectors
<1> QED BY <1>1, <1>2, <1>3

LEMMA ChunklessVectorsKeeps ==
  ASSUME IInv, intact', ChunklessVectors
  PROVE  IInv'
<1> USE IndexAssumption, OwnDocs, TextIsOwn, OthersDocs
    DEF IInv, Basics, diskVars, planVars, fileVars, kept, NoFile, NoRows, target
<1>1. Basics'
  BY ChunklessVectorsBasics
<1>4. JournalAgrees'
  BY DEF JournalAgrees, ChunklessVectors
<1>5. StagingAgrees'
  BY DEF StagingAgrees, ChunklessVectors, SetTarget, OldIds
<1>6. VectorsAgree'
  BY DEF TypeOK, RowsAreOwn, WorkIsOwn, VectorsAgree, Doomed, EndedWell, FilePhases,
     ChunklessVectors, SetTarget, OldIds
<1> QED BY <1>1, <1>4, <1>5, <1>6

LEMMA ChunklessFailsBasics ==
  ASSUME Basics, ChunklessFails
  PROVE  Basics'
<1> USE IndexAssumption, OwnDocs, TextIsOwn, OthersDocs
    DEF Basics, diskVars, planVars, fileVars, kept, NoFile, NoRows, target
<1>1. TypeOK'
  BY DEF TypeOK, Places, ChunklessFails, SetTarget, DeletesSome, FailFile, Abort, NextFile
<1>2. RowsAreOwn'
  BY DEF RowsAreOwn, ChunklessFails
<1>3. WorkIsOwn'
  BY DEF WorkIsOwn, FilePhases, ChunklessFails, FailFile, Abort, NextFile
<1> QED BY <1>1, <1>2, <1>3

LEMMA ChunklessFailsKeeps ==
  ASSUME IInv, intact', ChunklessFails
  PROVE  IInv'
<1> USE IndexAssumption, OwnDocs, TextIsOwn, OthersDocs
    DEF IInv, Basics, diskVars, planVars, fileVars, kept, NoFile, NoRows, target
<1>1. Basics'
  BY ChunklessFailsBasics
<1>4. JournalAgrees'
  BY DEF JournalAgrees, ChunklessFails, FailFile, Abort, NextFile
<1>5. StagingAgrees'
  BY DEF StagingAgrees, ChunklessFails, SetTarget, DeletesSome, OldIds, FailFile, Abort,
     NextFile
<1>6. VectorsAgree'
  BY DEF VectorsAgree, Doomed, EndedWell, ChunklessFails, FailFile, Abort, NextFile
<1> QED BY <1>1, <1>4, <1>5, <1>6

LEMMA ChunklessRowBasics ==
  ASSUME Basics, ChunklessRow
  PROVE  Basics'
<1> USE IndexAssumption, OwnDocs, TextIsOwn, OthersDocs
    DEF Basics, diskVars, planVars, fileVars, kept, NoFile, NoRows, target
<1>1. TypeOK'
  <2>1. man' \in [Files -> Rows \cup {None}] /\ stMan' \in [Files -> Rows \cup {None}]
    <3>1. /\ man' = man \/ man' = [man EXCEPT ![cur] = None]
          /\ stMan' = stMan \/ stMan' = [stMan EXCEPT ![cur] = None]
      BY DEF ChunklessRow, SetRow
    <3>2. man \in [Files -> Rows \cup {None}] /\ stMan \in [Files -> Rows \cup {None}]
      BY DEF TypeOK
    <3> QED BY ONLY <3>1, <3>2
  <2>2. todo' \subseteq found'
    BY DEF TypeOK, ChunklessRow, NextFile, Abort
  <2>3. /\ pc' \in Places /\ cur' \in Files \cup {None} /\ stamp' \in Nat
        /\ outcome' \in {"ok", "warnings", "error"}
    BY DEF TypeOK, Places, ChunklessRow, NextFile, Abort
  <2> QED BY <2>1, <2>2, <2>3 DEF TypeOK, ChunklessRow
<1>2. RowsAreOwn'
  BY DEF TypeOK, RowsAreOwn, ChunklessRow, SetRow, NextFile
<1>3. WorkIsOwn'
  BY DEF WorkIsOwn, FilePhases, ChunklessRow, NextFile, Abort
<1> QED BY <1>1, <1>2, <1>3

LEMMA ChunklessRowKeeps ==
  ASSUME IInv, intact', ChunklessRow
  PROVE  IInv'
<1> USE IndexAssumption, OwnDocs, TextIsOwn, OthersDocs
    DEF IInv, Basics, diskVars, planVars, fileVars, kept, NoFile, NoRows, target
<1>1. Basics'
  BY ChunklessRowBasics
<1>4. JournalAgrees'
  BY DEF TypeOK, JournalAgrees, ChunklessRow, SetRow, NextFile, Abort
<1>5. StagingAgrees'
  BY DEF TypeOK, StagingAgrees, ChunklessRow, SetRow, NextFile, Abort
<1>6. VectorsAgree'
  BY DEF TypeOK, JournalAgrees, VectorsAgree, Doomed, EndedWell, ChunklessRow, SetRow,
     NextFile, Abort
<1> QED BY <1>1, <1>4, <1>5, <1>6

LEMMA CommitBasics ==
  ASSUME Basics, Commit
  PROVE  Basics'
<1> USE IndexAssumption, OwnDocs, TextIsOwn, OthersDocs
    DEF Basics, diskVars, planVars, fileVars, kept, NoFile, NoRows, target
<1>c. cur \in todo /\ cur \in Files /\ fresh \subseteq DocsOf(cur) /\ DocsOf(cur) \subseteq Docs
  BY DEF TypeOK, WorkIsOwn, FilePhases, Commit
<1>r. [stamp |-> stamp, ids |-> fresh] \in Rows
  BY <1>c DEF TypeOK, Rows
<1>1. TypeOK'
  <2>1. man' \in [Files -> Rows \cup {None}] /\ stMan' \in [Files -> Rows \cup {None}]
    <3>1. \/ man' = [man EXCEPT ![cur] = [stamp |-> stamp, ids |-> fresh]] /\ stMan' = stMan
          \/ stMan' = [stMan EXCEPT ![cur] = [stamp |-> stamp, ids |-> fresh]] /\ man' = man
      BY DEF Commit, SetRow
    <3>2. man \in [Files -> Rows \cup {None}] /\ stMan \in [Files -> Rows \cup {None}]
      BY DEF TypeOK
    <3> QED BY ONLY <1>r, <3>1, <3>2
  <2>2. todo' \subseteq found /\ cur' \in Files \cup {None} /\ stamp' \in Nat
        /\ pc' \in {"files", "journal"}
    BY <1>c DEF TypeOK, Commit, NextFile
  <2>3. asks' = asks /\ base' = base /\ settled' = settled /\ whole' = whole /\ disk' = disk
        /\ outcome' = outcome /\ found' = found /\ force' = force /\ journal' = journal
        /\ col' = col /\ stCol' = stCol
    BY DEF Commit
  <2> QED BY <2>1, <2>2, <2>3 DEF TypeOK, Places, FilePhases
<1>2. RowsAreOwn'
  <2>1. CASE force
    <3>1. man' = man /\ stMan' = [stMan EXCEPT ![cur] = [stamp |-> stamp, ids |-> fresh]]
      BY <2>1 DEF Commit, SetRow
    <3> QED BY <1>c, <3>1 DEF TypeOK, RowsAreOwn
  <2>2. CASE ~force
    <3>1. stMan' = stMan /\ man' = [man EXCEPT ![cur] = [stamp |-> stamp, ids |-> fresh]]
      BY <2>2 DEF Commit, SetRow
    <3> QED BY <1>c, <3>1 DEF TypeOK, RowsAreOwn
  <2> QED BY <2>1, <2>2
<1>3. WorkIsOwn'
  <2>1. CASE Stale = {}
    <3>1. pc' = "files" /\ rest' = {} /\ fresh' = {} /\ stale' = {} /\ cur' = None
      BY <2>1 DEF Commit, NextFile
    <3> QED BY <3>1, IndexAssumption DEF WorkIsOwn, FilePhases
  <2>2. CASE Stale # {}
    <3>1. pc' = "journal" /\ stale' = Stale /\ todo' = todo /\ cur' = cur /\ rest' = rest
          /\ fresh' = fresh /\ force' = force
      BY <2>2 DEF Commit
    <3>2. ~force /\ man[cur] # None /\ Stale = man[cur].ids \ fresh
      BY <2>2 DEF Stale, OldIds
    <3>3. man' = [man EXCEPT ![cur] = [stamp |-> stamp, ids |-> fresh]]
      BY <3>2 DEF Commit, SetRow
    <3>4. man'[cur].ids = fresh /\ Stale \subseteq DocsOf(cur)
      BY <1>c, <3>2, <3>3 DEF TypeOK, RowsAreOwn
    <3>5. rest \subseteq DocsOf(cur)
      BY <1>c DEF WorkIsOwn
    <3> QED BY <1>c, <3>1, <3>2, <3>4, <3>5 DEF WorkIsOwn, FilePhases
  <2> QED BY <2>1, <2>2
<1> QED BY <1>1, <1>2, <1>3

LEMMA CommitKeeps ==
  ASSUME IInv, intact', Commit
  PROVE  IInv'
<1> USE IndexAssumption, OwnDocs, TextIsOwn, OthersDocs
    DEF IInv, Basics, diskVars, planVars, fileVars, kept, NoFile, NoRows, target
<1>c. cur \in todo /\ cur \in Files /\ fresh \subseteq DocsOf(cur) /\ DocsOf(cur) \subseteq Docs
  BY DEF TypeOK, WorkIsOwn, FilePhases, Commit
<1>r. [stamp |-> stamp, ids |-> fresh] \in Rows
  BY <1>c DEF TypeOK, Rows
<1>1. Basics'
  BY CommitBasics
<1>4. JournalAgrees'
  BY DEF TypeOK, RowsAreOwn, WorkIsOwn, JournalAgrees, Commit, SetRow, Stale, NextFile
<1>5. StagingAgrees'
  <2>1. (force => man' = man /\ stMan' = [stMan EXCEPT ![cur] = [stamp |-> stamp, ids |-> fresh]])
        /\ (~force => stMan' = stMan)
    BY DEF Commit, SetRow
  <2>2. todo' \subseteq todo /\ (force => fresh \subseteq stCol) /\ stCol' = stCol
        /\ pc' # "promoteManifest" /\ fresh \subseteq target
    BY DEF Commit, NextFile, WorkIsOwn
  <2>3. force => todo' = todo \ {cur}
    BY DEF Commit, NextFile, Stale, OldIds
  <2> HIDE IndexAssumption, TextIsOwn, OthersDocs
  <2> QED BY <1>c, <2>1, <2>2, <2>3 DEF TypeOK, StagingAgrees
<1>6. VectorsAgree'
  <2>1. (~force => man' = [man EXCEPT ![cur] = [stamp |-> stamp, ids |-> fresh]])
        /\ (force => man' = man)
    BY DEF Commit, SetRow
  <2>2. col' = col /\ force' = force /\ outcome' = outcome /\ pc' \in {"files", "journal"}
        /\ pc = "commit" /\ (~force => fresh \subseteq col) /\ whole' = whole
    BY DEF Commit, NextFile, WorkIsOwn
  <2> HIDE IndexAssumption, TextIsOwn, OthersDocs
  <2> QED BY <1>c, <2>1, <2>2 DEF TypeOK, VectorsAgree, Doomed, EndedWell
<1> QED BY <1>1, <1>4, <1>5, <1>6

LEMMA CommitFailsBasics ==
  ASSUME Basics, CommitFails
  PROVE  Basics'
<1> USE IndexAssumption, OwnDocs, TextIsOwn, OthersDocs
    DEF Basics, diskVars, planVars, fileVars, kept, NoFile, NoRows, target
<1>1. TypeOK'
  BY DEF TypeOK, Places, FilePhases, CommitFails
<1>2. RowsAreOwn'
  BY DEF RowsAreOwn, CommitFails
<1>3. WorkIsOwn'
  BY DEF WorkIsOwn, FilePhases, CommitFails
<1> QED BY <1>1, <1>2, <1>3

LEMMA CommitFailsKeeps ==
  ASSUME IInv, intact', CommitFails
  PROVE  IInv'
<1> USE IndexAssumption, OwnDocs, TextIsOwn, OthersDocs
    DEF IInv, Basics, diskVars, planVars, fileVars, kept, NoFile, NoRows, target
<1>1. Basics'
  BY CommitFailsBasics
<1>4. JournalAgrees'
  BY DEF JournalAgrees, CommitFails
<1>5. StagingAgrees'
  BY DEF StagingAgrees, CommitFails
<1>6. VectorsAgree'
  BY DEF VectorsAgree, Doomed, EndedWell, CommitFails
<1> QED BY <1>1, <1>4, <1>5, <1>6

LEMMA AppendJournalBasics ==
  ASSUME Basics, AppendJournal
  PROVE  Basics'
<1> USE IndexAssumption, OwnDocs, TextIsOwn, OthersDocs
    DEF Basics, diskVars, planVars, fileVars, kept, NoFile, NoRows, target
<1>1. TypeOK'
  BY DEF TypeOK, WorkIsOwn, Places, FilePhases, AppendJournal
<1>2. RowsAreOwn'
  BY DEF RowsAreOwn, AppendJournal
<1>3. WorkIsOwn'
  BY DEF WorkIsOwn, FilePhases, AppendJournal
<1> QED BY <1>1, <1>2, <1>3

LEMMA AppendJournalKeeps ==
  ASSUME IInv, intact', AppendJournal
  PROVE  IInv'
<1> USE IndexAssumption, OwnDocs, TextIsOwn, OthersDocs
    DEF IInv, Basics, diskVars, planVars, fileVars, kept, NoFile, NoRows, target
<1>1. Basics'
  BY AppendJournalBasics
<1>4. JournalAgrees'
  <2>1. \A f \in Files : journal' # None /\ man[f] # None => journal' \cap man[f].ids = {}
    BY DEF TypeOK, RowsAreOwn, WorkIsOwn, JournalAgrees, FilePhases, AppendJournal
  <2>2. force => journal' \in {None, {}}
    BY DEF WorkIsOwn, JournalAgrees, FilePhases, AppendJournal
  <2>3. \A f \in todo : journal' # None => journal' \cap DocsOf(f) = {} \/ f = cur
    BY DEF TypeOK, WorkIsOwn, JournalAgrees, FilePhases, AppendJournal
  <2> QED BY <2>1, <2>2, <2>3 DEF JournalAgrees, AppendJournal
<1>5. StagingAgrees'
  BY DEF StagingAgrees, AppendJournal
<1>6. VectorsAgree'
  BY DEF VectorsAgree, Doomed, EndedWell, AppendJournal
<1> QED BY <1>1, <1>4, <1>5, <1>6

LEMMA DeleteStaleBasics ==
  ASSUME Basics, DeleteStale
  PROVE  Basics'
<1> USE IndexAssumption, OwnDocs, TextIsOwn, OthersDocs
    DEF Basics, diskVars, planVars, fileVars, kept, NoFile, NoRows, target
<1>1. TypeOK'
  BY DEF TypeOK, Places, DeleteStale, SetTarget, DeletesSome, FailFile, Abort, NextFile
<1>2. RowsAreOwn'
  BY DEF RowsAreOwn, DeleteStale
<1>3. WorkIsOwn'
  BY DEF WorkIsOwn, FilePhases, DeleteStale, FailFile, Abort, NextFile
<1> QED BY <1>1, <1>2, <1>3

LEMMA DeleteStaleKeeps ==
  ASSUME IInv, intact', DeleteStale
  PROVE  IInv'
<1> USE IndexAssumption, OwnDocs, TextIsOwn, OthersDocs
    DEF IInv, Basics, diskVars, planVars, fileVars, kept, NoFile, NoRows, target
<1>1. Basics'
  BY DeleteStaleBasics
<1>4. JournalAgrees'
  BY DEF JournalAgrees, DeleteStale, FailFile, Abort, NextFile
<1>5. StagingAgrees'
  BY DEF WorkIsOwn, StagingAgrees, DeleteStale, SetTarget, DeletesSome, FailFile, Abort,
     NextFile
<1>6. VectorsAgree'
  BY DEF TypeOK, RowsAreOwn, WorkIsOwn, JournalAgrees, StagingAgrees, VectorsAgree,
     Doomed, EndedWell, FilePhases, DeleteStale, SetTarget, target, FailFile, Abort,
     NextFile
<1> QED BY <1>1, <1>4, <1>5, <1>6

LEMMA VanishedVectorsBasics ==
  ASSUME Basics, VanishedVectors
  PROVE  Basics'
<1> USE IndexAssumption, OwnDocs, TextIsOwn, OthersDocs
    DEF Basics, diskVars, planVars, fileVars, kept, NoFile, NoRows, target
<1>1. TypeOK'
  BY DEF TypeOK, Places, FilePhases, VanishedVectors
<1>2. RowsAreOwn'
  BY DEF RowsAreOwn, VanishedVectors
<1>3. WorkIsOwn'
  BY DEF WorkIsOwn, FilePhases, VanishedVectors
<1> QED BY <1>1, <1>2, <1>3

LEMMA VanishedVectorsKeeps ==
  ASSUME IInv, intact', VanishedVectors
  PROVE  IInv'
<1> USE IndexAssumption, OwnDocs, TextIsOwn, OthersDocs
    DEF IInv, Basics, diskVars, planVars, fileVars, kept, NoFile, NoRows, target
<1>1. Basics'
  BY VanishedVectorsBasics
<1>4. JournalAgrees'
  BY DEF JournalAgrees, VanishedVectors
<1>5. StagingAgrees'
  BY DEF StagingAgrees, VanishedVectors
<1>6. VectorsAgree'
  BY DEF TypeOK, RowsAreOwn, WorkIsOwn, StagingAgrees, VectorsAgree, Doomed, EndedWell,
     FilePhases, VanishedVectors, rows
<1> QED BY <1>1, <1>4, <1>5, <1>6

LEMMA VanishedRowBasics ==
  ASSUME Basics, VanishedRow
  PROVE  Basics'
<1> USE IndexAssumption, OwnDocs, TextIsOwn, OthersDocs
    DEF Basics, diskVars, planVars, fileVars, kept, NoFile, NoRows, target
<1>1. TypeOK'
  <2>1. man' \in [Files -> Rows \cup {None}] /\ stMan' \in [Files -> Rows \cup {None}]
    <3>1. CASE man' = man /\ stMan' = stMan
      BY <3>1 DEF TypeOK
    <3>2. CASE man' = [man EXCEPT ![cur] = None] /\ stMan' = stMan
      BY <3>2 DEF TypeOK
    <3>3. CASE stMan' = [stMan EXCEPT ![cur] = None] /\ man' = man
      BY <3>3 DEF TypeOK
    <3> QED BY <3>1, <3>2, <3>3 DEF VanishedRow, SetRow
  <2>2. todo' \subseteq found' /\ found' \subseteq Files
    BY DEF TypeOK, VanishedRow, NextFile
  <2>3. pc' \in Places /\ cur' \in Files \cup {None} /\ stamp' \in Nat
    BY DEF TypeOK, Places, VanishedRow, NextFile
  <2> QED BY <2>1, <2>2, <2>3 DEF TypeOK, VanishedRow
<1>2. RowsAreOwn'
  BY DEF TypeOK, RowsAreOwn, VanishedRow, SetRow
<1>3. WorkIsOwn'
  BY DEF WorkIsOwn, FilePhases, VanishedRow, NextFile
<1> QED BY <1>1, <1>2, <1>3

LEMMA VanishedRowKeeps ==
  ASSUME IInv, intact', VanishedRow
  PROVE  IInv'
<1> USE IndexAssumption, OwnDocs, TextIsOwn, OthersDocs
    DEF IInv, Basics, diskVars, planVars, fileVars, kept, NoFile, NoRows, target
<1>1. Basics'
  BY VanishedRowBasics
<1>4. JournalAgrees'
  BY DEF TypeOK, WorkIsOwn, JournalAgrees, StagingAgrees, VanishedRow, SetRow, NextFile
<1>5. StagingAgrees'
  BY DEF TypeOK, StagingAgrees, VanishedRow, SetRow, NextFile
<1>6. VectorsAgree'
  <2>1. CASE pc = "vanishedRow"
    <3>1. /\ man' = man \/ man' = [man EXCEPT ![cur] = None]
          /\ col' = col /\ outcome' = outcome /\ force' = force /\ pc' = "files"
          /\ ~force => man' = [man EXCEPT ![cur] = None]
      BY <2>1 DEF VanishedRow, SetRow, NextFile
    <3> QED BY <2>1, <3>1 DEF TypeOK, VectorsAgree, Doomed, EndedWell, VanishedRow
  <2>2. CASE pc = "vanished"
    BY <2>2 DEF VectorsAgree, Doomed, EndedWell, VanishedRow, NextFile
  <2> QED BY <2>1, <2>2 DEF VanishedRow
<1> QED BY <1>1, <1>4, <1>5, <1>6

LEMMA VanishFailsBasics ==
  ASSUME Basics, VanishFails
  PROVE  Basics'
<1> USE IndexAssumption, OwnDocs, TextIsOwn, OthersDocs
    DEF Basics, diskVars, planVars, fileVars, kept, NoFile, NoRows, target
<1>1. TypeOK'
  BY DEF TypeOK, Places, VanishFails, NextFile
<1>2. RowsAreOwn'
  BY DEF RowsAreOwn, VanishFails
<1>3. WorkIsOwn'
  BY DEF WorkIsOwn, FilePhases, VanishFails, NextFile
<1> QED BY <1>1, <1>2, <1>3

LEMMA VanishFailsKeeps ==
  ASSUME IInv, intact', VanishFails
  PROVE  IInv'
<1> USE IndexAssumption, OwnDocs, TextIsOwn, OthersDocs
    DEF IInv, Basics, diskVars, planVars, fileVars, kept, NoFile, NoRows, target
<1>1. Basics'
  BY VanishFailsBasics
<1>4. JournalAgrees'
  BY DEF JournalAgrees, VanishFails, NextFile
<1>5. StagingAgrees'
  BY DEF StagingAgrees, VanishFails, NextFile
<1>6. VectorsAgree'
  BY DEF VectorsAgree, Doomed, EndedWell, VanishFails, NextFile
<1> QED BY <1>1, <1>4, <1>5, <1>6

LEMMA InterruptedBasics ==
  ASSUME Basics, Interrupted
  PROVE  Basics'
<1> USE IndexAssumption, OwnDocs, TextIsOwn, OthersDocs
    DEF Basics, diskVars, planVars, fileVars, kept, NoFile, NoRows, target
<1>1. TypeOK'
  BY DEF TypeOK, Places, Interrupted, Abort
<1>2. RowsAreOwn'
  BY DEF RowsAreOwn, Interrupted
<1>3. WorkIsOwn'
  BY DEF WorkIsOwn, FilePhases, Interrupted, Abort
<1> QED BY <1>1, <1>2, <1>3

LEMMA InterruptedKeeps ==
  ASSUME IInv, intact', Interrupted
  PROVE  IInv'
<1> USE IndexAssumption, OwnDocs, TextIsOwn, OthersDocs
    DEF IInv, Basics, diskVars, planVars, fileVars, kept, NoFile, NoRows, target
<1>1. Basics'
  BY InterruptedBasics
<1>4. JournalAgrees'
  BY DEF JournalAgrees, Interrupted, Abort
<1>5. StagingAgrees'
  BY DEF StagingAgrees, Interrupted, Abort
<1>6. VectorsAgree'
  BY DEF VectorsAgree, Doomed, EndedWell, Interrupted, Abort
<1> QED BY <1>1, <1>4, <1>5, <1>6

LEMMA PurgeVectorsBasics ==
  ASSUME Basics, NEW f \in Files, PurgeVectors(f)
  PROVE  Basics'
<1> USE IndexAssumption, OwnDocs, TextIsOwn, OthersDocs
    DEF Basics, diskVars, planVars, fileVars, kept, NoFile, NoRows, target
<1>1. TypeOK'
  BY DEF TypeOK, Places, PurgeVectors
<1>2. RowsAreOwn'
  BY DEF RowsAreOwn, PurgeVectors
<1>3. WorkIsOwn'
  <2>1. todo' = {} /\ ~force' /\ cur' \in {cur, f} /\ pc' \in {"purgeRow", "finishing"}
        /\ (pc' = "purgeRow" => cur' = f)
    BY DEF PurgeVectors
  <2>2. rest' \cup fresh' \cup stale' = {}
    BY DEF WorkIsOwn, PurgeVectors
  <2> QED BY <2>1, <2>2 DEF WorkIsOwn, FilePhases
<1> QED BY <1>1, <1>2, <1>3

LEMMA PurgeVectorsKeeps ==
  ASSUME IInv, intact', NEW f \in Files, PurgeVectors(f)
  PROVE  IInv'
<1> USE IndexAssumption, OwnDocs, TextIsOwn, OthersDocs
    DEF IInv, Basics, diskVars, planVars, fileVars, kept, NoFile, NoRows, target
<1>1. Basics'
  BY PurgeVectorsBasics
<1>4. JournalAgrees'
  BY DEF JournalAgrees, PurgeVectors
<1>5. StagingAgrees'
  BY DEF StagingAgrees, PurgeVectors
<1>6. VectorsAgree'
  BY DEF RowsAreOwn, VectorsAgree, Doomed, EndedWell, PurgeVectors, Removed
<1> QED BY <1>1, <1>4, <1>5, <1>6

LEMMA PurgeRowBasics ==
  ASSUME Basics, PurgeRow
  PROVE  Basics'
<1> USE IndexAssumption, OwnDocs, TextIsOwn, OthersDocs
    DEF Basics, diskVars, planVars, fileVars, kept, NoFile, NoRows, target
<1>1. TypeOK'
  BY DEF TypeOK, Places, PurgeRow
<1>2. RowsAreOwn'
  BY DEF TypeOK, RowsAreOwn, PurgeRow
<1>3. WorkIsOwn'
  BY DEF WorkIsOwn, FilePhases, PurgeRow
<1> QED BY <1>1, <1>2, <1>3

LEMMA PurgeRowKeeps ==
  ASSUME IInv, intact', PurgeRow
  PROVE  IInv'
<1> USE IndexAssumption, OwnDocs, TextIsOwn, OthersDocs
    DEF IInv, Basics, diskVars, planVars, fileVars, kept, NoFile, NoRows, target
<1>1. Basics'
  BY PurgeRowBasics
<1>4. JournalAgrees'
  BY DEF TypeOK, JournalAgrees, PurgeRow
<1>5. StagingAgrees'
  BY DEF StagingAgrees, PurgeRow
<1>6. VectorsAgree'
  <2>1. \A g \in Files : man'[g] # None => (man'[g] = man[g] /\ g # cur) \/ outcome' # "ok"
    BY DEF TypeOK, PurgeRow
  <2>2. whole' = whole /\ col' = col /\ force' = force /\ pc = "purgeRow" /\ pc' \notin Doomed
        /\ (outcome' = "ok" => outcome = "ok")
    BY DEF PurgeRow, Doomed
  <2>3. ~force
    BY DEF WorkIsOwn, PurgeRow
  <2> QED BY <2>1, <2>2, <2>3 DEF VectorsAgree, EndedWell, Doomed
<1> QED BY <1>1, <1>4, <1>5, <1>6

LEMMA AllDoneBasics ==
  ASSUME Basics, AllDone
  PROVE  Basics'
<1> USE IndexAssumption, OwnDocs, TextIsOwn, OthersDocs
    DEF Basics, diskVars, planVars, fileVars, kept, NoFile, NoRows, target
<1>1. TypeOK'
  BY DEF TypeOK, Places, AllDone
<1>2. RowsAreOwn'
  BY DEF RowsAreOwn, AllDone
<1>3. WorkIsOwn'
  BY DEF WorkIsOwn, FilePhases, AllDone
<1> QED BY <1>1, <1>2, <1>3

LEMMA AllDoneKeeps ==
  ASSUME IInv, intact', AllDone
  PROVE  IInv'
<1> USE IndexAssumption, OwnDocs, TextIsOwn, OthersDocs
    DEF IInv, Basics, diskVars, planVars, fileVars, kept, NoFile, NoRows, target
<1>1. Basics'
  BY AllDoneBasics
<1>4. JournalAgrees'
  BY DEF JournalAgrees, AllDone
<1>5. StagingAgrees'
  BY DEF StagingAgrees, AllDone
<1>6. VectorsAgree'
  BY DEF VectorsAgree, Doomed, EndedWell, AllDone
<1> QED BY <1>1, <1>4, <1>5, <1>6

LEMMA PromoteCollectionBasics ==
  ASSUME Basics, PromoteCollection
  PROVE  Basics'
<1> USE IndexAssumption, OwnDocs, TextIsOwn, OthersDocs
    DEF Basics, diskVars, planVars, fileVars, kept, NoFile, NoRows, target
<1>1. TypeOK'
  BY DEF TypeOK, Places, PromoteCollection
<1>2. RowsAreOwn'
  BY DEF RowsAreOwn, PromoteCollection
<1>3. WorkIsOwn'
  BY DEF WorkIsOwn, FilePhases, PromoteCollection
<1> QED BY <1>1, <1>2, <1>3

LEMMA PromoteCollectionKeeps ==
  ASSUME IInv, intact', PromoteCollection
  PROVE  IInv'
<1> USE IndexAssumption, OwnDocs, TextIsOwn, OthersDocs
    DEF IInv, Basics, diskVars, planVars, fileVars, kept, NoFile, NoRows, target
<1>1. Basics'
  BY PromoteCollectionBasics
<1>4. JournalAgrees'
  BY DEF JournalAgrees, PromoteCollection
<1>5. StagingAgrees'
  BY DEF StagingAgrees, PromoteCollection
<1>6. VectorsAgree'
  BY DEF VectorsAgree, EndedWell, PromoteCollection
<1> QED BY <1>1, <1>4, <1>5, <1>6

LEMMA PromoteManifestBasics ==
  ASSUME Basics, PromoteManifest
  PROVE  Basics'
<1> USE IndexAssumption, OwnDocs, TextIsOwn, OthersDocs
    DEF Basics, diskVars, planVars, fileVars, kept, NoFile, NoRows, target
<1>1. TypeOK'
  BY DEF TypeOK, RowsAreOwn, Places, PromoteManifest
<1>2. RowsAreOwn'
  BY DEF RowsAreOwn, PromoteManifest
<1>3. WorkIsOwn'
  BY DEF WorkIsOwn, FilePhases, PromoteManifest
<1> QED BY <1>1, <1>2, <1>3

LEMMA PromoteManifestKeeps ==
  ASSUME IInv, intact', PromoteManifest
  PROVE  IInv'
<1> USE IndexAssumption, OwnDocs, TextIsOwn, OthersDocs
    DEF IInv, Basics, diskVars, planVars, fileVars, kept, NoFile, NoRows, target
<1>1. Basics'
  BY PromoteManifestBasics
<1>4. JournalAgrees'
  BY DEF WorkIsOwn, JournalAgrees, PromoteManifest
<1>5. StagingAgrees'
  BY DEF StagingAgrees, PromoteManifest
<1>6. VectorsAgree'
  BY DEF StagingAgrees, VectorsAgree, Doomed, EndedWell, PromoteManifest
<1> QED BY <1>1, <1>4, <1>5, <1>6

LEMMA FinishBasics ==
  ASSUME Basics, Finish
  PROVE  Basics'
<1> USE IndexAssumption, OwnDocs, TextIsOwn, OthersDocs
    DEF Basics, diskVars, planVars, fileVars, kept, NoFile, NoRows, target
<1>1. TypeOK'
  <2>1. asks' \subseteq {"fresh", "overtaken"}
    BY DEF TypeOK, Finish, Overtaken
  <2>2. man' = man /\ stMan' = [f \in Files |-> None] /\ col' = col /\ stCol' = {}
        /\ journal' = journal /\ disk' = disk /\ base' = base /\ settled' = settled
        /\ whole' = whole /\ outcome' = outcome
    BY DEF Finish
  <2>3. pc' = "idle" /\ force' = FALSE /\ todo' = {} /\ found' = {} /\ cur' = None /\ stamp' = 0
    BY DEF Finish
  <2> QED BY <2>1, <2>2, <2>3 DEF TypeOK, Places
<1>2. RowsAreOwn'
  BY DEF RowsAreOwn, Finish
<1>3. WorkIsOwn'
  BY DEF WorkIsOwn, FilePhases, Finish
<1> QED BY <1>1, <1>2, <1>3

LEMMA FinishKeeps ==
  ASSUME IInv, intact', Finish
  PROVE  IInv'
<1> USE IndexAssumption, OwnDocs, TextIsOwn, OthersDocs
    DEF IInv, Basics, diskVars, planVars, fileVars, kept, NoFile, NoRows, target
<1>1. Basics'
  BY FinishBasics
<1>4. JournalAgrees'
  BY DEF JournalAgrees, Finish
<1>5. StagingAgrees'
  BY DEF StagingAgrees, Finish
<1>6. VectorsAgree'
  BY DEF VectorsAgree, Doomed, EndedWell, Finish
<1> QED BY <1>1, <1>4, <1>5, <1>6

LEMMA CrashBasics ==
  ASSUME Basics, Crash
  PROVE  Basics'
<1> USE IndexAssumption, OwnDocs, TextIsOwn, OthersDocs
    DEF Basics, diskVars, planVars, fileVars, kept, NoFile, NoRows, target
<1>1. TypeOK'
  <2>1. man' \in [Files -> Rows \cup {None}] /\ stMan' \in [Files -> Rows \cup {None}]
    BY DEF TypeOK, Crash
  <2>2. col' \subseteq Docs /\ stCol' \subseteq Docs
    BY DEF TypeOK, Crash
  <2>3. asks' \subseteq {"fresh", "overtaken"}
    BY DEF TypeOK, Crash, Overtaken
  <2> QED BY <2>1, <2>2, <2>3 DEF TypeOK, Places, Crash
<1>2. RowsAreOwn'
  BY DEF RowsAreOwn, Crash
<1>3. WorkIsOwn'
  BY DEF WorkIsOwn, FilePhases, Crash
<1> QED BY <1>1, <1>2, <1>3

LEMMA CrashKeeps ==
  ASSUME IInv, intact', Crash
  PROVE  IInv'
<1> USE IndexAssumption, OwnDocs, TextIsOwn, OthersDocs
    DEF IInv, Basics, diskVars, planVars, fileVars, kept, NoFile, NoRows, target
<1>1. Basics'
  BY CrashBasics
<1>4. JournalAgrees'
  BY DEF JournalAgrees, Crash
<1>5. StagingAgrees'
  BY DEF StagingAgrees, Crash
<1>6. VectorsAgree'
  BY DEF VectorsAgree, Doomed, EndedWell, Crash
<1> QED BY <1>1, <1>4, <1>5, <1>6

LEMMA StutterKeeps ==
  ASSUME IInv, UNCHANGED vars
  PROVE  IInv'
BY DEF IInv, Basics, vars, diskVars, planVars, fileVars, kept, target, TypeOK, RowsAreOwn,
   WorkIsOwn, JournalAgrees, StagingAgrees, VectorsAgree, EndedWell

LEMMA StepKeeps ==
  ASSUME IInv, intact', [Next]_vars
  PROVE  IInv'
<1>1. ASSUME NEW f \in Files, Edit(f) PROVE IInv'
  BY <1>1, EditKeeps
<1>2. ASSUME NEW decision \in {"rebuild", "fresh", "overtaken"}, Start(decision) PROVE IInv'
  BY <1>2, StartKeeps
<1>3. CASE Preparing
  BY <1>3, PrepareFailsKeeps, DiscoverKeeps, NothingToReplayKeeps, ReplayKeeps,
     ReplayFailsKeeps, ClearJournalKeeps DEF Preparing
<1>4. CASE IndexFile
  BY <1>4, LookAtKeeps, UnchangedKeeps, ReadTextKeeps, ReadFailsKeeps, UpsertBatchKeeps,
     UpsertFailsKeeps,
     RollbackKeeps, ChunklessVectorsKeeps, ChunklessFailsKeeps, ChunklessRowKeeps,
     CommitKeeps, CommitFailsKeeps, AppendJournalKeeps, DeleteStaleKeeps,
     VanishedVectorsKeeps, VanishedRowKeeps, VanishFailsKeeps DEF IndexFile
<1>5. CASE Interrupted
  BY <1>5, InterruptedKeeps
<1>6. CASE Ending
  BY <1>6, PurgeVectorsKeeps, PurgeRowKeeps, AllDoneKeeps, PromoteCollectionKeeps,
     PromoteManifestKeeps, FinishKeeps DEF Ending
<1>7. CASE Crash
  BY <1>7, CrashKeeps
<1>8. CASE UNCHANGED vars
  BY <1>8, StutterKeeps
<1>9. CASE Callers
  BY <1>9, CallersKeeps
<1> QED BY <1>1, <1>2, <1>3, <1>4, <1>5, <1>6, <1>7, <1>8, <1>9 DEF Next

\* A journal that has failed counts as failed from then on.
LEMMA FailureStays ==
  ASSUME [Next]_vars, ~intact
  PROVE  ~intact'
BY DEF Next, vars, diskVars, kept, Edit, Callers, Check, Refuse, Start, Preparing, PrepareFails, Discover,
   NothingToReplay, Replay, ReplayFails, ClearJournal, IndexFile, LookAt, Unchanged,
   ReadText, ReadFails, UpsertBatch, UpsertFails, Rollback, ChunklessVectors,
   ChunklessFails, ChunklessRow, Commit, CommitFails, AppendJournal, DeleteStale,
   VanishedVectors, VanishedRow, VanishFails, Interrupted, Ending, PurgeVectors,
   PurgeRow, AllDone, PromoteCollection, PromoteManifest, Finish, Crash

LEMMA CompleteWhenEnded == (intact => IInv) => CleanRunIsComplete
BY DEF IInv, VectorsAgree, CleanRunIsComplete, ManifestIds, RowIds

LEMMA JournalIsDead == (intact => IInv) => JournalNamesNoLiveVector
BY DEF IInv, JournalAgrees, JournalNamesNoLiveVector, ReplayIsSafe, ManifestIds, RowIds

\* The only steps that drop a row of the active manifest, promotions aside, find
\* its vectors gone; a crash drops rows only in the middle of a promotion.
LEMMA RowsGoLast ==
  ASSUME IInv, [Next]_vars, pc # "promoteManifest",
         NEW f \in Files, man[f] # None, man'[f] = None
  PROVE  man[f].ids \cap col = {}
<1>1. man' # man
  OBVIOUS
<1>2. ChunklessRow \/ Commit \/ VanishedRow \/ PurgeRow
  BY <1>1 DEF Next, vars, diskVars, Edit, Callers, Check, Refuse, Start, Preparing, PrepareFails, Discover,
     NothingToReplay, Replay, ReplayFails, ClearJournal, IndexFile, LookAt, Unchanged,
     ReadText, ReadFails, UpsertBatch, UpsertFails, Rollback, ChunklessVectors,
     ChunklessFails, CommitFails, AppendJournal, DeleteStale, VanishedVectors,
     VanishFails, Interrupted, Ending, PurgeVectors, AllDone, PromoteCollection,
     PromoteManifest, Finish, Crash
<1>3. man \in [Files -> Rows \cup {None}] /\ cur \in Files \cup {None}
  BY DEF IInv, Basics, TypeOK
<1>4. CASE ChunklessRow \/ VanishedRow
  <2>1. pc \in Doomed /\ ~force /\ man' = [man EXCEPT ![cur] = None]
    BY <1>1, <1>4 DEF ChunklessRow, VanishedRow, SetRow, Doomed
  <2> QED BY <1>3, <2>1 DEF IInv, VectorsAgree
<1>5. CASE PurgeRow
  <2>1. pc \in Doomed /\ man' = [man EXCEPT ![cur] = None]
    BY <1>1, <1>5 DEF PurgeRow, Doomed
  <2>2. ~force
    BY <1>5 DEF IInv, Basics, WorkIsOwn, PurgeRow
  <2> QED BY <1>3, <2>1, <2>2 DEF IInv, VectorsAgree
<1>6. CASE Commit
  <2>1. cur \in Files /\ fresh \subseteq DocsOf(cur) /\ stamp \in Nat
    BY <1>6 DEF IInv, Basics, TypeOK, WorkIsOwn, FilePhases, Commit
  <2>2. [stamp |-> stamp, ids |-> fresh] \in Rows
    BY <2>1, OwnDocs DEF Rows
  <2>3. man' = [man EXCEPT ![cur] = [stamp |-> stamp, ids |-> fresh]]
    BY <1>1, <1>6 DEF Commit, SetRow
  <2> QED BY <1>3, <2>1, <2>2, <2>3, IndexAssumption
<1> QED BY <1>2, <1>4, <1>5, <1>6

-----------------------------------------------------------------------------
\* One step and the files: what each action, failures and crashes included, does
\* to stamps and to the rows of files already dealt with.

LEMMA EditDisk ==
  ASSUME DiskInv, NEW f \in Files, Edit(f)
  PROVE  StampsAgree' /\ FilesAgree'
<1>1. disk[f] \in Nat /\ disk'[f] = disk[f] + 1 /\ (\A g \in Files \ {f} : disk'[g] = disk[g])
  BY DEF DiskInv, Basics, TypeOK, Edit
<1>2. base' = base /\ man' = man /\ stMan' = stMan /\ pc' = pc /\ stamp' = stamp /\ cur' = cur
      /\ fresh' = fresh /\ rest' = rest /\ stale' = stale /\ force' = force
      /\ found' = found /\ todo' = todo /\ outcome' = outcome
  BY DEF Edit, diskVars, planVars, fileVars, kept
<1>3. base \in [Files -> Nat] /\ stamp \in Nat /\ disk \in [Files -> Nat] /\ found \subseteq Files
      /\ (pc \in FilePhases => cur \in Files) /\ (pc = "purgeRow" => cur \in Files)
      /\ man \in [Files -> Rows \cup {None}] /\ stMan \in [Files -> Rows \cup {None}]
  BY DEF DiskInv, Basics, TypeOK, WorkIsOwn, FilePhases
<1>4. \A g \in Files : base[g] <= disk[g]
  BY DEF DiskInv, StampsAgree
<1>5. disk'[f] # base[f]
  BY <1>1, <1>3, <1>4
<1>6. \A m \in [Files -> Rows \cup {None}], g \in Files : m[g] # None => m[g].stamp \in Nat
  BY DEF Rows
<1>7. Truthful(man)' /\ Truthful(stMan)'
  BY <1>1, <1>2, <1>3, <1>6 DEF DiskInv, StampsAgree, Truthful
<1>8. StampsAgree'
  BY <1>1, <1>2, <1>3, <1>4, <1>7 DEF DiskInv, StampsAgree, FilePhases, Doomed
<1>9. ASSUME NEW g \in Files
      PROVE  /\ Right(man, g) => Right(man, g)'
             /\ Right(rows, g) => Right(rows, g)'
             /\ (disk[g] = base[g] => man[g] = None) => (disk[g] = base[g] => man[g] = None)'
  BY <1>1, <1>2, <1>3, <1>5 DEF Right, rows
<1>11. FilesAgree'
  <2>1. pc' \in Indexing /\ outcome' = "ok" => \A g \in found' \ todo' : Right(rows, g)'
    BY <1>2, <1>3, <1>9 DEF DiskInv, FilesAgree
  <2>2. pc' \in {"journal", "stale"} /\ outcome' = "ok" => Right(man, cur)'
    BY <1>1, <1>2, <1>3, <1>5 DEF DiskInv, FilesAgree, Right, FilePhases
  <2>3. EndedWell' => \A g \in Files :
          IF g \in found' THEN Right(man, g)' ELSE disk'[g] = base'[g] => man'[g] = None
    BY <1>2, <1>3, <1>9 DEF DiskInv, FilesAgree, EndedWell
  <2> QED BY <1>2, <2>1, <2>2, <2>3 DEF DiskInv, FilesAgree
<1> QED BY <1>8, <1>11

LEMMA CallersDisk ==
  ASSUME DiskInv, Callers
  PROVE  StampsAgree' /\ FilesAgree'
BY CallersLeave DEF DiskInv, rows, StampsAgree, Truthful, FilesAgree, Right, EndedWell

LEMMA StartDisk ==
  ASSUME DiskInv, NEW decision \in {"rebuild", "fresh", "overtaken"}, Start(decision)
  PROVE  StampsAgree' /\ FilesAgree'
<1> USE IndexAssumption
    DEF DiskInv, Basics, TypeOK, WorkIsOwn, FilePhases, Indexing, There, diskVars, planVars,
        fileVars, kept, NoFile, NoRows, Start, SetRow, FailFile, Abort, NextFile
<1>1. StampsAgree'
  BY DEF StampsAgree, Truthful, Doomed
<1>2. FilesAgree'
  BY DEF FilesAgree, Right, rows, EndedWell
<1> QED BY <1>1, <1>2

LEMMA NothingToReplayDisk ==
  ASSUME DiskInv, NothingToReplay
  PROVE  StampsAgree' /\ FilesAgree'
<1> USE IndexAssumption
    DEF DiskInv, Basics, TypeOK, WorkIsOwn, FilePhases, Indexing, There, diskVars, planVars,
        fileVars, kept, NoFile, NoRows, NothingToReplay, SetRow, FailFile, Abort, NextFile
<1>1. StampsAgree'
  BY DEF StampsAgree, Truthful, Doomed
<1>2. FilesAgree'
  BY DEF FilesAgree, Right, rows, EndedWell
<1> QED BY <1>1, <1>2

LEMMA ReplayDisk ==
  ASSUME DiskInv, Replay
  PROVE  StampsAgree' /\ FilesAgree'
<1> USE IndexAssumption
    DEF DiskInv, Basics, TypeOK, WorkIsOwn, FilePhases, Indexing, There, diskVars, planVars,
        fileVars, kept, NoFile, NoRows, Replay, SetRow, FailFile, Abort, NextFile
<1>1. StampsAgree'
  BY DEF StampsAgree, Truthful, Doomed
<1>2. FilesAgree'
  BY DEF FilesAgree, Right, rows, EndedWell
<1> QED BY <1>1, <1>2

LEMMA ReplayFailsDisk ==
  ASSUME DiskInv, ReplayFails
  PROVE  StampsAgree' /\ FilesAgree'
<1> USE IndexAssumption
    DEF DiskInv, Basics, TypeOK, WorkIsOwn, FilePhases, Indexing, There, diskVars, planVars,
        fileVars, kept, NoFile, NoRows, ReplayFails, SetRow, FailFile, Abort, NextFile
<1>1. StampsAgree'
  BY DEF StampsAgree, Truthful, Doomed
<1>2. FilesAgree'
  BY DEF FilesAgree, Right, rows, EndedWell
<1> QED BY <1>1, <1>2

LEMMA ClearJournalDisk ==
  ASSUME DiskInv, ClearJournal
  PROVE  StampsAgree' /\ FilesAgree'
<1> USE IndexAssumption
    DEF DiskInv, Basics, TypeOK, WorkIsOwn, FilePhases, Indexing, There, diskVars, planVars,
        fileVars, kept, NoFile, NoRows, ClearJournal, SetRow, FailFile, Abort, NextFile
<1>1. StampsAgree'
  BY DEF StampsAgree, Truthful, Doomed
<1>2. FilesAgree'
  BY DEF FilesAgree, Right, rows, EndedWell
<1> QED BY <1>1, <1>2

LEMMA DiscoverDisk ==
  ASSUME DiskInv, Discover
  PROVE  StampsAgree' /\ FilesAgree'
<1> USE IndexAssumption
    DEF DiskInv, Basics, TypeOK, WorkIsOwn, FilePhases, Indexing, There, diskVars, planVars,
        fileVars, kept, NoFile, NoRows, Discover, SetRow, FailFile, Abort, NextFile
<1>1. StampsAgree'
  BY DEF StampsAgree, Truthful, Doomed
<1>2. FilesAgree'
  BY DEF FilesAgree, Right, rows, EndedWell
<1> QED BY <1>1, <1>2

LEMMA PrepareFailsDisk ==
  ASSUME DiskInv, PrepareFails
  PROVE  StampsAgree' /\ FilesAgree'
<1> USE IndexAssumption
    DEF DiskInv, Basics, TypeOK, WorkIsOwn, FilePhases, Indexing, There, diskVars, planVars,
        fileVars, kept, NoFile, NoRows, PrepareFails, SetRow, FailFile, Abort, NextFile
<1>1. StampsAgree'
  BY DEF StampsAgree, Truthful, Doomed
<1>2. FilesAgree'
  BY DEF FilesAgree, Right, rows, EndedWell
<1> QED BY <1>1, <1>2

LEMMA LookAtDisk ==
  ASSUME DiskInv, NEW f \in Files, LookAt(f)
  PROVE  StampsAgree' /\ FilesAgree'
<1> USE IndexAssumption
    DEF DiskInv, Basics, TypeOK, WorkIsOwn, FilePhases, Indexing, There, diskVars, planVars,
        fileVars, kept, NoFile, NoRows, LookAt, SetRow, FailFile, Abort, NextFile
<1>1. StampsAgree'
  BY DEF StampsAgree, Truthful, Doomed
<1>2. FilesAgree'
  BY DEF FilesAgree, Right, rows, EndedWell
<1> QED BY <1>1, <1>2

LEMMA UnchangedDisk ==
  ASSUME DiskInv, Unchanged
  PROVE  StampsAgree' /\ FilesAgree'
<1> USE IndexAssumption
    DEF DiskInv, Basics, TypeOK, WorkIsOwn, FilePhases, Indexing, There, diskVars, planVars,
        fileVars, kept, NoFile, NoRows, Unchanged, NextFile
<1>1. StampsAgree'
  BY DEF StampsAgree, Truthful
<1>2. Right(man, cur)
  <2>1. cur \in Files /\ pc = "unchanged" /\ man[cur] # None /\ man[cur].stamp = stamp
        /\ base[cur] <= stamp /\ stamp <= disk[cur]
    BY DEF StampsAgree
  <2>2. disk[cur] = base[cur] => stamp = disk[cur]
    BY <2>1
  <2> QED BY <2>1, <2>2 DEF StampsAgree, Truthful, Right
<1>3. \A g \in Files : Right(man, g) => Right(man, g)'
  BY DEF Right
<1>4. FilesAgree'
  <2>1. pc' = "files" /\ ~force /\ man' = man /\ stMan' = stMan /\ base' = base /\ disk' = disk
        /\ found' = found /\ todo' = todo \ {cur} /\ force' = force /\ outcome' = outcome
    BY DEF StampsAgree
  <2>2. \A g \in found \ todo' : outcome = "ok" => Right(man, g)
    BY <1>2, <2>1 DEF FilesAgree, rows
  <2> QED BY <1>3, <2>1, <2>2 DEF FilesAgree, rows, EndedWell
<1> QED BY <1>1, <1>4

LEMMA ReadTextDisk ==
  ASSUME DiskInv, ReadText
  PROVE  StampsAgree' /\ FilesAgree'
<1> USE IndexAssumption
    DEF DiskInv, Basics, TypeOK, WorkIsOwn, FilePhases, Indexing, There, diskVars, planVars,
        fileVars, kept, NoFile, NoRows
<1>1. pc' \in {"vanished", "chunkless", "upsert"}
      /\ (pc' = "chunkless" => Text[cur][disk[cur]] = {})
      /\ (pc' = "upsert" => There(cur) /\ Text[cur][disk[cur]] # {})
  BY Zenon DEF ReadText
<1>2. pc = "read" /\ disk' = disk /\ man' = man /\ stMan' = stMan /\ base' = base
      /\ cur' = cur /\ stamp' = stamp /\ fresh' = fresh /\ stale' = stale /\ force' = force
      /\ (There(cur) => rest' = Text[cur][disk[cur]])
  BY DEF ReadText
<1>3. fresh = {} /\ stale = {}
  BY <1>2 DEF StampsAgree
<1>4. StampsAgree'
  BY <1>1, <1>2, <1>3 DEF StampsAgree, Truthful, Doomed
<1>5. FilesAgree'
  BY DEF FilesAgree, Right, rows, EndedWell, ReadText
<1> QED BY <1>4, <1>5

LEMMA ReadFailsDisk ==
  ASSUME DiskInv, ReadFails
  PROVE  StampsAgree' /\ FilesAgree'
<1> USE IndexAssumption
    DEF DiskInv, Basics, TypeOK, WorkIsOwn, FilePhases, Indexing, There, diskVars, planVars,
        fileVars, kept, NoFile, NoRows, ReadFails, SetRow, FailFile, Abort, NextFile
<1>1. StampsAgree'
  BY DEF StampsAgree, Truthful, Doomed
<1>2. FilesAgree'
  BY DEF FilesAgree, Right, rows, EndedWell
<1> QED BY <1>1, <1>2

LEMMA UpsertBatchDisk ==
  ASSUME DiskInv, UpsertBatch
  PROVE  StampsAgree' /\ FilesAgree'
<1> USE IndexAssumption
    DEF DiskInv, Basics, TypeOK, WorkIsOwn, FilePhases, Indexing, There, diskVars, planVars,
        fileVars, kept, NoFile, NoRows, UpsertBatch, SetRow, FailFile, Abort, NextFile
<1>1. StampsAgree'
  BY DEF StampsAgree, Truthful, Doomed
<1>2. FilesAgree'
  BY DEF FilesAgree, Right, rows, EndedWell
<1> QED BY <1>1, <1>2

LEMMA UpsertFailsDisk ==
  ASSUME DiskInv, UpsertFails
  PROVE  StampsAgree' /\ FilesAgree'
<1> USE IndexAssumption
    DEF DiskInv, Basics, TypeOK, WorkIsOwn, FilePhases, Indexing, There, diskVars, planVars,
        fileVars, kept, NoFile, NoRows, UpsertFails, SetRow, FailFile, Abort, NextFile
<1>1. StampsAgree'
  BY DEF StampsAgree, Truthful, Doomed
<1>2. FilesAgree'
  BY DEF FilesAgree, Right, rows, EndedWell
<1> QED BY <1>1, <1>2

LEMMA RollbackDisk ==
  ASSUME DiskInv, Rollback
  PROVE  StampsAgree' /\ FilesAgree'
<1> USE IndexAssumption
    DEF DiskInv, Basics, TypeOK, WorkIsOwn, FilePhases, Indexing, There, diskVars, planVars,
        fileVars, kept, NoFile, NoRows, Rollback, SetRow, FailFile, Abort, NextFile
<1>1. StampsAgree'
  BY DEF StampsAgree, Truthful, Doomed
<1>2. FilesAgree'
  BY DEF FilesAgree, Right, rows, EndedWell
<1> QED BY <1>1, <1>2

LEMMA ChunklessVectorsDisk ==
  ASSUME DiskInv, ChunklessVectors
  PROVE  StampsAgree' /\ FilesAgree'
<1> USE IndexAssumption
    DEF DiskInv, Basics, TypeOK, WorkIsOwn, FilePhases, Indexing, There, diskVars, planVars,
        fileVars, kept, NoFile, NoRows, ChunklessVectors, SetRow, FailFile, Abort, NextFile
<1>1. StampsAgree'
  BY DEF StampsAgree, Truthful, Doomed
<1>2. FilesAgree'
  BY DEF FilesAgree, Right, rows, EndedWell
<1> QED BY <1>1, <1>2

LEMMA ChunklessFailsDisk ==
  ASSUME DiskInv, ChunklessFails
  PROVE  StampsAgree' /\ FilesAgree'
<1> USE IndexAssumption
    DEF DiskInv, Basics, TypeOK, WorkIsOwn, FilePhases, Indexing, There, diskVars, planVars,
        fileVars, kept, NoFile, NoRows, ChunklessFails, SetRow, FailFile, Abort, NextFile
<1>1. StampsAgree'
  BY DEF StampsAgree, Truthful, Doomed
<1>2. FilesAgree'
  BY DEF FilesAgree, Right, rows, EndedWell
<1> QED BY <1>1, <1>2

LEMMA ChunklessRowDisk ==
  ASSUME DiskInv, ChunklessRow
  PROVE  StampsAgree' /\ FilesAgree'
<1> USE IndexAssumption
    DEF DiskInv, Basics, TypeOK, WorkIsOwn, FilePhases, Indexing, There, diskVars, planVars,
        fileVars, kept, NoFile, NoRows, SetRow, ChunklessRow, Abort, NextFile
<1>1. StampsAgree'
  BY DEF StampsAgree, Truthful, Doomed
<1>2. CASE pc' = "files"
  <2>1. cur \in Files /\ disk' = disk /\ base' = base /\ force' = force /\ found' = found
        /\ todo' = todo \ {cur}
    BY <1>2
  <2>2. rows' = [rows EXCEPT ![cur] = None]
    BY <1>2 DEF rows
  <2>3. disk[cur] = base[cur] => Text[cur][disk[cur]] = {}
    BY <2>1 DEF StampsAgree
  <2>4. rows \in [Files -> Rows \cup {None}]
    BY DEF rows
  <2>5. ASSUME NEW g \in Files, g = cur \/ Right(rows, g)
        PROVE  Right(rows, g)'
    BY <2>1, <2>2, <2>3, <2>4, <2>5 DEF Right
  <2>6. \A g \in found' \ todo' : outcome' = "ok" => Right(rows, g)'
    BY <1>2, <2>1, <2>5 DEF FilesAgree
  <2>7. force => \A g \in Files \ found : stMan'[g] = None
    BY <2>1 DEF FilesAgree
  <2> QED BY <1>1, <1>2, <2>1, <2>6, <2>7 DEF FilesAgree, EndedWell
<1>3. CASE pc' # "files"
  BY <1>1, <1>3 DEF FilesAgree, EndedWell
<1> QED BY <1>1, <1>2, <1>3

LEMMA CommitDisk ==
  ASSUME DiskInv, Commit
  PROVE  StampsAgree' /\ FilesAgree'
<1> DEFINE row == [stamp |-> stamp, ids |-> fresh]
<1>1. cur \in Files /\ pc = "commit" /\ base[cur] <= stamp /\ stamp <= disk[cur]
      /\ stamp \in Nat /\ disk \in [Files -> Nat] /\ base \in [Files -> Nat]
      /\ (stamp = disk[cur] => fresh = Text[cur][disk[cur]] /\ fresh # {})
  BY DEF DiskInv, Basics, TypeOK, WorkIsOwn, FilePhases, StampsAgree, Commit
<1>2. disk' = disk /\ base' = base /\ force' = force /\ found' = found /\ outcome' = outcome
      /\ \/ pc' = "files" /\ todo' = todo \ {cur} /\ fresh' = {} /\ stale' = {}
         \/ pc' = "journal" /\ todo' = todo /\ cur' = cur /\ stamp' = stamp /\ fresh' = fresh
            /\ ~force
  BY DEF Commit, NextFile, NoFile, planVars, kept, Stale, OldIds
<1>3. man \in [Files -> Rows \cup {None}] /\ stMan \in [Files -> Rows \cup {None}]
  BY DEF DiskInv, Basics, TypeOK
<1>4. row # None
  <2>1. fresh \subseteq Docs
    BY <1>1, OwnDocs DEF DiskInv, Basics, WorkIsOwn
  <2>2. row \in Rows
    BY <1>1, <2>1 DEF Rows
  <2> QED BY <2>2, IndexAssumption
<1>5. row.stamp = stamp /\ row.ids = fresh
  OBVIOUS
<1>6. \/ ~force /\ man' = [man EXCEPT ![cur] = row] /\ stMan' = stMan
      \/ force /\ stMan' = [stMan EXCEPT ![cur] = row] /\ man' = man
  BY DEF Commit, SetRow
<1> HIDE DEF row
<1>7. Truthful(man)' /\ Truthful(stMan)'
  BY <1>1, <1>2, <1>3, <1>4, <1>5, <1>6 DEF DiskInv, StampsAgree, Truthful
<1>8. StampsAgree'
  <2>1. ~force => man'[cur] = row
    BY <1>1, <1>3, <1>6
  <2> QED BY <1>1, <1>2, <1>4, <1>5, <1>7, <2>1 DEF DiskInv, StampsAgree, FilePhases, Doomed
<1>9. rows' = [rows EXCEPT ![cur] = row] /\ rows \in [Files -> Rows \cup {None}]
  BY <1>2, <1>3, <1>6 DEF rows
<1>10. ASSUME NEW g \in Files, g = cur \/ Right(rows, g)
       PROVE  Right(rows, g)'
  <2>1. disk[cur] = base[cur] => stamp = disk[cur]
    BY <1>1
  <2>2. rows'[cur] = row
    BY <1>1, <1>9
  <2> QED BY <1>1, <1>2, <1>4, <1>5, <1>9, <1>10, <2>1, <2>2 DEF Right
<1>12. FilesAgree'
  <2>1. cur \in found /\ found \subseteq Files /\ (pc' = "journal" => ~force' /\ rows' = man')
    BY <1>2 DEF DiskInv, Basics, TypeOK, WorkIsOwn, FilePhases, Commit, rows
  <2>2. Indexing = FilePhases \cup {"files", "purgeRow", "promoteManifest"} /\ pc \in Indexing
    BY <1>1 DEF Indexing, FilePhases
  <2>3. \A g \in found' \ todo' : outcome' = "ok" => Right(rows, g)'
    BY <1>1, <1>2, <1>10, <2>1, <2>2 DEF DiskInv, FilesAgree
  <2>4. force => \A g \in Files \ found : stMan'[g] = None
    BY <1>1, <1>3, <1>6, <2>1, <2>2 DEF DiskInv, FilesAgree
  <2>5. pc' = "journal" => Right(man, cur)'
    BY <1>1, <1>2, <1>10, <2>1 DEF Right
  <2> QED BY <1>1, <1>2, <2>2, <2>3, <2>4, <2>5 DEF FilesAgree, EndedWell
<1> QED BY <1>8, <1>12

LEMMA CommitFailsDisk ==
  ASSUME DiskInv, CommitFails
  PROVE  StampsAgree' /\ FilesAgree'
<1> USE IndexAssumption
    DEF DiskInv, Basics, TypeOK, WorkIsOwn, FilePhases, Indexing, There, diskVars, planVars,
        fileVars, kept, NoFile, NoRows, CommitFails, SetRow, FailFile, Abort, NextFile
<1>1. StampsAgree'
  BY DEF StampsAgree, Truthful, Doomed
<1>2. FilesAgree'
  BY DEF FilesAgree, Right, rows, EndedWell
<1> QED BY <1>1, <1>2

LEMMA AppendJournalDisk ==
  ASSUME DiskInv, AppendJournal
  PROVE  StampsAgree' /\ FilesAgree'
<1> USE IndexAssumption
    DEF DiskInv, Basics, TypeOK, WorkIsOwn, FilePhases, Indexing, There, diskVars, planVars,
        fileVars, kept, NoFile, NoRows, AppendJournal, SetRow, FailFile, Abort, NextFile
<1>1. StampsAgree'
  BY DEF StampsAgree, Truthful, Doomed
<1>2. FilesAgree'
  BY DEF FilesAgree, Right, rows, EndedWell
<1> QED BY <1>1, <1>2

LEMMA DeleteStaleDisk ==
  ASSUME DiskInv, DeleteStale
  PROVE  StampsAgree' /\ FilesAgree'
<1> USE IndexAssumption
    DEF DiskInv, Basics, TypeOK, WorkIsOwn, FilePhases, Indexing, There, diskVars, planVars,
        fileVars, kept, NoFile, NoRows, DeleteStale, SetRow, FailFile, Abort, NextFile
<1>1. StampsAgree'
  BY DEF StampsAgree, Truthful, Doomed
<1>2. FilesAgree'
  BY DEF FilesAgree, Right, rows, EndedWell
<1> QED BY <1>1, <1>2

LEMMA VanishedVectorsDisk ==
  ASSUME DiskInv, VanishedVectors
  PROVE  StampsAgree' /\ FilesAgree'
<1> USE IndexAssumption
    DEF DiskInv, Basics, TypeOK, WorkIsOwn, FilePhases, Indexing, There, diskVars, planVars,
        fileVars, kept, NoFile, NoRows, VanishedVectors, SetRow, FailFile, Abort, NextFile
<1>1. StampsAgree'
  BY DEF StampsAgree, Truthful, Doomed
<1>2. FilesAgree'
  BY DEF FilesAgree, Right, rows, EndedWell
<1> QED BY <1>1, <1>2

LEMMA VanishedRowDisk ==
  ASSUME DiskInv, VanishedRow
  PROVE  StampsAgree' /\ FilesAgree'
<1>1. cur \in Files /\ pc \in FilePhases /\ pc' = "files" /\ disk' = disk /\ base' = base
      /\ force' = force /\ found' = found \ {cur} /\ todo' = todo \ {cur}
      /\ outcome' = outcome /\ found \subseteq Files
  BY DEF DiskInv, Basics, TypeOK, WorkIsOwn, FilePhases, VanishedRow, NextFile, kept
<1>2. man \in [Files -> Rows \cup {None}] /\ stMan \in [Files -> Rows \cup {None}]
  BY DEF DiskInv, Basics, TypeOK
<1>3. \/ ~force /\ man' = [man EXCEPT ![cur] = None] /\ stMan' = stMan
      \/ force /\ stMan' = [stMan EXCEPT ![cur] = None] /\ man' = man
      \/ rows[cur] = None /\ man' = man /\ stMan' = stMan
  BY DEF VanishedRow, SetRow
<1>4. Truthful(man)' /\ Truthful(stMan)'
  BY <1>1, <1>2, <1>3 DEF DiskInv, StampsAgree, Truthful
<1>5. StampsAgree'
  BY <1>1, <1>4 DEF DiskInv, StampsAgree, FilePhases, Doomed
<1>6. rows \in [Files -> Rows \cup {None}] /\ (\A g \in Files \ {cur} : rows'[g] = rows[g])
  BY <1>1, <1>2, <1>3 DEF rows
<1>7. \A g \in Files \ {cur} : Right(rows, g) => Right(rows, g)'
  BY <1>1, <1>6 DEF Right
<1>8. force => \A g \in Files \ found' : stMan'[g] = None
  BY <1>1, <1>2, <1>3 DEF DiskInv, FilesAgree, Indexing, rows
<1>9. FilesAgree'
  BY <1>1, <1>7, <1>8 DEF DiskInv, FilesAgree, EndedWell, Indexing, FilePhases
<1> QED BY <1>5, <1>9

LEMMA VanishFailsDisk ==
  ASSUME DiskInv, VanishFails
  PROVE  StampsAgree' /\ FilesAgree'
<1> USE IndexAssumption
    DEF DiskInv, Basics, TypeOK, WorkIsOwn, FilePhases, Indexing, There, diskVars, planVars,
        fileVars, kept, NoFile, NoRows, VanishFails, SetRow, FailFile, Abort, NextFile
<1>1. StampsAgree'
  BY DEF StampsAgree, Truthful, Doomed
<1>2. FilesAgree'
  BY DEF FilesAgree, Right, rows, EndedWell
<1> QED BY <1>1, <1>2

LEMMA InterruptedDisk ==
  ASSUME DiskInv, Interrupted
  PROVE  StampsAgree' /\ FilesAgree'
<1> USE IndexAssumption
    DEF DiskInv, Basics, TypeOK, WorkIsOwn, FilePhases, Indexing, There, diskVars, planVars,
        fileVars, kept, NoFile, NoRows, Interrupted, SetRow, FailFile, Abort, NextFile
<1>1. StampsAgree'
  BY DEF StampsAgree, Truthful, Doomed
<1>2. FilesAgree'
  BY DEF FilesAgree, Right, rows, EndedWell
<1> QED BY <1>1, <1>2

LEMMA PurgeVectorsDisk ==
  ASSUME DiskInv, NEW f \in Files, PurgeVectors(f)
  PROVE  StampsAgree' /\ FilesAgree'
<1> USE IndexAssumption
    DEF DiskInv, Basics, TypeOK, WorkIsOwn, FilePhases, Indexing, There, diskVars, planVars,
        fileVars, kept, NoFile, NoRows, PurgeVectors
<1>1. StampsAgree'
  BY DEF StampsAgree, Truthful, Doomed
<1>2. f \notin found
  BY DEF Removed
<1>3. FilesAgree'
  BY <1>2 DEF FilesAgree, Right, rows, EndedWell
<1> QED BY <1>1, <1>3

LEMMA PurgeRowDisk ==
  ASSUME DiskInv, PurgeRow
  PROVE  StampsAgree' /\ FilesAgree'
<1> USE IndexAssumption
    DEF DiskInv, Basics, TypeOK, WorkIsOwn, FilePhases, Indexing, There, diskVars, planVars,
        fileVars, kept, NoFile, NoRows, PurgeRow, SetRow, FailFile, Abort, NextFile
<1>1. StampsAgree'
  <2>1. Truthful(man)' /\ Truthful(stMan)'
    <3>1. cur \in Files /\ man \in [Files -> Rows \cup {None}] /\ disk' = disk /\ stMan' = stMan
          /\ (man' = man \/ man' = [man EXCEPT ![cur] = None])
      OBVIOUS
    <3> QED BY ONLY <3>1, StampsAgree DEF StampsAgree, Truthful
  <2>2. pc' \in {"files", "finishing"} /\ fresh' = {} /\ stale' = {} /\ disk' = disk /\ base' = base
    OBVIOUS
  <2> QED BY ONLY <2>1, <2>2, StampsAgree DEF StampsAgree, Doomed, FilePhases
<1>2. FilesAgree'
  <2>1. /\ found' = found /\ todo' = todo /\ force' = force /\ base' = base /\ disk' = disk
        /\ todo = {} /\ cur \notin found /\ stMan' = stMan
        /\ \/ pc' = "files" /\ outcome' = outcome /\ man' = [man EXCEPT ![cur] = None]
           \/ pc' = "finishing" /\ outcome' = "error"
    BY DEF FilesAgree
  <2>2. ASSUME NEW g \in found, outcome' = "ok"
        PROVE  Right(rows, g)'
    <3>1. Right(rows, g)
      BY <2>1, <2>2 DEF FilesAgree
    <3>2. man'[g] = man[g]
      BY <2>1, <2>2
    <3> QED BY ONLY <2>1, <2>2, <3>1, <3>2 DEF Right, rows
  <2> QED BY <2>1, <2>2 DEF FilesAgree, EndedWell
<1> QED BY <1>1, <1>2

LEMMA AllDoneDisk ==
  ASSUME DiskInv, AllDone
  PROVE  StampsAgree' /\ FilesAgree'
<1> USE IndexAssumption
    DEF DiskInv, Basics, TypeOK, WorkIsOwn, FilePhases, Indexing, There, diskVars, planVars,
        fileVars, kept, NoFile, NoRows, AllDone
<1>1. StampsAgree'
  BY DEF StampsAgree, Truthful, Doomed
<1>2. \A g \in Files \ found : man[g] = None
  BY DEF Removed
<1>3. \A g \in found : outcome = "ok" => Right(man, g)
  BY DEF FilesAgree, rows
<1>4. FilesAgree'
  BY <1>2, <1>3 DEF FilesAgree, Right, EndedWell
<1> QED BY <1>1, <1>4

LEMMA PromoteCollectionDisk ==
  ASSUME DiskInv, PromoteCollection
  PROVE  StampsAgree' /\ FilesAgree'
<1> USE IndexAssumption
    DEF DiskInv, Basics, TypeOK, WorkIsOwn, FilePhases, Indexing, There, diskVars, planVars,
        fileVars, kept, NoFile, NoRows, PromoteCollection, SetRow, FailFile, Abort, NextFile
<1>1. StampsAgree'
  BY DEF StampsAgree, Truthful, Doomed
<1>2. FilesAgree'
  BY DEF FilesAgree, Right, rows, EndedWell
<1> QED BY <1>1, <1>2

LEMMA PromoteManifestDisk ==
  ASSUME DiskInv, PromoteManifest
  PROVE  StampsAgree' /\ FilesAgree'
<1> USE IndexAssumption
    DEF DiskInv, Basics, TypeOK, WorkIsOwn, FilePhases, Indexing, There, diskVars, planVars,
        fileVars, kept, NoFile, NoRows, PromoteManifest, SetRow, FailFile, Abort, NextFile
<1>1. StampsAgree'
  BY DEF StampsAgree, Truthful, Doomed
<1>2. FilesAgree'
  BY DEF FilesAgree, Right, rows, EndedWell
<1> QED BY <1>1, <1>2

LEMMA FinishDisk ==
  ASSUME DiskInv, Finish
  PROVE  StampsAgree' /\ FilesAgree'
<1> USE IndexAssumption
    DEF DiskInv, Basics, TypeOK, WorkIsOwn, FilePhases, Indexing, There, diskVars, planVars,
        fileVars, kept, NoFile, NoRows, Finish, SetRow, FailFile, Abort, NextFile
<1>1. StampsAgree'
  BY DEF StampsAgree, Truthful, Doomed
<1>2. FilesAgree'
  BY DEF FilesAgree, Right, rows, EndedWell
<1> QED BY <1>1, <1>2

LEMMA CrashDisk ==
  ASSUME DiskInv, Crash
  PROVE  StampsAgree' /\ FilesAgree'
<1> USE IndexAssumption
    DEF DiskInv, Basics, TypeOK, WorkIsOwn, FilePhases, Indexing, There, diskVars, planVars,
        fileVars, kept, NoFile, NoRows, Crash, SetRow, FailFile, Abort, NextFile
<1>1. StampsAgree'
  BY DEF StampsAgree, Truthful, Doomed
<1>2. FilesAgree'
  BY DEF FilesAgree, Right, rows, EndedWell
<1> QED BY <1>1, <1>2

LEMMA StutterBasics ==
  ASSUME Basics, UNCHANGED vars
  PROVE  Basics'
BY DEF Basics, vars, diskVars, planVars, fileVars, kept, target, TypeOK, RowsAreOwn,
   WorkIsOwn

LEMMA StutterDisk ==
  ASSUME DiskInv, UNCHANGED vars
  PROVE  StampsAgree' /\ FilesAgree'
BY DEF DiskInv, vars, diskVars, planVars, fileVars, kept, rows, StampsAgree, Truthful,
   FilesAgree, Right, EndedWell

LEMMA BasicsStep ==
  ASSUME Basics, [Next]_vars
  PROVE  Basics'
<1>1. ASSUME NEW f \in Files, Edit(f) PROVE Basics'
  BY <1>1, EditBasics
<1>2. ASSUME NEW decision \in {"rebuild", "fresh", "overtaken"}, Start(decision) PROVE Basics'
  BY <1>2, StartBasics
<1>3. CASE Preparing
  BY <1>3, PrepareFailsBasics, DiscoverBasics, NothingToReplayBasics, ReplayBasics,
     ReplayFailsBasics, ClearJournalBasics DEF Preparing
<1>4. CASE IndexFile
  BY <1>4, LookAtBasics, UnchangedBasics, ReadTextBasics, ReadFailsBasics, UpsertBatchBasics,
     UpsertFailsBasics, RollbackBasics, ChunklessVectorsBasics, ChunklessFailsBasics,
     ChunklessRowBasics, CommitBasics, CommitFailsBasics, AppendJournalBasics, DeleteStaleBasics,
     VanishedVectorsBasics, VanishedRowBasics, VanishFailsBasics DEF IndexFile
<1>5. CASE Interrupted
  BY <1>5, InterruptedBasics
<1>6. CASE Ending
  BY <1>6, PurgeVectorsBasics, PurgeRowBasics, AllDoneBasics, PromoteCollectionBasics,
     PromoteManifestBasics, FinishBasics DEF Ending
<1>7. CASE Crash
  BY <1>7, CrashBasics
<1>8. CASE UNCHANGED vars
  BY <1>8, StutterBasics
<1>9. CASE Callers
  BY <1>9, CallersBasics
<1> QED BY <1>1, <1>2, <1>3, <1>4, <1>5, <1>6, <1>7, <1>8, <1>9 DEF Next

LEMMA DiskStep ==
  ASSUME DiskInv, [Next]_vars
  PROVE  StampsAgree' /\ FilesAgree'
<1>1. ASSUME NEW f \in Files, Edit(f) PROVE StampsAgree' /\ FilesAgree'
  BY <1>1, EditDisk
<1>2. ASSUME NEW decision \in {"rebuild", "fresh", "overtaken"}, Start(decision) PROVE StampsAgree' /\ FilesAgree'
  BY <1>2, StartDisk
<1>3. CASE Preparing
  BY <1>3, PrepareFailsDisk, DiscoverDisk, NothingToReplayDisk, ReplayDisk,
     ReplayFailsDisk, ClearJournalDisk DEF Preparing
<1>4. CASE IndexFile
  BY <1>4, LookAtDisk, UnchangedDisk, ReadTextDisk, ReadFailsDisk, UpsertBatchDisk,
     UpsertFailsDisk, RollbackDisk, ChunklessVectorsDisk, ChunklessFailsDisk,
     ChunklessRowDisk, CommitDisk, CommitFailsDisk, AppendJournalDisk, DeleteStaleDisk,
     VanishedVectorsDisk, VanishedRowDisk, VanishFailsDisk DEF IndexFile
<1>5. CASE Interrupted
  BY <1>5, InterruptedDisk
<1>6. CASE Ending
  BY <1>6, PurgeVectorsDisk, PurgeRowDisk, AllDoneDisk, PromoteCollectionDisk,
     PromoteManifestDisk, FinishDisk DEF Ending
<1>7. CASE Crash
  BY <1>7, CrashDisk
<1>8. CASE UNCHANGED vars
  BY <1>8, StutterDisk
<1>9. CASE Callers
  BY <1>9, CallersDisk
<1> QED BY <1>1, <1>2, <1>3, <1>4, <1>5, <1>6, <1>7, <1>8, <1>9 DEF Next

LEMMA InitFiles == Init => StampsAgree /\ FilesAgree
<1> SUFFICES ASSUME Init PROVE StampsAgree /\ FilesAgree
  OBVIOUS
<1>1. \A f \in Files : man[f] = None /\ stMan[f] = None /\ disk[f] = 1 /\ base[f] = 1
  BY DEF Init, NoRows
<1>2. pc = "idle"
  BY DEF Init
<1> QED BY <1>1, <1>2
    DEF StampsAgree, Truthful, FilesAgree, FilePhases, Indexing, Doomed, EndedWell

-----------------------------------------------------------------------------
\* One step and the vectors of a run that began with vectors and rows in agreement,
\* as long as the journal works.

\* A file's documents among those of the rows are those of its row.
LEMMA RowIdsOf ==
  ASSUME NEW m \in [Files -> Rows \cup {None}], NEW f \in Files,
         \A g \in Files : m[g] # None => m[g].ids \subseteq DocsOf(g)
  PROVE  RowIds(m) \cap DocsOf(f) = IF m[f] = None THEN {} ELSE m[f].ids
BY OthersDocs DEF RowIds

\* Dropping a row takes its file's documents away and no others.
LEMMA RowIdsDropped ==
  ASSUME NEW m \in [Files -> Rows \cup {None}], NEW f \in Files,
         \A g \in Files : m[g] # None => m[g].ids \subseteq DocsOf(g)
  PROVE  RowIds([m EXCEPT ![f] = None]) = RowIds(m) \ DocsOf(f)
BY OthersDocs DEF RowIds

\* Writing a row replaces its file's documents by those of the row.
LEMMA RowIdsSet ==
  ASSUME NEW m \in [Files -> Rows \cup {None}], NEW f \in Files,
         \A g \in Files : m[g] # None => m[g].ids \subseteq DocsOf(g),
         NEW row \in Rows, row.ids \subseteq DocsOf(f)
  PROVE  RowIds([m EXCEPT ![f] = row]) = (RowIds(m) \ DocsOf(f)) \cup row.ids
BY OthersDocs, IndexAssumption DEF RowIds

\* The rows of the run and what they tell of the file at hand.
LEMMA RowsOwned ==
  ASSUME IInv
  PROVE  /\ rows \in [Files -> Rows \cup {None}]
         /\ \A g \in Files : rows[g] # None => rows[g].ids \subseteq DocsOf(g)
         /\ \A g \in todo : force => rows[g] = None
BY DEF IInv, Basics, TypeOK, RowsAreOwn, StagingAgrees, rows

\* Dropping the row of a file whose vectors are gone leaves vectors and rows equal.
LEMMA DropsGone ==
  ASSUME DiskInv, IInv, SettledAgrees, pc \in Doomed, cur \in Files, settled, outcome = "ok"
  PROVE  target = RowIds([rows EXCEPT ![cur] = None])
<1>1. fresh = {} /\ stale = {}
  BY DEF DiskInv, StampsAgree
<1>2. target = RowIds(rows) \ Gone
  BY <1>1 DEF SettledAgrees, Indexing, FilePhases, Doomed
<1>3. RowIds(rows) \cap DocsOf(cur) = IF rows[cur] = None THEN {} ELSE rows[cur].ids
  BY RowsOwned, RowIdsOf
<1>4. RowIds([rows EXCEPT ![cur] = None]) = RowIds(rows) \ DocsOf(cur)
  BY RowsOwned, RowIdsDropped
<1>5. Gone = IF rows[cur] = None THEN {} ELSE rows[cur].ids
  BY DEF Gone
<1> QED BY <1>2, <1>3, <1>4, <1>5

LEMMA EditSettled ==
  ASSUME DiskInv, IInv, SettledAgrees, intact', NEW f \in Files, Edit(f)
  PROVE  SettledAgrees'
BY DEF DiskInv, IInv, Basics, TypeOK, WorkIsOwn, StagingAgrees, FilePhases, Indexing, Doomed,
   diskVars, planVars, fileVars, kept, NoFile, SetRow, SetTarget, FailFile, Abort, NextFile,
   SettledAgrees, StampsAgree, Gone, rows, target, ManifestIds, Edit

LEMMA CallersSettled ==
  ASSUME DiskInv, IInv, SettledAgrees, intact', Callers
  PROVE  SettledAgrees'
<1> USE CallersLeave
<1>1. rows' = rows /\ target' = target /\ ManifestIds' = ManifestIds
  BY DEF rows, target, ManifestIds, RowIds
<1>2. Gone' = Gone /\ RowIds(rows)' = RowIds(rows)
  BY <1>1 DEF Gone, RowIds
<1> QED BY <1>1, <1>2 DEF SettledAgrees

LEMMA StartSettled ==
  ASSUME DiskInv, IInv, SettledAgrees, intact', NEW decision \in {"rebuild", "fresh", "overtaken"}, Start(decision)
  PROVE  SettledAgrees'
<1>1. pc' = "replay" /\ col' = col /\ man' = man /\ col \subseteq Docs
  BY DEF Start, diskVars, IInv, Basics, TypeOK
<1>2. ASSUME settled', ~force' PROVE col = ManifestIds
  BY <1>2 DEF Start
<1> QED BY <1>1, <1>2 DEF SettledAgrees, Indexing, FilePhases, ManifestIds

LEMMA NothingToReplaySettled ==
  ASSUME DiskInv, IInv, SettledAgrees, intact', NothingToReplay
  PROVE  SettledAgrees'
BY DEF DiskInv, IInv, Basics, TypeOK, WorkIsOwn, StagingAgrees, FilePhases, Indexing, Doomed,
   diskVars, planVars, fileVars, kept, NoFile, SetRow, SetTarget, FailFile, Abort, NextFile,
   SettledAgrees, StampsAgree, Gone, rows, target, ManifestIds, NothingToReplay

LEMMA ReplaySettled ==
  ASSUME DiskInv, IInv, SettledAgrees, intact', Replay
  PROVE  SettledAgrees'
<1>1. journal \cap ManifestIds = {}
  BY DEF IInv, JournalAgrees, Replay, ManifestIds, RowIds
<1>2. col' = col \ journal /\ man' = man /\ pc = "replay" /\ pc' = "clear" /\ force' = force
      /\ settled' = settled /\ outcome' = outcome
  BY DEF Replay, planVars, kept
<1> QED BY <1>1, <1>2 DEF SettledAgrees, Indexing, FilePhases, ManifestIds

LEMMA ReplayFailsSettled ==
  ASSUME DiskInv, IInv, SettledAgrees, intact', ReplayFails
  PROVE  SettledAgrees'
BY DEF DiskInv, IInv, Basics, TypeOK, WorkIsOwn, StagingAgrees, FilePhases, Indexing, Doomed,
   diskVars, planVars, fileVars, kept, NoFile, SetRow, SetTarget, FailFile, Abort, NextFile,
   SettledAgrees, StampsAgree, Gone, rows, target, ManifestIds, ReplayFails

LEMMA ClearJournalSettled ==
  ASSUME DiskInv, IInv, SettledAgrees, intact', ClearJournal
  PROVE  SettledAgrees'
BY DEF DiskInv, IInv, Basics, TypeOK, WorkIsOwn, StagingAgrees, FilePhases, Indexing, Doomed,
   diskVars, planVars, fileVars, kept, NoFile, SetRow, SetTarget, FailFile, Abort, NextFile,
   SettledAgrees, StampsAgree, Gone, rows, target, ManifestIds, ClearJournal

LEMMA DiscoverSettled ==
  ASSUME DiskInv, IInv, SettledAgrees, intact', Discover
  PROVE  SettledAgrees'
<1>1. RowIds(NoRows) = {}
  BY DEF RowIds, NoRows
<1>2. col' = col /\ man' = man /\ stCol' = {} /\ stMan' = NoRows /\ pc = "scan" /\ pc' = "files"
      /\ force' = force /\ settled' = settled /\ outcome' = outcome
      /\ fresh' = fresh /\ stale' = stale
  BY DEF Discover, fileVars, kept
<1>3. fresh = {} /\ stale = {}
  BY <1>2 DEF IInv, Basics, WorkIsOwn, FilePhases
<1> QED BY <1>1, <1>2, <1>3
    DEF SettledAgrees, Indexing, FilePhases, Doomed, ManifestIds, target, rows, Gone

LEMMA PrepareFailsSettled ==
  ASSUME DiskInv, IInv, SettledAgrees, intact', PrepareFails
  PROVE  SettledAgrees'
BY DEF DiskInv, IInv, Basics, TypeOK, WorkIsOwn, StagingAgrees, FilePhases, Indexing, Doomed,
   diskVars, planVars, fileVars, kept, NoFile, SetRow, SetTarget, FailFile, Abort, NextFile,
   SettledAgrees, StampsAgree, Gone, rows, target, ManifestIds, PrepareFails

LEMMA LookAtSettled ==
  ASSUME DiskInv, IInv, SettledAgrees, intact', NEW f \in Files, LookAt(f)
  PROVE  SettledAgrees'
BY DEF DiskInv, IInv, Basics, TypeOK, WorkIsOwn, StagingAgrees, FilePhases, Indexing, Doomed,
   diskVars, planVars, fileVars, kept, NoFile, SetRow, SetTarget, FailFile, Abort, NextFile,
   SettledAgrees, StampsAgree, Gone, rows, target, ManifestIds, LookAt

LEMMA UnchangedSettled ==
  ASSUME DiskInv, IInv, SettledAgrees, intact', Unchanged
  PROVE  SettledAgrees'
BY DEF DiskInv, IInv, Basics, TypeOK, WorkIsOwn, StagingAgrees, FilePhases, Indexing, Doomed,
   diskVars, planVars, fileVars, kept, NoFile, SetRow, SetTarget, FailFile, Abort, NextFile,
   SettledAgrees, StampsAgree, Gone, rows, target, ManifestIds, Unchanged

LEMMA ReadTextSettled ==
  ASSUME DiskInv, IInv, SettledAgrees, intact', ReadText
  PROVE  SettledAgrees'
BY DEF DiskInv, IInv, Basics, TypeOK, WorkIsOwn, StagingAgrees, FilePhases, Indexing, Doomed,
   diskVars, planVars, fileVars, kept, NoFile, SetRow, SetTarget, FailFile, Abort, NextFile,
   SettledAgrees, StampsAgree, Gone, rows, target, ManifestIds, ReadText

LEMMA ReadFailsSettled ==
  ASSUME DiskInv, IInv, SettledAgrees, intact', ReadFails
  PROVE  SettledAgrees'
BY DEF DiskInv, IInv, Basics, TypeOK, WorkIsOwn, StagingAgrees, FilePhases, Indexing, Doomed,
   diskVars, planVars, fileVars, kept, NoFile, SetRow, SetTarget, FailFile, Abort, NextFile,
   SettledAgrees, StampsAgree, Gone, rows, target, ManifestIds, ReadFails

LEMMA UpsertBatchSettled ==
  ASSUME DiskInv, IInv, SettledAgrees, intact', UpsertBatch
  PROVE  SettledAgrees'
BY DEF DiskInv, IInv, Basics, TypeOK, WorkIsOwn, StagingAgrees, FilePhases, Indexing, Doomed,
   diskVars, planVars, fileVars, kept, NoFile, SetRow, SetTarget, FailFile, Abort, NextFile,
   SettledAgrees, StampsAgree, Gone, rows, target, ManifestIds, UpsertBatch

LEMMA UpsertFailsSettled ==
  ASSUME DiskInv, IInv, SettledAgrees, intact', UpsertFails
  PROVE  SettledAgrees'
BY DEF DiskInv, IInv, Basics, TypeOK, WorkIsOwn, StagingAgrees, FilePhases, Indexing, Doomed,
   diskVars, planVars, fileVars, kept, NoFile, SetRow, SetTarget, FailFile, Abort, NextFile,
   SettledAgrees, StampsAgree, Gone, rows, target, ManifestIds, UpsertFails

LEMMA RollbackSettled ==
  ASSUME DiskInv, IInv, SettledAgrees, intact', Rollback
  PROVE  SettledAgrees'
BY DEF DiskInv, IInv, Basics, TypeOK, WorkIsOwn, StagingAgrees, FilePhases, Indexing, Doomed,
   diskVars, planVars, fileVars, kept, NoFile, SetRow, SetTarget, FailFile, Abort, NextFile,
   SettledAgrees, StampsAgree, Gone, rows, target, ManifestIds, Rollback

LEMMA ChunklessVectorsSettled ==
  ASSUME DiskInv, IInv, SettledAgrees, intact', ChunklessVectors
  PROVE  SettledAgrees'
<1>1. cur \in todo /\ pc = "chunkless" /\ pc' = "chunklessRow" /\ force' = force /\ man' = man
      /\ stMan' = stMan /\ settled' = settled /\ outcome' = outcome /\ cur' = cur
      /\ fresh' = fresh /\ stale' = stale
  BY DEF ChunklessVectors, planVars, fileVars, kept, IInv, Basics, WorkIsOwn, FilePhases
<1>2. fresh = {} /\ stale = {}
  BY <1>1 DEF DiskInv, StampsAgree
<1>3. target' = target \ OldIds
  BY <1>1 DEF ChunklessVectors, SetTarget, target
<1>4. OldIds = IF rows[cur] = None THEN {} ELSE rows[cur].ids
  BY <1>1, RowsOwned DEF OldIds, rows
<1>5. rows' = rows
  BY <1>1 DEF rows
<1>6. settled /\ outcome = "ok" => target = RowIds(rows)
  BY <1>1, <1>2 DEF SettledAgrees, Indexing, FilePhases, Gone, Doomed
<1> QED BY <1>1, <1>2, <1>3, <1>4, <1>5, <1>6
    DEF SettledAgrees, Indexing, FilePhases, Gone, Doomed

LEMMA ChunklessFailsSettled ==
  ASSUME DiskInv, IInv, SettledAgrees, intact', ChunklessFails
  PROVE  SettledAgrees'
BY DEF DiskInv, IInv, Basics, TypeOK, WorkIsOwn, StagingAgrees, FilePhases, Indexing, Doomed,
   diskVars, planVars, fileVars, kept, NoFile, SetRow, SetTarget, FailFile, Abort, NextFile,
   SettledAgrees, StampsAgree, Gone, rows, target, ManifestIds, ChunklessFails

LEMMA ChunklessRowSettled ==
  ASSUME DiskInv, IInv, SettledAgrees, intact', ChunklessRow
  PROVE  SettledAgrees'
<1>1. CASE outcome' = "error"
  BY <1>1 DEF SettledAgrees
<1>2. CASE outcome' # "error"
  <2>1. pc \in Doomed /\ cur \in Files /\ pc' = "files" /\ force' = force /\ settled' = settled
        /\ outcome' = outcome /\ fresh' = {} /\ stale' = {} /\ target' = target
        /\ rows' = [rows EXCEPT ![cur] = None]
    BY <1>2 DEF ChunklessRow, SetRow, Abort, NextFile, NoFile, kept, Doomed, target, rows,
       IInv, Basics, TypeOK, WorkIsOwn, FilePhases
  <2> QED BY <2>1, DropsGone DEF SettledAgrees, Indexing, FilePhases, Gone, Doomed
<1> QED BY <1>1, <1>2

LEMMA CommitSettled ==
  ASSUME DiskInv, IInv, SettledAgrees, intact', Commit
  PROVE  SettledAgrees'
<1> DEFINE row == [stamp |-> stamp, ids |-> fresh]
           other == RowIds(rows) \ DocsOf(cur)
<1>1. cur \in todo /\ cur \in Files /\ pc = "commit" /\ fresh \subseteq DocsOf(cur) /\ stamp \in Nat
  BY DEF IInv, Basics, TypeOK, WorkIsOwn, FilePhases, Commit
<1>2. row \in Rows /\ row.ids = fresh
  BY <1>1, OwnDocs DEF Rows
<1>3. rows' = [rows EXCEPT ![cur] = row] /\ target' = target /\ force' = force
      /\ settled' = settled /\ outcome' = outcome
  BY DEF Commit, SetRow, rows, target, kept
<1>4. OldIds = IF rows[cur] = None THEN {} ELSE rows[cur].ids
  BY <1>1, RowsOwned DEF OldIds, rows
<1>5. \/ OldIds \subseteq fresh /\ pc' = "files" /\ fresh' = {} /\ stale' = {}
      \/ pc' = "journal" /\ fresh' = fresh /\ stale' = OldIds \ fresh
  BY DEF Commit, NextFile, NoFile, Stale
<1> HIDE DEF row
<1>6. RowIds(rows) = other \cup OldIds
  BY <1>1, <1>4, RowsOwned, RowIdsOf
<1>7. RowIds(rows)' = other \cup fresh
  BY <1>1, <1>2, <1>3, RowsOwned, RowIdsSet DEF RowIds
<1>8. stale = {}
  BY <1>1 DEF DiskInv, StampsAgree
<1>9. settled /\ outcome = "ok" => target = RowIds(rows) \cup fresh
  BY <1>1, <1>8 DEF SettledAgrees, Indexing, FilePhases, Gone, Doomed
<1> HIDE DEF other
<1>10. settled' /\ outcome' = "ok" => target' = RowIds(rows)' \cup fresh' \cup stale'
  BY <1>3, <1>5, <1>6, <1>7, <1>9
<1> QED BY <1>5, <1>10 DEF SettledAgrees, Indexing, FilePhases, Gone, Doomed

LEMMA CommitFailsSettled ==
  ASSUME DiskInv, IInv, SettledAgrees, intact', CommitFails
  PROVE  SettledAgrees'
BY DEF DiskInv, IInv, Basics, TypeOK, WorkIsOwn, StagingAgrees, FilePhases, Indexing, Doomed,
   diskVars, planVars, fileVars, kept, NoFile, SetRow, SetTarget, FailFile, Abort, NextFile,
   SettledAgrees, StampsAgree, Gone, rows, target, ManifestIds, CommitFails

LEMMA AppendJournalSettled ==
  ASSUME DiskInv, IInv, SettledAgrees, intact', AppendJournal
  PROVE  SettledAgrees'
BY DEF DiskInv, IInv, Basics, TypeOK, WorkIsOwn, StagingAgrees, FilePhases, Indexing, Doomed,
   diskVars, planVars, fileVars, kept, NoFile, SetRow, SetTarget, FailFile, Abort, NextFile,
   SettledAgrees, StampsAgree, Gone, rows, target, ManifestIds, AppendJournal

LEMMA DeleteStaleSettled ==
  ASSUME DiskInv, IInv, SettledAgrees, intact', DeleteStale
  PROVE  SettledAgrees'
<1>1. CASE outcome' # outcome \/ outcome # "ok"
  BY <1>1 DEF SettledAgrees, DeleteStale, FailFile, Abort
<1>2. CASE outcome' = outcome /\ outcome = "ok"
  <2>1. SetTarget(target \ stale) /\ NextFile
    BY <1>2 DEF DeleteStale, FailFile, Abort
  <2>2. pc = "stale" /\ ~force /\ ~force' /\ cur \in Files /\ man' = man /\ settled' = settled
        /\ stale \subseteq DocsOf(cur) /\ stale \cap man[cur].ids = {}
    BY DEF DeleteStale, IInv, Basics, TypeOK, WorkIsOwn, FilePhases, kept
  <2>3. col' = col \ stale /\ pc' = "files" /\ fresh' = {} /\ stale' = {}
    BY <2>1, <2>2 DEF SetTarget, target, NextFile, NoFile
  <2>4. man[cur] # None /\ man[cur].ids = fresh
    BY <2>2 DEF DiskInv, StampsAgree
  <2>5. rows = man /\ rows' = man
    BY <2>2 DEF rows
  <2>6. RowIds(man) \cap DocsOf(cur) = fresh
    BY <2>2, <2>4, <2>5, RowsOwned, RowIdsOf
  <2>7. settled => col = RowIds(man) \cup fresh \cup stale
    BY <1>2, <2>2, <2>5 DEF SettledAgrees, Indexing, FilePhases, Gone, Doomed, target
  <2>8. settled => col' = RowIds(man)
    BY <2>2, <2>3, <2>4, <2>6, <2>7
  <2> QED BY <2>2, <2>3, <2>5, <2>8
      DEF SettledAgrees, Indexing, FilePhases, Gone, Doomed, target
<1> QED BY <1>1, <1>2

LEMMA VanishedVectorsSettled ==
  ASSUME DiskInv, IInv, SettledAgrees, intact', VanishedVectors
  PROVE  SettledAgrees'
BY DEF DiskInv, IInv, Basics, TypeOK, WorkIsOwn, StagingAgrees, FilePhases, Indexing, Doomed,
   diskVars, planVars, fileVars, kept, NoFile, SetRow, SetTarget, FailFile, Abort, NextFile,
   SettledAgrees, StampsAgree, Gone, rows, target, ManifestIds, VanishedVectors

LEMMA VanishedRowSettled ==
  ASSUME DiskInv, IInv, SettledAgrees, intact', VanishedRow
  PROVE  SettledAgrees'
<1>1. pc' = "files" /\ force' = force /\ settled' = settled /\ outcome' = outcome
      /\ fresh' = {} /\ stale' = {} /\ target' = target
  BY DEF VanishedRow, NextFile, NoFile, kept, target
<1>2. CASE pc = "vanishedRow"
  <2>1. pc \in Doomed /\ cur \in Files /\ rows' = [rows EXCEPT ![cur] = None]
    BY <1>2 DEF VanishedRow, SetRow, Doomed, rows, IInv, Basics, TypeOK, WorkIsOwn, FilePhases
  <2> QED BY <1>1, <2>1, DropsGone DEF SettledAgrees, Indexing, FilePhases, Gone, Doomed
<1>3. CASE pc # "vanishedRow"
  <2>1. pc = "vanished" /\ rows' = rows /\ fresh = {} /\ stale = {}
    BY <1>3 DEF VanishedRow, rows, DiskInv, StampsAgree
  <2> QED BY <1>1, <2>1 DEF SettledAgrees, Indexing, FilePhases, Gone, Doomed
<1> QED BY <1>2, <1>3

LEMMA VanishFailsSettled ==
  ASSUME DiskInv, IInv, SettledAgrees, intact', VanishFails
  PROVE  SettledAgrees'
BY DEF DiskInv, IInv, Basics, TypeOK, WorkIsOwn, StagingAgrees, FilePhases, Indexing, Doomed,
   diskVars, planVars, fileVars, kept, NoFile, SetRow, SetTarget, FailFile, Abort, NextFile,
   SettledAgrees, StampsAgree, Gone, rows, target, ManifestIds, VanishFails

LEMMA InterruptedSettled ==
  ASSUME DiskInv, IInv, SettledAgrees, intact', Interrupted
  PROVE  SettledAgrees'
BY DEF DiskInv, IInv, Basics, TypeOK, WorkIsOwn, StagingAgrees, FilePhases, Indexing, Doomed,
   diskVars, planVars, fileVars, kept, NoFile, SetRow, SetTarget, FailFile, Abort, NextFile,
   SettledAgrees, StampsAgree, Gone, rows, target, ManifestIds, Interrupted

LEMMA PurgeVectorsSettled ==
  ASSUME DiskInv, IInv, SettledAgrees, intact', NEW f \in Files, PurgeVectors(f)
  PROVE  SettledAgrees'
<1>1. CASE outcome' = "error"
  BY <1>1 DEF SettledAgrees
<1>2. CASE outcome' # "error"
  <2>1. pc = "files" /\ ~force /\ ~force' /\ man' = man /\ man[f] # None /\ pc' = "purgeRow"
        /\ cur' = f /\ col' = col \ man[f].ids /\ settled' = settled /\ outcome' = outcome
        /\ fresh' = fresh /\ stale' = stale
    BY <1>2 DEF PurgeVectors, Removed, planVars, kept
  <2>2. fresh = {} /\ stale = {}
    BY <2>1 DEF IInv, Basics, WorkIsOwn, FilePhases
  <2> QED BY <2>1, <2>2 DEF SettledAgrees, Indexing, FilePhases, Gone, Doomed, target, rows
<1> QED BY <1>1, <1>2

LEMMA PurgeRowSettled ==
  ASSUME DiskInv, IInv, SettledAgrees, intact', PurgeRow
  PROVE  SettledAgrees'
<1>1. CASE outcome' = "error"
  BY <1>1 DEF SettledAgrees
<1>2. CASE outcome' # "error"
  <2>1. pc \in Doomed /\ cur \in Files /\ pc' = "files" /\ force' = force /\ settled' = settled
        /\ outcome' = outcome /\ fresh' = {} /\ stale' = {} /\ target' = target /\ ~force
        /\ man' = [man EXCEPT ![cur] = None]
    BY <1>2 DEF PurgeRow, NoFile, kept, planVars, Doomed, target, IInv, Basics, WorkIsOwn
  <2>2. rows' = [rows EXCEPT ![cur] = None]
    BY <2>1 DEF rows
  <2> QED BY <2>1, <2>2, DropsGone DEF SettledAgrees, Indexing, FilePhases, Gone, Doomed
<1> QED BY <1>1, <1>2

LEMMA AllDoneSettled ==
  ASSUME DiskInv, IInv, SettledAgrees, intact', AllDone
  PROVE  SettledAgrees'
<1>1. pc = "files" /\ ~force /\ man' = man /\ col' = col /\ pc' = "finishing"
      /\ settled' = settled /\ outcome' = outcome
  BY DEF AllDone, diskVars, kept
<1>2. fresh = {} /\ stale = {}
  BY <1>1 DEF IInv, Basics, WorkIsOwn, FilePhases
<1> QED BY <1>1, <1>2
    DEF SettledAgrees, Indexing, FilePhases, Gone, Doomed, target, rows, ManifestIds

LEMMA PromoteCollectionSettled ==
  ASSUME DiskInv, IInv, SettledAgrees, intact', PromoteCollection
  PROVE  SettledAgrees'
BY DEF DiskInv, IInv, Basics, TypeOK, WorkIsOwn, StagingAgrees, FilePhases, Indexing, Doomed,
   diskVars, planVars, fileVars, kept, NoFile, SetRow, SetTarget, FailFile, Abort, NextFile,
   SettledAgrees, StampsAgree, Gone, rows, target, ManifestIds, PromoteCollection

LEMMA PromoteManifestSettled ==
  ASSUME DiskInv, IInv, SettledAgrees, intact', PromoteManifest
  PROVE  SettledAgrees'
BY DEF DiskInv, IInv, Basics, TypeOK, WorkIsOwn, StagingAgrees, FilePhases, Indexing, Doomed,
   diskVars, planVars, fileVars, kept, NoFile, SetRow, SetTarget, FailFile, Abort, NextFile,
   SettledAgrees, StampsAgree, Gone, rows, target, ManifestIds, PromoteManifest

LEMMA FinishSettled ==
  ASSUME DiskInv, IInv, SettledAgrees, intact', Finish
  PROVE  SettledAgrees'
BY DEF DiskInv, IInv, Basics, TypeOK, WorkIsOwn, StagingAgrees, FilePhases, Indexing, Doomed,
   diskVars, planVars, fileVars, kept, NoFile, SetRow, SetTarget, FailFile, Abort, NextFile,
   SettledAgrees, StampsAgree, Gone, rows, target, ManifestIds, Finish

LEMMA CrashSettled ==
  ASSUME DiskInv, IInv, SettledAgrees, intact', Crash
  PROVE  SettledAgrees'
BY DEF DiskInv, IInv, Basics, TypeOK, WorkIsOwn, StagingAgrees, FilePhases, Indexing, Doomed,
   diskVars, planVars, fileVars, kept, NoFile, SetRow, SetTarget, FailFile, Abort, NextFile,
   SettledAgrees, StampsAgree, Gone, rows, target, ManifestIds, Crash

LEMMA StutterSettled ==
  ASSUME DiskInv, IInv, SettledAgrees, intact', UNCHANGED vars
  PROVE  SettledAgrees'
BY DEF vars, diskVars, planVars, fileVars, kept, SettledAgrees, Gone, target, rows, RowIds,
   ManifestIds

LEMMA SettledStep ==
  ASSUME DiskInv, IInv, SettledAgrees, intact', [Next]_vars
  PROVE  SettledAgrees'
<1>1. ASSUME NEW f \in Files, Edit(f) PROVE SettledAgrees'
  BY <1>1, EditSettled
<1>2. ASSUME NEW decision \in {"rebuild", "fresh", "overtaken"}, Start(decision) PROVE SettledAgrees'
  BY <1>2, StartSettled
<1>3. CASE Preparing
  BY <1>3, PrepareFailsSettled, DiscoverSettled, NothingToReplaySettled, ReplaySettled,
     ReplayFailsSettled, ClearJournalSettled DEF Preparing
<1>4. CASE IndexFile
  BY <1>4, LookAtSettled, UnchangedSettled, ReadTextSettled, ReadFailsSettled, UpsertBatchSettled,
     UpsertFailsSettled, RollbackSettled, ChunklessVectorsSettled, ChunklessFailsSettled,
     ChunklessRowSettled, CommitSettled, CommitFailsSettled, AppendJournalSettled,
     DeleteStaleSettled, VanishedVectorsSettled, VanishedRowSettled, VanishFailsSettled DEF IndexFile
<1>5. CASE Interrupted
  BY <1>5, InterruptedSettled
<1>6. CASE Ending
  BY <1>6, PurgeVectorsSettled, PurgeRowSettled, AllDoneSettled, PromoteCollectionSettled,
     PromoteManifestSettled, FinishSettled DEF Ending
<1>7. CASE Crash
  BY <1>7, CrashSettled
<1>8. CASE UNCHANGED vars
  BY <1>8, StutterSettled
<1>9. CASE Callers
  BY <1>9, CallersSettled
<1> QED BY <1>1, <1>2, <1>3, <1>4, <1>5, <1>6, <1>7, <1>8, <1>9 DEF Next

-----------------------------------------------------------------------------
\* What a check found, until it is overtaken.

\* A run after which no check is overtaken leaves the vectors of all rows.
LEMMA FinishLeaves ==
  ASSUME intact => IInv, Finish, "fresh" \in asks'
  PROVE  ManifestIds \subseteq col
<1>1. EndedWell /\ whole /\ IInv
  BY DEF Finish, Overtaken, EndedWell
<1> QED BY <1>1 DEF IInv, VectorsAgree, ManifestIds, RowIds

LEMMA ChecksStep ==
  ASSUME ChecksHold, intact => IInv, [Next]_vars
  PROVE  ChecksHold'
<1> SUFFICES ASSUME pc' = "idle", "fresh" \in asks' PROVE ManifestIds' \subseteq col'
  BY DEF ChecksHold
<1>1. (\E f \in Files : Edit(f)) \/ Callers \/ Finish \/ Crash \/ UNCHANGED vars
  BY DEF Next, Start, Preparing, PrepareFails, Discover, NothingToReplay, Replay, ReplayFails,
     ClearJournal, IndexFile, LookAt, Unchanged, ReadText, ReadFails, UpsertBatch, UpsertFails,
     Rollback, ChunklessVectors, ChunklessFails, ChunklessRow, Commit, CommitFails,
     AppendJournal, DeleteStale, VanishedVectors, VanishedRow, VanishFails, Interrupted, Ending,
     PurgeVectors, PurgeRow, AllDone, PromoteCollection, PromoteManifest, FailFile, Abort,
     NextFile
<1>2. CASE (\E f \in Files : Edit(f)) \/ UNCHANGED vars
  <2>1. man' = man /\ col' = col /\ pc' = pc /\ asks' = asks
    BY <1>2 DEF Edit, vars, diskVars, kept
  <2> QED BY <2>1 DEF ChecksHold, ManifestIds, RowIds
<1>3. CASE Callers
  <2>1. man' = man /\ col' = col /\ pc = "idle"
    BY <1>3 DEF Callers, Check, Refuse, diskVars
  <2>2. ~Desync
    BY <1>3, <2>1 DEF Callers, Check, Refuse
  <2>3. ManifestIds \subseteq col
    BY <2>2 DEF Desync
  <2> QED BY <2>1, <2>3 DEF ManifestIds, RowIds
<1>4. CASE Finish
  <2>1. man' = man /\ col' = col
    BY <1>4 DEF Finish
  <2> QED BY <1>4, <2>1, FinishLeaves DEF ManifestIds, RowIds
<1>5. CASE Crash
  BY <1>5 DEF Crash, Overtaken
<1> QED BY <1>1, <1>2, <1>3, <1>4, <1>5

LEMMA InitRun == Init => RunInv
<1> SUFFICES ASSUME Init PROVE RunInv
  OBVIOUS
<1>1. IInv /\ StampsAgree /\ FilesAgree
  BY InitEstablishes, InitFiles
<1>2. pc = "idle"
  BY DEF Init
<1>3. SettledAgrees
  BY <1>2 DEF SettledAgrees, Indexing, FilePhases
<1>4. ChecksHold
  BY DEF Init, ChecksHold
<1> QED BY <1>1, <1>3, <1>4 DEF RunInv, DiskInv, IInv

LEMMA RunStep == RunInv /\ [Next]_vars => RunInv'
<1> SUFFICES ASSUME RunInv, [Next]_vars PROVE RunInv'
  OBVIOUS
<1>1. DiskInv'
  BY BasicsStep, DiskStep DEF RunInv, DiskInv
<1>2. ASSUME intact' PROVE IInv' /\ SettledAgrees'
  <2>1. IInv /\ SettledAgrees /\ DiskInv
    BY <1>2, FailureStays DEF RunInv
  <2> QED BY <1>2, <2>1, StepKeeps, SettledStep
<1>3. ChecksHold'
  BY ChecksStep DEF RunInv
<1> QED BY <1>1, <1>2, <1>3 DEF RunInv

LEMMA MatchesWhenEnded == RunInv => CleanRunMatchesDisk
<1> SUFFICES ASSUME RunInv, EndedWell PROVE CleanRunMatchesDisk
  BY DEF CleanRunMatchesDisk
<1>1. ASSUME NEW f \in Files, disk[f] = base[f]
      PROVE  LET text == Text[f][disk[f]] IN
               IF f \in found /\ text # {}
                 THEN man[f] # None /\ man[f].stamp = disk[f] /\ man[f].ids = text
                 ELSE man[f] = None
  BY <1>1 DEF RunInv, DiskInv, FilesAgree, Right
<1>2. settled /\ intact => col = ManifestIds
  BY DEF RunInv, SettledAgrees, EndedWell
<1> QED BY <1>1, <1>2 DEF CleanRunMatchesDisk

LEMMA StartsComplete ==
  ASSUME RunInv, pc = "idle", "fresh" \in asks
  PROVE  ManifestIds \subseteq col
BY DEF RunInv, ChecksHold

-----------------------------------------------------------------------------
\* Whatever fails, and wherever the process dies, until a replay, a removal or an
\* append of the cleanup journal itself fails: rows, vectors, staging and journal
\* agree as IInv says.  (Start, run, indexFile, promoteStaging.)
THEOREM IndexInvariant == Spec => [](intact => IInv)
<1>1. Init => (intact => IInv)
  BY InitEstablishes
<1>2. (intact => IInv) /\ [Next]_vars => (intact => IInv)'
  <2> SUFFICES ASSUME intact => IInv, [Next]_vars, intact' PROVE IInv'
    OBVIOUS
  <2>1. IInv
    BY FailureStays
  <2> QED BY <2>1, StepKeeps
<1> QED BY <1>1, <1>2, PTL DEF Spec

\* A run that reports no error and no failed file leaves no row without all of
\* its vectors, so what later runs skip as unchanged can be found.
THEOREM CleanRunsAreComplete == Spec => []CleanRunIsComplete
BY IndexInvariant, CompleteWhenEnded, PTL

\* Replaying the cleanup journal after a crash never deletes a vector that a
\* committed manifest row names.
THEOREM ReplayIsHarmless == Spec => []JournalNamesNoLiveVector
BY IndexInvariant, JournalIsDead, PTL

\* Promotions aside, no step drops a manifest row while one of its vectors is in
\* the collection, so no crash leaves vectors that nothing names.
THEOREM RowsOutliveVectors == Spec => RowOutlivesItsVectors
<1>1. (intact => IInv) /\ [Next]_vars =>
        [intact /\ pc # "promoteManifest" =>
           \A f \in Files : man[f] # None /\ man'[f] = None => man[f].ids \cap col = {}]_vars
  BY RowsGoLast
<1> QED BY <1>1, IndexInvariant, PTL DEF Spec, RowOutlivesItsVectors

\* The above, and what the rows of files already dealt with say, whether or not
\* the journal works; and while it works, that a run which began in agreement has
\* no vectors but those of its rows and of the file at hand.
THEOREM RunInvariant == Spec => []RunInv
BY InitRun, RunStep, PTL DEF Spec

\* A run that reports no error and no failed file leaves, for each file not edited
\* meanwhile, the row the working tree calls for; and, began in agreement and with
\* the journal working, no vectors that no row names.
THEOREM CleanRunsMatchDisk == Spec => []CleanRunMatchesDisk
BY RunInvariant, MatchesWhenEnded, PTL

\* What Start found when it compared the manifest with the collection is still so
\* when it has the locks, unless a run in between failed, died, lost track of the
\* journal or had itself begun on rows without their vectors.
THEOREM IncrementalRunsStartComplete == Spec => IncrementalStartsComplete
<1>1. RunInv /\ [Next]_vars =>
        [pc = "idle" /\ pc' = "replay" /\ "fresh" \in asks \ asks' => ManifestIds \subseteq col]_vars
  BY StartsComplete
<1> QED BY <1>1, RunInvariant, PTL DEF Spec, IncrementalStartsComplete
=============================================================================
