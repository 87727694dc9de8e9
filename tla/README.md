# Verification of mcp-semantic-search-zvec-go

TLA+ models of the semantic-search daemon and its per-project server: the registry that
lends workspaces to requests, a workspace's service with its indexing coordinator and
file watcher, the indexing run and the index directory it keeps, the lock files, the
project registry, how processes start and replace each other, and the pure algorithms
of chunking, search and configuration. TLC checks each model on small instances; TLAPS
proves the safety properties of all of them, for every value of the constants, but for the
cutting of prose and of code.
`PROJECT.json` lists the components, runs, hazards and theorems, and maps each
definition to the lines it models.

Paths without a directory prefix are relative to `internal/` of the repository.

## 1. The system

One daemon per user serves several code collections. Proxies started by IDEs forward
MCP requests over HTTP; a request borrows the collection's *service* from the
*registry*, which opens it on first use. The service owns the native vector collection
(zvec), the *coordinator* that runs indexing jobs, and the file *watcher* that starts
them. An index is a directory with the collection, `manifest.db` (one row per file:
mtime, size, hash, document ids), `cleanup.jsonl`, `index_meta.json`, a progress file
and `index.lock`. In per-project mode there is no daemon: each process is a server of
one workspace, guarded by `stdio.lock`.

| Component | State it keeps | Operations | Interacts with | Hard behaviours |
|---|---|---|---|---|
| Workspace registry (`daemon/registry.go`, `reload.go`) | maps `open`, `opening`; per handle `refs`, `lastUsed`; `closing`, `discards`, `runtimeDone`; the snapshot of registrations | BorrowService, release, cold open, LRU eviction, discard, ReloadProjects, Close | service (build, close), project manager (snapshot), process runtime | cold open and close run outside the mutex; eviction, reload and shutdown race requests; drain with timeout |
| Lock files (`lock/`) | OS lock on a descriptor, payload, the path | ReclaimStale, TryAcquire, Release, Heartbeat | coordinator, daemon, stdio server, project manager | unlock, close, read and unlink are separate steps; dead owners; Unix and Windows differ |
| Indexing run (`indexer/coordinator.go`, `store/manifest`, `store/zvec/staging.go`) | collection, manifest, journal, staging pair, plan of files | Start, replay, discover, indexFile, purge, promote | lock, embedder, scanner, zvec | several durable steps per file, each may fail or be the last before a crash; files change meanwhile |
| Coordinator lifecycle (`indexer/coordinator.go`, `progress.go`, `recover.go`) | running flag, close mutex, progress file | Start, Close, WaitForIdle, RecoverStalledProgress | run, lock, service, other processes | recovery of another owner's progress; Close racing Start |
| Workspace service (`service/phase1.go`) | readiness, count of searches, shutdown state, embedder | search, status, Reindex, PrepareStartup, lock recovery, Shutdown | registry, coordinator, collection handle, watcher | searches during promotion and recovery; runs that start during a shutdown; waits that time out |
| Collection handle, identity (`store/zvec/`) | native handle, mode, `index_meta.json` | open, search, upgrade, close; validate, migrate, reset | service, coordinator | reopen during a rename; a crash between stamp and rebuild |
| File watcher (`watcher/`) | debounce timer, retryActive, retryPending, stop channel | event, callback, retry loop, Stop | coordinator (Start) | overlapping callbacks; flags in several critical sections; stops from two sides |
| Project manager (`daemon/project_manager.go`, `cmd/*/project_commands.go`) | `projects.d/*.yaml`, `project.yaml`, `projects.lock` | add, remove, fork, relocate, rollback | lock, registry (reload) | several files written in turn, a crash in between, users moving directories |
| Daemon client and launch (`daemonclient/`, `cmd/`) | `auth.token`, `daemon.lock`, the listener | ensure token, ensure running, launch, stop | lock, HTTP server | many proxies start one daemon; a daemon that is leaving |
| Process lifecycle (`lifecycle/`) | `stdio.lock`, remembered process ids | take over, terminate, watch the parent | lock, transports | process ids are reused between a scan and a kill |
| Chunkers (`indexer/chunk/`), search limits (`store/zvec/glob_topk.go`, `service/search_rerank.go`), configuration (`config/`) | none | functions | run, search, all | boundaries; layers that leak |
| Embedding clients, HTTP and MCP transports, logging, update check | little | I/O | all of the above | their failures reach the components above |

What makes them correct: a borrowed service is never closed and never out of date; the
limit on open workspaces holds; the process-wide runtime is torn down last and once; two
processes never own one index, one workspace or one machine's registry; after a clean
run search finds exactly what the working tree holds, whatever failed or died before;
an index holds one generation of chunks and vectors, the one its meta names; a closed
service is quiet and a stopped watcher stays stopped; a refused change is undone;
nothing is ever killed that does not name the program and the workspace; every waiter is answered.

## 2. Modules

| Module | Role |
|---|---|
| `ServiceLease` | abstract: services that start, are lent, stop and vanish over a platform that goes down once nothing is lent |
| `Registry`, `RegistryProofs` | the registry; its inductive invariants and theorems, and the proof that it implements `ServiceLease` |
| `ExclusiveLock` | abstract: at most one owner, who may die |
| `IndexLock` | a lock file over inodes and descriptors; its specification is `LockSpec`, its theorems are in `ProjectsProofs` |
| `IndexRun`, `IndexRunProofs` | the runs of one coordinator over the durable stores; its theorems |
| `Service`, `ServiceProofs` | coordinator, collection handle, searches, lock recovery, shutdown and a second process, composed in one module because they share the close mutex and the handle; its theorems |
| `Identity`, `IdentityProofs` | index_meta, migrations, reindexing and promotion across restarts; its theorems |
| `Watcher`, `WatcherProofs` | the file watcher over an abstract coordinator; its theorems |
| `Projects`, `ProjectsProofs` | the project registry and the commands on it; its theorems, and those of the lock file the commands contend for |
| `Launch` | token, launch, singleton lock and stop of the daemon |
| `Stdio` | per-project servers, their takeover and their launchers |
| `LifecycleProofs` | the theorems of `Launch` and `Stdio` |
| `LineWindows`, `ProseSplit`, `MarkdownSegments`, `AstChunks` | the chunking algorithms, and the router that picks one |
| `SearchHits` | limits, expansion under a path filter, re-ranking |
| `Configuration` | where a setting comes from |
| `Algorithms`, `AlgorithmsProofs` | the inputs of the pure modules and what is promised of every input; its theorems |
| `MC*` | constants, inputs, symmetry and the one action constraint for TLC; `MCAlgorithms` also what is promised of prose and of code |

Definitions marked *Slip* are deliberate errors (a dropped guard, a missing count).
No specification uses them; substituting one for the definition next to it must break
the property named beside it under `mutants` in `PROJECT.json`.

### Registry

`open`, `opening`, `refs`, `closing`, `discards` and `runtimeDone` are the fields of
the same names. `older` is the order of `lastUsed`. `stage` says where the service
behind a handle is between `initWorkspace` and the end of `discardHandle`; `home` and
`built` are its id and registration. A request's `pc` is its place in `BorrowService`:
`asking` (loop head), `waiting` (on `wait.done`), `reserved` (has the slot, perhaps
waiting for the eviction it caused), `starting` (in `initWorkspace`), `holding`,
`abandoning` (discarding the service that came too late).

- `RefuseClosing`, `RefuseUnknown`, `RefuseFull`, `Borrow`, `AwaitOpening`, `Reserve`,
  `ReserveByEvicting` are the outcomes of one turn of the loop; `BeginInit`, `OpenFails`,
  `OpenSucceeds`, `OpenTooLate` are the cold open.
- `Release` is `releaseFunc` with its re-check that the handle is still the mapped one.
- `BeginDiscard`, `CloseService`, `FinishDiscard` are the three parts of a discard: the
  count, `Phase1.Close`, and the drain check in a critical section of its own.
- `ReloadLoad`, `ReloadApply`/`ReloadRefused`, `ReloadEnds` are `ReloadProjects`, which
  `reloadMu` serialises; snapshot and maps are swapped together.
- `CloseFlag`, `CloseCancel`, `CloseSweep`, `SweepOne`, `CloseEnds` are `Close`. The drain
  loop reads its three conditions in three critical sections; the model reads them in
  one. That is sound because none of them comes back once `closing` is set:
  `BorrowService` refuses then, in the critical section that would reserve or borrow.
- `IndexStarts`, `IndexEnds` are background jobs of the service, which hold no borrow.

A handle that has been collected by the garbage collector returns to the pool
(`"free"`); the pool is large enough that no cold open waits for one in the runs.

### Lock file

`path` is what the lock path names, `fd` what a process has open, `flock` the OS lock
of an inode, `payload` what is written in it. Between two system calls of one process
anything may happen. `UnlinkWhileOpen` is the difference between the systems: `TRUE`
on Unix; on Windows `os.Remove` of an open file fails, and so does reading a locked one.
`ReclaimStale` is both a step of `TryAcquire` and an operation of its own, which is why
it may return to `idle`. `Heartbeat` and `LiveHolder` change nothing that the properties see.

### Indexing run

Each file has a history `Text[f]` of edits, each a set of document ids (ids are hashes
over the path and the chunk, so an edit keeps some, drops some and adds some; the empty set is a
file without chunks) and `Removals[f]` says which edits remove it. `disk[f]` is the
current edit and stands for mtime, size and content hash. One action is one durable
operation: a batch of upserts, a row, an append to the journal, a delete, a rename of
the promotion. `Crash` may fall before and after each, and inside a promotion, which is
two renames, and a replay. A start is two steps, as in the code: `Check` compares
vectors and rows before anything is locked (`coordinator.go:185-192`), `Start` takes the
locks (194-210), and in between other runs, of this or another process, may come and go.
`asks` remembers which answers callers carry: *fresh*, or *overtaken* by a run that failed, died,
lost the journal or had itself begun badly. Each operation also has its failure, with the partial effects
the code can leave (some of a batch written, some of it reported; any subset deleted),
and the error path that follows: rollback, a file skipped and counted, or the run
aborted. Which of the two is a matter of the error's type and nondeterministic here.
`Edit` may happen between any two steps, so a file can be hashed in one state, read in
a later one and be gone after that. `target` and `rows` select staging or the active
pair the way the code's `col` and `manifestDB` variables do. `base`, `whole` (the run rebuilds everything, or began with the vectors of
all its rows), `settled` (and with no others) and `intact` (no operation on the journal itself
has failed yet) are history variables; besides properties, only the line between fresh and
overtaken asks uses them, and both may start.

### Service

Threads are the requests and the watcher that call `Start`, the searches and status
requests (`Readers`), and callers of `Shutdown`; the background run is a state machine
of its own (`run.phase`). `closeMu` is `zvecCloseMu`, `handle` the native handle with
its mode and whether it is of the published index (`fresh`), `file` the progress file,
`peer` a second process on the same directory, `wg` the counter of searches.

- `LoadProgress` .. `Unwinds` are `Start` with the recovery before it; `RunOpensWritable`
  .. `RunStops` the run as far as it uses the handle, and its deferred teardown in order.
- `PromoteCloses`, `PromoteMoves`, `PromotePublishes`, `PromoteFails`, `PromoteReopens` are
  `promoteStaging`. `Unix = FALSE` means that a rename fails while a handle is open.
- `SearchBegins`, `SearchLaunches`, `InnerOpens`, `InnerQueries`, `Answers` are a search:
  the request and the goroutine that stays in the store when the request is cancelled.
- `KillDuplicates`, `RecoveryCloses`, `Reopens` are the recovery from a zvec lock error.
- `ShutdownBegins` .. `ShutdownReturns` are `Shutdown`; each wait may time out.
- `Leased = TRUE` adds what the registry guarantees: no requests while it closes.

What a run does to files is `IndexRun`; the meta is `Identity`.

### Identity

`active[n]` and `staged[n]` are the chunks in the collection of name `n` and in its
staging directory, each with the configuration and zvec-go that made it. One action is
one durable step of the startup migrations (`Wipes`, `ClearsManifest`, `StampsBuild`,
`ChecksIdentity`), of the reset for another identity (`DropsOld`, `Restamps`) or of a
run (`Reconciles`, `RunRestamps`, `Opens`, `Indexes`, `MovesAside`, `Swaps`, `SwapsManifest`).
Each may fail, and the startup or request then goes on as the code does, a failed migration
under the old stamp among others. A rebuild is published with the files it has, others having
been skipped (`coordinator.go:533-542`), and in several renames (`store/zvec/staging.go:83`), each of which may
be the last. `WatcherStarts` is possible at any time, since the watcher is started before
`PrepareStartup` (`daemon/registry.go:299-300`), and a start may find the index in disagreement and rebuild.
`Restarts` may fall between any two steps and brings another configuration or release.
`mixed` is a ghost: in what (chunking, zvec-go, geometry) the chunks may differ from the meta,
because the meta was written over an index of another kind or an incremental run went on
under another zvec-go's stamp. Only a rebuild that is published, or a collection that is
removed, clears it. Left out: the backfill of a legacy meta, collections with another
owner, a workspace id that is not pinned, a build without zvec, the `.old` directories that a promotion
moves aside (they are never read), and several batches per file: a file's chunks are written in one step.

### Watcher

The backend turns changes into events, the loop debounces them (`LoopTakes`,
`Schedule`), each timer callback goes through `triggerReindex` (`CallbackChecks` ..
`CallbackStarts`) and may spawn the retry loop (`RetryStops` .. `RetryDone`). `Disarm`,
`CloseStop`, `Drain`, `Join` are the parts of a stop, which `Stop` and the goroutine
that waits for the context both do. The coordinator is a flag (`Begin`, `RunEnds`).
Snapshots, path filters and the tree of fsnotify watches are abstract.

### Projects

Two roots, each with a `project.yaml` or none, and registrations by id. A command
captures what it will restore (`CaptureReg`, `CaptureYaml`), takes `projects.lock`,
writes its files one by one, and has the daemon reload; a conflict is rolled back
(`FindsStale` .. `YamlFails`). The rollback is best effort as in `project_commands.go:196-224`:
`StaleFails`, `RestoreFails` and `YamlFails` are the failures of its three steps, after each of which the
next is still taken; `project.yaml` is put back in any case. A crash may fall after each step, and users copy, move
and delete directories (`UserActs`). A reload and a rollback's single write are atomic.
`causes` records the five behaviours of the code (section 4) that leave a root
registered twice or a rollback meeting another command, so that the properties can
except them by name; `"stale"` is a restoration after a failed removal.

### Launch and Stdio

In `Launch` clients and daemons ensure the token (`ReadsToken` .. `GivesUpToken`), clients
probe, launch and wait, daemons take `daemon.lock`, load, bind, serve and close.
`Strangers` are other listeners on the port, one of them a daemon started by hand that
the clients accept. Whoever listens may also not answer a probe in time (`NoAnswer`), after which
the client goes on to launch or keeps waiting (`client.go:167-187`). `mishaps` records deaths, failures, stops, strangers
and such silence (`"mute"`).

In `Stdio` a server scans the process table, signals, waits and kills the others
(`ScansStdio`, `Signals`, `Kills`), retries the lock, serves and closes.
`Pids` are reused. Both scans go by command lines. The first (`ScansStdio`) finds what has `--stdio` on it, and
spares the scanning server alone, so a launcher script whose command line has `--stdio` is found too
(`StdioWrappers`); the second (`ScansWrappers`) finds any process that names the program and
the workspace or install directory (`wrapper_unix.go:17-68`), servers or not (`Wrappers`), and excludes the launch
chain, which is the direct launcher here. The code terminates each process as it is found, the model when
the scan is over, in any order. Reading a command line with its start time is one step, and so is
the last identity check with the signal that follows it; signals and scans are the Unix ones.

### The pure modules

They have no state; `Algorithms` gives them one: the input. `Choose` picks its kind and `Grow`
adds a byte, a line or a document to it, so that every input up to a bound (for TLC) or of any
length (for TLAPS) is a reachable state and a promise is an invariant. A text is a sequence of
byte classes, a line its number of characters or its class, a syntax tree a record with its
lines and kids, a setting the texts that each layer gives it.

A loop of the code is a recursive function over the places in its input in `LineWindows`,
`MarkdownSegments` and `SearchHits`: `StreamFrom(lines, size)[s]` is what the stream makes of the
lines from `s` on, `Parsed(doc)[n]` the markdown parser after `n` lines, `Expand(docs, topK)[k]`
the doubling search that has fetched `k`. `ProseSplit` and `AstChunks` recurse over texts and
trees with RECURSIVE operators and are for TLC only. `L` and `T` are the two bytes of a letter whose
second byte, 0x85 or 0xA0, `unicode.IsSpace` takes for white space (as it does in `recursive.go:233-272`);
what that loses is in section 4. `SearchHits` takes the native ranking as given and the same for every fetch: that an
approximate (HNSW) index may answer a longer fetch with another order is not in the model.

## 3. Runs

Run one with `tlc -config <cfg> <module>`.

| Run | Shows | Bounds |
|---|---|---|
| `registry_safety` | the safety properties and `LeaseSpec` | 2 requests, 3 ids, 5 handles, limit 2 and a reload to limit 1 that changes one registration; drain timeout allowed |
| `registry_live` | no request waits for ever; a started Close tears the runtime down | 2 requests, 2 ids, limit 1, a reload that changes one registration and removes the other |
| `index_lock` | `MutualExclusion`, refinement of `ExclusiveLock` where open files cannot be removed | 3 processes, 4 inodes |
| `index_run` | agreement of rows, vectors, journal and working tree under failures of every store, the journal included, and crashes; what the journal protects is claimed until an operation on it fails | 2 files, 3 edits each: one with overlapping texts, one that loses its chunks and is then removed; waiting callers of one kind at a time, who come late (`MCCallers`) |
| `service` | the invariant and the promises of shutdown, handle and progress file | three casts of one thread of each kind (two Starts and a shutdown; a search, a Start and a shutdown; a search, a Start and a second process), one run each, `Close` of the store may fail |
| `algorithms` | chunking loses nothing, filters see everything, settings stay apart | files of 7 bytes, prose of 6 (with two-byte letters), texts and markdown of 5 lines, collections of 5 documents, syntax trees of depth 3, every combination of layers of a setting |
| `watcher` | one retry loop; a stop is final and returns | 2 callbacks, 2 retry loops, 2 changes, other starters |
| `projects` | the registry loads, others are untouched, a refused change is undone | 2 clients, 3 commands, 2 roots, 2 ids, 1 move by the user, crashes, rollback steps that fail |
| `launch` | one registry, one token, harmless races, `EnsureRunning` returns | 2 clients, 2 daemons, 2 strangers, silent listeners |
| `stdio` | one server, bystanders are safe, orphans leave | 2 servers (one without `--stdio`), 2 other processes (one a launcher script that names program and workspace), 3 ids |
| `identity` | one generation per index, recorded stamps apart; a rebuild is pure | 2 files, 3 configurations, 2 releases of zvec-go, 2 restarts, 1 edit |
| `identity_geometry` | violation: two chunk geometries in one index | 2 configurations, 1 restart |

Why these bounds are enough for the interesting cases. Registry: every race is between
two requests, or a request and the one reload or the one Close; three ids with a limit
of two let one be evicted while another is borrowed and a third cold-opened, and five
handles let each request have a starting and a leaving service at once, with one more
held by the reload. Lock: the unlink race needs an owner that leaves, one that has the file open
and one that creates the next. Run: two files make one of them the "other" file that a step
must not touch, overlapping texts make an id die and live again, and the number of runs,
failures and crashes is not bounded; a waiting caller changes nothing until it starts, so both kinds waiting at once, or a caller that comes earlier than it
needs to, add no behaviour of the index, and `MCCallers` leaves them out. Service: each race is of one thread against the
run, the shutdown or the second process; one thread can go round any number of times.
Watcher: a second callback must overlap the first, and a second loop the first's end.
Projects: a rollback meets one other command and follows one before. Launch and Stdio:
everything is a contest of two, and an id passes on when there is one more id than
processes that must live. Identity: a stamp, a rebuild that dies and a rebuild of another
configuration take two restarts. Algorithms: the code's cases turn on pairs and triples
of neighbouring characters, lines or nodes.

The properties:

- `HeldServiceIsOpen`, `ServesCurrentRegistration`: what a request holds is open and current.
- `LiveWithinLimit`: services that are starting or closing count; the bound is the
  largest limit that was ever in force, because a reload does not evict.
- `RuntimeAfterDrain`, `RuntimeIsTornDown`: the teardown.
- `NobodyWaitsForever`: whoever waits for another's cold open, or for a reload.
- `CleanRunIsComplete`: after a run without error or failed file that rebuilt everything, or began with
  the vectors of its rows, every row has its vectors (an overtaken check is section 4). `CleanRunMatchesDisk`: the rows are those of the working tree, for files that were
  not edited meanwhile (an unreadable directory counts as removed, as in the code); and
  there are no other vectors, provided the run rebuilt everything or began with rows or
  with an empty collection. The proviso is real: with no rows the desync check is skipped
  (`coordinator.go:840`), so vectors left behind by a first run that died are never found.
- `JournalNamesNoLiveVector`, `RowOutlivesItsVectors`, `IncrementalStartsComplete`: the
  ordering rules the comments in the code argue for, the last for a start that no run with a bad
  end has overtaken, the first two until an operation on the journal fails (`MCIndexRunReplay.cfg` shows what follows then).
- `SInv` (who holds the close mutex, the index lock and the running flag; searches are
  counted), `ClosedServiceIsQuiet`, `StoreNotClosedUnderRun`, `HandleIsCurrent`,
  `RunningFileHasRunner`, `ShutdownAlwaysReturns`: see the comments in `Service`.
- `WindowsAreSound`: the streamed and the in-memory reader cut a file alike, no line is
  lost to a budget, and the chunker of a file does not depend on its size (a large `.txt`
  apart).
  `SegmentsPartitionAndScope`: every line of a markdown document that is not blank is
  in exactly one segment, and a segment's scope is the chain of headings above it. The place it
  gives is right in a document where text or a blank line ends a table, the scope in one that
  skips no heading level: both provisos are real (section 4). `SplittingIsSound`: the pieces of prose are within the budget, with
  the overlap they get too, and lose no one-byte letter; where no letter is cut apart (`NoLetterIsCut`, section 4)
  they lose none at all, and lie in order where their offsets say (`SplitKeepsText`). Of code, the lines of leaves
  and the declarations that reach the least number of tokens are in a chunk, a wrapper that is too large being cut by
  lines (`AstCoversLeaves`).
  `FilterSeesWholeCollection`: the expanded search answers what a
  filter over the whole ranking would. `SettingsAreIsolated`: a collection's settings do
  not depend on the daemon's environment or on the project's `.env`, and a process of
  its own keeps what its environment says, an API key apart.
- `OneGeneration`: chunks and vectors are of the version, strategy and zvec-go the meta
  names, except in what `mixed` has on record (section 4). `RebuildIsPure`: a promotion publishes only
  what this configuration produced.
- `RefusedChangeIsUndone`: best effort, as the code says: the registration is as before where neither its removal
  nor its restoration failed, and `project.yaml` wherever that write succeeds.
- `BystandersAreSafe`: what is signalled names the program and the workspace on its command line. That is what
  the code promises; a script or an editor that names both is meant to be stopped.
- `RunningFileHasRunner` is about a file that says *running* with nobody behind it. A recovery that overwrites the
  progress of a live run, until that saves again, does not violate it; nor do two stdio servers that
  terminate each other violate `OneServer`. `HandleIsCurrent` says something for `Unix = FALSE` only.
- The others are stated beside their definitions, with the line or comment they are about.

**Fairness.**

- Registry (`FairSpec`): weak fairness of what a running goroutine will do: answer
  the request it serves, finish a cold open, release, close a service (`Phase1.Close` is
  bounded), go on with a started reload and a started Close. Nothing is asked of clients,
  indexing jobs, reload requests or the decision to close. `registry_live` has
  `DrainMayTimeOut = FALSE`: after a drain that timed out a cold open that then fails ends
  without the drain check (`registry.go:179-196`), and the runtime stays up until the
  process exits.
- Service: weak fairness of the run, strong of `Start` and `Shutdown`, whose steps wait for a
  `sync.Mutex` that others take and leave again and again; its starvation mode hands it
  to whoever waits long enough. Nothing is asked of searches.
- Watcher: goroutines run, timers fire, a run ends, a backend ends once it is told to.
  Whether somebody stops the watcher or cancels its context is open.
- Launch and Stdio: a live process runs on and its timers fire; nothing is asked of
  deaths, stops, strangers or launchers.

## 4. Finding and known deviations

`identity_geometry` shows a defect. The indexing run reconciles the index with an
identity that has no chunking fingerprint (`coordinator.go:299`; likewise the migration,
`phase1.go:672`, and the status request, `phase1.go:334`), so the meta it writes tracks none,
and a later change of the chunking geometry is not seen as a mismatch: changed files are
chunked one way beside unchanged files chunked the other, which
`store/zvec/reconcile.go:25-33` wants to prevent.

The following configurations each give TLC a statement of the repository that the code
does not keep; TLC answers with a shortest behaviour. They are kept beside the runs and
are not among them.

| Configuration (module) | Property | What the code does |
|---|---|---|
| `MCRegistryIndexing.cfg` (`MCRegistry`) | `IndexingIsNeverEvicted` | eviction looks at borrows only (`daemon/registry.go:352`); docs/CONFIG.md:324 says an indexing collection is never evicted |
| `MCRegistryEviction.cfg` (`MCRegistry`) | `AtMostOneService` | an evicted workspace has no reservation while its service closes (`daemon/registry.go:365`), which `reload.go:175-178` gives a reason for having |
| `MCRegistryTeardown.cfg` (`MCRegistry`) | `RuntimeOutlivesServices` | Close does not count the services it closes (`daemon/registry.go:484`), so a late discard tears the runtime down under them (docs/ARCHITECTURE.md:124) |
| `MCIndexLockUnix.cfg` (`MCIndexLock`) | `MutualExclusion` | Release unlinks the path after it gave up the lock (`lock/lock.go:143`): on Unix two processes then lock two files |
| `MCIndexRunReplay.cfg` (`MCIndexRun`) | `ReplayIsSafe` | a failed replay, or a `Clear` whose error is dropped (`coordinator_helpers.go:40`), leaves ids that the same run brings back to life; the next replay deletes their vectors |
| `MCIndexRunInsured.cfg` (`MCIndexRun`) | `StaleIsInsured` | a replay removes the journal file and Append does not create it (`store/manifest/cleanup.go:52`) |
| `MCServiceStop.cfg` (`MCService`) | `ClosedServiceHoldsNoHandle` | `Stop` returns at once while the goroutine that saw the context end is still stopping the watcher (`watcher.go:169`; the registry cancels the context just before it closes, `registry.go:387`), so a callback starts a run that leaves the handle open |
| `MCAlgorithmsSpans.cfg` (`MCAlgorithms`) | `UniqueSpans` | the walk over a syntax tree emits a span twice (`indexer/chunk/ast/engine.go:475-523`, and 252, 404), which `engine_test.go:154` excludes for its examples |
| `MCWatcherLost.cfg` (`MCWatcher`) | `ChangeIsIndexed` | a change reported between the retry loop's last look and its end waits for the next change (`watcher.go:268-284`; `watcher.go:35` promises a retry) |
| `MCProjectsFork.cfg` (`MCProjects`) | `ForkKeepsOneRegistration` | a fork drops the registration that `project.yaml` names, which need not be the root's (`daemon/project_manager.go:564-584`) |
| `StdioTakeover.cfg` (`Stdio`) | `CompetitorIsLeftAlone` | a newcomer terminates the server it finds (`lifecycle/workspace_locks.go`); DEVELOPMENT.md:68 says it does not compete |

Three things the code does that a reader of the properties must know, because the properties except them:

- *An incremental start on an index that is no longer whole.* `Start` looks for missing vectors
  (`coordinator.go:185`), then for a run in progress, then takes `index.lock` and the close mutex (194-210). A run in
  between that dies amid a promotion leaves rows without vectors; the start goes on incrementally, skips those
  files as unchanged, and may end `ok`. The next start that nobody overtakes finds the disagreement.
- *A stamp without its rebuild.* For another identity the reset drops a collection of another name, writes
  the new meta over one of the same name (`phase1.go:598`, `coordinator.go:299`, `reconcile.go:77-93`) and leaves the chunks to the rebuild. If
  that fails or the process dies, the next start compares the new meta with the same configuration, sees no
  mismatch, and incremental runs mix the chunks of two chunking versions until some rebuild is published. Nothing
  begins the reset again. docs/API.md:139, 331 and docs/ARCHITECTURE.md:241 promise more. The same follows when a
  watcher's run stamps an index without meta before the migration has looked at it (`registry.go:299-300`), and after
  a migration that failed, the startup goes on under the old stamp.
- *A letter that is cut apart.* `unicode.IsSpace` of a single byte takes 0x85 and 0xA0 for white space
  (`indexer/chunk/prose/recursive.go:233-272`), the second bytes of two-byte letters (the Cyrillic small kha and capital er
  among them). A line over the budget that has one loses that byte; a cut by characters then writes U+FFFD for
  the first byte, and offsets shift by two. Without `NoLetterIsCut`, TLC refutes `SplitKeepsText` in such a text.

Seen while modelling, each modelled as the code has it, or outside the model:

- Chunking. `stream.go:105` counts the line break against the limit and the in-memory
  reader does not (`chunk.go:21` calls them identical); docs/CONFIG.md:133 gives `0` as "no limit" where
  1 MiB applies, and `prose/stream.go` has 1 MiB always; a large `.txt` is cut as markdown; a table ends late after a heading
  or a fence (`markdown.go:111-121`), and siblings nest after a skipped heading level (229).
- Run. `PartialWriteError` is read as if the successes were a prefix (`collection.go:478`,
  `coordinator.go:647`).
- Projects. A fork, a relocation onto a registered root (`project_manager.go:700`), a crash before the old
  registration is removed (587), a rollback that meets another command and one whose removal fails before it
  restores (`project_commands.go:196-208`) can leave a root registered twice; every later load then refuses (141). A removal that finds nothing to remove never reloads
  the daemon (`project_commands.go:238-245`).
- Launch. A crash between creating and writing `auth.token` leaves an empty file; a failed
  sync withdraws a token others may have read (`auth.go:136`). A stopping daemon gives up its port at
  once and `daemon.lock` only when its registry is closed, so a client in between waits for
  a daemon that cannot start (`client.go:188-193`, `main.go:361`). `ListenAndServe` returns when
  Shutdown begins, not when requests have ended (`http/server.go:139-166`).
- Processes. Two servers that start together may terminate each other (`stale_unix.go:103`); the
  stop command may signal itself (`stop.go:29`); `--stdio` is matched as a substring and so
  matches `--stdio-proxy`.
- Configuration. `.env` wins over the process environment for secrets (`options.go:241`; docs/CONFIG.md:17
  says set variables are not overwritten), and the `.env` beside a config file elsewhere
  exports no settings (docs/CONFIG.md:16).
- Documents. docs/ARCHITECTURE.md:122 describes eviction as asynchronous, but
  `BorrowService` waits for `discardHandle`; docs/ARCHITECTURE.md:173 says a stale lock is
  removed, but `ReclaimStale` empties the file and leaves it.

## 5. Proofs

Every theorem holds for any number of requests, clients, files, ids and so on: the
assumptions are the named ASSUMEs of each module (sets that are counted are finite,
snapshots are well formed, `None` and the like are distinct from what they stand beside, document ids are not
shared by files, a watcher can name two retry loops), and nothing else is assumed unless
listed here. Each safety property follows from an invariant that is inductive; the proof has a
lemma per action, or per group of actions that change the same things, and under it a step per
conjunct. Each inductive invariant was first checked by TLC on the instance of the
component's run; `SInv` of `Service` is an invariant of its run.

- **`RegistryInvariant`: `Spec => []IInv`.** The safety properties are not inductive: that a
  held handle is the mapped one depends on eviction, reload and sweep taking
  idle handles only, which depends on `refs` being right. `IInv` adds `RefsAgree` (refs counts the holders) and
  `DiscardsAgree` (discards counts the handles being closed), both as cardinalities, and the agreement of maps, reservations,
  requests, starting services and the reload.
  `HeldServiceStaysOpen`, `RegistrationIsCurrent`, `ServiceIsUnique`,
  `RuntimeIsTornDownLast` follow from it.
- **`LiveStaysWithinLimit`.** The code counts slots, the property services, and a service that
  was evicted is in no map while it closes. `SlotInv` says who answers for it: the request that
  evicted it or the reload that dropped it, each with a reserved slot of its own. A reserved
  request without a live service is a *pledge*; `SlotsSuffice` bounds live services and pledges together, and only
  `Reserve` adds to them: it finds fewer slots in use than the limit, and every service or
  pledge is mapped to an open or reserved workspace of its own.
- **`ImplementsLease`: `Spec => Lease!Spec`,** with `leaseLife` derived from `stage` and
  `leaseLent` from who holds what. Each action is shown to be one abstract step or a
  stutter; the reload's and Close's removal of several handles is one `Stop(S)`.
- **`LockExcludes`, `LockImplementsMutex`,** under `UnlinkWhileOpen = FALSE`. Without it they are
  false (`MCIndexLockUnix.cfg`). The invariant: every descriptor refers to what the path names.
- **`ProjectsInvariant`: `Spec => [](PInv /\ Dropping)`.** A root has at most one registration, or two
  while the holder of the lock is about to drop the old one (`OneEach`). To keep that through a
  fork, a registration that is about to be written must find the root with the kept id only;
  through a relocation, the new root with none; through a rollback, what the command
  captured must still be what it meets, which holds as long as no other command has begun
  since (`OthersIdle`, `Undoable`). All this is claimed until one of the `causes` happens;
  that ids are new (`Numbered`) and that who writes has the lock (`Ordered`), always.
  A rollback one of whose steps failed goes on in stages of its own (`restore-partly`, `yaml-partly`), in which
  the invariant promises nothing of the root's registration. `RegistryLoadsHolds`, `OthersUntouchedHolds` and `RefusedChangeIsUndoneHolds` follow.
- **`CommandsObeyTheLock`, `IndexersObeyTheLock`, `DaemonsObeyTheLock`, `ServersObeyTheLock`.** `Projects`,
  `Service`, `Launch` and `Stdio` each have their lock file as a variable that names the holder. Each
  theorem shows that the component's steps take and leave it as `ExclusiveLock` says;
  `LockImplementsMutex` that a lock file provides just that where open files cannot be unlinked.
- **`IndexInvariant`, `CleanRunsAreComplete`, `ReplayIsHarmless`, `RowsOutliveVectors`,**
  until an operation on the journal itself fails (`IndexInvariant: Spec => [](intact => IInv)`).
  After that the journal may name live ids (`MCIndexRunReplay.cfg`), and a replay then takes
  vectors away from rows. All other failures and crashes are allowed.
  `IInv` relates the journal to the files still to come, staging to the rows that will be promoted,
  and says that rows have their vectors as long as the run has met no error, for a run that rebuilds or began so
  (`whole`). `ChecksHold` says that a fresh ask is still right when nothing is running.
- **`RunInvariant`, `CleanRunsMatchDisk`, `IncrementalRunsStartComplete`.** `DiskInv` says, with or without
  a working journal and however the run began, that a row stamped with the current edit has that edit's ids, that stamps
  never run ahead of the disk, and that files already dealt with have the row they should; edits only
  make a stamp old. While the journal works, a run that began in agreement has no vectors but
  those of its rows and of the file at hand (`SettledAgrees`). That a check finds the very vectors the rows name
  follows from its comparison of two counts, since `IInv` makes one set a part of the other and both are finite;
  that it is still so when the locks are taken follows from `ChecksHold` for all asks but overtaken ones.
- **`ServiceInvariant`: `Spec => []SInv`,** and from it `ClosedServiceIsQuietHolds`, `HandleIsCurrentHolds`,
  `RunningFileHasRunnerHolds`, `StoreNotClosedUnderRunHolds`. `SInv` says who has the close
  mutex and the index lock in each phase of each thread (`OneIndexer`), that the wait group
  counts the searches in the store (`SearchesCounted`), that a shutdown past a stage
  has left nothing behind it (`ClosedMeansQuiet`), and how the handle's mode and the
  progress file follow the run, a second process and a recovery (`HandleAgrees`, `FileAgrees`).
- **`IdentityInvariant`: `Spec => []GInv`,** `OneGenerationHolds`, `RebuildIsPureHolds`. Only runs of this
  process put chunks where a migration has wiped (`StartupAgrees`); a run past its reconciliation works under a meta its own
  process would write, whatever is restamped beside it, and staging holds its own chunks only (`RunAgrees`). The proof
  shows that every way to a disagreement between meta and chunks is one of those that `mixed` records.
- **`WatcherInvariant`: `Spec => []WInv`,** `OneRetryLoopHolds`, `StopIsFinalHolds`. The two wait groups count
  callbacks and goroutines; `retryActive` belongs to the one callback or loop that set it
  (`RetryOwned`); and a stop that is past a stage finds those counts at zero and `stopCh` closed for
  good (`StopOrder`).
- **`LInvHolds`, `OneRegistryHolds`, `ConnectedIsAuthorizedHolds`, `RacesAreHarmlessHolds`** (`Launch`). That two
  daemons have no registry at once needs that a daemon holds `daemon.lock` from loading
  to the end of its close, and that whoever listens serves. That tokens agree needs that
  one process at most is between creating and syncing the file, and that every token in
  use is the one in the file; `LInv` says both. A withdrawn token is the exception the code has.
  `Undisturbed` adds what holds while there is no mishap: a daemon that serves listens,
  a client that waits has a daemon that serves or is coming up, an empty token file has its writer.
- **`StdioInvHolds`, `OneServerHolds`, `BystandersAreSafeHolds`** (`Stdio`). A remembered target is
  an id with the start time of a process the scan may name (`MayStop`); ids are unique among the living, and every signal
  re-checks the start time, so what is hit is that process. `SInv` carries the targets, the lock
  and the uniqueness of ids.
- **`WindowSafety`, `MarkdownSafety`, `FilterSafety`, `SettingSafety`** (`Algorithms`), for inputs of any
  length and settings of any text, with `SameWindows`, `BudgetedWindows`, `CutDocuments`, `GlobbedHits`
  and `FilteredAnswer` behind them. The prover has no induction over data, so it is built: a set of
  numbers that is closed upwards from 0 has them all (`UpwardInduction`, `MeasureInduction`, from the
  library's well-founded minimum over sets), and a recursive function has the value its
  definition says when each value is made from values at inputs of smaller measure
  (`FixedPoint`, `OnlyFixedPoint`); one lemma per recursive function (`...Def`) says so of it.
  The readers agree because what each makes of the rest of a file from a line on is the same list
  (`ReadersAgree`, `StreamEnds`, `SlideAsStream`). A budget loses no line because a window that is cut short
  leaves the next one to begin within or right behind it. The doubling search
  fetches prefixes, and the first matches of a prefix that has enough are those of the whole (`ExpansionSeesAll`).
  Ranking again is a permutation because the places the hits take differ and there are as many places as
  hits (`PlacesDiffer`, `EveryPlaceTaken`). The markdown parser takes a line in one of four ways
  (`Takes`), and each keeps `Collected`, `Placing` and `Nesting`: what is collected is the run of lines behind
  the segments and only its first can be a heading; a table is a run of rows; the stack has the
  heading in force at each level.

Model-checked only: the liveness properties (`NobodyWaitsForever`, `RuntimeIsTornDown`,
`ShutdownAlwaysReturns`, `StopReturns`, `EnsureRunningReturns`, `OrphansLeave`), which need ENABLED and are out of the
prover's reach, and `SplittingIsSound`, whose algorithms recurse over texts and trees. Every other property of a passing run is a theorem.

## 6. Not modelled

- Registry: the resource statistics and listings (they read only); the paths of
  a panic in `initWorkspace` are those of an error.
- Run: percentages and file lists in the progress; the build without the native library, whose
  operations all fail; a torn last line of `cleanup.jsonl`; an edit that falls
  between the stat and the hash of one file.
- Lock files: `LiveHolder`, `Heartbeat`, the format of the payload; two goroutines of one process that
  use `projects.lock` in the same second write the same payload, which the model keeps apart.
- Service: the wipe of a startup migration under a run that the watcher has started meanwhile, which is in `Identity`, where there
  are no handles; listing and outline requests; requests in flight when the HTTP listener stops.
- Projects: listing, linking of existing ids, the text of a registration.
- Stdio: the Windows variant (whose second scan matches the PowerShell launcher `run-mcp-stdio.ps1` only), launch chains longer than one, the stop command, `RecoverInterrupted`.
- Configuration: the merge of profiles and languages, path normalisation; settings
  are taken one at a time.
- Chunkers: parsing by tree-sitter, the region lines of BSL that the walk skips (`engine.go:188-190`), `.dcs` files, the texts of symbols and headers.
- Path globs and version comparison are string processing that unit tests enumerate.
  Embedding clients and the encoding of HTTP and MCP requests are I/O whose failures the modelled
  components meet as nondeterministic outcomes. Crash reports, logging and redaction
  write text. Smoke checks and release scripts drive the binaries from outside.

## 7. Plan

1. A refinement with proof: an abstract index (what search may find after a clean run) that
   `IndexRun` implements.
2. `Service` behind the handles of `Registry`: that a lease is what `Leased` assumes.
3. The cutting of prose and the walk over a syntax tree as recursive functions, and their proofs.
4. Larger instances where time allows: two searches in `service`, a third client in `launch`.
