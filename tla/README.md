# A verification project for the KBO workbench

The KBO workbench collects play-by-play of Korean baseball games, keeps every
ledger it ever held as a file, lets a person correct it, and imports the
result into PostgreSQL as sealed revisions that analyses are computed from.
This directory holds TLA+ modules of the parts of it that are hard to get right,
TLC configurations that check them on small instances, and TLAPS proofs of what
matters most. `PROJECT.json` ties every definition to the lines it models.

Contents: [the system](#the-system), [the plan](#the-plan),
[WorkspaceStore](#workspacestore), [RevisionStore](#revisionstore),
[ImportJobs](#importjobs), [CorrectionSessions](#correctionsessions),
[the product runs](#the-product-runs), [workers](#the-workers-mcworkers),
[services](#the-services-mcservices), [runs](#runs-and-bounds),
[disagreements](#what-the-code-does-and-its-documents-deny),
[proofs](#proofs), [not modelled](#what-is-not-modelled).

## The system

One Node process (`apps/server`) serves an HTTP API to a React client
(`apps/web`). It owns a workspace directory and talks to one PostgreSQL
database. Concurrency is that of one event loop, whose requests and jobs
interleave at every `await`, plus worker threads for computation and,
at times, a second process on the same directory.

| component | state | operations | what makes it hard | what makes it correct |
|---|---|---|---|---|
| staging workspace (`packages/persistence`: `staging-workspace.ts`, `workspace-*-store.ts`) | per game: `active/`, `current/`, `superseded/`, `original/`; `journals/` | saveReady, saveQuarantine, saveSourceFailure, commitCorrection, restore, drafts, removeImportedStaging, open | several files per change, crashes between them, requests that overlap | the manifest always resolves; nothing complete is lost; edits are not overwritten; a crash is repaired |
| workspace caches (`workspace-catalog.ts`, `workspace-validation-pool.ts`, `bounded-read-cache.ts`) | dirty generations, pending loads | invalidate, snapshot, load, clear | a load in flight when its source changes | no answer older than the invalidation before it |
| collection jobs (`collection-job-manager.ts`, `collection-workspace.ts`) | jobs, queue, events, job journals | create, pump, cancel, restore, close | cancel against start, crash between result and journal | every job ends once; a finished game is not collected again |
| import jobs (`import-job-manager.ts`, `import-workspace.ts`) | jobs, batches, idempotency keys, history | create, select, run, cancel, reconcile, restore, close | crash after COMMIT, failing history file | no import runs twice; success is reported iff the revision is sealed |
| revision store (`revision-store.ts`, SQL) | sealed revisions, projections | importRevision, list | two transactions, a lost COMMIT answer | revisions of a game are a chain |
| correction sessions (`correction-session-*.ts`) | sessions, versions, undo stacks, mutexes | create, preview, apply, undo, redo, commit, delete | requests that queue on a session's mutex, eviction | a stale version is refused; no edit is lost |
| record correction (`record-correction-*.ts`) | jobs, seasons, assessments | create, cancel, sync, assess | database and memory disagree after a failed call | one sync per season; a job's row ends |
| computation (`computation-pool.ts`, `pitch-clustering-workers.ts`) | queue, slots, timers | run, reply, timeout, cancel, close | late replies, dying workers | each caller gets one answer, its own |
| analysis jobs (`analysis-model-job-manager.ts`, `analysis-coverage-job-manager.ts`) | tasks, queue, worker | ensure, dispatch, cancel, close | cancel before the worker is recorded | one training at a time; bounded queues |
| game core (`packages/game-core`) | outs, bases, score, count | reduce, compile | rules with many cases | score and bases follow from the plays |
| correction commands (`packages/correction`) | the draft ledger | apply, preview | a command on the wrong base | a command changes what it names |
| collection adapters (`packages/collection`) | HTTP client | fetch, retry | timeouts and redirects | a request ends |
| routes, startup, shutdown (`app.ts`, `runtime.ts`, `main.ts`) | open services | start, close | close order | no job outlives what it uses |
| web client, contracts, SQL reads, maintenance, notebooks | none the server relies on | | | |

How they meet. A *collection job* takes a token of the game's manifest, reads
the source, and saves under `withGameOperation`. An *import job* passes
the same gate, commits a revision and then removes the imported ledger from
staging. A *correction session* edits a copy in memory and commits it through
`commitCorrection`, which does not pass the gate. All of them change files by
one procedure, `transitionCurrent`, whose per-game promise chain
serialises them. The *revision store* is written by imports only. Record
corrections read sealed revisions and propose corrections, which become
sessions. Every job manager keeps history in files and is restored from them
at startup, after `StagingWorkspace.open` has repaired the directory.

The hazards, each at its line and with the properties that would catch them, are in
`PROJECT.json`.

## The plan

In this order, since everything else relies on the files:

1. `WorkspaceStore` with the abstract `EvidenceLedger` it implements, and its
   proofs. *Done.*
2. `RevisionStore` with the abstract `RevisionChain` it implements, and its
   proofs; `ImportJobs` on top of `RevisionChain`. *Done.*
3. `CorrectionSessions`: mutex, versions, histories, limit, eviction and commit,
   and its proofs. *Done.*
4. `CollectionJobs`: pump, cancel, per-game results, journals, restart; then
   `CollectionDiscoveries`, and the files beneath (`CollectionResults`,
   `CollectionHistories`). *Done.*
5. The smaller services, one module each: `ComputationPool`, `PitchClusteringWorkers`,
   `BoundedReadCache`, `WorkspaceCatalog`, `ModelJobs`, `CoverageJobs`,
   `RecordCorrectionJobs`, `RecordCorrectionCases`, `HttpTransport`, `WriterLock` (with its
   proof) and `WorkspaceMigration`. *Done.*
6. The pure parts: `MovementEngine` and `GameCompiler`, `LedgerCorrections` (each with
   its proofs). *Done.* Left: the matching of notices against a reference definition.
7. More theorems: `RoomAndBaseHold` of the sessions; `SupersededRestorable`, what
   `WorkspaceGated` checks and what `WorkspaceCorrection` does
   (`WorkspaceStoreProofs`); `CatalogIsShared`; `ImportJobs` (`ImportJobsProofs`);
   record corrections and the migration (`ServicesProofs`); the pools and queues, model jobs,
   discoveries and HTTP attempts (`WorkersProofs`); the collection jobs (`CollectionProofs`); the
   caches (`ServicesProofs`); the game core (`GameProofs`). *Done.*

How they compose. `EvidenceLedger` and `RevisionChain` are the interfaces: a
module that uses the workspace or the database relies on the abstract module,
and the proof that the detailed one implements it is what carries its
properties over. `ImportJobs` INSTANCEs `RevisionChain`. `CorrectionSessions` keeps a model of the
workspace as small as what a commit tells apart; `WorkspaceStore` has the steps.
`GameCompiler` EXTENDS `MovementEngine`. `MCWorkers` and `MCServices` put the modules that
share no state side by side.

## WorkspaceStore

State and code:

| variable | in the code |
|---|---|
| `active`, `activeFindings` | `active/<gameId>/…` documents, and which have their `.findings.json` |
| `superseded`, `supersededFindings` | the same under `superseded/` |
| `current` | `current/<gameId>.json`, the manifest |
| `original`, `originalFindings` | `original/<gameId>…` |
| `transitions`, `corrections` | `journals/transition-*.json`, `journals/correction-*.json` |
| `mode` | open, `StagingWorkspace.open` at work, or refused to start |
| `pc`, `op` | where each request awaits, and its locals |
| `gate`, `chain` | promise tails of `withGameOperation` and `transitionCurrent` |
| `starts`, `crashes`, `faults` | how much of the bounds is used |

Requests are of seven kinds: `collect`, `fail` (a source failure), `import`
(its cleanup), `reopen` and `ensure` (saveCorrectionDraft and
ensureCorrectionDraft), `correct` and `restore` (commitCorrection on current
and on a superseded snapshot). They share the tail of the procedure:

    token -> gate -> check -> original (findings, document, read back)
      -> correction journal -> read current -> scan active -> document -> findings
      -> chain -> transition journal -> manifest -> archive document -> archive findings
      -> remove transition journal -> remove correction journal

One action is one stretch of code between two awaits at which another request
could make a difference. `Fault` is a file operation that throws and takes
the request with it; `Crash` ends the process between any two steps; startup then
replays transition journals, then correction journals, and checks integrity.

Abstractions.

- *One game.* All paths contain the game ID and both queues are keyed by it, so
  games share no state here but the limit on concurrent jobs.
- *Contents.* A `Document` stands for a contentHash: a ledger with its findings.
  `DocumentHash` maps those that differ in findings alone to one ledger. What a
  content is (ready, quarantined, failure) follows from it. `updatedAt` of the
  manifest is dropped, so a token also matches a manifest rewritten to the same
  artifact: more behaviours than the code has, never fewer.
- *Findings.* A sidecar is there or not; a missing one with findings expected
  is the hash mismatch of `readVerifiedFindings`.
- A directory scan is one step, as are the two reads commitCorrection makes in
  a row. The database transaction of an import, inside the gate, is one step
  that may refuse: its effect on the files is the cleanup after it.
- Correction and transition journals have unique names.

`EvidenceLedger` is what the workspace promises: a set of entries that only
grows and a head that moves to a stored entry or to none. `entries` is `Kept`
(artifacts complete in either directory, a sidecar in transit counted), and
`head` is `current`.

## RevisionStore

`GameRevisionStore.importRevision` runs one PostgreSQL transaction, and any
number of them at a time. An action is one statement that can wait for another
transaction or whose outcome another one can see; statements between them that
touch only rows of the revision being made are part of the next.

| variable | in the code |
|---|---|
| `current`, `revisions`, `catalog` | committed rows: `workbench.games`, `workbench.game_revisions`, and `catalog.*` (seasons, teams, players) |
| `pc`, `doc`, `revision`, `left` | how far each `importRevision` is, its document, `nextRevision`, players not inserted yet |
| `row`, `inserted` | who holds a game's row, and who has inserted a catalog row that is not committed |
| `bundleLock`, `choices` | the advisory locks of the player heights, per source bundle and per season |
| `answer` | what the last import of a client returned, or that it threw |
| `imports`, `lost` | how much of the bounds is used |

The steps of a client, in order:

    heights (bundle lock) -> lock (SELECT ... FOR UPDATE, check of the base)
      -> insert (the first revision's INSERT INTO games)
      -> season -> away -> home -> players (sorted by name)
      -> choices (season lock) -> commit

`Awaited` states who a statement waits for. It follows READ COMMITTED, the
isolation `importRevision` uses: a SELECT FOR UPDATE does not see a row that another
transaction has inserted and not committed, while an INSERT of the same key waits for
its fate. So two first imports of a game both find no row, and it is the INSERT that
decides between them. `Rollback` is the `catch`, `Fail` any statement that
throws (or a process that dies), `EndDeadlock` PostgreSQL's way out of a cycle,
and `Commit` may lose its answer, in which case the import throws although
the revision is sealed.

`RevisionChain` is what the store promises: `Append` adds the revision a document is
meant for, if what it was made from is current. Refinement is by variables
of the same name.

Abstractions: a document with blocking findings is rejected before the
transaction and left out. Facts, their verification and the seal are one step
with the COMMIT that makes them visible. A team and its entry in the season,
inserted together, are one key.

## ImportJobs

`ImportJobManager` and the files of `ImportWorkspace`. A job may be worked on by
several tasks at once: its `run`, a `reconcile` or `cancel` request, `close` and
`restore`. An action is what a task does between two awaits.

| variable | in the code |
|---|---|
| `jobs`, `queue`, `closed` | `jobs`, `pendingJobIds`, `closed` |
| `creating` | the creation that `creationTail` lets through, while it is saved |
| `closing`, `todo` | how far `close()` is; what `restore()` has yet to look at |
| `pc`, `saving`, `gate` | each task's await; the record it is writing; the queue of `withGameOperation` |
| `files`, `intents` | `imports/jobs/*.json`; the jobs of `imports/batches/*.json` |
| `selection`, `picking` | a confirmed selection; one being confirmed |
| `staging`, `announced` | the ready document of a game; documents `onSucceeded` was called with |
| `current`, `revisions` | the database, by `RevisionChain` |
| `mode` | open, restoring, refused to start, down |
| `crashes`, `faults`, `lost`, `edits` | how much of the bounds is used |

    create or createReadyBatch -> Register -> schedule -> save "running"
      -> gate -> Check (document, hashes) -> save target -> Import
      -> save "succeeded" -> remove from staging -> announce -> save follow-up

`Caught` is the `catch` of `run`, `Broken` the `catch` of `schedule` (the
history cannot be written: the manager closes and cancels what waits, in memory),
`Crash` may leave the record being created on disk or not, and `RestoreJob`
compares each unfinished job with the database. A record is captured when
its write begins, as `structuredClone` in `snapshot` does, so an older one may
land after memory has moved on.

Abstractions. A game's staging is one document and its removal one step:
`WorkspaceStore` has the steps. An import is one step that appends, refuses, throws, or
appends and throws: `RevisionStore` has its steps, and `ImplementsChain`
is what allows this. A selection, once confirmed, is never changed, so one is
enough; its expiry is left out.

## CorrectionSessions

`CorrectionSessionManager`, `CorrectionSessionStore` and its `AsyncMutex`. A session is
a copy of a game's ledger in memory. An action is what a request does between two
awaits.

| variable | in the code |
|---|---|
| `sessions` | `sessions`, each an `InternalSession`: document, base, authority, version, `undoStack`, `redoStack` |
| `idle` | sessions whose `accessedAt` is 30 minutes old |
| `mutex` | `mutexes`: the promise tail of each session, as the queue of the requests on it, holder first |
| `used` | IDs `newId` has given |
| `pc`, `req` | each request's await, and its locals (the session it creates, or the version it expects) |
| `ledger`, `superseded` | what the workspace holds of the game |
| `writer`, `writes` | who wrote `ledger` last and was told so; how much of the bound is used |

    makeRoom -> read the ledger -> compile -> makeRoom, add
    ask -> wait for the mutex -> requiredVersion and the operation's checks
      -> compute, or compare the base and save -> change the session -> release

`Evicted` is what `makeRoom` recycles (no unsaved edit, nobody on the mutex, idle),
whether or not it finds room afterwards. A preview takes the lock like an edit.
`loadOriginal` is an edit whose result is a document of the workspace. `Fail` is an awaited call
that throws. A commit that fails after the files are current (`Save`, second disjunct)
leaves the session on its old base, so its next commit is refused as stale.

Abstractions.

- *One game.* Sessions of different games share the limit and nothing else.
- *Contents.* A document is a hash; `Blocking` says which have blocking findings, those
  the session stored included.
- *The workspace.* A commit is a comparison and a save, with other writes in between:
  the order in which `CorrectionOverwrites` shows a collection lost, so no property
  here claims the ledger a commit replaces is its base. Deleting a
  session and its mutex is one step: a request that finds the mutex of a session
  that is gone is refused as one that finds none.
- *Versions.* Of the versions a client may have seen, the last but one stands for
  all stale ones. An ID is never given twice.
- `get`, `original` and `sourceEvidence` only renew the last access. `close()` and
  the cache of source bundles are left out.

## The product runs

The services below share no state with each other in the code. `MCWorkers` and
`MCServices` therefore put several of their modules side by side: a variable `part`
chooses, in the initial state, which of them moves, and the others stay in their
initial states. Nothing is lost by that, since no step of one could enable, disable or
change a step of another, and no property relates two of them; their state spaces are
added, not multiplied. A part that does not move has none of its fair actions enabled, so
its fairness is kept by standing still.

Where the code composes them they meet through what one awaits of the other, which is
one step here: what the pool computes, what a collection saves (`WorkspaceStore` has the
steps), what a training publishes.

## The workers: MCWorkers

### ComputationPool

`computation-pool.ts`, the sender of `worker-row-transport.ts` and the loop of
`computation-worker.ts`. `outcome` and `answer` are what the promises of `run()` became,
`queue`, `slots`, `job` the pool's queue and the requests of its workers; `sent`, `box`,
`partial` and `reply` are the messages either way, chunk by chunk; `ending` the workers being
terminated, `pumping` the synchronous `pump()`. `Drop` is a cancellation, a timeout or a
failure to post, `Die` the error or the exit of a worker, `Receive` a reply, also one that was
posted before the worker was terminated. What is computed is a choice between an answer and
an error.

`PoolKeepsRequests`: a request that waits is in one place; a reply on its way answers the
request its worker has; nobody waits while a worker is idle. `PoolAnswers`: every request ends.

### PitchClusteringWorkers

`pitch-clustering-workers.ts`: a thread per `fit()`. Timeout, message, error and exit are
separate events (`TimedOut`, `Post`/`Message`, `Break`, `Exit`), and only the exit answers.
`FitKeepsCalls`: two threads at most, nobody waits while a place is free, and no call whose time
is over is resolved although its result came. `FitAnswers`: every call ends.

### CoverageJobs

`analysis-coverage-job-manager.ts`: `tasks` is its Map in order of insertion, `scopes` the
queue, `preparing` the one that runs. A failed task stays until it is asked for again or a new
one needs its place. `TasksArePlaced`, `TasksEnd`.

### ModelJobs

`analysis-model-job-manager.ts`, `model-training-runner.ts`, `analysis-model-service.ts` and
the journal. `current` is the job object of `run()`, `latest` what the manager answers with,
`journal` what is on disk; `stage` and `step` are where the loop awaits, `fitting` that the
write of a training's phase is in flight beside it. Trainings of two kinds, the second made
from the first; `sources` may change at any time.

`EndsAreKept`: nothing that was still being written comes after the end of a job, on disk or
in memory. `SuccessIsCurrent`: a job that succeeded left every model made from sources at
least as new as the job, and the last one from the one published before it. `ModelJobsEnd`.

### CollectionJobs

`collection-job-manager.ts`. `jobs` and `snapshots` are the manager's, `writes` the chain
of `saveHistory` calls of a job (a record is a copy made by `emit`), `histories`, `targets`,
`results` and `journals` what is on disk, `collecting` where `run()`, `create()` or `cancel()`
awaits. A collected game is one step that succeeds, is skipped or fails. `MCServices` runs the
three scopes, shared keys and failures, `MCWorkers` one job with fairness.

`CollectionIsTold` = a job that ended has a result for each of its games and counts them
(`EndIsComplete`), a client is told of nothing that is not on disk (`EventsAreOnDisk`), what
rests is on disk (`RestIsOnDisk`) and a key has one job (`KeyHasOneJob`). `CollectionEnds`.

### CollectionDiscoveries

`collection-operations-service.ts`, explorations of the schedule. A discovery is the call of
`create()` that makes it; `creation` is the chain of such calls, `discoveryTasks` the service's
Map in its order, `discoveryRuns` how far `run()` is, `cancelling` each call of `cancel()`.
Every save may fail, and a crash may come between any two steps; a restart fails what had not
ended.

`DiscoveriesHold`: one explores at a time, a key has one record, and one that succeeded has all
its entries on disk. `DiscoveriesStand`: an end is never taken back. `DiscoveriesEnd`: every
discovery and every `close()` ends, but for those that a failed save of the end leaves to the
next restart (see below).

### HttpTransport

`http-transport.ts` and the client of Naver. `limiter` is the promise chain through which
attempts begin one interval apart, `httpTimer` the delay, timeout or pause of each request.
Time is counted in units, and a timer that is due runs at some later step.
`StartsAreSpaced`: attempts of all requests begin an interval apart, none of them for an
aborted one, none beyond the last. `RequestsEnd`: whatever the source does and whoever aborts
while waiting for the limiter, every request ends.

### WriterLock

`acquireWriterLock` with `open`, `close` and `verifyLock` of the workspace. `lockFile` is
`.writer.lock`, `existing` the owner a process has read. Three processes of one host start,
die between any two steps and take over the lock of a dead one; the third has the identifier of
the first, as in a container that starts again. `WritersAreApart`: no two write at once, and
none whose lock is not there, unless a process moved a lock that is not the one it had read
(`overtaken` records whose; see below).

## The services: MCServices

### BoundedReadCache and WorkspaceCatalog

`bounded-read-cache.ts`: `entries` is the Map in its order, `inFlight` the Map of pending
loads, `loads` all loads that were ever started. `CacheIsBounded`: bytes are counted right and
bounded, the oldest goes first, a key has one load per generation, nothing loaded before
`clear()` is kept after it.

`workspace-catalog.ts`: `items` is the index, `dirtyAt` its dirty generations, `batch` and
`opened` the reads in flight, `transitions` and `chained` the transitions of
`staging-workspace.ts` that invalidate it. `CatalogIsCurrent`: no answer is older than what was
finished when it was asked for.

### CollectionResults and CollectionHistories

`collection-workspace.ts`: two caches in front of files that versions, not locks, keep from
being stale. `save`/`record` are the writes in flight with what they saw first, `fetches`/`reads`
the reads of a whole directory, file by file. `ResultsShowDisk`, `HistoriesShowDisk`: with no
write under way the cache is what is on disk, and no answer lacks what was saved before
the question.

### RecordCorrectionJobs

`record-correction-job-manager.ts` and its rows. `runRows`, `seasonRows` are PostgreSQL's, the
others the locals of `create()`, `run()`, `cancel()`, `close()` and `start()`, one action per
query. `SeasonsAreApart`: no two jobs import one season at a time. `EndIsTold`: the end of a
run says what was done, after restarts too. `EndedRunsStay`.

### RecordCorrectionCases

One notice of one season (`contents`: what each sealed revision of the season says), its case
and one game's revisions. `assessing` are the locals of an assessment, whose reads and
transaction are separate steps; `applying` those of `applyProposal`. The season may be imported
again, the game too, and a reviewer decides in between. `CasesAreSound`: a case that is
resolved is satisfied by the current revision, and each notice in force has a case in the
list; `raced` sets apart the writes that are about a notice that has changed meanwhile, which
`CaseResolvedUnsatisfied` shows. `DecisionsStand`: a decision stands until a reviewer takes
another, the notice changes, or the game resolves an open case.

### MovementEngine and GameCompiler

`MovementEngine` holds the operators of `movement-engine.ts`: the order the rows of a play are
placed in, and what they make of outs, bases and runs, or their refusal. `GameCompiler` is the
reducer around it: half starts, batters, pitches by what they do to the count,
substitutions, plate results and runner plays, with who is responsible for a runner. An event
whose findings block leaves everything as it was and is no step.

`RunnersAreKept`: whoever came to bat in a half is on a base, out or home, and nobody is twice.
`RunsAreCharged`: each run is in the line of one batter and one pitcher.
`StrikeoutsAreOwed`: a strikeout is charged to who had two strikes. `OrderDecidesNothing`:
a play comes out as its rows in their order would. `ChoicesKeepWhatIsOwed`: on a fielder's
choice the earlier pitchers go on owing as many runners as before.

### LedgerCorrections

`packages/correction`: commands on rows and on tracking candidates, alone or in a batch that
is answered as a whole or not at all. A document keeps the order and kind of its rows and the
resolution and plate appearance of its candidates; the plate appearance a pitch is thrown in
is a function of the rows. `LinksStandOnPitches`: nothing leaves a candidate linked to a row that is
gone or is no pitch. `ContextsFollow`: a candidate that named its pitch's plate appearance names it
after the call, duplicates included, unless the batch had reconciled it before.

### WorkspaceMigration

`workspace-migration.ts` beside the server. `legacy` and `archive` are files, with what is in
them, `artifacts` and `manifest` what a game has in the new layout, the two sets of journals
those `open()` replays, `run` the locals of each execution. Two executions look at the same
files before either takes the lock, and any may die at any step. `MigrationIsSound`: a current
manifest names an artifact that is there, and a finished run leaves the server nothing to
refuse. `MigrationLosesNothing`: nothing of the old layout is lost, and no step replaces what is
current.

Abstractions of the migration: the server is off while a run looks and until the run has the
lock, which is how it is documented; the recovery of one journal is one step.

## Runs and bounds

Deadlock is never checked: a workspace or server that refused to start has stopped,
and so has one whose starts, imports or jobs are used up. The liveness properties say
what has to go on. Symmetry (of requests and journal IDs) is used in runs
without liveness.

| run | instance | question |
|---|---|---|
| `WorkspaceAll` | 2 requests of all kinds, 3 starts, 1 crash, 1 failed write | Is the current ledger always readable (`CurrentResolves`), what was displaced restorable (`SupersededRestorable`), the original kept (`LedgerHasOriginal`), nothing lost (`LedgerSpec`), and does a collection overwrite only what it looked at (`SaveReplacesItsToken`)? |
| `WorkspaceGated` | collect, fail, import; 2 at once, 4 starts, 2 crashes | Among requests that pass the gate: is the original written once (`OriginalWrittenOnce`) and with its own findings (`OriginalComplete`), does an import remove what it imported (`ImportRemovesItsLedger`), is a quiet directory in order, and can only an unfinished save stop a startup (`WorkspaceReopens`)? |
| `WorkspaceCorrection` | 2 requests that correct or restore ledgers with findings; 3 starts, 2 crashes | Do journaled corrections survive (`JournaledCorrectionSurvives`), does startup refuse the workspace only for an artifact cut off between its files or one saved twice (`CorrectionCrashRecovers`), does it come to an end, is every request answered (`WorkEnds`)? |
| `RevisionRace` | 2 clients, 6 ledgers of 2 games, 3 imports, failures anywhere, 1 lost answer | Are the revisions of a game one chain (`ChainSpec`), is what was answered sealed (`AnsweredIsSealed`), is the catalog complete and what can deadlock (`CatalogIsShared`), and does every import end (`ImportsEnd`)? |
| `ImportTroubles` | 2 jobs of 2 games, 1 at a time; 1 crash, failure or lost answer; 1 edit | Does success mean sealed, with the document asked for (`SuccessIsTrue`), for good (`EndsStay`); does a key name one job, and does history on disk, with the database, survive any crash (`JobsAreRecorded`)? |
| `ImportLive` | the same jobs, 2 at a time, nothing fails | Does every job end, and does `close()` (`JobsEnd`)? |
| `CorrectionSessions` | 2 requests, 2 sessions with a limit of 1, 2 documents, 3 edits, 1 write by others | Do undo and redo follow one path from the base (`HistoryIsConnected`), is the limit kept and a session's own commit its next base (`RoomAndBaseHold`), is no edit lost (`EditsAreKept`), does a stale version change nothing (`StaleChangesNothing`), has each mutex a live holder (`MutexIsPassedOn`)? |
| `Workers` | see below | Is each call in one place, one discovery exploring, one process writing (`CallsArePlaced`); is a model job's end true (`ModelJobsAreTold`), a discovery's for good (`DiscoveriesStand`); are attempts spaced (`StartsAreSpaced`); does everything end (`AllEnd`)? |
| `Services` | see below | Are caches current and bounded (`CachesHold`), reports true (`JobsAreTold`, `CasesAreSound`) and final (`EndsStand`), games accounted for (`GameIsKept`, `ChoicesKeepWhatIsOwed`), candidates with their pitches (`LinksStandOnPitches`, `ContextsFollow`), files kept by the migration (`MigrationIsSound`, `MigrationLosesNothing`)? |

Three more runs, `CorrectionOverwrites`, `ImportRestartBlocks` and
`CaseResolvedUnsatisfied`, expect a violation and are described in the
[next section](#what-the-code-does-and-its-documents-deny).

*Workspace.* `d1` has findings, `d2` a blocking finding, `d3` the ledger of `d1`
with other findings, and there is one failure record `f1` (in `WorkspaceGated` the
blocking finding is `d3`'s, so that two different ledgers can be imported). Two
requests are the least that interleave, and the most the properties relate; the
third and fourth start let a request run over what two others have left
(an artifact reused, a generation skipped). Two crashes put one inside the
repair of the other. Three journal IDs are more than two requests and a crash can
leave, and the generations (five, nine where nothing limits them but crashes) are
more than the starts can use.

*Revisions.* Two first ledgers of one game, two corrections of the first of them
(from one base, with rosters that overlap), and two ledgers of another game
whose teams are the same or change sides, with players in another order. Three
imports let one begin from what two others left; every game may start
with a revision of an earlier process.

*Imports.* Documents are two revisions of one game and one of another, and the
database may start with a first revision. Two jobs are enough for a
batch, a repeated key, and a scheduler that has to choose; one trouble of any
kind at any step, then a restart that may be closed or refused in turn.

*Sessions.* Two requests that create at once, with a limit of one session, are the
least that can exceed it; two on one session are the least that queue. Three edits
reach every shape of the two stacks that an operation tells apart (an undo followed by an
edit, two undos, a commit in between). One of the two documents is blocking.

*Workers.* Pool: 3 requests, one of two chunks, with 2 worker names, 2 at a time and 1 in
the queue: one runs, one waits, one is refused, and a name is used again after its thread has
ended; 1 worker dies or cannot be started. Clustering: 3 calls, 2 active, 1
waiting. Coverage: 5 keys with room for 2 scopes and 4 tasks, so that failed tasks are pushed out.
Models: 2 jobs of 2 kinds, 1 change of the sources, 1 lost write, 1 crash. Collection: 1 job of 2
games, 1 crash. Discoveries: 2 with the same key or different ones, 1 failing save, 1 crash. HTTP: 2
requests of 2 attempts; interval 2, timeout 1 and first pause 1, so that a pause may end before
the limiter is free and after it. Lock: 3 processes, of which the last has the identifier of the
first; two that both see the lock of a dead one are the least that can overtake one another.

*Services.* Read cache: 3 keys, 3 loads of sizes up to one more than the limit, 1 clear. Index:
2 games in batches of 1, 2 transitions each, so that one lands while another is read. Results: 2 jobs with 3
saves. Histories: 2 jobs with a save each. Collections: 3 requests of the three scopes, two of them with one key, 1 at a
time, 1 crash. Notices: 2 jobs that share a season, 1 crash. Cases: 1 assessment at a time with 2 contents, 2 season and
2 game revisions and 3 versions of the case: an import of the season, one of the game, and a decision fit
between any two steps of it. Game: 5 hitters and 2
pitchers a side, one half and the start of the next, 4 pitches, 1 change, 3 plays and 2 runner rows,
which reach a walk, a strikeout with the batter changed, and a fielder's choice with two on base;
the ledger ends with its last play or the play that follows pitches; who comes to bat is the first player
that is free, as players differ in nothing; plays that do not depend on the count come before the first pitch. Corrections: 3 rows and 1
to be added, a tracking candidate and its duplicate, 3 commands in any division into calls: one
moves the pitch, one moves it back or removes its batter, one more repairs. Migration: 2
executions that select one of 3 files, two of which hold one document with different
findings; 1 save and 2 starts of the server.

Fairness. `WorkspaceStore`: each actor's next step and the repair are weakly
fair, which is the event loop: a settled promise is run. It assumes that reading a
source ends, which `HttpTransport` shows of the client. `RevisionStore`: a
transaction that need not wait goes on, and PostgreSQL ends deadlocks; the
failure of a statement is not fair. A queue of waiting transactions needs no strong
fairness because imports are finitely many here, as they are in the process (one
per job). `ImportJobs`: file operations and imports settle, and `close` and
`restore` go on. `ComputationPool` and `PitchClusteringWorkers`: a timer that is set fires, a terminated
thread ends, a message that was posted arrives; a worker need not answer. `CoverageJobs`: a preparation
ends, since the pool answers. `ModelJobs`: writes and turns end, and a training ends at the latest by its
timeout. `CollectionJobs` and `CollectionDiscoveries`: promises settle, and a
process that has ended is started again. `HttpTransport`: time goes by and what is due runs; the source need not answer. Nothing
is assumed of requests, cancellations, closes, crashes and failures. `CorrectionSessions` has
no fairness: `MutexIsPassedOn` says that who waits waits for a request in flight. Since the requests of an instance are
finitely many, most liveness properties say that in the end none waits, `<>[]`, rather than one `~>` for each.

## What the code does and its documents deny

Three runs expect a violation; `PROJECT.json` quotes the sentences they
contradict.

- `CorrectionOverwrites`: commitCorrection compares the base hash, then saves
  without a token. A collection that becomes current in between is overwritten.
- `ImportRestartBlocks`: `restore` asks for the revisions of the game of every
  unfinished job, and `revisions` throws for a game that has none. After a
  crash with a queued batch, or within the first import of a game, the server
  does not start.
- `CaseResolvedUnsatisfied`: approvals and assessments are written to the case of a
  notice by its ID. When the season is imported in between, they are about
  the notice before, and a case is resolved by a document that does not satisfy it.

What follows was met while modelling, and the models contain it: the properties name the
exception, or a run is restricted to where it cannot happen.

*Workspace.* Opening a draft does not pass the gate: it and a first
collection may both find no original, and the second to write wins (hence the kinds of
`WorkspaceGated`). The cleanup of an import reads the manifest again after the hash was
compared, and removes an edit that came in between. A crash between document and findings file,
within a correction of a ledger with findings, leaves an artifact that the replay
of the correction's own journal refuses: the server does not start. Nor does it when three
corrections overlap, two of them to one ledger which they save under two generations, and the
process dies before both artifacts are archived: `reusableActiveDocument` throws for the second
(`staging-workspace.ts:853-858`). `CorrectionCrashRecovers` names both (`Intact`, `SavedTwice`).

*Revisions.* The order in which an import inserts catalog rows is one order but for teams, whose
rows are inserted as away and home: first imports of games in which teams go round (two change
sides, or A at B, B at C, C at A) can wait for one another, and PostgreSQL fails one.
`DeadlockNeedsTeamCycle` says that there is no other deadlock.

*Imports.* After a lost COMMIT answer a job says `failed` though its revision is sealed (therefore
`lost = 0` in `SealedIsReported`); a job created while the history fails
stays queued until the next start; a `reconcile` that overlaps the last save of
`run` can leave an older follow-up state on disk (which `HistoryAgrees` does not compare).

*Writer lock.* Two processes that both saw the lock of a dead one can both go on: the
rename of `workspace-files.ts:35` moves whatever lock is there by then. The one that lost
its lock writes no more once `verifyLock` says so, but may be within a write. A process that dies between making
the file and writing it leaves an empty one, which `readWriterLock` refuses at every later start. A
process of another host loses its lock by design; the model has one host.

*Model jobs.* A failed journal write leaves `running` on disk while the job is reported as
failed; a later job hides it (`EndsAreKept` exempts jobs whose last write failed).

*Record corrections.* Two creates of one season at once leave the second's row `queued` when `launch` throws, and
after a restart it makes `start()` throw. A crash between `markSeasonFailed` and `finishJob` lets
the run end as `no_change` or `succeeded` (`record-correction-jobs.ts:98-106`). A job that is launched
after `close()` runs on. `setJobRunning` writes over `cancelling`.

*Discoveries.* When the save in the `catch` of `run()`, or its last one, fails, nobody handles
the rejection (`collection-operations-service.ts:155-167`) and the process ends; unless a `cancel()`
or `close()` awaits it: then that call rejects, the record stays `running`, and those queued behind it wait for the next
restart. A queued one that is cancelled and cannot be recorded waits for it as well.

*Corrections of a ledger.* A batch that reconciles contexts and then moves rows leaves a candidate on
the plate appearance it was reconciled to, against docs/correction.md ("이벤트 추가·삭제·교체·이동
전후에 candidate가 같은 실제 투구에 계속 연결되고 …"): `repaired` names these. Duplicates of
duplicates are not excluded with their pitch.

*Game core.* A runner without a row is removed silently when another runner's rows of one play pass
over his base and leave it (`movement-engine.ts:131`; docs/game-core-rules.md:28-29 says otherwise):
`RunOver` counts them. Rows are ordered before they are placed, which changes no result. After a third out by a runner alone the
active plate appearance still compiles. A `safe` at home, a batter who is already on base, and the
time-play rule of docs/game-core-rules.md:88 and :97 are as the code has them. With two retired runners
of an earlier pitcher one inherited place can be lost.

*Migration.* Files are looked at before the lock is taken (`workspace-migration.ts:112`, `:159`), so a
server that runs meanwhile breaks it; the model has it stopped, as documented. Discarded files of one document
with different findings share a name in the archive (`:572-582`). Two executions with different resolution files
can each make their choice current: when one dies after its journal and the other completes, the repair
puts the first's choice back. A crash between archiving the
selected and a discarded file (`:173-178`) leaves the discarded one alone, which every later execution
and the server refuse. The journal of a manifest upgrade that is left behind, with a new
`updatedAt` from a later execution, stops the start (`workspace-current-store.ts:257-271`).

## Proofs

`WorkspaceStoreProofs` holds theorems for any number of requests, artifacts, journals, crashes and failures, from the
assumptions on the constants in `WorkspaceStore` (contents are documents or
failures, `None` is none of them, startup is no request, bounds are naturals).

- `TypeCorrect`, `CurrentAlwaysResolves`. `CurrentResolves` alone is not
  inductive: archiving removes an artifact from `active`, so that artifact
  must not be the current one. `Displacing` says so. It stays true only
  because no other request moves the manifest in the meantime, which is
  `Exclusive` (whoever is between journal and its removal heads the chain, and
  startup runs alone), and because the fields a step uses are set, which is
  `WellFormed`. `IInv` is their conjunction with `TypeOK`.
- `OriginalAlwaysKept` rests on `OriginalFirst`: as long as there is no original
  there is no document anywhere, in a directory, a journal, or a request
  past the original's step.
- `SavesReplaceTheirTokens` rests on `TokensFixed`: from the second look at the
  manifest on, what a collection will displace is its token.
- `ImplementsLedger`: each step is one of `EvidenceLedger` or stutters.
  Writing the last file of an artifact is `Store`, `Point` is `Move`, and
  archiving stutters because both halves of a move keep `Kept`.

Its second part is about what a crash leaves behind. `IInv` goes with each of its
invariants.

- `SupersededAlwaysRestorable`: `ArchiveInv`. Who archives an artifact has a transition journal
  until it is unlinked, and by then both files have been moved (`Replacing`); journals of two
  requests differ, and no journal displaces its own target (`JournalsReplace`), so that none
  takes back what another has archived.
- `JournaledSurvives` (every kind of request, failures and crashes included): `SurviveInv`. A
  journal has one request at work on it (`OneOwner`), which saves the ledger in the journal
  (`Carries`), so startup finds it current when it removes the journal.
- `OriginalAlwaysComplete`, `OriginalIsWrittenOnce`, `ImportsRemoveTheirLedgers` assume
  `OnlyGated`: requests are collections, failures and imports, the setting of `WorkspaceGated`. By
  `GateInv` one of them at a time is past the gate; `KeptInv` is what it knows of the original and
  of the ledger it has imported. With drafts they are false (see above).
- `Reopens` assumes `NothingFails` as well. `ReopenInv` says for each await which journal and
  artifacts a crash at it would leave (`Phase`), and that what startup finds is one of two things: an
  artifact newer than all others, or the one journal whose rest it can do (`Resumes`).
- `CrashesRecover` assumes `OnlyCorrections` (commitCorrection alone, as in `WorkspaceCorrection`,
  not gated) and `NothingFails`. Corrections overlap, so an artifact in `active` may belong to any
  of them: `Accounted` says that each is either saved twice, or in a correction journal whose
  replay finds it again, or about to be archived. `OneTransition`: the chain lets one transition
  journal exist, and its rest can be done. `Replaying`: while startup replays, nothing it has
  read changes.

`RevisionStoreProofs` does the same for `RevisionStore`: any number of clients,
games, ledgers, failures and lost answers, from the assumptions on the
constants there (players are numbered by name, locks of different kinds have different
keys, an import that threw is no revision).

- `Numbered`, `ImplementsChain`, `Answered`. That a commit appends to the chain
  needs what the check before it saw to be still so at COMMIT. `HeldRow`
  says why: whoever is past the check holds the game's row, and what it has
  checked holds as long as it does. The first import of a game checks before it holds
  anything: `NewGame` keeps what it found until its INSERT, which succeeds only if there is
  still no game. `HasDocument`
  says that a working client has a document, and `IInv` adds `TypeInv` and
  `RevisionsAreNumbered` itself, since the next number is free only because of it.
- With `HeldRow`, `Commit` is `Append` of `RevisionChain`, and every other step
  leaves its variables alone.
- `CatalogShared`. A row of the catalog that another import has inserted is nobody's until
  that import commits, and may be gone. `SeesRows` says that what an import is past is committed or
  its own, so its COMMIT leaves nothing out. `LocksInOrder` says which locks a transaction can hold
  at each step; whoever is waited for is then at a later one (`WaitsForFurther`), or at a
  greater player, of whom there are finitely many, or at the same step with the home team
  of one the away team of the other. This is where the property was found to be wrong for three
  imports: two teams that change sides are not needed.

`CorrectionSessionsProofs` does the same for `CorrectionSessions`: any number of requests,
sessions, documents and edits, from the assumption that `None` is none of them and the
bounds are naturals.

- `HistoryConnected`. What an operation read before its await must still be so when it
  changes the session. `Owns` (who works on a session has its mutex, and the session has the
  version it came for) and `Fits` (the entry it computes is still the top of its
  stack, or starts at the document shown) say so. They survive the other requests because two
  cannot head one queue, because recycling spares a session somebody is on, and because an ID is
  not given twice (`OpenIsUsed`). The lemmas before it say what pushing and popping do to a
  connected path.
- `VersionsAreGuarded` follows from `Owns`. `EditsKept` and `MutexPassedOn` need
  `QueuesMatch`: a queue is made of the requests in flight on its session, each once.

- `RoomAndBase` adds to that invariant. `RoomInv` says that the open sessions are finitely many and within the limit, that a
  session's own commit is its next base, and that the session which wrote the ledger has a
  used ID. `Add` alone opens a session, and it looks for room again after the awaits of `Create`; an
  ID that is not given twice cannot make another session the writer's; an edit leaves the base alone.

`ImportJobsProofs`: any number of jobs, requests, documents, edits, crashes and failures, from
the assumptions of `ImportJobs`.

- `SuccessHolds`, `JobsStayRecorded`, `EndsHold`. Most of `IInv` is about one job: what its
  records in memory, on disk and on their way say is true and not older than one another
  (`RecordsOf`, `HistoryOf`), and each of its tasks is where its status lets it be (`TasksOf`,
  `RestoreOf`). Most steps change one job, so there is a lemma for each way in which a job goes on (it is
  recorded, saved, set aside, forgotten by a crash, read back, ...) and each action is one of
  these for every job. `Reported` relates jobs to the database: a revision that was not there at the
  start has a job that says so or will (`Witness`), through the crash between COMMIT and the record
  of it, since `restore` compares the job with the database.

`CollectionProofs`: the collection jobs, for any number of requests, jobs, games, crashes and
failures, from the assumption that a job has at least one game. Its first part has the lemmas about
queues (what is put in, taken from the front or from the middle of a sequence without repetitions)
that the proofs about pools need, too.

- `CollectionTold`. `CollectionInv` says of every job where its run can be with the status it has in
  memory (`StatusHolds`), what it has yet to write, its end last (`WritesHold`), and that the count in
  memory is that of the results on disk once the job was counted, after a restart as well
  (`CountsHold`). That a key has one job rests on `CreationsHold`: one creation is at work at a time,
  and the jobs that are listed are those on disk. Between a crash and `restore` only the disk counts.

`WorkersProofs`: the pools and queues, for any number of requests, calls, tasks, jobs, discoveries,
workers, crashes and failures, from the assumptions of their modules (finitely many model jobs and
kinds; 0 is no source key; limits are naturals).

- `RequestsKept`, `FitCallsKept`, `TasksPlaced`: a queue has nobody twice, and whoever waits is in it or
  has one worker. For the pool `Flow` adds what is between a sender and a worker: the messages that are
  posted are those the worker has not taken, in order, and all of one request, so the reply it
  sends is for the request it has.
- `ModelJobsTold`: a job's end comes last because a write that was begun before is awaited
  (`WorkHolds`, `RunningHolds`), also when its record is lost with a crash (`Known`); and a model that a
  step has published is kept until the job ends (`StepsHold`).
- `DiscoveriesSound`, `DiscoveryEndsStand`. The calls of create() form a chain, of which the first alone
  reads and saves (`CreationHolds`); a record that is still to be written is open on disk
  (`DiskHolds`), so nothing is written after an end.
- `AttemptsAreSpaced`: what is left until the next attempt and what went by since the last are an
  interval (`TimesHold`), and the first in the limiter's queue has its timer set to the former
  (`LimiterHolds`).
- `OneWriterAtATime`. `LockInv` says that the owner of the lock holds it or died (`OwnerHolds`), that
  the owner a process read before it moves a lock is dead (`SeenDead`), that two live processes differ in
  their identifiers, and that a holder has the lock as long as nobody was overtaken. It needs no
  bound: a dead process never comes back, whatever identifier the next one gets.
- `CallsStayPlaced` puts them side by side, as `Workers` runs them.

`ServicesProofs`: corrections of a ledger, record corrections, the migration, and the caches. For the first: any
ledger, candidates and edits, from the assumptions that `Undefined` is no row and no candidate and that
a collected document has sound links. For the second: any number of assessments and of notice jobs
with any seasons, crashes and restarts. For the third: any number of runs, legacy files, crashes,
saves and starts, where the paths are finitely many numbers, every run has a resolution, and `Absent` and
`"server"` are nothing else. For the caches: any keys, games, jobs, calls and sizes, where finitely many saves
are made and a load is of at least one byte. `JobsAlwaysTold`, `EndsAlwaysStand` and `CachesAlwaysHold` put
them side by side, with the collection jobs, as `Services` runs them.

- `LinksAlwaysStand`. The invariant `LedgerInv` holds of the answered document and of the draft alike,
  since a batch that throws goes back to the former. A lemma per command says that it keeps
  links standing; the hard one is a pitch that goes, which takes its links and their duplicates with it.
- `ContextsAlwaysFollow` adds to it that what a call has not reconciled still names the
  plate appearance it named when the call began, until the call is answered.
- `CasesSound`, `DecisionsAlwaysStand`. What an assessment keeps across its awaits names revisions that are
  there and a play that one of them holds (`Judged`), and the case is about the notice in force
  unless a write came too late, which `raced` remembers (`IsAbout`). The one write that takes a decision
  back uncompared is that of a notice located in an older revision, which `DecisionsStand` names.
- `NoticesTold`, `EndedStays`. A job in its loop has a row that is open, and what it has collected so
  far is in the rows of its seasons (`LoopSound`), so what it writes last is what they say. A crash leaves
  the rows, and `RestartRuns` rebuilds `left` and `changes` from them.
- `MigrationSound`. `MigrationInv` says of each run what it knows of the manifest, the files
  and the content it has read (`KnowsUpgrade`, `KnowsFiles`, `KnowsContent`), which stays so because the steps
  from the lock on have it (`OneHasLock`) and because the server is off while a run looks. A journal is
  its run's until the step that removes it, or a dead run's (`UpgradeHolds`, `TransitionHolds`).
- `NothingIsLost` has two hypotheses, both met by the run `Services`: all runs have one resolution
  (`OneResolution`), and two files left out differ in their documents or agree in their findings
  (`FindingsTold`). Without either TLC refutes it (see *Migration* above). `ContentsAgree`: until the manifest
  is there nothing is archived, so every run reads the same content and a journal that a dead
  run leaves is repaired to what another has made current. `ArchiveTold`: the names in the archive tell what is
  in the files, so a file that is replaced is replaced by its like.
- `CatalogCurrent`. What a batch has opened of a game is what is on disk, if nothing made the game dirty
  since the batch began and no transition of it is at work (`ReadsHold`); and whatever is not
  stale, in the index or in the batch, has what a call in flight needs (`NeedsHold`).
- `HistoriesShown`, `ResultsShown`. A copy in memory, be it cached, read and not yet cached, or set aside
  by a save, has what finished saves have written if its version is that of now, and is equal to the disk
  once no save is under way (`CacheShows`, `ReadsShow`, `PreviousShow`; `CacheFresh`, `FetchesFresh`,
  `PreviousFresh`). What a save has set aside is what the disk has without it as long as no other
  save of the job is under way (`Alone`). The rows are counted without a sum: they are the
  cardinality of a union of sets that do not meet, as are the bytes of the read cache.
- `CacheBounded`. The entries are in the order of their last use, with one per key (`EntriesHold`), so
  the oldest go first; loads of the generation of now are the ones in flight (`LoadsHold`),
  so what began before clear() is not kept.

`GameProofs`: every ledger of a game, whatever the players (finitely many for each side, and none of
both), the bounds and the plays. `GameNext` gives a play at most two rows besides the batter's; the lemmas about a
play as a whole hold for any number. `GameAlwaysKept` and `ChoicesAlwaysKept` in `ServicesProofs` state
these results of the run `Services`.

The library's induction theorems cannot be used (their parameter is an operator), so what is recursive
(the order of placement, sums, the slots of a choice) is treated without them: a statement that
fails for some number fails for a least one (`FirstExists`), and that one is refuted. That a recursive function
is what it says comes the same way (`SumExists`, `PlacesExists`, `SlotsExist`): a function that obeys the
recursion up to n exists for every n.

- `PlacementDecidesNothing`: whatever the bases and the rows, a play comes out placed in the order of
  `orderPlayMovements` as it does in the order of the ledger. The order is a permutation that
  keeps the rows of one runner in their order (`PlacedInOrder`); where a runner is before a row, whether he has
  left his base, which row is his last and what lands where depend on no more than that. So all else
  is proved of the rows as they are.
- `GameKept` (with `GameInv`). *Runners*: every runner has one last row, which is out, home or
  on a base; those it lands are as many as the bases taken, since destinations are free, and those who have
  no row stay unless their base was vacated (`RunnersCounted`). *Runs*: a sum over a side's
  players grows by as many as are counted for its members (`SumGrows`), and every row that scores is of one
  batter of the side and charged to one pitcher of the other (`RunsKept`). *Strikeouts*: once
  there are two strikes, whoever stood there is the batter or whom the strikeout is charged to (`SecondStrike`).
- `ChoicesKept`. The survivors of a choice, ranked from third base to the batter, and the pitchers they go on
  with are two sequences. The pitcher of the one who is out is put in at his place (`SlotsOfOne`), which makes the
  second sequence that of all who took part (`SlotInserted`), without its last, the batter's. So each
  earlier pitcher is in it as often as he had a runner on base (`InheritedCounted`), and every survivor
  comes home or ends on a base with him (`EndsCounted`). The hypotheses of the property are what makes that
  add up: one out, which is not the batter's, and nobody run over (`ChoiceComesOut`).

Only model-checked: the liveness properties (TLAPS 1.4.5 does not prove
fairness arguments, nor `ENABLED`). Proved but not run, since the chain or the types imply them:
`RevisionsAreNumbered` and the type invariants.

## What is not modelled

The map covers about 8 % of the repository's implementation lines. What is left falls into four parts, with the
reason for each component in `PROJECT.json`.

- *Web client* (nearly a third of the code): views and forms over the HTTP API. Nothing the
  server relies on is kept there.
- *Conversions*: parsers of the sources' pages, schemas of the contracts, projections of a compiled game
  into tables, and SQL reads. One pass over data each, with no state; their hazards are of the
  kind that examples test and that a small model would only repeat.
- *Statistics*: regressions, clustering, rate tables over reals: no state, and arithmetic TLC has no
  numbers for.
- *Process management*: the order in which `runtime.ts` opens and closes services is not composed,
  because each manager's `start` and `close` is in its own module and what they share are the workspace and the
  database, whose modules assume nothing of that order.

Within modelled parts. Workspace: source bundles (`saveSourceBundle`), temporary files of atomic
writes, and the dry run of the migration with its check of the backup. Imports: events pushed to clients, the
expiry of a selection, what the tables of facts contain. Sessions: `close()` and what a snapshot for
the client contains. Corrections: commands that replace one observation, roster entry or official record, and
the preview. Record corrections: the timer of scheduled runs and how a notice is matched to a play (a choice
here). Model jobs: the timer of the policy. HTTP: the bounded reading of a body, redirects and the checks of URL and size.
Game core: warnings and findings that change no state, and the lines of fielders.
