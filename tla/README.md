# Lunery Lab Studio in TLA+

A verification project for the parts of Lunery Lab Studio that decide whether a
user's workspace survives: the gate that keeps whole-workspace operations apart
from ordinary requests, the restore of a backup across crashes, permanent
deletion of assets and of models, the saving of what is drawn on the canvas and
the page that is kept in step with it, generation jobs, the tasks of the canvas
agent, the downloads of models and the native engines that run them. TLC checks the modules on small
instances; TLAPS proves, for instances of any size, what matters most about the gate,
restores, purges, generation jobs, engines, downloads and the deletion of a model.

Paths in this document are relative to `src/`. Line numbers in `PROJECT.json`
("map") say which code each definition stands for.

## 1. The system

Lunery Lab Studio is a local-first, single-user AI studio. Three programs run on
one machine:

- a **Tauri 2 shell** in Rust (`my-app/src-tauri/src`). It starts and stops the
  other programs, owns the profile directory, runs the local engines, downloads
  models and serves file operations to the private server over an HTTP bridge;
- a **private Next.js server** (`my-app/app/api`, `my-app/lib/server`). It keeps
  the workspace in an embedded database (PGlite through Prisma) and all media
  files under the profile, which it reaches through the shell's profile file
  service so that every path operation is anchored at a pinned directory;
- a **React client** (`my-app/components`, `my-app/lib/client`).

One server process serves many requests at once. A request handler is an
asynchronous flow: it interleaves with every other handler at each `await`.
The shell is multi-threaded. Any of the programs can die at any moment, and
only the database, the profile directory and a few JSON files survive.

### 1.1 Components

| component | state it keeps | operations | talks to | status |
|---|---|---|---|---|
| workspace operation gate (`lib/server/workspace-operation-gate.ts`, `prisma.ts`) | counters of shared leases and video admissions, weak sets of live tokens, the exclusive owner, waiters for the drain | shared leases, exclusive ownership, detached video admissions; a lease around every database mutation | every handler | modelled |
| detached video jobs (`video-job.ts`, `generate/video/route.ts`) | a job row, an admission | admit, hand over, run, settle, release | gate, providers | modelled |
| workspace restore (`workspace-backup.ts`, `workspace-restore-journal.ts`, `profile_fs.rs`) | a journal file, a commit marker row, four directories per root, staging authority and pinned identities in native memory | restore, reconcile, prepare, promote, roll back, clean up, export | gate, file service, database | partly |
| workspace bootstrap (`local-workspace-owner.ts`, `workspace-initialization-lock.ts`) | a memoized start-up promise | recover restore, recover model deletions, repair staged deletions, seed | restore, storage, models | partly |
| asset storage, purge, reconcile (`asset-purge.ts`, `storage.ts`, `storage-reconcile.ts`, `app/api/assets`) | asset rows, Trash, media files, quarantined files | upload, Trash, restore, purge, clone, read, reconcile, repair | gate, file service | partly |
| canvas geometry writes (`latest-write-queue.ts`, `use-canvas-persistence-coordinator.ts`, layer PATCH) | local geometry, debounce, a write queue per layer, the ledger | edit, flush, retry, close, retire, leave | server over HTTP | partly |
| canvas locks, authoritative sync (`canvas-layer-lock.ts`, `use-canvas-authoritative-sync.ts`, `canvas-authoritative-reconcile.ts`, `use-canvas-session-refresh.ts`) | lock intents, barriers, order tokens of polls and resyncs, optimistic deletions | toggle, delete, poll, resync | geometry writes, server | partly |
| canvas sessions and snapshots (`app/api/canvas/sessions`, `canvas-snapshot.ts`, `restore-agent-task.ts`) | sessions, layers, snapshots | save, prune, restore, undo | gate, agent | partly |
| generation jobs, idempotency (`idempotency.ts`, `generation-job.ts`, status route) | a row per job and idempotency key | create, replay, complete, fail, expire, poll | gate, storage, providers | modelled |
| engine lifecycle, residency (`engine_lifecycle.rs`, `engine_llama.rs`, `engine_mlx.rs`, `engine_sd.rs`, `model_residency.rs`) | epochs, child slots, registrations, workers, progress, delete leases | start, stop, monitor, generate, cancel, lease | processes, server | partly |
| model downloads (`download.rs`, the stop of `http_bridge.rs`) | table of jobs, remembered cancels, delete leases, count of tasks | start, cancel, download, publish, lease, drain | file system, deletion of models | modelled |
| imported and managed models (`imported-model-registry.ts`, `local-model-files.ts`, models route) | registry, settings, journals of deletion, staged files | import, delete, recover | downloads, engines, file service | partly |
| agent executor and tasks (`lib/server/agent`, `app/api/chat`) | task and message rows, snapshots | run tools, finish, interrupt, undo | canvas, jobs | partly |
| profile file service (`native-profile-fs.ts`, `http_bridge.rs`) | table of finished requests | file operations, each at most once | storage, restore | partly |
| desktop shell (`lib.rs`, `profile.rs`) | boot state, profile lock | boot, reset, shut down | everything | partly |
| secrets, ComfyUI bridge, client controllers, providers, user interface | see `PROJECT.json` | | | not modelled |

### 1.2 What makes it hard, and what "correct" means

- **Gate.** Authority travels with the asynchronous context and can outlive the
  lease that granted it; a waiter is woken one turn before it runs; a video
  admission changes hands between a request and a job. Correct: an exclusive
  operation never overlaps a holder of a lease, counters neither leak nor go
  negative, an accepted operation gets the workspace, the door opens again.
- **Restore.** Two directory trees and a database have no common transaction.
  The code builds one from a journal, a marker inside the database transaction
  and renames that can be undone, and it must survive a crash or a failing call
  between any two of them, during recovery too. Correct: all old or all new,
  never a moment without a complete tree, recovery that is never refused.
- **Assets.** Files and rows are changed in two steps by requests that share the
  workspace; paths are shared by clones; reads write files. Correct: no row
  loses its bytes, a start repairs what a crash left, answers are true.
- **Canvas.** A value passes through a debounce, a coalescing queue with retries
  and a server that may be slow, locked or deaf, while the user edits on, leaves
  or the layer disappears. Correct: "saved" means saved, leaving is safe when the
  code says so, every edit settles.
- **Canvas page.** What shows is fed by the user, by answers of the server that
  may be old, and by an agent that changes the same rows. Correct: what the
  server confirmed stays, an unsaved move stays, the newest toggle wins, every
  barrier lifts.
- **Jobs.** A row is read, work is done for minutes, and the row is settled by
  the run, by its failure or by a poll that finds it stale, while the server may
  die and a client may ask twice with one key. Correct: one job per key, one
  terminal status that tells how many assets there are, no file without a row.
- **Agent.** A task works on rows that the user edits, and ends in one of five
  ways, of which two race. Correct: the cap of snapshots never costs what the
  user saved, the canvas never goes blank by an edit or an undo, a task is
  answered once.
- **Engines.** Requests are threads, processes die by themselves, and exit
  monitors, readiness workers and time-outs of an old start meet the newer one.
  Correct: no process is lost, a stop stays a stop, a rollback touches its own
  start only, nobody waits for ever.
- **Downloads.** A task writes for minutes what a user may cancel, a deletion may
  lease and a stop of the runtime may drain. Correct: one writer per destination,
  a stop that leaves nobody behind, an accepted cancel that stays one.
- **Deletion of a model.** Files, registry and settings are three stores; the
  code combines them with a journal, a snapshot and a marker. Correct: all or
  nothing, and the answer stays true over restarts.

`PROJECT.json` ("hazards") lists forty places in this code where something can go
wrong that a test would hardly reach, each with its line, and the properties
that cover it. Other hazards worth knowing:

- a purge reads its targets before it deletes them by id (`asset-purge.ts:92`), and
  a flush that meets an armed retry timer may stay unresolved
  (`latest-write-queue.ts:162`): the code excludes neither, see section 5;
- the single-flight promise of recovery may be awaited by a holder of a shared
  lease that recovery itself waits for (`workspace-restore-journal.ts:441`);
- a native prepare that timed out may be executed after the rollback of the same
  restore (`native-profile-fs.ts:735`); the table of finished native requests
  holds 1024 entries (`http_bridge.rs:71`);
- the outcome of the rollback of a failed staging is discarded
  (`asset-purge.ts:80`);
- `ensure_profile_dirs` can make a placeholder during a native swap
  (`profile.rs:102`); the desktop reset does not look at a pending restore journal
  (`lib.rs:1850`);
- the ledger of canvas writes outlives a session, its queues do not
  (`use-canvas-persistence-coordinator.ts:478`);
- the edit tools complete a job in a separate write after asset and layer
  (`edit-layer.ts:117`); the video client makes a new idempotency key for each
  POST, so a lost answer and a retry make two jobs (`use-video-generation.ts`);
- the agent's tools check the lock of a layer and then write by id
  (`canvas-ops.ts:44`); reordering swaps `z` values that may be stale
  (`canvas-ops.ts:95`); the snapshot an undo needs may have been pruned, the
  button then answers 404;
- a late stop of an engine takes the workers of a newer start
  (`engine_lifecycle.rs:149`); an exit worker past its check removes the
  registration and PID file of a newer start of the same model
  (`engine_lifecycle.rs:267`).

## 2. Modules

| module | models | relation |
|---|---|---|
| `WorkspaceExclusion` | what the gate promises: shared leases, one owner, a door | abstract |
| `WorkspaceGate` | `workspace-operation-gate.ts` with its users | refines `WorkspaceExclusion` |
| `WorkspaceGateProofs` | theorems about `WorkspaceGate` | extends it and TLAPS |
| `AtomicWorkspace` | what a restore promises: replace rows and trees in one step | abstract |
| `WorkspaceRestore` | backup, journal, recovery and the native swap | refines `AtomicWorkspace` |
| `WorkspaceRestoreProofs` | theorems about `WorkspaceRestore` | extends it and TLAPS |
| `AssetPurge` | assets, Trash, staged deletion, reconcile, repair | stands alone |
| `AssetPurgeProofs` | theorems about `AssetPurge` | extends it and TLAPS |
| `LatestWriteQueue` | the write queue as operators on its closure's state | no variables |
| `CanvasWrites` | one layer's way from an edit to its row | extends `LatestWriteQueue` |
| `CanvasSync` | what the page shows of a layer: locks, deletions, polls, resyncs | takes `CanvasWrites` as one step |
| `GenerationJobs` | jobs from a request to the status a client is told | takes the gate as open, draining or owned |
| `GenerationJobsProofs` | theorems about `GenerationJobs` | extends it and TLAPS |
| `AgentCanvas` | a session with its snapshots, agent tasks and the user | stands alone |
| `ResidentEngines` | the life of a llama.cpp or MLX process | stands alone |
| `ResidentEnginesProofs` | theorems about `ResidentEngines` | extends it and TLAPS |
| `SdEngine` | image runs of sd-cli with cancels and stops | stands alone |
| `SdEngineProofs` | theorems about `SdEngine` | extends it and TLAPS |
| `ModelDownloads` | downloads, delete leases and the stop of the bridge | takes the deletion of a model as its leases and files |
| `ModelDeletion` | the deletion of a model and its recovery | takes the leases of the three above as held |
| `ModelDeletionProofs` | theorems about `ModelDeletion` | extends it and TLAPS |
| `ModelDownloadsProofs` | theorems about `ModelDownloads` | extends it and TLAPS |
| `MC...` | instances for TLC | extend the modules above |

`WorkspaceRestore` and `AssetPurge` take from `WorkspaceGate` exactly what it
proves: an exclusive operation runs alone, requests under shared leases
interleave. Nothing else is assumed between them.

### 2.1 WorkspaceGate

State: `exclusive`, `exclusivePending`, `sharedCount`, `activeVideoCount` are the
fields of `GateState`; `validShared`, `validCapabilities`, `admissions` are the
weak sets; `drainWaiters` is the list of resolvers. A *context* is a handler, a
child that it started or a video job; its variables are what the code keeps in
closures and in `AsyncLocalStorage` (`store`, `outer`, `lease`, `handle`), plus
where it stands (`work`, `wanted`) and whether a mutation of it is in flight.
A *token* stands for the identity of an object; it is reused only when nothing
refers to it any more, as for real objects.

One action is one synchronous stretch between two awaits: `EnterShared` and
`LeaveShared` (the three lease functions and their `finally`), `AcquireAtOnce`,
`AcquireAndWait`, `Resume` (the loop of `acquireWorkspaceExclusive`),
`ReleaseExclusive`, `BeginDetachedVideoWork`, `RunWithAdmission`, `HandOff`,
`ReleaseAdmission`, and the work itself: `Spawn`, `FinishChild`,
`BeginMutation`, `EndMutation` (the Prisma extension takes a lease when the
context has no live authority; that is `EnterShared`).

`Abandonable` are the tokens of handlers that may abandon work they started
(`Promise.all` that rejects early); a handler with another token awaits its
children.

### 2.2 WorkspaceRestore

State on disk: `dirs` (for the roots `media` and `config`, the names `live`,
`staged`, `previous`, `discarded`, each an identity with the workspace its
content belongs to), `journal`, `db`, `marker`. In native memory: `authority`,
`pinned`. In the server: `phase` (where the code stands), `aim` (what the
reconciliation in progress is part of), `ensured` (start-up recovery done).

One action is one durable effect (a rename, a file written, a transaction, a
tree entry removed), so a crash can fall between any two. `Prepare`,
`PrepareConfig`, `Attest`, `Fill`, `Promote`, `Swap`, `Commit` are the restore;
`Reconcile`, `Decide`, `Refresh`, `Cleanup`, `Rollback`, `Undo`, `Sweep`,
`Unjournal`, `Unmark` the reconciliation with the native operations that it
calls; `Crash` kills the application, `ServerCrash` only the server (native
memory and a running native operation survive); the `...Fails` actions are
failing calls, and calls whose effect happened but whose answer was lost.
`AddAsset` and `AddAssetRefused` are a request that stores a file.

Abstracted: the archive and its validation, the tree below a root (a tree is
complete, empty or partial), flushing (a rename is durable when it is done),
the Windows variant of the native code. A native call is executed before its
answer is lost, never afterwards.

### 2.3 AssetPurge

State: `rows`, `trash`, `used` (identities that have been given out), `disk`
(a path has a file under its own name and possibly one under the quarantine
name `.lunery-purge`), one record per purge request with its local variables,
the upload, clone and read that are between two steps, `phase` and `list` (what
the start-up repair or the sweep has listed).

A database call, an `lstat` and a native operation are one step each: a purge is
`PurgeTargets`, `PurgeSurvivors`, then `StageBegin`, `StageLook` (twice),
`StageRename` per file, `PurgeDelete`, and `PurgeCommit` per file or `PurgeUndo`
per file. `SweepBegin`, `SweepFile`, `SweepEnd` are the destructive reconcile,
`BootBegin`, `BootFile`, `BootEnd` the repair before the first request of a
server. A native operation succeeds, is refused, or succeeds with its answer
lost.

What the code says of names is assumed of `PathOf`: an uploaded or generated file
has a fresh UUID in its name (`UploadPathsAreFresh`, `storage.ts:560`), and the rows
that a clone copies from a template name bundled samples, because a template is
read-only (`TemplatesAreBundled`, `projects/[id]/route.ts:101`). A generation that
names a template as its project is not refused; what a clone of such a template
shares with it is not modelled.

A read of a bundled sample writes the file again when its name is free
(`assets/[id]/route.ts:98`), also while a purge has the original in quarantine: then
both names exist, and if the server dies now the repair refuses at every start
(`storage.ts:866`). `WrittenAgain` says so, `StartsSucceed` excepts it.

Left out: path confinement, the quota, thumbnails, the dry run.
`SweepsWhenWhole` keeps the sweep away from a quarantined file with a row, the
case of the second row in section 5.2; with it the other properties say what holds
otherwise.

### 2.4 LatestWriteQueue and CanvasWrites

The queue is a record with the variables of the closure of
`createLatestWriteQueue`; each operator (`Enqueued`, `Flushed`, `TimerFired`,
`Succeeded`, `Failed`, `Rejected`, `Left`, `Retired`, `Closed`) is one
synchronous stretch of its code. A value is a map from fields to the number of
the edit they come from. `Left` is separate from `Succeeded` and `Failed` because
`.finally` runs in a later microtask.

`CanvasWrites` adds the screen (`local`), the debounce, the ledger's mark
(`dirty`), the request on its way (`wire`), requests given up by the client that
the server may still handle (`strays`), the row (`server`, `locked`), the page
and the exit that waits. One layer of one session: layers have queues of their
own and do not meet. The resynchronisation after a rejected write is part of
`ReplyLocked`.

### 2.5 CanvasSync

State: `row` (the layer in the database), `view` (in the page's React state),
`node` (on the stage: a drag moves it before anything else), `dirty` (the
geometry ledger, abstracted from `CanvasWrites`), `lock` (transition, next
toggle and presented intent of the controller), `gone` and `del` (the optimistic
deletion), `poll`, `unseen`, `sig` and `resync` (what is on its way and which
answer may count), `strays` (lock requests given up by the client). `kept` is
history: what the server has told the user.

`Toggle`, `FlushedOk`/`SendLock`, `FlushFails`, `LockLands`, `LockAnswered`,
`LockRefused`, `LockTimesOut` are `runLayer` between its awaits; `Delete`,
`Drained`, `DrainFails`, `DeleteLands`, `DeleteAnswered`, `DeleteFails` with
`ResyncLands` the deletion and its recovery; `PollBegins`, `PollRevision`,
`PollRead`, `PollLands` the two requests of a poll. `Reconciled` and `Merged` are
`reconcileAuthoritativeCanvasLayers` and `mergePolledLayers` for one layer.

Left out: the change of session, the drawing state, layers being created, the
first load. Two things the model shows and no property forbids: an intent that
is not acknowledged conceals a later lock by the agent, and a lost answer to a
deletion followed by a failed resync leaves a ghost layer.

### 2.6 GenerationJobs

A *run* is a request or a tool call and names the job it may create. `row`,
`assets`, `files` are the job's status, its Asset rows and its media files on the
disk; `holds` is the lease or admission. The kinds of run differ in how
they hold the gate and in whether the failure is recorded under the lease
(`CoversItsFailure`): this is where the image route, the video runner, the
generation tools and the edit tools really differ. `LookUp`, `Replay`, `Create`,
`Generate`, `WriteFiles`, `Commit`, `CleanUp`, `Fail` are one awaited statement
each, and each may fail; edit tools use `CommitAsset`, `SaveLayer`, `Complete`.
`Age` is the passing of the stale limit, `GateCloses`, `GateMoves` an exclusive
operation, `Crash` a server that dies.

What the code swallows is in `swallowed`, per run: the deletion of a file
(`images/route.ts:91`, `generate-image.ts:194`, `video-job.ts:136`; at
`replacement-layer.ts:92` it is thrown, and nobody tries again), of the row of a layer that could not be saved
(`replacement-layer.ts:91`, after which the file goes all the same), or the write
of FAILED (`generation-job.ts:139`). The properties except the runs that swallowed
what they are about, and nobody else.

`PollRead`, `PollAnswer`, `PollEnd` are one poll of a video job: the status route
reads the job, perhaps declares it stale, and answers; any of it may fail or be
refused at the gate. The page (`use-video-generation.ts:159`) counts the failures in a
row (`misses`) and stops after the third; `Leave` is a page that goes, `Rejoin`
one that is opened again and takes the job up.

Left out: what the page does for other kinds; that a canceled job and an
interrupted one have different wordings.

### 2.7 AgentCanvas

State: `layers`, `snaps` (oldest first), `task` (status, before-snapshot and
answers in the thread), the run of a task (`step`, `tools`, `tool`, `held`),
requests of the user with several steps (`user`: restore, undo, manual save).
Which tool is called is a free choice; a tool checks the layer in `Call` and
writes in `Write`. `Capture`/`SaveBefore`/`Attach` and the pair after the tools
are the automatic snapshots, `Save` with `Pruned` and `Full` is
`saveCanvasSnapshot`. `Finish`, `Fail`, `OpenThread` are the three ways in which
a status is set.

Left out: z order, the drawing state, wording of steps, reference sets.

### 2.8 ResidentEngines and SdEngine

`ResidentEngines` is `EngineLifecycle` with either of its users. A *generation*
(an epoch) names a start, its process, its registration in the residency manager
and its workers. A thread takes one step per stretch under a lock; `Start` to
`Commit` are a start, `Stop` to `Joined` what a stop and the beginning of a start
share, `Monitor` (epoch, then slot, then claim), `Readiness` and `Cleanup` the workers, `UndoKill`, `UndoSlot`,
`TimedOut` the rollback. `AcquireDeleteLease` refuses and is refused as in
`LlamaModelState`.

`SdEngine` models `bridge_sd_generate` from the capture of the epoch to the
answer (`Request`, `Admit`, `Begin`, `Register`, `Image`, `Poll`, `End`) with
`Cancel`, `Stop`, the deletion of the model (`Lease`, `StopModel`,
`Release`) and the table of pending cancels, from which a run takes its own entry
(`Position`, `Remembered`).

The route that waits for the answer is `client`. `Report` is what it tells the
engine in the end (`sd-progress.ts:25`). It may come before the native answer: a
fetch that fails or whose header times out makes the route report "failed"
(`local-sd.ts:314`, `images/route.ts:349`) while the batch goes on. It is sent once
and may be lost. `named` is history: the runs a cancel named or a stop met
before their own route had ended them. A cancel that comes later finds a final
phase (`engine_sd.rs:649`) and stops nothing; those runs are in `late`, and section
5.2 shows what follows.

Left out: the bytes of the VRAM budget and the choice of what to evict, command
lines, the workers that drain pipes, the 20 minutes after which a
readiness wait ends that nobody superseded earlier (modelled as: it may end at any time), the
exits of the poll loop on an error of `try_wait` or on a poisoned lock
(`engine_sd.rs:1053`, `:1104`), and the expiry of the delete lease of `SdEngine`
after 60 seconds without renewal (`engine_sd.rs:231`). In `ResidentEngines` a lease may end at
any time (`EndDeleteLease`).

### 2.9 ModelDownloads

State: `job` (the table of `DownloadState`, with `finished` for the order of its
history), `pending` (remembered cancels), `lease`, `active` (the count of tasks);
`task`, where the task of a job stands; `file` and `part`, what has the two names
of a destination; `del`, a DELETE handler as far as downloads matter; `bridge`.
`told` is history: whose user heard that the cancel is accepted.

A step of the table is one stretch under its lock (`Reserve`, `Commit`,
`RequestCancel`, `Renewable`). A task takes one step from one await to the next:
`Begin`, `Trust`, `Distrust` for a file that is already there, `Connect`, `Stream`,
`Hash`, `Rename`, `Publish` for one that is not, `Discard` and `Failed` for what goes
wrong, `Panic` anywhere, and `Drop`, the guard that counts the task down. A
deletion is `Acquire`, `Settle`, `CancelDownload`, `Poll`, `Renew`, then `Stage` and
`Decide` under a heartbeat, then `Release`; each call may be lost on its way (`Lost`),
a lease may lapse unless it was just renewed (`Expire`). `Revoke`, `Join` and
`Drained` are the stop of the bridge, `Restart` the next runtime.

Left out: what the files contain (good, wrong or partial), the limits on
connections, and the renewal of the leases of the engines, which the models route sends
with the same heartbeat: here only the lease of the download is renewed and lapses.
`Histories` forgets a job only when its task has ended. The code does not ask
(`download.rs:1029`): it relies on a task being gone ten minutes, or the number of jobs
in the history, after it ended.

### 2.10 ModelDeletion

State: `disk`, everything durable (files under their own or their staged name,
the record in the registry, the default in the settings, the journal at hand and
the one of the external file, the marker); `old`, the journals that earlier requests left behind,
since each deletion writes one of its own (`local-model-files.ts:363`); `before`, the
disk when the request came; `pc` and `left`, where the
handler or the recovery stands; `told`, what the handler knows that it did
(`registryRemoved`, `stagedExternal`). One action is one durable effect. It may fail
with its effect or without (`Try`): a native call whose reply was lost has happened,
and the handler does not know. `Restart` may fall between any two. `Begin` to `CleanUp` are the
DELETE handler, `ReconcileManaged` and `ReconcileExternal` the start-up recovery, which
works off the journals one after the other in any order.

A request may follow one that answered "Restart Studio and try again"
(`route.ts:692`) without a restart: nothing but an external journal beside its file
(`imported-model-registry.ts:357`) keeps it from that.

`hit` is history: it names the windows in which a failure, a restart or a request has
fallen where the protocol's files no longer say what was meant:

| window | when |
|---|---|
| `cleanup` | a stop or failure between the removal of the marker and that of the journal (`local-model-files.ts:489`): recovery rolls a deletion back |
| `unwind` | a stop or failure of a rollback that has dropped the journal and has registry or settings to restore (`route.ts:676`) |
| `uncommit` | a stop or failure of a rollback while the marker is there |
| `unlisted` | the record is gone, the reply is not there, and the rollback skips the registry (`route.ts:670`) |
| `retry` | a request while a journal without a marker is left: it finds no files, and the next start puts them back |

A sixth, `reinstall`, is a file that was downloaded again under a name that
recovery has to use. The properties about the outcome hold outside these windows;
section 5.2 has an execution for them. `retry` is wider than what is
harmful: a leftover plan with nothing staged counts as well.

Left out: a retry that changes between keeping and deleting the user's file; a
user who touches the external file while it is staged; a rename of the local file
system that half happened.

## 3. Runs

| run | instance | distinct states | shows |
|---|---|---|---|
| `gate` | 3 contexts, 4 tokens, 2 operations, one abandonable token | 20 thousand | counters exact, an owner is alone, every hold has a holder and no expired authority starts work, refinement of `WorkspaceExclusion`, accepted owners are served, the door reopens |
| `restore` | 2 restores, 3 crashes, 3 faults, 1 asset, `SplitIsLeftAlone` | 106 thousand | all old or all new, a tree always survives, exports whole, no preflight of recovery or restore refuses, refinement of `AtomicWorkspace`, recovery and exclusive work end |
| `assets` | a purge, two rows sharing a bundled file, one row, one upload, 2 faults, 1 crash | 1.4 million | no row loses its bytes, a start repairs, answers are true, a server that starts becomes ready |
| `assets_two_purges` | 2 purges, a bundled sample and a row, 1 fault, 1 crash | 2.3 million | purges that meet do no harm, quarantines are explained |
| `canvas` | 2 fields, 3 edits, 1 retry, 4 faults, 2 lock changes, `StraysAreQuick` | 171 thousand | clean means saved, exits are safe, the queue keeps its books, edits settle |
| `canvas_sync` | 2 moves, 2 toggles, 1 other change, 1 fault | 831 thousand | what the user was told stays, moves are kept, the newest toggle wins, barriers lift |
| `jobs` | 2 runs of six mixes, 2 images, 1 crash, a page that gives up after 3 errors | 401 thousand | a status is true and final, keys are faithful, no file is lost, jobs settle |
| `agent` | 1 task with 1 tool, 1 user request, 2 layers, a cap of 2, 3 saves, 1 edit, 1 crash | 393 thousand | the canvas never goes blank, the cap spares the user, tasks end once |
| `engines` | 2 models, 1 starting and 1 stopping thread, 3 generations, both engines | 226 thousand | every process has an owner, rollbacks are one's own, no start under a delete lease, starts return |
| `sd` | 2 runs of 2 images, 2 pending cancels, 2 stops, 1 model, routes that report early or in vain | 823 thousand | one process in hand, a cancel before the route's own report is final, every run is answered |
| `downloads` | 2 downloads of one file, 2 deletions, in four cases with 1 fault or 1 restart | 395 thousand | one writer per destination, a stop is complete, a status is true, everything ends |
| `model_deletion` | 2 managed files, an external one, 3 faults with or without effect, 3 restarts, requests after failed ones, every kind | 1.6 million | residue is journaled, all or nothing, answers stay true, recovery ends |

Several properties are conjunctions: `WorkIsCovered`, `WorkspaceIsWhole`,
`PreflightsPass`, `PromisesHold`, `FilesAreAccountedFor`, `SavedMeansSaved`,
`QueueKeepsItsBooks`, `IntentsSettle`, `DownloadsAreApart`, `DownloadsEnd`,
`EngineIsOwned`, `ProcessIsInHand`, `CancelIsFinal`, `StatusIsTrueAndFinal`,
`KeysAreFaithful`, `FilesAreKept`, `CapSparesTheUser`, `TasksEndOnce`,
`WhatWasToldStays`, `MovesAreKept`. Each part is a definition of its own with its
own comment, and `PROJECT.json` pairs each part with a faulty variant.

### 3.1 Why the bounds are enough

- *Gate.* The interesting patterns need a holder, a waiter and a third party
  (an entrant, a second operation, a child). Four tokens let a lease, an
  admission, a re-entered lease and a capability be alive or remembered at once.
  The safety part holds for every number of each (section 4).
- *Restore.* One crash interrupts the restore, a second interrupts the recovery,
  a third the recovery from that; three faults let promotion, its rollback and
  one more call fail. The second restore meets whatever the first one left.
  Directory identities come from a pool of twenty: at most eighteen are referred to
  at once (section 4.8), so a new directory always finds one that nobody knows.
- *Assets.* Two rows sharing a path, a lone row and an upload are the three ways
  in which a file is owned; two faults are a failing step and a failing undo.
  Two purges are enough for a rename to meet another's quarantine; that instance
  has a bundled sample, which a read may write again, and checks safety only.
- *Canvas.* Three edits are one in flight, one in the queue and one in the
  debounce. Two fields distinguish merging from replacing. Four faults exceed
  one retry with its closing attempt.
- *Canvas page.* Two moves are one saved and one not; two toggles are one in
  transition and one queued; one change by somebody else and one fault are what
  each hazard of the list needs. A poll and a resync may be on their way at once.
- *Jobs.* The six mixes are a retry, a key used for two requests, for two kinds
  and for two videos, and each kind beside another. Two images distinguish
  partial from whole. The page's three errors are the code's own number. The module
  has no bound on exclusive operations, failures, polls or visits of the page.
- *Agent.* A cap of two is exceeded by the two automatic snapshots of a task
  beside one saved by the user. One user request of several steps interleaves
  with the task at every await; restart, undo and restore meet in one execution.
- *Engines.* A start may be repeated: three generations are an old one, one that
  replaces it and one that replaces that, with a stop anywhere. Two sd-cli runs
  are one that generates and one that waits; two images give the gap between
  two processes.
- *Downloads.* Two downloads of one file compete for it, use each other's part and
  push one another out of a history and a table of cancels of one entry each; a
  second deletion meets the lease that a lost answer left; faults are a panic, a
  lost call or a failing write. `MCModelDownloadsWide` checks the safety properties
  for a model of two files with a download each (ten million states).
- *Model deletion.* Two files make every loop partial. Three faults are a failing
  step, a failing undo and a failing retry; three restarts interrupt the
  recovery of a recovery. Requests are not bounded: equal journals of earlier ones
  count once. The proofs need neither bound.

Deadlock is checked for the gate, the restore and the assets. The other systems may
stop: a page that is gone, a task that is done, a job that is settled and a model
that is deleted have nothing left to do.

### 3.2 Fairness

- *Gate* (`FairSpec`). Queries complete and resolved promises resume (weak
  fairness). A context can lose and regain the ability to settle, because it may
  start more work; it performs finitely many steps, so it settles if it can
  again and again (strong fairness of `Settle` and `ReleaseAdmission`).
  `FiniteWork` says the same of children: behind a shut door the work of earlier
  leases does not grow for ever. Nobody is obliged to enter.
- *Restore.* The code goes on with what it has begun, and a booted server gets a
  request (`WF` of `Recovery` and `Restoring`). Starting the application is the
  user's choice and is not fair. Crashes and faults are bounded, not unfair.
- *Assets.* A purge goes on; the server is asked until it is up, since the shell
  polls it and users retry (`WF` of `Boot` and of each `PurgeStep`).
- *Canvas.* Timers fire, promises settle, each request is answered or times out
  (`writeTimeoutMs`). Users edit, leave or lock when they like.
- *Canvas page.* Requests of a transition, of a deletion and of a resync are
  answered or time out (`withTimeout`); polls, the agent and the user are not
  fair.
- *Jobs.* A run goes on while the server lives, time passes, and a page that shows a
  video job polls (weak fairness of `Poll`) until it is told the end or gives up. A
  poll that is refused or fails is one of its three errors. Nobody is obliged
  to open the page again. A crash ends a run, which no fairness revives.
- *Agent.* A task's run goes on while the server lives; somebody opens the thread
  again, which is what interrupts a task left RUNNING.
- *Engines.* Threads and workers that can take a step do; processes die when they
  like. `SdEngine` asks fairness of each run and of its route, which gets an answer or gives
  up: not of stops or of processes, since the deadline of a poll kills a process that hangs.
- *Downloads.* A handler returns; a task is polled and every wait of it ends, by a
  time-out or a cancel; a deletion goes on; leases run out; a stop that has begun
  goes on. Users, faults, heartbeats and the beginning of a stop are not fair.
- *Model deletion.* The handler and the recovery run to their end.

### 3.3 The faulty variants

Definitions commented "Faulty" are not part of any specification. Each is a
plausible mistake in the code of the definition that follows it (a forgotten
decrement, a wake-up that is lost, a journal that is not written, a check that is
inverted), and the property it is paired with in `PROJECT.json` ("mutants") fails
when it takes that definition's place: the properties can see the mistakes they
are meant for.

## 4. Proofs

### 4.1 The gate

`WorkspaceGateProofs` proves, for all sets `Contexts`, `Operations` and every
finite set `Tokens` (`TokensFinite`), with `NoOp` and `NoToken` outside them
(`NullsAreNotValues`):

| theorem | states |
|---|---|
| `InductiveInvariant` | `Spec => []IInv` |
| `TypeCorrect` | `Spec => []TypeOK` |
| `CountersAreExact` | `Spec => []CountsAreHolders` |
| `OwnersAreAlone` | `Spec => []OwnerIsAlone` |
| `WokenWaiterSucceeds` | a woken waiter finds the workspace unowned and drained |
| `HoldsInvariant` | `Spec => []HInv`: who holds which token, child and admission |
| `WorkStaysCovered` | `Spec => WorkIsCovered`: no hold is leaked or given back twice, the door is shut for one context, and no mutation runs beside an owner except what a handler abandoned |
| `GateImplementsExclusion` | `Spec => ImplementsExclusion`, the safety refinement |

`IInv` is the conjunction of named parts. `TypeOK` and `CountsAreHolders` are not
inductive by themselves: ownership begins in `Resume`, where `sharedCount = 0` was
observed by another context's release. `WokenInv` (from the wake-up on the count
is zero), `WaiterInv` (at most one context waits, and the door is shut for it)
and `SleeperInv` (who sleeps is on the list, and something is left to wait for)
carry that observation across the turn in between; `OwnerInv` and `FreeInv` tie
the owner to its one capability, so that `ReleaseExclusive` clears exactly its own
ownership; `LeaseInv` keeps video admissions apart from leases, so that a release
takes a token out of both sets or of neither. The step lemmas have one case per
action; the three lemmas on cardinalities are the only facts about finite sets
that they use. For the refinement every step maps to a grant, a give-back, an
announcement, a change of owner or a stutter.

`WorkIsCovered` needs to know, beyond the counters, who holds what. `HInv` says
that what a context holds and what it sees go together (`Shaped`), that what it
holds is a live lease or admission that nobody else holds (`HoldsAreLive`), that every
live token is held by some context (`LiveAreHeld`: nothing is leaked), that the lease a
context sees in its async store is live, unless its handler may abandon it (`Covered`),
and that a shut door has somebody who shut it (`Claimed`). A token moves between contexts only in the
hand-off to a detached job or child, where the giver loses it in the same step. The
lemmas on holds (a context that a step does not touch keeps its part of the invariant)
leave one case per action about the contexts that it does touch.

`WokenWaiterSucceeds` says that the checks which `acquireWorkspaceExclusive` repeats
after the wait are a precaution: they never reject the waiter nor send it back.

### 4.2 The deletion of a model

`ModelDeletionProofs` proves, for every set `Managed` of files, any `External` outside it
(`ExternalIsNotManaged`) and any number of faults, lost replies, requests and restarts (`BoundsAreNat` only says that the bounds are numbers):

| theorem | states |
|---|---|
| `TypeCorrect` | `Spec => []TypeOK` |
| `ResidueJournaled` | `Spec => []ResidueIsJournaled` |
| `Atomicity` | `Spec => []DeletionIsAtomic` |
| `AnswersStayTrue` | `Spec => []AnswersAreTrue` |

For the first two the inductive invariant is `IInv`: the type, and `Fits`, which
says of each step what the disk must look like for it (`Journaled`: staged files
have a journal; `Ready`: a step that drops a journal has nothing staged).

Atomicity needs what the disk *means*. `AInv` says, as long as no window was hit,
that each step has its `Fate` (every file is still there under one of its names,
nothing but files has been touched, everything is staged, or everything is
gone), what the answer has `Promised`, that the journals of earlier requests have
nothing to bring back (`Behind`: they were committed, and the model is gone; or `Void`, there was
nothing to delete), and that the disk has nothing the request did not find (`Bound`). The key
lemma is `AlwaysResting`: at any step outside the windows the disk alone tells
which way recovery must go (`Resting`: no journal, whole or gone; a plan, only
files have moved; a snapshot without a marker, roll back; with a marker, gone).
A restart, a failure and a lost reply keep `AInv` because of it, whatever the step was, and
the step lemmas have one case per action. `SettledIsDecided` reads the outcome
off a disk at rest. The windows cannot be dropped from the statement: section
5.2 shows counterexamples inside them.

### 4.3 Downloads, deletions and the stop of the bridge

`ModelDownloadsProofs` proves `DownloadsKeepApart`, `Spec => []DownloadsAreApart`, and
`StatusesAreTrue`, `Spec => StatusIsTrue`, for every finite set `Jobs` (`JobsFinite`), all sets of destinations and
deletions, every assignment of destinations to both (`DestinationsAreKnown`), a
`None` that is no deletion (`NoneIsNoDeletion`), and
any number of starts, faults and restarts. `IInv` has three parts besides the types:

- `Owners`: a destination is owned by one active job, and a task that can still
  touch it is the owner's; a job that is not in the table has no task. The last
  is what the guard on pruning the history is for: a pruned job whose task is
  still on its way could be reserved again and be counted once instead of twice.
- `Leases`: what a deletion has renewed stays leased to it and is nobody's
  download, until its heartbeat fails. A reservation needs a free lease, a lease
  expires only when nobody keeps it fresh, and the renewal has looked for an owner.
- `Stops`: the count is the number of tasks that are past their reservation, and
  from the second sweep on no handler is left to start one.

A step of a task has one of four forms (`TaskForms`: it proceeds, ends its job,
begins to stream or leaves), a step of a deletion moves one deletion and touches
no lease but its own or a free one (`DeletionKeeps`). Each form has its lemma.

`StatusesAreTrue` is an action property and needs a second invariant, `SInv`:

- `Remembered` and `Told`: no id is remembered twice and none whose job is known; a user who was told
  of a cancel has it noted, at the active job or among the remembered ids. An id that
  the bound `MaxPending` pushes out, one that lapses and a job that is pruned end the promise
  in the same step, which is what the history variable `told` records.
- `Serial` and `Spoils`: one deletion runs at a time and takes what it finds at a name
  once, so what it puts back is what was there (`PutBackIs`).
- `Good`: where a task is about to say "ready" (`trust`, `publish`), the good file is at its name
  or in the hands of a deletion that has lost its leases and will decide. That a deletion
  whose heartbeat lives takes no such file is `Leases`; that no other task touches it is `Owners`.

`TaskCommits` says that a step of a task commits "ready" only from there, `CommitSays` that
a commit leaves an end alone and lets a cancel win; `ReserveTells` is the only other step that
changes a status, and does it to jobs that are new or forgotten. A remembered cancel is
taken out of its queue by `Without`, a function and no recursion, because no installed
prover unfolds `SelectSeq`; the code keeps these ids in a map and removes one key.

### 4.4 Generation jobs

`GenerationJobsProofs` proves, for every finite set `Runs`, every mix of requests
(`MixesAreRequests`), any number of images per request, of errors a page bears and of crashes:

| theorem | states |
|---|---|
| `InductiveInvariant` | `Spec => []IInv` |
| `KeysStayFaithful` | `Spec => []KeysAreFaithful` |
| `FilesStayKept` | `Spec => []FilesAreKept` |
| `StatusStaysTrue` | `Spec => StatusIsTrueAndFinal`, an invariant and an action property |

That a terminal status agrees with its assets (`JobsMatchTheirAssets`) and that a
reply to a repeated request has the assets of the first (`RepliesAreWhole`) need each
other: a replay reads a status, and answers with assets read later. `Seen` carries
the observation between the two: what a replay has seen as final is still so.
`OneRunPerKey` needs `Created` (no row before its creation), `FilesAreExplained` needs
`Stages` (how many files and rows each step has), `Held` and `Owned`: a run with
files and no rows yet is in the hands of the gate, so the owner of the gate meets no
half-written job, except what a swallowed failure left behind (`swallowed`, named
per run and kind). `Patient` bounds the errors of a page that still asks. The finality is
`RowForms`: a step creates a row that was not there, or settles one that is running.

### 4.5 Resident engines

`ResidentEnginesProofs` proves, for all sets of starting and stopping requests that
are apart (`RequestsAreApart`), every set of models, both engines and any number of
generations:

| theorem | states |
|---|---|
| `InductiveInvariant` | `Spec => []IInv` |
| `EngineStaysOwned` | `Spec => []EngineIsOwned` |
| `RollbackStaysOwn` | `Spec => RollbackIsOwn`: no rollback kills another generation's process |
| `NoStartUnderLease` | `Spec => NoStartUnderDeleteLease` |

All of them rest on `Numbered`: a generation is given to one request, its workers
carry a number that is not ahead of the epoch and that no stop has. The code takes
the child from its slot under one lock and compares epochs under another; what makes
that sound is `Guarded` (one start at a time), `Emptied` (from its kill to its spawn
a start finds the slot empty, afterwards its own child or nothing) and `WorkersOwn`
(the same for a worker of the current generation). `Stopped` says that what a stop
nobody has superseded has done stays done, `Unleased` that a start and a delete
lease of its model exclude each other.

### 4.6 Image runs

`SdEngineProofs` proves, for all sets `Runs` and `Models`, every assignment of models
to runs and any number of images and stops:

| theorem | states |
|---|---|
| `InductiveInvariant` | `Spec => []IInv` |
| `ProcessStaysInHand` | `Spec => []ProcessIsInHand` |
| `CancelStaysFinal` | `PendingSuffices` implies `Spec => CancelIsFinal` |

`PendingSuffices` says that there are not more runs than cancels that can be
remembered. It cannot be dropped: the 65th cancel of a run that has not begun
pushes out the first (`engine_sd.rs:502`), whose run then starts. `MCSdEngine` meets the
hypothesis with two of each. `ProcessIsInHand` follows from `Locked` (the generate
lock is held by the one run between admission and answer, and the active model is its
model), `Slotted` (the slot holds the only process, of a run that polls) and `Cleared`.
`CancelIsFinal` speaks of runs in `named`; a cancel after the route's own report is
not among them (section 5.2). `Reported` is what makes the difference: a run that goes on
under a final phase was revoked or was ended by its route (`client` is "told").
For the cancel, `Named` says where its trace is: in the queue before the run begins, and from
then on in an epoch that has moved on. `Distinct` (no run is remembered twice)
makes the taking of one entry the end of it; `NobodyIsForgotten` is the counting
argument, with the library's facts on cardinality and sequences.

### 4.7 Assets and their files

`AssetPurgeProofs` proves, for all sets `Assets`, `Paths`, `Purges`, any number of
failing calls and crashes and the assumptions on names of section 2.3:

| theorem | states |
|---|---|
| `InductiveInvariant` | `Spec => []IInv` |
| `BytesAreNeverLost` | `SweepsWhenWhole` implies `Spec => []RowsKeepTheirBytes` |
| `OnlyTheSweepLoses` | without it: a row loses its bytes in a step of the sweep only, and only when they were quarantined |
| `FilesStayAccountedFor` | `SweepsWhenWhole` implies `Spec => []FilesAreAccountedFor` |
| `StartsRepair` | `SweepsWhenWhole` implies `Spec => StartRepairs` |
| `PromisesStayKept` | `SweepsWhenWhole` and a single purge imply `Spec => PromisesHold` |

`SweepsWhenWhole` is a restriction of the model and not a fact about the code: section
5.2 shows what happens without it, and `OnlyTheSweepLoses` that this is the only way
in which a row can lose its bytes.

The strengthening is about the local variables of purges. `Claims`: the
paths that a purge has still to delete, is working on or has staged belong to its
targets and, but for bundled samples, to no other row. The purge looks at the
survivors once and acts for many steps; that no row with such a path appears
meanwhile is what the fresh names of uploads are for (`Uploads`). `Single`, a part of
`FilesAreAccountedFor`, says that a
file which is not a sample never exists under both of its names, so that neither
rename overwrites and the repair does not refuse; `Held`, that as long as no call has failed somebody will put a
quarantined file back; `Quiet`, `Listed` and `Whole` are about the sweep and the
repair, which run alone and have listed what they must. Lemmas on the form of a
step (`PurgeForms`, `DiskForms`, `StagedAppears`, ...) say what any step may do to one
variable; the conjuncts of `IInv` are preserved by reference to them.

The answers of a purge are true only when it is alone: for two that overlap TLC
finds both kinds of answer false. `Alone` follows
the one purge through staging, deletion, commit and undo.

### 4.8 Restores

`WorkspaceRestoreProofs` proves, for every set `Assets` and all bounds on restores,
crashes and faults (`BoundsAreNaturals`):

| theorem | states |
|---|---|
| `InductiveInvariant` | `Spec => []IInv` |
| `WorkspaceStaysWhole` | `Spec => []WorkspaceIsWhole`: settled means all old or all new, a complete tree of each root always survives, an export is of one workspace |
| `PreflightsAlwaysPass` | `Spec => []PreflightsPass`: no native check refuses a recovery or a restore, and what is not live is journaled |
| `RestoresAreAtomic` | `SplitIsLeftAlone` implies `Spec => ImplementsAtomicWorkspace` |

The invariant says what a new server finds, whichever step was interrupted. Journal,
marker, rows and directories are in one of three relations. `Settled`: nothing is
journaled, the live trees are those of the rows and nothing else is there.
`Undecided`: the journal names a restore that the rows do not, and each root either has its
old tree where it was (`InPlace`) or has it set aside under `previous` (`SetAside`), with nothing,
the new tree, or a directory that a start or a request has made in its place (`Missing`,
`NewInPlace`, `Substituted`). `Decided`: the rows are those of the journal's restore, and
each root has its new tree (`Renewed`). The commit moves all parts from the second relation to
the third in one step. `Numbered` is why the marker tells the two apart: it counts
exactly when the rows belong to the journal's restore. `Authorized` ties the staging authority in
native memory to the journal. `Journaled`, `Staging` and `Recovering` say what holds at
each step of a restore and of a recovery, which is what the next preflight asks.

Nothing in `WorkspaceIsWhole` says what a rollback finds half done or where an old tree is while two
roots are at different steps; without the case split by root it is not inductive.

The steps come in classes. Lemmas on forms (`DurableForms`, `AuthorityForms`, `PinForms`,
`UndoForms`, `SwapForms`, `SweepForms`, ...) say what any step may do to one variable, and
lemmas on one root (`UndoRoot`, `SwappingRoot`, `PlaceholderRoot`, ...) where it goes from each
form. Each conjunct of `IInv` is preserved by reference to these. `UsedAtMost` and `NewIdentities` are the
counting argument for new directories.

The refinement maps a root to its current tree: the live one if it belongs to the rows,
else the one set aside. `CurrentKept` says that no rename, no removal and no crash changes it;
`CommitRefines` and `AddRefines` are the two steps that do. `SplitIsLeftAlone` cannot be dropped:
section 5.2 shows a request that adds to a workspace which a failed rollback left split.
The two invariants do not need it.

### 4.9 Model-checked only

- Liveness (`ExclusiveWorkGoesOn` and the other leads-to properties): the fairness of
  section 3.2 and `ENABLED` are out of reach of the prover.
- `CanvasWrites`, `CanvasSync` and `AgentCanvas`, whose properties are checked on the runs
  only. The snapshots of `AgentCanvas` are filtered with `SelectSeq`, a recursive
  definition that no installed prover can unfold.

## 5. What the checks found

### 5.1 What holds although it looks doubtful

- A cancel that is accepted while the rename of a download is under way wins:
  the file stays, the job is canceled (`Publish`, `StatusIsTrue`).
- The renewal of a delete lease looks for a download that owns the destination.
  While a lease is held nobody can become one, so the check never refuses
  anything in the instances: it is a precaution, like the second look of the
  publishing rename at the part it hashed.
- A lost answer to a lease request leaves a lease that nobody knows of; a minute
  later it is gone (`DownloadsEnd`).

### 5.2 Statements of the source that do not hold

Each line can be reproduced with its own instance,
`tlc -config <cfg> <module>` (the module is the name of the .cfg up to its last
word). Where two properties share a .cfg, it checks the one and names the other in a
comment: put that one in its place.

| instance | property | the source says | what happens |
|---|---|---|---|
| `MCWorkspaceRestoreStuck` | `BootCanRollBack` | `workspace-restore-journal.ts:366`: a crash is reconciled "into a deterministic old+old or new+new state" | a promotion and its rollback fail; a request recreates the missing media root (`storage.ts:180`); the native rollback accepts an empty placeholder only and refuses on every start |
| `MCAssetPurgeSweep` | `OwnedFilesAreSwept` | `storage-reconcile.ts:45`: the file of an asset "is never mistaken for an orphan" | after a purge whose rollback failed the only copy has its quarantine name and is deleted (`storage-reconcile.ts:65`) |
| `MCAssetPurgeRewritten` | `EveryStartSucceeds` | `asset-purge.ts:111`: the quarantine path "is reconciled on the next desktop bootstrap" | a purge holds a bundled sample in quarantine, a read writes the sample again (`assets/[id]/route.ts:98`), the server dies: each start finds both names and throws (`storage.ts:866`) |
| `MCAssetPurgeSweep` | `TrashHoldsWhatIsPurged` | `assets/trash/route.ts:7`: purge "every soft-deleted asset" | ids read earlier are deleted, an asset restored meanwhile with them (`asset-purge.ts:92`) |
| `MCCanvasWritesFlush` | `FlushResolves` | `latest-write-queue.ts:21`: flush resolves "after pending writes and bounded retries settle" | a flush beside an armed retry timer is never resolved (`latest-write-queue.ts:162`), later exits are refused |
| `MCCanvasWritesFlush` | `NoLateOverwrite` | `latest-write-queue.ts:31`: "prevents a slow older request from landing after a newer state" | a request that timed out on the client is stored after a newer one (`latest-write-queue.ts:77`) |
| `MCCanvasSyncDrift` | `ResyncRepairs` | `use-canvas-authoritative-sync.ts:146`: a resync, "so the UI never drifts from storage" | after a refused move the resync brings the same property value, and the stage leaves the node where it was dragged |
| `MCGenerationJobsFiles` | `StatusIsPersisted` | status route, line 3: it "just reflects the latest persisted state" | its update matches no row because the job completed meanwhile, and the answer is FAILED all the same (`status/route.ts:66`) |
| `MCGenerationJobsFiles` | `RowsHaveTheirFiles` | `replacement-layer.ts:62`: when the layer is not saved "the new asset/file" are "cleaned up in the catch" | the deletion of the row fails and is swallowed (`:91`), the file is deleted all the same (`:92`): a row without bytes |
| `MCAgentCanvasRestore` | `RestoreIsUndoable` | restore route, line 5: a snapshot is captured "so the restore itself is undoable" | a session full of manual snapshots skips it (`canvas-snapshot.ts:97`) and the restore goes on |
| `MCResidentEnginesStatus` | `StatusIsTrue` | `engine_llama.rs:16`: "snapshot of the active embedded engine" | a stop clears it after a newer start has announced itself (`engine_llama.rs:438`) |
| `MCSdEngineLate` | `CancelIsIsolated` | `engine_sd.rs:632`: "Cancel only the matching run" | cancelling the run that generates advances the epoch of the whole runtime (`engine_sd.rs:652`); a request that waits for the generate lock is answered as canceled |
| `MCSdEngineLate` | `EveryCancelStops` | `engine_sd.rs:632`: "Cancel only the matching run" | the route lost the answer and reported "failed" (`local-sd.ts:314`, `images/route.ts:352`), the phase is final; a cancel of the batch that goes on returns false (`engine_sd.rs:649`), and the next image spawns |
| `MCModelDownloadsReason` | `ReasonStays` | `download.rs:1009`: "Normal paths already committed a terminal state", the guard is for a task that panics | the guard writes "error" over "error" (`can_commit_download_status` allows an equal status, `download.rs:2322`), so the reason of every failed download becomes "Download task stopped unexpectedly." |
| `MCModelDeletionCrash` | `AtomicAfterAnyCrash` | `local-model-files.ts:438`: "a crash afterwards can restore every logical owner"; `:549`: recovery finishes "committed cleanup after a process crash" | a stop between marker and journal resurrects the record of a deleted model (`local-model-files.ts:489`); a rollback that stops after the journal is gone leaves registry and settings changed (`route.ts:676`) |
| `MCModelDeletionRetry` | `DeletedStaysDeleted` | `route.ts:692`: after a rollback that failed, "Restart Studio and try again", marked as retryable | the user tries again without a restart, after this answer or after a staging that could not be undone: the second request finds no files, commits its own journal (`local-model-files.ts:363`) and answers deleted; the next start rolls the first journal back, and the model returns |
| `MCModelDeletionRetry` | `FailedIsWhole` | `route.ts:682`: the rollback restores the record of the model | the registry dropped the record and its reply was lost, so `registryRemoved` is not set (`:671`) and the rollback skips the record; a failed deletion leaves files without a record |

The passing runs state what holds beside these: `SplitIsLeftAlone` (an asset added
to a workspace that a failed rollback left split goes with the part that the next
rollback discards), `SweepsWhenWhole` and `StraysAreQuick` are TRUE; `Recreated`
(a request made the missing media root) and `hit` name the windows of a restore
and of a deletion; `WrittenAgain`, `late` and `swallowed` name a sample that exists
twice, a cancel that came after the route's report, and a failure nobody was told of.

## 6. Not modelled

- Pure translation and I/O: providers, catalogs, prompts, schemas, the user
  interface, build scripts, the ComfyUI bridge, secrets.
- The table of native requests (`http_bridge.rs`) and the boot, reset and shutdown of the shell (`lib.rs`).
- What a language model chooses: the agent's tools are called in any order.
- Two server processes on one profile (the shell's profile lock excludes them).
- Power loss between a rename and its flush.
- The change of canvas session, and the drawing state with its epochs.

## 7. Plan

1. `NativeRequests`. The table of finished requests, delayed execution of a call
   that timed out (`native-profile-fs.ts:735`), composed with `WorkspaceRestore`.
2. Composition of gate and recovery: the shared caller that awaits the
   single-flight recovery (`workspace-restore-journal.ts:441`).
3. The change of session on the canvas, composed of `CanvasWrites` and
   `CanvasSync`.
4. The heartbeat of `ModelDownloads` composed with the steps of `ModelDeletion`.
5. Proofs: `WhatWasToldStays` and `MovesAreKept` of `CanvasSync`; `QueueKeepsItsBooks`
   of `CanvasWrites`; a theorem that a recovery which
   is not disturbed by a request that recreates a root never goes back.
