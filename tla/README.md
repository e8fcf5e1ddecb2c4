# A formal model of the job worker of Sofie Core

Sofie Core automates television production: a Meteor application keeps
rundowns in MongoDB, a *job worker* changes them (ingest from a newsroom system,
take, next, hold, activation), and gateways play the resulting timeline.
Everything that changes a rundown is a **job**, run by a thread of the worker
under a **lock**, on a **write-back cache** that is saved at the end. These three
mechanisms are what all other logic relies on: `StudioLocks`, `WorkerLoop` and
`DbCache` model them; `StudioLocks` is shown to be the `LockService`, and `WorkerLoop` the
`JobService`, that the rest takes them for. On them stand the models of the logic itself: `Playout`, which
part is on air and which is next while users, gateways and ingest change it;
`RundownMoves`, which playlist a rundown belongs to while the newsroom system and users
move and remove it; and `DeviceCommands`, how a gateway is asked to do something and
its answer found.

Contents: [files](#files), [the system](#the-system),
[what is hard](#what-is-hard), [the modules](#the-modules), [the runs](#the-runs),
[fairness](#fairness), [the proofs](#the-proofs),
[where the code and its claims differ](#where-the-code-and-its-claims-differ),
[what is not modelled](#what-is-not-modelled), [plan](#plan).

## Files

| file | what it is |
|---|---|
| `StudioLocks.tla` | lock table, locks of the threads, the part of the worker loop that frees locks |
| `LockService.tla` | what it promises: one critical section per resource |
| `StudioLocks_proofs.tla` | its type invariant, mutual exclusion, that no waiter is forgotten and that it implements `LockService`; that a lock is in the table once, that nothing is left there between jobs and that nobody is overtaken, proved |
| `StudioLocksMC.tla`, `StudioLocks*.cfg` | its instances for TLC |
| `WorkerLoop.tla`, `WorkerLoop*.cfg` | Meteor's job queue, the worker loop, restarts, the watchdog, invalidation |
| `JobService.tla` | what they promise to callers: one job at a time, in order, once |
| `WorkerLoop_proofs.tla` | its type invariant, that no caller is forgotten, no job unwatched, no invalidation lost, and that it implements `JobService`, proved |
| `DbCache.tla`, `DbCacheMC.tla`, `DbCache*.cfg` | the collections of a cache, save, discard, drafts |
| `DbCache_proofs.tla` | its type invariant and what a save, a failure and a discard leave in the database, proved |
| `Playout.tla`, `PlayoutMC.tla`, `Playout*.cfg` | the selection of a playlist: activation, reset, take, set next, hold, late reports, ingest commits |
| `Playout_proofs.tla` | its type invariant, that the selection is sound and refers to what exists, and the rest of its properties, proved |
| `RundownMoves.tla`, `RundownMovesMC.tla`, `RundownMoves*.cfg` | rundowns and playlists: updates, removals, moves, orders, as jobs of two threads under nested locks |
| `RundownMoves_proofs.tla` | that none on air leaves its playlist, and that its two threads never wait for each other, proved |
| `RundownHomes_proofs.tla` | its type invariant, that no rundown is lost or unsynced, and that users' orders stay, proved |
| `Filter.tla`, `Filter_proofs.tla` | `Array.filter` by positions, and what a filtered array has, proved |
| `DeviceCommands.tla`, `DeviceCommands*.cfg` | a command document between a caller, the database, a gateway and the sweep |
| `DeviceCommands_proofs.tla` | its type invariant, that nothing is executed twice and that no caller is stranded, proved |
| `PROJECT.json` | components, runs, the source lines of every definition, mutants, hazards, findings, theorems |

    tlc -workers 2 -config StudioLocksMC.cfg StudioLocksMC     # any run of PROJECT.json
    tlapm StudioLocks_proofs.tla                                # the proofs; so every other *_proofs module

Definitions whose comment begins with "Mutant:" are not part of the model: each is
a plausible bug of the definition after it, kept to show that a property would
notice it (PROJECT.json, "mutants").

## The system

Paths are relative to `src/`; `jw/` is `packages/job-worker/src/`.

| component | where | state | operations | talks to |
|---|---|---|---|---|
| Job queue of Meteor | `meteor/server/worker/worker.ts` | per queue: jobs, the pending wait of a worker; running jobs and their completion handlers | queueJob, getNextJob, waitForNextJob, interruptJobStream, jobFinished, restart of the worker process | worker process, by IPC; callers, by promises |
| Worker loop and thread lifecycle | `jw/workers/parent-base.ts`, `worker-set.ts`, `{studio,ingest,events}/` | per thread: status, watchdog, pending invalidations, terminate promise | init, run job, invalidate, restart, watchdog, terminate | Meteor's queue; the thread; the lock table |
| Lock table of a studio | `jw/locks.ts` | per playlist and rundown: holder and waiting workers | handleLockEvent, lockNextWorker, releaseAllForThread, changeEvent calls | every thread of the studio |
| Locks of a thread | `jw/workers/locks.ts`, `context.ts`, `jw/jobs/lock.ts`, `jw/playout/lock.ts`, `jw/ingest/lock.ts` | per lock: locked, pending acquisition or release, timeout | aquire, release, changeEvent, cleanupResources | the lock table, by IPC |
| Write-back database cache | `jw/cache/`, `jw/*/cache.ts` | per collection: entries with inserted/updated flags, null for removed; deferred functions | insert, update, replace, remove, drafts, discard, save | MongoDB; runs under a lock |
| Cache invalidation | `jw/workers/worker-set.ts`, `caches.ts` | a summary of what changed | change stream → queue → thread | MongoDB, worker loop |
| Worker data cache | `jw/workers/caches.ts` | studio, show styles, blueprints and their processed configs | invalidateWorkerDataCache, lazy loads | jobs of the thread |
| Playout | `jw/playout/` | playlist: previous/current/next part instance, hold state, activation id; part and piece instances | activate, take, set next, hold, ad-libs, timing callbacks | write-back cache, timeline, playlist lock |
| Ingest | `jw/ingest/`, `rundownPlaylists.ts`, `rundown.ts` | ingest data, rundowns, segments, parts; playlists they belong to | update from NRCS, commit, move between playlists, removal | rundown lock, then playlist lock |
| Timeline and lookahead | `jw/playout/timeline.ts`, `lookahead/` | none | generation of timeline objects from the cache | playout gateway |
| External message queue | `jw/events/ExternalMessageQueue.ts` | messages: tries, last try, errors, sent, hold, expiry; messages being sent | trigger, send, retry | external systems |
| Peripheral device commands | `jw/peripheralDevice.ts` | command documents with time sent and reply | execute, reply, timeout | gateways |
| Gateways and their connection | `packages/server-core-integration`, `playout-gateway`, `mos-gateway` | DDP connection, subscriptions, watchdog, devices | connect, reconnect, ping, destroy | Core, by DDP; devices |
| Client, publications, blueprints, migrations | `meteor/` | user interface, published documents | | Core |

How they interact. A caller in Meteor queues a job and waits for a promise. The
loop of the worker process *pulls*: it waits for a job, handles invalidations that
gathered meanwhile, pops a job and calls the thread, a child process. The handler in
the thread takes locks from the table in the worker process (events one way,
`lockChanged` calls the other), loads a cache from MongoDB, changes it, saves it,
and releases its locks. After every job the loop frees, in bulk, whatever the
table still has for the thread. Processes die independently: threads are
restarted by threadedclass or by the watchdog of the loop, the worker process by Meteor.

What makes each of them correct:

- *queue and loop*: every caller is answered exactly once; a hung job is ended;
  the thread is used only when it is initialised; a changed document is read again;
- *locks*: one critical section per playlist or rundown; no waiter forgotten, no
  second grant, order of requests kept; no deadlock between nested locks; nothing is
  left of a job that is over;
- *cache*: what is saved is what the operation saw; an operation that fails before
  its save changes nothing; the timeline is stored first;
- *playout*: one active playlist per studio (and a rehearsal never beside a live
  one); what is on air is never removed; previous/current/next are distinct,
  existing instances; hold moves only forward;
- *ingest*: a rundown belongs to one playlist, also after moves that cross; none that is on
  air is moved or removed; what a user chose stays;
- *messages*: each should be sent at least once before it expires, and not while on hold;
- *commands*: a caller is always answered, with the device's answer if there is one in time; a
  device does a thing once; no document stays.

## What is hard

PROJECT.json "hazards" lists every place with its line, and the properties that watch
it. In short:

- *messages that cross*: a grant that arrives after the acquisition timed out; a
  release in bulk crossing an acquisition; a `lockChanged` call to a process that died;
- *state used after an await*: pending invalidations taken and reset before the
  call; a thread whose status changes between the check and the job;
- *two actors, one thing*: the loop's restart and the watchdog's restart of one thread;
- *crash between two steps*: between two bulk writes; between a grant and the job that
  wanted it; between the pop of a job and its completion;
- *part of it fails*: one collection of a save is refused; one branch of a
  `Promise.all` fails while another still waits for a lock;
- *something must happen eventually*: the wake-up of a waiting worker, the
  settlement of each caller, the grant of each lock;
- *sequences of legal calls*: insert, remove and insert of one id in one cache; a reset
  while the first part is next, then a take;
- *late answers*: the gateway reports the start of a part that a user has meanwhile
  taken, left or reset;
- *a place between two places*: a rundown that moves belongs to `__TMP__` between two locks,
  where no other job finds it;
- *state made anew*: a document rebuilt from fresh data with a list of fields to keep;
- *two clocks*: the timeout of a caller and the age at which its document is swept;
- *delivery*: a command published twice, a reply lost with the connection, a process that dies;
- *writes that nobody awaits*: a commit marks the instances of parts that are gone and at once
  reads the instances again.

## The modules

### StudioLocks

The lock table (`holder`, `waiting`) is `LockResource.holder` and `waitingWorkers` of
`jw/locks.ts`. A lock is a record of its thread, its resource and an id: the code's
id is a fresh random string, so two calls of `lockPlaylist` never share one. `toParent`
is the channel of lock events, in order, because node's IPC is; a `lockChanged` call
is an independent promise, so `calls` is a set. `acquiring`, `releasing`, `held` are
what the thread's `LocksManager` and lock objects know.

| action | code |
|---|---|
| `HandleEvent` → `HandleLock`, `HandleUnlock` | `handleLockEvent`, the exit of the process, the result of a job |
| `LockNextWorker`, `ReleaseAllForThread`, `LockChangeFails` | `lockNextWorker` with its failure handler, `releaseAllForThread` |
| `InitWorker`, `StartJob`, `ReleaseAll`, `Terminate`, `StopThread` | the worker loop of `parent-base.ts`, as far as it decides when locks are freed; a loop that waits for a job while it is terminated still runs one (`idle`), one that has just freed its locks does not (`leaving`) |
| `Acquire`, `Release`, `LockChange`, `AcquireTimeout`, `ReleaseTimeout` | `aquire`, `release`, `changeEvent` and their timeouts |
| `HandlerReturns`, `HandlerAbandons`, `FinishJob` | the end of a handler, `cleanupResources`, the return of `runJob` |
| `Crash` | the process of a thread dies; a suffix of its events is lost |

Locks nest as `Inner` says; the code's nestings are rundown → playlist (ingest commit, and the studio's move of a
rundown, `rundownPlaylists.ts:311`) and playlist → playlist (forced activation), all of them in `StudioLocksMC`.
A handler can end while a branch of it still waits for a lock or for its release (`HandlerAbandons`): such a lock is
`abandoned`, as is one that a branch gives back itself after the end, so that `cleanupResources`, which looks only at locks that are
held, does not wait for it. An abandoned branch takes no further locks in the model. Mutual exclusion is claimed for locks that still protect something: not
abandoned, and not of a thread that is being terminated (see the findings).

### LockService

The promise that every job relies on, with one variable, `inside`: the critical sections
that are being executed. `Enter` begins one if there is no other on its resource, `Leave` ends any number
at once (a thread that dies, or is terminated, ends all its own). `StudioLocks` implements it with
`inside <- Protecting`, the locks that still protect something: `ImplementsLockService`. Everything
between, such as events, grants and refusals, waiting, bulk releases and timeouts, is a stutter of `LockService`.
The other models take a lock as `LockService` has it: a job of `Playout` is one action, and in `RundownMoves` a
lock is free or has a thread.

### WorkerLoop

One queue, one loop, one thread. `pc` is where the loop is between two awaits, `call` the
state of its call to the thread; everything the code does between two awaits is one
action, since all three processes run a single-threaded event loop. `interrupts` are
`interruptJobStream` calls under way. A handler that throws has an error for its result, which `runJob` returns like any other
(`ChildReturns`): the job was done. `stale` says that the thread's cache is older than the database, and
`told`, `pending` follow the change through the stream to the loop.
`threadedclass`, which starts, kills and restarts processes, is external, modelled from how `parent-base.ts` uses it: `Dies`,
`AutoRestart`, `RestartKills`, `RestartStarts`, `RestartFails`. Calls between Meteor and
the worker process are atomic except those the loop awaits for long (`wait`) and the
interrupts; a reply lost in between is `WorkerDies`.

### JobService

What a caller of `queueJob` relies on: how far each job is (`stage`), which of the waiting jobs came first
(`before`), and what its caller knows (`outcome`). Jobs are worked on one at a time, in the order of queueing, each once; the caller is told
once, and of success only if the job was done; whoever works on a job may be lost, which its caller is told as a failure.
`WorkerLoop` implements it (`ImplementsJobService`) with the stage of a job read off the queue, the loop's `pc` and
its call to the thread. Interrupts, waits, restarts, initialisations and invalidations are stutters of it. A thread that dies
during a job and is restarted never runs it again, and a result that comes after the death of the worker process is never told twice.

### Filter

`Only(q, S)` is `Array.filter`: the entries of `q` that are in `S`, by the positions they have. The locks of a thread are
taken out of the queues with it, the order of a playlist and the running order of the parts
are made with it. `SelectSeq` is the same
(`OnlyIsFilter` in `StudioLocksMC`), but its recursive definition cannot be reasoned about.

### DbCache

`documents` is the `Map` of entries of each collection: `Removed` is the null entry that
marks a removed document, `Absent` no entry. `writes` are the operations of an unordered
bulk write that are still to happen; MongoDB applies them one at a time, in any order, or refuses one.
`updateDatabaseWithData` resets the flags *before* the write is awaited, and so does the
model. `OpenDraft` and `ApplyDraft` are the second cache that a blueprint edits during an ingest
update (`updateOtherCacheWithData`). `Running` is when the operation can change its cache: while it
runs, and while the deferred functions do.

### Playout

A job holds the lock of its playlist (`StudioLocks`) and its cache is saved as a whole or
discarded (`DbCache`), so a job is *one* action here, and a job that throws is no
step. It works on a record `w`, its cache: the playlist's document `doc`, the instances
in the database `at`, and `mem`, those that `loadContent` has loaded. The functions of `lib.ts`
that change the cache are operators from `w` to `w`, and an action is their composition, in
the order of the calls, ended by `Save`.

| state | code |
|---|---|
| `playlist` | the `RundownPlaylist` document: activation, rehearsal, loop, hold state, whether next was set by hand, previous, current and next instance |
| `inst` | the part instances, and the sets of those that are rehearsed, taken, started, reset, orphaned, or of the present activation (`mine`) |
| `parts` | the parts that are in each playlist at present |
| `reports` | "part playback started" of a gateway, on its way: late, repeated, out of order |

| action | code |
|---|---|
| `ActivateRundownPlaylist`, `ResetRundownPlaylist`, `DeactivateRundownPlaylist` | the jobs of that name in `playout.ts`, with `actions.ts` and `lib.ts` |
| `TakeNextPart` | `takeNextPart` of `take.ts`, in all three cases of the hold |
| `SetNextPart`, `ActivateHold`, `DeactivateHold` | the jobs of that name; a null part clears the next point; moving it by a number of parts is `SetNextPart` of the part it comes to |
| `PartPlaybackStarted`, `GatewayStarts` | `_onPartPlaybackStarted`; the gateway, which starts what its timeline has |
| `UpdateSegment`, `RemoveSegment`, `RestoreSegment` | the ingest jobs that remove a part or a whole segment, or bring it back: `handleUpdatedSegment`, `handleRemovedSegment` |
| `CommitIngest` | their commit: `updatePartInstancesBasicProperties`, `updatePartInstanceRanks`, the load of the cache and `ensureNextPartIsValid` |
| `SetNext` | `setNextPart`: reuse of an instance, removal of what was not taken, reset of what lies ahead, clean-up of orphans |
| `SelectNext` | `selectNextPart` |

`activationId` is random and only compared: `mine` says which instances have it. The writes of
`updatePartInstancesBasicProperties` are not awaited (see the findings), so `CommitIngest`
reads the instances with any of them done (`Racing`), and they land around the save (`Landed`). `updatePartInstanceRanks`, between the two, is awaited (`Ranked`):
in a segment that changed, and only there, it marks the instances whose part is gone itself, and takes the mark from those whose part is back. Instances that no job will ever load are left out of
`inst`, and reports of them, which are refused whenever they come.
The properties are about the selection as a whole: each needs several jobs, in an order that
users, gateway and ingest choose, to go wrong.

### RundownMoves

Two threads, `ingest` and `studio`, each with one job at a time; `job[t].pc` is the step it
is at. Between two writes that others can tell apart a job is one action.

| state | code |
|---|---|
| `rundown` | the `Rundowns` collection: `home` is `playlistId`, `manual` is `playlistIdIsSetInSofie`, `nrcs` the playlist of its `playlistExternalId`, `orphaned` |
| `playlist` | the `RundownPlaylists` collection: `order` is `rundownIdsInOrder`, `manualOrder` is `rundownRanksAreSetInSofie`, `active`, and the rundowns that the current and the next part are of |
| `data` | the rundowns that `IngestDataCache` has |
| `rundownLock`, `playlistLock` | who has the lock |
| `broken`, `placed` | ghosts: rundowns that a job that did not end has left half way; where a user has put a rundown |

| action | code |
|---|---|
| `UpdateRundown`, `UpdateSegment`, `RemoveRundown`, `UnsyncRundown` | the ingest jobs up to the commit: `rundownInput.ts`, `getRundownFromIngestData`, `runIngestJob` |
| `LeaveOldPlaylist` → `RegenerateOldPlaylist` → `RemoveFromDb`, or `AdoptIntoPlaylist` → `SaveRundown` | `CommitIngestOperation`: under the lock of the old playlist, `__TMP__`, under that of the new one, and the save; or *trapped*, when the rundown is on air |
| `MoveRundown` → `LockMovedRundown` → `MoveOutOfPlaylist` → `RegenerateOldPlaylist` → `MoveIntoPlaylist` → `OrderPlaylist`, or `InsertPlaylist` → `SettleInPlaylist` | `moveRundownIntoPlaylist`, into a playlist or into one of its own |
| `RemovePlaylist` → `ListRundowns` → `CleanupRundown` | `handleRemoveRundownPlaylist`, `cleanupRundownsForRemovedPlaylist`: the rundowns are asked for all at once, and removed in the order in which their locks are free, which is any order |
| `RestoreOrder`, `RemoveEmptyPlaylist` | `restoreRundownsInPlaylistToDefaultOrder`, `removeEmptyPlaylists` |
| `PlayoutJob` | any job of `Playout`, as far as it decides which rundowns are selected |
| `JobFails` | an operation of the database fails, or the thread dies: its locks are freed, what it wrote stays |
| `OrderOf`, `PlaceInOrder` | the order in `produceRundownPlaylistInfoFromRundown` and in the move |

`OrderOf` is without a blueprint's own order. The ingest data of a removed rundown is
removed in parallel with the commit, and stays removed when the commit fails: `SyncedHasData`
excludes those in `broken`. `Housed` excludes them as well, and a playlist whose removal is under way; and
`LiveRundownStays` says nothing of a playlist that was removed as a whole, which is not refused while it is on air, and excludes the playlist `__TMP__`, which ingest makes, by its id, for a rundown that a
failed move has left with the flag.

### DeviceCommands

A caller (`jw/peripheralDevice.ts`) opens
a change stream, sets a timer and inserts a document; each change and the timer make it look
again, one look at a time. Time is `age`, counted from the call.

| state | code |
|---|---|
| `docs` | `PeripheralDeviceCommands`: none, asked, replied |
| `outcome`, `insert`, `timer`, `watcher`, `notice` | the promise, the `insertOne`, `timeoutCheck`, the change stream, a change it has not told yet |
| `check`, `pending`, `removing` | `checkReply`: what the read has given; `pending`; the `remove` that nobody awaits |
| `connected`, `session`, `replies` | the DDP connection, what Meteor has published over it, calls of `functionReply` on their way |
| `observing`, `local`, `executed`, `running` | the gateway: observers, its copy of the collection, `_executedFunctions`, calls of the device |
| `missed`, `times` | ghosts: the last look did not see the document; how often this process has begun a command |

| action | code |
|---|---|
| `Ask`, `WatcherOpens`, `InsertCommand`, `InsertFails`, `Notify`, `TimerFires`, `ReadCommand`, `ReadFails`, `ConcludeCheck`, `RemoveCommand`, `RemoveFails`, `WatcherFails` | `executePeripheralDeviceFunction` |
| `Publish`, `PublishRemoval`, `Connect`, `Disconnect` | `ddpClient.ts`, `coreConnection.ts`: the collection is *not* cleared when the connection is lost |
| `SetUpObservers`, `FunctionEnds` | `setupObserverForPeripheralDeviceCommands`, `executeFunction` |
| `FunctionReply`, `RemoveOldCommand` | Meteor: `functionReply`, `removeOldCommands` |
| `CallerDies`, `GatewayRestarts` | a process dies |

The caller of Meteor (`meteor/lib/api/peripheralDevice.ts`) is not modelled exactly: it observes the document, its clean-up removes the document before the promise is
settled, and it makes each look in one go. What `DeviceCommandsSwept` shows, a last look that finds no document, is the same in both. `Prompt`
keeps the clock from passing the sweep while a caller is acting on its timeout: with timeouts of 3 and
11 s, and a sweep at 20 s, that is many seconds for one read. `DeviceCommandsSwept` is what happens with a timeout beyond the sweep.

## The runs

| run | bounds | what it shows |
|---|---|---|
| `StudioLocksMC` | 2 threads, 1 resource, 2 lock ids, 1 lock per thread at once; timeouts, crashes of both, termination, abandoned branches | exclusion, integrity and fairness of the table; 1.4 million states |
| `StudioLocksLive` | 2 threads, 3 resources, 2 locks per thread: both threads take a playlist in the rundown, the studio also one playlist in the other; the studio thread crashes | every request of an orderly job is granted |
| `WorkerLoop` | a watched job, an unwatched one, a cache clear; 2 changes; any 2 of 4 faults | no caller forgotten, no invalidation lost, no job unwatched; 4.2 million states |
| `WorkerLoopLive` | 2 jobs that may hang; 1 of 4 faults; termination | every caller is answered, or the thread is told to stop; the jobs are run as `JobService` promises (it holds with 3 jobs as well, in three minutes) |
| `DbCacheMC` | 2 collections, 2 ids, 2 values, every initial database; 3 changes, 1 deferred function, 1 fault | what is saved is what was seen; nothing half undone; timeline first; 1.8 million states |
| `Playout` | 1 playlist that loops, 4 parts in 3 segments; a part that ends by itself, and a segment, are removed and come back; 2 instances of the part of that segment, 1 report | what is on air was taken and not reset, what is next was not; a hold is between its parts; late reports put nothing on air again; 66 thousand states |
| `RundownMoves` | 2 rundowns, 2 playlists of the NRCS and one that a user makes; any 3 jobs besides the playout, 1 failure | no rundown is lost, none on air leaves, no deadlock, users' orders stay; 568 thousand states |
| `DeviceCommands` | 1 command, timeout 2, sweep 3; any 3 of 8 kinds of fault | every caller is answered, with the reply if it was stored; once per process; no document stays; 25 thousand states |
| four `violation` runs | the smallest that show it | see the findings below |

Why these are enough. *Locks*: a resource needs one holder, one waiter and one late
message for every race listed above; two ids per thread let a lock that timed out be in the table
while its thread asks again. Resources do not interact except through
nesting, which has a run of its own. *Loop*: a job, its successor and an interrupt suffice
to reach every order of pop, wake-up and invalidation; the second change can come while the first is being read; two faults let the second hit the
recovery from the first. *Cache*: ids and collections are independent but for the order of the saves, so
two of each and three changes reach every state of an entry (new, updated, removed, inserted
again) together with a neighbour.
*Playout*: three parts are previous, current and next at once; the second segment is entered, left and, by the loop, entered again; the third comes and goes. Two instances
of a part are the one on air and the one that is next; `MaxCopies` bounds the instances, and `Repeated` the parts of which there are two that a job would load; a job that would exceed them
is not considered. The theorems have neither bound. (With three parts, no segment that goes, and two instances of each, the same holds, in 92 thousand states; and with two of `a1` instead of `c1`, in 95 thousand.) One report on its way
suffices, since it may stay there while any number of takes and resets pass it. Without
the loop (`Loops = {FALSE}`) the same properties hold. Two playlists touch each other only through the
selectors of a reset (see the observations).
*Moves*: two rundowns are one that stays and one that moves, or two that cross; a third playlist is the one to
flee to; three jobs are an update that crosses a move, and the update after it. *Commands*: two commands share only the
connection and the deaths of processes, which hit both alike (with two, and one fault, the invariants hold as well, in 1.5 million
states); three faults let the third hit the recovery from the second; timeout and sweep
differ by one so that both the late reply and the sweep meet the removal. Counters that the code does not bound (`MaxLocks`,
`MaxFaults`, `MaxChanges`, `MaxHooks`, `MaxOps`, `MaxCopies`, `Repeated`, `MaxReports`, `MaxJobs`) are bounded by constants of that name.
Symmetry is used only in safety runs, over ids, values and threads that nothing tells apart.

## Fairness

Weak fairness for what an event loop does by itself: handling an event that arrived,
answering a call, rejecting a call to a dead process, restarting a process that closed, and the steps of
the loop. Strong fairness for `Release`: a handler leaves its `try` block, but it may be interrupted
by a nested acquisition any number of times before. No fairness for anything that users, newsroom systems or the
environment decide: a job is queued, a lock asked for, a fault, a timeout, `terminate()`. In
`WorkerLoop` a job has no fairness either: it may hang for ever, and it is the watchdog
(`WF(Watchdog)`, a timer) that ends it. `Playout` has no fairness: users, gateways and the newsroom
system decide what happens next, and it has safety properties only; `RundownMoves` likewise, where
`NoCircularWait` says that whoever waits, waits for a thread that can go on.

In `DeviceCommands` the database answers, change streams open and tell, timers fire, the clock runs and Meteor
sweeps. The gateway is given nothing: it need not connect, its functions need not end, and the caller is
answered all the same. Faults are bounded, so that an operation that is tried once may fail, and the
next one is answered.

`StudioLocksLive` excludes timeouts, so that a request is answered by a grant and not by giving up;
with timeouts every request ends trivially. It has every nesting of locks there is, but no job of `RundownMoves` step by step; that those never wait
for each other in a circle, at whatever step they are, is `NoCircularWait` there. `WorkerLoopLive` excludes the failure to *start* a process, in which two overlapping
restarts can leave the thread closed with nobody to try again (a hazard with a note), and the
failure to kill one, which is a finding.

## The proofs

`StudioLocks_proofs` proves, for any threads, resources, ids, nesting, and bounds, crashes and timeouts
allowed or not,

- `TypeCorrect`: `Spec => []TypeOK`;
- `MutualExclusionHolds`: `Spec => []MutualExclusion`;
- `ImplementsLockServiceHolds`: `Spec => ImplementsLockService`, the refinement.

The only assumptions are `InnerAssumption` and `MaxLocksAssumption`. Mutual exclusion is not inductive: the inductive
invariant `IInv` says where a lock can be while it is being granted or released.

- `GuardedIsHolder`: a lock that is held, or whose grant is on its way to a thread that still
  wants it, is the holder in the table. Two locks of one resource that are both held are then both
  its holder, hence equal. That is the theorem.
- `ReleasedIsGone`: an unlock on its way is of a lock that is neither held nor wanted, so that
  freeing it takes nothing from anybody.
- `LocksOfThread`, `JobEndsOnce`: the loop frees the locks of a thread only when its job
  is over: the result is sent once, and the close of a process is the last thing heard of it.
  Without these the release in bulk could hit the *next* job of the thread.
- `Disjoint`, `WaitingInPlace`: a lock is not wanted, held or being given back at once, and waits for its own resource.

The refinement rests on the same `IInv` (`InvHolds`). The initial states map to no section. A step either adds
nothing to `Protecting`, and is a `Leave` or a stutter, or adds one lock (`SectionsBegin`): only a grant that reaches its thread,
`LockChange`, adds to the locks that are held, and only while its job still runs. That the resource is then free of
other sections is mutual exclusion *after* the step.

`StudioLocks_proofs` also proves `NoForgottenWaiterHolds`: `Spec => []NoForgottenWaiter`, which is inductive with
`TypeOK` alone: `lockNextWorker` serves every resource it is called for, and it is called for every
resource that is freed.

About the table itself, from the same assumptions,

- `InTableOnceHolds`: `Spec => []InTableOnce`;
- `NothingLeftBetweenJobsHolds`: `Spec => []NothingLeftBetweenJobs`;
- `NoOvertakingHolds`: `Spec => NoOvertaking`.

They need `TableInv` beside `IInv` (TLC finds it invariant as well). That a lock is in the table once depends on the channel of
events: a request on its way is of a lock that the table does not know and that no other request is of
(`RequestsAreNew`), and it is ahead of the result or the end of its job (`RequestsPrecedeResult`). So when the loop
sees the result of a job no request of it is left to come, and a release in bulk leaves nothing; `NothingLeftBetweenJobs` is
inductive only with these two. For the table itself there are three lemmas, one for each thing that happens to it (a lock appended,
the next lock served, the locks of a thread filtered out), each of which says that no waiting lock is passed by a later one.

`Filter_proofs` has what these and the next proofs need of `Array.filter`: the filtered array has exactly the entries that are
in the set (`OnlyHas`), none twice that was not twice before (`OnlyOnce`), in the order they had (`OnlyPrecedes`). The positions
that are kept are counted, and the least-element argument on natural numbers takes the place of the recursion of `SelectSeq`.

`WorkerLoop_proofs` proves, for any jobs, changes, interrupts, and numbers of faults,

- `TypeCorrect`, `ReadyIsInitialisedHolds`, `NoCallerForgottenHolds`: without any condition;
- `ImplementsJobServiceHolds`: `Spec => ImplementsJobService`, likewise;
- `RunningJobIsWatchedHolds`: if `"kill fails"` is not among the faults, of which `WorkerLoopKillFails` is the counterexample;
- `NoInvalidationLostHolds`: if `"invalidate fails"` is not among the faults and `EarlyChanges = FALSE`: a failed invalidation is only logged, and
  a change before the change streams are open is not heard. Both are in the list of observations or hazards.

The assumptions are those on the constants. The inductive invariant has three parts.

- `LoopInv`: where the loop stands tells whether it has a call under way, a job in hand, or a restart.
- `ThreadInv`: what that tells of the thread: a busy thread is one the loop waits for; an initialisation that has returned left the thread
  initialised; a thread that is to be restarted is dead. It includes `ReadyIsInitialised`.
- `QueueInv`: a job is in the queue, once, or is the loop's, never both; Meteor has a completion handler for the loop's
  job only, and for whoever waits there is one or the other.

`WatchedInv` adds the watchdog for the stage in which the job is sent but not begun. The refinement follows the queue: only `QueueJob`, `InterruptJobStream`, `Pop`,
`JobFinished` and `WorkerDies` touch it or the job of the loop (`OnlyQueueSteps`), and each is one step of `JobService` or, for an interrupt, a stutter; every
other step leaves the queue alone and brings the loop's job at most one stage further (`ProgressStep`).

`DbCache_proofs` proves, for any collections, high-priority collections, ids, values, numbers of changes,
deferred functions and faults,

- `TypeCorrect`, `UndoneIsUnchangedHolds`, `OldOrNewHolds`, `DraftIsAppliedHolds`: without any condition;
- `SavedIsStoredHolds`, `TimelineFirstHolds`: if `MayReinsert = FALSE`. The condition is needed: with
  `MayReinsert = TRUE` TLC finds a counterexample.

The assumptions are those on the constants: the markers `Absent` and `Removed` are neither values nor
entries, `Draft` is no collection, the bounds are natural numbers. The inductive invariant (`Inv` in `DbCache.tla`) follows each
collection through the save:

- `PendingIsUntouched`: a collection that the save has not come to has the documents it had when it was
  loaded, and each clean entry is the loaded document; an entry without the inserted flag has
  a document in the database. This is what makes skipping clean entries, and replacing
  without upsert, correct.
- `DirtyIsUntouched`: what is dirty was not written. `discardChanges` therefore never undoes in the cache what the
  database already has.
- `WritesAreContents`, `StoredOrWritten`: a write in progress is of the document that the cache has now, and
  each document of a collection being saved is either stored or still to be written.
- `WritesAwaited`, `HighPrioStored`: which writes are over at each step, and that the timeline is stored while any
  other collection is written.

`DraftIsCurrent` says that, while a draft is edited, what it left alone is as the collection
has it; with it, one step of `ApplyDraft` gives `DraftIsApplied`.
Both hold on the instance of `DbCacheMC` as well, with `MayReinsert` true and false; they are not in its
configuration, which has only what a reader would ask of a cache.

`RundownMoves_proofs` proves, for any number of rundowns, playlists, jobs and failures, and any default order,

- `LiveRundownStaysHolds`: `Spec => []LiveRundownStays`;
- `NoCircularWaitHolds`: `Spec => []NoCircularWait`.

The assumptions are that the markers `None` and `Tmp` (`__TMP__`) are no ids and no documents. Both follow from one
inductive invariant, `IInv`:

- `Jobs`, `RundownLocks`, `PlaylistLocks`: who has which lock is what the stages of the jobs say. A stage that waits for
  a rundown's lock holds nothing, and one that waits for a playlist's lock holds no other playlist's: that
  no two threads wait for each other follows from this alone.
- `SelectsItsOwn`: what an active playlist selects is a rundown of its own. Stronger than `LiveRundownStays`, it also holds
  for the playlist document that a move has read and has not yet written back (`Present`).
- `HomeInIngest`, `HomeInMove`: what a job read of its rundown under a lock is still true, though it
  gave back the lock of the playlist: between two playlists the rundown is in `Tmp`, where nobody selects it.
  Without these the second half of a move could take a rundown that has been selected since the first half decided that it was not.
- `RemovedIsOff`: a playlist whose rundowns are being removed is not on air.

TLC finds `IInv` invariant on the instance of `RundownMoves` too (1.1 million states without symmetry).

Every step then either leaves a rundown in its playlist or moves one that is not selected (`NoneLost`), and no step
makes a playlist select a rundown of another (`Renewed`).

`RundownHomes_proofs` proves, for the same,

- `TypeCorrect`: `Spec => []TypeOK`, with which the order of a playlist names no rundown twice;
- `HousedHolds`: `Spec => []Housed`;
- `SyncedHasDataHolds`: `Spec => []SyncedHasData`;
- `UserOrderStaysHolds`: `Spec => UserOrderStays`.

Here it is also assumed that the default order is an order of all rundowns (`OrderAssumption`), which sorting them is. The invariant
`HInv` is `Orders` and `Marks` (types), and `HomeInv` of `RundownMoves.tla`, which TLC checked before it was proved:

- `AllHoused`: a rundown is listed by its playlist, unless a job has it in hand (`Away`), a job on it failed (`broken`), or the removal of its playlist
  has still to come to it (`Doomed`). `Housed` says this only of rundowns that nobody has locked, which is not inductive: a move decides about a rundown
  that an ingest job could be updating, and gives back a playlist in between.
- `MadeForUpdate`, `MadeForMove`: a playlist that was made for a rundown lists it when the rundown gets there. The one a user's
  move makes has a random id (`IsNew`), so that nobody else can know it before the rundown is in it.
- `RundownsSynced`, `UpdateSynced`: a rundown without ingest data is orphaned, in the database and in the hands of the job that will save it.
- `WantedIsFair`: the order that a user asks for names the rundown he moves, and none twice.

That an order stays is said with `Precedes`: of two rundowns that the old and the new list both have, the one ahead is still ahead. Every way of making an order
(`OrderOfIsOrder`, `PlaceIsOrder`, `InsertIsOrder`) is shown to be an order of the rundowns it is given, and to keep the one it starts from
where it should.

`DeviceCommands_proofs` proves, for any commands, timeouts, ages and faults,

- `TypeCorrect`: `Spec => []TypeOK`;
- `AtMostOnceHolds`: `Spec => []AtMostOnce`;
- `NoCallerStrandedHolds`: `Spec => []NoCallerStranded`, if `Timeout <= SweepAge`; without that condition
  `DeviceCommandsSwept` is the counterexample.

The first inductive invariant, `Executions`, says that what the gateway has forgotten of a command it executed cannot come back: it
is in no collection and has no document (`ForgottenIsGone`), and before its insert nobody has seen it (`UnseenBefore`). The
second, `Callers`, follows the clock: a timer that is gone fired at `Timeout` (`FiredIsLate`); a caller that still
waits is not yet at the age of the sweep, or is reading (`NotSwept`); so its document is there (`HasDocument`), and it
will look again (`WillLook`).

`Playout_proofs` proves, for any parts, segments, orders, holds, autonexts, bounds of instances and reports, and whether or not a playlist
on air may be reset,

- `TypeCorrect`: `Spec => []TypeOK`, for any number of playlists;

and for one playlist (`OnePlaylist`) in which, if it loops, two parts can be played that ingest does not remove (`AnotherFollows`),

- `SelectionIsSoundHolds`, `SelectedExistHolds`, `HoldSpansItsPartsHolds`, `LoopLeavesNothingHolds`: the invariants of those names;
- `CurrentIsFreshHolds`, `AutomaticNextFollowsHolds`: the action properties of those names.

The assumptions on the constants are that the order names a part once, that the markers `NoPart` and `None` are neither parts nor instances, and that
the bounds are natural numbers. Both conditions are needed. The deferred half of a reset removes and resets instances of every playlist, so with two of them
`SelectedExist` is violated; and a playlist that loops over a single playable part, its first one, makes that part follow itself, so that what is on air is next
(the observations below have both). `SelectNext` is never the part it follows otherwise: `ChosenIsAnother`, which counts the parts of the
running order up to that part.

The four invariants are inductive together with (`SelectionInv`):

- `OnAirIsFound`: what is on air belongs to the present activation, so that every job loads it, and finds what it would replace; what was on
  air before was taken.
- `NextIsUnused`: what is next and belongs to the present activation was not reset. Given up by a reset it may be both: that is what `ResetOnAir = TRUE` allows.
- `LeftIsAround`: `LoopLeavesNothing` with the segment that is on air in the place of "a selected one". A take would otherwise leave the segment before.
- `PartsStay`: ingest removes only what it may remove.

The argument follows the code's own layers. An invariant of a document with the instances there are (`Sound`) is the invariant of one playlist. `SetNextIs` says
what `setNextPart` does to it: nothing that is on air is removed or reset, of what the job has loaded only what was taken and what becomes next stay, and what becomes next is unused. Each job brings its
cache to where `setNextPart` may be called (`Settled`), and is then sound again (`SetNextIsSound`); every job ends in a save of a sound cache (`JobSaves`), after
which what is on air was on air or next before. For a commit that is shown for every set of its own writes that its queries may see (`RacingIs`, `RankedIs`,
`SeenIs`), whichever parts its job removes or restores (`IngestCommits`), and it follows
from what the commit then sees which part it chooses (`CommitFollows`).

TLC finds `SelectionInv` invariant on the instance of `Playout`, and with two instances of `a1` instead of `c1`, playlists of both kinds and `ResetOnAir = TRUE` as well (245 thousand states).
`NextIsPresent` is not among the theorems: it does not hold, as `PlayoutStaleNext` shows.

Only model-checked: every liveness property. Liveness under fairness is out of reach of the proof system.

## Where the code and its claims differ

Each is a run of its own that must fail; PROJECT.json "findings" has the lines.

- `WorkerLoopKillFails`: the watchdog tries once. If the hung process outlives the kill timeout
  the loop waits for it for ever.
- `PlayoutStaleNext`: `await Promise.all([ps])` awaits nothing, so that the next part is validated on what the
  database had before. In a segment that changed `updatePartInstanceRanks` has marked the instance in time; a segment that is removed as a whole is
  not among `changedSegmentIds`, and a part of it that was set by hand, or is next before the first take, stays next.
- `RundownMovesManual`: `getRundownFromIngestData` does not carry `playlistIdIsSetInSofie` over. The first update after a
  user's move keeps the playlist and loses the flag, the second moves the rundown back.
- `DeviceCommandsSwept`: documents are swept at 20 s, the answer to `replaceStoryItem` is waited for 120 s. If a sweep,
  every five minutes, falls in between, the caller is never answered.

Observations: plain in the code, or found by varying a constant of a run; no run of their own.

- `terminate()` frees the locks of a thread whose job still runs (`MayTerminate`; mutual exclusion excludes it by
  `Protecting`), and does not interrupt the job stream, so it waits until some job is queued.
- An id inserted, removed and inserted again in one operation is written by a replace without upsert, and lost
  (`MayReinsert = TRUE`). No caller does this.
- A reset of a playlist on air gives every instance up and then uses the next instance again, if it is of the
  first part; the next take does not find it (`ResetOnAir = TRUE`).
- The deferred half of a reset deletes and resets instances in *all* playlists: with `Playlists = {p1, p2}`, in two studios,
  a rehearsal in one loses what it refers to (`SelectedExist`).
- In a playlist that loops and has a single part that can be played, at the first place, the part follows itself. The search "up until the current part"
  (`jw/playout/lib.ts:197`) then has length 0, which `length || parts.length` (line 119) takes for the whole playlist; `setNextPart` uses the next
  instance again, and what is on air is also next. The proof of `SelectionIsSound` failed there, and TLC confirms it with a `PartOrder` of one part.
- The change streams are opened after the threads have loaded their caches (`EarlyChanges`).
- A save that fails in one collection ends, and the lock is released, while the writes of the others are under way.
- A move whose target has vanished ends with the rundown in `__TMP__`, with the flag that keeps ingest from moving it.
- Commands: a read that fails, or comes before the insert, at the timeout leaves the caller waiting (`missed`); a timer that fires
  a millisecond early by the clock of the check would do the same; a failed insert leaves the timer and the change stream
  behind; a gateway's collection is not cleared by a reconnection, so that commands removed meanwhile stay in it and in
  `_executedFunctions`; a gateway that restarts executes again what is still documented.

## What is not modelled

- *The data of a rundown*: timeline, lookahead, infinites, config preprocessing. Pure functions
  whose difficulty is their data.
- *Fast-track of the timeline and the user action log* in Meteor's queue: they touch no job.
- *CacheObject* (single documents), `markForRemoval` and `updateAll`: the last two have no caller.
- *Callbacks deferred to after a release* (`doAfterRelease`): no state of the locks depends on them.
- *The status of a thread as reported to Meteor*, logging, profiling.
- *The client, publications, migrations, blueprints*: no protocol with the parts above.
- *Playout*: ad-libs and pieces, infinites, disabled pieces, the timings that a stopped part reports, a segment set as next
  (`setNextSegment` passes null for it), segments that are removed while they are on air and stay as orphans, studios without a gateway.
- *Ingest*: what blueprints make of the data, notes, segments that change their id, rundowns restored from snapshots, the order that a
  blueprint gives, and that an update overwrites the playlist's external id of a rundown that a user has moved.
- *Gateways*: subscriptions and their renewal, watchdog, pings, devices, the queue of the MOS gateway; MOS
  changes that are pending for `replaceStoryItem`.
- *The external message queue*: a send that timed out is not cancelled, its message is tried again and
  may be delivered twice; no document promises otherwise, and what to send is chosen by time.
- *The worker data cache*: which cached documents an invalidation discards is a table, without steps of its own.

## Plan

What an extension would take up, in this order; each with its instance, its runs and its mutants.

1. `Playout`: ad-libs queued as a part, segments that stay as orphans while they are on air, several reports; what stays of `SelectionInv` when a playlist is
   reset while others are on air.
2. An abstract specification of the third mechanism, `Transaction` (old or new, per document), by `DbCache`; `RundownMoves` then composed with `LockService` itself.
3. `ExternalMessages`: sending with retries, duplicates and expiry.
