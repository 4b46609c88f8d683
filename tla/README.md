# Verification of FastStrm

FastStrm is a Go service that mirrors the directories of a 115 cloud account as
small local `.strm` files, which a media server plays. This directory holds
TLA+ models of the parts of the service where several goroutines, processes or
stores have to agree, TLC configurations that check them on small instances,
and theorems checked by TLAPS for every value of the constants. Paths below are
relative to `src/internal/`, unless they begin otherwise.

## 1. Inventory

| part | state it keeps | operations | who else touches it |
|---|---|---|---|
| task execution (`service/task/types.go`, `executor.go`, `handler/task.go`) | registry of running tasks, lock per account, a context and a done channel per execution, rows of `task_histories` | start, the twelve stages of `ExecuteTask`, cancel, delete, wait | HTTP, scheduler, Telegram, shutdown, account rename |
| scheduler (`service/task/scheduler.go`) | copies of the schedules, marks of what it started | `RefreshAll`, minute tick, stamp of `lastRunAt` | every handler that writes tasks |
| task file (`service/store/tasks.go`) | `tasks.json` behind a mutex | read, save, upsert, delete | handlers, scheduler, cascade |
| life-event monitor (`service/monitor/monitor.go`, `dedup.go`) | cursor in memory and in SQLite, failures per event, keys seen lately | start, stop, poll, retry, dead letter, save | settings, account handlers |
| life-event handlers (`service/monitor/event_*.go`, `phase1.go`, `intent.go`, `safe_delete*.go`) | local files, path index, managed records | create, rename, move, delete | tasks, cleanup, Emby sync, users |
| cleanup (`handler/strm_cleanup.go`, `cleanup_*.go`, `service/task/cleanup_*.go`, `executor_utils.go`, `service/strm/cloudcheck.go`) | tickets of scans, batches waiting for a confirmation, a cache of cloud directories | scan, confirm on the web or in Telegram, delete | tasks, monitor |
| managed files and trash (`service/strm/managed.go`, `service/db/managed_strms.go`, `src/pkg/strmutil/trash.go`) | fingerprints of what the service wrote, trash directory | record, verify, move to trash, restore, purge | all writers of files |
| scan of the cloud (`service/task/scan_fulllist.go`, `service/client115/paging.go`, `files.go`) | pages read so far, folders table, failed directories | one flat list, or directory by directory | 115, which changes meanwhile |
| rate limits (`service/rate/`) | token buckets with queues, the registry of them | acquire, refund, refill, configure | every call to 115 |
| notifications (`service/notify/dispatcher.go`, `notification_batcher.go`, `send_guard.go`) | buckets, timer, send queue, failures in a row | dispatch, flush, send (`Stop` has no caller) | all parts |
| Telegram's updates (`service/notify/polling.go`, `handler/notify.go`) | manager, stop channel, offset, webhook at Telegram | start, stop, poll, consume, switch, change the token | start of the service, requests |
| Emby: refresh (`service/emby/refresh.go`), reports (`notifier.go`, `syncdel.go`) | a timer per directory, slots; buffers of episodes, what was handled lately | schedule, fire, refresh; report, collect, flush, delete | tasks, monitor; Emby's webhook |
| Emby proxy (`service/embyproxy/`) | caches of links, sources and users, a listener | rewrite PlaybackInfo, send a player on, start, stop | players, settings |
| playback (`handler/strm.go`, `range_proxy.go`, `range_limiter.go`, `service/strm/router.go`, `service/rate/bottleneck.go`) | cached links, chunks in flight, slots, places | redirect, proxy, fetch chunks, renew a link | players |
| accounts, settings (`handler/account*.go`, `service/store/`) | `account.json`, `settings.json` and their copies in memory | create, update, rename with its cascade, delete, background flush | all parts |
| live log (`service/sse/server.go`) | buffers of frames per task, subscribers with queues | broadcast, subscribe, replay, unsubscribe | tasks, browsers |
| sign-in (`service/auth/`, `handler/login_guard.go`) | revoked sessions, failed sign-ins | sign in and out | browsers |
| `.strm` generation, imports, pages (`service/strm/build.go`, `service/strmimport/`, `web/`, `src/frontend/`) | none that is shared | text in, text out | - |

How they interact: a start (HTTP, scheduler or Telegram) becomes a goroutine in
`ExecuteTask`, which takes the account's lock, registers itself, scans 115
through the rate limits, deletes what is gone (cleanup, managed files), writes
what is new, and saves a history row. The monitor does the same work one event
at a time. Shutdown stops the scheduler and the pollers, then the proxy and the
monitor, and only then cancels and awaits the tasks (`server/server.go:461-483`).
Everything shares the JSON files and one SQLite database; nothing holds a lock
across two stores.

What is hard in this code, and what the properties are aimed at (the list with
lines is in `PROJECT.json` under `hazards`):

- *interleavings*: starts racing for an account, a cancel at the last moment, a
  delete waiting for an execution, two poll goroutines of one account;
- *order of deferred calls*: history row, unregister, unlock;
- *stale copies*: schedules copied from `tasks.json`, a task's account read once,
  lists of tasks saved after somebody else's write, cached cloud directories;
- *crashes and failed writes*: rows left open, a cursor saved after the work;
- *retries*: events tried again, given up, and told apart by a deduplicator;
- *steps under two locks*: a browser registers and copies the history of its
  task, a frame is kept and offered; a link is looked up and put into the cache;
- *late timers*: a debounce timer that fires while it is replaced, a flush that
  finds its buffer fresh again;
- *listings that shift*: entries that come first while later pages are fetched, in
  the scan and in the listing that is asked before a removal;
- *events that were overtaken*: when an event is handled its file and folder may
  have been moved, renamed or deleted again;
- *limits*: token queues, full send queues, tickets that expire, slots shared by
  the chunks of a stream, the order of the tests in the verdict of a cleanup.

What makes each part correct:

- task execution: one execution per account; a waiter is told "gone" only when
  the execution has written its row; cancelled work is not reported complete;
  a row is left open only where the database refused to close it, until a later start;
- scheduler: a task never runs beside itself, no mark is left behind, a job that
  stays registered is started, at the interval the user chose;
- task file: a write of the user is not taken back;
- monitor: the cursor never passes an event that was not dealt with, events of a
  file are not applied in the wrong order, one bad event does not stop the rest;
- cleanup: only files the service wrote, whose cloud side is really gone, are
  moved away, and a scan is executed at most once;
- life-event handlers: when no event waits, every media file in a mapped
  directory has its STRM file and none is left behind; what somebody else wrote
  is not trashed;
- scan: a file is trashed only on the word of a listing that was made while the
  cloud changed or after the file had left its place, and what was not found is in
  a directory that is reported as failed;
- rate limits: tokens are neither lost nor made; no waiter is left behind;
- notifications: a note is in one message, which is sent or given up unless the
  process ends before;
- Telegram's updates: none is confirmed before it was handled; one goroutine polls;
- Emby: no changed directory and no collected episode is forgotten;
- proxy and playback: a player gets a link that is its own and alive; a stream
  gives back every slot and connection; a dead link is renewed once;
- accounts: at most one name each, and no setting names one that is gone;
- live log: a frame reaches whoever watches its task, and nobody waits for a
  browser.

## 2. The modules

| module | models | variables |
|---|---|---|
| `TaskRegistry` | `Runtime`: `TryEnter`, `Exit`, `Register`, `Unregister`, `SetState`, `Cancel`, `CancelAll`, `Wait`, `WaitAll` | `accountLock`, `tasks` (task to entry), `rt` (entries: context, status, done) |
| `TaskExecutor` | `HandleStartTask` and the goroutine of `ExecuteTask`, stage by stage, with its deferred calls | `pc`, `job`, `hist`, `history` (rows), `store` (task to account) |
| `TaskService` | the two composed with cancel, edit, rename, delete with its wait, shutdown, crash, restart | `del` (a delete under way), `drain` (the shutdown) |
| `TasksStore` | `tasks.json`: a save that may fail, upsert and delete under one lock | `file` |
| `TaskScheduler` | `RefreshAll`, the tick, the goroutines it starts, the other writers of the file, stop, crash, restart | `jobs`, `executing`, `todo`, `fires`, `refreshes`, `writer`, `minute`, `phase` |
| `LifeMonitor` | the monitor of one account: start, stop, poll, retry, dead letter, deduplicator, cursor | `acc`, `loops`, `failures`, `seen`, `db`, `produced`, `done` |
| `CleanupPolicy` | the limits of a cleanup and the verdict on a number of files, as operators | |
| `Cleanup` | scans and tickets, requests, tasks, batches, the loop that removes files, the cache of cloud listings, the trash, and whoever else works on the files | `local`, `trash`, `record`, `unsaved`, `cloud`, `cache`, `tickets`, `batches`, `work`; history: `away`, `executed`, `told`, `returned` |
| `LifeEvents` | what the monitor does with one event: `handleCreateEvent`, `handleMoveEvent`, `handleRenameEvent`, `handleDeleteEvent` with their helpers, users of the cloud and of the files, crashes | the cloud (`place`, `dirName`, `parent`, `fileName`), `events`, `store` (files, records, index), `verified`; history: `dropped` |
| `CloudScan` | a run of a task: the flat list with its pages, the folders table, the fall-back to directories, `StillAbsent` with the listings it keeps and loads, the removal, the index, the writing | the cloud (`home`, `recency`, `name`), `folders`, `pathIndex`, `strms`, `run`, `walk`, `items`, `doomed`, `listings`, `look`, `unwritten`; history: `hidden` |
| `TokenBucket` | what a bucket promises, without queues and goroutines | tokens and, per caller, whether it waits, holds, has taken or given back |
| `RateLimits` | `Limiter`, `Registry`, `Configure`, `Acquire` with its two buckets and its refund | `generation`, `capped`, `tokens`, `queue`, `refillers`, `stage`, `sent`, `closed` |
| `Notifications` | `Dispatch`, the batcher with its window, the send queue and its worker, the send guard, the end of the process | `producer`, `batches`, `hand`, `keysLeft`, `timer`, `sendQueue`, `sending`, `worker`, `sendFailures`, `paused`, `settled`; history: `lost` |
| `TelegramUpdates` | the polling manager, the webhook, the requests that configure them, the start of the service, Telegram's queue of updates | `saved`, `hook`, `confirmed`, `handled`, `manager`, `poller`, `request` |
| `EmbyRefresh` | `ScheduleRefresh`, the debounce map, the slots, the refresh | `stale`, `timers`, `debounce`, `known`, `missed` |
| `EmbyEvents` | Emby's webhook: the sync of deletions, episodes collected per series, playback | `strm`, `index`, `hooks`, `recent`, `buffer`, `hand` |
| `EmbyProxy` | `modifyPlaybackInfo`, `HandleMediaStream`, the caches of links and sources | `now`, `request`, `links`, `expiry`, `order`, `strmSources`; `given` for the property |
| `RangeProxy` | `HandleStrm`, the cache of links, the places of an account, `streamRangeProxy` with its workers and slots | `stage`, `cached`, `asking`, `chunk`, `seen`, `seq`, `next` |
| `Accounts` | the store of accounts and the settings that name them, the requests on them, the background flush, crashes | `accounts`, `disk`, `dirty`, `reqs`, `monitored`; history: `made`, `broken` |
| `LiveLog` | `Broadcast`, `Subscribe`, its goroutine, the loop of `Handler` | `emission`, `left`, `taskLogs`, `taskLogAt`, `stage`, `replay`, `send`; history: `got`, `lost` |
| `MCTaskService`, `MCTaskScheduler`, `MCLifeMonitor`, `MCCleanup`, `MCServices`, `MCServicesSettle` | the sets TLC uses; the last two run several parts | `part` |
| `TaskServiceProofs`, `TaskSchedulerProofs`, `LifeMonitorProofs`, `CleanupProofs` (with the scan), `RateLimitsProofs` (with the playback), `NotifyProofs` (notifications, Telegram's updates), `EmbyProofs` (refreshes, reports, proxy), `AccountsProofs` (with the live log) | the theorems | |

How the models stand to the code:

**Task execution.** One action stands for what the code does between two points
where another goroutine can see or change shared state: a call of the registry
under its mutex, a look at the context, a write to the database. `Prepare`,
`Scan`, `Reconcile` and `Generate` may go on, fail, or find the context
cancelled, with the early returns of the code; what they scan and write is left
out. The entry that an execution registered stays its own object in `rt`, as the
pointer does in Go, so that an `Unregister` by task ID may hit another's entry.
`Restart` is the new process up to `MarkInterrupted`, which the database may
refuse. A row whose execution failed twice to close it (`executor.go:217-224`), or
that a start could not close, goes on reading `running`: `refused` remembers whose.
`EditRunning` is a bound: with FALSE no handler
changes the account of a task that is executing, with TRUE the model does what
the code permits. A rename of an account is one step here and two in
`TaskScheduler`, where the file between the steps is what matters. Starts are
accepted while the service drains, as in the code.

**Scheduler.** Time is a minute counter; `lastRunAt` is kept as an age in whole
minutes rounded to the nearest, with -1 for a stamp in the second half of the
current minute and `Cap` for "long ago or never". `Tick` ages every copy of every
stamp, wherever it is. It assumes that a tick is over before the next minute
comes. `Die` is both `Stop` with the exit of the process and a crash. One request
at a time is between its read of the file and its write. The number of goroutines
that refresh is a bound. `Register` and `Unregister` have no caller.
Weekly mode differs from daily in the weekday only and is left out.

**Monitor.** Events are numbers in the order 115 records them. A pull returns the
newest event of each file past the cursor, as `PullEvents` does. Of the handlers
only the result is kept: applied or skipped with its key marked or not, failed,
or given up after `MaxAttempts`. The time of the cursor, statistics and
notifications are left out; the first pull is that of `FirstPullMode` "all".
Stop cancels a goroutine without waiting for it, so an old one may go on beside
a new one.

**Cleanup.** A worker is a web request, a confirmed batch, a task, or a removal by
the monitor or with a deleted task; they share the loop of `deleteOneStaleStrm`
as they do in the code (`cleanupOrphanStrms` repeats it). The loop is cut where
another can come between: verify and look into the cache, list the directory, keep
the listing and decide, move, mark. One directory is enough for one entry of the
cache; of a listing only the files that are missing from it matter. A file's
content is the tool's or the user's, a row's fingerprint is of one of the two;
size and time, which the code compares as well, would only make it refuse more.
A cloud file that was renamed in its directory is missing at its path, so that a
scan finds it, but its code is in the listing, so that the loop keeps it for
ever. `unsaved` is the gap between the write of a file and the write of its row.
A scan is one step, and so are the second verification of all its files and the
verdict on them: what changes within may change right after as well, and the loop
verifies each file again. The settings are RemoveStrm on, related files and empty
directories off, auto_clean for tasks, and a confirmation mode that is read anew
by each request (hence the choice between `Allowed` and `Defer`). The copies in
the trash are of one age. Loading a listing takes no tick between its last
page and its place in the cache; with the life of a listing in ticks this is
finer than the 15 seconds need. `Bootstrap` comes to a path at any time. At the
start the files that others do not touch are recorded and gone from the cloud.

**Life events.** `LifeEvents` is what `LifeMonitor` leaves out: the handlers. A
handler is the sequence of the stores it leaves behind (files, records, index),
one after each write, so that a crash may leave any of them; without a crash the
last one counts, as one goroutine handles the events of an account and holds the
lock of its mapping. Cloud paths are sequences of names; folders are one level
deep. All files are media files whose requests to 115 are answered; the answers
of 115 that fail, subtitles and empty directories are left out. The cloud goes on
changing while events wait. `verified` are the paths of folders that 115 has
confirmed (`folderVerifyCache`); what was confirmed is believed until it expires,
which is any time (`fresh`). A path that 115 denied is remembered as well, but the
code asks 115 for the path then, with the answer it would have got anyway.
`dropped` are the files of which an event was skipped because it had no path any
more, as its folder was deleted before. `Own` gives each file and folder names of
its own, `Shared` are names that pass from one to another ("reuse"). `UserKept` looks at
the stores of the handler of the next event, one after the other: a file somebody
else wrote may be moved by a rename, with the directory it is in or as the STRM it
is taken for, and the STRM of its path may be written over it (`WriteStrmFile`
replaces what is there), but no step removes it, and no two such files end at one
path.

**Scan.** A page is what 115 has at its offset when it is asked, so that a file
that comes first while later pages are fetched shifts what follows. The flat list
falls back to the walk of the directories in every case of the code: a count that
changes or that is not reached, a page that repeats, a directory without a path.
Before each removal `StillAbsent` looks into the listing of the file's directory: one
that is kept, which any loop may have loaded, or a new one, which `LookPage` loads
page by page while the cloud goes on changing. A kept listing may be used at any
later time, where the code keeps it for 15 seconds; a failed one is not used again,
and a file that is missing from a listing may still be kept, for an entry of its
name. Listings are loaded one at a time, and another loop loads one only before the
first of this run (the same for all loops is in `Cleanup`). `torn` marks a listing
during which the cloud changed, `here` what was at its path ever since it began; both
serve the property only. `WriteIndex` forgets the listings, which the run needs no
more. `Removes` has the modes of the cleanup: what is to be confirmed waits in a
queue, unless the user confirms nothing. A directory whose number cannot be read is
left out by the code without a word (`executor_utils.go:418-423`): it is in `hidden`.
Names of files never collide.

**Rate limits.** A bucket is a queue, a number of whole tokens and the goroutines
of `scheduleRefill`. `Configure` makes new maps, and whoever queues at an old
bucket stays there: `generation` tells them apart. The select of `Acquire` between
the channel and the context is a choice of two steps when both are ready.
`TokenBucket` knows neither queues nor goroutines, and `RateLimits!Promise` is the
mapping to it, one bucket at a time.

**Notifications.** Timer and full buckets may flush at once; each takes a bucket
under the mutex and queues its message after the unlock. `Stop`, which would flush
the rest, is called by nothing in the service, and there is no action for it: when
the process ends, what is under way is `lost`. The worker and those who find the
queue full send under the guard; messages with buttons go past it, as in the code.
Sending is: allowed or not, then attempts that succeed, time out or are refused.
Pictures, and the split of long messages, are left out.

**Telegram's updates.** A poller reads the token and the offset it keeps itself;
Telegram forgets what lies below the offset of the next request. Requests of the
page are cut where they change the manager, Telegram or the settings; the start of
the service, with automatic polling, may run beside them.

**Emby.** In `EmbyRefresh` the timer function waits for a slot, refreshes, and at
its end deletes the entry of its directory from the map, whoever's it is by then.
In `EmbyEvents` each report is a goroutine; a buffer of episodes remembers whether
a timer runs and how many functions of timers have started and not got the lock
yet. Deleted seasons and series are collected under the series they name, or told
at once where they name none. Messages of films, series and posters are left out.
`Saved` bounds the settings that are saved.

**Emby proxy.** One item with versions. `Arrive` looks up the link and then the
sources (each lookup is one hold of a mutex, and what happens in between concerns
only one of them), `Resolve` is all up to the answer: the link has just been made
when the resolution ends. The room and the order of the cache are as in the code: a
key that two requests have missed stands twice in the order. A signature may last
any time and may have ended when it is made (`Lives`): the code keeps such a link
for five seconds all the same (`Floor`). The cache of users, which only repeats the
identity, the times to live of the answers in the players' own caches, the listener
and the web socket are left out.

**Playback.** One file, one account, one player: all share its link and its slots.
A worker of a chunk waits for a slot, asks for the body, finds the link dead and
renews it if nobody has since, and puts its body where the stream's goroutine
takes it in order. `ProxyConcurrency` is the number the user sets, clamped to 4
workers and 8 slots as in the code; with 1 there are no chunks. `Stop` runs in every
way out of `streamRemaining`.

**Accounts.** Each call of the store is one step and a handler several; `made`
numbers the accounts so that a name that is taken again is told from the old
account. The tasks that a rename changes are in `TaskScheduler`.

**Live log.** `Broadcast` keeps a frame under `logMu` and offers it under `mu`;
a subscriber registers under `mu` and copies under `logMu`. A subscriber to all
tasks gets no history. Age is abstracted: any number of the oldest buffers may be
too old. Keep-alives and the text of frames are left out.

## 3. What is checked

| run | property | says |
|---|---|---|
| `task_safety` | `AccountExclusive` | two executions that hold the lock have two accounts |
| | `LockTellsHolder` | the lock names the execution's task; a free account has none |
| | `DoneMeansExited` | a closed done channel means that the row was dealt with and the entry removed |
| | `RowsAreLive` | while the service is up a row reads `running` only while its execution lives, or because the database refused to close it |
| | `GracefulRows` | after a shutdown that waited to the end, an awaited execution has an open row only if the database refused both attempts to close it |
| | `NoTakeover` | `Register` never replaces a live entry |
| `task_liveness` | `CancelStopsCompletion` | cancelled before the last look at the context is never completed |
| | `RowsSettle` | an open row is closed at last, unless the database refused it and the service then stays up for ever |
| `scheduler` | `FiringIsExclusive`, `JobsFire` | marks and goroutines match, one per task; a registered job gets its turn |
| `cleanup` | `AbsentLately` | a file is judged absent only if it was absent within the life of a listing |
| | `OwnContent` | no row gets the fingerprint of a user's content, unless something was restored there |
| | `BatchOnce` | a batch is executed, cancelled or refused as too old once |
| | `TicketOnce` | the files of one scan are removed at once at most once |
| `services` | `ServicesTypeOK` | types of the parts |
| | `LiveInOrder` | monitor: a goroutine that is not stopped handles the events of a file in order |
| | `Served`, `NoGhosts` | handlers: once no event waits, a media file has its STRM at its path, though later events changed that path while earlier ones waited; no STRM is left without its file or its record, unless folders were renamed |
| | `Redone` | handlers: an event that a crash cut short gives its file the STRM when it comes again |
| | `UserKept` | handlers: what somebody else wrote is never trashed |
| | `UpdatesKept`, `OnePoller` | Telegram: nothing is confirmed unhandled; a manager that was never stopped has one goroutine or none |
| | `PresentKept` | scan: only what was just asked for is trashed, and no listing, kept or new, complete or not, makes a file absent that was at its path ever since that listing began, unless the cloud changed while it was loaded |
| | `FoundOrReported` | scan: while nothing changes, what is not found is in or below a failed directory, or one that an answer without a count or an unreadable number hid |
| | `ChangesFollowed` | Emby: a changed directory has a call, a timer or a waiting refresh, until it was given up |
| | `CollectedTold` | Emby: episodes in a buffer have a timer or a function under way |
| | `OneName`, `MonitoredExist` | accounts: no more than one name for the account, in memory and on disk (a crash within a rename can leave none, see Observations); settings name no account that is gone |
| | `RedirectFits` | proxy: a player is sent to the source it named, by a link of its own agent and identity that is still signed or was made no longer ago than the floor, and never to the service's inner address |
| `services_settle` | `SettleTypeOK` | types of the parts |
| | `NoEventLost`, `EventsSettle` | monitor: no cursor passes unfinished work; every event is passed while the monitor stays on |
| | `AcquireReturns` | rate limits: whoever asks is let through or refused |
| | `BucketsKeepPromise` | rate limits: every bucket of every generation implements `TokenBucket` |
| | `NotesKept`, `NotesSettle` | notifications: a note is in one place at a time until its process ends; every note is settled, unless its process ends first |
| | `StreamSettles`, `RefreshOnce` | playback: a stream ends and keeps no slot and no body; one new link per dead one |
| | `FramesReach` | live log: a frame reaches every browser that watches its task, or was pushed out, or is lost to that browser's own full queue |

The type invariants of the task service, the scheduler, the monitor and the
cleanup are proved (section 4) and not checked a second time.

Six more runs show where the code does something other than its comments or
tests say (`findings` in `PROJECT.json` has the quotations):

| run | what it shows |
|---|---|
| `task_cancel` | a cancel between the check of step 12 and the final `SetState` is overwritten by `completed` |
| `task_edit` | a task edited to another account while it runs can be started twice, and one execution closes the other's done channel |
| `scheduler_interval` | the tick compares with the `lastRunAt` of the last refresh, so an interval of 45 minutes starts at :00 and :45 |
| `tasks_lost_update` | `updateLastRunAt` and the rename cascade save a list read before a user's write |
| `cleanup_cache` | one cache of listings serves all loops: a file that was restored before a loop began is judged absent by the listing of an earlier one |
| `monitor_dedup` | an event whose path is unknown is marked as seen although it failed: the retry is skipped as a duplicate and the cursor passes it |

### One run for several parts

`MCServices` and `MCServicesSettle` put parts side by side that share no state:
`part` says which of them a behaviour is of, the others stay as they began, in one
of their initial states. So the run explores the union of the parts' behaviours
and not their product. A property of a part is asked while that part moves (the
others are at rest in states where it holds). Fairness is asked of all parts: one
that rests has no fair step that could be owed, because its steps need `part`.
Safety of the monitor is in one run and its progress in the other, with the
instance each needs; its safety is proved for every instance. All modules are
extended, so that the properties of the run are the ones the theorems name; only
`LiveLog`, whose names clash with others', is an instance, and its properties are
restated in the MC module, as is the conjunction of the types.

### Bounds, and why they are enough

- `task_safety`: two tasks, two accounts, two executions. Every race in question
  is between two executions, or between one and a handler; two tasks on one
  account and one task on two accounts both occur. Tasks, accounts and
  executions are symmetric. An execution slot is used once, so a history has two
  starts, with any number of cancels, edits, deletes, crashes and restarts.
- `task_liveness`: one task, one account, two executions, without symmetry.
- `scheduler`: one task, two goroutines, two refreshers, an hour and a day of two
  minutes, an interval of one that `MIN_INTERVAL` raises to two. Tasks meet only
  in the list that is saved whole, and for that one entry suffices.
- `cleanup`: two files, one of them touched by others, two workers, one ticket, one
  batch, a listing that lives one tick, and four events (what is begun, and what
  users, the cloud, time and crashes do; steps of the workers, records and ticks
  are not counted). Two files are the least on which the verdict is "protected" or
  "confirm" while one is "allow"; two workers are a race. `DbFails` is FALSE:
  where the DELETE of a batch's row fails, the code executes a batch twice.
  Workers are symmetric.
- `services`, monitor: two events of two types on one file, two goroutines (one
  that was stopped and one that runs), two attempts.
- life events: two files in two folders, four operations of users, one crash, and no
  bound on the events that wait: all four may, so an event is handled after its file
  was renamed, its folder moved out and deleted, and so on. Users may do all seven
  operations inside of the mapping; the other sets add crashes, files somebody else
  writes, operations outside of the mapping and names that pass from one to another,
  each with the operations they matter for (outside of the mapping and where names
  pass on, only `UserKept` is asked). Each file and folder has two names of
  its own, of which the first is fixed, as they are alike. Four settings; some are left
  out for some sets (`LifeStart`). What the properties do not ask where, and what the
  code does there, is under Observations.
- Telegram: one bot, two requests at a time, a shared manager beside the injected
  one, two goroutines that poll, two updates, one restart.
- scan: three files, one directory, pages of two entries, one change while pages
  are fetched, two answers that go wrong: the least with a second page that shifts,
  of the scan or of the listing asked before the removal.
- Emby: two directories, one in the other, one slot, three timers and changes;
  two episodes of a series, two reports at a time and three in all, four settings of
  which one is in force at first.
- accounts: three names, two requests, one failed write or crash.
- proxy: two agents of one identity and a client without one, two requests, an
  external source and one of the service, the sources of one device, room for one
  link that is remembered for two ticks or, where its signature ends at once, for a
  floor of one, and two ticks that pass.
- `services_settle`: three events, the first and third of one file and type, one
  goroutine, three attempts; two callers of an account whose limit is a burst of
  one beside a limit of the process, and one `Configure`; two notes, a queue of one
  message and two events among attempts that go wrong, changes of the settings and
  ends of the process; a stream of three chunks, two workers;
  two frames of two tasks of which one is remembered, a browser of one task and one
  of all, queues of one frame.

The theorems below hold without these bounds.

### Fairness

`TaskService!FairSpec`: a goroutine of an execution that can take a step takes it
(the scans and requests in it have timeouts), a service that is down is
started again, and of starts that come again and again the database does not refuse
every one. Requests, crashes and ends of the service are never forced: a row that was
refused stays open as long as the service stays up, and `RowsSettle` says so. `TaskScheduler!FairSpec`:
minutes pass, and the goroutine that loads the schedules and then loops runs; the
goroutines of tasks may hang for ever. `MonitorFairness`: timers fire and handlers
return, for a stalled one is cut off by its timeout; and 115 does not fail for
ever (strong fairness of `PullOk`, as failures may come in between).
`RateFairness`: time brings tokens, the goroutines of `scheduleRefill` and the
callers run; callers need not ask. `NotifyFairness`: timers fire, goroutines run,
and each attempt to send ends by its own timeout; ends of the process are not forced.
`RangeFairness`: handlers, workers and look-ups go on, as every wait in them has a
timeout or the player's context; that the player reads is part of the handler, and
so is that it leaves. `LiveLogFairness`: tasks and the goroutines of the service
run; a browser need never read.

## 4. What is proved

TLAPS checks every step. Constants are arbitrary apart from the named assumptions
in the modules (times are positive, limits are positive, the loop is one of the
refreshers, events with one key are of one file, the directories of a scan are a
finite tree whose siblings differ in name, requests and reports are finite sets).
Those of the later modules are hypotheses of the theorems and part of the
invariants, such as `ScanAssumption /\ ScanSpec => []FoundOrReported`.

| theorem | under | argument |
|---|---|---|
| `TypeCorrect` | | `TypeInv`: types, an execution at work knows its job, a delete under way its task, and nothing is under way when the service is down |
| `OneRunPerAccount`, `LockIsHeldByItsRun` | | the two are inductive only together: exclusion needs that a held lock is set, `Exit` needs that nobody else is under it |
| `RowsOfLiveRuns` | | `RowInv`: a row is opened after the entry is registered, and its execution closes it, or is refused, before the goroutine leaves |
| `WaitIsSound`, `GracefulShutdown`, `NoEntryTakenOver` | `~EditRunning` | `ExitInv`: an execution's account is still that of its task, the entry under its task is its own, done channels and the set of the shutdown agree with them |
| `CancelledNeverCompleted` | | once `Doomed` an execution stays so: its context is cancelled and it has not passed the last look |
| `SchedulerTypeCorrect`, `SchedulerStartsOnce` | | marks and goroutines are inductive given the types |
| `MonitorTypeCorrect` | | |
| `NothingLost` | no failed event is marked (`~(EnableDedup /\ Unresolvable)`) | every cursor, also those inside goroutines, is safe; what a goroutine has still to do is in its batch; keys that are seen belong to events that are done |
| `OrderKept` | | at most one goroutine is not cancelled, and what it still has to do is newer than what is done on the file |
| `LifeTyped` | | the index keeps paths of files under files and of folders under folders, and no file lies outside of a directory that is there (`FitStore`): an invariant of every store a handler leaves, not only of the last one |
| `OthersSpared` | | from any store that fits, the stores a handler leaves are `Sound`: each fits, and what somebody else wrote is spared from one to the next. One lemma for each operation a handler is made of, then for each handler; what is trashed is as its record has it (`ManagedIsOwn`), a directory is renamed to one that is not there (so no file is at its new paths), a file to a path that is free. The children of a folder are an induction (`MadeOnes`, `EveryCount`) |
| `VerdictMonotone` | | each limit that is exceeded stays so when files are added; the stable threshold is passed before any limit counts |
| `CleanupTypeCorrect` | | one lemma for each group of actions |
| `AbsenceWasSeen` | | `ListingInv`: a fresh listing has a file as missing only if its absence is no older than the listing; a listing just loaded is of now |
| `OwnContentKept` | | a restored path whose row is still to be written is one that returned |
| `BatchToldOnce` | `~DbFails` | something was said only of batches whose row has gone |
| `TicketUsedOnce` | | `TicketInv`: an open ticket is unused and nobody holds it, a held one has one holder and is unused, so that giving it back opens nothing that was used |
| `BucketsImplementTokenBucket` | | a refinement: initial states map to initial states and every step to a step of `TokenBucket` or a stutter. `RateInv`: who waits stands in one queue once, a channel that holds a token is of one who has left the queue (`QueueSound`), and the two tokens of a caller are of two buckets, so that a refund goes to the one it came from (`CallerSound`) |
| `NobodyWaitsInVain`, `BucketsBounded` | | `TendInv`, on top of `RateInv`: the goroutine that hands out tokens leaves a bucket only when its queue is empty, and who joins a queue sees to it that one is there; a refund adds a token only below the burst |
| `NoChangeForgotten` | | `RefreshInv`: the entry of the map is a timer of its directory or none (`MapTells`), so that a stop hits no other directory's timer |
| `RefreshesBounded` | | `RefreshTypeInv`: a timer in use is of a directory, and the requests still to come for it are no more than the changes made; the slots are counted as they are taken and given back |
| `AccountHasOneName` | until another account is made | `NameInv`: between its `Delete` and its `Upsert` a rename holds the one account there is alone (`AloneWith`) |
| `SettingsNameAccounts` | | `SettingsInv`: each name in the settings has its account, a rename that answers for it (`Answers`), or is marked `broken` |
| `AccountsTyped` | | `CountInv`: the accounts made and the requests that are still to make one are no more than the requests that began and the first account; no file and no request knows an account made later |
| `FramesOnTheWay`, `LiveLogBounded` | | `LiveInv`: inductive as it stands once the types are known; a frame is kept and the browsers it goes to are copied under one lock each, and between the two steps the frame counts as still to be offered (`OnTheWay`) |
| `CollectedAreTold`, `EventsTyped` | | `EventsInv`: a report under way knows what was deleted; that a buffer with an episode has a timer or a function owed is inductive beside it; for the types, the functions of timers that are owed and the reports under way are no more than the reports that came |
| `RedirectsFit` | | `ProxyInv`: what the cache has under a key was made for that agent and identity and expires no later than the signature of its link or, where that is too short, a floor after the link was made (`LinksFit`), and a request that missed goes on with a source that matches the one it named (`MissFits`) |
| `CacheBounded` | | `CacheInv`: every link has a place in the order, so that at the limit the front of the order makes room (an induction over the fold that pushes links out, `FoldExists`); a key may be there twice after two misses at once, and taking out one place leaves the other |
| `NoUpdateForgotten`, `UpdatesTyped` | | `UpdatesInv`: whatever may be started has a token, and a goroutine has handled all that lies below its next offset for its own token (`PollersKeep`), so that an offset Telegram is told lies behind handled updates only, also after a change of token |
| `OnePollerEach` | | `OneEach`: a manager that was never stopped counts its goroutine as it starts and as it leaves |
| `NoNoteLostOrDoubled` | | `NotesInv`: each note is in one place (`NotesSomewhere`) and two places have no note in common (`NotesApart`): buckets, hands that flush, queue, messages under way, settled, lost with a process |
| `NotesTypeCorrect` | `Notes` is finite | `BoundsInv`: no bucket has a note twice (`NoneTwice`), so that it has no more than there are |
| `LimitsHold`, `StreamHoldsNothing`, `PlaybackTyped` | | `PlayInv`: no chunk is at work before its stream runs or after it is over (`HoldsNothingEarly`, `HoldsNothingLate`), and a chunk or a stream takes its place only while one is free; streams are not assumed finitely many |
| `OneNewLink` | | `LinkInv`: who renews a link holds the lock of its stream (`LockHeld`), and saw the link that is replaced |
| `ScanKeepsPresent` | | `AskInv`: a listing that nothing tore has given, below its offset, what its directory holds (`LookSound`), and ends where that does, so that it has every file that was there ever since it began (`Complete`); a path leads to one directory, because it is as long as its directory is deep, and two equal ones have equal parents and equal last names (induction over the depth) |
| `ScanFindsOrReports` | | `FoundInv`: of a list, what lies below the offset was found and the count is right or none; a directory that was seen, is not open and not unsure was read to its end, so its files are found and its directories seen or ahead (`WalkSound`, `PageSound`). Where the walk ends nothing is ahead, and by induction over the depth each directory was read or one above it is reported (`AllReached`) |
| `ScanTypeCorrect` | | `TypedInv`: a list has no file twice, so that its count is no bigger than the cloud (induction over the list, `KeptLength`); a path is as long as its directory lies deep, also where a rename made it stale (`PathTo`), so that it is never longer than the tree |

Induction over a recursive function is done by hand: `EveryDepth` gets it for a set
of numbers from the well-foundedness of `<`, and `AlongTheTree` from it that a
function defined along the tree of directories exists; `FoldExists` does so for the
fold over the order of the proxy's cache, `KeptLength` for the files left of a list.

The hypotheses `~EditRunning` and `~(EnableDedup /\ Unresolvable)` are not
conveniences: `task_edit` and `monitor_dedup` show what happens without them. Nor is
`~DbFails`: with it, a batch whose row could not be deleted is executed again. Nor
is the exception of `OneName`: a rename that another account overtakes leaves two
names of one account.

Checked by TLC only:

- liveness (`RowsSettle`, `JobsFire`, `EventsSettle`, `AcquireReturns`,
  `NotesSettle`, `StreamSettles`, `FramesReach`), which rests on fairness and
  `ENABLED`;
- `Served`, `NoGhosts` and `Redone` of the life-event handlers: each has operations
  it does not hold for (names that are used again, operations outside of the mapping,
  for `NoGhosts` renames of folders, see "Life events" under Observations), and an
  invariant would have to say what the store may lack while any events wait.

`NobodyWaitsInVain`, `StreamHoldsNothing` and `FramesOnTheWay` are what is safety in
`AcquireReturns`, `StreamSettles` and `FramesReach`: the run shows that the wait
ends, the theorem that somebody is there to end it. The types of the runs that join
several parts, `ServicesTypeOK` and `SettleTypeOK`, are for each part those of its
module, and each of these has its theorem.

## 5. Not modelled

`PROJECT.json` lists every part with its status. Left out, and why:

- text (templates of `.strm` files, names, menus, pages), bytes (bodies of streams
  and of the proxy), encryption, and the import tool that runs once: no state that
  anything competes for;
- sign-in and sessions, histories, the state of accounts in `service/runtime`
  (only the monitor's side of it is ever called);
- Telegram's menus and commands, beyond the updates that carry them, and the
  listener of the Emby proxy (start and stop); what was seen there is below;
- of `Cleanup`: related files and empty directories (they follow the file), the
  time between the pages of one listing, `OwnedBy`, purges at the user's request;
- the Go memory model: shared state is behind mutexes, and an action is one hold
  of a mutex.

Next, in this order: the listener of the Emby proxy and the menus of Telegram as
modules; sessions and the sign-in guard; an abstract delivery that `LifeMonitor`
implements.

### Hazards without a property of their own

`PROJECT.json` lists hazards that a property covers, with a few that none does. The
code has others, mostly small:

- `handler/task.go:661`: a start after the wait of a delete writes into a directory
  that is being cleaned; `:589`: the number of a new task is taken from a list read
  before `UpsertTask`;
- `handler/strm_cleanup.go:1656`: a file that is written anew between the look at
  the cloud and the move goes to the trash with its record (it can be restored);
- `handler/strm.go:329`: places for plain streams are counted and taken in two
  calls, so more may enter than the limit that `strm.go:328` calls hard;
- `service/task/scheduler.go:130`: two `RefreshAll` may apply their lists in the
  other order; `service/task/executor.go:217`: both attempts to close a row may fail
  (the row then reads `running` until a start closes it, `RowsSettle`);
  `service/task/executor_utils.go:380`: retries of a directory in the scan;
  `service/task/cleanup_policy.go:96`: the order of the limits (`VerdictMonotone`);
- `service/monitor/event_handler.go:70`: a second rename of a file in one directory
  has the key of the first; `monitor.go:606`, `:656`: the time and the id of the
  cursor are written together later; `:1005`: milliseconds compared with a Duration;
- `service/notify/send_guard.go:46`, `dispatcher.go:94`: the count that starts a
  pause, a full queue;
- `service/emby/syncdel.go:100`: the look whether a deletion was handled and the
  mark are two steps; `server/account_inspector.go:94`: a verdict on a cookie that
  was replaced meanwhile; `service/strm/router.go:675`: requests that share a
  look-up share the first one's context.

### Observations

What was seen while modelling, in the models or beside them. No text of the
repository contradicts these as directly as those of the six runs, or the
behaviour is outside of the modules; the models do what the code does.

- *Life events.* A file known from outside of the mapping that moves in makes
  `cleanupOldStrmByFileID` trash a directory by its bare name; an unmapped folder
  that takes the name of a mapped one does the same to that one. After
  `deleteManagedStrmTree` rows stay active, and `UpdateManagedPathPrefix` fails on
  them later. A move or rename whose path is unknown counts as handled, though
  `event_delete.go:150-155` says it waits for the next round: a file that was moved
  into a folder which was deleted before its event was handled keeps its old STRM
  (`dropped`). Where a new folder, a rename of a file in it, a rename of the folder
  and its move out all wait at a time, the row of the folder among the files stays at
  its old path, which is looked up first, and the directory is left (so `NoGhosts` is
  not asked where folders are renamed). Where a name passes from one file to another,
  or a file known from outside comes in, `cleanupOldStrmByFileID` and
  `cleanupOldStrmForOtherToMedia` find the STRM of another file by its bare name (so
  `Served` is not asked there, only `UserKept`). Without `MoveMediaCreateNewStrm` a
  crash within a rename leaves a file without its STRM.
- *Scan.* A file that is touched or moved while pages are fetched can be missed
  although the count is right; only the index and `StillAbsent` protect it, and the
  listing of the latter has the same weakness and is shared by all loops for 15
  seconds: where it was torn by a change, a file that is there is trashed. An empty first page with a count
  passes for an empty directory. A directory that failed on its second page and was
  listed on the retry stays among the failed ones.
- *Rate limits.* `APIRateLimiter.Wait` (`service/client115/ratelimit.go`) unlocks
  by hand and by `defer`: it would end the process whenever it has to wait.
- *Notifications.* `Dispatcher.Stop` is "called when the service closes"
  (`dispatcher.go:109`, and `notification_batcher.go:124`), but no part of the service
  calls it (`server/server.go:460-483`): what was collected for up to a minute, and
  what is in the send queue, is lost when the process ends. Pictures are never
  removed (`dispatcher.go:261-283`); what was
  sent but not answered in time is sent again.
- *Telegram.* A stop and a start before the old goroutine looks leave two that poll;
  a late `markStopped` then says that none does. A new token in polling mode keeps
  the old client (`handler/notify.go:361`). Switching to polling deletes a webhook
  that the start of the service does not bring back (`server.go:356-359`). Among the
  commands, `run all` starts the next task when a shutdown cancels the current one
  (`server/adapters.go:420-440`), and a button for a scan carries the position of a
  mapping, which is another's after the settings changed.
- *Emby.* A refresh that waits too long for a slot is dropped. Episodes that arrive
  between the start of a flush and its lock drop the whole buffer. Rows go even when
  their directory was spared. A deletion that Emby reports late removes a file that
  was written again. A season reported at the root of a mapping empties it.
- *Emby proxy.* The order of the cache holds a key twice after two misses at once, so
  that a fresh link may be the first to go; a source that could not be resolved is
  remembered as its plain address for 90 seconds; a request for a local version of
  an item that also has an STRM version is sent to the latter (the first HTTP source of
  `fetchPlaybackInfoFallback`); caches of sources and users grow
  past `MaxCacheSize` while nothing expires. In `manager.go:128-162` a stop that
  waits for `Shutdown` clears the fields of a server started meanwhile, which goes
  on listening while the status says it does not run.
- *Playback.* As many slots as workers are shared by the streams of an account, so
  later chunks may hold all of them while the next one waits, until the ten seconds
  end the stream. Chunks begin with the link of the request even when the first
  piece already needed a new one (`strm.go:548`).
- *Accounts.* `CreateAccount` and `UpdateAccount` look and then write: a rename may
  overwrite an account made meanwhile. A crash between the two halves of a rename,
  after a background flush, loses the account. A rename writes back the cookie it
  read first.
- *Live log.* Frames kept between the registration and the copy come twice, and the
  replay may come after newer frames; the history of an earlier execution is
  replayed as well, with its last frame.
