# Verification of the sologsb monitor's scheduler

TLA+ models of the queue scheduler in `src/` and of what surrounds it, the TLC runs that check them and
the theorems TLAPS proves about them. Line numbers refer to the sources in
`src/`; `PROJECT.json` gives the lines of every definition.

## The system

A single Python process (`server.py`) serves the monitor page and runs the
scheduler. It takes items from a queue, pre-deducts a task of the platform for
each, starts one executor process per item and follows the executor and the task
directory until the task has ended.

| Part | State | Operations | Works with |
|---|---|---|---|
| `QueueManager` (`api/scheduler.py:1045`) | items, archived items, queue file | tick (reap, sync, stop list, launch), add, remove, retry, release, clear, claim / settle / refund of quota | JobManager, platform, state files |
| `JobManager` (`api/scheduler.py:235`) | one record per item, sidecar files, a `_wait` thread per process | start, get, stop for retry, reap stale / dead / orphan | executors |
| executor (`queue_worker.py`) | result file with a `stage` | submit the prompt through the push helper, watch `state.json` | desktop session |
| desktop session and skill (not in the repository) | `monitor/state.json`, `platform/selection.json` | run the task | – |
| `ReconcileLoop` (`api/scheduler.py:4214`) | none of its own | release stuck orphans, six hour limit, outage requeue, sweeps | queue, platform, docker |
| `TaskGuard` (`api/guard.py`) | flags per item | observe or stop runaway tasks | queue, processes |
| `LlmGuard` (`api/llm_guard.py`) | failures, outage start, last good probe; ownership in `config.json` | probe, pause, resume | `automation.paused` |
| capacity, gates, `ContainerLedger` | markers, estimates, backoff | decide whether a launch fits | docker |
| elastic limit (`scheduler.py:1587`) | limit, cooldown, learned limit | follow 429 reports | capacity |
| `SchedulerService` (`api/service.py`) | config, `starts.json`, disabled projects, refill state | loops, page actions, refill, stop list | all |
| `SnapshotHub`, `SchedulerLog`, event stream, `app.js` (`api/service.py`, `api/logs.py`, `server.py`) | last snapshot, subscriber queues, `seq` of the log | build, compare, push; emit; backlog, snapshot and live messages of a connection | pages |
| `keepalive.sh`, instance lock, `LoopHealth`, `Watchdog` (`api/health.py`) | bad checks, lock, `starts.json`, heartbeats | start, stop and end the server; decide whether it comes back paused; revive dead loops | all loops |
| `ProjectUsage`, `PlatformProvider` (`api/qc_usage.py`, `api/platform.py`) | use counts; nothing | fetch counts; list candidates | refill, `add_platform` |
| `Housekeeper` (`api/housekeeping.py`) | – | delete finished trees | task directories, processes |
| scanner, folders, statistics, HTTP routes | caches | reporting, I/O | – |

Threads: the tick loop, the reconcile loop (which runs the guard's rounds), the auto
loop, the LLM probe, the hub, the housekeeper, the watchdog, HTTP handlers and the
`_wait` threads. Everything that touches items runs under
`QueueManager._lock`; job records have a lock of their own, and the executors,
their sessions and the platform are outside both.

What is hard:

* a crash between a call of the platform (or a fork) and the save that records it;
* an executor that is gone while its session is not, and the reverse;
* a late answer of an earlier attempt that meets the record of the next;
* several parties that may end the same item: tick, reconcile, guard, user;
* timeouts (six hours for quota, forty seconds for the push helper) that race what they wait for;
* probes applied 30 s after the settings they were sent with were read;
* lists of containers, processes and platform tasks that are stale when they are
  judged, and judged before they are used, because docker, `ps` and HTTP are not
  called under the queue lock;
* estimates of what a launched task will use, which has no containers for minutes;
* one file or message stream with several writers, whose last word has to be right;
* supervision of supervision: a dead thread, a hung thread, a hung process and a
  crash loop look alike from outside.

The properties each part has to have: a slot is held exactly while an item is
active and always comes back; quota is reserved once and either consumed or
released once; a retry never meets the session, task or record of the attempt
before; closed items stay closed; the guard lifts its own pauses and no others;
a launch fits, and a launch that fits happens; the limit goes up only in calm
traffic; the skill's limiter reads what the monitor decided; nothing that works
loses its processes, containers or files; a page ends up with what the hub knows;
the service comes back from every fault, but not into a crash loop; a refill queues
what is eligible and touches nothing that runs.

## Modules

| Module | What it models |
|---|---|
| `QueueWorker` | one executor run: `worker` (process), `stage` (result file), `session`, `state` (class of `state.json`), `chosen` (selection file) |
| `JobManager` | `job` (record under `platform:<item>`), `waiter` (`_wait` threads), `owner` |
| `QueueManager` | `item` (memory) and `disk` (queue file), the tick as a walk, launch, quota, page handlers; the platform (`srv`, `calls`) |
| `Scheduler` | the composition with ReconcileLoop, the enforcing guard, crash and restart; properties; fairness; the refinement mapping |
| `QuotaLedger` | abstract: a platform task is free, reserved (or lost), then consumed or released, for good |
| `LlmGuard` | two probing threads, the switch, `set-paused`, restart, model and clock; `config` (shared dictionary) and `saved` (`config.json`) |
| `ElasticLimit` | `_elastic_step_locked`: reports of 429 waits, cooldown, step-up interval, learned limits per hour; resets, saved bases, restarts; `el` (memory), `disk` (`elastic.json`) |
| `SkillLimit` | who writes `container-limit.json`: the tick (prompt pin, elastic step, drift repair) and a request of the page, each computing first and writing later; foreign writes, restarts |
| `Capacity` | `_capacity_usage_locked` and the gates of container mode: a docker list of some age, candidate demand, phantom demand, granted slots, seats |
| `Cleanup` | zombie container sweep, guard stop and leak kill, housekeeper, each as list, judge, remove; sessions, reruns and containers that come and go meanwhile |
| `Stream` | `SnapshotHub.build_once` in its three parts, the connection of a page (subscribe, backlog, full, messages), the scheduler log and its restart |
| `Supervision` | `keepalive.sh`, lock and port, `starts.json` and the decision to pause, beats, hangs, deaths and the watchdog |
| `Refill` | a round of `maybe_refill_queue` (list per type, fail, count, track, add), `add_platform` in its three steps (blocklist, use count, append under the queue lock) for the refill and the page, `disable_project` in its two steps, use counts that arrive late, the tick meanwhile |
| `MCScheduler`, `MCSkillLimit`, `MCRefill` | instances for TLC |
| `*_proofs` | the theorems, see Proofs |

`QueueWorker`, `JobManager`, `QueueManager` and `Scheduler` extend each other in
this order, so the composition is one state machine; `Scheduler` instantiates
`QuotaLedger` with its refinement mapping. The other modules stand alone. Each
keeps of its neighbours what it reads and lets that change freely: `LlmGuard` and
the queue share `automation.paused`, and the queue's model leaves the launch gates
open anyway; `Capacity` lets the limit move at any time, `SkillLimit` lets the
elastic step choose any limit below the pin, `ElasticLimit` takes any traffic and
any pin, and `SkillLimit_proofs` joins the two at the pin; `Cleanup` and `Refill`
have the few statuses of an item that they distinguish.

How the code is cut into steps:

* A handler that only edits the list and saves is one action (`Edit`). One that
  calls the platform leaves `pc = "dirty"` until its save, because the process
  may die in between. `pc` is who has the queue lock and how far it is.
* `_sync_running_locked` is a walk over `todo`: one action per item and branch,
  because executors and sessions go on while the tick has the lock. The order of
  the branches is in the guards (`Visiting`, `InFlight`, `EarlyExit`).
* A launch is five steps: claim, save as launching, fork and sidecar (or its
  failure), save as running. `CrashInStart` is a death between fork and sidecar.
* In the other modules a step ends where a lock is given back or where something
  outside the process is read or written: a docker or process list, a file, an
  HTTP answer, a push to a subscriber.
* How long something has been quiet, old or stable is left open: wherever the
  code compares an age with a limit the model may go either way. A safety
  property that holds here holds for every value of these limits. `ElasticLimit`
  is the exception: its times are its subject, counted in scan intervals
  (`SKILL_SETTINGS_REFRESH_SECONDS`) and capped at the largest threshold the code
  compares them with.

What the models leave out of the handlers they cover:

* Local items (`source != "platform"`), `move`, priorities and shuffling: they do
  not change slots or quota.
* `live_task_reason`'s container and quiet-time conditions, which can only delay
  the release of an orphan.
* In the queue's model, `add_platform`'s blocklist and usage checks (they are in
  `Refill`), the skill's stop list (which pending items it hits is open) and the
  launch gates: the model may do more.
* Launch spacing, and the disk and docker gates: they only delay a launch.
* A tick writes the queue file whether or not the code's `changed` flag is set.
  Only an absorbed selection can be unsaved with the flag clear, and the next
  visit reads it again from the task directory.
* Code that cannot be reached for platform items: the `apply_failure` retry with
  `maxAttempts` (scheduler.py:3712-3718; every active item has `capacityHeld`, so
  an earlier branch ends the visit), the pending branch of `_resync_from_result`
  (a pending item has no result file), the pending branch after a failed start
  (scheduler.py:4061; `claim_quota` always leaves `claimed`), and
  `terminate_platform`, which nothing calls.
* `enforce_stop_tasks`'s removal of directories.
* `released = "auto"` stands for `autoReleased` together with `releasedAt`;
  `retry()` clears only the latter, which is what the outage requeue looks at.
* `LlmGuard`: `set_intervals` and `request_probe`, which only change when the next
  probe is due; due is left open.
* `Capacity`: tasks mode and local jobs, and `ContainerLedger.reserve`, which the
  launch path does not call. A task's `starved` clock has three values, for
  `phantomDemandSeconds` not begun, begun and over.
* `Cleanup`: shells and executors the guard spares, and which directories of a
  tree are regenerable. A retry of the queue has a directory of its own, so a
  root here lives once and may be rerun.
* `Stream`: the rotation of log files, and the 200 and 1000 entries a subscriber's
  queue holds. A card is a version number.
* `Refill`: the excluded projects of a listing are not capped at 200, and
  `platform.candidates` answers with one state, although it reads the running
  projects, the listing, the blocklist and the use counts one after the other. The
  use limit is the one over all task types (`scope: total`, the default; `perType`
  is left out), and `projectReuse` is on (the default). What the refill may not add
  again (`tracked`) is taken out of `cands`. The page's own refusal of an occupied
  project (service.py:875-881) is left out: its request may do more.

## Runs

Deadlock is checked in every run.

| Run | Instance | Shows |
|---|---|---|
| `lifecycle` | 1 item, 2 runs, 1 platform task, 1 retry, guard enforcing | types and the retry limit; slot iff active; settled tasks never cancelled; no reserved task dropped; no worker on a cancelled task; terminal items settled once; a started task never retried; stale closing spares watched tasks |
| `recovery` | 1 item, 1 run, 2 tasks, 1 crash, manual release, executor selections; 255 k states | one cancel per task plus one per crash; no executor off the record; slots come back, claimed quota is resolved unless the user released the item |
| `ledger` | 1 item, 1 run, 2 tasks, guard enforcing | the scheduler implements `QuotaLedger!LiveSpec` |
| `duplicate_project` | 2 items of one project | a violation, see Findings |
| `llm_guard` | threshold 2, 3 clock values, 1 manual request, 1 restart | ownership and outage start are durable; own pauses are lifted; a lasting outage pauses |
| `elastic` | limits 1 to 3, two hours, cooldown and window of 3 and 2 intervals; 413 k states | the limit goes up only after the cooldown and in calm traffic, reaches the ceiling when it is quiet, the floor under pressure |
| `skill_limit` | 2 tasks with caps 1 and 2, limit up to 3; 256 k states | the gate opens only within the caps, a saved limit stays, the file follows |
| `capacity` | 3 tasks, batches of 1, limit 1 or 2, seats 2 and 1; 68 k states | a launch has room, seats are bounded, what is pending is tried |
| `cleanup` | 1 directory with queue session, rerun and tool; 108 k states | sweep, leak kill and housekeeper spare what works; what is stopped dies |
| `stream` | 2 cards, 2 changes, 3 log lines, 1 lost connection or restart; 1.1 M states | a drained page is current, no log line is lost, pages catch up |
| `supervision` | 1 loop, 3 starts in the window, crash loop at 2; 20 k states | one thread per loop, a crash loop pauses, loops come back |
| `refill` | 2 projects of two types, one with priority, the other losing quota and being disabled, 1 adding request, plan of 2, use limit 1; 430 k states | running items are not failed, only for cause; a disabled or used-up project is queued only by an add already past its check; what is eligible is queued |

Bounds. `MaxRun`, `MaxTask` and `MaxCrash` end a behaviour's supply of runs,
tasks and crashes; the code has none of them. Two runs are enough for a retry to
meet what the run before left behind; one run with two tasks lets the executor
pick a task beside the pre-deducted one; one crash may fall into any step, the
second of two only repeats the recovery, which keeps nothing in memory.
One item suffices in the passing runs because items share only the platform's tasks
(each is on one item), runs (likewise) and projects; the last matters for
`duplicate_project`, which has two items. `StalledLimit = 1` has both sides
of the limit. What is proved needs none of these arguments.
In `LlmGuard`, `failures` is capped at the threshold, above which
the code only compares; a probe interval is one tick of the clock.
`ElasticLimit` has three limits, so that a step has an end and a middle, and two
hours, so that a learned limit is met again; its thresholds keep the order the
defaults have (`TimeParameters`). `SkillLimit` needs two tasks
for the lowest of two caps. In `Capacity` three tasks with two seats make one wait,
and a limit that moves from 2 to 1 makes a launched batch exceed it; a batch of
one candidate has both values of an excess. `Cleanup` has one directory because
the removers treat directories one by one and share only their lists. `Stream`'s
two changes let a difference be older than the snapshot it follows, and three log
lines exceed the two `after()` returns. `Supervision`'s three starts let the
decision fall one below, at and beyond the limit. `Refill`'s two projects compete
for a plan of two in which one may already be queued; one is disabled and loses its
quota (`Unsteady`), the other, with priority, is chosen before it. One request of the
page (`Requests`) already has a call of `add_platform` beside the refill's.

Properties that hold only with a restriction, and what breaks them without it:

* `LiveWorkerOnRecord` and `StaleCloseSparesWatched` exempt an executor whose item
  had an earlier run (`LaterAttempt`), because of `late_wait` (Findings): once
  the record of a later attempt is overwritten, a third attempt closes the task
  its executor still watches. They also need SIGTERM to arrive
  (`KillMayFail = FALSE`): a failed `ps` in `_terminate_platform_worker` or
  `reap_orphan_workers` leaves a worker behind by design (best effort).
* `OpenTaskAccounted` and the ledger hold without manual releases, crashes and
  executor selections (`manual_release`; a lost answer of the pre-deduction; a
  superseded task).
* `SettledTaskKept` is stated until a crash, which may lose the record of a cancel.
* `StartedNeverRetried` is about a task that has written `state.json`; without
  one see `stalled_retry` and `early_exit`. A crash between the save of a run key
  and the fork leaves an item active without a record.
* `PendingIsTried` needs `SlowSetup = FALSE`: a setup that outlasts
  `phantomDemandSeconds` is taken for dead demand (Findings), and needs the dead
  to leave a seat, since nothing ends a race whose runner died.
* `EligibleIsQueued` assumes that others do not queue projects for ever, and that
  items do not for ever leave the queue while the refill counts: it takes the running
  items, the pending ones and the projects that have one at three moments
  (service.py:1567-1604), and a place counted for what has gone may go to another
  project each time. Without the first successful fetch, or with a use limit above
  one, a project can be listed while its item is still queued, and both happen.
* `StaleListingRefused` allows for what overtakes the add itself. `add_platform` reads
  the blocklist without a lock and the use count under one that it gives back, then
  takes the queue's (scheduler.py:2835-2848); `overtaken` is a history variable that
  marks the calls past a check whose project is disabled or used up since. The
  duplicate check has no such window: it is under the lock of the append.
* `TreeOfOldSessionKept` is about what worked before the round; a rerun that
  starts after the judgement of its tree is a window the code has (Findings).
* `RaisesAfterCooldown` needs a cooldown of at least the 429 window and a refresh, as the
  defaults have it (600 s against 300 s and 180 s). `_elastic_cfg` accepts one of 180 s;
  then a step down, which clears the hits, is followed by a step up while a severe 429
  read between the two is still in the window.
* `StoppedTaskDies` needs the guard to stay in its enforcing mode.

## Fairness

* `TickBegin`, `SyncSettle`, `SyncFailed`, `ReleaseStuckOrphan` strongly: the two
  loops run as long as the process lives (`while not stop.wait(...)`, exceptions
  caught), and the keepalive restarts it. Strong, because other handlers may hold
  the lock whenever one looks, and because the conditions (file stable for six
  seconds, orphan older than the grace) hold from some time on.
* `Sync`, `SyncDone`, launch steps, `Save`, `Restart` weakly: a handler that has
  the lock runs to its end.
* Worker steps weakly: the push helper has a timeout, `wait_for_task` a deadline.
* `SessionEnds` weakly: an assumption about the desktop session, which is not in
  the repository. The code makes the same one with `orphanGraceSeconds`.
* The `_wait` thread, the six hour limit, the guard and the user get none: slots
  and quota are resolved without them.
* `LlmGuard`: the loop's probe, its answer (30 s timeout) and its application, and
  the rest of a request handler. Not the page's probe.
* `ElasticLimit`, `SkillLimit`, `Refill`: the loop weakly, time weakly, and in
  `SkillLimit` the rest of a request once it has begun. No request, foreign write
  or change of traffic is fair; liveness is stated for when they stop.
* `Capacity`: the tick, the docker cache and time weakly. Setups and races that
  are alive end; `Grant` and `Decide` strongly, since a slot is free and a
  candidate done again and again (assumptions about the skill and its limiter).
* `Cleanup`: the reconcile thread and the housekeeper weakly; a finished directory
  goes quiet again and again (`GoesQuiet` strongly) and a rerun ends.
* `Stream`: the hub thread and the thread of a connection, which run until the
  service stops (service.py:113-132, server.py:259-300).
* `Supervision`: boot, stop, `keepalive.sh` and time, the end of a loop's round,
  silence after a hang, and the watchdog. Faults, other programs and the page are
  not fair.

## Proofs

TLAPS proves, for every value of the constants:

| Module | Theorems | States |
|---|---|---|
| `Scheduler_proofs` | `Invariance`, `TypeCorrect`, `SlotsHeld`, `CancelledOnce`, `TerminalOnce`, `LInvariance`, `FreshTaskForWorker`, `SettledKept`, `LedgerKept`, `OpenAccounted`, `NeverRetried`, `LiveOnRecord`, `WatchedSpared` | types and retry limit; slot iff active; every other safety property of `lifecycle` and `recovery`, and the safety half of the refinement of `ledger` |
| `LlmGuard_proofs` | `GuardTyped`, `OwnershipHolds` | types; `OwnershipDurable` |
| `Capacity_proofs` | `CapacityTyped`, `SeatsHold`, `RoomForLaunch` | types; `SeatsBounded`, `LaunchHasRoom` |
| `SkillLimit_proofs` | `SkillLimitTyped`, `OverruledHolds`, `GateHolds`; of an instance of `ElasticLimit` `RaiseWaits`, `CooldownHolds`, `ElasticFits` | types; `OverruledStaysOverruled`, `GateWithinCaps`; `RaisesAfterCooldown`, and that the elastic limit moves as `SkillLimit` assumes |
| `Cleanup_proofs` | `CleanupTyped`, `SweepSpares`, `KillSpares`, `TreeKept` | types; the three action properties of `cleanup` |
| `Stream_proofs` | `StreamTyped`, `ViewCurrent`, `LinesKept` | types; `DrainedViewIsCurrent`, `NoLineLost` |
| `Supervision_proofs` | `SupervisionTyped`, `OneThread`, `CrashLoopHolds` | types; `OneThreadPerLoop`, `CrashLoopPauses` |
| `Refill_proofs` | `RefillTyped`, `RunningSpared`, `StaleRefused`, `FailedOnlyForCause` | types; the three safety properties of `refill` |

So every safety property a run checks is proved, that of `duplicate_project` aside.
The assumptions used are those of the CONSTANTS, named in the module that declares
them (`StalledLimit` is a natural number, `NoItem` is not an item, the switches are
Booleans, the sets counted are finite). An instance brings no assumption of its own,
so the theorems about `ElasticLimit` have its `Parameters` as a premise. Some
theorems have a switch as a premise, the restriction under which the property is
true at all: `LedgerKept` and `NeverRetried` have `MaxCrash = 0`, `OpenAccounted`
has `~SelfSelect` and `~UserReleases`, `LiveOnRecord` and `WatchedSpared` have
`~KillMayFail`, `RoomForLaunch` has `~SlowSetup`, and `CooldownHolds` that a
cooldown is no shorter than the 429 window and a refresh (`RaiseWaits` says what is
left without this).

None of the invariants is inductive as it stands. What each needs:

* `Inv` (slots). A crash copies `disk` to `item`, so
  both lists have to satisfy it. `SaveRunning` writes only the status and relies on
  the slot that `SaveLaunching` took, hence `Launching`, which ties `pc`, `cur` and
  the status of the item being launched. The visits read the run key of an item,
  hence the types. And a pending item has no run yet, which `FitRecord` states with
  the slot: it is what keeps `SyncRunning` from a pending item that already has a
  worker.
* `QInv` (one cancel) adds who holds which platform task. A task is on one item and,
  if an executor selected it, on the item
  of that executor (`OneOwner`, `OwnTasks`, `OwnSelections`), so no second holder can
  cancel it again; this has to hold of `disk` too. While an item's block is open, the
  tasks that could be cancelled for it have been cancelled at most once per crash
  (`Uncancelled`): each handler that cancels closes or drops the block in the same
  step, and only a crash brings an open one back. Runs and tasks that were never
  handed out have left no trace (`FreshIsUnused`), which is what a claim and a launch
  rely on. Most handlers change records in one way only (`Derived`), so they
  share two lemmas, `QuietStep` and `CancelStep`; the claim, the run key and the
  executor's selection are proved one by one. `TerminalOnce` follows from it: a
  visit to another item cannot cancel the task of this one.
* `LInv` (fresh tasks, settled tasks) adds what a quota block says in each status
  (`Lawful`: what waits holds no task, only what is done is settled), with the item
  just claimed for as the one exception (`Claiming`), and that a claimed task is
  untouched until its executor starts (`ClaimOpen`). A crash in the middle of a
  launch makes this necessary for `disk` as well.
* `RInv` (the ledger) adds that nobody holds a task whose creation was not answered
  (`NotLost`) and that the queue file settles nothing that memory has not settled
  (`DiskSettled`): a task is consumed when a *saved* block says so, and it must not
  be taken back. Every step is shown to be one of a few moves of tasks and blocks
  (`Moves`), and each of those to be a step of the ledger or a stutter
  (`LedgerStep`).
* `OInv` (open tasks) adds that a claimed block belongs to an active item or to the
  launch in progress (`ClaimedActive`): otherwise an item could leave the
  queue, or be retried, with its task still reserved.
* `TInv` (no retry after a start) adds that an active item has the record of its
  run, except between the save of a new run key and the fork. Without its record a
  visit sees no result and no `state.json`, and would take a started task for one
  that never began. A crash in that gap is what the premise excludes.
* `FInv` (executors and records) adds the order of runs: they are handed out one after
  the other (`OwnersInOrder`), a record is of a run of its own item (`RecordOwned`),
  the run being launched is the newest (`LaunchNewest`), and a `_wait` thread is at
  most as new as the record it will write (`WaitersPast`). So a late thread hits the record of a *later* run, never of
  a first one. All steps but four kinds leave records and executors alone or only
  finish them (`Calm`).
* `LlmGuard`: any path that persists writes what is in memory, so a saved pause has
  a start, a run of failures has one, and the clock is past the look-back it is
  estimated from.
* `SkillLimit`: between the refresh of the pin and the gate the queue lock is held,
  and the pin stays at most every cap that counts (`PinCovers`); a waived task
  waits again only until the next refresh (`WaivedStarted`).
* `ElasticLimit`: a reset and a restart clear the hits and the time of the last step,
  but not the pressure, which is never older than the last step down, in memory and in
  `elastic.json` (`Remembered`). A severe 429 either lowers the limit or is noted as
  pressure at the floor, or it comes less than a refresh after a step down, so the
  pressure is at most a refresh older than the last severe 429 (`CalmCounts`). A step up
  asks for pressure older than a cooldown. `ElasticFits` needs that every move is saved
  at once (`LimitSaved`): a new process starts with the limit the old one had.
* `Capacity`: the sums over the tasks are sizes of sets of slots, so that comparing two
  sums is comparing two sets (`SumOfTwo`); no induction is needed. Between
  the gates and the launch a seat is free (`SeatFree`). A setup does not starve for
  `phantomDemandSeconds` unless `SlowSetup` (`SetupCounts`), and before `state.json`
  there is nothing that could (`StartsFed`), so what is left out as dead demand is no
  launched task that will still claim slots.
* `Cleanup`: sessions of a directory follow one another and never come back
  (`Ordered`), so what was judged over stays over (`DoomedOver`, `DoomedFinished`),
  and what entered a tree since the list keeps it from being quiet (`ListedBefore`).
* `Stream`: the hub pushes after its lock, so for every card outside the difference
  in flight the last word in the queue is what the hub saw (`LastWordTrue`), and
  where there is none the page is right (`SilentIsCurrent`). The live lines are the
  tail of the log (`LiveTail`) and everything before them is accounted for
  (`EarlierLines`).
* `Supervision`: a dead thread counts as none (`DeadIsGone`), which is all the
  watchdog looks at. For the crash loop, a start is marked clean only by a stop that was
  asked for (`CleanEnds`), so no crash drops out of the count.
* `Refill`: a type is listed once per round, so nothing is both offered and
  excluded (`ListedOnce`), and a plan is empty before it begins (`PlanEmpty`). A
  caller has one call of `add_platform` at a time, the refill only while it adds
  (`OneCall`), so a call moves from one check to the next and is marked as overtaken
  or not as a whole; one that is not marked has passed checks that still hold
  (`ChecksHold`), which is what `StaleListingRefused` says of the append.

Model-checked only:

* liveness, which needs fairness and ENABLED: `SlotReleased`, `QuotaResolved`, the
  liveness half of `LedgerSpec`, `GuardPauseLifted`, `OutagePauses`,
  `QuietReachesCeiling`, `PressureReachesFloor`, `FileFollows`, `PendingIsTried`,
  `StoppedTaskDies`, `PageCatchesUp`, `LoopsComeBack`, `EligibleIsQueued`.

No other property of a run is left to TLC alone: where the code counts or sums
over a list or the tasks, the definition is the cardinality of a set (`Crashes`,
`Total`), about which the library has theorems that need no induction.

## Findings

The run `duplicate_project` ends in a counterexample to the duplicate check of
`add_platform` (scheduler.py:2849-2855): `retry()` (scheduler.py:3021) puts a failed
item back to pending without it, so a project that was added again meanwhile is in
the queue twice.

Behaviour of the code that the models contain and that disagrees with what the
repository says or suggests, found while the properties were stated; the properties
are worded so that they hold beside it, and no run is spent on it:

| | What happens |
|---|---|
| stalled retry (scheduler.py:3531) | a submitted run without `state.json` is retried beside its live session |
| early exit (scheduler.py:3583, queue_worker.py:389) | a push helper that timed out after delivering leaves a session beside the retry, which the refund calls "before the desktop task was created" |
| late wait (scheduler.py:785 against 631) | the exit of an old run overwrites the record of the new one: its live executor is off the record, a second worker can start beside it, and a later launch can close the task it watches |
| forced refund (scheduler.py:4632 against README.md:174) | the six hour limit refunds a running task, whose success is then not settled |
| manual release (scheduler.py:3074 against README.md:175) | a release keeps the claimed block, and a retry or removal after it drops the task without a cancel |
| superseded task (scheduler.py:4187) | when the executor chose a task of its own, a failure cancels neither that one nor the pre-deducted one |
| manual pause (service.py:779 against llm_guard.py:8-9) | a failed probe between the halves of `set-paused` claims the user's pause, and a good one then lifts it |
| outage restart (llm_guard.py:378 against 363) | after a restart the first failed probe hides the recorded start of the outage |
| probe in flight (llm_guard.py:382) | a probe sent before the guard was switched off may still pause the queue in the guard's name, until the guard is on again |
| unclean start (server.py:592-601 against service.py:345-346) | a service that cannot bind its port has noted a start and never marks it clean, so three of these read as a crash loop |
| hang ended by TERM (service.py:374-386, 508) | a hang that keepalive.sh ends with SIGTERM is marked clean before anything can fail, against service.py:345-346 |
| unpinned limit (scheduler.py:1121 against 1368-1376) | a start publishes the limit before the prompt pin is known; the drift gate repairs it before a launch |
| saved base (CHANGELOG.md:34) | a base saved just before a new hour gives way to the learned limit before a step-up interval has passed |
| learned limit (README.md:238) | an hour keeps the limit a step down left behind, whether or not that limit held |
| slow setup (scheduler.py:2301-2334) | an initialised task whose setup outlasts `phantomDemandSeconds` has no runner marked yet, counts as phantom and is launched over |
| between attempts (scheduler.py:2041-2056) | `candidates_ready` counts as past the race, and a further attempt brings the task back to it with the seat given away; `SeatsBounded` is one seat wider for it than each cap alone suggests |
| rerun after judgement (housekeeping.py:239) | a rerun started after its tree was judged loses the directories it starts in |
| refill against disable (service.py:1243) | between the removal of an item and the new blocklist a refill may add the project again, and a running task of a disabled project is requeued when it stalls |
| add against disable or fetch (scheduler.py:2835-2848) | a disable (service.py:1237-1240) or a fetch (qc_usage.py:209-211) that finishes between `add_platform`'s check and its lock is not seen, so a disabled or used-up project is queued, against "不再自动补队" (service.py:1268) |
| refill counts (service.py:1567-1604) | active items are counted before pending ones, and tracked codes last: an item requeued in between counts twice, one launched in between not at all, and one that ends or is removed keeps its place in the plan, so a round adds less or more than it should |
| first snapshot (static/index.html:795) | the page's initial `/api/snapshot` may arrive after newer messages of the stream and overwrites them until the next change |
| early page (service.py:205-209) | a page connected before the first build keeps a card that vanished before it |
| full queue (service.py:194) | a subscriber that is 200 messages behind loses the oldest ones silently |
| log numbers (logs.py:46-69) | after a rotation and a crash the log's numbers start again, below what pages ask from |

## Not modelled

* Throughput statistics, the task scanner with its caches, the folder provider, and
  the common helpers: they read and render, and change no state another part acts on.
* Local jobs and tasks mode: the same JobManager with fewer steps; platform items are
  what the deployed queue runs.
* HTTP routing, settings and credentials, the wording of messages and pages.
* Rotation of log files and the rollout log (`queue_log.py`): append-only output.
* Durations, apart from the elastic limit: age comparisons are left open (Modules).
* Several service processes at once: the instance lock excludes them, and
  `Supervision` has the lock.
* The desktop session, the skill and the platform are modelled only by what the
  code in `src/` relies on.

## Plan

Done: the queue core with quota, reconcile, crash and restart and the abstract
ledger; `LlmGuard`; `ElasticLimit`, `SkillLimit` and `Capacity`; `Cleanup`;
`Stream`; `Supervision`; `Refill`; proofs of every safety property.

Open, in this order:

1. `Capacity` and `SkillLimit` in one module, with `ElasticLimit`'s steps in place of
   any limit (that these fit is proved, `ElasticFits`): whether a limit lowered in the
   middle of a launch is ever exceeded for longer than one batch.
2. `Refill` on top of `QueueManager` instead of its four statuses.
3. Local jobs, for the shared use of slots by both kinds of task.
