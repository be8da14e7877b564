---------------------------- MODULE QueueManager ----------------------------
(***************************************************************************)
(* QueueManager (api/scheduler.py): the queue items, the tick that moves   *)
(* them, and the platform quota each attempt pre-deducts.                  *)
(*                                                                         *)
(* Every handler runs under QueueManager._lock.  pc says who has the lock  *)
(* and where it is: a tick is a walk over the items ("sync"), the launch   *)
(* gates ("gate") and a launch ("claimed", "saved", "spawned", "refused"); *)
(* any other handler that calls the platform leaves "dirty" until its      *)
(* _save.  item is the list in memory, disk the saved one: a crash between *)
(* a platform call and the save loses the first and keeps the call.        *)
(*                                                                         *)
(* Only source = "platform" items are modelled.  maxAttempts retries are   *)
(* left out because the code cannot reach them: see README.                *)
(***************************************************************************)
EXTENDS JobManager

CONSTANTS Projects,       \* project codes
          ProjectOf,      \* the project of an item
          StalledLimit    \* automation.stalledTaskRetryLimit

ASSUME ProjectAssumption == ProjectOf \in [Items -> Projects]
ASSUME StalledLimitAssumption == StalledLimit \in Nat

VARIABLES item,   \* _items in memory, with the archived and removed ones
          disk,   \* the queue file
          pc,     \* which handler has the lock, and how far it is
          todo,   \* the items the tick has still to look at
          cur,    \* the item being launched
          srv,    \* the platform's tasks ("lost": open, but the reply was lost)
          calls,  \* how often POST /tasks/{id}/cancel was sent for a task
          crashes \* how often the server process has died

queueVars    == <<item, disk, pc, todo, cur>>
platformVars == <<srv, calls>>
outsideVars  == <<platformVars, crashes>>

Active   == {"launching", "running", "triggered", "orphaned"}
Terminal == {"done", "failed", "skipped"}
Status   == {"absent", "pending", "removed"} \cup Active \cup Terminal
QuotaState == {"pending", "claimed", "settled", "refunded", "superseded"}
PC == {"idle", "dirty", "sync", "gate", "claimed", "saved", "spawned",
       "refused", "down"}

\* run = NoRun: a fresh run key no worker was started under.
ItemRecord == [status   : Status,
               held     : BOOLEAN,                \* capacityHeld
               run      : Runs \cup {NoRun},      \* runKey
               retries  : 0..StalledLimit,        \* stalledRetryCount
               released : {"no", "auto", "manual"},
               quota    : QuotaState,
               task     : Tasks \cup {NoTask}]    \* quota.platformTaskId

Blank(s) == [status |-> s, held |-> FALSE, run |-> NoRun, retries |-> 0,
             released |-> "no", quota |-> "pending", task |-> NoTask]

QueueTypeOK ==
  /\ item \in [Items -> ItemRecord]
  /\ disk \in [Items -> ItemRecord]
  /\ pc   \in PC
  /\ todo \in SUBSET Items
  /\ cur  \in Items \cup {NoItem}
  /\ srv  \in [Tasks -> {"none", "open", "lost", "cancelled"}]
  /\ calls \in [Tasks -> Nat]
  /\ crashes \in Nat

QueueInit ==
  /\ item = [i \in Items |-> Blank("absent")]
  /\ disk = item
  /\ pc = "idle" /\ todo = {} /\ cur = NoItem
  /\ srv   = [t \in Tasks |-> "none"]
  /\ calls = [t \in Tasks |-> 0]
  /\ crashes = 0

\* Members of _items while no handler runs: done items are archived.
InQueue(i) == item[i].status \in {"pending"} \cup Active \cup {"failed", "skipped"}

Put(i, rec) == item' = [item EXCEPT ![i] = rec]
\* A handler that saves before anything else can happen.
Store(items) == item' = items /\ disk' = items

-----------------------------------------------------------------------------
(* Quota *)

\* Mutant of Unsettled: only a settled block is final.
NotSettled(rec) == rec.quota # "settled"
Unsettled(rec) == rec.quota \in {"claimed", "pending"}

\* Mutant of Settled: success wins over an earlier refund.
SettledAnyway(rec) == [rec EXCEPT !.quota = "settled"]

\* settle_quota: only a claimed or pending block moves.
Settled(rec)  == IF Unsettled(rec) THEN [rec EXCEPT !.quota = "settled"] ELSE rec
\* Mutant of Refunded: the block is left as it was.
NotRefunded(rec) == rec
Refunded(rec) == IF Unsettled(rec) THEN [rec EXCEPT !.quota = "refunded"] ELSE rec

\* Mutant of CancelTask: the refund stays local.
CancelNothing(rec) == UNCHANGED platformVars

\* refund_quota's platform side: one cancel for the attached task, which the
\* platform may or may not apply (release_task falls back to "local").
CancelTask(rec) ==
  IF Unsettled(rec) /\ rec.task # NoTask
  THEN /\ calls' = [calls EXCEPT ![rec.task] = @ + 1]
       /\ \E outcome \in {srv[rec.task], "cancelled"} :
            srv' = [srv EXCEPT ![rec.task] = outcome]
  ELSE UNCHANGED platformVars

\* _absorb_executor_quota: the executor's own task becomes the authoritative
\* one; a different pre-deducted task leaves the block "superseded".
Absorbed(i) ==
  LET rec == item[i]
      t   == IF GetPlatform(i, rec.run) = NoJob THEN NoTask ELSE chosen[rec.run]
  IN  IF t = NoTask THEN rec
      ELSE [rec EXCEPT !.quota = IF rec.task \notin {NoTask, t} THEN "superseded"
                                 ELSE @,
                       !.task  = t]

\* Mutant of Requeued: the old quota block goes back to the queue.
RequeuedWithQuota(rec, retries, released) ==
  [rec EXCEPT !.status = "pending", !.held = FALSE, !.run = NoRun,
              !.retries = retries, !.released = released]

\* _fresh_quota and a new runKey: what every way back to "pending" does.
Requeued(rec, retries, released) ==
  [Blank("pending") EXCEPT !.retries = retries, !.released = released]

\* Mutant of Ended: the slot is forgotten.
EndedHolding(rec, status) == [rec EXCEPT !.status = status]

\* The end of an item that keeps its run and quota.
Ended(rec, status) == [rec EXCEPT !.status = status, !.held = FALSE]

-----------------------------------------------------------------------------
(* What a tick sees of an item *)

Seen(i)        == GetPlatform(i, item[i].run)
SeenState(i)   == IF Seen(i) = NoJob THEN "none" ELSE state[item[i].run]
Submitted(i)   == /\ Seen(i) # NoJob
                  /\ stage[item[i].run] = "submitted" \/ SeenState(i) # "none"
WorkerAlive(i) == Seen(i).status = "running"

\* Mutant of MayRetry: the limit is forgotten.
MayAlwaysRetry(i) == item[i].status \in Active
MayRetry(i) == item[i].retries < StalledLimit /\ item[i].status \in Active

\* The executor exited before it ever created a desktop task.
EarlyExit(i) ==
  MayRetry(i) /\ item[i].held /\ ~Submitted(i) /\ ~WorkerAlive(i)

\* The tick is at item i, which is not terminal, and its task has not ended.
Visit(i) == pc = "sync" /\ i \in todo /\ todo' = todo \ {i}
\* Mutant of Visiting: terminal items are evaluated again.
VisitingAny(i) == Visit(i)
Visiting(i) == Visit(i) /\ item[i].status \in {"pending"} \cup Active
InFlight(i) == Visiting(i) /\ SeenState(i) \notin EndedStates

\* A visit that calls neither the platform nor the worker.
Quietly(i) ==
  /\ job' = JobsAfterGet(i, item[i].run)
  /\ UNCHANGED <<disk, pc, cur, outsideVars, runVars, owner, waiter>>

-----------------------------------------------------------------------------
(* tick: _sync_running_locked *)

TickBegin(stale) ==
  /\ pc = "idle" /\ pc' = "sync"
  /\ todo' = {i \in Items : InQueue(i)}
  /\ stale \subseteq StartPending /\ ReapJobs(stale)
  /\ UNCHANGED <<item, disk, cur, outsideVars, stage, session, state, chosen,
                 owner, waiter>>

\* Terminal items are settled exactly once.
SyncTerminal(i) ==
  /\ Visit(i) /\ item[i].status \in Terminal
  /\ Put(i, [item[i] EXCEPT !.held = @ /\ item[i].released = "manual"])
  /\ UNCHANGED <<disk, pc, cur, outsideVars, runVars, jobVars>>

\* state.json is in a terminal status that has not been stable long enough.
SyncUnstable(i) ==
  /\ Visiting(i) /\ SeenState(i) \in EndedStates
  /\ Put(i, Absorbed(i))
  /\ Quietly(i)

\* A stable success while the executor still watches (publishing, recording).
SyncWatched(i) ==
  /\ Visiting(i) /\ SeenState(i) = "ok" /\ WorkerAlive(i)
  /\ Put(i, [Absorbed(i) EXCEPT !.status = "triggered", !.held = TRUE])
  /\ Quietly(i)

SyncSettle(i) ==
  /\ Visiting(i) /\ SeenState(i) = "ok" /\ ~WorkerAlive(i)
  /\ Put(i, Ended(Settled(Absorbed(i)), "done"))
  /\ Quietly(i)

\* A stable failure: the executor may still be alive.
SyncFailed(i) ==
  /\ Visiting(i) /\ SeenState(i) = "bad"
  /\ CancelTask(Absorbed(i))
  /\ Put(i, Ended(Refunded(Absorbed(i)), "failed"))
  /\ job' = JobsAfterGet(i, item[i].run)
  /\ UNCHANGED <<disk, pc, cur, crashes, runVars, owner, waiter>>

\* requeue_stalled.
RetryStalled(i) ==
  /\ CancelTask(Absorbed(i))
  /\ StopForRetry(i, item[i].run)
  /\ Put(i, Requeued(item[i], item[i].retries + 1, item[i].released))
  /\ UNCHANGED <<disk, pc, cur, crashes, stage, session, state, chosen, owner, waiter>>

\* Mutant of SyncStalled: quiet is taken for dead.
SyncQuietIsDead(i) == InFlight(i) /\ MayRetry(i) /\ RetryStalled(i)

\* Nothing was written for stalledTaskRetrySeconds.  A task with a state.json
\* is only annotated and goes on to the branches below.
SyncStalled(i) ==
  /\ InFlight(i) /\ MayRetry(i) /\ SeenState(i) = "none"
  /\ RetryStalled(i)

SyncEarlyExit(i) == InFlight(i) /\ EarlyExit(i) /\ RetryStalled(i)

SyncRunning(i) ==
  LET rec == Absorbed(i)
      up  == IF rec.status \in {"pending", "launching"}
             THEN [rec EXCEPT !.status = "running"] ELSE rec
  IN  /\ InFlight(i) /\ WorkerAlive(i)
      /\ Put(i, IF Submitted(i)
                THEN [up EXCEPT !.status = "triggered", !.held = TRUE] ELSE up)
      /\ Quietly(i)

SyncPending(i) ==
  /\ InFlight(i) /\ item[i].status = "pending"
  /\ ~WorkerAlive(i) /\ ~Submitted(i)
  /\ Put(i, Absorbed(i))
  /\ Quietly(i)

\* The executor is gone and the desktop task has not ended: keep the slot.
SyncOrphaned(i) ==
  /\ InFlight(i) /\ ~EarlyExit(i) /\ ~WorkerAlive(i)
  /\ item[i].held \/ Submitted(i)
  /\ Put(i, [Absorbed(i) EXCEPT
               !.status = IF Submitted(i) /\ Seen(i).status = "finished"
                          THEN "triggered" ELSE "orphaned",
               !.held = TRUE])
  /\ Quietly(i)

Sync(i) ==
  \/ SyncTerminal(i) \/ SyncUnstable(i) \/ SyncWatched(i) \/ SyncSettle(i)
  \/ SyncFailed(i) \/ SyncStalled(i) \/ SyncEarlyExit(i) \/ SyncRunning(i)
  \/ SyncPending(i) \/ SyncOrphaned(i)

\* The save, the stop list applied to pending items, and a second save.
SyncDone(stopped) ==
  /\ pc = "sync" /\ todo = {} /\ pc' = "gate"
  /\ stopped \subseteq {i \in Items : item[i].status = "pending"}
  /\ Store([i \in Items |-> IF i \in stopped THEN Ended(item[i], "skipped")
                            ELSE item[i]])
  /\ UNCHANGED <<todo, cur, outsideVars, runVars, jobVars>>

-----------------------------------------------------------------------------
(* tick: the launch.  Whether the gates are open (paused, startup guard,   *)
(* spacing, capacity, backoff) is left open here.                          *)

FreshRun(r) ==
  r \in Runs /\ owner[r] = NoItem /\ \A q \in Runs : q < r => owner[q] # NoItem
FreshTask(t) ==
  t \in Tasks /\ srv[t] = "none" /\ \A u \in Tasks : u < t => srv[u] # "none"

TickEnd ==
  /\ pc = "gate" /\ pc' = "idle"
  /\ disk' = item
  /\ UNCHANGED <<item, todo, cur, outsideVars, runVars, jobVars>>

\* claim_quota for the chosen pending item, in memory only; a block that is
\* already claimed, settled or refunded is kept.
Claim(i, t) ==
  /\ pc = "gate" /\ item[i].status = "pending"
  /\ \E r \in Runs : FreshRun(r)
  /\ pc' = "claimed" /\ cur' = i
  /\ Put(i, IF item[i].quota = "pending"
            THEN [item[i] EXCEPT !.quota = "claimed", !.task = t] ELSE item[i])
  /\ UNCHANGED <<disk, todo, calls, crashes, runVars, jobVars>>

\* POST /tasks answered with the new platform task.
ClaimOnPlatform(i, t) ==
  /\ item[i].quota = "pending" /\ FreshTask(t)
  /\ Claim(i, t) /\ srv' = [srv EXCEPT ![t] = "open"]

\* No variant, or the POST failed before it was applied: local bookkeeping.
ClaimLocally(i) == Claim(i, NoTask) /\ UNCHANGED srv

\* The POST was applied but its answer was lost: local bookkeeping too.
ClaimLost(i, t) ==
  /\ item[i].quota = "pending" /\ FreshTask(t)
  /\ Claim(i, NoTask) /\ srv' = [srv EXCEPT ![t] = "lost"]

SaveLaunching(r) ==
  /\ pc = "claimed" /\ pc' = "saved" /\ FreshRun(r)
  /\ Store([item EXCEPT ![cur].status = "launching", ![cur].held = TRUE,
                        ![cur].run = r])
  /\ owner' = [owner EXCEPT ![r] = cur]
  /\ UNCHANGED <<todo, cur, outsideVars, runVars, job, waiter>>

\* Mutant of Closable: only queue items own a task.
ClosableByItems(i) ==
  {q \in Runs : /\ owner[q] # NoItem /\ ProjectOf[owner[q]] = ProjectOf[i]
                /\ state[q] = "active"
                /\ ~\E j \in Items : item[j].status \in Active /\ item[j].run = q}

\* _close_stale_project_tasks_locked marks abandoned tasks of the project
\* failed: quiet, without containers, of no active item and no running job.
Closable(i) ==
  {q \in Runs : /\ owner[q] # NoItem /\ ProjectOf[owner[q]] = ProjectOf[i]
                /\ state[q] = "active"
                /\ ~\E j \in Items : item[j].status \in Active /\ item[j].run = q
                /\ ~\E j \in Items : job[j] = [run |-> q, status |-> "running"]}

CloseStale(closed) ==
  /\ closed \subseteq Closable(cur)
  /\ state' = [q \in Runs |-> IF q \in closed THEN "bad" ELSE state[q]]
  /\ UNCHANGED <<stage, session, chosen>>

StartWorker(closed) ==
  /\ pc = "saved" /\ pc' = "spawned"
  /\ CloseStale(closed)
  /\ StartPlatform(cur, item[cur].run)
  /\ UNCHANGED <<item, disk, todo, cur, outsideVars, owner>>

\* start_platform raised: a worker still runs under the item's key, or the
\* runner, the task directory or the fork failed.
StartFails(closed) ==
  /\ pc = "saved" /\ pc' = "refused"
  /\ CloseStale(closed)
  /\ CancelTask(item[cur])
  /\ Put(cur, Ended(Refunded(item[cur]), "failed"))
  /\ UNCHANGED <<disk, todo, cur, crashes, worker, jobVars>>

SaveRefused ==
  /\ pc = "refused" /\ pc' = "gate" /\ cur' = NoItem
  /\ disk' = item
  /\ UNCHANGED <<item, todo, outsideVars, runVars, jobVars>>

SaveRunning ==
  /\ pc = "spawned" /\ pc' = "idle" /\ cur' = NoItem
  /\ Store([item EXCEPT ![cur].status = "running"])
  /\ UNCHANGED <<todo, outsideVars, runVars, jobVars>>

-----------------------------------------------------------------------------
(* The other handlers of the queue *)

Handler == pc = "idle" /\ UNCHANGED <<todo, cur>>
\* A handler that changes the list, saves, and touches nothing else.
Edit(items) ==
  Handler /\ Store(items) /\ UNCHANGED <<pc, outsideVars, runVars, jobVars>>

\* _save at the end of a handler that has called the platform.
Save ==
  /\ pc = "dirty" /\ pc' = "idle" /\ disk' = item
  /\ UNCHANGED <<item, todo, cur, outsideVars, runVars, jobVars>>

\* add_platform: refused while the project is pending or active.
AddPlatform(i) ==
  /\ item[i].status = "absent"
  /\ ~\E j \in Items : /\ ProjectOf[j] = ProjectOf[i]
                       /\ item[j].status \in {"pending"} \cup Active
  /\ Edit([item EXCEPT ![i] = Blank("pending")])

\* fail_item: the refill no longer finds the project among the candidates.
FailItem(i) ==
  /\ item[i].status = "pending"
  /\ Edit([item EXCEPT ![i] = Ended(item[i], "failed")])

Remove(i) ==
  /\ InQueue(i) /\ item[i].status \notin Active /\ ~item[i].held
  /\ Edit([item EXCEPT ![i] = Blank("removed")])

ClearFinished ==
  /\ \E i \in Items : item[i].status \in {"failed", "skipped"}
  /\ Edit([i \in Items |->
             IF item[i].status \in {"failed", "skipped"} /\ ~item[i].held
             THEN Blank("removed") ELSE item[i]])

\* retry: allowed on anything that holds no slot; no duplicate check.
Retry(i) ==
  /\ InQueue(i) /\ item[i].status \notin Active /\ ~item[i].held
  /\ Edit([item EXCEPT ![i] = Requeued(item[i], 0, "no")])

\* Mutant of Abandoned: the stage of a dead worker still counts.
AbandonedBeforeSubmit(i) == ~WorkerAlive(i) /\ ~Submitted(i)

\* live_task_reason is empty.  That no candidate container of the task runs
\* and that an unfinished task has been quiet for twice the grace is left open.
Abandoned(i) == ~WorkerAlive(i)

\* release: the user frees the slot; the quota is left as it is.
Release(i) ==
  /\ item[i].held /\ item[i].status \in {"orphaned", "failed", "skipped"}
  /\ Abandoned(i)
  /\ Handler
  /\ Store([item EXCEPT ![i] = [Ended(item[i], "skipped") EXCEPT !.released = "manual"]])
  /\ job' = JobsAfterGet(i, item[i].run)
  /\ UNCHANGED <<pc, outsideVars, runVars, owner, waiter>>
=============================================================================
