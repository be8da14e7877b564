----------------------------- MODULE Scheduler -----------------------------
(***************************************************************************)
(* The scheduler as a whole: the queue and its tick (QueueManager), the    *)
(* executor records (JobManager) and the executors (QueueWorker), composed *)
(* with the reconcile loop (ReconcileLoop), the enforcing task guard       *)
(* (api/guard.py) and the death and restart of the server process.         *)
(***************************************************************************)
EXTENDS QueueManager

CONSTANTS MaxCrash,       \* bound: crashes of the server in one behaviour
          UserReleases,   \* whether the user releases orphaned items by hand
          SelfSelect,     \* whether executors may pick a platform task
          GuardEnforces   \* automation.guard.mode = "enforce"

ASSUME MaxCrashAssumption == MaxCrash \in Nat
ASSUME SwitchAssumption ==
  UserReleases \in BOOLEAN /\ SelfSelect \in BOOLEAN /\ GuardEnforces \in BOOLEAN

vars == <<runVars, jobVars, queueVars, outsideVars>>

Init == RunInit /\ JobInit /\ QueueInit

-----------------------------------------------------------------------------
(* ReconcileLoop.  Its handlers take the queue lock; how long ago things   *)
(* happened (the grace periods) is left open.                              *)

\* A reconcile step on item i that ends in rec and is still to be saved.
Reconcile(i, rec) ==
  /\ Handler /\ pc' = "dirty"
  /\ CancelTask(item[i])
  /\ Put(i, rec)
  /\ UNCHANGED <<disk, owner, waiter, worker, stage, session, chosen, crashes>>

\* _release_stuck_orphans.
ReleaseStuckOrphan(i) ==
  /\ item[i].status = "orphaned" /\ item[i].held /\ item[i].released # "manual"
  /\ Abandoned(i)
  /\ Reconcile(i, [Ended(Refunded(item[i]), "skipped") EXCEPT !.released = "auto"])
  /\ job' = JobsAfterGet(i, item[i].run)
  /\ UNCHANGED state

\* _force_settle_stale_quota: claimed for 6 hours, whatever the item does.
ForceSettle(i) ==
  /\ InQueue(i) /\ item[i].quota = "claimed"
  /\ Reconcile(i, Refunded(item[i]))
  /\ UNCHANGED <<job, state>>

\* _requeue_outage_items: refund and retry what an LLM outage broke.
OutageRequeue(i) ==
  /\ item[i].released # "manual"
  /\ \/ item[i].status = "orphaned" /\ Abandoned(i)
     \/ item[i].status = "failed"
     \/ item[i].status = "skipped" /\ item[i].released = "auto"
  /\ Reconcile(i, Requeued(item[i], 0, "no"))
  /\ job' = IF item[i].status = "orphaned" THEN JobsAfterGet(i, item[i].run) ELSE job
  /\ UNCHANGED state

\* TaskGuard.stop_task: the containers go, state.json is closed as failed
\* and the item with it; the executor is spared and sees the closed state.
GuardStop(i) ==
  LET r == item[i].run
  IN  /\ GuardEnforces
      /\ item[i].status \in Active /\ SeenState(i) = "active"
      /\ Reconcile(i, Ended(Refunded(item[i]), "failed"))
      /\ state' = [state EXCEPT ![r] = "bad"]
      /\ job' = JobsAfterGet(i, r)

-----------------------------------------------------------------------------
(* The server process *)

\* The process dies: what is not on disk is lost, and so are its threads.
Die ==
  /\ pc # "down" /\ crashes < MaxCrash /\ crashes' = crashes + 1
  /\ pc' = "down" /\ todo' = {} /\ cur' = NoItem
  /\ item' = disk
  /\ waiter' = [r \in Runs |-> FALSE]
  /\ UNCHANGED <<disk, platformVars, owner, job, stage, session, state, chosen>>

Crash == Die /\ UNCHANGED worker

\* It dies inside start_platform, after the fork and before the sidecar.
CrashInStart ==
  /\ pc = "saved" /\ ~StartRefused(cur)
  /\ Die
  /\ worker' = [worker EXCEPT ![item[cur].run] = "alive"]

\* A new process takes over the sidecars; reap_orphan_workers stops every
\* worker it does not own, unless ps fails.
Restart ==
  /\ pc = "down" /\ pc' = "idle"
  /\ \E hit \in KillOutcomes(OrphanWorkers) : worker' = Terminated(hit)
  /\ UNCHANGED <<item, disk, todo, cur, platformVars, jobVars, stage, session,
                 state, chosen, crashes>>

-----------------------------------------------------------------------------
\* The executor's skill picked a platform task of its own (external).
ExecutorSelects(r, t) ==
  /\ SelfSelect /\ FreshTask(t)
  /\ session[r] = "live" /\ state[r] # "none" /\ chosen[r] = NoTask
  /\ chosen' = [chosen EXCEPT ![r] = t]
  /\ srv' = [srv EXCEPT ![t] = "open"]
  /\ UNCHANGED <<worker, stage, session, state, jobVars, queueVars, calls, crashes>>

\* A step of an executor or of the outside world that the monitor is not in.
Outside == UNCHANGED <<jobVars, queueVars, outsideVars>>

RunStep(r) ==
  \/ WorkerFailsEarly(r) /\ Outside
  \/ DeliverPrompt(r) /\ Outside
  \/ ReportSubmitted(r) /\ Outside
  \/ ReportComplete(r) /\ Outside
  \/ ReportFailure(r) /\ Outside
  \/ SessionEnds(r) /\ Outside
  \/ \E s \in TaskStates \ {"none"} : SessionWrites(r, s) /\ Outside
  \/ \E t \in Tasks : ExecutorSelects(r, t)
  \/ WaitReturns(r) /\ UNCHANGED <<runVars, queueVars, outsideVars>>

Launch ==
  \/ \E i \in Items, t \in Tasks : ClaimOnPlatform(i, t)
  \/ \E i \in Items, t \in Tasks : ClaimLost(i, t)
  \/ \E i \in Items : ClaimLocally(i)
  \/ \E r \in Runs : SaveLaunching(r)
  \/ \E closed \in SUBSET Runs : StartWorker(closed)
  \/ \E closed \in SUBSET Runs : StartFails(closed)
  \/ SaveRefused
  \/ SaveRunning

Tick ==
  \/ \E stale \in SUBSET Items : TickBegin(stale)
  \/ \E i \in Items : Sync(i)
  \/ \E stopped \in SUBSET Items : SyncDone(stopped)
  \/ TickEnd
  \/ Launch

UserStep(i) ==
  \/ AddPlatform(i) \/ FailItem(i) \/ Remove(i) \/ Retry(i)
  \/ UserReleases /\ Release(i)

ReconcileStep(i) ==
  \/ ReleaseStuckOrphan(i) \/ ForceSettle(i) \/ OutageRequeue(i) \/ GuardStop(i)

Next ==
  \/ \E r \in Runs : RunStep(r)
  \/ Tick
  \/ \E i \in Items : UserStep(i) \/ ReconcileStep(i)
  \/ ClearFinished
  \/ Save
  \/ Crash \/ CrashInStart \/ Restart

Spec == Init /\ [][Next]_vars

-----------------------------------------------------------------------------
(* Fairness.  The tick and the reconcile loop are threads that run for as  *)
(* long as the process lives, and the process is kept alive; a status file *)
(* that is no longer written becomes stable and its quiet time passes any  *)
(* limit (the strong conditions); a worker's waits are all bounded; and a  *)
(* desktop session is assumed to end.                                      *)
MonitorFairness ==
  /\ SF_vars(\E stale \in SUBSET Items : TickBegin(stale))
  /\ \A i \in Items :
       /\ WF_vars(Sync(i))
       /\ SF_vars(SyncSettle(i))
       /\ SF_vars(SyncFailed(i))
       /\ SF_vars(ReleaseStuckOrphan(i))
  /\ WF_vars(\E stopped \in SUBSET Items : SyncDone(stopped))
  /\ WF_vars(TickEnd \/ Launch)
  /\ WF_vars(Save)
  /\ WF_vars(Restart)

RunFairness ==
  \A r \in Runs :
    /\ WF_vars((WorkerFailsEarly(r) \/ ReportSubmitted(r)) /\ Outside)
    /\ WF_vars(ReportFailure(r) /\ Outside)
    /\ WF_vars(SessionEnds(r) /\ Outside)

FairSpec == Spec /\ MonitorFairness /\ RunFairness

-----------------------------------------------------------------------------
(* Safety *)

\* Every variable stays in its range; in particular an item is never retried
\* by the tick more often than stalledTaskRetryLimit allows.
TypeOK == RunTypeOK /\ JobTypeOK /\ QueueTypeOK

\* An item occupies a concurrency slot exactly while it is launching, running,
\* triggered or orphaned, in memory and in the queue file a restart reads: the
\* dozen handlers that write status and capacityHeld keep the two together.
SlotHeldIffActive ==
  \A i \in Items : /\ item[i].held <=> item[i].status \in Active
                   /\ disk[i].held <=> disk[i].status \in Active

\* refund_quota is idempotent: a platform task is cancelled once, plus at most
\* once more for every crash between a cancel and the save that records it.
CancelOnce == \A t \in Tasks : calls[t] <= 1 + crashes

\* A task whose quota was settled as used has never been cancelled (a crash
\* may lose the record of a cancel, and the task may then still succeed).
SettledTaskKept ==
  \A i \in Items :
    item[i].quota = "settled" /\ item[i].task # NoTask /\ crashes = 0
      => calls[item[i].task] = 0

\* Pre-deducted quota is never dropped: without a crash, a task the monitor has
\* on the platform and never cancelled is still on some item, claimed or
\* settled.  It is what every way back to "pending" and out of the queue has
\* to preserve.
OpenTaskAccounted ==
  crashes = 0 =>
    \A t \in Tasks : srv[t] = "open" /\ calls[t] = 0 =>
      \E i \in Items : item[i].task = t /\ item[i].quota \in {"claimed", "settled"}

\* An executor is never started on a platform task that was cancelled: a retry
\* does not reuse the block of the attempt before.
NoWorkerOnCancelledTask ==
  pc = "spawned" /\ item[cur].task # NoTask =>
    srv[item[cur].task] = "open" /\ calls[item[cur].task] = 0

\* An executor of the same item was started before r.
LaterAttempt(r) == \E q \in Runs : q < r /\ owner[q] = owner[r]

\* While the server runs, the live executor of a first attempt is on record as
\* running, so that capacity counts it and a second one is refused.  That of a
\* later attempt can lose its record to the late _wait thread of an earlier
\* one (README, "Findings").
LiveWorkerOnRecord ==
  pc # "down" =>
    \A r \in Runs : worker[r] = "alive" =>
      job[owner[r]] = [run |-> r, status |-> "running"] \/ LaterAttempt(r)

-----------------------------------------------------------------------------
(* Action properties *)

\* A tick neither revives a terminal item nor refunds it again.
TerminalSettledOnce ==
  [][\A i \in Items :
       pc = "sync" /\ pc' # "down" /\ item[i].status \in Terminal
         => /\ item'[i].status \in Terminal
            /\ item'[i].quota = item[i].quota
            /\ item[i].task # NoTask => calls'[item[i].task] = calls[item[i].task]]_vars

\* A step of the tick that takes an active item back to "pending".
TickRequeues(i) ==
  /\ pc = "sync" /\ pc' = "sync"
  /\ item[i].status \in Active /\ item'[i].status = "pending"

\* However quiet a task is, the tick does not start another attempt beside it
\* once it has written a state.json that has not ended.
StartedNeverRetried ==
  [][\A i \in Items : TickRequeues(i) => state[item[i].run] # "active"]_vars

\* Closing the abandoned tasks of a project before a launch never closes one
\* that the live executor of a first attempt is watching, although its item
\* may have been released and queued again.
StaleCloseSparesWatched ==
  [][\A r \in Runs :
       pc = "saved" /\ pc' \in {"spawned", "refused"} /\ state'[r] # state[r]
         => worker[r] # "alive" \/ LaterAttempt(r)]_vars

-----------------------------------------------------------------------------
(* Refinement: what the queue promises of the platform's tasks.            *)

\* The ledger the queue file and the platform amount to.
LedgerOf(t) ==
  CASE \E i \in Items : disk[i].task = t /\ disk[i].quota = "settled" -> "consumed"
    [] OTHER -> IF calls[t] > 0 THEN "released"
                ELSE IF srv[t] = "none" THEN "free"
                ELSE IF srv[t] = "lost" THEN "lost" ELSE "reserved"

Ledger == INSTANCE QuotaLedger WITH ledger <- [t \in Tasks |-> LedgerOf(t)]

\* Without crashes and manual releases every reserved platform task is in the
\* end either consumed by a success or released by a cancel, once and for all.
LedgerSpec == Ledger!LiveSpec

-----------------------------------------------------------------------------
(* What the code means to exclude and does not (README, "Findings").       *)

\* A project is at most once among the pending and active items.
OneItemPerProject ==
  \A i, j \in Items :
    /\ i # j /\ ProjectOf[i] = ProjectOf[j]
    /\ item[i].status \in {"pending"} \cup Active
    => item[j].status \notin {"pending"} \cup Active

-----------------------------------------------------------------------------
(* Liveness *)

\* Whatever happens to its executor, its session or the server, an item gives
\* its slot back.
SlotReleased == \A i \in Items : item[i].held ~> ~item[i].held

\* A claimed quota is settled or refunded by the ordinary paths, without the
\* six hour limit, unless the user releases the item (release() leaves it).
QuotaResolved ==
  \A i \in Items :
    item[i].quota = "claimed"
      ~> item[i].quota # "claimed" \/ item[i].released = "manual"
=============================================================================
