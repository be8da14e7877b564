-------------------------- MODULE Scheduler_proofs --------------------------
(***************************************************************************)
(* What the scheduler does with slots, platform tasks and executors, for   *)
(* any number of items, runs and tasks.  Each invariant extends the one    *)
(* before it.                                                              *)
(*                                                                         *)
(* Inv   capacityHeld and status agree (SlotHeldIffActive).  The launch    *)
(*       writes the two at different steps from what an earlier step left  *)
(*       (Launching), disk must satisfy it as well because a crash copies  *)
(*       disk to item, and the walk of the tick reads the run of an item,  *)
(*       which has to be in range (the type invariant).                    *)
(* QInv  A task is cancelled once.  A second cancel could come from a      *)
(*       second item or run that holds the same task (excluded by          *)
(*       OneOwner, OwnTasks, OwnSelections), or from a quota block still   *)
(*       open after its cancel was sent (counted by Uncancelled): only a   *)
(*       crash, which restores the saved block, reopens one.               *)
(* LInv  adds what a block may say in each status, and that a claimed task *)
(*       is untouched until its executor starts.                           *)
(* RInv  adds, for a server that does not crash, that the queue file never *)
(*       settles more than memory does: every step is a ledger step.       *)
(* OInv  adds that a claimed block belongs to an active item: a task on no *)
(*       item has been cancelled.                                          *)
(* TInv  adds that an active item has the record of its run: only then can *)
(*       a retry see that the task has started.                            *)
(* FInv  orders the runs of an item: a late _wait thread of an earlier run *)
(*       is the only one that can take a record away from a live executor. *)
(***************************************************************************)
EXTENDS Scheduler, TLAPS

-----------------------------------------------------------------------------
(* A slot is held exactly while an item is active *)

\* Records whose slot agrees with their status, and whose run is fresh while
\* they wait.
FitRecord ==
  {rec \in ItemRecord : /\ rec.held <=> rec.status \in Active
                        /\ rec.status = "pending" => rec.run = NoRun}

\* The variables of QueueManager other than the two lists.
QueueRestOK ==
  /\ pc \in PC /\ todo \in SUBSET Items /\ cur \in Items \cup {NoItem}
  /\ srv \in [Tasks -> {"none", "open", "lost", "cancelled"}]
  /\ calls \in [Tasks -> Nat]
  /\ crashes \in Nat

\* What the launch relies on between its steps: the item it claimed for is
\* there, and still launching until the worker is up.
Launching ==
  /\ pc \in {"claimed", "saved", "spawned", "refused"} => cur \in Items
  /\ pc \in {"saved", "spawned"} => item[cur].status = "launching"

\* The inductive invariant.
Inv ==
  /\ RunTypeOK /\ JobTypeOK /\ QueueRestOK
  /\ item \in [Items -> FitRecord] /\ disk \in [Items -> FitRecord]
  /\ Launching

\* add_platform and every removal write a record that holds no slot and has
\* no run.
LEMMA BlankFits ==
  ASSUME NEW s \in {"absent", "pending", "removed"}
  PROVE  Blank(s) \in FitRecord
BY StalledLimitAssumption DEF Blank, FitRecord, ItemRecord, Status, QuotaState, Active, Terminal, NoRun, NoTask

\* A handler that ends an item (done, failed, skipped) gives its slot back.
LEMMA EndedFits ==
  ASSUME NEW rec \in FitRecord, NEW s \in Terminal
  PROVE  Ended(rec, s) \in FitRecord
BY DEF Ended, FitRecord, ItemRecord, Status, Active, Terminal

\* settle_quota touches the quota block alone: neither the status nor the slot
\* of an item depends on it.
LEMMA SettledFits ==
  ASSUME NEW rec \in FitRecord
  PROVE  Settled(rec) \in FitRecord /\ Refunded(rec) \in FitRecord
BY DEF Settled, Refunded, FitRecord, ItemRecord, QuotaState

\* Every way back to "pending" leaves an item without a slot and without the
\* run of the attempt before.
LEMMA RequeuedFits ==
  ASSUME NEW rec \in FitRecord, NEW n \in 0..StalledLimit, NEW rel \in {"no", "auto", "manual"}
  PROVE  Requeued(rec, n, rel) \in FitRecord
BY DEF Requeued, Blank, FitRecord, ItemRecord, Status, QuotaState, Active, Terminal, NoRun, NoTask

\* get_platform answers with a record of the run it was asked for, or with
\* nothing, and what it stores is again a table of records.
LEMMA GetPlatformType ==
  ASSUME JobTypeOK, NEW i \in Items, NEW r \in Runs \cup {NoRun}
  PROVE  /\ GetPlatform(i, r) \in [run : Runs \cup {NoRun}, status : JobStatus]
         /\ GetPlatform(i, r) # NoJob => r \in Runs
         /\ JobsAfterGet(i, r) \in [Items -> [run : Runs \cup {NoRun}, status : JobStatus]]
BY DEF JobTypeOK, GetPlatform, JobsAfterGet, NoJob, JobStatus, FinalStatus, NoRun

\* _absorb_executor_quota changes the quota block only: status, slot, run key
\* and retry count of the item stay.
LEMMA AbsorbedFits ==
  ASSUME Inv, NEW i \in Items
  PROVE  /\ Absorbed(i) \in FitRecord
         /\ Absorbed(i).status = item[i].status
         /\ Absorbed(i).held = item[i].held
         /\ Absorbed(i).run = item[i].run
         /\ Absorbed(i).retries = item[i].retries
<1> DEFINE rec == item[i]
           t == IF GetPlatform(i, rec.run) = NoJob THEN NoTask ELSE chosen[rec.run]
<1>1. rec \in FitRecord /\ rec \in ItemRecord
  BY DEF Inv, FitRecord
<1>2. rec.run \in Runs \cup {NoRun}
  BY <1>1 DEF ItemRecord
<1>3. t \in Tasks \cup {NoTask}
  BY <1>2, GetPlatformType DEF Inv, RunTypeOK
<1>4. CASE t = NoTask
  BY <1>1, <1>4 DEF Absorbed
<1>5. CASE t # NoTask
  <2>1. Absorbed(i) = [rec EXCEPT !.quota = IF rec.task \notin {NoTask, t} THEN "superseded"
                                            ELSE @,
                                  !.task = t]
    BY <1>5 DEF Absorbed
  <2> HIDE DEF t
  <2> QED
    BY <1>1, <1>3, <2>1 DEF FitRecord, ItemRecord, QuotaState
<1> QED
  BY <1>4, <1>5

\* refund_quota keeps the platform's tasks and the cancel counts in range.
LEMMA CancelType ==
  ASSUME QueueRestOK, NEW rec \in ItemRecord, CancelTask(rec)
  PROVE  /\ srv' \in [Tasks -> {"none", "open", "lost", "cancelled"}]
         /\ calls' \in [Tasks -> Nat]
BY DEF QueueRestOK, CancelTask, ItemRecord, platformVars, NoTask

\* The set JobTypeOK takes the records from.
JobRecord == [run : Runs \cup {NoRun}, status : JobStatus]

\* Writing a status under a key, as _wait and stop_platform_worker_for_retry
\* do, keeps the records well-formed, even when nothing is under that key.
LEMMA StatusUpdate ==
  ASSUME job \in [Items -> JobRecord], NEW x, NEW s \in JobStatus
  PROVE  [job EXCEPT ![x].status = s] \in [Items -> JobRecord]
<1> SUFFICES ASSUME NEW i \in Items PROVE [job EXCEPT ![x].status = s][i] \in JobRecord
  OBVIOUS
<1>1. CASE i = x
  BY <1>1 DEF JobRecord
<1>2. CASE i # x
  BY <1>2
<1> QED
  BY <1>1, <1>2

\* Replacing the record of one item by a fitting one keeps all of them fitting.
LEMMA PutKeeps ==
  ASSUME Inv, NEW i \in Items, NEW rec \in FitRecord, Put(i, rec)
  PROVE  item' \in [Items -> FitRecord]
BY DEF Put, Inv

\* What Inv says of a single item's record.
LEMMA RunOfItem ==
  ASSUME Inv, NEW i \in Items
  PROVE  item[i] \in FitRecord /\ item[i] \in ItemRecord /\ item[i].run \in Runs \cup {NoRun}
         /\ item[i].retries \in 0..StalledLimit /\ item[i].released \in {"no", "auto", "manual"}
BY DEF Inv, FitRecord, ItemRecord

\* The executors, their sessions and the _wait threads run outside the queue
\* lock and never touch an item.
LEMMA RunStepInv ==
  ASSUME Inv, NEW r \in Runs, RunStep(r)
  PROVE  Inv'
<1> USE DEF Inv, RunTypeOK, Stages, WorkerStates, SessionStates, TaskStates
<1>1. ASSUME RunTypeOK', Outside PROVE Inv'
  BY <1>1 DEF Outside, jobVars, queueVars, outsideVars, platformVars, JobTypeOK, QueueRestOK, Launching
<1>2. CASE WorkerFailsEarly(r) /\ Outside
  BY <1>1, <1>2 DEF WorkerFailsEarly
<1>3. CASE DeliverPrompt(r) /\ Outside
  BY <1>1, <1>3 DEF DeliverPrompt
<1>4. CASE ReportSubmitted(r) /\ Outside
  BY <1>1, <1>4 DEF ReportSubmitted
<1>5. CASE ReportComplete(r) /\ Outside
  BY <1>1, <1>5 DEF ReportComplete
<1>6. CASE ReportFailure(r) /\ Outside
  BY <1>1, <1>6 DEF ReportFailure
<1>7. CASE SessionEnds(r) /\ Outside
  BY <1>1, <1>7 DEF SessionEnds
<1>8. CASE \E s \in TaskStates \ {"none"} : SessionWrites(r, s) /\ Outside
  BY <1>1, <1>8 DEF SessionWrites
<1>9. CASE \E t \in Tasks : ExecutorSelects(r, t)
  BY <1>9 DEF ExecutorSelects, jobVars, queueVars, JobTypeOK, QueueRestOK, Launching
<1>10. CASE WaitReturns(r) /\ UNCHANGED <<runVars, queueVars, outsideVars>>
  <2>1. FinalStatus(r) \in JobStatus
    BY DEF FinalStatus, JobStatus
  <2>2. job' \in [Items -> JobRecord]
    BY <1>10, <2>1, StatusUpdate DEF WaitReturns, JobTypeOK, JobRecord
  <2> QED
    BY <1>10, <2>2 DEF WaitReturns, runVars, queueVars, outsideVars, platformVars, JobTypeOK,
                       JobRecord, QueueRestOK, Launching
<1> QED
  BY <1>2, <1>3, <1>4, <1>5, <1>6, <1>7, <1>8, <1>9, <1>10 DEF RunStep

\* A visit of _sync_running_locked, whichever of its branches it takes, keeps
\* slot and status together.
LEMMA SyncInv ==
  ASSUME Inv, NEW i \in Items, Sync(i)
  PROVE  Inv'
<1>1. /\ pc = "sync" /\ todo' = todo \ {i}
      /\ UNCHANGED <<disk, pc, cur, crashes, stage, session, state, chosen, owner, waiter>>
  BY DEF Sync, SyncTerminal, SyncUnstable, SyncWatched, SyncSettle, SyncFailed, SyncStalled,
         SyncEarlyExit, SyncRunning, SyncPending, SyncOrphaned, InFlight, Visiting, Visit,
         Quietly, RetryStalled, outsideVars, platformVars, runVars, jobVars
<1>2. ASSUME item' \in [Items -> FitRecord], job' \in [Items -> JobRecord],
             worker' \in [Runs -> WorkerStates],
             srv' \in [Tasks -> {"none", "open", "lost", "cancelled"}],
             calls' \in [Tasks -> Nat]
      PROVE  Inv'
  BY <1>1, <1>2 DEF Inv, RunTypeOK, JobTypeOK, QueueRestOK, Launching, JobRecord
<1>3. /\ JobsAfterGet(i, item[i].run) \in [Items -> JobRecord]
      /\ UNCHANGED worker => worker' \in [Runs -> WorkerStates]
      /\ UNCHANGED job => job' \in [Items -> JobRecord]
      /\ UNCHANGED srv => srv' \in [Tasks -> {"none", "open", "lost", "cancelled"}]
      /\ UNCHANGED calls => calls' \in [Tasks -> Nat]
  BY RunOfItem, GetPlatformType DEF Inv, RunTypeOK, JobTypeOK, QueueRestOK, JobRecord
<1>4. ASSUME NEW rec \in FitRecord, Put(i, rec), Quietly(i)
      PROVE  Inv'
  BY <1>2, <1>3, <1>4, PutKeeps DEF Quietly, outsideVars, platformVars, runVars
<1>5. ASSUME CancelTask(Absorbed(i)), NEW rec \in FitRecord, Put(i, rec),
             job' \in [Items -> JobRecord], worker' \in [Runs -> WorkerStates]
      PROVE  Inv'
  <2>1. Absorbed(i) \in ItemRecord
    BY AbsorbedFits DEF FitRecord
  <2> QED
    BY <1>2, <1>5, <2>1, PutKeeps, CancelType DEF Inv
<1>6. CASE SyncTerminal(i)
  BY <1>2, <1>3, <1>6, RunOfItem, PutKeeps
     DEF SyncTerminal, FitRecord, ItemRecord, Active, Terminal, Status, outsideVars, platformVars, runVars, jobVars
<1>7. CASE SyncUnstable(i) \/ SyncPending(i)
  BY <1>4, <1>7, AbsorbedFits DEF SyncUnstable, SyncPending
<1>8. CASE SyncWatched(i)
  <2>1. [Absorbed(i) EXCEPT !.status = "triggered", !.held = TRUE] \in FitRecord
    BY AbsorbedFits DEF FitRecord, ItemRecord, Active, Status
  <2> QED
    BY <1>4, <1>8, <2>1 DEF SyncWatched
<1>9. CASE SyncSettle(i)
  BY <1>4, <1>9, AbsorbedFits, SettledFits, EndedFits DEF SyncSettle, Terminal
<1>10. CASE SyncFailed(i)
  BY <1>3, <1>5, <1>10, AbsorbedFits, SettledFits, EndedFits DEF SyncFailed, Terminal, runVars
<1>11. CASE SyncStalled(i) \/ SyncEarlyExit(i)
  <2>1. item[i].retries < StalledLimit /\ RetryStalled(i)
    BY <1>11 DEF SyncStalled, SyncEarlyExit, EarlyExit, MayRetry
  <2>2. Requeued(item[i], item[i].retries + 1, item[i].released) \in FitRecord
    <3>1. item[i].retries + 1 \in 0..StalledLimit
      BY <2>1, RunOfItem, StalledLimitAssumption
    <3> QED
      BY <3>1, RunOfItem, RequeuedFits
  <2>3. StopForRetry(i, item[i].run)
    BY <2>1 DEF RetryStalled
  <2>4. job' \in [Items -> JobRecord] /\ worker' \in [Runs -> WorkerStates]
    <3>1. [job EXCEPT ![i].status = "failed"] \in [Items -> JobRecord]
      BY StatusUpdate DEF Inv, JobTypeOK, JobRecord, JobStatus
    <3>2. \A hit : Terminated(hit) \in [Runs -> WorkerStates]
      BY DEF Terminated, Inv, RunTypeOK, WorkerStates
    <3> QED
      BY <1>3, <2>3, <3>1, <3>2 DEF StopForRetry
  <2> QED
    BY <1>5, <2>1, <2>2, <2>4 DEF RetryStalled
<1>12. CASE SyncRunning(i)
  <2> DEFINE rec == Absorbed(i)
             up == IF rec.status \in {"pending", "launching"}
                   THEN [rec EXCEPT !.status = "running"] ELSE rec
             new == IF Submitted(i) THEN [up EXCEPT !.status = "triggered", !.held = TRUE] ELSE up
  <2>1. item[i].run # NoRun
    BY <1>12 DEF SyncRunning, WorkerAlive, Seen, GetPlatform, NoJob
  <2>2. rec \in FitRecord /\ rec.status # "pending"
    BY <2>1, AbsorbedFits, RunOfItem DEF FitRecord
  <2>3. up \in FitRecord
    BY <2>2 DEF FitRecord, ItemRecord, Active, Status
  <2>4. new \in FitRecord
    BY <2>3 DEF FitRecord, ItemRecord, Active, Status
  <2> QED
    BY <1>4, <1>12, <2>4 DEF SyncRunning
<1>13. CASE SyncOrphaned(i)
  <2> DEFINE s == IF Submitted(i) /\ Seen(i).status = "finished" THEN "triggered" ELSE "orphaned"
  <2>1. [Absorbed(i) EXCEPT !.status = s, !.held = TRUE] \in FitRecord
    <3>1. s \in {"triggered", "orphaned"}
      OBVIOUS
    <3> HIDE DEF s
    <3> QED
      BY <3>1, AbsorbedFits DEF FitRecord, ItemRecord, Active, Status
  <2> QED
    BY <1>4, <1>13, <2>1 DEF SyncOrphaned
<1> QED
  BY <1>6, <1>7, <1>8, <1>9, <1>10, <1>11, <1>12, <1>13 DEF Sync

\* A tick: reaping, the walk, the stop list, the claim and the launch with its
\* failure path.
LEMMA TickInv ==
  ASSUME Inv, Tick
  PROVE  Inv'
<1>1. ASSUME NEW stale \in SUBSET Items, TickBegin(stale)
      PROVE  Inv'
  <2>1. worker' \in [Runs -> WorkerStates]
    BY <1>1 DEF TickBegin, ReapJobs, Terminated, Inv, RunTypeOK, WorkerStates
  <2>2. job' \in [Items -> JobRecord]
    <3>1. ASSUME NEW i \in Items
          PROVE  /\ GetPlatform(i, job[i].run) \in JobRecord
                 /\ [job[i] EXCEPT !.status = "failed"] \in JobRecord
      BY GetPlatformType DEF Inv, JobTypeOK, JobRecord, JobStatus
    <3> QED
      BY <1>1, <3>1 DEF TickBegin, ReapJobs
  <2> QED
    BY <1>1, <2>1, <2>2 DEF TickBegin, Inv, RunTypeOK, JobTypeOK, JobRecord, QueueRestOK, PC,
                            Launching, outsideVars, platformVars
<1>2. ASSUME NEW stopped \in SUBSET Items, SyncDone(stopped)
      PROVE  Inv'
  <2>1. ASSUME NEW i \in Items
        PROVE  Ended(item[i], "skipped") \in FitRecord
    BY EndedFits, RunOfItem DEF Terminal
  <2>2. item' \in [Items -> FitRecord] /\ disk' \in [Items -> FitRecord]
    BY <1>2, <2>1 DEF SyncDone, Store, Inv
  <2> QED
    BY <1>2, <2>2 DEF SyncDone, Inv, RunTypeOK, JobTypeOK, QueueRestOK, PC, Launching,
                      outsideVars, platformVars, runVars, jobVars
<1>3. CASE TickEnd
  BY <1>3 DEF TickEnd, Inv, RunTypeOK, JobTypeOK, QueueRestOK, PC, Launching,
              outsideVars, platformVars, runVars, jobVars
<1>4. ASSUME NEW i \in Items, NEW t \in Tasks \cup {NoTask}, Claim(i, t),
             srv' \in [Tasks -> {"none", "open", "lost", "cancelled"}]
      PROVE  Inv'
  <2>1. [item[i] EXCEPT !.quota = "claimed", !.task = t] \in FitRecord
    BY RunOfItem DEF FitRecord, ItemRecord, QuotaState
  <2>2. item' \in [Items -> FitRecord]
    BY <1>4, <2>1 DEF Claim, Put, Inv
  <2> QED
    BY <1>4, <2>2 DEF Claim, Inv, RunTypeOK, JobTypeOK, QueueRestOK, PC, Launching, runVars, jobVars
<1>5. ASSUME NEW i \in Items, NEW t \in Tasks, ClaimOnPlatform(i, t) \/ ClaimLost(i, t)
      PROVE  Inv'
  BY <1>4, <1>5 DEF ClaimOnPlatform, ClaimLost, Inv, QueueRestOK
<1>6. ASSUME NEW i \in Items, ClaimLocally(i)
      PROVE  Inv'
  BY <1>4, <1>6 DEF ClaimLocally, Inv, QueueRestOK
<1>7. ASSUME NEW r \in Runs, SaveLaunching(r)
      PROVE  Inv'
  <2>1. cur \in Items
    BY <1>7 DEF SaveLaunching, Inv, Launching
  <2> DEFINE new == [item EXCEPT ![cur].status = "launching", ![cur].held = TRUE, ![cur].run = r]
  <2>2. new \in [Items -> FitRecord] /\ new[cur].status = "launching"
    <3>1. [item[cur] EXCEPT !.status = "launching", !.held = TRUE, !.run = r] \in FitRecord
      BY <2>1, RunOfItem DEF FitRecord, ItemRecord, Status, Active
    <3>2. new = [item EXCEPT ![cur] = [item[cur] EXCEPT !.status = "launching", !.held = TRUE, !.run = r]]
      BY <2>1 DEF Inv
    <3> QED
      BY <2>1, <3>1, <3>2 DEF Inv
  <2>3. item' = new /\ disk' = new
    BY <1>7 DEF SaveLaunching, Store
  <2> QED
    BY <1>7, <2>1, <2>2, <2>3 DEF SaveLaunching, Inv, RunTypeOK, JobTypeOK, QueueRestOK, PC,
       Launching, outsideVars, platformVars, runVars
<1>8. ASSUME NEW closed \in SUBSET Runs, CloseStale(closed)
      PROVE  state' \in [Runs -> TaskStates]
  BY <1>8 DEF CloseStale, Inv, RunTypeOK, TaskStates
<1>9. ASSUME NEW closed \in SUBSET Runs, StartWorker(closed)
      PROVE  Inv'
  <2>1. item[cur] \in FitRecord /\ cur \in Items
    BY <1>9 DEF StartWorker, Inv, Launching
  <2>2. item[cur].run \in Runs \cup {NoRun}
    BY <2>1, RunOfItem
  <2>3. worker' \in [Runs -> WorkerStates] /\ waiter' \in [Runs -> BOOLEAN] /\ job' \in [Items -> JobRecord]
    BY <1>9, <2>2 DEF StartWorker, StartPlatform, Inv, RunTypeOK, JobTypeOK, WorkerStates, JobRecord, JobStatus
  <2> QED
    BY <1>8, <1>9, <2>1, <2>3 DEF StartWorker, CloseStale, Inv, RunTypeOK, JobTypeOK, JobRecord, QueueRestOK,
       PC, Launching, outsideVars, platformVars
<1>10. ASSUME NEW closed \in SUBSET Runs, StartFails(closed)
       PROVE  Inv'
  <2>1. cur \in Items /\ item[cur] \in FitRecord /\ item[cur] \in ItemRecord
    BY <1>10, RunOfItem DEF StartFails, Inv, Launching
  <2>2. Ended(Refunded(item[cur]), "failed") \in FitRecord
    BY <2>1, SettledFits, EndedFits DEF Terminal
  <2>3. item' \in [Items -> FitRecord]
    BY <1>10, <2>1, <2>2, PutKeeps DEF StartFails
  <2>4. /\ srv' \in [Tasks -> {"none", "open", "lost", "cancelled"}]
        /\ calls' \in [Tasks -> Nat]
    BY <1>10, <2>1, CancelType DEF StartFails, Inv
  <2> QED
    BY <1>8, <1>10, <2>1, <2>3, <2>4 DEF StartFails, CloseStale, Inv, RunTypeOK, JobTypeOK, QueueRestOK,
       PC, Launching, jobVars
<1>11. CASE SaveRefused
  BY <1>11 DEF SaveRefused, Inv, RunTypeOK, JobTypeOK, QueueRestOK, PC, Launching,
              outsideVars, platformVars, runVars, jobVars
<1>12. CASE SaveRunning
  <2>1. cur \in Items /\ item[cur] \in FitRecord /\ item[cur].status = "launching"
    BY <1>12, RunOfItem DEF SaveRunning, Inv, Launching
  <2>2. [item[cur] EXCEPT !.status = "running"] \in FitRecord
    BY <2>1 DEF FitRecord, ItemRecord, Status, Active
  <2>3. item' \in [Items -> FitRecord] /\ disk' \in [Items -> FitRecord]
    BY <1>12, <2>1, <2>2 DEF SaveRunning, Store, Inv
  <2> QED
    BY <1>12, <2>3 DEF SaveRunning, Inv, RunTypeOK, JobTypeOK, QueueRestOK, PC, Launching,
              outsideVars, platformVars, runVars, jobVars
<1> QED
  BY <1>1, <1>2, <1>3, <1>5, <1>6, <1>7, <1>9, <1>10, <1>11, <1>12, SyncInv DEF Tick, Launch

\* A handler that only edits the list and saves it keeps the invariant when the
\* records it writes fit.
LEMMA EditKeeps ==
  ASSUME Inv, NEW items \in [Items -> FitRecord], Edit(items)
  PROVE  Inv'
BY DEF Edit, Handler, Store, Inv, RunTypeOK, JobTypeOK, QueueRestOK, PC, Launching,
       outsideVars, platformVars, runVars, jobVars

\* The queue page: add, fail, remove, retry and the manual release.
LEMMA UserInv ==
  ASSUME Inv, NEW i \in Items, UserStep(i)
  PROVE  Inv'
<1> USE RunOfItem
<1>1. ASSUME NEW rec \in FitRecord, Edit([item EXCEPT ![i] = rec])
      PROVE  Inv'
  <2>1. [item EXCEPT ![i] = rec] \in [Items -> FitRecord]
    BY DEF Inv
  <2> QED
    BY <1>1, <2>1, EditKeeps
<1>2. CASE AddPlatform(i)
  BY <1>1, <1>2, BlankFits DEF AddPlatform
<1>3. CASE FailItem(i)
  BY <1>1, <1>3, EndedFits DEF FailItem, Terminal
<1>4. CASE Remove(i)
  BY <1>1, <1>4, BlankFits DEF Remove
<1>5. CASE Retry(i)
  <2>1. Requeued(item[i], 0, "no") \in FitRecord
    BY RequeuedFits, StalledLimitAssumption
  <2> QED
    BY <1>1, <1>5, <2>1 DEF Retry
<1>6. CASE Release(i)
  <2>1. [Ended(item[i], "skipped") EXCEPT !.released = "manual"] \in FitRecord
    BY EndedFits DEF Terminal, FitRecord, ItemRecord
  <2>2. job' \in [Items -> JobRecord]
    BY <1>6, GetPlatformType DEF Release, Inv, JobRecord
  <2>3. item' \in [Items -> FitRecord] /\ disk' \in [Items -> FitRecord]
    BY <1>6, <2>1 DEF Release, Store, Inv
  <2> QED
    BY <1>6, <2>2, <2>3 DEF Release, Handler, Inv, RunTypeOK, JobTypeOK, JobRecord, QueueRestOK,
       Launching, outsideVars, platformVars, runVars
<1> QED
  BY <1>2, <1>3, <1>4, <1>5, <1>6 DEF UserStep

\* The reconcile loop and the enforcing guard, up to their save.
LEMMA ReconcileInv ==
  ASSUME Inv, NEW i \in Items, ReconcileStep(i)
  PROVE  Inv'
<1>1. ASSUME NEW rec \in FitRecord, Reconcile(i, rec), job' \in [Items -> JobRecord],
             state' \in [Runs -> TaskStates]
      PROVE  Inv'
  <2>1. item' \in [Items -> FitRecord]
    BY <1>1, PutKeeps DEF Reconcile
  <2>2. /\ srv' \in [Tasks -> {"none", "open", "lost", "cancelled"}]
        /\ calls' \in [Tasks -> Nat]
    BY <1>1, CancelType, RunOfItem DEF Reconcile, Inv
  <2> QED
    BY <1>1, <2>1, <2>2 DEF Reconcile, Handler, Inv, RunTypeOK, JobTypeOK, JobRecord, QueueRestOK,
       PC, Launching
<1>2. Refunded(item[i]) \in FitRecord /\ item[i] \in FitRecord
  BY RunOfItem, SettledFits
<1>3. JobsAfterGet(i, item[i].run) \in [Items -> JobRecord] /\ job \in [Items -> JobRecord]
      /\ state \in [Runs -> TaskStates]
  BY RunOfItem, GetPlatformType DEF Inv, JobRecord, JobTypeOK, RunTypeOK
<1>4. CASE ReleaseStuckOrphan(i)
  <2>1. [Ended(Refunded(item[i]), "skipped") EXCEPT !.released = "auto"] \in FitRecord
    BY <1>2, EndedFits DEF Terminal, FitRecord, ItemRecord
  <2> QED
    BY <1>1, <1>3, <1>4, <2>1 DEF ReleaseStuckOrphan
<1>5. CASE ForceSettle(i)
  BY <1>1, <1>2, <1>3, <1>5 DEF ForceSettle
<1>6. CASE OutageRequeue(i)
  <2>1. Requeued(item[i], 0, "no") \in FitRecord
    BY <1>2, RequeuedFits, StalledLimitAssumption
  <2> QED
    BY <1>1, <1>3, <1>6, <2>1 DEF OutageRequeue
<1>7. CASE GuardStop(i)
  <2>1. Ended(Refunded(item[i]), "failed") \in FitRecord
    BY <1>2, EndedFits DEF Terminal
  <2>2. state' \in [Runs -> TaskStates]
    BY <1>3, <1>7 DEF GuardStop, TaskStates
  <2> QED
    BY <1>1, <1>3, <1>7, <2>1, <2>2 DEF GuardStop
<1> QED
  BY <1>4, <1>5, <1>6, <1>7 DEF ReconcileStep

\* Saves, the death of the process (also inside start_platform) and its restart
\* from the queue file.
LEMMA ProcessInv ==
  ASSUME Inv, Save \/ ClearFinished \/ Crash \/ CrashInStart \/ Restart
  PROVE  Inv'
<1>1. CASE Save
  BY <1>1 DEF Save, Inv, RunTypeOK, JobTypeOK, QueueRestOK, PC, Launching,
              outsideVars, platformVars, runVars, jobVars
<1>2. CASE ClearFinished
  <2>1. ASSUME NEW i \in Items PROVE item[i] \in FitRecord /\ Blank("removed") \in FitRecord
    BY RunOfItem, BlankFits
  <2> QED
    BY <1>2, <2>1, EditKeeps DEF ClearFinished
<1>3. ASSUME Die, worker' \in [Runs -> WorkerStates]
      PROVE  Inv'
  BY <1>3 DEF Die, Inv, RunTypeOK, JobTypeOK, QueueRestOK, PC, Launching, platformVars
<1>4. CASE Crash
  BY <1>3, <1>4 DEF Crash, Inv, RunTypeOK
<1>5. CASE CrashInStart
  <2>1. worker' \in [Runs -> WorkerStates]
    BY <1>5 DEF CrashInStart, Inv, RunTypeOK, WorkerStates
  <2> QED
    BY <1>3, <1>5, <2>1 DEF CrashInStart
<1>6. CASE Restart
  <2>1. worker' \in [Runs -> WorkerStates]
    BY <1>6 DEF Restart, Terminated, Inv, RunTypeOK, WorkerStates
  <2> QED
    BY <1>6, <2>1 DEF Restart, Inv, RunTypeOK, JobTypeOK, QueueRestOK, PC, Launching,
       platformVars, jobVars
<1> QED
  BY <1>1, <1>2, <1>4, <1>5, <1>6

\* A start with an empty queue file satisfies Inv.
LEMMA InvInit == Init => Inv
<1> SUFFICES ASSUME Init PROVE Inv
  OBVIOUS
<1> USE DEF Init, RunInit, JobInit, QueueInit
<1>1. item \in [Items -> FitRecord] /\ disk \in [Items -> FitRecord]
  BY BlankFits
<1>2. RunTypeOK /\ JobTypeOK
  BY DEF RunTypeOK, JobTypeOK, WorkerStates, Stages, SessionStates, TaskStates, NoJob, JobStatus
<1> QED
  BY <1>1, <1>2 DEF Inv, QueueRestOK, PC, Launching

\* No step of the scheduler leaves Inv.
LEMMA InvStep == Inv /\ [Next]_vars => Inv'
<1> SUFFICES ASSUME Inv, [Next]_vars PROVE Inv'
  OBVIOUS
<1>1. CASE UNCHANGED vars
  BY <1>1 DEF vars, runVars, jobVars, queueVars, outsideVars, platformVars, Inv, RunTypeOK,
              JobTypeOK, QueueRestOK, Launching
<1>2. CASE Next
  BY <1>2, RunStepInv, TickInv, UserInv, ReconcileInv, ProcessInv DEF Next
<1> QED
  BY <1>1, <1>2

\* Inv holds in every state of the scheduler, for any number of items, runs,
\* platform tasks and crashes.
THEOREM Invariance == Spec => []Inv
BY InvInit, InvStep, PTL DEF Spec

\* Inv contains the type invariant.
LEMMA InvTypeOK == Inv => TypeOK
BY DEF Inv, TypeOK, QueueTypeOK, QueueRestOK, FitRecord

\* Every variable stays in its range; in particular the tick retries no item
\* more often than stalledTaskRetryLimit (requeue_stalled and its guards).
THEOREM TypeCorrect == Spec => []TypeOK
BY Invariance, InvTypeOK, PTL

\* capacityHeld is set exactly on the active items, in memory and in the queue
\* file: no handler, and no crash between two of them, leaks a slot or frees one
\* that is in use.
THEOREM SlotsHeld == Spec => []SlotHeldIffActive
<1>1. Inv => SlotHeldIffActive
  BY DEF Inv, SlotHeldIffActive, FitRecord
<1> QED
  BY <1>1, Invariance, PTL

-----------------------------------------------------------------------------
(* A task is cancelled once *)

\* The run an item names was started for that item: run keys are never shared.
OneOwner(items) == \A i \in Items : items[i].run # NoRun => owner[items[i].run] = i

\* A platform task on an item exists, is on no other item, and when an executor
\* selected it then it is the executor of that very item.
OwnTasks(items) ==
  /\ \A i \in Items : items[i].task # NoTask => srv[items[i].task] # "none"
  /\ \A i \in Items, r \in Runs :
       items[i].task # NoTask /\ items[i].task = chosen[r] => items[i].run = r
  /\ \A i, j \in Items :
       items[i].task # NoTask /\ items[i].task = items[j].task => i = j

\* As long as the quota block of an item is open, the tasks refund_quota could
\* still cancel for it have been cancelled at most once per crash.
Uncancelled(i) ==
  Unsettled(item[i]) =>
    /\ item[i].task # NoTask => calls[item[i].task] <= crashes
    /\ item[i].run # NoRun /\ chosen[item[i].run] # NoTask
         => calls[chosen[item[i].run]] <= crashes

\* What has not been handed out leaves no trace: a run without an owner has
\* no process, session or selection, a task not yet created no cancel.
FreshIsUnused ==
  /\ \A r \in Runs : owner[r] = NoItem =>
       worker[r] # "alive" /\ session[r] = "none" /\ chosen[r] = NoTask
  /\ \A t \in Tasks : srv[t] = "none" => calls[t] = 0

\* The tasks executors select are real, and no two select the same.
OwnSelections ==
  /\ \A r \in Runs : chosen[r] # NoTask => srv[chosen[r]] # "none"
  /\ \A q, r \in Runs : chosen[r] # NoTask /\ chosen[q] = chosen[r] => q = r

\* The inductive invariant of CancelOnce.
QInv ==
  /\ Inv
  /\ pc = "claimed" => item[cur].status = "pending"
  /\ OneOwner(item) /\ OneOwner(disk)
  /\ OwnTasks(item) /\ OwnTasks(disk)
  /\ FreshIsUnused /\ OwnSelections
  /\ \A i \in Items : Uncancelled(i)
  /\ CancelOnce

\* new is a record a handler may write for item i without taking over a task:
\* it has forgotten run and task, or it kept the run, has the same task or the
\* one its executor selected, and did not reopen the quota block.
Derived(i, new) ==
  \/ new.run = NoRun /\ new.task = NoTask
  \/ /\ new.run = item[i].run
     /\ \/ new.task = item[i].task
        \/ new.run \in Runs /\ new.task = chosen[new.run]
     /\ Unsettled(new) => Unsettled(item[i])

\* Leaving a record alone is such a change.
LEMMA SelfDerived == \A i \in Items : Derived(i, item[i])
BY DEF Derived

\* So is _absorb_executor_quota: the task it puts on the item is its own
\* executor's.
LEMMA AbsorbedDerived ==
  ASSUME Inv, NEW i \in Items
  PROVE  Derived(i, Absorbed(i))
<1>1. item[i].run \in Runs \cup {NoRun} /\ item[i] \in ItemRecord
  BY RunOfItem
<1>2. CASE GetPlatform(i, item[i].run) = NoJob \/ chosen[item[i].run] = NoTask
  BY <1>2 DEF Absorbed, Derived
<1>3. CASE GetPlatform(i, item[i].run) # NoJob /\ chosen[item[i].run] # NoTask
  <2>1. item[i].run \in Runs
    BY <1>1, <1>3, GetPlatformType DEF Inv
  <2>2. Absorbed(i) = [item[i] EXCEPT !.quota = IF item[i].task \notin {NoTask, chosen[item[i].run]}
                                                THEN "superseded" ELSE @,
                                      !.task = chosen[item[i].run]]
    BY <1>3 DEF Absorbed
  <2> DEFINE t == chosen[item[i].run]
  <2>3. Absorbed(i).run = item[i].run /\ Absorbed(i).task = t
        /\ Absorbed(i).quota \in {item[i].quota, "superseded"}
    <3> HIDE DEF t
    <3> QED BY <1>1, <2>2 DEF ItemRecord, t
  <2> QED
    BY <2>1, <2>3 DEF Derived, Unsettled
<1> QED
  BY <1>2, <1>3

\* The parts of QInv that only depend on which run and task an item has.
\* Derived changes, saved or not, keep tasks and runs apart.
LEMMA OwnershipKept ==
  ASSUME QInv, \A i \in Items : Derived(i, item'[i]), UNCHANGED <<owner, chosen>>,
         \A t \in Tasks : srv[t] # "none" => srv'[t] # "none",
         item' \in [Items -> FitRecord], disk' \in {disk, item'}
  PROVE  /\ OneOwner(item)' /\ OwnTasks(item)' /\ OneOwner(disk)' /\ OwnTasks(disk)'
         /\ OwnSelections'
<1>1. \A i \in Items : /\ item[i].task \in Tasks \cup {NoTask} /\ item'[i].task \in Tasks \cup {NoTask}
                       /\ item[i].run \in Runs \cup {NoRun}
                       /\ disk[i].task \in Tasks \cup {NoTask}
  BY DEF QInv, Inv, FitRecord, ItemRecord
<1>2. \A r \in Runs : chosen[r] \in Tasks \cup {NoTask}
  BY DEF QInv, Inv, RunTypeOK
<1>0. OneOwner(item) /\ OneOwner(disk) /\ OwnTasks(item) /\ OwnTasks(disk) /\ OwnSelections
  BY DEF QInv
<1>3. OwnSelections'
  BY <1>0, <1>2 DEF OwnSelections
<1>4. OneOwner(item)'
  BY DEF Derived, OneOwner, QInv
<1>5. OwnTasks(item)'
  <2>1. ASSUME NEW i \in Items, item'[i].task # NoTask
        PROVE  srv'[item'[i].task] # "none"
    BY <1>0, <1>1, <1>2, <2>1 DEF Derived, OwnTasks, OwnSelections
  <2>2. ASSUME NEW i \in Items, NEW r \in Runs, item'[i].task # NoTask, item'[i].task = chosen[r]
        PROVE  item'[i].run = r
    BY <1>0, <2>2 DEF Derived, OwnTasks, OwnSelections
  <2>3. ASSUME NEW i \in Items, NEW j \in Items, item'[i].task # NoTask, item'[i].task = item'[j].task
        PROVE  i = j
    <3>1. /\ item'[i].run = item[i].run /\ item'[j].run = item[j].run
          /\ item'[i].task = item[i].task \/ (item[i].run \in Runs /\ item'[i].task = chosen[item[i].run])
          /\ item'[j].task = item[j].task \/ (item[j].run \in Runs /\ item'[j].task = chosen[item[j].run])
      BY <2>3 DEF Derived
    <3>2. CASE item'[i].task = item[i].task /\ item'[j].task = item[j].task
      BY <1>0, <2>3, <3>2 DEF OwnTasks
    <3>3. ASSUME item[i].run = item[j].run, item[i].run \in Runs PROVE i = j
      BY <1>0, <3>3 DEF OneOwner, Runs, NoRun
    <3>4. CASE item[i].run \in Runs /\ item'[i].task = chosen[item[i].run]
      <4>1. item'[j].run = item[i].run
        BY <2>2, <2>3, <3>4
      <4> QED BY <3>1, <3>3, <3>4, <4>1
    <3>5. CASE item[j].run \in Runs /\ item'[j].task = chosen[item[j].run]
      <4>1. item'[i].run = item[j].run
        BY <2>2, <2>3, <3>5
      <4> QED BY <3>1, <3>3, <3>5, <4>1
    <3> QED
      BY <3>1, <3>2, <3>4, <3>5
  <2> QED
    BY <2>1, <2>2, <2>3 DEF OwnTasks
<1>6. OneOwner(disk)' /\ OwnTasks(disk)'
  <2>1. CASE disk' = disk
    BY <1>0, <1>1, <2>1 DEF OneOwner, OwnTasks
  <2>2. CASE disk' = item'
    BY <1>4, <1>5, <2>2 DEF OneOwner, OwnTasks
  <2> QED
    BY <2>1, <2>2
<1> QED
  BY <1>3, <1>4, <1>5, <1>6

\* What a handler leaves alone while it changes items: ownership, selections,
\* and runs nobody owns.
Others ==
  /\ UNCHANGED <<owner, chosen, crashes>>
  /\ \A r \in Runs : owner[r] = NoItem => worker'[r] # "alive" /\ session'[r] = "none"
  /\ pc' = "claimed" => item'[cur'].status = "pending"

\* A handler that only makes derived changes and does not call the platform.
LEMMA QuietStep ==
  ASSUME QInv, Inv', \A i \in Items : Derived(i, item'[i]), disk' \in {disk, item'},
         Others, UNCHANGED <<srv, calls>>
  PROVE  QInv'
<1>1. item' \in [Items -> FitRecord]
  BY DEF Inv
<1>2. /\ OneOwner(item)' /\ OwnTasks(item)' /\ OneOwner(disk)' /\ OwnTasks(disk)'
      /\ OwnSelections'
  BY <1>1, OwnershipKept DEF Others
<1>3. FreshIsUnused'
  BY DEF QInv, FreshIsUnused, Others
<1>4. ASSUME NEW i \in Items PROVE Uncancelled(i)'
  <2>1. Uncancelled(i) /\ Derived(i, item'[i])
    BY DEF QInv
  <2> QED
    BY <2>1 DEF Uncancelled, Derived, Runs, NoRun, Others
<1>5. CancelOnce'
  BY DEF QInv, CancelOnce, Others
<1> QED
  BY <1>2, <1>3, <1>4, <1>5 DEF QInv, Others

\* A handler that sends a refund and closes or drops the quota block in the same
\* step.  The save comes later: until then disk still has the open block, and
\* only a crash can bring it back.
LEMMA CancelStep ==
  ASSUME QInv, Inv', NEW i \in Items, NEW rec \in ItemRecord, NEW new,
         Derived(i, rec), Derived(i, new), Put(i, new), CancelTask(rec),
         Unsettled(new) => new.task = NoTask /\ new.run = NoRun,
         disk' = disk, Others
  PROVE  QInv'
<1>1. item' \in [Items -> FitRecord] /\ item'[i] = new /\ \A j \in Items \ {i} : item'[j] = item[j]
  BY DEF Inv, Put, QInv
<1>2. \A j \in Items : Derived(j, item'[j])
  BY <1>1, SelfDerived
<1>3. /\ srv \in [Tasks -> {"none", "open", "lost", "cancelled"}] /\ calls \in [Tasks -> Nat]
      /\ crashes \in Nat
  BY DEF QInv, Inv, QueueRestOK
<1>4. \A j \in Items : /\ item[j].task \in Tasks \cup {NoTask} /\ item[j].run \in Runs \cup {NoRun}
                       /\ item[j] \in ItemRecord
  BY RunOfItem DEF QInv, ItemRecord
<1>5. \A r \in Runs : chosen[r] \in Tasks \cup {NoTask}
  BY DEF QInv, Inv, RunTypeOK
<1>6. CASE ~(Unsettled(rec) /\ rec.task # NoTask)
  <2>1. srv' = srv /\ calls' = calls
    BY <1>6 DEF CancelTask, platformVars
  <2>2. disk' \in {disk, item'}
    OBVIOUS
  <2> QED
    BY <1>2, <2>1, <2>2, QuietStep
<1>7. CASE Unsettled(rec) /\ rec.task # NoTask
  <2> DEFINE t == rec.task
  <2>1. /\ t \in Tasks
        /\ calls' = [calls EXCEPT ![t] = @ + 1]
        /\ srv'[t] \in {srv[t], "cancelled"} /\ \A u \in Tasks \ {t} : srv'[u] = srv[u]
    BY <1>3, <1>7 DEF CancelTask, ItemRecord
  <2>2. /\ rec.run = item[i].run /\ Unsettled(item[i])
        /\ t = item[i].task \/ (item[i].run \in Runs /\ t = chosen[item[i].run])
    BY <1>7 DEF Derived
  <2>3. calls[t] <= crashes
    BY <1>7, <2>2 DEF QInv, Uncancelled, Runs, NoRun
  <2>4. srv[t] # "none"
    BY <1>7, <2>2 DEF QInv, OwnTasks, OwnSelections
  <2>5. CancelOnce'
    BY <1>3, <2>1, <2>3 DEF QInv, CancelOnce, Others
  <2>6. FreshIsUnused'
    BY <1>3, <2>1, <2>4 DEF QInv, FreshIsUnused, Others
  <2>7. \A u \in Tasks : srv[u] # "none" => srv'[u] # "none"
    BY <2>1
  <2>8. /\ OneOwner(item)' /\ OwnTasks(item)' /\ OneOwner(disk)' /\ OwnTasks(disk)'
        /\ OwnSelections'
    BY <1>1, <1>2, <2>7, OwnershipKept DEF Others
  <2>9. ASSUME NEW j \in Items PROVE Uncancelled(j)'
    <3>1. CASE j = i
      BY <1>1, <3>1 DEF Uncancelled
    <3>2. CASE j # i
      <4>1. item[j].task # t
        BY <1>7, <2>2, <3>2 DEF QInv, OwnTasks, OneOwner, Runs, NoRun
      <4>2. item[j].run \in Runs => chosen[item[j].run] # t
        BY <1>7, <2>2, <3>2 DEF QInv, OwnTasks, OwnSelections, OneOwner, Runs, NoRun
      <4>3. \A u \in Tasks : u # t => calls'[u] = calls[u]
        BY <1>3, <2>1
      <4>4. item'[j] = item[j]
        BY <1>1, <3>2
      <4>5. Uncancelled(j)
        BY DEF QInv
      <4> QED
        BY <1>4, <1>5, <4>1, <4>2, <4>3, <4>4, <4>5 DEF Uncancelled, NoRun, Others
    <3> QED
      BY <3>1, <3>2
  <2> QED
    BY <2>5, <2>6, <2>8, <2>9 DEF QInv, Others
<1> QED
  BY <1>6, <1>7

\* FreshIsUnused for one run.
LEMMA Unstarted ==
  ASSUME QInv, NEW r \in Runs, owner[r] = NoItem
  PROVE  worker[r] # "alive" /\ session[r] = "none" /\ chosen[r] = NoTask
BY DEF QInv, FreshIsUnused

\* Ending an item and settling or refunding its block are derived changes; after
\* a refund the block is closed.
LEMMA EndedDerived ==
  ASSUME Inv, NEW i \in Items, NEW s \in Status, NEW rec \in ItemRecord, Derived(i, rec)
  PROVE  /\ Derived(i, Ended(rec, s)) /\ Derived(i, Settled(rec)) /\ Derived(i, Refunded(rec))
         /\ Derived(i, Ended(Settled(rec), s)) /\ Derived(i, Ended(Refunded(rec), s))
         /\ Unsettled(Ended(rec, s)) <=> Unsettled(rec)
         /\ ~Unsettled(Refunded(rec)) /\ ~Unsettled(Ended(Refunded(rec), s))
         /\ Refunded(rec) \in ItemRecord
BY DEF Derived, Ended, Settled, Refunded, Unsettled, ItemRecord, QuotaState

\* Retries and removals forget run and task (_fresh_quota).
LEMMA RequeuedDerived ==
  ASSUME NEW i \in Items, NEW n, NEW rel, NEW s
  PROVE  /\ Derived(i, Requeued(item[i], n, rel)) /\ Derived(i, Blank(s))
         /\ Requeued(item[i], n, rel).task = NoTask /\ Requeued(item[i], n, rel).run = NoRun
BY DEF Derived, Requeued, Blank

\* The executors and their sessions; a task an executor selects is a new one.
LEMMA RunStepQ ==
  ASSUME QInv, Inv', NEW r \in Runs, RunStep(r)
  PROVE  QInv'
<1>1. \A q \in Runs : owner[q] = NoItem => worker[q] # "alive" /\ session[q] = "none"
  BY Unstarted
<1>2. \A i \in Items : Derived(i, item[i])
  BY SelfDerived
<1>3. pc = "claimed" => item[cur].status = "pending"
  BY DEF QInv
<1>4. ASSUME UNCHANGED <<owner, chosen>>, UNCHANGED <<queueVars, outsideVars>>,
             \A q \in Runs : owner[q] = NoItem => worker'[q] # "alive" /\ session'[q] = "none"
      PROVE  QInv'
  BY <1>2, <1>3, <1>4, QuietStep DEF Others, queueVars, outsideVars, platformVars
<1>5. worker \in [Runs -> WorkerStates] /\ session \in [Runs -> SessionStates]
  BY DEF QInv, Inv, RunTypeOK
<1>6. CASE WorkerFailsEarly(r) /\ Outside
  BY <1>1, <1>4, <1>5, <1>6 DEF WorkerFailsEarly, Outside, jobVars
<1>7. CASE DeliverPrompt(r) /\ Outside
  BY <1>1, <1>4, <1>5, <1>7 DEF DeliverPrompt, Alive, Outside, jobVars
<1>8. CASE ReportSubmitted(r) /\ Outside
  BY <1>1, <1>4, <1>8 DEF ReportSubmitted, Outside, jobVars
<1>9. CASE ReportComplete(r) /\ Outside
  BY <1>1, <1>4, <1>5, <1>9 DEF ReportComplete, Outside, jobVars
<1>10. CASE ReportFailure(r) /\ Outside
  BY <1>1, <1>4, <1>5, <1>10 DEF ReportFailure, Outside, jobVars
<1>11. CASE SessionEnds(r) /\ Outside
  BY <1>1, <1>4, <1>5, <1>11 DEF SessionEnds, Outside, jobVars
<1>12. CASE \E s \in TaskStates \ {"none"} : SessionWrites(r, s) /\ Outside
  BY <1>1, <1>4, <1>12 DEF SessionWrites, Outside, jobVars
<1>13. CASE WaitReturns(r) /\ UNCHANGED <<runVars, queueVars, outsideVars>>
  BY <1>1, <1>4, <1>13 DEF WaitReturns, runVars
<1>14. CASE \E t \in Tasks : ExecutorSelects(r, t)
  <2>1. PICK t \in Tasks : ExecutorSelects(r, t)
    BY <1>14
  <2>2. /\ srv[t] = "none" /\ session[r] = "live" /\ chosen[r] = NoTask
        /\ UNCHANGED <<worker, session, owner, item, disk, pc, cur, calls, crashes>>
    BY <2>1 DEF ExecutorSelects, FreshTask, jobVars, queueVars
  <2>3. /\ chosen'[r] = t /\ \A q \in Runs \ {r} : chosen'[q] = chosen[q]
        /\ srv'[t] = "open" /\ \A u \in Tasks \ {t} : srv'[u] = srv[u]
    BY <2>1 DEF ExecutorSelects, QInv, Inv, RunTypeOK, QueueRestOK
  <2>4. /\ OneOwner(item) /\ OneOwner(disk) /\ OwnTasks(item) /\ OwnTasks(disk)
        /\ FreshIsUnused /\ OwnSelections /\ CancelOnce
    BY DEF QInv
  <2>5. /\ \A i \in Items : /\ item[i].task \in Tasks \cup {NoTask}
                           /\ disk[i].task \in Tasks \cup {NoTask}
                           /\ item[i].run \in Runs \cup {NoRun}
        /\ \A q \in Runs : chosen[q] \in Tasks \cup {NoTask}
    BY DEF QInv, Inv, RunTypeOK, FitRecord, ItemRecord
  <2>6. OneOwner(item)' /\ OneOwner(disk)' /\ CancelOnce'
    BY <2>2, <2>4 DEF OneOwner, CancelOnce
  <2>7. OwnTasks(item)'
    BY <2>2, <2>3, <2>4, <2>5 DEF OwnTasks
  <2>8. OwnTasks(disk)'
    BY <2>2, <2>3, <2>4, <2>5 DEF OwnTasks
  <2>9. FreshIsUnused'
    BY <2>2, <2>3, <2>4 DEF FreshIsUnused
  <2>10. OwnSelections'
    BY <2>2, <2>3, <2>4, <2>5 DEF OwnSelections, NoTask
  <2>11. ASSUME NEW i \in Items PROVE Uncancelled(i)'
    <3>1. Uncancelled(i) /\ calls[t] = 0 /\ crashes \in Nat
      BY <2>2, <2>4 DEF QInv, FreshIsUnused, Inv, QueueRestOK
    <3> QED
      BY <2>2, <2>3, <2>5, <3>1 DEF Uncancelled, NoRun
  <2> QED
    BY <1>3, <2>2, <2>6, <2>7, <2>8, <2>9, <2>10, <2>11 DEF QInv
<1> QED
  BY <1>6, <1>7, <1>8, <1>9, <1>10, <1>11, <1>12, <1>13, <1>14 DEF RunStep

\* Every branch of a visit writes a derived record, and only the branches that
\* cancel or leave the platform alone exist.
LEMMA SyncDerived ==
  ASSUME Inv, NEW i \in Items, Sync(i)
  PROVE  /\ Derived(i, item'[i]) /\ \A j \in Items \ {i} : item'[j] = item[j]
         /\ Put(i, item'[i])
         /\ UNCHANGED <<disk, pc, cur, crashes, owner, chosen, session, state>>
         /\ \A r \in Runs : worker'[r] = "alive" => worker[r] = "alive"
         /\ \/ UNCHANGED <<srv, calls>>
            \/ /\ CancelTask(Absorbed(i))
               /\ Unsettled(item'[i]) => item'[i].task = NoTask /\ item'[i].run = NoRun
<1>1. UNCHANGED <<disk, pc, cur, crashes, owner, chosen, session, state>>
  BY DEF Sync, SyncTerminal, SyncUnstable, SyncWatched, SyncSettle, SyncFailed, SyncStalled,
         SyncEarlyExit, SyncRunning, SyncPending, SyncOrphaned, InFlight, Visiting, Visit,
         Quietly, RetryStalled, outsideVars, platformVars, runVars, jobVars
<1>2. \A r \in Runs : worker'[r] = "alive" => worker[r] = "alive"
  BY DEF Sync, SyncTerminal, SyncUnstable, SyncWatched, SyncSettle, SyncFailed, SyncStalled,
         SyncEarlyExit, SyncRunning, SyncPending, SyncOrphaned, Quietly, RetryStalled, StopForRetry,
         Terminated, runVars
<1>3. Absorbed(i) \in ItemRecord /\ Derived(i, Absorbed(i)) /\ item[i] \in ItemRecord
  BY AbsorbedFits, AbsorbedDerived, RunOfItem DEF FitRecord
<1>4. ASSUME NEW new, Derived(i, new), Put(i, new),
             \/ UNCHANGED <<srv, calls>>
             \/ CancelTask(Absorbed(i)) /\ (Unsettled(new) => new.task = NoTask /\ new.run = NoRun)
      PROVE  /\ Derived(i, item'[i]) /\ \A j \in Items \ {i} : item'[j] = item[j]
             /\ Put(i, item'[i])
             /\ \/ UNCHANGED <<srv, calls>>
                \/ /\ CancelTask(Absorbed(i))
                   /\ Unsettled(item'[i]) => item'[i].task = NoTask /\ item'[i].run = NoRun
  <2>1. item'[i] = new /\ \A j \in Items \ {i} : item'[j] = item[j]
    BY <1>4 DEF Put, Inv
  <2> QED
    BY <1>4, <2>1
<1>5. Quietly(i) => UNCHANGED <<srv, calls>>
  BY DEF Quietly, outsideVars, platformVars
<1>6. ASSUME NEW s, NEW h
      PROVE  /\ Derived(i, [Absorbed(i) EXCEPT !.status = s])
             /\ Derived(i, [Absorbed(i) EXCEPT !.status = s, !.held = h])
  BY <1>3 DEF Derived, ItemRecord, Unsettled
<1>7. CASE SyncTerminal(i)
  <2>1. Derived(i, [item[i] EXCEPT !.held = @ /\ item[i].released = "manual"])
    BY <1>3 DEF Derived, ItemRecord, Unsettled
  <2> QED
    BY <1>1, <1>2, <1>4, <1>7, <2>1 DEF SyncTerminal, outsideVars, platformVars
<1>8. CASE SyncUnstable(i) \/ SyncPending(i)
  BY <1>1, <1>2, <1>3, <1>4, <1>5, <1>8 DEF SyncUnstable, SyncPending
<1>9. CASE SyncWatched(i) \/ SyncOrphaned(i)
  <2>1. PICK s, h : Put(i, [Absorbed(i) EXCEPT !.status = s, !.held = h])
    BY <1>9 DEF SyncWatched, SyncOrphaned
  <2>2. Quietly(i)
    BY <1>9 DEF SyncWatched, SyncOrphaned
  <2> QED
    BY <1>1, <1>2, <1>4, <1>5, <1>6, <2>1, <2>2
<1>10. CASE SyncRunning(i)
  <2> DEFINE up == IF Absorbed(i).status \in {"pending", "launching"}
                   THEN [Absorbed(i) EXCEPT !.status = "running"] ELSE Absorbed(i)
             new == IF Submitted(i) THEN [up EXCEPT !.status = "triggered", !.held = TRUE] ELSE up
  <2>1. Derived(i, up) /\ up \in ItemRecord
    BY <1>3, <1>6 DEF ItemRecord, Status, Active
  <2>2. Derived(i, new)
    <3> HIDE DEF up
    <3> QED BY <2>1 DEF Derived, ItemRecord, Unsettled
  <2>3. Put(i, new) /\ Quietly(i)
    BY <1>10 DEF SyncRunning
  <2> HIDE DEF new
  <2> QED
    BY <1>1, <1>2, <1>4, <1>5, <2>2, <2>3
<1>11. CASE SyncSettle(i)
  BY <1>1, <1>2, <1>3, <1>4, <1>5, <1>11, EndedDerived DEF SyncSettle, Status, Terminal
<1>12. CASE SyncFailed(i)
  <2>1. /\ Derived(i, Ended(Refunded(Absorbed(i)), "failed"))
        /\ ~Unsettled(Ended(Refunded(Absorbed(i)), "failed"))
    BY <1>3, EndedDerived DEF Status, Terminal
  <2> QED
    BY <1>1, <1>2, <1>4, <1>12, <2>1 DEF SyncFailed
<1>13. CASE SyncStalled(i) \/ SyncEarlyExit(i)
  <2> DEFINE new == Requeued(item[i], item[i].retries + 1, item[i].released)
  <2>1. Put(i, new) /\ CancelTask(Absorbed(i))
    BY <1>13 DEF SyncStalled, SyncEarlyExit, RetryStalled
  <2>2. Derived(i, new) /\ new.task = NoTask /\ new.run = NoRun
    BY RequeuedDerived
  <2> HIDE DEF new
  <2> QED
    BY <1>1, <1>2, <1>4, <2>1, <2>2
<1> QED
  BY <1>7, <1>8, <1>9, <1>10, <1>11, <1>12, <1>13 DEF Sync

\* A visit of the tick.
LEMMA SyncQ ==
  ASSUME QInv, Inv', NEW i \in Items, Sync(i)
  PROVE  QInv'
<1>1. Inv /\ Absorbed(i) \in ItemRecord /\ Derived(i, Absorbed(i))
  BY AbsorbedFits, AbsorbedDerived DEF QInv, FitRecord
<1>2. pc = "sync"
  BY DEF Sync, SyncTerminal, SyncUnstable, SyncWatched, SyncSettle, SyncFailed, SyncStalled,
         SyncEarlyExit, SyncRunning, SyncPending, SyncOrphaned, InFlight, Visiting, Visit
<1>3. /\ Others /\ \A j \in Items : Derived(j, item'[j])
      /\ Derived(i, item'[i]) /\ Put(i, item'[i]) /\ disk' = disk
  BY <1>1, <1>2, SyncDerived, SelfDerived, Unstarted DEF Others
<1>4. CASE UNCHANGED <<srv, calls>>
  BY <1>3, <1>4, QuietStep
<1>5. CASE /\ CancelTask(Absorbed(i))
           /\ Unsettled(item'[i]) => item'[i].task = NoTask /\ item'[i].run = NoRun
  BY <1>1, <1>3, <1>5, CancelStep
<1> QED
  BY <1>1, <1>4, <1>5, SyncDerived

\* A step that leaves the items as they are, saved or not.
LEMMA QuietSave ==
  ASSUME QInv, Inv', item' = item, disk' \in {disk, item},
         UNCHANGED <<outsideVars, owner, chosen, session>>, pc' # "claimed",
         \A r \in Runs : worker'[r] = "alive" => worker[r] = "alive" \/ owner[r] # NoItem
  PROVE  QInv'
<1>1. Others
  BY Unstarted DEF Others, outsideVars
<1> QED
  BY <1>1, SelfDerived, QuietStep DEF outsideVars, platformVars

\* A derived change that is saved at once.
LEMMA StoreQ ==
  ASSUME QInv, Inv', NEW items, Store(items), \A i \in Items : Derived(i, items[i]),
         UNCHANGED <<outsideVars, runVars, owner>>, pc' # "claimed"
  PROVE  QInv'
<1>1. Others
  BY Unstarted DEF Others, outsideVars, runVars
<1> QED
  BY <1>1, QuietStep DEF Store, outsideVars, platformVars

\* The launch: the claimed task and the run key are new, and the two are tied
\* to the item in the order claim, run key, worker.
LEMMA LaunchQ ==
  ASSUME QInv, Inv', Launch
  PROVE  QInv'
<1>0. /\ OneOwner(item) /\ OneOwner(disk) /\ OwnTasks(item) /\ OwnTasks(disk)
      /\ FreshIsUnused /\ OwnSelections /\ CancelOnce /\ Inv
  BY DEF QInv
<1>1. /\ \A i \in Items : /\ item[i].task \in Tasks \cup {NoTask}
                         /\ item[i].run \in Runs \cup {NoRun}
                         /\ item[i] \in ItemRecord
      /\ \A r \in Runs : chosen[r] \in Tasks \cup {NoTask}
      /\ crashes \in Nat /\ item \in [Items -> FitRecord]
  BY <1>0 DEF Inv, RunTypeOK, FitRecord, ItemRecord, QueueRestOK
<1>2. ASSUME NEW i \in Items, NEW t \in Tasks \cup {NoTask}, Claim(i, t),
             item[i].quota = "pending" /\ t # NoTask => srv[t] = "none" /\ srv'[t] # "none",
             \A u \in Tasks : srv'[u] # srv[u] => srv[u] = "none" /\ srv'[u] # "none"
      PROVE  QInv'
  <2> DEFINE new == IF item[i].quota = "pending"
                    THEN [item[i] EXCEPT !.quota = "claimed", !.task = t] ELSE item[i]
  <2>1. /\ item'[i] = new /\ \A j \in Items \ {i} : item'[j] = item[j]
        /\ UNCHANGED <<disk, calls, crashes, owner, chosen, worker, session>>
        /\ item[i].status = "pending" /\ cur' = i
    BY <1>1, <1>2 DEF Claim, Put, runVars, jobVars
  <2>2. /\ new.run = item[i].run /\ new.status = "pending"
        /\ new.task = item[i].task \/ (item[i].quota = "pending" /\ new.task = t)
        /\ Unsettled(new) => Unsettled(item[i])
    BY <1>1, <2>1 DEF ItemRecord, Unsettled
  <2> HIDE DEF new
  <2>3. item[i].run = NoRun
    BY <1>1, <2>1 DEF FitRecord
  <2>4. OneOwner(item)' /\ OneOwner(disk)' /\ CancelOnce' /\ OwnSelections'
    BY <1>0, <1>1, <1>2, <2>1, <2>2 DEF OneOwner, CancelOnce, OwnSelections
  <2>5. OwnTasks(disk)'
    <3>1. \A j \in Items : disk[j].task \in Tasks \cup {NoTask}
      BY <1>0 DEF Inv, FitRecord, ItemRecord
    <3> QED
      BY <1>0, <1>2, <2>1, <3>1 DEF OwnTasks
  <2>6. new.task # NoTask => /\ srv'[new.task] # "none"
                             /\ \A r \in Runs : new.task # chosen[r]
                             /\ \A j \in Items \ {i} : new.task # item[j].task
    <3>1. CASE new.task = item[i].task
      BY <1>0, <1>1, <1>2, <2>3, <3>1 DEF OwnTasks, Runs, NoRun
    <3>2. CASE item[i].quota = "pending" /\ new.task = t
      BY <1>0, <1>2, <3>2 DEF OwnTasks, OwnSelections
    <3> QED
      BY <2>2, <3>1, <3>2
  <2>7. OwnTasks(item)'
    BY <1>0, <1>1, <1>2, <2>1, <2>6 DEF OwnTasks
  <2>8. FreshIsUnused'
    BY <1>0, <1>2, <2>1 DEF FreshIsUnused
  <2>9. ASSUME NEW j \in Items PROVE Uncancelled(j)'
    <3>1. Uncancelled(j)
      BY DEF QInv
    <3>2. CASE j # i \/ new.task = item[i].task
      BY <2>1, <2>2, <3>1, <3>2 DEF Uncancelled
    <3>3. CASE j = i /\ item[i].quota = "pending" /\ new.task = t
      <4>1. t # NoTask => calls[t] <= crashes
        BY <1>0, <1>1, <1>2, <3>3 DEF FreshIsUnused
      <4> QED
        BY <2>1, <2>2, <2>3, <3>3, <4>1 DEF Uncancelled
    <3> QED
      BY <2>2, <3>2, <3>3
  <2> QED
    BY <2>1, <2>2, <2>4, <2>5, <2>7, <2>8, <2>9 DEF QInv
<1>3. ASSUME NEW i \in Items, NEW t \in Tasks, ClaimOnPlatform(i, t) \/ ClaimLost(i, t)
      PROVE  QInv'
  <2>1. srv[t] = "none" /\ srv'[t] # "none" /\ \A u \in Tasks \ {t} : srv'[u] = srv[u]
    BY <1>0, <1>3 DEF ClaimOnPlatform, ClaimLost, FreshTask, Inv, QueueRestOK
  <2> QED
    BY <1>2, <1>3, <2>1 DEF ClaimOnPlatform, ClaimLost
<1>4. ASSUME NEW i \in Items, ClaimLocally(i)
      PROVE  QInv'
  BY <1>2, <1>4 DEF ClaimLocally
<1>5. ASSUME NEW r \in Runs, SaveLaunching(r)
      PROVE  QInv'
  <2>1. /\ cur \in Items /\ owner[r] = NoItem /\ pc' = "saved"
        /\ item[cur].status = "pending"
        /\ UNCHANGED <<srv, calls, crashes, chosen, worker, session>>
    BY <1>0, <1>5 DEF SaveLaunching, FreshRun, QInv, Inv, Launching, outsideVars, platformVars, runVars
  <2>2. item[cur].run = NoRun /\ chosen[r] = NoTask /\ worker[r] # "alive" /\ session[r] = "none"
    BY <1>1, <2>1, Unstarted DEF FitRecord
  <2>3. /\ owner' = [owner EXCEPT ![r] = cur] /\ disk' = item'
        /\ item' = [item EXCEPT ![cur].status = "launching", ![cur].held = TRUE, ![cur].run = r]
    BY <1>5 DEF SaveLaunching, Store
  <2>4. /\ item'[cur].run = r /\ item'[cur].task = item[cur].task
        /\ item'[cur].quota = item[cur].quota
        /\ \A j \in Items \ {cur} : item'[j] = item[j]
    BY <1>1, <2>1, <2>3 DEF FitRecord, ItemRecord
  <2>5. owner'[r] = cur /\ \A q \in Runs \ {r} : owner'[q] = owner[q]
    BY <1>0, <2>3 DEF Inv, JobTypeOK
  <2>6. OneOwner(item)'
    BY <1>0, <1>1, <2>1, <2>4, <2>5, NoItemAssumption DEF OneOwner
  <2>7. OwnTasks(item)'
    <3>1. \A j \in Items : item'[j].task = item[j].task
      BY <2>4
    <3>2. \A q \in Runs : item[cur].task # NoTask => item[cur].task # chosen[q]
      BY <1>0, <2>1, <2>2 DEF OwnTasks, Runs, NoRun
    <3> QED
      BY <1>0, <2>1, <2>4, <3>1, <3>2 DEF OwnTasks
  <2>8. OneOwner(disk)' /\ OwnTasks(disk)'
    <3>1. disk' = item'
      BY <2>3
    <3> QED
      BY <2>6, <2>7, <3>1 DEF OneOwner, OwnTasks
  <2>9. FreshIsUnused' /\ OwnSelections' /\ CancelOnce'
    <3>1. \A q \in Runs : owner'[q] = NoItem => owner[q] = NoItem
      BY <2>1, <2>5, NoItemAssumption
    <3>2. FreshIsUnused'
      BY <1>0, <2>1, <3>1 DEF FreshIsUnused
    <3>3. OwnSelections'
      BY <1>0, <2>1 DEF OwnSelections
    <3> QED
      BY <1>0, <2>1, <3>2, <3>3 DEF CancelOnce
  <2>10. ASSUME NEW j \in Items PROVE Uncancelled(j)'
    <3>1. Uncancelled(j)
      BY DEF QInv
    <3> QED
      BY <2>1, <2>2, <2>4, <3>1 DEF Uncancelled, Unsettled
  <2> QED
    BY <2>1, <2>6, <2>7, <2>8, <2>9, <2>10 DEF QInv
<1>6. ASSUME NEW closed \in SUBSET Runs, StartWorker(closed)
      PROVE  QInv'
  <2>1. /\ worker' = [worker EXCEPT ![item[cur].run] = "alive"] /\ cur \in Items
        /\ pc' = "spawned" /\ UNCHANGED <<item, disk, outsideVars, owner, chosen, session>>
    BY <1>0, <1>6 DEF StartWorker, StartPlatform, CloseStale, Inv, Launching
  <2>2. ASSUME NEW r \in Runs, worker'[r] = "alive" PROVE worker[r] = "alive" \/ owner[r] # NoItem
    <3>1. CASE r = item[cur].run
      BY <1>0, <2>1, <3>1, NoItemAssumption DEF OneOwner, Runs, NoRun
    <3>2. CASE r # item[cur].run
      BY <2>1, <2>2, <3>2 DEF QInv, Inv, RunTypeOK
    <3> QED
      BY <3>1, <3>2
  <2> QED
    BY <2>1, <2>2, QuietSave
<1>7. ASSUME NEW closed \in SUBSET Runs, StartFails(closed)
      PROVE  QInv'
  <2>1. cur \in Items /\ item[cur] \in ItemRecord /\ Derived(cur, item[cur])
    BY <1>0, <1>1, <1>7, SelfDerived DEF StartFails, Inv, Launching
  <2>2. /\ Derived(cur, Ended(Refunded(item[cur]), "failed"))
        /\ ~Unsettled(Ended(Refunded(item[cur]), "failed"))
    BY <1>0, <2>1, EndedDerived DEF Status, Terminal
  <2>3. Others
    BY <1>7, Unstarted DEF StartFails, CloseStale, Others, jobVars
  <2> QED
    BY <1>7, <2>1, <2>2, <2>3, CancelStep DEF StartFails
<1>8. CASE SaveRefused
  BY <1>8, QuietSave DEF SaveRefused, runVars, jobVars
<1>9. CASE SaveRunning
  <2>1. \A i \in Items : Derived(i, [item EXCEPT ![cur].status = "running"][i])
    BY <1>1 DEF Derived, FitRecord, ItemRecord, Unsettled
  <2> QED
    BY <1>9, <2>1, StoreQ DEF SaveRunning, jobVars
<1> QED
  BY <1>3, <1>4, <1>5, <1>6, <1>7, <1>8, <1>9 DEF Launch

\* The whole tick.
LEMMA TickQ ==
  ASSUME QInv, Inv', Tick
  PROVE  QInv'
<1>1. ASSUME NEW stale \in SUBSET Items, TickBegin(stale)
      PROVE  QInv'
  <2>1. \A r \in Runs : worker'[r] = "alive" => worker[r] = "alive"
    BY <1>1 DEF TickBegin, ReapJobs, Terminated
  <2> QED
    BY <1>1, <2>1, QuietSave DEF TickBegin
<1>2. ASSUME NEW stopped \in SUBSET Items, SyncDone(stopped)
      PROVE  QInv'
  <2>1. ASSUME NEW i \in Items PROVE Derived(i, Ended(item[i], "skipped"))
    BY SelfDerived, EndedDerived, RunOfItem DEF QInv, Status, Terminal
  <2> DEFINE new == [i \in Items |-> IF i \in stopped THEN Ended(item[i], "skipped") ELSE item[i]]
  <2>2. \A i \in Items : Derived(i, new[i])
    BY <2>1, SelfDerived
  <2>3. Store(new) /\ pc' = "gate" /\ UNCHANGED <<outsideVars, runVars, owner>>
    BY <1>2 DEF SyncDone, jobVars
  <2> HIDE DEF new
  <2> QED
    BY <2>2, <2>3, StoreQ
<1>3. CASE TickEnd
  BY <1>3, QuietSave DEF TickEnd, runVars, jobVars
<1> QED
  BY <1>1, <1>2, <1>3, SyncQ, LaunchQ DEF Tick

\* A page handler that edits the list and saves.
LEMMA EditQ ==
  ASSUME QInv, Inv', NEW items, Edit(items), \A i \in Items : Derived(i, items[i])
  PROVE  QInv'
BY StoreQ DEF Edit, Handler, jobVars

\* The same for a handler that edits a single item.
LEMMA OneEditQ ==
  ASSUME QInv, Inv', NEW i \in Items, NEW new, Derived(i, new), Edit([item EXCEPT ![i] = new])
  PROVE  QInv'
<1>1. \A j \in Items : Derived(j, [item EXCEPT ![i] = new][j])
  BY SelfDerived DEF QInv, Inv
<1> QED
  BY <1>1, EditQ

\* The page handlers.
LEMMA UserQ ==
  ASSUME QInv, Inv', NEW i \in Items, UserStep(i)
  PROVE  QInv'
<1>1. Inv /\ item[i] \in ItemRecord /\ Derived(i, item[i])
  BY RunOfItem, SelfDerived DEF QInv
<1>2. CASE AddPlatform(i)
  BY <1>2, RequeuedDerived, OneEditQ DEF AddPlatform
<1>3. CASE FailItem(i)
  BY <1>1, <1>3, EndedDerived, OneEditQ DEF FailItem, Status, Terminal
<1>4. CASE Remove(i)
  BY <1>4, RequeuedDerived, OneEditQ DEF Remove
<1>5. CASE Retry(i)
  BY <1>5, RequeuedDerived, OneEditQ DEF Retry
<1>6. CASE Release(i)
  <2> DEFINE new == [Ended(item[i], "skipped") EXCEPT !.released = "manual"]
  <2>1. Derived(i, new)
    BY <1>1 DEF Derived, Ended, Unsettled, ItemRecord
  <2>2. Store([item EXCEPT ![i] = new]) /\ UNCHANGED <<outsideVars, runVars, owner>> /\ pc' # "claimed"
    BY <1>6 DEF Release, Handler
  <2> HIDE DEF new
  <2>3. \A j \in Items : Derived(j, [item EXCEPT ![i] = new][j])
    BY <1>1, <2>1, SelfDerived DEF Inv
  <2> QED
    BY <2>2, <2>3, StoreQ
<1> QED
  BY <1>2, <1>3, <1>4, <1>5, <1>6 DEF UserStep

\* The reconcile loop and the enforcing guard: each sends the refund and closes
\* or drops the block, and saves later.
LEMMA ReconcileQ ==
  ASSUME QInv, Inv', NEW i \in Items, ReconcileStep(i)
  PROVE  QInv'
<1>1. Inv /\ item[i] \in ItemRecord /\ Derived(i, item[i])
  BY RunOfItem, SelfDerived DEF QInv
<1>2. ASSUME NEW new, Reconcile(i, new), Derived(i, new),
             Unsettled(new) => new.task = NoTask /\ new.run = NoRun
      PROVE  QInv'
  <2>1. Others
    BY <1>2, Unstarted DEF Reconcile, Others
  <2> QED
    BY <1>1, <1>2, <2>1, CancelStep DEF Reconcile
<1>3. /\ Derived(i, Refunded(item[i])) /\ ~Unsettled(Refunded(item[i]))
      /\ \A s \in {"skipped", "failed"} :
           /\ Derived(i, Ended(Refunded(item[i]), s)) /\ ~Unsettled(Ended(Refunded(item[i]), s))
           /\ Ended(Refunded(item[i]), s) \in ItemRecord
  <2>1. Refunded(item[i]) \in ItemRecord
    BY <1>1, EndedDerived DEF Status
  <2> QED
    BY <1>1, <2>1, EndedDerived DEF Status, Terminal, Ended, ItemRecord
<1>4. CASE ReleaseStuckOrphan(i)
  <2> DEFINE new == [Ended(Refunded(item[i]), "skipped") EXCEPT !.released = "auto"]
  <2>1. Derived(i, new) /\ ~Unsettled(new)
    BY <1>3 DEF Derived, Unsettled, ItemRecord
  <2> QED
    BY <1>2, <1>4, <2>1 DEF ReleaseStuckOrphan
<1>5. CASE ForceSettle(i)
  BY <1>2, <1>3, <1>5 DEF ForceSettle
<1>6. CASE OutageRequeue(i)
  BY <1>2, <1>6, RequeuedDerived DEF OutageRequeue
<1>7. CASE GuardStop(i)
  BY <1>2, <1>3, <1>7 DEF GuardStop
<1> QED
  BY <1>4, <1>5, <1>6, <1>7 DEF ReconcileStep

\* Saves, crashes and restarts.  A crash may bring an open block back whose task
\* was cancelled; that is the one cancel more that Uncancelled then allows.
LEMMA ProcessQ ==
  ASSUME QInv, Inv', Save \/ ClearFinished \/ Crash \/ CrashInStart \/ Restart
  PROVE  QInv'
<1>0. /\ OneOwner(disk) /\ OwnTasks(disk) /\ OneOwner(item)
      /\ FreshIsUnused /\ OwnSelections /\ CancelOnce /\ Inv
  BY DEF QInv
<1>1. CASE Save
  BY <1>1, QuietSave DEF Save, runVars, jobVars
<1>2. CASE ClearFinished
  <2> DEFINE new == [i \in Items |-> IF item[i].status \in {"failed", "skipped"} /\ ~item[i].held
                                     THEN Blank("removed") ELSE item[i]]
  <2>1. \A i \in Items : Derived(i, new[i])
    BY SelfDerived, RequeuedDerived
  <2>2. Edit(new)
    BY <1>2 DEF ClearFinished
  <2> HIDE DEF new
  <2> QED
    BY <2>1, <2>2, EditQ
<1>3. ASSUME Die, \A r \in Runs : worker'[r] = "alive" => worker[r] = "alive" \/ owner[r] # NoItem
      PROVE  QInv'
  <2>1. /\ crashes' = crashes + 1 /\ item' = disk /\ pc' = "down"
        /\ UNCHANGED <<disk, srv, calls, owner, chosen, session>>
    BY <1>3 DEF Die, platformVars
  <2>2. /\ crashes \in Nat /\ calls \in [Tasks -> Nat] /\ chosen \in [Runs -> Tasks \cup {NoTask}]
        /\ \A i \in Items : /\ disk[i].task \in Tasks \cup {NoTask}
                           /\ disk[i].run \in Runs \cup {NoRun}
    BY <1>0 DEF Inv, QueueRestOK, RunTypeOK, FitRecord, ItemRecord
  <2>3. OneOwner(item)' /\ OneOwner(disk)' /\ OwnTasks(item)' /\ OwnTasks(disk)'
    BY <1>0, <2>1 DEF OneOwner, OwnTasks
  <2>4. FreshIsUnused'
    BY <1>0, <1>3, <2>1 DEF FreshIsUnused
  <2>5. OwnSelections'
    BY <1>0, <2>1 DEF OwnSelections
  <2>6. CancelOnce'
    BY <1>0, <2>1, <2>2 DEF CancelOnce
  <2>7. ASSUME NEW i \in Items PROVE Uncancelled(i)'
    BY <1>0, <2>1, <2>2 DEF Uncancelled, CancelOnce, NoRun, NoTask
  <2> QED
    BY <2>1, <2>3, <2>4, <2>5, <2>6, <2>7 DEF QInv
<1>4. CASE Crash
  BY <1>3, <1>4 DEF Crash
<1>5. CASE CrashInStart
  <2>1. /\ worker' = [worker EXCEPT ![item[cur].run] = "alive"] /\ cur \in Items
    BY <1>0, <1>5 DEF CrashInStart, Inv, Launching
  <2>2. ASSUME NEW r \in Runs, worker'[r] = "alive" PROVE worker[r] = "alive" \/ owner[r] # NoItem
    <3>1. CASE r = item[cur].run
      BY <1>0, <2>1, <3>1, NoItemAssumption DEF OneOwner, Runs, NoRun
    <3>2. CASE r # item[cur].run
      BY <1>0, <2>1, <2>2, <3>2 DEF Inv, RunTypeOK
    <3> QED
      BY <3>1, <3>2
  <2> QED
    BY <1>3, <1>5, <2>2 DEF CrashInStart
<1>6. CASE Restart
  <2>1. \A r \in Runs : worker'[r] = "alive" => worker[r] = "alive"
    BY <1>6 DEF Restart, Terminated
  <2> QED
    BY <1>6, <2>1, QuietSave DEF Restart, outsideVars, jobVars
<1> QED
  BY <1>1, <1>2, <1>4, <1>5, <1>6

\* No step of the scheduler leaves QInv.
LEMMA QInvStep == QInv /\ [Next]_vars => QInv'
<1> SUFFICES ASSUME QInv, [Next]_vars PROVE QInv'
  OBVIOUS
<1>1. Inv'
  BY InvStep DEF QInv
<1>2. CASE UNCHANGED vars
  BY <1>1, <1>2 DEF vars, runVars, jobVars, queueVars, outsideVars, platformVars, QInv, OneOwner,
                    OwnTasks, FreshIsUnused, OwnSelections, Uncancelled, CancelOnce
<1>3. CASE Next
  BY <1>1, <1>3, RunStepQ, TickQ, UserQ, ReconcileQ, ProcessQ DEF Next
<1> QED
  BY <1>2, <1>3

\* The empty queue satisfies QInv.
LEMMA QInvInit == Init => QInv
<1> SUFFICES ASSUME Init PROVE QInv
  OBVIOUS
<1>1. Inv
  BY InvInit
<1> QED
  BY <1>1 DEF Init, RunInit, JobInit, QueueInit, Blank, QInv, OneOwner, OwnTasks, FreshIsUnused,
              OwnSelections, Uncancelled, CancelOnce, NoRun, NoTask, Runs, Tasks

\* refund_quota is idempotent across the tick, the reconcile loop, the guard and
\* the retries, for any number of items, runs, tasks and crashes: POST cancel is
\* sent at most once for a task, plus once for every crash of the server.
THEOREM CancelledOnce == Spec => []CancelOnce
<1>1. QInv => CancelOnce
  BY DEF QInv
<1> QED
  BY <1>1, QInvInit, QInvStep, PTL DEF Spec

-----------------------------------------------------------------------------
(* Terminal items, settled tasks and launches *)

\* A refund for item i never cancels the task of another item.
LEMMA CancelElsewhere ==
  ASSUME QInv, NEW i \in Items, NEW rec \in ItemRecord, Derived(i, rec), CancelTask(rec),
         NEW j \in Items \ {i}, item[j].task # NoTask
  PROVE  calls'[item[j].task] = calls[item[j].task]
<1>1. /\ calls \in [Tasks -> Nat] /\ item[j].task \in Tasks
      /\ item[i].run \in Runs \cup {NoRun} /\ item[j].run \in Runs \cup {NoRun}
  BY RunOfItem DEF QInv, Inv, QueueRestOK, ItemRecord
<1>2. CASE ~(Unsettled(rec) /\ rec.task # NoTask)
  BY <1>2 DEF CancelTask, platformVars
<1>3. CASE Unsettled(rec) /\ rec.task # NoTask
  <2>1. /\ rec.run = item[i].run
        /\ rec.task = item[i].task \/ (item[i].run \in Runs /\ rec.task = chosen[item[i].run])
    BY <1>3 DEF Derived
  <2>2. item[j].task # rec.task
    BY <1>3, <2>1 DEF QInv, OwnTasks, OneOwner, Runs, NoRun
  <2> QED
    BY <1>1, <1>3, <2>2 DEF CancelTask
<1> QED
  BY <1>2, <1>3

\* A visit to a terminal item is the branch that settles it once.
LEMMA SyncTerminalOnly ==
  ASSUME NEW i \in Items, Sync(i), item[i].status \in Terminal
  PROVE  SyncTerminal(i)
BY DEF Sync, SyncUnstable, SyncWatched, SyncSettle, SyncFailed, SyncStalled, SyncEarlyExit,
       SyncRunning, SyncPending, SyncOrphaned, InFlight, Visiting, Active, Terminal

\* The tick neither revives a terminal item nor refunds it again, not even while
\* it refunds another one (_sync_running_locked skips what is terminal, and no
\* two items share a task).
THEOREM TerminalOnce == Spec => TerminalSettledOnce
<1> DEFINE Once(i) ==
      pc = "sync" /\ pc' # "down" /\ item[i].status \in Terminal
        => /\ item'[i].status \in Terminal
           /\ item'[i].quota = item[i].quota
           /\ item[i].task # NoTask => calls'[item[i].task] = calls[item[i].task]
<1>1. ASSUME QInv, [Next]_vars, NEW i \in Items, pc = "sync", pc' # "down", item[i].status \in Terminal
      PROVE  Once(i)
  <2>1. Inv /\ item[i] \in ItemRecord
    BY <1>1, RunOfItem DEF QInv
  <2>2. CASE UNCHANGED <<item, calls>>
    BY <1>1, <2>2
  <2>3. ASSUME NEW j \in Items, Sync(j) PROVE Once(i)
    <3>1. CASE j = i
      BY <1>1, <2>1, <2>3, <3>1, SyncTerminalOnly
         DEF SyncTerminal, Put, Inv, ItemRecord, outsideVars, platformVars
    <3>2. CASE j # i
      <4>1. Absorbed(j) \in ItemRecord /\ Derived(j, Absorbed(j))
        BY <2>1, AbsorbedFits, AbsorbedDerived DEF FitRecord
      <4>2. item'[i] = item[i] /\ (UNCHANGED <<srv, calls>> \/ CancelTask(Absorbed(j)))
        BY <1>1, <2>1, <2>3, <3>2, SyncDerived
      <4>3. item[i].task # NoTask => calls'[item[i].task] = calls[item[i].task]
        BY <1>1, <3>2, <4>1, <4>2, CancelElsewhere
      <4> QED
        BY <1>1, <4>2, <4>3
    <3> QED
      BY <3>1, <3>2
  <2>4. ASSUME NEW stopped \in SUBSET Items, SyncDone(stopped) PROVE Once(i)
    BY <1>1, <2>4 DEF SyncDone, Store, Terminal, outsideVars, platformVars
  <2>5. CASE UNCHANGED vars
    BY <2>2, <2>5 DEF vars, queueVars, outsideVars, platformVars
  <2>6. ASSUME NEW r \in Runs, RunStep(r) PROVE Once(i)
    BY <2>2, <2>6 DEF RunStep, Outside, ExecutorSelects, queueVars, outsideVars, platformVars
  <2>7. ~(\E j \in Items : UserStep(j) \/ ReconcileStep(j)) /\ ~ClearFinished
    BY <1>1 DEF UserStep, AddPlatform, FailItem, Remove, Retry, Release, ReconcileStep,
       ReleaseStuckOrphan, ForceSettle, OutageRequeue, GuardStop, Reconcile, Edit, Handler, ClearFinished
  <2>8. ~Save /\ ~Crash /\ ~CrashInStart /\ ~Restart /\ ~TickEnd /\ ~Launch
    BY <1>1 DEF Save, Crash, CrashInStart, Die, Restart, TickEnd, Launch, ClaimOnPlatform, ClaimLost,
       ClaimLocally, Claim, SaveLaunching, StartWorker, StartFails, SaveRefused, SaveRunning
  <2>9. ~(\E stale \in SUBSET Items : TickBegin(stale))
    BY <1>1 DEF TickBegin
  <2> QED
    BY <1>1, <2>3, <2>4, <2>5, <2>6, <2>7, <2>8, <2>9 DEF Next, Tick
<1>2. QInv /\ [Next]_vars => [\A i \in Items : Once(i)]_vars
  BY <1>1
<1> QED
  BY <1>2, QInvInit, QInvStep, PTL DEF Spec, TerminalSettledOnce

\* A waiting item has no task yet, and only a success settles a block.
Lawful(rec) ==
  /\ rec.status = "pending" => rec.quota = "pending" /\ rec.task = NoTask
  /\ rec.quota = "settled" => rec.status = "done"

\* The item a launch has just claimed for is the only one that waits with a
\* block in another state.
Claiming(i) == pc = "claimed" /\ i = cur /\ item[i].quota = "claimed"

\* From the claim to the start of the executor the claimed task is untouched.
ClaimOpen ==
  pc \in {"claimed", "saved", "spawned"} /\ item[cur].task # NoTask
    => srv[item[cur].task] = "open" /\ calls[item[cur].task] = 0

\* The inductive invariant of NoWorkerOnCancelledTask and SettledTaskKept.
LInv ==
  /\ QInv
  /\ \A i \in Items : Lawful(disk[i]) /\ (Lawful(item[i]) \/ Claiming(i))
  /\ ClaimOpen
  /\ SettledTaskKept

\* A waiting item has no run, so nothing can be absorbed into its block; an item
\* whose block is settled is done.
LEMMA AbsorbedLawful ==
  ASSUME LInv, NEW i \in Items, pc = "sync", item[i].status \notin Terminal
  PROVE  /\ Lawful(Absorbed(i)) /\ Absorbed(i).quota # "settled"
         /\ item[i].status = "pending" => Absorbed(i) = item[i]
<1>1. /\ Lawful(item[i]) /\ item[i] \in FitRecord /\ item[i] \in ItemRecord
      /\ item[i].quota # "settled"
  BY RunOfItem DEF LInv, QInv, Claiming, Lawful, Terminal
<1>2. CASE item[i].status = "pending"
  BY <1>1, <1>2 DEF Absorbed, GetPlatform, FitRecord
<1>3. CASE item[i].status # "pending"
  <2>1. Absorbed(i).status # "pending"
    BY <1>3, AbsorbedFits DEF LInv, QInv
  <2>2. Absorbed(i).quota # "settled"
    <3> DEFINE t == IF GetPlatform(i, item[i].run) = NoJob THEN NoTask ELSE chosen[item[i].run]
    <3>1. Absorbed(i) = IF t = NoTask THEN item[i]
                        ELSE [item[i] EXCEPT !.quota = IF item[i].task \notin {NoTask, t}
                                                       THEN "superseded" ELSE @, !.task = t]
      BY DEF Absorbed
    <3> HIDE DEF t
    <3> QED
      BY <1>1, <3>1 DEF ItemRecord
  <2> QED
    BY <1>3, <2>1, <2>2 DEF Lawful
<1> QED
  BY <1>2, <1>3, <1>1

\* What refund and settlement do to a block.
LEMMA BlockLawful ==
  ASSUME NEW rec \in ItemRecord, rec.quota # "settled"
  PROVE  /\ Refunded(rec).quota # "settled" /\ Refunded(rec) \in ItemRecord
         /\ Settled(rec) \in ItemRecord
         /\ \A s \in {"failed", "skipped"} : Lawful(Ended(Refunded(rec), s)) /\ Lawful(Ended(rec, s))
                                             /\ Ended(Refunded(rec), s).quota # "settled"
                                             /\ Ended(rec, s).quota # "settled"
         /\ Lawful(Ended(Settled(rec), "done"))
BY DEF Refunded, Settled, Ended, Lawful, ItemRecord, QuotaState

\* Every record written for a retry, a removal or an addition is lawful.
LEMMA BlankLawful ==
  \A s, n, rel : /\ Lawful(Blank(s)) /\ Blank(s).quota # "settled"
                 /\ \A rec : Lawful(Requeued(rec, n, rel)) /\ Requeued(rec, n, rel).quota # "settled"
BY DEF Blank, Requeued, Lawful

\* A refund for item i, with a lawful record in its place.
LEMMA CancelL ==
  ASSUME LInv, QInv', NEW i \in Items, NEW rec \in ItemRecord, NEW new, Derived(i, rec),
         UNCHANGED <<srv, calls>> \/ CancelTask(rec), Put(i, new), Lawful(new),
         new.quota = "settled" /\ new.task # NoTask =>
           \/ new.task = item[i].task /\ item[i].quota = "settled" /\ UNCHANGED calls
           \/ Unsettled(item[i]) /\ UNCHANGED calls
              /\ (new.task = item[i].task \/ (item[i].run \in Runs /\ new.task = chosen[item[i].run])),
         pc \notin {"claimed", "saved", "spawned"}, pc' \notin {"claimed", "saved", "spawned"},
         UNCHANGED disk, crashes' = crashes
  PROVE  LInv'
<1>1. /\ item' \in [Items -> FitRecord] /\ item'[i] = new /\ \A j \in Items \ {i} : item'[j] = item[j]
      /\ calls \in [Tasks -> Nat] /\ crashes \in Nat
  BY DEF QInv, Inv, LInv, Put, QueueRestOK
<1>2. \A j \in Items : Lawful(item'[j]) /\ Lawful(disk'[j])
  BY <1>1 DEF LInv, Claiming
<1>3. SettledTaskKept'
  <2> SUFFICES ASSUME NEW j \in Items, item'[j].quota = "settled", item'[j].task # NoTask, crashes = 0
               PROVE  calls'[item'[j].task] = 0
    BY DEF SettledTaskKept
  <2>1. CASE j # i
    <3>1. item'[j] = item[j] /\ calls[item[j].task] = 0
      BY <1>1, <2>1 DEF LInv, SettledTaskKept
    <3>2. calls'[item[j].task] = calls[item[j].task]
      BY <2>1, <3>1, CancelElsewhere DEF LInv
    <3> QED
      BY <3>1, <3>2
  <2>2. CASE j = i
    <3>1. new.task \in Tasks
      BY <1>1, <2>2 DEF FitRecord, ItemRecord
    <3>2. CASE new.task = item[i].task /\ item[i].quota = "settled" /\ UNCHANGED calls
      BY <1>1, <2>2, <3>2 DEF LInv, SettledTaskKept
    <3>3. CASE Unsettled(item[i]) /\ UNCHANGED calls
      BY <1>1, <2>2, <3>1, <3>3 DEF LInv, QInv, Uncancelled, Runs, NoRun
    <3> QED
      BY <1>1, <2>2, <3>2, <3>3
  <2> QED
    BY <2>1, <2>2
<1> QED
  BY <1>2, <1>3 DEF LInv, ClaimOpen

\* A visit of the tick.
LEMMA SyncL ==
  ASSUME LInv, QInv', NEW i \in Items, Sync(i)
  PROVE  LInv'
<1>1. /\ Inv /\ QInv /\ item[i] \in ItemRecord /\ Derived(i, item[i])
      /\ Absorbed(i) \in ItemRecord /\ Derived(i, Absorbed(i))
  BY RunOfItem, SelfDerived, AbsorbedFits, AbsorbedDerived DEF LInv, QInv, FitRecord
<1>2. pc = "sync" /\ UNCHANGED <<disk, pc, crashes>>
  BY <1>1, SyncDerived DEF Sync, SyncTerminal, SyncUnstable, SyncWatched, SyncSettle, SyncFailed,
     SyncStalled, SyncEarlyExit, SyncRunning, SyncPending, SyncOrphaned, InFlight, Visiting, Visit
<1>3. ASSUME NEW new, Put(i, new), Lawful(new), new.quota # "settled",
             UNCHANGED <<srv, calls>> \/ CancelTask(Absorbed(i))
      PROVE  LInv'
  BY <1>1, <1>2, <1>3, CancelL
<1>4. Quietly(i) => UNCHANGED <<srv, calls>>
  BY DEF Quietly, outsideVars, platformVars
<1>5. CASE item[i].status \in Terminal
  <2> DEFINE new == [item[i] EXCEPT !.held = @ /\ item[i].released = "manual"]
  <2>1. Put(i, new) /\ UNCHANGED <<srv, calls>>
    BY <1>5, SyncTerminalOnly DEF SyncTerminal, outsideVars, platformVars
  <2>2. new.quota = item[i].quota /\ new.task = item[i].task /\ new.status = item[i].status
    BY <1>1 DEF ItemRecord
  <2>3. Lawful(new)
    BY <1>2, <2>2 DEF LInv, Lawful, Claiming
  <2> HIDE DEF new
  <2> QED
    BY <1>1, <1>2, <2>1, <2>2, <2>3, CancelL
<1>6. CASE item[i].status \notin Terminal
  <2>1. /\ Lawful(Absorbed(i)) /\ Absorbed(i).quota # "settled"
        /\ item[i].status = "pending" => Absorbed(i) = item[i] /\ item[i].run = NoRun
    BY <1>1, <1>2, <1>6, AbsorbedLawful, RunOfItem DEF FitRecord
  <2>2. CASE SyncTerminal(i)
    BY <1>6, <2>2 DEF SyncTerminal
  <2>3. CASE SyncUnstable(i) \/ SyncPending(i)
    BY <1>3, <1>4, <2>1, <2>3 DEF SyncUnstable, SyncPending
  <2>4. ASSUME NEW s \in {"triggered", "orphaned", "running"}
        PROVE  /\ Lawful([Absorbed(i) EXCEPT !.status = s, !.held = TRUE])
               /\ [Absorbed(i) EXCEPT !.status = s, !.held = TRUE].quota # "settled"
               /\ Lawful([Absorbed(i) EXCEPT !.status = s])
               /\ [Absorbed(i) EXCEPT !.status = s].quota # "settled"
               /\ [Absorbed(i) EXCEPT !.status = s] \in ItemRecord
    BY <1>1, <2>1 DEF Lawful, ItemRecord, Status, Active
  <2>5. CASE SyncWatched(i)
    BY <1>3, <1>4, <2>4, <2>5 DEF SyncWatched
  <2>6. CASE SyncOrphaned(i)
    BY <1>3, <1>4, <2>4, <2>6 DEF SyncOrphaned
  <2>7. CASE SyncRunning(i)
    <3> DEFINE up == IF Absorbed(i).status \in {"pending", "launching"}
                     THEN [Absorbed(i) EXCEPT !.status = "running"] ELSE Absorbed(i)
               new == IF Submitted(i) THEN [up EXCEPT !.status = "triggered", !.held = TRUE] ELSE up
    <3>1. up \in ItemRecord /\ Lawful(up) /\ up.quota # "settled"
      BY <1>1, <2>1, <2>4
    <3>2. Lawful(new) /\ new.quota # "settled"
      <4> HIDE DEF up
      <4> QED BY <3>1 DEF Lawful, ItemRecord
    <3>3. Put(i, new) /\ Quietly(i)
      BY <2>7 DEF SyncRunning
    <3> HIDE DEF new
    <3> QED
      BY <1>3, <1>4, <3>2, <3>3
  <2>8. CASE SyncSettle(i)
    <3> DEFINE new == Ended(Settled(Absorbed(i)), "done")
    <3>1. Put(i, new) /\ UNCHANGED <<srv, calls>>
      BY <1>4, <2>8 DEF SyncSettle
    <3>2. /\ Lawful(new) /\ new.run = Absorbed(i).run /\ new.task = Absorbed(i).task
          /\ new.quota = "settled" => Unsettled(Absorbed(i))
      BY <1>1, <2>1, BlockLawful DEF Ended, Settled, ItemRecord
    <3>3. new.quota = "settled" /\ new.task # NoTask =>
            /\ Unsettled(item[i])
            /\ new.task = item[i].task \/ (item[i].run \in Runs /\ new.task = chosen[item[i].run])
      BY <1>1, <3>2 DEF Derived
    <3> HIDE DEF new
    <3> QED
      BY <1>1, <1>2, <3>1, <3>2, <3>3, CancelL
  <2>9. CASE SyncFailed(i)
    BY <1>1, <1>3, <2>1, <2>9, BlockLawful DEF SyncFailed
  <2>10. CASE SyncStalled(i) \/ SyncEarlyExit(i)
    BY <1>3, <2>10, BlankLawful DEF SyncStalled, SyncEarlyExit, RetryStalled
  <2> QED
    BY <2>2, <2>3, <2>5, <2>6, <2>7, <2>8, <2>9, <2>10 DEF Sync
<1> QED
  BY <1>5, <1>6

\* The executors; a task one of them selects is a new one.
LEMMA RunStepL ==
  ASSUME LInv, QInv', NEW r \in Runs, RunStep(r)
  PROVE  LInv'
<1>1. UNCHANGED <<item, disk, pc, cur, calls, crashes>> /\ \A t \in Tasks : srv[t] = "open" => srv'[t] = "open"
  BY DEF RunStep, Outside, ExecutorSelects, FreshTask, queueVars, outsideVars, platformVars, LInv, QInv,
         Inv, QueueRestOK
<1>2. pc \in {"claimed", "saved", "spawned"} => item[cur].task \in Tasks \cup {NoTask}
  BY RunOfItem DEF LInv, QInv, Inv, Launching, ItemRecord
<1> QED
  BY <1>1, <1>2 DEF LInv, Claiming, Lawful, ClaimOpen, SettledTaskKept

\* A handler that leaves the items as they are, saved or not.
LEMMA SameItemsL ==
  ASSUME LInv, QInv', item' = item, disk' \in {disk, item}, UNCHANGED <<srv, calls>>, crashes' = crashes,
         pc # "claimed", pc' \notin {"claimed", "saved", "spawned"}
  PROVE  LInv'
BY DEF LInv, Claiming, Lawful, ClaimOpen, SettledTaskKept

\* A handler that changes items without the platform and saves them.
LEMMA StoreL ==
  ASSUME LInv, QInv', NEW items, Store(items), UNCHANGED <<srv, calls>>, crashes' = crashes,
         \A i \in Items : Lawful(items[i])
                          /\ (items[i].quota = "settled" => items[i].task = item[i].task
                                                            /\ item[i].quota = "settled"),
         pc' \notin {"claimed", "saved", "spawned"}
  PROVE  LInv'
BY DEF LInv, Store, Claiming, Lawful, ClaimOpen, SettledTaskKept

\* The launch, from the claim to its save.
LEMMA LaunchL ==
  ASSUME LInv, QInv', Launch
  PROVE  LInv'
<1>1. /\ Inv /\ QInv /\ calls \in [Tasks -> Nat] /\ crashes \in Nat /\ item \in [Items -> FitRecord]
      /\ srv \in [Tasks -> {"none", "open", "lost", "cancelled"}]
      /\ \A i \in Items : item[i] \in ItemRecord /\ item[i].task \in Tasks \cup {NoTask}
  BY RunOfItem DEF LInv, QInv, Inv, QueueRestOK, ItemRecord
<1>2. ASSUME NEW i \in Items, NEW t \in Tasks \cup {NoTask}, Claim(i, t),
             item[i].quota = "pending",
             t # NoTask => srv'[t] = "open" /\ calls[t] = 0
      PROVE  LInv'
  <2>1. /\ item'[i].quota = "claimed" /\ item'[i].task = t /\ \A j \in Items \ {i} : item'[j] = item[j]
        /\ pc = "gate" /\ pc' = "claimed" /\ cur' = i /\ UNCHANGED <<disk, calls, crashes>>
    BY <1>1, <1>2 DEF Claim, Put, ItemRecord
  <2>2. SettledTaskKept' /\ ClaimOpen'
    BY <1>1, <1>2, <2>1 DEF LInv, SettledTaskKept, ClaimOpen
  <2> QED
    BY <2>1, <2>2 DEF LInv, Claiming, Lawful
<1>3. ASSUME NEW i \in Items, NEW t \in Tasks, ClaimOnPlatform(i, t)
      PROVE  LInv'
  <2>1. srv'[t] = "open" /\ calls[t] = 0
    BY <1>1, <1>3 DEF ClaimOnPlatform, FreshTask, QInv, FreshIsUnused
  <2> QED
    BY <1>2, <1>3, <2>1 DEF ClaimOnPlatform
<1>4. ASSUME NEW i \in Items, NEW t \in Tasks, ClaimLost(i, t)
      PROVE  LInv'
  BY <1>2, <1>4 DEF ClaimLost
<1>5. ASSUME NEW i \in Items, ClaimLocally(i)
      PROVE  LInv'
  <2>1. item[i].quota = "pending"
    BY <1>5 DEF ClaimLocally, Claim, LInv, Claiming, Lawful
  <2> QED
    BY <1>2, <1>5, <2>1 DEF ClaimLocally
<1>6. ASSUME NEW r \in Runs, SaveLaunching(r)
      PROVE  LInv'
  <2>1. /\ cur \in Items /\ disk' = item' /\ cur' = cur /\ pc = "claimed" /\ pc' = "saved"
        /\ UNCHANGED <<srv, calls, crashes>>
        /\ item' = [item EXCEPT ![cur].status = "launching", ![cur].held = TRUE, ![cur].run = r]
    BY <1>1, <1>6 DEF SaveLaunching, Store, Inv, Launching, outsideVars, platformVars
  <2>2. /\ item'[cur].status = "launching" /\ item'[cur].quota = item[cur].quota
        /\ item'[cur].task = item[cur].task /\ \A j \in Items \ {cur} : item'[j] = item[j]
    BY <1>1, <2>1 DEF ItemRecord, FitRecord
  <2>3. item[cur].status = "pending"
    BY <1>1, <2>1 DEF QInv
  <2>4. ASSUME NEW j \in Items
        PROVE  Lawful(item'[j]) /\ item'[j].quota = item[j].quota /\ item'[j].task = item[j].task
    <3>1. CASE j = cur
      <4>1. item[cur].quota \in {"pending", "claimed"}
        BY <2>1, <2>3 DEF LInv, Claiming, Lawful
      <4> QED
        BY <2>2, <3>1, <4>1 DEF Lawful
    <3>2. CASE j # cur
      BY <2>1, <2>2, <3>2 DEF LInv, Claiming
    <3> QED
      BY <3>1, <3>2
  <2>5. SettledTaskKept' /\ ClaimOpen'
    BY <2>1, <2>2, <2>4 DEF LInv, SettledTaskKept, ClaimOpen
  <2> QED
    BY <2>1, <2>4, <2>5 DEF LInv
<1>7. ASSUME NEW closed \in SUBSET Runs, StartWorker(closed)
      PROVE  LInv'
  BY <1>7 DEF StartWorker, outsideVars, platformVars, LInv, Claiming, Lawful, ClaimOpen, SettledTaskKept
<1>8. ASSUME NEW closed \in SUBSET Runs, StartFails(closed)
      PROVE  LInv'
  <2> DEFINE new == Ended(Refunded(item[cur]), "failed")
  <2>1. /\ cur \in Items /\ item[cur] \in ItemRecord /\ pc = "saved" /\ pc' = "refused"
        /\ CancelTask(item[cur]) /\ Put(cur, new) /\ UNCHANGED <<disk, crashes>>
        /\ item[cur].status = "launching"
    BY <1>1, <1>8 DEF StartFails, Inv, Launching
  <2>2. item[cur].quota # "settled"
    BY <2>1 DEF LInv, Claiming, Lawful
  <2>3. Lawful(new) /\ new.quota # "settled"
    BY <2>1, <2>2, BlockLawful
  <2>4. /\ item' \in [Items -> FitRecord] /\ item'[cur] = new /\ \A j \in Items \ {cur} : item'[j] = item[j]
    BY <2>1 DEF QInv, Inv, Put, LInv
  <2>5. \A j \in Items \ {cur} : item[j].task # NoTask => calls'[item[j].task] = calls[item[j].task]
    BY <1>1, <2>1, CancelElsewhere, SelfDerived
  <2> HIDE DEF new
  <2>6. SettledTaskKept'
    BY <2>1, <2>3, <2>4, <2>5 DEF SettledTaskKept, LInv
  <2> QED
    BY <2>1, <2>3, <2>4, <2>6 DEF LInv, Claiming, ClaimOpen
<1>9. CASE SaveRefused
  BY <1>9, SameItemsL DEF SaveRefused, outsideVars, platformVars
<1>10. CASE SaveRunning
  <2> DEFINE new == [item EXCEPT ![cur].status = "running"]
  <2>1. /\ cur \in Items /\ item[cur].status = "launching" /\ Store(new) /\ pc' = "idle"
        /\ pc = "spawned" /\ UNCHANGED <<srv, calls, crashes>>
    BY <1>1, <1>10 DEF SaveRunning, Inv, Launching, outsideVars, platformVars
  <2>2. \A i \in Items : Lawful(new[i]) /\ new[i].quota = item[i].quota /\ new[i].task = item[i].task
    BY <1>1, <2>1 DEF LInv, Claiming, Lawful, ItemRecord, FitRecord
  <2> HIDE DEF new
  <2> QED
    BY <2>1, <2>2, StoreL
<1> QED
  BY <1>3, <1>4, <1>5, <1>6, <1>7, <1>8, <1>9, <1>10 DEF Launch

\* The whole tick.
LEMMA TickL ==
  ASSUME LInv, QInv', Tick
  PROVE  LInv'
<1>1. ASSUME NEW stale \in SUBSET Items, TickBegin(stale)
      PROVE  LInv'
  BY <1>1, SameItemsL DEF TickBegin, outsideVars, platformVars
<1>2. ASSUME NEW stopped \in SUBSET Items, SyncDone(stopped)
      PROVE  LInv'
  <2> DEFINE new == [i \in Items |-> IF i \in stopped THEN Ended(item[i], "skipped") ELSE item[i]]
  <2>1. Store(new) /\ pc = "sync" /\ pc' = "gate" /\ UNCHANGED <<srv, calls, crashes>>
    BY <1>2 DEF SyncDone, outsideVars, platformVars
  <2>2. ASSUME NEW i \in Items
        PROVE  Lawful(new[i]) /\ (new[i].quota = "settled" => new[i].task = item[i].task
                                                              /\ item[i].quota = "settled")
    <3>1. Lawful(item[i]) /\ item[i] \in ItemRecord
      BY <2>1, RunOfItem DEF LInv, QInv, Claiming
    <3>2. CASE i \notin stopped
      BY <3>1, <3>2
    <3>3. CASE i \in stopped
      <4>1. item[i].status = "pending"
        BY <1>2, <3>3 DEF SyncDone
      <4>2. new[i] = Ended(item[i], "skipped") /\ item[i].quota # "settled"
        BY <3>1, <3>3, <4>1 DEF Lawful
      <4> QED
        BY <3>1, <4>2, BlockLawful
    <3> QED
      BY <3>2, <3>3
  <2> HIDE DEF new
  <2> QED
    BY <2>1, <2>2, StoreL
<1>3. CASE TickEnd
  BY <1>3, SameItemsL DEF TickEnd, outsideVars, platformVars
<1> QED
  BY <1>1, <1>2, <1>3, SyncL, LaunchL DEF Tick

\* A page handler that edits the list and saves.
LEMMA OneEditL ==
  ASSUME LInv, QInv', NEW i \in Items, NEW new, Edit([item EXCEPT ![i] = new]), Lawful(new),
         new.quota # "settled"
  PROVE  LInv'
<1> DEFINE items == [item EXCEPT ![i] = new]
<1>1. /\ pc = "idle" /\ pc' = "idle" /\ Store(items) /\ UNCHANGED <<srv, calls, crashes>>
  BY DEF Edit, Handler, outsideVars, platformVars
<1>2. \A j \in Items : Lawful(items[j]) /\ (items[j].quota = "settled" => items[j].task = item[j].task
                                                                          /\ item[j].quota = "settled")
  BY <1>1 DEF LInv, QInv, Inv, Claiming
<1> HIDE DEF items
<1> QED
  BY <1>1, <1>2, StoreL

\* The page handlers.
LEMMA UserL ==
  ASSUME LInv, QInv', NEW i \in Items, UserStep(i)
  PROVE  LInv'
<1>1. /\ item[i] \in ItemRecord /\ pc = "idle" /\ Lawful(item[i])
  BY RunOfItem DEF LInv, QInv, Claiming, UserStep, AddPlatform, FailItem, Remove, Retry, Release, Edit, Handler
<1>2. CASE AddPlatform(i)
  BY <1>2, BlankLawful, OneEditL DEF AddPlatform
<1>3. CASE FailItem(i)
  <2>1. item[i].quota # "settled"
    BY <1>1, <1>3 DEF FailItem, Lawful
  <2> QED
    BY <1>1, <1>3, <2>1, BlockLawful, OneEditL DEF FailItem
<1>4. CASE Remove(i)
  BY <1>4, BlankLawful, OneEditL DEF Remove
<1>5. CASE Retry(i)
  BY <1>5, BlankLawful, OneEditL DEF Retry
<1>6. CASE Release(i)
  <2> DEFINE new == [Ended(item[i], "skipped") EXCEPT !.released = "manual"]
             items == [item EXCEPT ![i] = new]
  <2>1. item[i].quota # "settled"
    BY <1>1, <1>6 DEF Release, Lawful
  <2>2. Lawful(new) /\ new.quota # "settled"
    BY <1>1, <2>1 DEF Ended, Lawful, ItemRecord
  <2>3. Store(items) /\ UNCHANGED <<srv, calls, crashes, pc>>
    BY <1>6 DEF Release, Handler, outsideVars, platformVars
  <2>4. \A j \in Items : Lawful(items[j]) /\ (items[j].quota = "settled" => items[j].task = item[j].task
                                                                            /\ item[j].quota = "settled")
    BY <1>1, <2>2 DEF LInv, QInv, Inv, Claiming
  <2> HIDE DEF items
  <2> QED
    BY <1>1, <2>3, <2>4, StoreL
<1> QED
  BY <1>2, <1>3, <1>4, <1>5, <1>6 DEF UserStep

\* The reconcile loop and the guard.
LEMMA ReconcileL ==
  ASSUME LInv, QInv', NEW i \in Items, ReconcileStep(i)
  PROVE  LInv'
<1>1. /\ item[i] \in ItemRecord /\ pc = "idle" /\ Lawful(item[i]) /\ Derived(i, item[i])
  BY RunOfItem, SelfDerived DEF LInv, QInv, Claiming, ReconcileStep, ReleaseStuckOrphan, ForceSettle, OutageRequeue,
     GuardStop, Reconcile, Handler
<1>2. ASSUME NEW new, Reconcile(i, new), Lawful(new), new.quota # "settled" \/ new = item[i]
      PROVE  LInv'
  <2>1. /\ CancelTask(item[i]) /\ Put(i, new) /\ pc' = "dirty" /\ UNCHANGED <<disk, crashes>>
    BY <1>2 DEF Reconcile
  <2>2. new.quota = "settled" => new.task = item[i].task /\ item[i].quota = "settled" /\ UNCHANGED calls
    BY <1>2, <2>1 DEF CancelTask, Unsettled, platformVars
  <2> QED
    BY <1>1, <1>2, <2>1, <2>2, CancelL
<1>3. CASE ReleaseStuckOrphan(i)
  <2> DEFINE new == [Ended(Refunded(item[i]), "skipped") EXCEPT !.released = "auto"]
  <2>1. item[i].quota # "settled"
    BY <1>1, <1>3 DEF ReleaseStuckOrphan, Lawful
  <2>2. Lawful(new) /\ new.quota # "settled"
    BY <1>1, <2>1 DEF Ended, Refunded, Lawful, ItemRecord, QuotaState
  <2> QED
    BY <1>2, <1>3, <2>2 DEF ReleaseStuckOrphan
<1>4. CASE ForceSettle(i)
  <2>1. Refunded(item[i]).quota # "settled" /\ Lawful(Refunded(item[i]))
    BY <1>1, <1>4 DEF ForceSettle, Refunded, Unsettled, Lawful, ItemRecord
  <2> QED
    BY <1>2, <1>4, <2>1 DEF ForceSettle
<1>5. CASE OutageRequeue(i)
  BY <1>2, <1>5, BlankLawful DEF OutageRequeue
<1>6. CASE GuardStop(i)
  <2>1. item[i].quota # "settled"
    BY <1>1, <1>6 DEF GuardStop, Lawful, Active
  <2> QED
    BY <1>1, <1>2, <1>6, <2>1, BlockLawful DEF GuardStop
<1> QED
  BY <1>3, <1>4, <1>5, <1>6 DEF ReconcileStep

\* Saves, crashes and restarts.
LEMMA ProcessL ==
  ASSUME LInv, QInv', Save \/ ClearFinished \/ Crash \/ CrashInStart \/ Restart
  PROVE  LInv'
<1>1. CASE Save
  BY <1>1, SameItemsL DEF Save, outsideVars, platformVars
<1>2. CASE ClearFinished
  <2> DEFINE new == [i \in Items |-> IF item[i].status \in {"failed", "skipped"} /\ ~item[i].held
                                     THEN Blank("removed") ELSE item[i]]
  <2>1. pc = "idle" /\ pc' = "idle" /\ Store(new) /\ UNCHANGED <<srv, calls, crashes>>
    BY <1>2 DEF ClearFinished, Edit, Handler, outsideVars, platformVars
  <2>2. \A i \in Items : Lawful(new[i]) /\ (new[i].quota = "settled" => new[i].task = item[i].task
                                                                        /\ item[i].quota = "settled")
    BY <2>1, BlankLawful DEF LInv, Claiming
  <2> HIDE DEF new
  <2> QED
    BY <2>1, <2>2, StoreL
<1>3. ASSUME Die PROVE LInv'
  <2>1. /\ item' = disk /\ disk' = disk /\ pc' = "down" /\ crashes' = crashes + 1 /\ crashes \in Nat
    BY <1>3 DEF Die, LInv, QInv, Inv, QueueRestOK
  <2>2. SettledTaskKept'
    BY <2>1 DEF SettledTaskKept
  <2> QED
    BY <2>1, <2>2 DEF LInv, Claiming, Lawful, ClaimOpen
<1>4. CASE Restart
  BY <1>4, SameItemsL DEF Restart, platformVars
<1> QED
  BY <1>1, <1>2, <1>3, <1>4 DEF Crash, CrashInStart

\* At first every block is blank.
LEMMA LInvInit == Init => LInv
<1> SUFFICES ASSUME Init PROVE LInv
  OBVIOUS
<1> QED
  BY QInvInit, BlankLawful DEF Init, QueueInit, LInv, ClaimOpen, SettledTaskKept, Blank

\* LInv is inductive.
LEMMA LInvStep == LInv /\ [Next]_vars => LInv'
<1> SUFFICES ASSUME LInv, [Next]_vars PROVE LInv'
  OBVIOUS
<1>1. QInv'
  BY QInvStep DEF LInv
<1>2. CASE UNCHANGED vars
  BY <1>1, <1>2 DEF vars, queueVars, outsideVars, platformVars, LInv, Claiming, Lawful, ClaimOpen,
                    SettledTaskKept
<1>3. CASE Next
  BY <1>1, <1>3, RunStepL, TickL, UserL, ReconcileL, ProcessL DEF Next
<1> QED
  BY <1>2, <1>3

\* The blocks of the queue stay lawful: what waits holds no task, what is settled
\* is done, and a claimed task is untouched until its executor starts
\* (claim_quota, refund_quota, settle_quota over every handler and crash).
THEOREM LInvariance == Spec => []LInv
BY LInvInit, LInvStep, PTL DEF Spec

\* No executor is started for a platform task that was cancelled or that has
\* already succeeded (_launch_pending: claim, save, start), crashes included.
THEOREM FreshTaskForWorker == Spec => []NoWorkerOnCancelledTask
<1>1. LInv => NoWorkerOnCancelledTask
  BY DEF LInv, ClaimOpen, NoWorkerOnCancelledTask
<1> QED
  BY <1>1, LInvariance, PTL

\* A task whose success was recorded is never given back by a cancel
\* (settle_quota against every refund_quota), until a crash loses the record of
\* one.
THEOREM SettledKept == Spec => []SettledTaskKept
<1>1. LInv => SettledTaskKept
  BY DEF LInv
<1> QED
  BY <1>1, LInvariance, PTL

-----------------------------------------------------------------------------
(* The ledger *)

\* No item and no executor holds a task whose creation was not answered, and so
\* nobody cancels it.
NotLost ==
  /\ \A t \in Tasks : srv[t] = "lost" => calls[t] = 0
  /\ \A i \in Items : item[i].task # NoTask => srv[item[i].task] # "lost"
  /\ \A r \in Runs : chosen[r] # NoTask => srv[chosen[r]] # "lost"

\* What the queue file calls settled is settled in memory.
DiskSettled ==
  \A i \in Items : disk[i].quota = "settled" =>
    item[i].quota = "settled" /\ item[i].task = disk[i].task

\* The inductive invariant of the refinement: a server that does not crash.
RInv == LInv /\ MaxCrash = 0 /\ crashes = 0 /\ NotLost /\ DiskSettled

\* Where a task on an item may come from in one step.
TaskFrom(i) ==
  \/ item'[i].task \in {NoTask, item[i].task}
  \/ item[i].run \in Runs /\ item'[i].task = chosen[item[i].run]
  \/ srv'[item'[i].task] = "open"

\* What one step may do to task t of the platform: nothing, create it (and save
\* nothing), or cancel it.
TaskMoves(t) ==
  \/ srv'[t] = srv[t] /\ calls'[t] = calls[t]
  \/ srv[t] = "none" /\ srv'[t] \in {"open", "lost"} /\ calls'[t] = calls[t] /\ disk' = disk
  \/ srv[t] \notin {"none", "lost"} /\ srv'[t] \notin {"none", "lost"} /\ calls'[t] = calls[t] + 1

\* What any step without a crash does to items, queue file and platform.
Moves ==
  /\ \A i \in Items : TaskFrom(i) /\ (item[i].quota = "settled" => /\ item'[i].quota = "settled"
                                                                   /\ item'[i].task = item[i].task)
  /\ \A t \in Tasks : TaskMoves(t)
  /\ \A r \in Runs : chosen'[r] = chosen[r] \/ srv'[chosen'[r]] = "open"
  /\ disk' \in {disk, item'}
  /\ crashes' = crashes

\* Such a step keeps the invariant.
LEMMA MovesKeep ==
  ASSUME RInv, LInv', Moves
  PROVE  RInv'
<1>1. /\ \A i \in Items : /\ item[i].task \in Tasks \cup {NoTask} /\ item'[i].task \in Tasks \cup {NoTask}
                          /\ item[i].run \in Runs \cup {NoRun}
      /\ \A r \in Runs : chosen[r] \in Tasks \cup {NoTask} /\ chosen'[r] \in Tasks \cup {NoTask}
  BY DEF RInv, LInv, QInv, Inv, RunTypeOK, FitRecord, ItemRecord
<1>2. \A i \in Items : /\ item[i].task # NoTask => srv[item[i].task] \notin {"none", "lost"}
                       /\ \A r \in Runs : chosen[r] # NoTask => srv[chosen[r]] \notin {"none", "lost"}
  BY DEF RInv, NotLost, LInv, QInv, OwnTasks, OwnSelections
<1>3. NotLost'
  <2>1. \A t \in Tasks : srv[t] \notin {"none", "lost"} => srv'[t] # "lost"
    BY DEF Moves, TaskMoves
  <2>2. ASSUME NEW i \in Items, item'[i].task # NoTask PROVE srv'[item'[i].task] # "lost"
    BY <1>1, <1>2, <2>1, <2>2 DEF Moves, TaskFrom, NoTask
  <2>3. ASSUME NEW r \in Runs, chosen'[r] # NoTask PROVE srv'[chosen'[r]] # "lost"
    BY <1>1, <2>1, <2>3 DEF Moves, RInv, NotLost, LInv, QInv, OwnSelections
  <2>4. ASSUME NEW t \in Tasks, srv'[t] = "lost" PROVE calls'[t] = 0
    BY <2>4 DEF Moves, TaskMoves, RInv, NotLost, LInv, QInv, FreshIsUnused
  <2> QED
    BY <2>2, <2>3, <2>4 DEF NotLost
<1>4. DiskSettled'
  BY DEF Moves, RInv, DiskSettled
<1> QED
  BY <1>3, <1>4 DEF RInv, Moves

\* A refund for item i is such a move for every task.
LEMMA CancelMoves ==
  ASSUME RInv, NEW i \in Items, NEW rec \in ItemRecord, Derived(i, rec),
         UNCHANGED <<srv, calls>> \/ CancelTask(rec), NEW t \in Tasks
  PROVE  TaskMoves(t)
<1>1. /\ srv \in [Tasks -> {"none", "open", "lost", "cancelled"}] /\ calls \in [Tasks -> Nat]
      /\ item[i].run \in Runs \cup {NoRun}
  BY RunOfItem DEF RInv, LInv, QInv, Inv, QueueRestOK
<1>2. CASE UNCHANGED <<srv, calls>> \/ ~(Unsettled(rec) /\ rec.task # NoTask)
  BY <1>2 DEF CancelTask, TaskMoves, platformVars
<1>3. CASE CancelTask(rec) /\ Unsettled(rec) /\ rec.task # NoTask
  <2>1. rec.task \in Tasks /\ srv[rec.task] \notin {"none", "lost"}
    BY <1>3 DEF Derived, ItemRecord, RInv, NotLost, LInv, QInv, OwnTasks, OwnSelections
  <2>2. /\ calls' = [calls EXCEPT ![rec.task] = @ + 1]
        /\ \E outcome \in {srv[rec.task], "cancelled"} : srv' = [srv EXCEPT ![rec.task] = outcome]
    BY <1>3 DEF CancelTask
  <2> QED
    BY <1>1, <2>1, <2>2 DEF TaskMoves
<1> QED
  BY <1>2, <1>3

\* A derived change of one item with at most a refund for it, saved or not.
LEMMA DerivedMoves ==
  ASSUME RInv, NEW i \in Items, NEW rec \in ItemRecord, Derived(i, rec),
         UNCHANGED <<srv, calls>> \/ CancelTask(rec),
         Derived(i, item'[i]), \A j \in Items \ {i} : item'[j] = item[j],
         item[i].quota = "settled" => item'[i].quota = "settled" /\ item'[i].task = item[i].task,
         disk' \in {disk, item'}, UNCHANGED <<crashes, chosen>>
  PROVE  Moves
<1>1. \A t \in Tasks : TaskMoves(t)
  BY CancelMoves
<1>2. TaskFrom(i) /\ \A j \in Items \ {i} : TaskFrom(j)
  BY DEF TaskFrom, Derived
<1> QED
  BY <1>1, <1>2 DEF Moves

\* A step that leaves items and platform as they are.
LEMMA StillMoves ==
  ASSUME UNCHANGED <<item, srv, calls, chosen, crashes>>, disk' \in {disk, item'}
  PROVE  Moves
BY DEF Moves, TaskFrom, TaskMoves

\* A handler that edits the list: blocks that are settled stay.
LEMMA StoreMoves ==
  ASSUME NEW items, Store(items), UNCHANGED <<srv, calls, chosen, crashes>>,
         \A i \in Items : /\ items[i].task \in {NoTask, item[i].task}
                          /\ item[i].quota = "settled" => /\ items[i].quota = "settled"
                                                          /\ items[i].task = item[i].task
  PROVE  Moves
BY DEF Store, Moves, TaskFrom, TaskMoves

\* The tick.
LEMMA TickMoves ==
  ASSUME RInv, Tick
  PROVE  Moves
<1>0. /\ LInv /\ QInv /\ Inv /\ item \in [Items -> FitRecord] /\ \A i \in Items : item[i] \in ItemRecord
      /\ srv \in [Tasks -> {"none", "open", "lost", "cancelled"}]
  BY RunOfItem DEF RInv, LInv, QInv, Inv, QueueRestOK
<1>1. ASSUME NEW i \in Items, Sync(i) PROVE Moves
  <2>1. Absorbed(i) \in ItemRecord /\ Derived(i, Absorbed(i))
    BY <1>0, AbsorbedFits, AbsorbedDerived DEF FitRecord
  <2>2. ASSUME item[i].quota = "settled" PROVE item'[i].quota = "settled" /\ item'[i].task = item[i].task
    <3>1. item[i].status \in Terminal
      BY <1>0, <2>2 DEF LInv, Claiming, Lawful, Terminal
    <3> QED
      BY <1>0, <1>1, <2>2, <3>1, SyncTerminalOnly DEF SyncTerminal, Put, ItemRecord
  <2>3. /\ Derived(i, item'[i]) /\ \A j \in Items \ {i} : item'[j] = item[j]
        /\ UNCHANGED <<disk, crashes, chosen>>
        /\ UNCHANGED <<srv, calls>> \/ CancelTask(Absorbed(i))
    BY <1>0, <1>1, SyncDerived
  <2> QED
    BY <2>1, <2>2, <2>3, DerivedMoves
<1>2. ASSUME NEW stale \in SUBSET Items, TickBegin(stale) PROVE Moves
  BY <1>2, StillMoves DEF TickBegin, outsideVars, platformVars
<1>3. ASSUME NEW stopped \in SUBSET Items, SyncDone(stopped) PROVE Moves
  <2> DEFINE new == [i \in Items |-> IF i \in stopped THEN Ended(item[i], "skipped") ELSE item[i]]
  <2>1. Store(new) /\ UNCHANGED <<srv, calls, chosen, crashes>>
    BY <1>3 DEF SyncDone, outsideVars, platformVars, runVars
  <2>2. \A i \in Items : new[i].task = item[i].task /\ new[i].quota = item[i].quota
    BY <1>0 DEF Ended, ItemRecord
  <2> HIDE DEF new
  <2> QED
    BY <2>1, <2>2, StoreMoves
<1>4. CASE TickEnd \/ SaveRefused
  BY <1>4, StillMoves DEF TickEnd, SaveRefused, outsideVars, platformVars, runVars
<1>5. ASSUME NEW i \in Items, NEW t \in Tasks \cup {NoTask}, Claim(i, t),
             item[i].quota = "pending", t # NoTask => srv'[t] = "open",
             \A u \in Tasks : srv'[u] = srv[u] \/ (srv[u] = "none" /\ srv'[u] \in {"open", "lost"})
      PROVE  Moves
  <2>1. /\ item'[i].task = t /\ item'[i].quota = "claimed" /\ \A j \in Items \ {i} : item'[j] = item[j]
        /\ UNCHANGED <<disk, calls, crashes, chosen>>
    BY <1>0, <1>5 DEF Claim, Put, ItemRecord, runVars
  <2>2. \A u \in Tasks : TaskMoves(u)
    BY <1>5, <2>1 DEF TaskMoves
  <2>3. TaskFrom(i) /\ \A j \in Items \ {i} : TaskFrom(j)
    BY <1>5, <2>1 DEF TaskFrom
  <2> QED
    BY <1>5, <2>1, <2>2, <2>3 DEF Moves
<1>6. ASSUME NEW i \in Items, NEW t \in Tasks, ClaimOnPlatform(i, t) \/ ClaimLost(i, t) PROVE Moves
  <2>1. /\ srv[t] = "none" /\ srv'[t] \in {"open", "lost"} /\ \A u \in Tasks \ {t} : srv'[u] = srv[u]
        /\ item[i].quota = "pending"
        /\ Claim(i, NoTask) \/ (Claim(i, t) /\ srv'[t] = "open")
    BY <1>0, <1>6 DEF ClaimOnPlatform, ClaimLost, FreshTask
  <2> QED
    BY <1>5, <2>1
<1>7. ASSUME NEW i \in Items, ClaimLocally(i) PROVE Moves
  <2>1. item[i].quota = "pending"
    BY <1>0, <1>7 DEF ClaimLocally, Claim, LInv, Claiming, Lawful
  <2> QED
    BY <1>5, <1>7, <2>1 DEF ClaimLocally
<1>8. ASSUME NEW r \in Runs, SaveLaunching(r) PROVE Moves
  <2> DEFINE new == [item EXCEPT ![cur].status = "launching", ![cur].held = TRUE, ![cur].run = r]
  <2>1. Store(new) /\ UNCHANGED <<srv, calls, chosen, crashes>>
    BY <1>8 DEF SaveLaunching, outsideVars, platformVars, runVars
  <2>2. \A i \in Items : new[i].task = item[i].task /\ new[i].quota = item[i].quota
    BY <1>0 DEF FitRecord, ItemRecord
  <2> HIDE DEF new
  <2> QED
    BY <2>1, <2>2, StoreMoves
<1>9. ASSUME NEW closed \in SUBSET Runs, StartWorker(closed) PROVE Moves
  BY <1>9, StillMoves DEF StartWorker, CloseStale, outsideVars, platformVars
<1>10. ASSUME NEW closed \in SUBSET Runs, StartFails(closed) PROVE Moves
  <2> DEFINE new == Ended(Refunded(item[cur]), "failed")
  <2>1. /\ cur \in Items /\ item[cur] \in ItemRecord /\ CancelTask(item[cur]) /\ Put(cur, new)
        /\ item[cur].status = "launching" /\ UNCHANGED <<disk, crashes, chosen>> /\ pc = "saved"
    BY <1>0, <1>10 DEF StartFails, CloseStale, Inv, Launching
  <2>2. item[cur].quota # "settled"
    BY <1>0, <2>1 DEF LInv, Claiming, Lawful
  <2>3. Derived(cur, new) /\ Derived(cur, item[cur])
    BY <1>0, <2>1, SelfDerived, EndedDerived DEF Status, Terminal
  <2>4. item'[cur] = new /\ \A j \in Items \ {cur} : item'[j] = item[j]
    BY <1>0, <2>1 DEF Put
  <2> HIDE DEF new
  <2> QED
    BY <2>1, <2>2, <2>3, <2>4, DerivedMoves
<1>11. CASE SaveRunning
  <2> DEFINE new == [item EXCEPT ![cur].status = "running"]
  <2>1. Store(new) /\ UNCHANGED <<srv, calls, chosen, crashes>>
    BY <1>11 DEF SaveRunning, outsideVars, platformVars, runVars
  <2>2. \A i \in Items : new[i].task = item[i].task /\ new[i].quota = item[i].quota
    BY <1>0 DEF FitRecord, ItemRecord
  <2> HIDE DEF new
  <2> QED
    BY <2>1, <2>2, StoreMoves
<1> QED
  BY <1>1, <1>2, <1>3, <1>4, <1>6, <1>7, <1>8, <1>9, <1>10, <1>11 DEF Tick, Launch

\* A page handler on one item that is not done.
LEMMA OneEditMoves ==
  ASSUME RInv, NEW i \in Items, NEW new, Edit([item EXCEPT ![i] = new]),
         new.task \in {NoTask, item[i].task}, item[i].quota # "settled"
  PROVE  Moves
<1> DEFINE items == [item EXCEPT ![i] = new]
<1>1. Store(items) /\ UNCHANGED <<srv, calls, chosen, crashes>>
  BY DEF Edit, outsideVars, platformVars, runVars
<1>2. \A j \in Items : /\ items[j].task \in {NoTask, item[j].task}
                       /\ item[j].quota = "settled" => /\ items[j].quota = "settled"
                                                       /\ items[j].task = item[j].task
  BY DEF RInv, LInv, QInv, Inv
<1> HIDE DEF items
<1> QED
  BY <1>1, <1>2, StoreMoves

\* The handlers of the pages and of the reconcile loop touch no item that is
\* done.
LEMMA HandlerMoves ==
  ASSUME RInv, NEW i \in Items, UserStep(i) \/ ReconcileStep(i)
  PROVE  Moves
<1>0. /\ LInv /\ QInv /\ Inv /\ item \in [Items -> FitRecord] /\ item[i] \in ItemRecord /\ pc = "idle"
      /\ Lawful(item[i]) /\ Derived(i, item[i])
  BY RunOfItem, SelfDerived DEF RInv, LInv, QInv, Inv, Claiming, UserStep, AddPlatform, FailItem, Remove,
     Retry, Release, Edit, Handler, ReconcileStep, ReleaseStuckOrphan, ForceSettle, OutageRequeue,
     GuardStop, Reconcile
<1>1. item[i].quota # "settled" \/ ForceSettle(i)
  BY <1>0 DEF Lawful, UserStep, AddPlatform, FailItem, Remove, Retry, Release, InQueue, ReconcileStep,
     ReleaseStuckOrphan, OutageRequeue, GuardStop, Active
<1>2. CASE AddPlatform(i) \/ Remove(i) \/ Retry(i)
  BY <1>1, <1>2, RequeuedDerived, OneEditMoves DEF AddPlatform, Remove, Retry, Blank, InQueue, ForceSettle
<1>3. CASE FailItem(i)
  <2>1. Ended(item[i], "failed").task = item[i].task /\ item[i].quota # "settled"
    BY <1>0, <1>3 DEF FailItem, Ended, ItemRecord, Lawful
  <2> QED
    BY <1>3, <2>1, OneEditMoves DEF FailItem
<1>4. CASE Release(i)
  <2> DEFINE items == [item EXCEPT ![i] = [Ended(item[i], "skipped") EXCEPT !.released = "manual"]]
  <2>1. Store(items) /\ UNCHANGED <<srv, calls, chosen, crashes>>
    BY <1>4 DEF Release, outsideVars, platformVars, runVars
  <2>2. \A j \in Items : items[j].task = item[j].task /\ items[j].quota = item[j].quota
    BY <1>0 DEF Ended, ItemRecord
  <2> HIDE DEF items
  <2> QED
    BY <2>1, <2>2, StoreMoves
<1>5. ASSUME NEW new, Reconcile(i, new), Derived(i, new), item[i].quota # "settled", UNCHANGED runVars \/ GuardStop(i)
      PROVE  Moves
  <2>1. /\ CancelTask(item[i]) /\ Put(i, new) /\ UNCHANGED <<disk, crashes, chosen>>
    BY <1>5 DEF Reconcile
  <2>2. item'[i] = new /\ \A j \in Items \ {i} : item'[j] = item[j]
    BY <1>0, <2>1 DEF Put
  <2> QED
    BY <1>0, <1>5, <2>1, <2>2, DerivedMoves
<1>6. /\ Derived(i, Refunded(item[i])) /\ Refunded(item[i]) \in ItemRecord
      /\ \A s \in {"skipped", "failed"} : Derived(i, Ended(Refunded(item[i]), s))
  BY <1>0, EndedDerived DEF Status, Terminal
<1>7. CASE ReleaseStuckOrphan(i)
  <2>1. item[i].quota # "settled"
    BY <1>0, <1>7 DEF ReleaseStuckOrphan, Lawful
  <2>2. Derived(i, [Ended(Refunded(item[i]), "skipped") EXCEPT !.released = "auto"])
    BY <1>0, <1>6 DEF Derived, Ended, Unsettled, ItemRecord
  <2> QED
    BY <1>5, <1>7, <2>1, <2>2 DEF ReleaseStuckOrphan, Reconcile, runVars
<1>8. CASE ForceSettle(i)
  BY <1>5, <1>6, <1>8 DEF ForceSettle, Reconcile, runVars
<1>9. CASE OutageRequeue(i)
  <2>1. item[i].quota # "settled"
    BY <1>0, <1>9 DEF OutageRequeue, Lawful
  <2> QED
    BY <1>5, <1>9, <2>1, RequeuedDerived DEF OutageRequeue, Reconcile, runVars
<1>10. CASE GuardStop(i)
  <2>1. item[i].quota # "settled"
    BY <1>0, <1>10 DEF GuardStop, Lawful, Active
  <2> QED
    BY <1>5, <1>6, <1>10, <2>1 DEF GuardStop
<1> QED
  BY <1>2, <1>3, <1>4, <1>7, <1>8, <1>9, <1>10 DEF UserStep, ReconcileStep

\* Every step of a server that does not crash.
LEMMA NextMoves ==
  ASSUME RInv, [Next]_vars
  PROVE  Moves
<1>1. CASE UNCHANGED vars
  BY <1>1, StillMoves DEF vars, runVars, queueVars, outsideVars, platformVars
<1>2. ASSUME NEW r \in Runs, RunStep(r) PROVE Moves
  <2>1. CASE \E t \in Tasks : ExecutorSelects(r, t)
    <3>1. PICK t \in Tasks : ExecutorSelects(r, t)
      BY <2>1
    <3>2. /\ srv[t] = "none" /\ srv'[t] = "open" /\ \A u \in Tasks \ {t} : srv'[u] = srv[u]
          /\ chosen'[r] = t /\ \A q \in Runs \ {r} : chosen'[q] = chosen[q]
          /\ UNCHANGED <<item, disk, calls, crashes>>
      BY <1>2, <3>1 DEF ExecutorSelects, FreshTask, queueVars, RInv, LInv, QInv, Inv, RunTypeOK, QueueRestOK
    <3> QED
      BY <3>2 DEF Moves, TaskFrom, TaskMoves
  <2>2. CASE ~\E t \in Tasks : ExecutorSelects(r, t)
    <3>1. UNCHANGED <<item, disk, srv, calls, chosen, crashes>>
      BY <1>2, <2>2 DEF RunStep, WorkerFailsEarly, DeliverPrompt, ReportSubmitted, ReportComplete, ReportFailure,
         SessionEnds, SessionWrites, Outside, queueVars, outsideVars, platformVars, runVars
    <3> QED
      BY <3>1, StillMoves
  <2> QED
    BY <2>1, <2>2
<1>3. CASE ClearFinished
  <2> DEFINE new == [i \in Items |-> IF item[i].status \in {"failed", "skipped"} /\ ~item[i].held
                                     THEN Blank("removed") ELSE item[i]]
  <2>1. pc = "idle" /\ Store(new) /\ UNCHANGED <<srv, calls, chosen, crashes>>
    BY <1>3 DEF ClearFinished, Edit, Handler, outsideVars, platformVars, runVars
  <2>2. \A i \in Items : /\ new[i].task \in {NoTask, item[i].task}
                         /\ item[i].quota = "settled" => /\ new[i].quota = "settled"
                                                         /\ new[i].task = item[i].task
    BY <2>1 DEF RInv, LInv, Claiming, Lawful, Blank
  <2> HIDE DEF new
  <2> QED
    BY <2>1, <2>2, StoreMoves
<1>4. CASE Save \/ Restart
  BY <1>4, StillMoves DEF Save, Restart, outsideVars, platformVars, runVars
<1>5. ~Crash /\ ~CrashInStart
  BY DEF Crash, CrashInStart, Die, RInv
<1> QED
  BY <1>1, <1>2, <1>3, <1>4, <1>5, TickMoves, HandlerMoves DEF Next

\* RInv is inductive.
LEMMA RInvStep == RInv /\ [Next]_vars => RInv'
BY NextMoves, MovesKeep, LInvStep DEF RInv

\* At first nothing is lost and nothing is settled.
LEMMA RInvInit == MaxCrash = 0 /\ Init => RInv
<1> SUFFICES ASSUME MaxCrash = 0, Init PROVE RInv
  OBVIOUS
<1> QED
  BY LInvInit DEF Init, RunInit, QueueInit, RInv, NotLost, DiskSettled, Blank

\* A step of the scheduler is a step of the ledger.
LEMMA LedgerStep ==
  ASSUME RInv, RInv', Moves
  PROVE  Ledger!Next
<1>1. ASSUME NEW t \in Tasks
      PROVE  LedgerOf(t)' \in Ledger!Entry /\ LedgerOf(t)' \in Ledger!Successors(LedgerOf(t))
  <2> DEFINE Consumed == \E i \in Items : disk[i].task = t /\ disk[i].quota = "settled"
  <2>1. /\ srv \in [Tasks -> {"none", "open", "lost", "cancelled"}] /\ calls \in [Tasks -> Nat]
        /\ t # NoTask
    BY DEF RInv, LInv, QInv, Inv, QueueRestOK, Tasks, NoTask
  <2>2. Consumed => Consumed'
    BY DEF RInv, DiskSettled, Moves
  <2>3. Consumed' => /\ calls'[t] = 0 /\ srv'[t] \notin {"none", "lost"}
    BY <2>1 DEF RInv, DiskSettled, LInv, SettledTaskKept, NotLost, QInv, OwnTasks
  <2>4. Consumed' /\ ~Consumed => disk' # disk
    OBVIOUS
  <2>5. TaskMoves(t) /\ (srv[t] \in {"none", "lost"} => calls[t] = 0)
    BY DEF Moves, RInv, NotLost, LInv, QInv, FreshIsUnused
  <2>6. /\ LedgerOf(t) = IF Consumed THEN "consumed" ELSE IF calls[t] > 0 THEN "released"
                         ELSE IF srv[t] = "none" THEN "free"
                         ELSE IF srv[t] = "lost" THEN "lost" ELSE "reserved"
        /\ LedgerOf(t)' = IF Consumed' THEN "consumed" ELSE IF calls'[t] > 0 THEN "released"
                         ELSE IF srv'[t] = "none" THEN "free"
                         ELSE IF srv'[t] = "lost" THEN "lost" ELSE "reserved"
    BY DEF LedgerOf
  <2> QED
    BY <2>1, <2>2, <2>3, <2>4, <2>5, <2>6 DEF TaskMoves, Ledger!Entry, Ledger!Successors
<1> QED
  BY <1>1 DEF Ledger!Next

\* A server that does not crash keeps the ledger: every platform task it
\* reserves is consumed by a success or released by a cancel, never both and
\* never taken back (claim_quota, settle_quota, refund_quota and the saves).
THEOREM LedgerKept == MaxCrash = 0 => (Spec => Ledger!Spec)
<1>1. MaxCrash = 0 /\ Init => RInv /\ Ledger!Init
  <2>1. Init => Ledger!Init
    BY DEF Init, QueueInit, Ledger!Init, LedgerOf, Blank
  <2> QED
    BY <2>1, RInvInit
<1>2. RInv /\ [Next]_vars => RInv' /\ Ledger!Next
  BY RInvStep, NextMoves, LedgerStep
<1> QED
  BY <1>1, <1>2, PTL DEF Spec, Ledger!Spec

-----------------------------------------------------------------------------
(* Open tasks are accounted for *)

\* An item whose block is claimed is active, or just being launched.
ClaimedActive(i) == item[i].quota = "claimed" => item[i].status \in Active \/ Claiming(i)

\* Item i has task t of the platform in its block.
Accounts(i, t) == item[i].task = t /\ item[i].quota \in {"claimed", "settled"}

\* The inductive invariant: executors select nothing, the user releases nothing.
OInv ==
  /\ LInv
  /\ ~SelfSelect /\ ~UserReleases
  /\ \A r \in Runs : chosen[r] = NoTask
  /\ crashes = 0 => \A i \in Items : ClaimedActive(i)
  /\ OpenTaskAccounted

\* A step may take a task off item i only by a cancel.
Keeps(i) ==
  \A t \in Tasks : Accounts(i, t) => Accounts(i, t)' \/ calls'[t] > 0

\* What such a step does.
AccountedStep ==
  /\ \A i \in Items : Keeps(i) /\ ClaimedActive(i)'
  /\ \A t \in Tasks : /\ calls'[t] >= calls[t]
                      /\ srv'[t] = "open" => srv[t] = "open" \/ \E i \in Items : Accounts(i, t)'
  /\ UNCHANGED <<chosen, crashes>>

\* Such a step, or one after a crash, keeps the invariant.
LEMMA AccountedKept ==
  ASSUME OInv, LInv', crashes' = 0 => AccountedStep, UNCHANGED chosen
  PROVE  OInv'
<1>1. calls \in [Tasks -> Nat] /\ crashes \in Nat /\ calls' \in [Tasks -> Nat] /\ crashes' \in Nat
  BY DEF OInv, LInv, QInv, Inv, QueueRestOK
<1>2. CASE crashes' = 0
  <2>1. \A t \in Tasks : srv'[t] = "open" /\ calls'[t] = 0 => \E i \in Items : Accounts(i, t)'
    <3> SUFFICES ASSUME NEW t \in Tasks, srv'[t] = "open", calls'[t] = 0
                 PROVE  \E i \in Items : Accounts(i, t)'
      OBVIOUS
    <3>1. CASE srv[t] = "open"
      <4>1. calls[t] = 0 /\ crashes = 0
        BY <1>1, <1>2 DEF AccountedStep
      <4>2. PICK i \in Items : Accounts(i, t)
        BY <3>1, <4>1 DEF OInv, OpenTaskAccounted, Accounts
      <4> QED
        BY <1>1, <1>2, <4>2 DEF AccountedStep, Keeps
    <3>2. CASE srv[t] # "open"
      BY <1>2, <3>2 DEF AccountedStep
    <3> QED
      BY <3>1, <3>2
  <2> QED
    BY <1>2, <2>1 DEF OInv, OpenTaskAccounted, AccountedStep, Accounts
<1>3. CASE crashes' # 0
  BY <1>3 DEF OInv, OpenTaskAccounted
<1> QED
  BY <1>2, <1>3

\* A step that touches no block and no task.
LEMMA SameBlocks ==
  ASSUME OInv, crashes = 0, UNCHANGED <<srv, calls, chosen, crashes>>,
         \A i \in Items : /\ item'[i].task = item[i].task /\ item'[i].quota = item[i].quota
                          /\ item[i].quota = "claimed" => item'[i].status \in Active \/ Claiming(i)'
  PROVE  AccountedStep
<1>1. calls \in [Tasks -> Nat]
  BY DEF OInv, LInv, QInv, Inv, QueueRestOK
<1> QED
  BY <1>1 DEF AccountedStep, Keeps, Accounts, ClaimedActive

\* Nothing happens to the items, and no claim is under way.
LEMMA SameItemsO ==
  ASSUME OInv, crashes = 0, UNCHANGED <<item, srv, calls, chosen, crashes>>, pc # "claimed" \/ UNCHANGED <<pc, cur>>
  PROVE  AccountedStep
BY SameBlocks DEF OInv, ClaimedActive, Claiming

\* A change of one item: its block is kept, or cancelled, or held nothing.
LEMMA OneChange ==
  ASSUME OInv, crashes = 0, NEW i \in Items, pc # "claimed",
         \A j \in Items \ {i} : item'[j] = item[j],
         UNCHANGED <<srv, calls>> \/ CancelTask(item[i]),
         item'[i].quota = "claimed" => item'[i].status \in Active,
         \/ item[i].quota \notin {"claimed", "settled"}
         \/ item'[i].quota \in {"claimed", "settled"} /\ item'[i].task = item[i].task
         \/ item[i].quota = "claimed" /\ CancelTask(item[i]),
         UNCHANGED <<chosen, crashes>>
  PROVE  AccountedStep
<1>1. /\ calls \in [Tasks -> Nat] /\ item[i].task \in Tasks \cup {NoTask}
      /\ srv \in [Tasks -> {"none", "open", "lost", "cancelled"}]
  BY RunOfItem DEF OInv, LInv, QInv, Inv, QueueRestOK, ItemRecord
<1>2. \A t \in Tasks : calls'[t] >= calls[t] /\ (srv'[t] = "open" => srv[t] = "open")
  BY <1>1 DEF CancelTask, platformVars
<1>3. ASSUME NEW t \in Tasks, Accounts(i, t) PROVE Accounts(i, t)' \/ calls'[t] > 0
  <2>1. CASE item'[i].quota \in {"claimed", "settled"} /\ item'[i].task = item[i].task
    BY <1>3, <2>1 DEF Accounts
  <2>2. CASE item[i].quota = "claimed" /\ CancelTask(item[i])
    <3>1. item[i].task = t /\ calls' = [calls EXCEPT ![t] = @ + 1]
      BY <1>3, <2>2 DEF Accounts, CancelTask, Unsettled, Tasks, NoTask
    <3> QED
      BY <1>1, <3>1
  <2> QED
    BY <1>3, <2>1, <2>2 DEF Accounts
<1>4. \A j \in Items : Keeps(j) /\ ClaimedActive(j)'
  BY <1>3 DEF Keeps, Accounts, ClaimedActive, OInv, Claiming
<1> QED
  BY <1>2, <1>4 DEF AccountedStep

\* The tick.
LEMMA TickO ==
  ASSUME OInv, crashes = 0, Tick
  PROVE  AccountedStep
<1>0. /\ LInv /\ QInv /\ Inv /\ item \in [Items -> FitRecord] /\ \A i \in Items : item[i] \in ItemRecord
      /\ srv \in [Tasks -> {"none", "open", "lost", "cancelled"}] /\ calls \in [Tasks -> Nat]
      /\ \A i \in Items : ClaimedActive(i)
  BY RunOfItem DEF OInv, LInv, QInv, Inv, QueueRestOK
<1>1. ASSUME NEW i \in Items, Sync(i) PROVE AccountedStep
  <2>1. Absorbed(i) = item[i]
    <3>1. item[i].run \in Runs \/ GetPlatform(i, item[i].run) = NoJob
      BY <1>0, RunOfItem DEF GetPlatform
    <3> QED
      BY <3>1 DEF Absorbed, OInv
  <2>2. /\ \A j \in Items \ {i} : item'[j] = item[j]
        /\ UNCHANGED <<crashes, chosen>>
        /\ UNCHANGED <<srv, calls>> \/ CancelTask(item[i])
        /\ pc = "sync"
    BY <1>0, <1>1, <2>1, SyncDerived DEF Sync, SyncTerminal, SyncUnstable, SyncWatched, SyncSettle, SyncFailed,
       SyncStalled, SyncEarlyExit, SyncRunning, SyncPending, SyncOrphaned, InFlight, Visiting, Visit
  <2>3. ASSUME NEW new, Put(i, new), new.quota = "claimed" => new.status \in Active,
               \/ item[i].quota \notin {"claimed", "settled"}
               \/ new.quota \in {"claimed", "settled"} /\ new.task = item[i].task
               \/ item[i].quota = "claimed" /\ CancelTask(item[i])
        PROVE  AccountedStep
    <3>1. item'[i] = new
      BY <1>0, <2>3 DEF Put
    <3> QED
      BY <2>2, <2>3, <3>1, OneChange
  <2>4. /\ item[i].quota = "claimed" => item[i].status \in Active
        /\ item[i].status \notin Terminal => item[i].quota # "settled"
    BY <1>0, <2>2 DEF ClaimedActive, Claiming, LInv, Lawful, Terminal
  <2>5. CASE SyncTerminal(i)
    BY <1>0, <2>3, <2>4, <2>5 DEF SyncTerminal, ItemRecord, Active, Terminal
  <2>6. CASE SyncUnstable(i) \/ SyncPending(i)
    BY <2>1, <2>3, <2>4, <2>6 DEF SyncUnstable, SyncPending, InFlight, Visiting, Active, Terminal
  <2>7. CASE SyncWatched(i) \/ SyncOrphaned(i)
    <3>1. PICK s \in {"triggered", "orphaned"}, h \in BOOLEAN : Put(i, [item[i] EXCEPT !.status = s, !.held = h])
      BY <2>1, <2>7 DEF SyncWatched, SyncOrphaned
    <3> DEFINE new == [item[i] EXCEPT !.status = s, !.held = h]
    <3>2. new.status = s /\ new.quota = item[i].quota /\ new.task = item[i].task
      BY <1>0 DEF ItemRecord
    <3> HIDE DEF new
    <3> QED
      BY <2>3, <2>4, <3>1, <3>2 DEF Active, new
  <2>8. CASE SyncRunning(i)
    <3> DEFINE up == IF item[i].status \in {"pending", "launching"}
                     THEN [item[i] EXCEPT !.status = "running"] ELSE item[i]
               new == IF Submitted(i) THEN [up EXCEPT !.status = "triggered", !.held = TRUE] ELSE up
    <3>1. /\ up.quota = item[i].quota /\ up.task = item[i].task /\ (up.quota = "claimed" => up.status \in Active)
          /\ up \in ItemRecord
      BY <1>0, <2>4 DEF ItemRecord, Active, Status
    <3>2. new.quota = item[i].quota /\ new.task = item[i].task /\ (new.quota = "claimed" => new.status \in Active)
      <4> HIDE DEF up
      <4> QED BY <3>1 DEF ItemRecord, Active
    <3>3. Put(i, new)
      BY <2>1, <2>8 DEF SyncRunning
    <3> HIDE DEF new
    <3> QED
      BY <2>3, <3>2, <3>3
  <2>9. CASE SyncSettle(i)
    <3> DEFINE new == Ended(Settled(item[i]), "done")
    <3>1. Put(i, new) /\ item[i].status \notin Terminal
      BY <2>1, <2>9 DEF SyncSettle, Visiting, Active, Terminal
    <3>2. /\ new.task = item[i].task
          /\ item[i].quota = "claimed" => new.quota = "settled"
          /\ new.quota # "claimed"
      BY <1>0 DEF Ended, Settled, Unsettled, ItemRecord
    <3> HIDE DEF new
    <3> QED
      BY <2>3, <2>4, <3>1, <3>2
  <2>10. CASE SyncFailed(i)
    <3> DEFINE new == Ended(Refunded(item[i]), "failed")
    <3>1. Put(i, new) /\ CancelTask(item[i]) /\ item[i].status \notin Terminal
      BY <2>1, <2>10 DEF SyncFailed, Visiting, Active, Terminal
    <3>2. new.quota # "claimed"
      BY <1>0 DEF Ended, Refunded, Unsettled, ItemRecord
    <3> HIDE DEF new
    <3> QED
      BY <2>3, <2>4, <3>1, <3>2
  <2>11. CASE SyncStalled(i) \/ SyncEarlyExit(i)
    <3> DEFINE new == Requeued(item[i], item[i].retries + 1, item[i].released)
    <3>1. Put(i, new) /\ CancelTask(item[i]) /\ item[i].status \notin Terminal
      BY <2>1, <2>11 DEF SyncStalled, SyncEarlyExit, RetryStalled, InFlight, Visiting, Active, Terminal
    <3>2. new.quota # "claimed"
      BY DEF Requeued, Blank
    <3> HIDE DEF new
    <3> QED
      BY <2>3, <2>4, <3>1, <3>2
  <2> QED
    BY <1>1, <2>5, <2>6, <2>7, <2>8, <2>9, <2>10, <2>11 DEF Sync
<1>2. ASSUME NEW stale \in SUBSET Items, TickBegin(stale) PROVE AccountedStep
  BY <1>2, SameItemsO DEF TickBegin, outsideVars, platformVars
<1>3. ASSUME NEW stopped \in SUBSET Items, SyncDone(stopped) PROVE AccountedStep
  <2>1. /\ UNCHANGED <<srv, calls, chosen, crashes>> /\ pc = "sync"
        /\ \A i \in Items : /\ item'[i] = IF i \in stopped THEN Ended(item[i], "skipped") ELSE item[i]
                            /\ i \in stopped => item[i].status = "pending"
    BY <1>3 DEF SyncDone, Store, outsideVars, platformVars, runVars
  <2>2. ASSUME NEW i \in Items
        PROVE  /\ item'[i].task = item[i].task /\ item'[i].quota = item[i].quota
               /\ item[i].quota = "claimed" => item'[i].status \in Active
    BY <1>0, <2>1 DEF Ended, ItemRecord, ClaimedActive, Claiming, Active
  <2> QED
    BY <2>1, <2>2, SameBlocks
<1>4. CASE TickEnd \/ SaveRefused
  BY <1>4, SameItemsO DEF TickEnd, SaveRefused, outsideVars, platformVars, runVars
<1>5. ASSUME NEW i \in Items, NEW t \in Tasks \cup {NoTask}, Claim(i, t), item[i].quota = "pending",
             \A u \in Tasks : srv'[u] = "open" => srv[u] = "open" \/ u = t
      PROVE  AccountedStep
  <2>1. /\ item'[i].task = t /\ item'[i].quota = "claimed" /\ \A j \in Items \ {i} : item'[j] = item[j]
        /\ UNCHANGED <<calls, crashes, chosen>> /\ pc = "gate" /\ pc' = "claimed" /\ cur' = i
    BY <1>0, <1>5 DEF Claim, Put, ItemRecord, runVars
  <2>2. \A j \in Items : Keeps(j) /\ ClaimedActive(j)'
    BY <1>0, <1>5, <2>1 DEF Keeps, Accounts, ClaimedActive, Claiming
  <2>3. \A u \in Tasks : calls'[u] >= calls[u]
    BY <1>0, <2>1
  <2>4. \A u \in Tasks : srv'[u] = "open" => srv[u] = "open" \/ \E j \in Items : Accounts(j, u)'
    BY <1>5, <2>1 DEF Accounts
  <2> QED
    BY <2>1, <2>2, <2>3, <2>4 DEF AccountedStep
<1>6. ASSUME NEW i \in Items, NEW t \in Tasks, ClaimOnPlatform(i, t) \/ ClaimLost(i, t) PROVE AccountedStep
  <2>1. /\ item[i].quota = "pending"
        /\ \/ Claim(i, t) /\ srv' = [srv EXCEPT ![t] = "open"]
           \/ Claim(i, NoTask) /\ srv' = [srv EXCEPT ![t] = "lost"]
    BY <1>6 DEF ClaimOnPlatform, ClaimLost
  <2> QED
    BY <1>0, <1>5, <2>1
<1>7. ASSUME NEW i \in Items, ClaimLocally(i) PROVE AccountedStep
  <2>1. item[i].quota = "pending"
    BY <1>0, <1>7 DEF ClaimLocally, Claim, LInv, Claiming, Lawful
  <2> QED
    BY <1>5, <1>7, <2>1 DEF ClaimLocally
<1>8. ASSUME NEW r \in Runs, SaveLaunching(r) PROVE AccountedStep
  <2>1. /\ item' = [item EXCEPT ![cur].status = "launching", ![cur].held = TRUE, ![cur].run = r]
        /\ UNCHANGED <<srv, calls, chosen, crashes>> /\ cur \in Items /\ pc = "claimed"
    BY <1>0, <1>8 DEF SaveLaunching, Store, Inv, Launching, outsideVars, platformVars, runVars
  <2>2. /\ item'[cur].status = "launching" /\ item'[cur].quota = item[cur].quota
        /\ item'[cur].task = item[cur].task /\ \A j \in Items \ {cur} : item'[j] = item[j]
    BY <1>0, <2>1 DEF ItemRecord, FitRecord
  <2>3. \A i \in Items : /\ item'[i].task = item[i].task /\ item'[i].quota = item[i].quota
                         /\ item[i].quota = "claimed" => item'[i].status \in Active
    BY <1>0, <2>1, <2>2 DEF ClaimedActive, Claiming, Active
  <2> QED
    BY <2>1, <2>3, SameBlocks
<1>9. ASSUME NEW closed \in SUBSET Runs, StartWorker(closed) PROVE AccountedStep
  BY <1>9, SameItemsO DEF StartWorker, CloseStale, outsideVars, platformVars
<1>10. ASSUME NEW closed \in SUBSET Runs, StartFails(closed) PROVE AccountedStep
  <2> DEFINE new == Ended(Refunded(item[cur]), "failed")
  <2>1. /\ cur \in Items /\ CancelTask(item[cur]) /\ Put(cur, new) /\ pc = "saved"
        /\ item[cur].status = "launching" /\ UNCHANGED <<crashes, chosen>>
    BY <1>0, <1>10 DEF StartFails, CloseStale, Inv, Launching
  <2>2. item[cur].quota # "settled" /\ new.quota # "claimed"
    BY <1>0, <2>1 DEF LInv, Claiming, Lawful, Ended, Refunded, Unsettled, ItemRecord
  <2>3. item'[cur] = new /\ \A j \in Items \ {cur} : item'[j] = item[j]
    BY <1>0, <2>1 DEF Put
  <2> HIDE DEF new
  <2> QED
    BY <2>1, <2>2, <2>3, OneChange
<1>11. CASE SaveRunning
  <2>1. /\ item' = [item EXCEPT ![cur].status = "running"] /\ cur \in Items /\ pc = "spawned"
        /\ UNCHANGED <<srv, calls, chosen, crashes>>
    BY <1>0, <1>11 DEF SaveRunning, Store, Inv, Launching, outsideVars, platformVars, runVars
  <2>2. \A i \in Items : /\ item'[i].task = item[i].task /\ item'[i].quota = item[i].quota
                         /\ item[i].quota = "claimed" => item'[i].status \in Active
    BY <1>0, <2>1 DEF ClaimedActive, Claiming, Active, FitRecord, ItemRecord
  <2> QED
    BY <2>1, <2>2, SameBlocks
<1> QED
  BY <1>1, <1>2, <1>3, <1>4, <1>6, <1>7, <1>8, <1>9, <1>10, <1>11 DEF Tick, Launch

\* The handlers of the pages and of the reconcile loop.
LEMMA HandlerO ==
  ASSUME OInv, crashes = 0, NEW i \in Items, UserStep(i) \/ ReconcileStep(i)
  PROVE  AccountedStep
<1>0. /\ Inv /\ item \in [Items -> FitRecord] /\ item[i] \in ItemRecord /\ pc = "idle"
      /\ Lawful(item[i]) /\ (item[i].quota = "claimed" => item[i].status \in Active)
  BY RunOfItem DEF OInv, LInv, QInv, Inv, Claiming, ClaimedActive, UserStep, AddPlatform, FailItem, Remove,
     Retry, Release, Edit, Handler, ReconcileStep, ReleaseStuckOrphan, ForceSettle, OutageRequeue,
     GuardStop, Reconcile
<1>1. ASSUME NEW new, Edit([item EXCEPT ![i] = new]), new.quota # "claimed",
             item[i].status \notin Active \cup {"done"}
      PROVE  AccountedStep
  <2>1. item'[i] = new /\ (\A j \in Items \ {i} : item'[j] = item[j])
        /\ UNCHANGED <<srv, calls, chosen, crashes>>
    BY <1>0, <1>1 DEF Edit, Store, outsideVars, platformVars, runVars
  <2>2. item[i].quota \notin {"claimed", "settled"}
    BY <1>0, <1>1 DEF Lawful
  <2> QED
    BY <1>0, <1>1, <2>1, <2>2, OneChange
<1>2. CASE AddPlatform(i) \/ Remove(i) \/ Retry(i)
  BY <1>1, <1>2 DEF AddPlatform, Remove, Retry, Blank, Requeued, InQueue, Active
<1>3. CASE FailItem(i)
  <2>1. Ended(item[i], "failed").quota # "claimed"
    BY <1>0, <1>3 DEF FailItem, Ended, ItemRecord, Lawful
  <2> QED
    BY <1>1, <1>3, <2>1 DEF FailItem, Active
<1>4. ASSUME NEW new, Reconcile(i, new), new.quota # "claimed",
             item[i].quota # "settled", UNCHANGED chosen
      PROVE  AccountedStep
  <2>1. /\ CancelTask(item[i]) /\ item'[i] = new /\ \A j \in Items \ {i} : item'[j] = item[j]
        /\ UNCHANGED <<crashes, chosen>>
    BY <1>0, <1>4 DEF Reconcile, Put
  <2> QED
    BY <1>0, <1>4, <2>1, OneChange
<1>5. ASSUME NEW s PROVE Refunded(item[i]).quota # "claimed" /\ Ended(Refunded(item[i]), s).quota # "claimed"
  BY <1>0 DEF Ended, Refunded, Unsettled, ItemRecord
<1>6. CASE ReleaseStuckOrphan(i)
  <2>1. [Ended(Refunded(item[i]), "skipped") EXCEPT !.released = "auto"].quota # "claimed"
    BY <1>0 DEF Ended, Refunded, Unsettled, ItemRecord
  <2> QED
    BY <1>0, <1>4, <1>6, <2>1 DEF ReleaseStuckOrphan, Lawful, Reconcile
<1>7. CASE ForceSettle(i)
  BY <1>4, <1>5, <1>7 DEF ForceSettle, Reconcile
<1>8. CASE OutageRequeue(i)
  BY <1>0, <1>4, <1>8 DEF OutageRequeue, Requeued, Blank, Lawful, Reconcile
<1>9. CASE GuardStop(i)
  BY <1>0, <1>4, <1>5, <1>9 DEF GuardStop, Lawful, Active, Reconcile
<1> QED
  BY <1>2, <1>3, <1>6, <1>7, <1>8, <1>9 DEF UserStep, ReconcileStep, OInv

\* Every step.
LEMMA OInvStep == OInv /\ [Next]_vars => OInv'
<1> SUFFICES ASSUME OInv, [Next]_vars PROVE OInv'
  OBVIOUS
<1>1. LInv' /\ crashes \in Nat /\ crashes' \in Nat
  BY LInvStep DEF OInv, LInv, QInv, Inv, QueueRestOK
<1>2. CASE UNCHANGED vars
  BY <1>1, <1>2, SameItemsO, AccountedKept DEF vars, runVars, queueVars, outsideVars, platformVars
<1>3. ASSUME NEW r \in Runs, RunStep(r) PROVE OInv'
  <2>1. UNCHANGED <<item, pc, cur, srv, calls, chosen, crashes>>
    BY <1>3 DEF RunStep, WorkerFailsEarly, DeliverPrompt, ReportSubmitted, ReportComplete, ReportFailure,
       SessionEnds, SessionWrites, ExecutorSelects, OInv, Outside, queueVars, outsideVars, platformVars, runVars
  <2> QED
    BY <1>1, <2>1, SameItemsO, AccountedKept
<1>4. CASE Tick
  <2>1. UNCHANGED <<chosen, crashes>>
    BY <1>4, SyncDerived DEF Tick, TickBegin, SyncDone, TickEnd, Launch, ClaimOnPlatform, ClaimLost, ClaimLocally,
       Claim, SaveLaunching, StartWorker, StartFails, CloseStale, SaveRefused, SaveRunning, runVars, outsideVars,
       OInv, LInv, QInv
  <2> QED
    BY <1>1, <1>4, <2>1, TickO, AccountedKept
<1>5. ASSUME NEW i \in Items, UserStep(i) \/ ReconcileStep(i) PROVE OInv'
  <2>1. UNCHANGED <<chosen, crashes>>
    BY <1>5 DEF UserStep, AddPlatform, FailItem, Remove, Retry, Release, Edit, ReconcileStep, ReleaseStuckOrphan,
       ForceSettle, OutageRequeue, GuardStop, Reconcile, runVars, outsideVars
  <2> QED
    BY <1>1, <1>5, <2>1, HandlerO, AccountedKept
<1>6. CASE ClearFinished
  <2>1. /\ \A i \in Items : item'[i] = IF item[i].status \in {"failed", "skipped"} /\ ~item[i].held
                                       THEN Blank("removed") ELSE item[i]
        /\ UNCHANGED <<srv, calls, chosen, crashes>> /\ pc = "idle"
    BY <1>6 DEF ClearFinished, Edit, Handler, Store, outsideVars, platformVars, runVars
  <2>2. ASSUME crashes = 0 PROVE AccountedStep
    <3>1. \A i \in Items : /\ Lawful(item[i]) /\ (item[i].quota = "claimed" => item[i].status \in Active)
      BY <2>1, <2>2 DEF OInv, LInv, Claiming, ClaimedActive
    <3>2. ASSUME NEW i \in Items PROVE Keeps(i) /\ ClaimedActive(i)'
      BY <2>1, <3>1 DEF Keeps, Accounts, ClaimedActive, Blank, Lawful, Active
    <3>3. calls \in [Tasks -> Nat]
      BY DEF OInv, LInv, QInv, Inv, QueueRestOK
    <3> QED
      BY <2>1, <3>2, <3>3 DEF AccountedStep
  <2> QED
    BY <1>1, <2>1, <2>2, AccountedKept
<1>7. CASE Save \/ Restart
  BY <1>1, <1>7, SameItemsO, AccountedKept DEF Save, Restart, outsideVars, platformVars, runVars
<1>8. CASE Crash \/ CrashInStart
  BY <1>1, <1>8, AccountedKept DEF Crash, CrashInStart, Die
<1> QED
  BY <1>2, <1>3, <1>4, <1>5, <1>6, <1>7, <1>8 DEF Next

\* At first no task exists.
LEMMA OInvInit == ~SelfSelect /\ ~UserReleases /\ Init => OInv
<1> SUFFICES ASSUME ~SelfSelect, ~UserReleases, Init PROVE OInv
  OBVIOUS
<1> QED
  BY LInvInit DEF Init, RunInit, QueueInit, OInv, ClaimedActive, OpenTaskAccounted, Blank

\* When executors select nothing and the user releases nothing, a task that is
\* open on the platform and was never cancelled is on some item, until a crash:
\* no retry, requeue, failure, stop or settlement drops a reserved task.
THEOREM OpenAccounted ==
  ~SelfSelect /\ ~UserReleases => (Spec => []OpenTaskAccounted)
<1>1. OInv => OpenTaskAccounted
  BY DEF OInv
<1> QED
  BY <1>1, OInvInit, OInvStep, PTL DEF Spec

-----------------------------------------------------------------------------
(* Executors and their records *)

\* What every step but the start of an executor, a _wait thread and a restart
\* does: no record changes its run or its owner, no executor starts, and when
\* SIGTERM always arrives a record leaves "running" only with its executor.
Calm ==
  /\ \A i \in Items :
       /\ job'[i].run = job[i].run
       /\ ~KillMayFail /\ job[i].status = "running" /\ job'[i].status # "running"
            => \A r \in Runs : job[i].run = r => worker'[r] # "alive"
  /\ \A r \in Runs : /\ worker'[r] = "alive" => worker[r] = "alive"
                     /\ waiter'[r] => waiter[r]

\* get_platform finalizes the record of an executor that is gone, and nothing
\* else.
LEMMA GetCalm ==
  ASSUME Inv, NEW i \in Items, NEW r \in Runs \cup {NoRun}, job' = JobsAfterGet(i, r),
         UNCHANGED <<worker, waiter>>
  PROVE  Calm
<1>1. job \in [Items -> JobRecord] /\ job[i] \in JobRecord
  BY DEF Inv, JobTypeOK, JobRecord
<1>2. \/ job' = job
      \/ /\ job[i].run = r /\ r \in Runs /\ ~Alive(r)
         /\ job' = [job EXCEPT ![i] = [job[i] EXCEPT !.status = FinalStatus(r)]]
  BY <1>1 DEF JobsAfterGet, GetPlatform, NoRun, NoJob, JobRecord
<1> QED
  BY <1>1, <1>2 DEF Calm, JobRecord, Alive

\* No record and no executor changes.
LEMMA SameCalm == ASSUME UNCHANGED <<job, worker, waiter>> PROVE Calm
BY DEF Calm

\* The tick, but for the start of an executor.
LEMMA TickCalm ==
  ASSUME Inv, Tick, \A closed \in SUBSET Runs : ~StartWorker(closed)
  PROVE  Calm
<1>0. job \in [Items -> JobRecord] /\ worker \in [Runs -> WorkerStates]
  BY DEF Inv, JobTypeOK, JobRecord, RunTypeOK
<1>1. ASSUME NEW i \in Items, Sync(i) PROVE Calm
  <2>1. item[i].run \in Runs \cup {NoRun}
    BY RunOfItem
  <2>2. CASE RetryStalled(i)
    <3>1. StopForRetry(i, item[i].run) /\ UNCHANGED waiter
      BY <2>2 DEF RetryStalled
    <3> DEFINE r == item[i].run
    <3>2. CASE r = NoRun \/ job[i].run # r
      BY <3>1, <3>2, SameCalm DEF StopForRetry
    <3>3. CASE r # NoRun /\ job[i].run = r
      <4>1. /\ job' = [job EXCEPT ![i].status = "failed"]
            /\ \A q \in Runs : worker'[q] = "alive" => worker[q] = "alive"
        BY <3>1, <3>3 DEF StopForRetry, Terminated
      <4>2. job[i] \in JobRecord /\ r \in Runs
        BY <1>0, <2>1, <3>3
      <4>3. ~KillMayFail /\ job[i].status = "running" => worker'[r] # "alive"
        <5>1. CASE ~Alive(r)
          BY <4>1, <4>2, <5>1 DEF Alive
        <5>2. CASE Alive(r) /\ ~KillMayFail /\ job[i].status = "running"
          <6>1. GetPlatform(i, r).status = "running"
            BY <3>3, <5>2 DEF GetPlatform
          <6>2. worker' = Terminated({r})
            BY <3>1, <3>3, <5>2, <6>1 DEF StopForRetry, KillOutcomes
          <6> QED
            BY <4>2, <6>2 DEF Terminated
        <5> QED
          BY <5>1, <5>2
      <4>4. \A j \in Items : job'[j].run = job[j].run /\ (j # i => job'[j] = job[j])
        BY <1>0, <4>1, <4>2 DEF JobRecord
      <4> QED
        BY <3>1, <3>3, <4>1, <4>2, <4>3, <4>4 DEF Calm
    <3> QED
      BY <3>2, <3>3
  <2>3. CASE ~RetryStalled(i)
    <3>1. UNCHANGED <<worker, waiter>> /\ (job' = job \/ job' = JobsAfterGet(i, item[i].run))
      BY <1>1, <2>3 DEF Sync, SyncTerminal, SyncUnstable, SyncWatched, SyncSettle, SyncFailed, SyncStalled,
         SyncEarlyExit, SyncRunning, SyncPending, SyncOrphaned, Quietly, runVars, jobVars
    <3> QED
      BY <2>1, <3>1, GetCalm, SameCalm
  <2> QED
    BY <2>2, <2>3
<1>2. ASSUME NEW stale \in SUBSET Items, TickBegin(stale) PROVE Calm
  <2>1. PICK hit \in KillOutcomes({job[i].run : i \in stale}) : worker' = Terminated(hit)
    BY <1>2 DEF TickBegin, ReapJobs
  <2>2. /\ UNCHANGED waiter
        /\ job' = [i \in Items |-> IF i \in stale THEN [job[i] EXCEPT !.status = "failed"]
                                   ELSE GetPlatform(i, job[i].run)]
    BY <1>2 DEF TickBegin, ReapJobs
  <2>3. \A r \in Runs : worker'[r] = "alive" => worker[r] = "alive"
    BY <2>1 DEF Terminated
  <2>4. ASSUME NEW i \in Items
        PROVE  /\ job'[i].run = job[i].run
               /\ ~KillMayFail /\ job[i].status = "running" /\ job'[i].status # "running"
                    => \A r \in Runs : job[i].run = r => worker'[r] # "alive"
    <3>1. job[i] \in JobRecord
      BY <1>0
    <3>2. CASE i \in stale
      <4>1. job'[i].run = job[i].run
        BY <2>2, <3>1, <3>2 DEF JobRecord
      <4>2. ~KillMayFail => \A r \in Runs : job[i].run = r => worker'[r] # "alive"
        BY <2>1, <3>2 DEF KillOutcomes, Terminated
      <4> QED
        BY <4>1, <4>2
    <3>3. CASE i \notin stale
      <4>1. job'[i] = GetPlatform(i, job[i].run)
        BY <2>2, <3>3
      <4>2. CASE job[i].run = NoRun
        BY <4>1, <4>2 DEF GetPlatform, NoJob, NoRun, Runs
      <4>3. CASE job[i].run # NoRun
        BY <2>3, <3>1, <4>1, <4>3 DEF GetPlatform, JobRecord, Alive
      <4> QED
        BY <4>2, <4>3
    <3> QED
      BY <3>2, <3>3
  <2> QED
    BY <2>2, <2>3, <2>4 DEF Calm
<1>3. ASSUME NEW stopped \in SUBSET Items, SyncDone(stopped) PROVE Calm
  BY <1>3, SameCalm DEF SyncDone, runVars, jobVars
<1>4. ASSUME Launch PROVE Calm
  BY <1>4, SameCalm DEF Launch, ClaimOnPlatform, ClaimLost, ClaimLocally, Claim, SaveLaunching, StartFails,
     SaveRefused, SaveRunning, runVars, jobVars
<1>5. CASE TickEnd
  BY <1>5, SameCalm DEF TickEnd, runVars, jobVars
<1> QED
  BY <1>1, <1>2, <1>3, <1>4, <1>5 DEF Tick

\* The other handlers.
LEMMA HandlerCalm ==
  ASSUME Inv, NEW i \in Items, UserStep(i) \/ ReconcileStep(i)
  PROVE  Calm
<1>1. UNCHANGED <<worker, waiter>> /\ (job' = job \/ job' = JobsAfterGet(i, item[i].run))
  BY DEF UserStep, AddPlatform, FailItem, Remove, Retry, Release, Edit, ReconcileStep, ReleaseStuckOrphan,
     ForceSettle, OutageRequeue, GuardStop, Reconcile, runVars, jobVars
<1>2. item[i].run \in Runs \cup {NoRun}
  BY RunOfItem
<1> QED
  BY <1>1, <1>2, GetCalm, SameCalm

\* The executors themselves.
LEMMA RunCalm ==
  ASSUME Inv, NEW r \in Runs, RunStep(r), ~WaitReturns(r)
  PROVE  Calm /\ UNCHANGED <<job, waiter>>
<1>1. worker \in [Runs -> WorkerStates] /\ UNCHANGED <<job, waiter>>
  BY DEF Inv, RunTypeOK, RunStep, Outside, ExecutorSelects, jobVars
<1>2. \A q \in Runs : worker'[q] = "alive" => worker[q] = "alive"
  BY <1>1 DEF RunStep, WorkerFailsEarly, DeliverPrompt, ReportSubmitted, ReportComplete, ReportFailure,
     SessionEnds, SessionWrites, ExecutorSelects
<1> QED
  BY <1>1, <1>2 DEF Calm

-----------------------------------------------------------------------------
(* A task that has started is not retried *)

\* The record of an active item is that of its run.
OnRecord(i) == item[i].run \in Runs /\ job[i].run = item[i].run

\* The inductive invariant: between its save and its start the new run is not
\* on record yet.
TInv ==
  /\ QInv /\ MaxCrash = 0 /\ crashes = 0
  /\ \A i \in Items : item[i].status \in Active => OnRecord(i) \/ (pc = "saved" /\ i = cur)
  /\ pc = "saved" => item[cur].run \in Runs

\* Nothing becomes active that is not on record.
LEMMA ActiveKept ==
  ASSUME TInv, QInv', pc # "saved", pc' # "saved", \A i \in Items : job'[i].run = job[i].run, crashes' = crashes,
         \A i \in Items : item'[i].status \in Active =>
           item'[i].run = item[i].run /\ (item[i].status \in Active \/ OnRecord(i))
  PROVE  TInv'
BY DEF TInv, OnRecord

\* TInv is inductive.
LEMMA TInvStep == TInv /\ [Next]_vars => TInv'
<1> SUFFICES ASSUME TInv, [Next]_vars PROVE TInv'
  OBVIOUS
<1>0. /\ QInv /\ QInv' /\ Inv /\ item \in [Items -> FitRecord] /\ job \in [Items -> JobRecord]
      /\ \A i \in Items : item[i] \in ItemRecord
  BY QInvStep, RunOfItem DEF TInv, QInv, Inv, JobTypeOK, JobRecord
<1>1. ASSUME UNCHANGED <<item, crashes>>, \A i \in Items : job'[i].run = job[i].run,
             (pc # "saved" /\ pc' # "saved") \/ UNCHANGED <<pc, cur>>
      PROVE  TInv'
  BY <1>0, <1>1 DEF TInv, OnRecord
<1>2. CASE UNCHANGED vars
  BY <1>1, <1>2 DEF vars, jobVars, queueVars, outsideVars
<1>3. ASSUME NEW r \in Runs, RunStep(r) PROVE TInv'
  <2>1. UNCHANGED <<item, crashes, pc, cur>>
    BY <1>3 DEF RunStep, Outside, ExecutorSelects, queueVars, outsideVars
  <2>2. \A i \in Items : job'[i].run = job[i].run
    <3>1. CASE WaitReturns(r)
      <4>1. job' = [job EXCEPT ![owner[r]].status = FinalStatus(r)]
        BY <3>1 DEF WaitReturns
      <4> QED
        BY <1>0, <4>1 DEF JobRecord
    <3> QED
      BY <1>0, <1>3, <3>1, RunCalm DEF Calm
  <2> QED
    BY <1>1, <2>1, <2>2
<1>4. ASSUME NEW i \in Items, Sync(i) PROVE TInv'
  <2>1. Calm
    BY <1>0, <1>4, TickCalm DEF Tick, Sync, SyncTerminal, SyncUnstable, SyncWatched, SyncSettle, SyncFailed,
       SyncStalled, SyncEarlyExit, SyncRunning, SyncPending, SyncOrphaned, InFlight, Visiting, Visit, StartWorker
  <2>2. /\ \A j \in Items \ {i} : item'[j] = item[j]
        /\ UNCHANGED <<crashes, pc>> /\ pc = "sync"
    BY <1>0, <1>4, SyncDerived DEF Sync, SyncTerminal, SyncUnstable, SyncWatched, SyncSettle, SyncFailed,
       SyncStalled, SyncEarlyExit, SyncRunning, SyncPending, SyncOrphaned, InFlight, Visiting, Visit
  <2>3. Seen(i) # NoJob => OnRecord(i)
    BY <1>0 DEF Seen, GetPlatform, OnRecord, ItemRecord
  <2>4. /\ Absorbed(i) \in ItemRecord /\ Absorbed(i).run = item[i].run
        /\ Absorbed(i).status = item[i].status /\ Absorbed(i).held = item[i].held
    BY <1>0, AbsorbedFits DEF FitRecord
  <2>5. ASSUME NEW new, Put(i, new),
               new.status \in Active => new.run = item[i].run /\ (item[i].status \in Active \/ OnRecord(i))
        PROVE  TInv'
    <3>1. item'[i] = new
      BY <1>0, <2>5 DEF Put
    <3> QED
      BY <1>0, <2>1, <2>2, <2>5, <3>1, ActiveKept DEF Calm
  <2>6. CASE SyncTerminal(i)
    BY <1>0, <2>5, <2>6 DEF SyncTerminal, ItemRecord, Active, Terminal
  <2>7. CASE SyncUnstable(i) \/ SyncPending(i)
    BY <2>4, <2>5, <2>7 DEF SyncUnstable, SyncPending
  <2>8. CASE SyncWatched(i)
    <3>1. [Absorbed(i) EXCEPT !.status = "triggered", !.held = TRUE].run = item[i].run
      BY <2>4 DEF ItemRecord
    <3>2. OnRecord(i)
      BY <2>3, <2>8 DEF SyncWatched, WorkerAlive, NoJob
    <3> QED
      BY <2>5, <2>8, <3>1, <3>2 DEF SyncWatched
  <2>9. CASE SyncOrphaned(i)
    <3>1. PICK s : Put(i, [Absorbed(i) EXCEPT !.status = s, !.held = TRUE])
      BY <2>9 DEF SyncOrphaned
    <3> DEFINE new == [Absorbed(i) EXCEPT !.status = s, !.held = TRUE]
    <3>2. item[i].status \in Active \/ OnRecord(i)
      BY <1>0, <2>3, <2>9 DEF SyncOrphaned, Submitted, FitRecord
    <3>3. new.run = item[i].run /\ Put(i, new)
      BY <2>4, <3>1 DEF ItemRecord
    <3> HIDE DEF new
    <3> QED
      BY <2>5, <3>2, <3>3
  <2>10. CASE SyncRunning(i)
    <3> DEFINE up == IF Absorbed(i).status \in {"pending", "launching"}
                     THEN [Absorbed(i) EXCEPT !.status = "running"] ELSE Absorbed(i)
               new == IF Submitted(i) THEN [up EXCEPT !.status = "triggered", !.held = TRUE] ELSE up
    <3>1. up.run = item[i].run /\ up \in ItemRecord
      BY <2>4 DEF ItemRecord, Status, Active
    <3>2. new.run = item[i].run
      <4> HIDE DEF up
      <4> QED BY <3>1 DEF ItemRecord
    <3>3. Put(i, new) /\ OnRecord(i)
      BY <2>3, <2>10 DEF SyncRunning, WorkerAlive, NoJob
    <3> HIDE DEF new
    <3> QED
      BY <2>5, <3>2, <3>3
  <2>11. CASE SyncSettle(i) \/ SyncFailed(i)
    <3>1. Settled(Absorbed(i)) \in ItemRecord /\ Refunded(Absorbed(i)) \in ItemRecord
      BY <2>4 DEF Settled, Refunded, ItemRecord, QuotaState
    <3>2. /\ Ended(Settled(Absorbed(i)), "done").status = "done"
          /\ Ended(Refunded(Absorbed(i)), "failed").status = "failed"
      BY <3>1 DEF Ended, ItemRecord
    <3> QED
      BY <2>5, <2>11, <3>2 DEF SyncSettle, SyncFailed, Active
  <2>12. CASE SyncStalled(i) \/ SyncEarlyExit(i)
    <3>1. Requeued(item[i], item[i].retries + 1, item[i].released).status = "pending"
      BY DEF Requeued, Blank
    <3> QED
      BY <2>5, <2>12, <3>1 DEF SyncStalled, SyncEarlyExit, RetryStalled, Active
  <2> QED
    BY <1>4, <2>6, <2>7, <2>8, <2>9, <2>10, <2>11, <2>12 DEF Sync
<1>5. ASSUME NEW stale \in SUBSET Items, TickBegin(stale) PROVE TInv'
  <2>1. Calm
    BY <1>0, <1>5, TickCalm DEF Tick, TickBegin, StartWorker
  <2> QED
    BY <1>1, <1>5, <2>1 DEF TickBegin, outsideVars, Calm
<1>6. ASSUME NEW stopped \in SUBSET Items, SyncDone(stopped) PROVE TInv'
  <2>1. /\ UNCHANGED <<job, crashes>> /\ pc = "sync" /\ pc' = "gate"
        /\ \A i \in Items : item'[i] = IF i \in stopped THEN Ended(item[i], "skipped") ELSE item[i]
    BY <1>6 DEF SyncDone, Store, outsideVars, jobVars
  <2>2. \A i \in Items : Ended(item[i], "skipped").status \notin Active
    BY <1>0 DEF Ended, ItemRecord, Active
  <2> QED
    BY <1>0, <2>1, <2>2, ActiveKept
<1>7. CASE TickEnd \/ SaveRefused \/ Save
  BY <1>1, <1>7 DEF TickEnd, SaveRefused, Save, outsideVars, jobVars
<1>8. ASSUME NEW i \in Items, NEW t \in Tasks \cup {NoTask}, Claim(i, t) PROVE TInv'
  <2>1. /\ item'[i].status = "pending" /\ \A j \in Items \ {i} : item'[j] = item[j]
        /\ UNCHANGED <<job, crashes>> /\ pc = "gate" /\ pc' = "claimed"
    BY <1>0, <1>8 DEF Claim, Put, ItemRecord, jobVars
  <2> QED
    BY <1>0, <2>1, ActiveKept DEF Active
<1>9. ASSUME NEW r \in Runs, SaveLaunching(r) PROVE TInv'
  <2>1. /\ cur \in Items /\ \A j \in Items \ {cur} : item'[j] = item[j]
        /\ UNCHANGED <<job, crashes, cur>> /\ pc = "claimed" /\ pc' = "saved" /\ item'[cur].run = r
    BY <1>0, <1>9 DEF SaveLaunching, Store, outsideVars, Inv, Launching, FitRecord, ItemRecord
  <2> QED
    BY <1>0, <2>1 DEF TInv, OnRecord
<1>10. ASSUME NEW closed \in SUBSET Runs, StartWorker(closed) PROVE TInv'
  <2>1. /\ UNCHANGED <<item, crashes>> /\ cur \in Items /\ pc = "saved" /\ pc' = "spawned"
        /\ job' = [job EXCEPT ![cur] = [run |-> item[cur].run, status |-> "running"]]
    BY <1>0, <1>10 DEF StartWorker, StartPlatform, outsideVars, Inv, Launching
  <2>2. item[cur].run \in Runs
    BY <1>10 DEF StartWorker, StartPlatform, TInv
  <2> QED
    BY <1>0, <2>1, <2>2 DEF TInv, OnRecord
<1>11. ASSUME NEW closed \in SUBSET Runs, StartFails(closed) PROVE TInv'
  <2>1. /\ cur \in Items /\ Put(cur, Ended(Refunded(item[cur]), "failed"))
        /\ UNCHANGED <<job, crashes, cur>> /\ pc = "saved" /\ pc' = "refused"
    BY <1>0, <1>11 DEF StartFails, Inv, Launching, jobVars
  <2>2. item'[cur].status = "failed" /\ \A j \in Items \ {cur} : item'[j] = item[j]
    BY <1>0, <2>1 DEF Put, Ended, Refunded, ItemRecord, QuotaState
  <2> QED
    BY <1>0, <2>1, <2>2 DEF TInv, OnRecord, Active
<1>12. CASE SaveRunning
  <2>1. /\ item' = [item EXCEPT ![cur].status = "running"] /\ cur \in Items /\ pc = "spawned" /\ pc' = "idle"
        /\ UNCHANGED <<job, crashes>> /\ item[cur].status \in Active
    BY <1>0, <1>12 DEF SaveRunning, Store, outsideVars, jobVars, Inv, Launching, Active
  <2>2. \A i \in Items : item'[i].run = item[i].run /\ (i # cur => item'[i] = item[i])
    BY <1>0, <2>1 DEF FitRecord, ItemRecord
  <2> QED
    BY <1>0, <2>1, <2>2, ActiveKept
<1>13. ASSUME NEW i \in Items, UserStep(i) \/ ReconcileStep(i) PROVE TInv'
  <2>1. Calm
    BY <1>0, <1>13, HandlerCalm
  <2>2. pc = "idle" /\ pc' # "saved" /\ crashes' = crashes /\ \A j \in Items \ {i} : item'[j] = item[j]
    BY <1>0, <1>13 DEF UserStep, AddPlatform, FailItem, Remove, Retry, Release, Edit, Store, Handler,
       ReconcileStep, ReleaseStuckOrphan, ForceSettle, OutageRequeue, GuardStop, Reconcile, Put, outsideVars
  <2>3. item'[i] \in {Blank("pending"), Blank("removed"), Requeued(item[i], 0, "no"), Ended(item[i], "failed"),
                      [Ended(item[i], "skipped") EXCEPT !.released = "manual"],
                      [Ended(Refunded(item[i]), "skipped") EXCEPT !.released = "auto"],
                      Ended(Refunded(item[i]), "failed"), Refunded(item[i])}
    BY <1>0, <1>13 DEF UserStep, AddPlatform, FailItem, Remove, Retry, Release, Edit, Store, Handler,
       ReconcileStep, ReleaseStuckOrphan, ForceSettle, OutageRequeue, GuardStop, Reconcile, Put
  <2>4. Refunded(item[i]) \in ItemRecord /\ Refunded(item[i]).status = item[i].status
        /\ Refunded(item[i]).run = item[i].run
    BY <1>0 DEF Refunded, ItemRecord, QuotaState
  <2>5. item'[i].status \in Active => item[i].status \in Active /\ item'[i].run = item[i].run
    <3>1. /\ Ended(item[i], "failed").status = "failed"
          /\ Ended(Refunded(item[i]), "failed").status = "failed"
          /\ [Ended(item[i], "skipped") EXCEPT !.released = "manual"].status = "skipped"
          /\ [Ended(Refunded(item[i]), "skipped") EXCEPT !.released = "auto"].status = "skipped"
      BY <1>0, <2>4 DEF Ended, ItemRecord
    <3>2. /\ Requeued(item[i], 0, "no").status = "pending"
          /\ Blank("pending").status = "pending" /\ Blank("removed").status = "removed"
      BY DEF Requeued, Blank
    <3>3. item'[i] = Refunded(item[i]) \/ item'[i].status \in {"pending", "removed", "failed", "skipped"}
      BY <2>3, <3>1, <3>2, Zenon
    <3> QED
      BY <2>4, <3>3 DEF Active
  <2> QED
    BY <1>0, <2>1, <2>2, <2>5, ActiveKept DEF Calm
<1>14. CASE ClearFinished
  <2>1. /\ \A i \in Items : item'[i] = IF item[i].status \in {"failed", "skipped"} /\ ~item[i].held
                                       THEN Blank("removed") ELSE item[i]
        /\ UNCHANGED <<job, crashes>> /\ pc = "idle" /\ pc' = "idle"
    BY <1>14 DEF ClearFinished, Edit, Handler, Store, outsideVars, jobVars
  <2> QED
    BY <1>0, <2>1, ActiveKept DEF Blank, Active
<1>15. CASE Restart
  BY <1>1, <1>15 DEF Restart, jobVars
<1>16. ~Crash /\ ~CrashInStart
  BY DEF Crash, CrashInStart, Die, TInv
<1> QED
  BY <1>2, <1>3, <1>4, <1>5, <1>6, <1>7, <1>8, <1>9, <1>10, <1>11, <1>12, <1>13, <1>14, <1>15, <1>16
     DEF Next, Tick, Launch, ClaimOnPlatform, ClaimLost, ClaimLocally

\* Only the two retries take an active item back to "pending" in a visit.
LEMMA RetryOnly ==
  ASSUME Inv, NEW i \in Items, Sync(i), item[i].status \in Active, item'[i].status = "pending"
  PROVE  SyncStalled(i) \/ SyncEarlyExit(i)
<1>1. /\ Absorbed(i) \in ItemRecord /\ Absorbed(i).status = item[i].status
      /\ item \in [Items -> FitRecord] /\ item[i] \in ItemRecord
  BY AbsorbedFits, RunOfItem DEF Inv, FitRecord
<1>2. ASSUME NEW new, Put(i, new), new.status # "pending" PROVE FALSE
  BY <1>1, <1>2 DEF Put
<1>3. ~SyncTerminal(i)
  BY DEF SyncTerminal, Active, Terminal
<1>4. ~SyncUnstable(i) /\ ~SyncPending(i)
  BY <1>1, <1>2 DEF SyncUnstable, SyncPending, Active
<1>5. ASSUME SyncWatched(i) \/ SyncOrphaned(i) PROVE FALSE
  <2>1. PICK s \in {"triggered", "orphaned"}, h \in BOOLEAN : Put(i, [Absorbed(i) EXCEPT !.status = s, !.held = h])
    BY <1>5 DEF SyncWatched, SyncOrphaned
  <2>2. [Absorbed(i) EXCEPT !.status = s, !.held = h].status = s
    BY <1>1 DEF ItemRecord
  <2> QED
    BY <1>2, <2>1, <2>2
<1>6. ASSUME SyncRunning(i) PROVE FALSE
  <2> DEFINE up == IF Absorbed(i).status \in {"pending", "launching"}
                   THEN [Absorbed(i) EXCEPT !.status = "running"] ELSE Absorbed(i)
             new == IF Submitted(i) THEN [up EXCEPT !.status = "triggered", !.held = TRUE] ELSE up
  <2>1. up.status # "pending" /\ up \in ItemRecord
    BY <1>1 DEF ItemRecord, Status, Active
  <2>2. new.status # "pending"
    <3> HIDE DEF up
    <3> QED BY <2>1 DEF ItemRecord
  <2>3. Put(i, new)
    BY <1>6 DEF SyncRunning
  <2> HIDE DEF new
  <2> QED
    BY <1>2, <2>2, <2>3
<1>7. ASSUME SyncSettle(i) \/ SyncFailed(i) PROVE FALSE
  <2>1. Settled(Absorbed(i)) \in ItemRecord /\ Refunded(Absorbed(i)) \in ItemRecord
    BY <1>1 DEF Settled, Refunded, ItemRecord, QuotaState
  <2>2. /\ Ended(Settled(Absorbed(i)), "done").status = "done"
        /\ Ended(Refunded(Absorbed(i)), "failed").status = "failed"
    BY <2>1 DEF Ended, ItemRecord
  <2> QED
    BY <1>2, <1>7, <2>2 DEF SyncSettle, SyncFailed
<1> QED
  BY <1>3, <1>4, <1>5, <1>6, <1>7 DEF Sync

\* However quiet a task is, the tick starts no second attempt beside it once it
\* has written a state.json that has not ended (requeue_stalled and its guards);
\* a crash between the save of the new run and its start is excluded.
THEOREM NeverRetried == MaxCrash = 0 => (Spec => StartedNeverRetried)
<1>1. MaxCrash = 0 /\ Init => TInv
  BY QInvInit DEF Init, QueueInit, TInv, Blank, Active
<1>2. ASSUME TInv, [Next]_vars, NEW i \in Items, TickRequeues(i)
      PROVE  state[item[i].run] # "active"
  <2>0. QInv /\ Inv /\ pc = "sync" /\ pc' = "sync" /\ item'[i] # item[i] /\ OnRecord(i)
    BY <1>2 DEF TInv, QInv, TickRequeues, Active
  <2>1. PICK j \in Items : Sync(j)
    <3>1. ~UNCHANGED vars /\ \A r \in Runs : ~RunStep(r)
      BY <2>0 DEF vars, queueVars, RunStep, Outside, ExecutorSelects
    <3>2. ~(\E j \in Items : UserStep(j) \/ ReconcileStep(j)) /\ ~ClearFinished
      BY <2>0 DEF UserStep, AddPlatform, FailItem, Remove, Retry, Release, ReconcileStep,
         ReleaseStuckOrphan, ForceSettle, OutageRequeue, GuardStop, Reconcile, Edit, Handler, ClearFinished
    <3>3. ~Save /\ ~Crash /\ ~CrashInStart /\ ~Restart /\ ~TickEnd /\ ~Launch
      BY <2>0 DEF Save, Crash, CrashInStart, Die, Restart, TickEnd, Launch, ClaimOnPlatform, ClaimLost,
         ClaimLocally, Claim, SaveLaunching, StartWorker, StartFails, SaveRefused, SaveRunning
    <3>4. ~(\E stale \in SUBSET Items : TickBegin(stale)) /\ ~(\E stopped \in SUBSET Items : SyncDone(stopped))
      BY <2>0 DEF TickBegin, SyncDone
    <3> QED
      BY <1>2, <3>1, <3>2, <3>3, <3>4 DEF Next, Tick
  <2>2. j = i
    BY <2>0, <2>1, SyncDerived
  <2>3. SyncStalled(i) \/ SyncEarlyExit(i)
    BY <1>2, <2>0, <2>1, <2>2, RetryOnly DEF TickRequeues
  <2>4. SeenState(i) = "none"
    BY <2>3 DEF SyncStalled, SyncEarlyExit, EarlyExit, Submitted, SeenState
  <2>5. Seen(i) # NoJob
    BY <2>0 DEF Seen, GetPlatform, OnRecord, NoJob, NoRun, Runs
  <2> QED
    BY <2>4, <2>5 DEF SeenState
<1>3. TInv /\ [Next]_vars => [\A i \in Items : TickRequeues(i) => state[item[i].run] # "active"]_vars
  BY <1>2
<1> QED
  BY <1>1, <1>3, TInvStep, PTL DEF Spec, StartedNeverRetried

-----------------------------------------------------------------------------
(* Live executors are on record *)

\* Runs are handed out in order.
OwnersInOrder == \A p, q \in Runs : p < q /\ owner[q] # NoItem => owner[p] # NoItem

\* A record is of a run that was started for its item.
RecordOwned == \A i \in Items : job[i].run # NoRun => owner[job[i].run] = i

\* The run about to be started is the newest.
LaunchNewest ==
  pc = "saved" => item[cur].run \in Runs /\ \A q \in Runs : owner[q] # NoItem => q <= item[cur].run

\* A _wait thread that is pending is of the run on record or of an earlier one.
WaitersPast == \A q \in Runs : waiter[q] => owner[q] # NoItem /\ q <= job[owner[q]].run

\* The inductive invariant of LiveWorkerOnRecord, when SIGTERM always arrives.
FInv ==
  /\ QInv /\ ~KillMayFail
  /\ OwnersInOrder /\ RecordOwned /\ LaunchNewest /\ WaitersPast
  /\ LiveWorkerOnRecord

\* A calm step, other than one that hands out a run.
LEMMA CalmKeeps ==
  ASSUME FInv, QInv', Calm, UNCHANGED owner,
         pc' # "saved" \/ UNCHANGED <<item, pc, cur>>, pc # "down" \/ pc' = "down"
  PROVE  FInv'
<1>1. /\ job \in [Items -> JobRecord] /\ job' \in [Items -> JobRecord]
      /\ owner \in [Runs -> Items \cup {NoItem}]
  BY DEF FInv, QInv, Inv, JobTypeOK, JobRecord
<1>2. OwnersInOrder' /\ RecordOwned' /\ LaunchNewest'
  BY DEF FInv, Calm, OwnersInOrder, RecordOwned, LaunchNewest
<1>3. WaitersPast'
  BY <1>1 DEF FInv, Calm, WaitersPast
<1>4. LiveWorkerOnRecord'
  <2> SUFFICES ASSUME pc' # "down", NEW r \in Runs, worker'[r] = "alive", ~LaterAttempt(r)'
               PROVE  job'[owner[r]] = [run |-> r, status |-> "running"]
    BY DEF LiveWorkerOnRecord
  <2>1. worker[r] = "alive" /\ ~LaterAttempt(r)
    BY DEF Calm, LaterAttempt
  <2>2. owner[r] \in Items
    BY <1>1, <2>1, Unstarted DEF FInv
  <2>3. job[owner[r]] = [run |-> r, status |-> "running"]
    BY <2>1 DEF FInv, LiveWorkerOnRecord
  <2>4. job'[owner[r]].run = r /\ job'[owner[r]].status = "running"
    BY <2>2, <2>3 DEF Calm, FInv
  <2> QED
    BY <1>1, <2>2, <2>4 DEF JobRecord
<1> QED
  BY <1>2, <1>3, <1>4 DEF FInv

\* The start of an executor.
LEMMA StartKeeps ==
  ASSUME FInv, QInv', NEW closed \in SUBSET Runs, StartWorker(closed)
  PROVE  FInv'
<1> DEFINE n == item[cur].run
<1>1. /\ cur \in Items /\ pc = "saved" /\ pc' = "spawned" /\ UNCHANGED <<item, cur, owner>>
      /\ worker' = [worker EXCEPT ![n] = "alive"]
      /\ job' = [job EXCEPT ![cur] = [run |-> n, status |-> "running"]]
      /\ waiter' = [waiter EXCEPT ![n] = TRUE]
      /\ job[cur].status # "running"
  BY DEF StartWorker, StartPlatform, StartRefused, FInv, QInv, Inv, Launching
<1>2. /\ job \in [Items -> JobRecord] /\ worker \in [Runs -> WorkerStates] /\ waiter \in [Runs -> BOOLEAN]
      /\ owner \in [Runs -> Items \cup {NoItem}]
  BY DEF FInv, QInv, Inv, JobTypeOK, JobRecord, RunTypeOK
<1>3. n \in Runs /\ owner[n] = cur /\ \A q \in Runs : owner[q] # NoItem => q <= n
  BY <1>1 DEF FInv, LaunchNewest, QInv, OneOwner, Runs, NoRun
<1>4. OwnersInOrder' /\ RecordOwned' /\ LaunchNewest'
  BY <1>1, <1>2, <1>3 DEF FInv, OwnersInOrder, RecordOwned, LaunchNewest
<1>5. WaitersPast'
  <2> SUFFICES ASSUME NEW q \in Runs, waiter'[q] PROVE owner[q] # NoItem /\ q <= job'[owner[q]].run
    BY <1>1 DEF WaitersPast
  <2>1. CASE q = n
    BY <1>1, <1>2, <1>3, <2>1, NoItemAssumption DEF Runs
  <2>2. CASE q # n
    <3>1. waiter[q]
      BY <1>1, <1>2, <2>2
    <3>2. owner[q] # NoItem /\ q <= job[owner[q]].run
      BY <3>1 DEF FInv, WaitersPast
    <3>3. CASE owner[q] = cur
      BY <1>1, <1>2, <1>3, <3>2, <3>3
    <3>4. CASE owner[q] # cur
      BY <1>1, <1>2, <3>2, <3>4
    <3> QED
      BY <3>3, <3>4
  <2> QED
    BY <2>1, <2>2
<1>6. LiveWorkerOnRecord'
  <2> SUFFICES ASSUME NEW r \in Runs, worker'[r] = "alive", ~LaterAttempt(r)'
               PROVE  job'[owner[r]] = [run |-> r, status |-> "running"]
    BY <1>1 DEF LiveWorkerOnRecord
  <2>1. CASE r = n
    BY <1>1, <1>2, <1>3, <2>1
  <2>2. CASE r # n
    <3>1. worker[r] = "alive" /\ ~LaterAttempt(r)
      BY <1>1, <1>2, <2>2 DEF LaterAttempt
    <3>2. job[owner[r]] = [run |-> r, status |-> "running"] /\ owner[r] # NoItem
      BY <1>1, <3>1, Unstarted DEF FInv, LiveWorkerOnRecord
    <3>3. owner[r] # cur
      BY <1>1, <3>2
    <3> QED
      BY <1>1, <1>2, <3>2, <3>3
  <2> QED
    BY <2>1, <2>2
<1> QED
  BY <1>4, <1>5, <1>6 DEF FInv

\* The return of a _wait thread: it is late at worst for an earlier run.
LEMMA WaitKeeps ==
  ASSUME FInv, QInv', NEW q \in Runs, WaitReturns(q), UNCHANGED <<runVars, queueVars, outsideVars>>
  PROVE  FInv'
<1>1. /\ waiter[q] /\ worker[q] = "dead" /\ UNCHANGED <<worker, item, pc, cur, owner>>
      /\ waiter' = [waiter EXCEPT ![q] = FALSE]
      /\ job' = [job EXCEPT ![owner[q]].status = FinalStatus(q)]
  BY DEF WaitReturns, runVars, queueVars
<1>2. /\ job \in [Items -> JobRecord] /\ job' \in [Items -> JobRecord] /\ waiter \in [Runs -> BOOLEAN]
      /\ owner \in [Runs -> Items \cup {NoItem}]
  BY DEF FInv, QInv, Inv, JobTypeOK, JobRecord
<1>3. owner[q] \in Items /\ q <= job[owner[q]].run
  BY <1>1, <1>2 DEF FInv, WaitersPast
<1>4. \A i \in Items : job'[i].run = job[i].run /\ (i # owner[q] => job'[i] = job[i])
  BY <1>1, <1>2, <1>3 DEF JobRecord
<1>5. OwnersInOrder' /\ RecordOwned' /\ LaunchNewest' /\ WaitersPast'
  BY <1>1, <1>2, <1>4 DEF FInv, OwnersInOrder, RecordOwned, LaunchNewest, WaitersPast
<1>6. LiveWorkerOnRecord'
  <2> SUFFICES ASSUME pc # "down", NEW r \in Runs, worker[r] = "alive", ~LaterAttempt(r)
               PROVE  job'[owner[r]] = [run |-> r, status |-> "running"]
    BY <1>1 DEF LiveWorkerOnRecord, LaterAttempt
  <2>1. job[owner[r]] = [run |-> r, status |-> "running"] /\ owner[r] \in Items
    BY <1>2, Unstarted DEF FInv, LiveWorkerOnRecord
  <2>2. owner[r] # owner[q]
    <3> SUFFICES ASSUME owner[r] = owner[q] PROVE FALSE
      OBVIOUS
    <3>1. q <= r
      BY <1>3, <2>1
    <3>2. q # r
      BY <1>1
    <3>3. LaterAttempt(r)
      BY <3>1, <3>2 DEF LaterAttempt, Runs
    <3> QED
      BY <3>3
  <2> QED
    BY <1>4, <2>1, <2>2
<1> QED
  BY <1>5, <1>6 DEF FInv

\* A run key is handed out.
LEMMA LaunchingKeeps ==
  ASSUME FInv, QInv', NEW n \in Runs, SaveLaunching(n)
  PROVE  FInv'
<1>1. /\ owner[n] = NoItem /\ \A q \in Runs : q < n => owner[q] # NoItem
      /\ owner' = [owner EXCEPT ![n] = cur] /\ UNCHANGED <<worker, job, waiter, cur>>
      /\ cur \in Items /\ pc' = "saved" /\ pc = "claimed"
      /\ item' = [item EXCEPT ![cur].status = "launching", ![cur].held = TRUE, ![cur].run = n]
  BY DEF SaveLaunching, FreshRun, Store, FInv, QInv, Inv, Launching, runVars
<1>2. /\ job \in [Items -> JobRecord] /\ owner \in [Runs -> Items \cup {NoItem}] /\ item \in [Items -> FitRecord]
  BY DEF FInv, QInv, Inv, JobTypeOK, JobRecord
<1>3. item'[cur].run = n
  BY <1>1, <1>2 DEF FitRecord, ItemRecord
<1>4. \A q \in Runs : owner[q] # NoItem => q < n
  <2> SUFFICES ASSUME NEW q \in Runs, owner[q] # NoItem, n <= q PROVE FALSE
    BY DEF Runs
  <2>1. n # q
    BY <1>1
  <2> QED
    BY <1>1, <2>1 DEF FInv, OwnersInOrder, Runs
<1>5. LaunchNewest'
  BY <1>1, <1>2, <1>3, <1>4 DEF LaunchNewest, Runs
<1>6. OwnersInOrder'
  BY <1>1, <1>2, <1>4, NoItemAssumption DEF FInv, OwnersInOrder, Runs
<1>7. \A q \in Runs : q # n => owner'[q] = owner[q]
  BY <1>1, <1>2
<1>8. RecordOwned'
  <2>1. \A i \in Items : job[i].run # n
    BY <1>1, NoItemAssumption DEF FInv, RecordOwned, Runs, NoRun
  <2> QED
    BY <1>1, <1>2, <1>7, <2>1 DEF FInv, RecordOwned, JobRecord
<1>9. WaitersPast'
  BY <1>1, <1>7 DEF FInv, WaitersPast
<1>10. LiveWorkerOnRecord'
  <2> SUFFICES ASSUME NEW r \in Runs, worker[r] = "alive", ~LaterAttempt(r)'
               PROVE  job[owner'[r]] = [run |-> r, status |-> "running"]
    BY <1>1 DEF LiveWorkerOnRecord
  <2>1. owner[r] # NoItem /\ r # n
    BY <1>1, Unstarted DEF FInv
  <2>2. ~LaterAttempt(r)
    <3> SUFFICES ASSUME NEW q \in Runs, q < r, owner[q] = owner[r] PROVE FALSE
      BY DEF LaterAttempt
    <3>1. q # n
      BY <1>1, <2>1
    <3> QED
      BY <1>7, <2>1, <3>1 DEF LaterAttempt
  <2> QED
    BY <1>1, <1>7, <2>1, <2>2 DEF FInv, LiveWorkerOnRecord
<1> QED
  BY <1>5, <1>6, <1>8, <1>9, <1>10 DEF FInv

\* The death of the process, and its restart: what is not on record is stopped.
LEMMA DownKeeps ==
  ASSUME FInv, QInv', Crash \/ CrashInStart \/ Restart
  PROVE  FInv'
<1>1. CASE Crash \/ CrashInStart
  <2>1. UNCHANGED <<owner, job>> /\ pc' = "down" /\ \A r \in Runs : ~waiter'[r]
    BY <1>1 DEF Crash, CrashInStart, Die
  <2> QED
    BY <2>1 DEF FInv, OwnersInOrder, RecordOwned, LaunchNewest, WaitersPast, LiveWorkerOnRecord
<1>2. CASE Restart
  <2>1. UNCHANGED <<owner, job, waiter>> /\ pc' = "idle" /\ worker' = Terminated(OrphanWorkers)
    BY <1>2 DEF Restart, KillOutcomes, FInv, jobVars
  <2>2. LiveWorkerOnRecord'
    <3> SUFFICES ASSUME NEW r \in Runs, worker'[r] = "alive"
                 PROVE  job[owner[r]] = [run |-> r, status |-> "running"]
      BY <2>1 DEF LiveWorkerOnRecord
    <3>1. r \notin OrphanWorkers /\ worker[r] = "alive"
      BY <2>1 DEF Terminated
    <3>2. PICK i \in Items : job[i] = [run |-> r, status |-> "running"]
      BY <3>1 DEF OrphanWorkers
    <3> QED
      BY <3>2 DEF FInv, RecordOwned, Runs, NoRun
  <2> QED
    BY <2>1, <2>2 DEF FInv, OwnersInOrder, RecordOwned, LaunchNewest, WaitersPast
<1> QED
  BY <1>1, <1>2

\* FInv is inductive.
LEMMA FInvStep == FInv /\ [Next]_vars => FInv'
<1> SUFFICES ASSUME FInv, [Next]_vars PROVE FInv'
  OBVIOUS
<1>0. QInv' /\ Inv
  BY QInvStep DEF FInv, QInv
<1>1. CASE UNCHANGED vars
  BY <1>0, <1>1, SameCalm, CalmKeeps DEF vars, runVars, jobVars, queueVars
<1>2. ASSUME NEW r \in Runs, RunStep(r) PROVE FInv'
  <2>1. CASE WaitReturns(r)
    <3>1. UNCHANGED <<runVars, queueVars, outsideVars>>
      <4>1. waiter \in [Runs -> BOOLEAN]
        BY <1>0 DEF Inv, JobTypeOK
      <4>2. waiter' # waiter
        BY <2>1, <4>1 DEF WaitReturns
      <4> QED
        BY <1>2, <4>2 DEF RunStep, Outside, ExecutorSelects, jobVars
    <3> QED
      BY <1>0, <2>1, <3>1, WaitKeeps
  <2>2. CASE ~WaitReturns(r)
    <3>1. UNCHANGED <<item, pc, cur, owner>>
      BY <1>2 DEF RunStep, Outside, ExecutorSelects, WaitReturns, jobVars, queueVars
    <3> QED
      BY <1>0, <1>2, <2>2, <3>1, RunCalm, CalmKeeps
  <2> QED
    BY <2>1, <2>2
<1>3. ASSUME NEW i \in Items, UserStep(i) \/ ReconcileStep(i) PROVE FInv'
  <2>1. UNCHANGED owner /\ pc = "idle" /\ pc' # "saved"
    BY <1>3 DEF UserStep, AddPlatform, FailItem, Remove, Retry, Release, Edit, Handler,
       ReconcileStep, ReleaseStuckOrphan, ForceSettle, OutageRequeue, GuardStop, Reconcile, jobVars
  <2> QED
    BY <1>0, <1>3, <2>1, HandlerCalm, CalmKeeps
<1>4. CASE ClearFinished \/ Save
  BY <1>0, <1>4, SameCalm, CalmKeeps DEF ClearFinished, Save, Edit, Handler, runVars, jobVars
<1>5. ASSUME Tick, \A n \in Runs : ~SaveLaunching(n), \A closed \in SUBSET Runs : ~StartWorker(closed)
      PROVE  FInv'
  <2>1. CASE \E i \in Items : Sync(i)
    <3>1. UNCHANGED <<owner, pc>> /\ pc = "sync"
      BY <1>0, <2>1, SyncDerived DEF Sync, SyncTerminal, SyncUnstable, SyncWatched, SyncSettle, SyncFailed,
         SyncStalled, SyncEarlyExit, SyncRunning, SyncPending, SyncOrphaned, InFlight, Visiting, Visit
    <3>2. Calm
      BY <1>0, <1>5, TickCalm
    <3> QED
      BY <1>0, <3>1, <3>2, CalmKeeps
  <2>2. CASE ~\E i \in Items : Sync(i)
    <3>1. UNCHANGED owner /\ pc # "down" /\ pc' # "saved"
      BY <1>5, <2>2 DEF Tick, TickBegin, SyncDone, TickEnd, Launch, ClaimOnPlatform, ClaimLost, ClaimLocally,
         Claim, StartFails, SaveRefused, SaveRunning, jobVars
    <3>2. Calm
      BY <1>0, <1>5, TickCalm
    <3> QED
      BY <1>0, <3>1, <3>2, CalmKeeps
  <2> QED
    BY <2>1, <2>2
<1> QED
  BY <1>0, <1>1, <1>2, <1>3, <1>4, <1>5, LaunchingKeeps, StartKeeps, DownKeeps DEF Next

\* At first no executor and no record exists.
LEMMA FInvInit == ~KillMayFail /\ Init => FInv
<1> SUFFICES ASSUME ~KillMayFail, Init PROVE FInv
  OBVIOUS
<1> QED
  BY QInvInit DEF Init, RunInit, JobInit, QueueInit, FInv, OwnersInOrder, RecordOwned, LaunchNewest,
     WaitersPast, LiveWorkerOnRecord, NoJob

\* While the server runs and SIGTERM arrives, the live executor of a first
\* attempt is on record as running (start_platform, the reapers, _wait and
\* reap_orphan_workers after a crash).
THEOREM LiveOnRecord == ~KillMayFail => (Spec => []LiveWorkerOnRecord)
<1>1. FInv => LiveWorkerOnRecord
  BY DEF FInv
<1> QED
  BY <1>1, FInvInit, FInvStep, PTL DEF Spec

\* _close_stale_project_tasks_locked closes no task that the live executor of a
\* first attempt is watching.
THEOREM WatchedSpared == ~KillMayFail => (Spec => StaleCloseSparesWatched)
<1>1. ASSUME FInv, [Next]_vars, NEW r \in Runs,
             pc = "saved", pc' \in {"spawned", "refused"}, state'[r] # state[r]
      PROVE  worker[r] # "alive" \/ LaterAttempt(r)
  <2>1. r \in Closable(cur)
    <3>1. PICK closed \in SUBSET Runs : CloseStale(closed)
      <4>1. ~UNCHANGED vars /\ \A q \in Runs : ~RunStep(q)
        BY <1>1 DEF vars, queueVars, RunStep, Outside, ExecutorSelects
      <4>2. ~(\E j \in Items : UserStep(j) \/ ReconcileStep(j)) /\ ~ClearFinished
        BY <1>1 DEF UserStep, AddPlatform, FailItem, Remove, Retry, Release, ReconcileStep,
           ReleaseStuckOrphan, ForceSettle, OutageRequeue, GuardStop, Reconcile, Edit, Handler, ClearFinished
      <4>3. ~Save /\ ~Crash /\ ~CrashInStart /\ ~Restart /\ ~TickEnd
        BY <1>1 DEF Save, Crash, CrashInStart, Die, Restart, TickEnd
      <4>4. /\ ~(\E stale \in SUBSET Items : TickBegin(stale)) /\ ~(\E stopped \in SUBSET Items : SyncDone(stopped))
            /\ ~\E j \in Items : Sync(j)
        BY <1>1 DEF TickBegin, SyncDone, Sync, SyncTerminal, SyncUnstable, SyncWatched, SyncSettle, SyncFailed,
           SyncStalled, SyncEarlyExit, SyncRunning, SyncPending, SyncOrphaned, InFlight, Visiting, Visit
      <4>5. Launch
        BY <1>1, <4>1, <4>2, <4>3, <4>4 DEF Next, Tick
      <4> QED
        BY <1>1, <4>5 DEF Launch, ClaimOnPlatform, ClaimLost, ClaimLocally, Claim, SaveLaunching, StartWorker,
           StartFails, SaveRefused, SaveRunning
    <3>2. state \in [Runs -> TaskStates]
      BY <1>1 DEF FInv, QInv, Inv, RunTypeOK
    <3> QED
      BY <1>1, <3>1, <3>2 DEF CloseStale
  <2>2. owner[r] \in Items /\ job[owner[r]] # [run |-> r, status |-> "running"]
    BY <1>1, <2>1 DEF Closable, FInv, QInv, Inv, JobTypeOK
  <2> QED
    BY <1>1, <2>2 DEF FInv, LiveWorkerOnRecord
<1>2. FInv /\ [Next]_vars =>
        [\A r \in Runs : pc = "saved" /\ pc' \in {"spawned", "refused"} /\ state'[r] # state[r]
                           => worker[r] # "alive" \/ LaterAttempt(r)]_vars
  BY <1>1
<1> QED
  BY <1>2, FInvInit, FInvStep, PTL DEF Spec, StaleCloseSparesWatched
=============================================================================
