----------------------------- MODULE JobManager -----------------------------
(***************************************************************************)
(* JobManager (api/scheduler.py): the record of the executor process of    *)
(* each queue item.  There is one record per item, under the key           *)
(* "platform:<item id>", replaced by every launch, persisted to a sidecar  *)
(* on every change; and one _wait thread per process this instance has     *)
(* started, which updates the record under the KEY, whatever run the       *)
(* record is of by then.                                                   *)
(***************************************************************************)
EXTENDS QueueWorker

CONSTANTS Items,        \* queue items
          NoItem,       \* not an item
          KillMayFail   \* whether SIGTERM may miss its worker (ps timed out)

ASSUME NoItemAssumption == NoItem \notin Items
ASSUME KillMayFailAssumption == KillMayFail \in BOOLEAN

VARIABLES owner,        \* the item a run was started for
          job,          \* the record under "platform:<item>"
          waiter        \* whether a _wait thread of this instance is pending

jobVars == <<owner, job, waiter>>

JobStatus == {"none", "running", "finished", "failed"}
NoJob     == [run |-> NoRun, status |-> "none"]

JobTypeOK ==
  /\ owner  \in [Runs -> Items \cup {NoItem}]
  /\ job    \in [Items -> [run : Runs \cup {NoRun}, status : JobStatus]]
  /\ waiter \in [Runs -> BOOLEAN]

JobInit ==
  /\ owner  = [r \in Runs |-> NoItem]
  /\ job    = [i \in Items |-> NoJob]
  /\ waiter = [r \in Runs |-> FALSE]

\* The record once the process is known to be gone: the result file decides.
FinalStatus(r) == IF stage[r] = "complete" THEN "finished" ELSE "failed"

\* get_platform(item, runKey): the record of that run, finalized if its
\* worker is dead; nothing when the record is of another run.
GetPlatform(i, r) ==
  IF r = NoRun \/ job[i].run # r THEN NoJob
  ELSE IF job[i].status = "running" /\ ~Alive(r)
       THEN [job[i] EXCEPT !.status = FinalStatus(r)]
       ELSE job[i]

\* The records after get_platform has stored what it finalized.
JobsAfterGet(i, r) ==
  IF GetPlatform(i, r) = NoJob THEN job
  ELSE [job EXCEPT ![i] = GetPlatform(i, r)]

\* platform_job_started is false: no state.json for the run yet.
StartPending ==
  {i \in Items : job[i].status = "running" /\ state[job[i].run] = "none"}

\* Which of the runs that SIGTERM is meant for are really stopped.
KillOutcomes(runs) == IF KillMayFail THEN SUBSET runs ELSE {runs}

\* reap_stale_platform_jobs(timeout) then reap_dead_jobs, the head of a tick;
\* stale is the set of jobs past the startup timeout.
ReapJobs(stale) ==
  /\ \E hit \in KillOutcomes({job[i].run : i \in stale}) :
       worker' = Terminated(hit)
  /\ job' = [i \in Items |->
               IF i \in stale THEN [job[i] EXCEPT !.status = "failed"]
               ELSE GetPlatform(i, job[i].run)]

\* stop_platform_worker_for_retry(item, runKey): the record is marked failed
\* whether or not the SIGTERM worked, and no caller looks at the result.
StopForRetry(i, r) ==
  IF r = NoRun \/ job[i].run # r THEN UNCHANGED <<worker, job>>
  ELSE /\ IF GetPlatform(i, r).status = "running"
          THEN \E hit \in KillOutcomes({r}) : worker' = Terminated(hit)
          ELSE UNCHANGED worker
       /\ job' = [job EXCEPT ![i].status = "failed"]

\* start_platform(item): refused while the record under the key is running.
StartRefused(i) == job[i].status = "running"

StartPlatform(i, r) ==
  /\ ~StartRefused(i)
  /\ worker' = [worker EXCEPT ![r] = "alive"]
  /\ job'    = [job EXCEPT ![i] = [run |-> r, status |-> "running"]]
  /\ waiter' = [waiter EXCEPT ![r] = TRUE]

\* _wait(key, process): the thread of run r sees the exit and writes the
\* record found under the key.  Exit code 0 is exactly a completed task.
WaitReturns(r) ==
  /\ waiter[r] /\ worker[r] = "dead"
  /\ waiter' = [waiter EXCEPT ![r] = FALSE]
  /\ job' = [job EXCEPT ![owner[r]].status = FinalStatus(r)]
  /\ UNCHANGED owner

\* Mutant of OrphanWorkers: nobody looks for them.
NoOrphanWorkers == {}

\* Workers no recovered record owns, which reap_orphan_workers stops.
OrphanWorkers ==
  {r \in Runs : /\ worker[r] = "alive"
                /\ ~\E i \in Items : job[i] = [run |-> r, status |-> "running"]}
=============================================================================
