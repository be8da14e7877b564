---------------------------- MODULE QueueWorker ----------------------------
(***************************************************************************)
(* One executor run of the scheduler: the queue_worker.py process, the     *)
(* ChatGPT desktop session it opens through the push helper, and the task  *)
(* directory (monitor/state.json) both of them write.  The worker only     *)
(* submits the prompt and then watches state.json; the desktop session and *)
(* the skill it drives are not part of the repository, so their steps are  *)
(* modelled from what the repository assumes of them.                      *)
(*                                                                         *)
(* A run is a number.  The monitor gives every attempt of a queue item a   *)
(* fresh run key; a run key is used by at most one worker.                 *)
(***************************************************************************)
EXTENDS Integers, FiniteSets

CONSTANTS MaxRun,     \* bound: executor runs in one behaviour
          MaxTask     \* bound: platform tasks in one behaviour

ASSUME MaxRunAssumption == MaxRun \in Nat
ASSUME MaxTaskAssumption == MaxTask \in Nat

VARIABLES worker,     \* the queue_worker.py process of a run
          stage,      \* the "stage" of its result file
          session,    \* the desktop session
          state,      \* the class of monitor/state.json's status
          chosen      \* the platform task in platform/selection.json, if any

runVars == <<worker, stage, session, state, chosen>>

Runs   == 1..MaxRun
NoRun  == 0
Tasks  == 1..MaxTask
NoTask == 0

WorkerStates  == {"none", "alive", "dead"}
Stages        == {"early", "submitted", "complete", "failed"}
SessionStates == {"none", "live", "dead"}
TaskStates    == {"none", "active", "ok", "bad"}

\* TERMINAL_TASK_STATUSES ("ok") and TASK_FAILURE_STATUSES ("bad").
EndedStates == {"ok", "bad"}

RunTypeOK ==
  /\ worker  \in [Runs -> WorkerStates]
  /\ stage   \in [Runs -> Stages]
  /\ session \in [Runs -> SessionStates]
  /\ state   \in [Runs -> TaskStates]
  /\ chosen  \in [Runs -> Tasks \cup {NoTask}]

RunInit ==
  /\ worker  = [r \in Runs |-> "none"]
  /\ stage   = [r \in Runs |-> "early"]
  /\ session = [r \in Runs |-> "none"]
  /\ state   = [r \in Runs |-> "none"]
  /\ chosen  = [r \in Runs |-> NoTask]

Alive(r) == r \in Runs /\ worker[r] = "alive"

\* SIGTERM to the process group of every run in victims.
Terminated(victims) ==
  [r \in Runs |-> IF r \in victims THEN "dead" ELSE worker[r]]

-----------------------------------------------------------------------------
(* queue_worker.py *)

\* Every exit before "desktop-submitted" is written.  The push helper runs
\* under a 40 s timeout: the worker may report a failed submission although
\* the helper has already delivered the prompt.
WorkerFailsEarly(r) ==
  /\ Alive(r) /\ stage[r] = "early"
  /\ stage'  = [stage EXCEPT ![r] = "failed"]
  /\ worker' = [worker EXCEPT ![r] = "dead"]
  /\ UNCHANGED <<session, state, chosen>>

\* The push helper has typed the prompt into a new desktop thread.
DeliverPrompt(r) ==
  /\ Alive(r) /\ stage[r] = "early" /\ session[r] = "none"
  /\ session' = [session EXCEPT ![r] = "live"]
  /\ UNCHANGED <<worker, stage, state, chosen>>

\* The helper exited 0: "desktop-submitted" (and later, once a status is
\* seen, "desktop-task-running", which the monitor treats alike).
ReportSubmitted(r) ==
  /\ Alive(r) /\ stage[r] = "early" /\ session[r] # "none"
  /\ stage' = [stage EXCEPT ![r] = "submitted"]
  /\ UNCHANGED <<worker, session, state, chosen>>

\* wait_for_task saw a stable "complete": exit code 0.
ReportComplete(r) ==
  /\ Alive(r) /\ stage[r] = "submitted" /\ state[r] = "ok"
  /\ stage'  = [stage EXCEPT ![r] = "complete"]
  /\ worker' = [worker EXCEPT ![r] = "dead"]
  /\ UNCHANGED <<session, state, chosen>>

\* wait_for_task gave up: a stable failure status, an init failure, a start
\* timeout or the wait timeout (the last needs nothing of the task).
ReportFailure(r) ==
  /\ Alive(r) /\ stage[r] = "submitted"
  /\ stage'  = [stage EXCEPT ![r] = "failed"]
  /\ worker' = [worker EXCEPT ![r] = "dead"]
  /\ UNCHANGED <<session, state, chosen>>

-----------------------------------------------------------------------------
(* The desktop session and the skill (external) *)

\* The skill writes a status.  Its first is an active one; "complete", the
\* status the worker waits for, is its last.
SessionWrites(r, s) ==
  /\ session[r] = "live" /\ stage[r] # "complete"
  /\ s # state[r]
  /\ state[r] = "none" => s = "active"
  /\ state' = [state EXCEPT ![r] = s]
  /\ UNCHANGED <<worker, stage, session, chosen>>

SessionEnds(r) ==
  /\ session[r] = "live"
  /\ session' = [session EXCEPT ![r] = "dead"]
  /\ UNCHANGED <<worker, stage, state, chosen>>
=============================================================================
