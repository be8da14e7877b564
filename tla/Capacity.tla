------------------------------ MODULE Capacity ------------------------------
(***************************************************************************)
(* Whether another task fits (api/scheduler.py: _capacity_usage_locked and *)
(* the gates of tick).  The tick adds what live tasks still need, read     *)
(* from their state.json, to the containers of a docker list that may be   *)
(* seconds old, while the tasks go on; the task it launches has neither    *)
(* state.json nor containers for minutes.  The skill's limiter hands out   *)
(* slots: markers (ContainerLedger) until the container is in the list.    *)
(***************************************************************************)
EXTENDS Integers, FiniteSets

CONSTANTS Tasks,
          Batch,       \* candidatesPerTask
          Limits,      \* values of the container limit (SkillLimit)
          MaxActive,   \* maxActiveTasks: tasks before the end of the race
          MaxPost,     \* maxPostCandidateTasks
          SlowSetup    \* a setup may outlast phantomDemandSeconds

ASSUME CapacityAssumption ==
  /\ IsFiniteSet(Tasks) /\ Limits \subseteq Nat \ {0}
  /\ {Batch, MaxActive, MaxPost} \subseteq Nat \ {0}
  /\ SlowSetup \in BOOLEAN

VARIABLES limit,    \* _max_containers_limit
          phase,    \* how far the task of an item is
          want,     \* candidates "running" in its state.json
          held,     \* slots it holds: a marker or a container each
          runner,   \* the process behind runPid lives
          starved,  \* _starved_since: not, for a while, for phantomDemandSeconds
          listed,   \* containers in the docker list the tick uses
          pc        \* "idle", or "open" from the gates to the launch

taskVars == <<phase, want, held, runner>>
gateVars == <<starved, listed, pc>>
vars == <<limit, taskVars, gateVars>>

Phases == {"pending", "starting", "stuck", "setup", "race", "post", "over"}

TypeOK ==
  /\ limit \in Limits
  /\ phase \in [Tasks -> Phases]
  /\ want \in [Tasks -> 0 .. Batch] /\ held \in [Tasks -> 0 .. Batch]
  /\ listed \in [Tasks -> 0 .. Batch]
  /\ runner \in [Tasks -> BOOLEAN]
  /\ starved \in [Tasks -> {"no", "short", "long"}]
  /\ pc \in {"idle", "open"}

Init ==
  /\ limit \in Limits
  /\ phase = [t \in Tasks |-> "pending"]
  /\ want = [t \in Tasks |-> 0] /\ held = want /\ listed = want
  /\ runner = [t \in Tasks |-> FALSE]
  /\ starved = [t \in Tasks |-> "no"]
  /\ pc = "idle"

\* The sum of f, at most Batch for each task, counted one by one.
Total(f) == Cardinality({p \in Tasks \X (1 .. Batch) : p[2] <= f[p[1]]})
With(f, t, x) == [f EXCEPT ![t] = x]

-----------------------------------------------------------------------------
(* _capacity_usage_locked *)

Excess(a, b) == IF a > b THEN a - b ELSE 0

\* ContainerLedger.snapshot: markers of live owners whose container is not
\* in the list.
Granted == Total([t \in Tasks |-> IF runner[t] THEN Excess(held[t], listed[t]) ELSE 0])

\* Mutant of Demand: a task counts once it has a state.json.
DemandOfInitialised(t) ==
  CASE phase[t] = "setup" -> Batch
    [] phase[t] = "race" -> want[t]
    [] OTHER -> 0

\* _job_container_demand: a whole batch until there are candidate records,
\* then those marked running; nothing of a task that never wrote a state.
Demand(t) ==
  CASE phase[t] \in {"starting", "setup"} -> Batch
    [] phase[t] = "race" -> want[t]
    [] OTHER -> 0

\* _job_candidate_phase_finished: between two attempts no candidate runs and
\* the status is candidates_ready.
PastRace(t) == phase[t] = "post" \/ (phase[t] = "race" /\ want[t] = 0)

\* Mutant of Active: a task takes a seat once it has a state.json.
ActiveInitialised == {t \in Tasks : phase[t] \in {"stuck", "setup", "race", "post"}}
Active == {t \in Tasks : phase[t] \in {"starting", "stuck", "setup", "race", "post"}}
Post == {t \in Active : PastRace(t)}

Waiting(t) == Excess(Demand(t), listed[t])
HasRoom == Total(listed) + Granted < limit
Initialised(t) == phase[t] \in {"setup", "race"}
Starving(t) == Waiting(t) > 0 /\ HasRoom /\ Initialised(t)

\* _candidate_runner_alive looks at candidates marked running only.
RunnerAlive(t) == phase[t] = "race" /\ want[t] > 0 /\ runner[t]
\* Mutant of Phantom: the demand of a dead runner counts for ever.
NeverPhantom(t) == FALSE
Phantom(t) == Starving(t) /\ starved[t] = "long" /\ ~RunnerAlive(t)

Extra == [t \in Tasks |-> IF Phantom(t) THEN 0 ELSE Waiting(t)]
Queued == Total([t \in Tasks |-> IF phase[t] = "race" THEN Extra[t] ELSE 0])
Estimate == Total(listed) + Total(Extra)

-----------------------------------------------------------------------------
(* The tick *)

\* The gates of scheduleMode "containers".  What else holds the tick (SkillLimit,
\* the launch interval, the disk) only delays a launch and is left open.
Open ==
  /\ Cardinality(Active \ Post) < MaxActive
  /\ Cardinality(Post) < MaxPost
  /\ Queued = 0
  /\ Estimate + 1 <= limit

\* A measurement keeps the starvation times of what it finds starving.
Measured ==
  starved' = [t \in Tasks |-> IF ~Starving(t) THEN "no"
                              ELSE IF starved[t] = "no" THEN "short"
                              ELSE starved[t]]

Hold ==
  /\ pc = "idle" /\ ~Open
  /\ Measured
  /\ UNCHANGED <<limit, taskVars, listed, pc>>

GateOpens ==
  /\ pc = "idle" /\ Open /\ pc' = "open"
  /\ Measured
  /\ UNCHANGED <<limit, taskVars, listed>>

Launch(t) ==
  /\ pc = "open" /\ pc' = "idle"
  /\ phase[t] = "pending" /\ phase' = With(phase, t, "starting")
  /\ UNCHANGED <<limit, want, held, runner, starved, listed>>

LaunchFails(t) ==
  /\ pc = "open" /\ pc' = "idle"
  /\ phase[t] = "pending" /\ phase' = With(phase, t, "over")
  /\ UNCHANGED <<limit, want, held, runner, starved, listed>>

NothingToLaunch ==
  /\ pc = "open" /\ pc' = "idle"
  /\ \A t \in Tasks : phase[t] # "pending"
  /\ UNCHANGED <<limit, taskVars, starved, listed>>

-----------------------------------------------------------------------------
(* The surroundings *)

\* A slot just granted may have no container yet; a dead runner's has none.
DockerPs ==
  /\ listed' \in [Tasks -> 0 .. Batch]
  /\ \A t \in Tasks : IF phase[t] = "race" THEN listed'[t] <= held[t] ELSE listed'[t] = 0
  /\ UNCHANGED <<limit, taskVars, starved, pc>>

LimitMoves ==
  /\ limit' \in Limits \ {limit}
  /\ UNCHANGED <<taskVars, gateVars>>

\* phantomDemandSeconds (at least 120) pass; the list is younger than that.
StarvesOn(t) ==
  /\ starved[t] = "short" /\ (phase[t] = "setup" => SlowSetup)
  /\ starved' = With(starved, t, "long")
  /\ UNCHANGED <<limit, taskVars, listed, pc>>

-----------------------------------------------------------------------------
(* A task: the executor and the skill *)

Goes(t, from, to) ==
  /\ phase[t] \in from /\ phase' = With(phase, t, to)
  /\ UNCHANGED <<limit, want, gateVars>>

Initialise(t) == Goes(t, {"starting"}, "setup") /\ UNCHANGED <<held, runner>>
NeverStarts(t) == Goes(t, {"starting"}, "stuck") /\ UNCHANGED <<held, runner>>
Decide(t) == /\ runner[t] /\ want[t] = 0
             /\ Goes(t, {"race"}, "post") /\ UNCHANGED <<held, runner>>
Ends(t) ==
  /\ Goes(t, {"starting", "stuck", "setup", "race", "post"}, "over")
  /\ runner' = With(runner, t, FALSE) /\ held' = With(held, t, 0)

StartCandidates(t) ==
  /\ phase[t] = "setup" /\ phase' = With(phase, t, "race")
  /\ want' = With(want, t, Batch) /\ runner' = With(runner, t, TRUE)
  /\ UNCHANGED <<limit, held, gateVars>>

NextAttempt(t) ==
  /\ phase[t] = "race" /\ runner[t] /\ want[t] = 0
  /\ want' = With(want, t, 1)
  /\ UNCHANGED <<limit, phase, held, runner, gateVars>>

\* The skill's limiter grants a slot, and the candidate works in it.
Grant(t) ==
  /\ phase[t] = "race" /\ runner[t] /\ want[t] > held[t]
  /\ Total(held) < limit
  /\ held' = With(held, t, held[t] + 1)
  /\ UNCHANGED <<limit, phase, want, runner, gateVars>>

CandidateEnds(t) ==
  /\ runner[t] /\ held[t] > 0
  /\ held' = With(held, t, held[t] - 1) /\ want' = With(want, t, want[t] - 1)
  /\ UNCHANGED <<limit, phase, runner, gateVars>>

\* A dead runner's candidates stay "running" in state.json.
RunnerDies(t) ==
  /\ phase[t] = "race" /\ runner[t] /\ runner' = With(runner, t, FALSE)
  /\ UNCHANGED <<limit, phase, want, held, gateVars>>

SlotFreed(t) ==
  /\ ~runner[t] /\ held[t] > 0 /\ held' = With(held, t, held[t] - 1)
  /\ UNCHANGED <<limit, phase, want, runner, gateVars>>

TaskStep(t) ==
  \/ Initialise(t) \/ NeverStarts(t) \/ StartCandidates(t)
  \/ NextAttempt(t) \/ Decide(t) \/ Ends(t)
  \/ Grant(t) \/ CandidateEnds(t) \/ RunnerDies(t) \/ SlotFreed(t)

Tick ==
  \/ Hold
  \/ GateOpens
  \/ \E t \in Tasks : Launch(t) \/ LaunchFails(t)
  \/ NothingToLaunch

Next ==
  \/ Tick
  \/ \E t \in Tasks : StarvesOn(t) \/ TaskStep(t)
  \/ DockerPs \/ LimitMoves

Proceed(t) ==
  \/ Initialise(t) \/ StartCandidates(t)
  \/ CandidateEnds(t) \/ SlotFreed(t)
  \/ phase[t] \in {"stuck", "post"} /\ Ends(t)

\* The tick loop, the docker cache and time go on.  Setups, containers and
\* work after the race end, and a live runner whose candidates are done
\* decides the race in the end: assumptions about the skill.  Nothing ends a
\* race whose runner is dead.
Fairness ==
  /\ WF_vars(Tick) /\ WF_vars(DockerPs)
  /\ \A t \in Tasks :
       /\ WF_vars(StarvesOn(t)) /\ WF_vars(Proceed(t))
       /\ SF_vars(Grant(t)) /\ SF_vars(Decide(t))

Spec == Init /\ [][Next]_vars /\ Fairness

-----------------------------------------------------------------------------
\* What live tasks are still going to use: the batch of a task on its way to
\* the race and every candidate a live runner works on or waits with.
Claim(t) ==
  CASE phase[t] \in {"starting", "setup"} -> Batch
    [] phase[t] = "race" /\ runner[t] -> want[t]
    [] OTHER -> 0

\* The gate opens only if the tasks already launched leave a slot, however
\* old the docker list is and although a launched task has no containers yet
\* (scheduler.py:2211-2217, 3977).
LaunchHasRoom ==
  [][GateOpens => Total([t \in Tasks |-> Claim(t)]) < limit]_vars

\* The live tasks stay within the seats: what has been launched counts at
\* once, and a task that goes back from candidates_ready to its race, where
\* another was launched meanwhile, does not push the rest past both caps.
SeatsBounded == Cardinality(Active) <= MaxActive + MaxPost - 1

\* Races whose runner died and that nothing ends keep their seat.
Dead == {t \in Tasks : phase[t] = "race" /\ ~runner[t]}
SeatsLeft ==
  /\ Cardinality(Dead \ Post) < MaxActive
  /\ Cardinality(Dead \cap Post) < MaxPost

\* A pending item is launched in the end once the limit is not lowered any
\* more, although executors died with candidates still marked running, as
\* long as the dead do not take every seat (scheduler.py:2231-2234).
PendingIsTried ==
  /\ <>[]SeatsLeft
  /\ <>[][~LimitMoves]_vars
  => \A t \in Tasks : (phase[t] = "pending") ~> (phase[t] # "pending")
=============================================================================
