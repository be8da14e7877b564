----------------------------- MODULE SkillLimit -----------------------------
(***************************************************************************)
(* The container limit and its copy in container-limit.json, which the     *)
(* skill's limiter reads (api/scheduler.py: _max_containers_limit, the     *)
(* prompt pin, sync_skill_limits, the drift gate of tick).  Prompts of an  *)
(* older template name a hard cap; while such a task has not decided its   *)
(* candidate race the limit is pinned to the lowest cap, unless the page   *)
(* saved a limit since.  The tick and a request of the page both publish   *)
(* the limit, each computing it first and writing it later.                *)
(***************************************************************************)
EXTENDS Naturals, FiniteSets, FiniteSetsExt

CONSTANTS Tasks,    \* queue items
          Cap,      \* the cap named in a task's prompt, 0 for none
          Abs       \* SKILL_ABSOLUTE_MAX_CONTAINERS

ASSUME CapAssumption == Abs \in Nat \ {0} /\ Cap \in [Tasks -> 0 .. Abs]

VARIABLES wanted,   \* the limit without a pin: maxContainers or the elastic one
          paused,   \* automation.paused
          pin,      \* _prompt_pin.limit, 0 for none
          waived,   \* _prompt_pin_waived
          file,     \* maxContainers in container-limit.json
          pc,       \* how far the tick is
          page,     \* how far the request of the page is
          pending,  \* per thread: the limit it computed and is about to write
          hold,     \* _skill_limit_resynced_at is less than a refresh ago
          race,     \* the task of an item: its candidate race
          overruled \* history: tasks running when the page last saved a limit

limits == <<wanted, pin, waived>>
vars == <<limits, paused, file, pc, page, pending, hold, race, overruled>>

Threads == {"tick", "page"}
Nothing == 0

TypeOK ==
  /\ wanted \in 1 .. Abs /\ paused \in BOOLEAN /\ hold \in BOOLEAN
  /\ pin \in {0} \cup {Cap[t] : t \in Tasks}
  /\ waived \subseteq Tasks /\ overruled \subseteq Tasks
  /\ file \in 1 .. Abs
  /\ pc \in {"idle", "pinned", "stepped", "open"}
  /\ page \in {"idle", "saved", "waived", "writing"}
  /\ pending \in [Threads -> 0 .. Abs]
  /\ race \in [Tasks -> {"pending", "racing", "between", "decided", "over"}]

\* _max_containers_limit
LimitOf(w, p) == IF p = 0 \/ w <= p THEN w ELSE p
Limit == LimitOf(wanted, pin)

\* JobManager.running, and the tasks _job_candidate_race_over lets go:
\* between two attempts the skill writes candidates_ready, which is not over.
Running == {t \in Tasks : race[t] \in {"racing", "between", "decided"}}
Undecided == {t \in Tasks : race[t] \in {"racing", "between"}}
\* Mutant of RaceNotOver: candidates_ready between attempts counts as over.
Racing == {t \in Tasks : race[t] = "racing"}
RaceNotOver == Undecided

Init ==
  /\ wanted \in 1 .. Abs /\ paused \in BOOLEAN
  /\ pin = 0 /\ waived = {} /\ overruled = {}
  /\ file = wanted
  /\ pc = "idle" /\ page = "idle" /\ hold = FALSE
  /\ pending = [h \in Threads |-> Nothing]
  /\ race = [t \in Tasks |-> "pending"]

-----------------------------------------------------------------------------
\* sync_skill_limits computes the limit; write_limits writes it later.
Publish(h, n) == pending' = [pending EXCEPT ![h] = n]
Published(h) == pending[h] = Nothing

Write(h) ==
  /\ pending[h] # Nothing
  /\ file' = pending[h]
  /\ pending' = [pending EXCEPT ![h] = Nothing]
  /\ page' = IF h = "page" THEN "idle" ELSE page
  /\ UNCHANGED <<limits, paused, pc, hold, race, overruled>>

\* The tick holds the queue lock from here until it is idle again.
TickAt(where) == pc = where /\ Published("tick")

\* _refresh_prompt_pin_locked
Pinning(w) == {t \in RaceNotOver : Cap[t] # 0 /\ t \notin w}
RefreshPin ==
  /\ TickAt("idle") /\ pc' = "pinned"
  /\ waived' = waived \cap Running
  /\ LET caps == {Cap[t] : t \in Pinning(waived')}
     IN pin' = IF caps = {} THEN 0 ELSE Min(caps)
  /\ IF pin' = pin THEN UNCHANGED pending
     ELSE Publish("tick", LimitOf(wanted, pin'))
  /\ UNCHANGED <<wanted, paused, file, page, hold, race, overruled>>

\* The elastic limit moves (ElasticLimit), below the pin, or stays.
ElasticStep ==
  /\ TickAt("pinned") /\ pc' = "stepped"
  /\ \/ UNCHANGED <<wanted, pending>>
     \/ /\ wanted' \in 1 .. LimitOf(Abs, pin)
        /\ Publish("tick", wanted')
  /\ UNCHANGED <<pin, waived, paused, file, page, hold, race, overruled>>

\* The gates of tick: paused, drift repaired, executors still to reread.
PausedGate ==
  /\ TickAt("stepped") /\ paused /\ pc' = "idle"
  /\ UNCHANGED <<limits, paused, file, page, pending, hold, race, overruled>>

\* Mutant of RepairDrift: the unpinned limit is published.
RepairDriftUnpinned ==
  /\ TickAt("stepped") /\ ~paused /\ file # Limit /\ pc' = "idle"
  /\ Publish("tick", wanted) /\ hold' = TRUE
  /\ UNCHANGED <<limits, paused, file, page, race, overruled>>

RepairDrift ==
  /\ TickAt("stepped") /\ ~paused /\ file # Limit /\ pc' = "idle"
  /\ Publish("tick", Limit) /\ hold' = TRUE
  /\ UNCHANGED <<limits, paused, file, page, race, overruled>>

HoldGate ==
  /\ TickAt("stepped") /\ ~paused /\ file = Limit /\ hold /\ pc' = "idle"
  /\ UNCHANGED <<limits, paused, file, page, pending, hold, race, overruled>>

GateOpens ==
  /\ TickAt("stepped") /\ ~paused /\ file = Limit /\ ~hold /\ pc' = "open"
  /\ UNCHANGED <<limits, paused, file, page, pending, hold, race, overruled>>

\* The launch of an item, or none (Capacity).
Launch(t) ==
  /\ TickAt("open") /\ pc' = "idle" /\ race[t] = "pending"
  /\ race' = [race EXCEPT ![t] = "racing"]
  /\ overruled' = overruled \ {t}
  /\ UNCHANGED <<limits, paused, file, page, pending, hold>>

NoLaunch ==
  /\ TickAt("open") /\ pc' = "idle"
  /\ UNCHANGED <<limits, paused, file, page, pending, hold, race, overruled>>

HoldEnds ==
  /\ hold /\ hold' = FALSE
  /\ UNCHANGED <<limits, paused, file, pc, page, pending, race, overruled>>

-----------------------------------------------------------------------------
(* A request of the page: _set_limits *)

SaveLimit ==
  /\ page = "idle" /\ page' = "saved"
  /\ wanted' \in 1 .. Abs
  /\ UNCHANGED <<pin, waived, paused, file, pc, pending, hold, race, overruled>>

\* Mutant of WaivePin: the running tasks are not remembered.
WaivePinOnce ==
  /\ page = "saved" /\ page' = "waived" /\ TickAt("idle")
  /\ wanted' \in 1 .. Abs
  /\ pin' = 0 /\ UNCHANGED waived
  /\ overruled' = Running
  /\ UNCHANGED <<paused, file, pc, pending, hold, race>>

\* reset_elastic and waive_prompt_pin, under the queue lock.
WaivePin ==
  /\ page = "saved" /\ page' = "waived" /\ TickAt("idle")
  /\ wanted' \in 1 .. Abs
  /\ pin' = 0 /\ waived' = waived \cup Running
  /\ overruled' = Running
  /\ UNCHANGED <<paused, file, pc, pending, hold, race>>

PublishSaved ==
  /\ page = "waived" /\ page' = "writing"
  /\ Publish("page", Limit)
  /\ UNCHANGED <<limits, paused, file, pc, hold, race, overruled>>

TogglePause ==
  /\ paused' = ~paused
  /\ UNCHANGED <<limits, file, pc, page, pending, hold, race, overruled>>

-----------------------------------------------------------------------------
\* The task of an item, and its return to the queue.
RaceStep(t, from, to) ==
  /\ race[t] \in from
  /\ race' = [race EXCEPT ![t] = to]
  /\ UNCHANGED <<limits, paused, file, pc, page, pending, hold, overruled>>

Task(t) ==
  \/ RaceStep(t, {"racing"}, "between")
  \/ RaceStep(t, {"between"}, "racing")
  \/ RaceStep(t, {"racing", "between"}, "decided")
  \/ RaceStep(t, {"racing", "between", "decided"}, "over")
  \/ pc = "idle" /\ RaceStep(t, {"over"}, "pending")

\* Another program writes container-limit.json.
ForeignWrite ==
  /\ file' \in (1 .. Abs) \ {file}
  /\ UNCHANGED <<limits, paused, pc, page, pending, hold, race, overruled>>

\* A new process: the pin and the waivers are gone, and __init__ publishes
\* the limit without them.
Restart ==
  /\ pin' = 0 /\ waived' = {} /\ overruled' = {}
  /\ pc' = "idle" /\ page' = "idle" /\ hold' = FALSE
  /\ pending' = [h \in Threads |-> IF h = "tick" THEN wanted ELSE Nothing]
  /\ UNCHANGED <<wanted, paused, file, race>>

Gate == PausedGate \/ RepairDrift \/ HoldGate \/ GateOpens

TickStep ==
  \/ RefreshPin
  \/ ElasticStep
  \/ Gate
  \/ \E t \in Tasks : Launch(t)
  \/ NoLaunch
  \/ Write("tick")

PageStep == SaveLimit \/ WaivePin \/ PublishSaved \/ Write("page")

Next ==
  \/ TickStep
  \/ PageStep
  \/ TogglePause
  \/ HoldEnds
  \/ \E t \in Tasks : Task(t)
  \/ ForeignWrite
  \/ Restart

\* The tick loop runs as long as the process lives; a request ends.
Fairness ==
  /\ WF_vars(TickStep)
  /\ WF_vars(WaivePin) /\ WF_vars(PublishSaved) /\ WF_vars(Write("page"))

Spec == Init /\ [][Next]_vars /\ Fairness

-----------------------------------------------------------------------------
\* When the gate opens, the limit the executors read is within the cap of
\* every old prompt whose race is undecided and that no saved limit has
\* overruled, whatever happened to the process and to the file before
\* (scheduler.py:1368-1376, 3907-3925).
GateWithinCaps ==
  [][GateOpens => \A t \in Undecided \ overruled :
                    Cap[t] = 0 \/ file <= Cap[t]]_vars

\* A saved limit applies at once: tasks that ran when it was saved never pin
\* the limit again (waive_prompt_pin, scheduler.py:1423).
OverruledStaysOverruled ==
  pin # 0 => \E t \in Tasks \ overruled : Cap[t] = pin

\* Two writers, a foreign one and restarts notwithstanding, the skill ends
\* up with the monitor's limit once page and file are left alone.
FileFollows ==
  /\ <>[]~paused
  /\ <>[][~(SaveLimit \/ ForeignWrite \/ Restart)]_vars
  => []<>(file = Limit)
=============================================================================
