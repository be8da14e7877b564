---------------------------- MODULE ElasticLimit ----------------------------
(***************************************************************************)
(* The elastic container limit (api/scheduler.py, _elastic_step_locked):   *)
(* down by one when 429 retries cost time, up by one when the containers   *)
(* are full and the model is quiet, and at a new hour straight to what     *)
(* held at this hour before.  elastic.json keeps it over a restart; the    *)
(* 429 reports of the last minutes and the cap of old prompts are in       *)
(* memory only.                                                            *)
(*                                                                         *)
(* Times are ages, in units of SKILL_SETTINGS_REFRESH_SECONDS, each capped *)
(* at the largest threshold the code compares it with.                     *)
(***************************************************************************)
EXTENDS Integers

CONSTANTS Abs,        \* SKILL_ABSOLUTE_MAX_CONTAINERS
          Ceiling,    \* elasticContainers.ceiling
          Bases,      \* values of maxContainers the page may save
          Pins,       \* caps of old prompts; 0 stands for none
          HoursPerDay, \* 24
          HourLength, \* length of an hour
          Refresh,    \* SKILL_SETTINGS_REFRESH_SECONDS
          Window,     \* RATE_LIMIT_WINDOW_SECONDS
          StepUp, Cooldown, Stable  \* stepUp-, cooldown-, stableSeconds

LimitParameters ==
  /\ Abs \in Nat /\ Bases \subseteq 1 .. Abs /\ Ceiling \in 1 .. Abs
  /\ Pins \subseteq 0 .. Abs
HourParameters == HourLength \in Nat \ {0} /\ HoursPerDay \in Nat \ {0}
\* _elastic_cfg keeps both intervals at or above the refresh.
TimeParameters ==
  /\ {Refresh, Window, StepUp, Cooldown, Stable} \subseteq Nat \ {0}
  /\ Refresh <= StepUp /\ Refresh <= Cooldown /\ Refresh < Window
Parameters == LimitParameters /\ HourParameters /\ TimeParameters
ASSUME ElasticAssumption == Parameters

VARIABLES base,     \* maxContainers, the floor
          enabled,  \* elasticContainers.enabled
          el,       \* QueueManager._elastic
          disk,     \* elastic.json
          hits,     \* _rl_hits: age of the last severe and last noticeable one
          pin,      \* _prompt_pin.limit, 0 for none
          hour,     \* hour of the day and how much of it is over
          asked,    \* the reset a request of the page still has to make
          calm,     \* history: age of the last severe 429 this process saw
          lowered   \* history: age of the last step down

config == <<base, enabled>>
limits == <<el, disk>>
history == <<calm, lowered>>
vars == <<config, limits, hits, pin, hour, asked, history>>

Larger(a, b) == IF a >= b THEN a ELSE b
Smaller(a, b) == IF a <= b THEN a ELSE b

\* An age that has reached its cap stays there.
Older(a, cap) == Smaller(a + 1, cap)
LongChange == Larger(Stable, StepUp)
LongPressure == Larger(Stable, Cooldown)

Hours == 0 .. HoursPerDay - 1
NoHour == HoursPerDay
Unset == 0   \* no "limit" in elastic.json

Elastic == [limit: 0 .. Abs,             \* "limit", or Unset
            hour: Hours \cup {NoHour},   \* "hour" it was last compared in
            change: 0 .. LongChange,     \* since lastChangeAt
            down: 0 .. Refresh,          \* since lastDownAt
            pressure: 0 .. LongPressure, \* since lastPressureAt
            learned: [Hours -> 0 .. Abs]] \* 0: nothing, or older than a week

Fresh == [limit |-> Unset, hour |-> NoHour, change |-> LongChange,
          down |-> Refresh, pressure |-> LongPressure,
          learned |-> [h \in Hours |-> 0]]

NoHits == [severe |-> Window, some |-> Window]

TypeOK ==
  /\ base \in Bases /\ enabled \in BOOLEAN
  /\ el \in Elastic /\ disk \in Elastic
  /\ hits \in [severe: 0 .. Window, some: 0 .. Window]
  /\ pin \in Pins \cup {0}
  /\ hour \in [now: Hours, over: 0 .. HourLength - 1]
  /\ calm \in 0 .. Window /\ lowered \in 0 .. Cooldown
  /\ asked \in {"nothing", "floor", "learned"}

Init ==
  /\ base \in Bases /\ enabled \in BOOLEAN
  /\ el = Fresh /\ disk = Fresh
  /\ hits = NoHits /\ pin = 0
  /\ hour = [now |-> 0, over |-> 0]
  /\ calm = Window /\ lowered = Cooldown
  /\ asked = "nothing"

-----------------------------------------------------------------------------
\* _elastic_cfg: the ceiling is never below the floor.
Top == Larger(base, Ceiling)

Capped(n) == IF pin = 0 THEN n ELSE Smaller(n, pin)

\* _max_containers_limit, without and with the prompt pin.
Wanted == IF enabled /\ el.limit # Unset THEN Larger(base, Smaller(el.limit, Top)) ELSE base
Limit == Capped(Wanted)

\* _learn_limit: a stable limit only raises what the hour remembers.
Learned(e, n) == [e EXCEPT !.learned[hour.now] = Larger(@, n)]
Lowered(e, n) == [e EXCEPT !.learned[hour.now] = n]

\* Mutant of MovedDown: only what the hour learned goes down.
LearnedDown(e) ==
  [Lowered(e, Limit - 1) EXCEPT !.change = 0, !.down = 0, !.pressure = 0]

\* move of _elastic_step_locked, up and down.
MovedUp(e, n) == [e EXCEPT !.limit = n, !.change = 0]
MovedDown(e) ==
  [Lowered(e, Limit - 1) EXCEPT !.limit = Limit - 1, !.change = 0, !.down = 0,
                                !.pressure = 0]

\* The reports themselves are saved before they are judged.
SavedReports(traffic) == IF traffic = "quiet" THEN disk ELSE el

\* Pressure: at most one step down per refresh; at the floor the pressure is
\* remembered, and saved only when it is logged.
StepDown ==
  /\ el.down >= Refresh /\ Limit > base
  /\ el' = MovedDown(el) /\ disk' = el'
  /\ hits' = NoHits
  /\ lowered' = 0

HoldAtFloor(h, traffic) ==
  /\ el.down >= Refresh /\ Limit <= base
  /\ el' = [el EXCEPT !.pressure = 0]
  /\ disk' \in {SavedReports(traffic), el'}
  /\ hits' = h
  /\ UNCHANGED lowered

JustLowered(h, traffic) ==
  /\ el.down < Refresh
  /\ disk' = SavedReports(traffic)
  /\ hits' = h
  /\ UNCHANGED <<el, lowered>>

UnderPressure(h, traffic) ==
  StepDown \/ HoldAtFloor(h, traffic) \/ JustLowered(h, traffic)

\* The new hour goes to what held at this hour before, below the pin.
Resumable(e) == Capped(Smaller(e.learned[hour.now], Top))
Resumes(e) ==
  /\ e.hour # hour.now
  /\ Resumable(e) > Limit /\ e.pressure >= Cooldown

\* Mutant of MayStepUp: it stops one below the ceiling.
StepsUpShort(e, h, waiting) ==
  /\ Limit + 1 < Capped(Top)
  /\ h.some >= Window /\ e.pressure >= Cooldown /\ e.change >= StepUp /\ waiting

\* The last gates before a step up.
MayStepUp(e, h, waiting) ==
  /\ Limit < Capped(Top)
  /\ h.some >= Window
  /\ e.pressure >= Cooldown /\ e.change >= StepUp
  /\ waiting

Held(e, full) == full /\ e.change >= Stable /\ e.pressure >= Stable

\* The rest of _elastic_step_locked without pressure: learn, resume or step.
Quiet(h, traffic, full, waiting) ==
  LET e1 == IF Held(el, full) THEN Learned(el, Limit) ELSE el
      e2 == [e1 EXCEPT !.hour = hour.now]
  IN  /\ el' = IF Resumes(e1) THEN MovedUp(e2, Resumable(e2))
               ELSE IF MayStepUp(e2, h, waiting) THEN MovedUp(e2, Limit + 1)
               ELSE e2
      /\ disk' = IF el' = el THEN SavedReports(traffic) ELSE el'
      /\ hits' = h
      /\ UNCHANGED lowered

\* A tick's step.  traffic: the worst of the 429 reports read by this scan,
\* full: containers and granted slots reach the limit, waiting: full and a
\* candidate or a pending item waits.
Step(traffic, full, waiting) ==
  LET h == [severe |-> IF traffic = "severe" THEN 0 ELSE hits.severe,
            some |-> IF traffic # "quiet" THEN 0 ELSE hits.some]
  IN  /\ enabled
      /\ (waiting => full)
      /\ IF h.severe < Window THEN UnderPressure(h, traffic)
         ELSE Quiet(h, traffic, full, waiting)
      /\ calm' = IF traffic = "severe" THEN 0 ELSE calm
      /\ UNCHANGED <<config, pin, hour, asked>>

-----------------------------------------------------------------------------
\* Mutant of Kept: the reset forgets the last pressure.
KeptWithoutPressure == [Fresh EXCEPT !.learned = el.learned]

\* reset_elastic.
Kept == [Fresh EXCEPT !.pressure = el.pressure, !.learned = el.learned]
ResetFromFloor == [Kept EXCEPT !.hour = hour.now, !.change = 0]
ResetToLearned ==
  IF el.learned[hour.now] = 0 THEN Kept
  ELSE [Kept EXCEPT !.limit = el.learned[hour.now], !.hour = hour.now]

\* _set_limits: the configuration is saved first, without the queue lock.
SaveFloor ==
  /\ asked = "nothing"
  /\ base' \in Bases \ {base} /\ UNCHANGED enabled
  /\ asked' = "floor"
  /\ UNCHANGED <<limits, hits, pin, hour, history>>

Toggle ==
  /\ asked = "nothing"
  /\ enabled' = ~enabled /\ UNCHANGED base
  /\ asked' = "learned"
  /\ UNCHANGED <<limits, hits, pin, hour, history>>

\* Then reset_elastic, with waive_prompt_pin behind it.
Reset ==
  /\ asked # "nothing" /\ asked' = "nothing"
  /\ el' = IF asked = "floor" THEN ResetFromFloor ELSE ResetToLearned
  /\ disk' = el'
  /\ hits' = NoHits /\ pin' = 0
  /\ UNCHANGED <<config, hour, history>>

\* _refresh_prompt_pin_locked: which old prompts are still racing is open.
RefreshPin ==
  /\ pin' \in (Pins \cup {0}) \ {pin}
  /\ UNCHANGED <<config, limits, hits, hour, asked, history>>

\* The process dies and the next one reads elastic.json.
Restart ==
  /\ el' = disk
  /\ hits' = NoHits /\ pin' = 0 /\ asked' = "nothing"
  /\ calm' = Window
  /\ UNCHANGED <<config, disk, hour, lowered>>

\* _learned_limit: an entry of more than seven days no longer counts.
Expire(h) ==
  /\ el.learned[h] # 0
  /\ el' = [el EXCEPT !.learned[h] = 0]
  /\ disk' = [disk EXCEPT !.learned[h] = 0]
  /\ UNCHANGED <<config, hits, pin, hour, asked, history>>

Aged(e) == [e EXCEPT !.change = Older(@, LongChange), !.down = Older(@, Refresh),
                     !.pressure = Older(@, LongPressure)]

NextHour(h) ==
  IF h.over < HourLength - 1 THEN [h EXCEPT !.over = @ + 1]
  ELSE [now |-> (h.now + 1) % HoursPerDay, over |-> 0]

Clock ==
  /\ hour' = NextHour(hour)
  /\ el' = Aged(el) /\ disk' = Aged(disk)
  /\ hits' = [a \in {"severe", "some"} |-> Older(hits[a], Window)]
  /\ calm' = Older(calm, Window) /\ lowered' = Older(lowered, Cooldown)
  /\ UNCHANGED <<config, pin, asked>>

TickStep ==
  \E traffic \in {"quiet", "some", "severe"}, full, waiting \in BOOLEAN :
    Step(traffic, full, waiting)

Page == SaveFloor \/ Toggle \/ Reset

Next ==
  \/ TickStep
  \/ Page
  \/ RefreshPin
  \/ Restart
  \/ \E h \in Hours : Expire(h)
  \/ Clock

\* The tick loop runs as long as the process lives, and time passes.
Fairness == WF_vars(TickStep) /\ WF_vars(Clock)

Spec == Init /\ [][Next]_vars /\ Fairness

-----------------------------------------------------------------------------
\* A step of the tick loop raises the limit only when the last step down is
\* a whole cooldown ago and no severe 429 this process read is still inside
\* the window, whatever the page reset and however often the process was
\* restarted in between (README.md:238): reset_elastic keeps lastPressureAt,
\* every step down is saved, but a step down and a reset clear the hits.
\* A cooldown shorter than window and refresh, which the page may choose below
\* the defaults (600 s against 300 s and 180 s), leaves the second half open.
RaisesAfterCooldown ==
  [][TickStep /\ Limit' > Limit => lowered >= Cooldown /\ calm >= Window]_vars

\* Full containers, waiting work and a quiet model: the limit ends at the
\* ceiling, or at the cap of the old prompts.
QuietReachesCeiling ==
  <>[]enabled /\ <>[][Step("quiet", TRUE, TRUE) \/ Clock]_vars
    => <>[](Limit = Capped(Top))

\* Lasting 429s: the limit ends at the floor, whatever was learned before.
PressureReachesFloor ==
  <>[]enabled /\ <>[][(\E full \in BOOLEAN : Step("severe", full, FALSE)) \/ Clock]_vars
    => <>[](Limit = Capped(base))
=============================================================================
