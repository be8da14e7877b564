------------------------- MODULE SkillLimit_proofs -------------------------
(***************************************************************************)
(* Theorems about the container limit, for any set of items, caps and      *)
(* times: how the skill gets it (SkillLimit), and how it moves             *)
(* (ElasticLimit, an instance that shares the prompt pin).                 *)
(*                                                                         *)
(* SkillLimit.  A saved limit is never pinned down again by a task that    *)
(* ran when it was saved (OverruledStaysOverruled), and the limit the      *)
(* executors read when the gate opens is within the cap of every other     *)
(* undecided task (GateWithinCaps).  Between the refresh of the pin and    *)
(* the gate the queue lock is held, and PinCovers says what the lock       *)
(* protects: the pin is at most every cap that still counts.  The waivers  *)
(* and the history agree on the running tasks (WaiversKnown), and a waived *)
(* task is back in the queue only until the next refresh (WaivedStarted).  *)
(*                                                                         *)
(* ElasticLimit.  The limit is raised only a cooldown after the last step  *)
(* down and with no severe 429 in the window (RaisesAfterCooldown): a step *)
(* down is remembered as pressure, in elastic.json as well (Remembered),   *)
(* and a severe 429 that lowers nothing comes less than a refresh after a  *)
(* step down (CalmCounts).                                                 *)
(***************************************************************************)
EXTENDS SkillLimit, WellFoundedInduction, TLAPS

\* Of the running tasks, those waived are those a saved limit overruled.
WaiversKnown == \A t \in Running : t \in waived <=> t \in overruled

\* From the refresh of the pin to the end of the tick no waived task waits.
WaivedStarted == pc # "idle" => \A t \in waived : race[t] # "pending"

\* Until the gate, the pin is at most the cap of each task that counts.
PinCovers ==
  pc \in {"pinned", "stepped"} =>
    \A t \in Undecided \ overruled : Cap[t] = 0 \/ (pin # 0 /\ pin <= Cap[t])

Inv == /\ TypeOK /\ OverruledStaysOverruled
       /\ WaiversKnown /\ WaivedStarted /\ PinCovers

-----------------------------------------------------------------------------
\* "Less than" on the naturals, as a relation the library's theorem takes.
Below == {ss \in Nat \X Nat : ss[1] < ss[2]}

\* Min of a set of naturals, finite or not, is its least element.
LEMMA MinIsLeast ==
  ASSUME NEW S \in SUBSET Nat, S # {}
  PROVE  Min(S) \in S /\ \A y \in S : Min(S) <= y
  <1>1. IsWellFoundedOn(Below, Nat)
    BY NatLessThanWellFounded, Zenon DEF OpToRel, Below
  <1>2. PICK m \in S : \A y \in S : ~ (<<y, m>> \in Below)
    BY <1>1, WFMin, Zenon
  <1>3. \A y \in S : ~ (y < m)
    BY <1>2 DEF Below
  <1>4. \A y \in S : m <= y
    BY <1>3
  <1> QED
    BY <1>4 DEF Min

\* A pin only lowers the limit, and never below 1.
LEMMA LimitBounded ==
  ASSUME NEW w \in 1 .. Abs, NEW p \in 0 .. Abs
  PROVE  /\ LimitOf(w, p) \in 1 .. Abs
         /\ p # 0 => LimitOf(w, p) <= p
  BY CapAssumption DEF LimitOf

\* A published limit is one.
LEMMA PublishedTyped ==
  ASSUME TypeOK, NEW h, NEW n \in 1 .. Abs, Publish(h, n)
  PROVE  pending' \in [Threads -> 0 .. Abs]
  <1>1. n \in 0 .. Abs
    BY CapAssumption
  <1> QED
    BY <1>1 DEF Publish, TypeOK

\* The pin is a limit, or 0.
LEMMA PinBounded ==
  ASSUME TypeOK
  PROVE  pin \in 0 .. Abs
  BY CapAssumption DEF TypeOK

\* What a refreshed pin is worth: it comes from a pinning task, and it is at
\* most the cap of each of them.
LEMMA RefreshedPin ==
  ASSUME NEW w, NEW p,
         p = LET caps == {Cap[t] : t \in Pinning(w)}
             IN IF caps = {} THEN 0 ELSE Min(caps)
  PROVE  /\ p # 0 => \E t \in Pinning(w) : Cap[t] = p
         /\ \A t \in Pinning(w) : p # 0 /\ p <= Cap[t]
         /\ p \in {0} \cup {Cap[t] : t \in Tasks}
  <1> DEFINE caps == {Cap[t] : t \in Pinning(w)}
  <1>1. Pinning(w) \subseteq Tasks
    BY DEF Pinning, RaceNotOver, Undecided
  <1>2. caps \in SUBSET Nat
    BY <1>1, CapAssumption
  <1>3. CASE caps = {}
    BY <1>3
  <1>4. CASE caps # {}
    <2>1. p \in caps /\ \A y \in caps : p <= y
      BY <1>2, <1>4, MinIsLeast
    <2>2. \A t \in Pinning(w) : Cap[t] # 0
      BY DEF Pinning
    <2> QED
      BY <1>1, <2>1, <2>2
  <1> QED
    BY <1>3, <1>4

-----------------------------------------------------------------------------
LEMMA InitInv == Init => Inv
  <1> SUFFICES ASSUME Init PROVE Inv
    OBVIOUS
  <1>1. TypeOK
    <2>1. pending \in [Threads -> 0 .. Abs]
      BY CapAssumption DEF Init, Nothing
    <2> QED
      BY <2>1 DEF Init, TypeOK
  <1> QED
    BY <1>1 DEF Init, Inv, OverruledStaysOverruled, WaiversKnown,
                WaivedStarted, PinCovers, Running

\* The step that decides the pin makes every part of the invariant anew.
LEMMA RefreshInv == Inv /\ RefreshPin => Inv'
  <1> SUFFICES ASSUME Inv, RefreshPin PROVE Inv'
    OBVIOUS
  <1> USE DEF Inv
  <1>1. /\ waived' = waived \cap Running /\ pc' = "pinned"
        /\ race' = race /\ overruled' = overruled
    BY DEF RefreshPin
  <1>2. /\ pin' # 0 => \E t \in Pinning(waived') : Cap[t] = pin'
        /\ \A t \in Pinning(waived') : pin' # 0 /\ pin' <= Cap[t]
        /\ pin' \in {0} \cup {Cap[t] : t \in Tasks}
    BY RefreshedPin DEF RefreshPin
  <1>3. Pinning(waived') = {t \in Undecided : Cap[t] # 0 /\ t \notin overruled}
    BY <1>1 DEF Pinning, RaceNotOver, Undecided, Running, WaiversKnown
  <1>4. TypeOK'
    <2>1. pin' \in 0 .. Abs
      BY <1>2, CapAssumption
    <2>2. LimitOf(wanted, pin') \in 1 .. Abs
      BY <2>1, LimitBounded DEF TypeOK
    <2>3. pending' \in [Threads -> 0 .. Abs]
      <3>1. CASE UNCHANGED pending
        BY <3>1 DEF TypeOK
      <3>2. CASE Publish("tick", LimitOf(wanted, pin'))
        BY <2>2, <3>2, PublishedTyped
      <3> QED
        BY <3>1, <3>2 DEF RefreshPin
    <2>4. wanted' = wanted /\ paused' = paused /\ file' = file
          /\ page' = page /\ hold' = hold
      BY DEF RefreshPin
    <2> QED
      BY <1>1, <1>2, <2>4, <2>3 DEF TypeOK
  <1>5. OverruledStaysOverruled'
    BY <1>1, <1>2, <1>3 DEF OverruledStaysOverruled, Undecided
  <1>6. WaiversKnown' /\ WaivedStarted'
    BY <1>1 DEF WaiversKnown, WaivedStarted, Running
  <1>7. PinCovers'
    BY <1>1, <1>2, <1>3 DEF PinCovers, Undecided
  <1> QED
    BY <1>4, <1>5, <1>6, <1>7

LEMMA NextInv == Inv /\ [Next]_vars => Inv'
  <1> SUFFICES ASSUME Inv, [Next]_vars PROVE Inv'
    OBVIOUS
  <1> USE DEF Inv
  <1>p. pin \in 0 .. Abs /\ Abs \in Nat \ {0}
    BY PinBounded, CapAssumption
  <1>l. LimitOf(wanted, pin) \in 1 .. Abs
    BY <1>p, LimitBounded DEF TypeOK
  <1>1. CASE RefreshPin
    BY <1>1, RefreshInv
  <1>2. CASE ElasticStep
    <2>1. CASE UNCHANGED <<wanted, pending>>
      BY <1>2, <2>1 DEF ElasticStep, TypeOK, OverruledStaysOverruled,
         WaiversKnown, WaivedStarted, PinCovers, Running, Undecided, TickAt
    <2>2. CASE wanted' \in 1 .. LimitOf(Abs, pin) /\ Publish("tick", wanted')
      <3>1. LimitOf(Abs, pin) \in 1 .. Abs
        BY <1>p, LimitBounded
      <3>2. wanted' \in 1 .. Abs
        BY <2>2, <3>1, <1>p
      <3>3. pending' \in [Threads -> 0 .. Abs]
        BY <2>2, <3>2, PublishedTyped
      <3> QED
        BY <1>2, <3>2, <3>3 DEF ElasticStep, TypeOK, OverruledStaysOverruled,
           WaiversKnown, WaivedStarted, PinCovers, Running, Undecided, TickAt
    <2> QED
      BY <1>2, <2>1, <2>2 DEF ElasticStep
  <1>3. CASE Gate
    <2>1. pending' \in [Threads -> 0 .. Abs]
      BY <1>3, <1>l DEF Gate, PausedGate, RepairDrift, HoldGate, GateOpens,
         Publish, Limit, TypeOK
    <2>2. /\ UNCHANGED <<wanted, pin, waived, file, page, race, overruled,
                         paused>>
          /\ hold' \in BOOLEAN /\ pc' \in {"idle", "open"} /\ pc = "stepped"
      BY <1>3 DEF Gate, PausedGate, RepairDrift, HoldGate, GateOpens, limits,
         TickAt, TypeOK
    <2> QED
      BY <2>1, <2>2 DEF TypeOK, OverruledStaysOverruled, WaiversKnown,
         WaivedStarted, PinCovers, Running, Undecided
  <1>4. ASSUME NEW t \in Tasks, Launch(t) PROVE Inv'
    <2>1. /\ race' = [race EXCEPT ![t] = "racing"] /\ race[t] = "pending"
          /\ overruled' = overruled \ {t} /\ pc = "open" /\ pc' = "idle"
          /\ UNCHANGED <<wanted, pin, waived, paused, file, page, pending, hold>>
      BY <1>4 DEF Launch, limits, TickAt
    <2>2. TypeOK'
      BY <2>1 DEF TypeOK
    <2>3. t \notin waived
      BY <2>1 DEF WaivedStarted
    <2>4. WaiversKnown'
      BY <2>1, <2>3 DEF WaiversKnown, Running, TypeOK
    <2>5. OverruledStaysOverruled'
      BY <2>1 DEF OverruledStaysOverruled
    <2> QED
      BY <2>1, <2>2, <2>4, <2>5 DEF WaivedStarted, PinCovers
  <1>5. CASE NoLaunch
    BY <1>5 DEF NoLaunch, limits, TypeOK, OverruledStaysOverruled,
       WaiversKnown, WaivedStarted, PinCovers, Running
  <1>6. ASSUME NEW h \in Threads, Write(h) PROVE Inv'
    <2>1. pending[h] \in 1 .. Abs /\ 0 \in 0 .. Abs
      BY <1>6, <1>p DEF Write, Nothing, TypeOK
    <2>2. file' \in 1 .. Abs /\ pending' \in [Threads -> 0 .. Abs]
          /\ page' \in {"idle", "saved", "waived", "writing"}
      BY <1>6, <2>1 DEF Write, Nothing, TypeOK
    <2>3. UNCHANGED <<wanted, pin, waived, paused, pc, hold, race, overruled>>
      BY <1>6 DEF Write, limits
    <2> QED
      BY <2>2, <2>3 DEF TypeOK, OverruledStaysOverruled, WaiversKnown,
         WaivedStarted, PinCovers, Running, Undecided
  <1>7. CASE SaveLimit
    BY <1>7 DEF SaveLimit, TypeOK, OverruledStaysOverruled, WaiversKnown,
       WaivedStarted, PinCovers, Running, Undecided
  <1>8. CASE WaivePin
    <2>1. /\ pin' = 0 /\ waived' = waived \cup Running /\ overruled' = Running
          /\ race' = race /\ pc' = pc /\ pc = "idle"
      BY <1>8 DEF WaivePin, TickAt
    <2>2. TypeOK'
      BY <1>8 DEF WaivePin, TypeOK, Running
    <2>3. WaiversKnown'
      BY <2>1 DEF WaiversKnown, Running
    <2> QED
      BY <2>1, <2>2, <2>3 DEF OverruledStaysOverruled, WaivedStarted, PinCovers
  <1>9. CASE PublishSaved
    <2>1. pending' \in [Threads -> 0 .. Abs]
      BY <1>9, <1>l, PublishedTyped DEF PublishSaved, Limit
    <2> QED
      BY <1>9, <2>1 DEF PublishSaved, limits, TypeOK, OverruledStaysOverruled,
         WaiversKnown, WaivedStarted, PinCovers, Running, Undecided
  <1>10. CASE TogglePause \/ HoldEnds
    BY <1>10 DEF TogglePause, HoldEnds, limits, TypeOK,
       OverruledStaysOverruled, WaiversKnown, WaivedStarted, PinCovers,
       Running, Undecided
  <1>11. ASSUME NEW t \in Tasks, Task(t) PROVE Inv'
    <2>1. UNCHANGED <<wanted, pin, waived, paused, file, pc, page, pending,
                      hold, overruled>>
      BY <1>11 DEF Task, RaceStep, limits
    <2>2. PICK to \in {"pending", "racing", "between", "decided", "over"} :
            /\ race' = [race EXCEPT ![t] = to]
            /\ to \in {"racing", "between"} => t \in Undecided
            /\ to = "decided" => t \in Running
            /\ to = "pending" => pc = "idle"
      BY <1>11 DEF Task, RaceStep, Undecided, Running
    <2>3. TypeOK'
      BY <2>1, <2>2 DEF TypeOK
    <2>4. Running' \subseteq Running /\ Undecided' \subseteq Undecided
      BY <2>2 DEF Running, Undecided, TypeOK
    <2>5. WaiversKnown'
      BY <2>1, <2>4 DEF WaiversKnown
    <2>6. WaivedStarted'
      BY <2>1, <2>2 DEF WaivedStarted, TypeOK
    <2>7. PinCovers'
      BY <2>1, <2>4 DEF PinCovers
    <2> QED
      BY <2>1, <2>3, <2>5, <2>6, <2>7 DEF OverruledStaysOverruled
  <1>12. CASE ForeignWrite
    BY <1>12 DEF ForeignWrite, limits, TypeOK, OverruledStaysOverruled,
       WaiversKnown, WaivedStarted, PinCovers, Running, Undecided
  <1>13. CASE Restart
    <2>1. pending' \in [Threads -> 0 .. Abs]
      BY <1>13, <1>p DEF Restart, Nothing, TypeOK
    <2> QED
      BY <1>13, <2>1 DEF Restart, TypeOK, OverruledStaysOverruled,
         WaiversKnown, WaivedStarted, PinCovers
  <1>14. CASE UNCHANGED vars
    BY <1>14 DEF vars, limits, TypeOK, OverruledStaysOverruled, WaiversKnown,
       WaivedStarted, PinCovers, Running, Undecided
  <1> QED
    BY <1>1, <1>2, <1>3, <1>4, <1>5, <1>6, <1>7, <1>8, <1>9, <1>10, <1>11,
       <1>12, <1>13, <1>14 DEF Next, TickStep, PageStep, Threads

LEMMA InvHolds == Spec => []Inv
  BY InitInv, NextInv, PTL DEF Spec

-----------------------------------------------------------------------------
\* Every limit published, pinned or written stays within 1 and the absolute
\* maximum, and every thread's place and task's race are ones the code has.
THEOREM SkillLimitTyped == Spec => []TypeOK
  BY InvHolds, PTL DEF Inv

\* A task that ran when the page saved a limit never pins it again
\* (_refresh_prompt_pin_locked and waive_prompt_pin).
THEOREM OverruledHolds == Spec => []OverruledStaysOverruled
  BY InvHolds, PTL DEF Inv

\* Where the drift gate lets the tick launch, the limit in the file is within
\* the cap of each undecided task that no saved limit has overruled.
THEOREM GateHolds == Spec => GateWithinCaps
  <1>1. Inv /\ [Next]_vars =>
          [GateOpens => \A t \in Undecided \ overruled :
                          Cap[t] = 0 \/ file <= Cap[t]]_vars
    <2> SUFFICES ASSUME Inv, GateOpens, NEW t \in Undecided \ overruled,
                        Cap[t] # 0
                 PROVE  file <= Cap[t]
      OBVIOUS
    <2>1. pin # 0 /\ pin <= Cap[t]
      BY DEF Inv, PinCovers, GateOpens, TickAt
    <2>2. file = LimitOf(wanted, pin)
      BY DEF GateOpens, Limit
    <2>3. wanted \in 1 .. Abs /\ pin \in 0 .. Abs /\ Cap[t] \in 0 .. Abs
      BY PinBounded, CapAssumption DEF Inv, TypeOK, Undecided
    <2> QED
      BY <2>1, <2>2, <2>3, CapAssumption DEF LimitOf
  <1> QED
    BY <1>1, InvHolds, PTL DEF Spec, GateWithinCaps

-----------------------------------------------------------------------------
(* The elastic limit below the same pin *)

CONSTANTS Ceiling, Bases, HoursPerDay, HourLength, Refresh, Window, StepUp,
          Cooldown, Stable
VARIABLES base, enabled, el, disk, hits, hour, asked, calm, lowered

Elastic == INSTANCE ElasticLimit WITH Pins <- {Cap[t] : t \in Tasks}

\* A step down is remembered as pressure, in elastic.json as well, until a
\* cooldown is over: the pressure is at most as old as the step.
Remembered(e, age) ==
  /\ age < Cooldown => e.pressure <= age
  /\ e.down < Refresh => e.pressure <= e.down

\* A severe 429 that makes no step down comes less than a refresh after one,
\* so the pressure is at most a refresh older than the last severe 429.
CalmCounts == calm < Window => el.pressure <= calm + Refresh

\* Every move of the limit is saved at once.
LimitSaved == disk.limit = el.limit

ElasticInv ==
  /\ Elastic!TypeOK
  /\ Remembered(el, lowered) /\ Remembered(disk, lowered)
  /\ CalmCounts /\ LimitSaved

\* Limits that the floor, the ceiling and the pin bound.
LEMMA ElasticBounds ==
  ASSUME Elastic!Parameters, Elastic!TypeOK
  PROVE  /\ Abs \in Nat /\ base \in 1 .. Abs /\ Elastic!Top \in 1 .. Abs
         /\ base <= Elastic!Top /\ Ceiling \in 1 .. Abs
         /\ pin \in 0 .. Abs /\ el.limit \in 0 .. Abs
         /\ Elastic!Wanted \in 1 .. Abs /\ Elastic!Limit \in 1 .. Abs
         /\ base <= Elastic!Wanted /\ Elastic!Wanted <= Elastic!Top
         /\ pin # 0 => Elastic!Limit <= pin
         /\ Elastic!Limit <= Elastic!Wanted
         /\ Elastic!Limit = IF pin = 0 \/ Elastic!Wanted <= pin THEN Elastic!Wanted ELSE pin
  <1>1. /\ Abs \in Nat /\ base \in 1 .. Abs /\ Ceiling \in 1 .. Abs /\ pin \in 0 .. Abs
        /\ el.limit \in 0 .. Abs
    BY DEF Elastic!Parameters, Elastic!LimitParameters, Elastic!TypeOK, Elastic!Elastic
  <1>2. Elastic!Top \in 1 .. Abs /\ base <= Elastic!Top
    BY <1>1 DEF Elastic!Top, Elastic!Larger
  <1>3. /\ Elastic!Wanted \in 1 .. Abs
        /\ base <= Elastic!Wanted /\ Elastic!Wanted <= Elastic!Top
    BY <1>1, <1>2 DEF Elastic!Wanted, Elastic!Larger, Elastic!Smaller, Elastic!Unset
  <1> QED
    BY <1>1, <1>2, <1>3 DEF Elastic!Limit, Elastic!Capped, Elastic!Smaller

\* The intervals and the ages they cap are numbers.
LEMMA ElasticTimes ==
  ASSUME Elastic!Parameters
  PROVE  /\ Refresh \in Nat \ {0} /\ Window \in Nat \ {0} /\ StepUp \in Nat \ {0}
         /\ Cooldown \in Nat \ {0} /\ Stable \in Nat \ {0}
         /\ Elastic!LongChange \in Nat /\ Elastic!LongPressure \in Nat
         /\ Cooldown <= Elastic!LongPressure
  BY DEF Elastic!Parameters, Elastic!TimeParameters, Elastic!LongChange,
         Elastic!LongPressure, Elastic!Larger

\* There is an hour 0, and time within an hour.
LEMMA ElasticHours ==
  ASSUME Elastic!Parameters
  PROVE  /\ HourLength \in Nat \ {0} /\ HoursPerDay \in Nat \ {0}
         /\ 0 \in Elastic!Hours /\ 0 \in 0 .. HourLength - 1
  BY DEF Elastic!Parameters, Elastic!HourParameters, Elastic!Hours

\* The fields of an elastic record are in range.
LEMMA ElasticRecord ==
  ASSUME NEW e \in Elastic!Elastic
  PROVE  /\ e.limit \in 0 .. Abs /\ e.hour \in Elastic!Hours \cup {Elastic!NoHour}
         /\ e.change \in 0 .. Elastic!LongChange /\ e.down \in 0 .. Refresh
         /\ e.pressure \in 0 .. Elastic!LongPressure
         /\ e.learned \in [Elastic!Hours -> 0 .. Abs]
  BY DEF Elastic!Elastic

\* The ages of a record count on together with the history.
LEMMA RecordAges ==
  ASSUME Elastic!Parameters, NEW e \in Elastic!Elastic, NEW age \in 0 .. Cooldown,
         Remembered(e, age)
  PROVE  /\ Elastic!Aged(e) \in Elastic!Elastic
         /\ Elastic!Aged(e).limit = e.limit
         /\ Elastic!Aged(e).pressure <= e.pressure + 1
         /\ Elastic!Older(age, Cooldown) \in 0 .. Cooldown
         /\ Remembered(Elastic!Aged(e), Elastic!Older(age, Cooldown))
  <1>1. /\ e.limit \in 0 .. Abs /\ e.hour \in Elastic!Hours \cup {Elastic!NoHour}
        /\ e.change \in 0 .. Elastic!LongChange /\ e.down \in 0 .. Refresh
        /\ e.pressure \in 0 .. Elastic!LongPressure
        /\ e.learned \in [Elastic!Hours -> 0 .. Abs]
    BY ElasticRecord
  <1>2. /\ Refresh \in Nat \ {0} /\ Cooldown \in Nat \ {0}
        /\ Elastic!LongChange \in Nat /\ Elastic!LongPressure \in Nat
        /\ Cooldown <= Elastic!LongPressure
    BY ElasticTimes
  <1> DEFINE aged == Elastic!Aged(e)
  <1>3. /\ aged = [e EXCEPT !.change = Elastic!Older(e.change, Elastic!LongChange),
                            !.down = Elastic!Older(e.down, Refresh),
                            !.pressure = Elastic!Older(e.pressure, Elastic!LongPressure)]
        /\ aged.limit = e.limit
        /\ aged.down = Elastic!Older(e.down, Refresh)
        /\ aged.pressure = Elastic!Older(e.pressure, Elastic!LongPressure)
    BY DEF Elastic!Aged, Elastic!Elastic
  <1>4. \A a, cap \in Nat : a <= cap =>
          /\ Elastic!Older(a, cap) \in 0 .. cap /\ Elastic!Older(a, cap) <= a + 1
          /\ Elastic!Older(a, cap) = cap \/ Elastic!Older(a, cap) = a + 1
    BY DEF Elastic!Older, Elastic!Smaller
  <1>5. /\ Elastic!Older(e.change, Elastic!LongChange) \in 0 .. Elastic!LongChange
        /\ Elastic!Older(e.down, Refresh) \in 0 .. Refresh
        /\ Elastic!Older(e.pressure, Elastic!LongPressure) \in 0 .. Elastic!LongPressure
        /\ Elastic!Older(e.pressure, Elastic!LongPressure) <= e.pressure + 1
        /\ Elastic!Older(e.down, Refresh) = Refresh \/ Elastic!Older(e.down, Refresh) = e.down + 1
    <2>1. /\ e.change \in Nat /\ e.change <= Elastic!LongChange
          /\ e.down \in Nat /\ e.down <= Refresh /\ Refresh \in Nat
          /\ e.pressure \in Nat /\ e.pressure <= Elastic!LongPressure
      BY <1>1, <1>2
    <2> QED
      BY <1>2, <1>4, <2>1
  <1>6. aged \in Elastic!Elastic
    BY <1>3, <1>5 DEF Elastic!Elastic
  <1>7. /\ Elastic!Older(age, Cooldown) \in 0 .. Cooldown
        /\ Elastic!Older(age, Cooldown) = Cooldown \/ Elastic!Older(age, Cooldown) = age + 1
    BY <1>2, <1>4
  <1>8. Elastic!Older(age, Cooldown) < Cooldown => aged.pressure <= Elastic!Older(age, Cooldown)
    BY <1>1, <1>2, <1>3, <1>5, <1>7 DEF Remembered
  <1>9. aged.down < Refresh => aged.pressure <= aged.down
    BY <1>1, <1>2, <1>3, <1>5 DEF Remembered
  <1> QED
    BY <1>3, <1>5, <1>6, <1>7, <1>8, <1>9 DEF Remembered

-----------------------------------------------------------------------------
\* A limit that is stepped up or resumed is the new one, below ceiling and pin.
LEMMA RaiseTo ==
  ASSUME Elastic!Parameters, Elastic!TypeOK, NEW n \in Nat,
         n > Elastic!Limit, n <= Elastic!Capped(Elastic!Top),
         enabled, el'.limit = n, UNCHANGED <<base, enabled, pin>>
  PROVE  n \in 1 .. Abs /\ Elastic!Wanted' = n /\ n \in 1 .. LimitOf(Abs, pin)
  <1>1. /\ Abs \in Nat /\ base \in 1 .. Abs /\ Elastic!Top \in 1 .. Abs
        /\ base <= Elastic!Top /\ pin \in 0 .. Abs /\ Elastic!Wanted \in 1 .. Abs
        /\ base <= Elastic!Wanted
        /\ Elastic!Limit = IF pin = 0 \/ Elastic!Wanted <= pin THEN Elastic!Wanted ELSE pin
    BY ElasticBounds
  <1>2. n <= Elastic!Top /\ (pin # 0 => n <= pin)
    BY <1>1 DEF Elastic!Capped, Elastic!Smaller
  <1>3. n > base
    BY <1>1, <1>2
  <1>4. Elastic!Top' = Elastic!Top
    BY DEF Elastic!Top
  <1>5. Elastic!Wanted' = n
    BY <1>1, <1>2, <1>3, <1>4 DEF Elastic!Wanted, Elastic!Larger, Elastic!Smaller, Elastic!Unset
  <1> QED
    BY <1>1, <1>2, <1>3, <1>5 DEF LimitOf

\* The limit is what it was as long as its parts are.
LEMMA SameLimit ==
  ASSUME el'.limit = el.limit, UNCHANGED <<base, enabled>>
  PROVE  /\ Elastic!Wanted' = Elastic!Wanted
         /\ pin' = pin => Elastic!Limit' = Elastic!Limit
  <1>1. Elastic!Wanted' = Elastic!Wanted
    BY DEF Elastic!Wanted, Elastic!Top
  <1> QED
    BY <1>1 DEF Elastic!Limit, Elastic!Capped

\* What a step of the tick loop does to the limit.
StepsDown == Elastic!Wanted' \in 1 .. LimitOf(Abs, pin) /\ Elastic!Limit' \in 1 .. Elastic!Limit
StepsUp == /\ Elastic!Wanted' \in 1 .. LimitOf(Abs, pin)
           /\ el.pressure >= Cooldown /\ UNCHANGED calm
Moves == \/ StepsDown
         \/ StepsUp
         \/ Elastic!Wanted' = Elastic!Wanted /\ Elastic!Limit' = Elastic!Limit

\* A step under pressure lowers the limit or leaves it.
LEMMA PressureInv ==
  ASSUME Elastic!Parameters, ElasticInv,
         NEW traffic \in {"quiet", "some", "severe"},
         NEW h \in [severe: 0 .. Window, some: 0 .. Window],
         Elastic!UnderPressure(h, traffic), enabled,
         calm' = IF traffic = "severe" THEN 0 ELSE calm,
         UNCHANGED <<base, enabled, pin, hour, asked>>
  PROVE  ElasticInv' /\ Moves
  <1>1. /\ Abs \in Nat /\ base \in 1 .. Abs /\ Elastic!Top \in 1 .. Abs
        /\ base <= Elastic!Top /\ pin \in 0 .. Abs /\ Elastic!Wanted \in 1 .. Abs
        /\ base <= Elastic!Wanted /\ Elastic!Wanted <= Elastic!Top
        /\ Elastic!Limit \in 1 .. Abs
        /\ Elastic!Limit = IF pin = 0 \/ Elastic!Wanted <= pin THEN Elastic!Wanted ELSE pin
    BY ElasticBounds DEF ElasticInv
  <1>2. /\ Refresh \in Nat \ {0} /\ Window \in Nat \ {0} /\ Cooldown \in Nat \ {0}
        /\ Elastic!LongChange \in Nat /\ Elastic!LongPressure \in Nat
    BY ElasticTimes
  <1>3. /\ el \in Elastic!Elastic /\ disk \in Elastic!Elastic
        /\ calm \in 0 .. Window /\ lowered \in 0 .. Cooldown /\ hour.now \in Elastic!Hours
    BY DEF ElasticInv, Elastic!TypeOK
  <1>4. /\ el.pressure \in 0 .. Elastic!LongPressure /\ el.down \in 0 .. Refresh
        /\ el.learned \in [Elastic!Hours -> 0 .. Abs]
    BY <1>3, ElasticRecord
  <1>5. calm' \in 0 .. Window /\ (calm' = 0 \/ calm' = calm)
    BY <1>2, <1>3
  <1>6. CASE Elastic!StepDown
    <2> DEFINE n == Elastic!Limit - 1
    <2>1. n \in 1 .. Abs /\ base <= n /\ n <= Elastic!Top /\ n < Elastic!Limit
      BY <1>1, <1>6 DEF Elastic!StepDown
    <2>2. /\ el' \in Elastic!Elastic /\ el'.limit = n /\ el'.down = 0 /\ el'.pressure = 0
          /\ disk' = el'
      <3>1. el' = Elastic!MovedDown(el) /\ disk' = el'
        BY <1>6 DEF Elastic!StepDown
      <3> DEFINE l == [el.learned EXCEPT ![hour.now] = n]
      <3>2. l \in [Elastic!Hours -> 0 .. Abs]
        <4>1. n \in 0 .. Abs
          BY <1>1, <2>1
        <4> HIDE DEF n
        <4> QED
          BY <1>4, <4>1
      <3>3. el' = [el EXCEPT !.learned = l, !.limit = n, !.change = 0, !.down = 0,
                             !.pressure = 0]
        <4>1. Elastic!Lowered(el, n) = [el EXCEPT !.learned = l]
          BY <1>3 DEF Elastic!Lowered, Elastic!Elastic
        <4> QED
          BY <1>3, <3>1, <4>1 DEF Elastic!MovedDown, Elastic!Elastic
      <3>4. n \in 0 .. Abs /\ 0 \in 0 .. Refresh /\ 0 \in 0 .. Elastic!LongChange
            /\ 0 \in 0 .. Elastic!LongPressure
        BY <1>1, <1>2, <2>1
      <3> HIDE DEF l, n
      <3> QED
        BY <1>3, <3>1, <3>2, <3>3, <3>4 DEF Elastic!Elastic
    <2>3. hits' \in [severe: 0 .. Window, some: 0 .. Window] /\ lowered' = 0
      BY <1>2, <1>6 DEF Elastic!StepDown, Elastic!NoHits
    <2>4. Elastic!TypeOK'
      BY <1>2, <1>5, <2>2, <2>3 DEF ElasticInv, Elastic!TypeOK
    <2>5. ElasticInv'
      BY <1>2, <1>5, <2>2, <2>3, <2>4 DEF ElasticInv, Remembered, CalmCounts, LimitSaved
    <2>6. Elastic!Wanted' = n
      <3>1. Elastic!Top' = Elastic!Top
        BY DEF Elastic!Top
      <3> QED
        BY <1>1, <2>1, <2>2, <3>1 DEF Elastic!Wanted, Elastic!Larger, Elastic!Smaller, Elastic!Unset
    <2>7. Elastic!Limit' \in 1 .. Elastic!Limit /\ n \in 1 .. LimitOf(Abs, pin)
      BY <1>1, <2>1, <2>6 DEF Elastic!Limit, Elastic!Capped, Elastic!Smaller, LimitOf
    <2> QED
      BY <2>5, <2>6, <2>7 DEF Moves, StepsDown
  <1>7. CASE Elastic!HoldAtFloor(h, traffic)
    <2>1. /\ el' = [el EXCEPT !.pressure = 0] /\ disk' \in {disk, el, el'}
          /\ hits' = h /\ lowered' = lowered
      BY <1>7 DEF Elastic!HoldAtFloor, Elastic!SavedReports
    <2>2. /\ el' \in Elastic!Elastic /\ el'.limit = el.limit /\ el'.pressure = 0
          /\ el'.down = el.down
      BY <1>2, <1>3, <2>1 DEF Elastic!Elastic
    <2>3. Elastic!TypeOK'
      BY <1>3, <1>5, <2>1, <2>2 DEF ElasticInv, Elastic!TypeOK
    <2>4. Remembered(el', lowered) /\ Remembered(disk', lowered)
      <3>1. Remembered(el', lowered)
        BY <1>3, <1>4, <2>2 DEF Remembered
      <3> QED
        BY <2>1, <3>1 DEF ElasticInv
    <2>5. CalmCounts' /\ LimitSaved'
      <3>1. CalmCounts'
        BY <1>2, <1>5, <2>2 DEF CalmCounts
      <3>2. disk'.limit = el.limit
        BY <2>1, <2>2 DEF ElasticInv, LimitSaved
      <3> QED
        BY <2>2, <3>1, <3>2 DEF LimitSaved
    <2>6. ElasticInv'
      BY <2>1, <2>3, <2>4, <2>5 DEF ElasticInv
    <2> QED
      BY <2>2, <2>6, SameLimit DEF Moves
  <1>8. CASE Elastic!JustLowered(h, traffic)
    <2>1. /\ el' = el /\ disk' \in {disk, el} /\ hits' = h /\ lowered' = lowered
          /\ el.down < Refresh
      BY <1>8 DEF Elastic!JustLowered, Elastic!SavedReports
    <2>2. Elastic!TypeOK'
      BY <1>3, <1>5, <2>1 DEF ElasticInv, Elastic!TypeOK
    <2>3. CalmCounts'
      BY <1>2, <1>4, <1>5, <2>1 DEF ElasticInv, CalmCounts, Remembered
    <2>4. ElasticInv'
      BY <2>1, <2>2, <2>3 DEF ElasticInv, LimitSaved
    <2> QED
      BY <2>1, <2>4, SameLimit DEF Moves
  <1> QED
    BY <1>6, <1>7, <1>8 DEF Elastic!UnderPressure

\* Without pressure the ages of pressure and step down stay, and the limit
\* does too or is raised after a cooldown.
LEMMA QuietInv ==
  ASSUME Elastic!Parameters, ElasticInv,
         NEW traffic \in {"quiet", "some"}, NEW full \in BOOLEAN, NEW waiting \in BOOLEAN,
         NEW h \in [severe: 0 .. Window, some: 0 .. Window],
         Elastic!Quiet(h, traffic, full, waiting), enabled,
         UNCHANGED <<base, enabled, pin, hour, asked, calm>>
  PROVE  ElasticInv' /\ Moves
  <1> DEFINE e1 == IF Elastic!Held(el, full) THEN Elastic!Learned(el, Elastic!Limit) ELSE el
             e2 == [e1 EXCEPT !.hour = hour.now]
  <1>1. /\ Abs \in Nat /\ Elastic!Top \in 1 .. Abs /\ pin \in 0 .. Abs
        /\ Elastic!Limit \in 1 .. Abs
    BY ElasticBounds DEF ElasticInv
  <1>2. /\ Refresh \in Nat \ {0} /\ Window \in Nat \ {0} /\ Cooldown \in Nat \ {0}
        /\ Elastic!LongChange \in Nat /\ Elastic!LongPressure \in Nat
    BY ElasticTimes
  <1>3. el \in Elastic!Elastic /\ disk \in Elastic!Elastic /\ hour.now \in Elastic!Hours
    BY DEF ElasticInv, Elastic!TypeOK
  <1>4. /\ el.pressure \in 0 .. Elastic!LongPressure
        /\ el.learned \in [Elastic!Hours -> 0 .. Abs]
    BY <1>3, ElasticRecord
  <1>5. /\ e1 \in Elastic!Elastic /\ e1.limit = el.limit /\ e1.pressure = el.pressure
        /\ e1.down = el.down
    <2>1. CASE ~ Elastic!Held(el, full)
      BY <1>3, <2>1
    <2>2. CASE Elastic!Held(el, full)
      <3> DEFINE n == Elastic!Larger(el.learned[hour.now], Elastic!Limit)
                 l == [el.learned EXCEPT ![hour.now] = n]
      <3>1. n \in 0 .. Abs
        BY <1>1, <1>3, <1>4 DEF Elastic!Larger
      <3>2. l \in [Elastic!Hours -> 0 .. Abs]
        <4> HIDE DEF n
        <4> QED
          BY <1>4, <3>1
      <3>3. e1 = [el EXCEPT !.learned = l]
        BY <1>3, <2>2 DEF Elastic!Learned, Elastic!Elastic
      <3> HIDE DEF e1, l
      <3> QED
        BY <1>3, <3>2, <3>3 DEF Elastic!Elastic
    <2> QED
      BY <2>1, <2>2
  <1>6. /\ e2 \in Elastic!Elastic /\ e2.limit = el.limit /\ e2.pressure = el.pressure
        /\ e2.down = el.down /\ e2.learned = e1.learned
    <2> HIDE DEF e1
    <2> QED
      BY <1>3, <1>5 DEF Elastic!Elastic, Elastic!NoHour
  <1>7. /\ el' = IF Elastic!Resumes(e1) THEN Elastic!MovedUp(e2, Elastic!Resumable(e2))
                 ELSE IF Elastic!MayStepUp(e2, h, waiting)
                      THEN Elastic!MovedUp(e2, Elastic!Limit + 1)
                 ELSE e2
        /\ disk' \in {disk, el, el'} /\ (el' # el => disk' = el')
        /\ hits' = h /\ lowered' = lowered
    BY DEF Elastic!Quiet, Elastic!SavedReports
  <1> HIDE DEF e1, e2
  <1>8. /\ el' \in Elastic!Elastic /\ el'.pressure = el.pressure /\ el'.down = el.down
        /\ Moves
    <2>0. ASSUME NEW n \in Nat, n > Elastic!Limit, n <= Elastic!Capped(Elastic!Top),
                 el' = Elastic!MovedUp(e2, n), el.pressure >= Cooldown
          PROVE  /\ el' \in Elastic!Elastic /\ el'.pressure = el.pressure
                 /\ el'.down = el.down /\ Moves
      <3>1. /\ el'.limit = n /\ el'.pressure = el.pressure /\ el'.down = el.down
        BY <1>6, <2>0 DEF Elastic!MovedUp, Elastic!Elastic
      <3>2. n \in 1 .. Abs /\ Elastic!Wanted' = n /\ n \in 1 .. LimitOf(Abs, pin)
        BY <2>0, <3>1, RaiseTo DEF ElasticInv
      <3>3. n \in 0 .. Abs /\ 0 \in 0 .. Elastic!LongChange
        BY <1>1, <1>2, <3>2
      <3>4. el' \in Elastic!Elastic
        BY <1>6, <2>0, <3>3 DEF Elastic!MovedUp, Elastic!Elastic
      <3> QED
        BY <2>0, <3>1, <3>2, <3>4 DEF Moves, StepsUp
    <2>1. CASE Elastic!Resumes(e1)
      <3> DEFINE n == Elastic!Resumable(e2)
      <3>1. e1.learned[hour.now] \in 0 .. Abs
        BY <1>3, <1>5, ElasticRecord
      <3>2. n = Elastic!Resumable(e1)
        BY <1>6 DEF Elastic!Resumable
      <3>3. n \in Nat /\ n <= Elastic!Capped(Elastic!Top)
        BY <1>1, <3>1, <3>2 DEF Elastic!Resumable, Elastic!Capped, Elastic!Smaller
      <3>4. n > Elastic!Limit /\ el.pressure >= Cooldown
        BY <1>5, <2>1, <3>2 DEF Elastic!Resumes
      <3>5. el' = Elastic!MovedUp(e2, n)
        BY <1>7, <2>1
      <3> QED
        BY <2>0, <3>3, <3>4, <3>5
    <2>2. CASE ~ Elastic!Resumes(e1) /\ Elastic!MayStepUp(e2, h, waiting)
      <3>1. /\ Elastic!Limit + 1 \in Nat /\ Elastic!Limit + 1 > Elastic!Limit
            /\ Elastic!Capped(Elastic!Top) \in Nat
        BY <1>1 DEF Elastic!Capped, Elastic!Smaller
      <3>2. Elastic!Limit < Elastic!Capped(Elastic!Top) /\ el.pressure >= Cooldown
        BY <1>6, <2>2 DEF Elastic!MayStepUp
      <3>3. Elastic!Limit + 1 <= Elastic!Capped(Elastic!Top)
        BY <1>1, <3>1, <3>2
      <3>4. el' = Elastic!MovedUp(e2, Elastic!Limit + 1)
        BY <1>7, <2>2
      <3> QED
        BY <2>0, <3>1, <3>2, <3>3, <3>4
    <2>3. CASE ~ Elastic!Resumes(e1) /\ ~ Elastic!MayStepUp(e2, h, waiting)
      <3>1. el' = e2
        BY <1>7, <2>3
      <3> QED
        BY <1>6, <3>1, SameLimit DEF Moves
    <2> QED
      BY <2>1, <2>2, <2>3
  <1>9. Elastic!TypeOK'
    BY <1>3, <1>7, <1>8 DEF ElasticInv, Elastic!TypeOK
  <1>10. Remembered(el', lowered) /\ CalmCounts'
    BY <1>8 DEF ElasticInv, Remembered, CalmCounts
  <1>11. Remembered(disk', lowered) /\ LimitSaved'
    BY <1>7, <1>10 DEF ElasticInv, LimitSaved
  <1> QED
    BY <1>7, <1>8, <1>9, <1>10, <1>11 DEF ElasticInv

\* A step of the tick loop.
LEMMA StepInv ==
  ASSUME Elastic!Parameters, ElasticInv, Elastic!TickStep
  PROVE  ElasticInv' /\ Moves
  <1>1. PICK traffic \in {"quiet", "some", "severe"}, full \in BOOLEAN, waiting \in BOOLEAN :
          Elastic!Step(traffic, full, waiting)
    BY DEF Elastic!TickStep
  <1> DEFINE h == [severe |-> IF traffic = "severe" THEN 0 ELSE hits.severe,
                   some |-> IF traffic # "quiet" THEN 0 ELSE hits.some]
  <1>2. Window \in Nat \ {0}
    BY ElasticTimes
  <1>3. h \in [severe: 0 .. Window, some: 0 .. Window]
    BY <1>2 DEF ElasticInv, Elastic!TypeOK
  <1>4. /\ enabled /\ calm' = IF traffic = "severe" THEN 0 ELSE calm
        /\ UNCHANGED <<base, enabled, pin, hour, asked>>
        /\ IF h.severe < Window THEN Elastic!UnderPressure(h, traffic)
           ELSE Elastic!Quiet(h, traffic, full, waiting)
    BY <1>1 DEF Elastic!Step, Elastic!config
  <1>5. CASE h.severe < Window
    <2> HIDE DEF h
    <2> QED
      BY <1>3, <1>4, <1>5, PressureInv
  <1>6. CASE ~ (h.severe < Window)
    <2>1. traffic \in {"quiet", "some"} /\ calm' = calm
      BY <1>2, <1>4, <1>6
    <2> HIDE DEF h
    <2> QED
      BY <1>3, <1>4, <1>6, <2>1, QuietInv
  <1> QED
    BY <1>5, <1>6

-----------------------------------------------------------------------------
\* An empty elastic.json remembers nothing and owes nothing.
LEMMA ElasticInit ==
  ASSUME Elastic!Parameters, Elastic!Init
  PROVE  ElasticInv
  <1>1. /\ Refresh \in Nat \ {0} /\ Window \in Nat \ {0} /\ Cooldown \in Nat \ {0}
        /\ Elastic!LongChange \in Nat /\ Elastic!LongPressure \in Nat
    BY ElasticTimes
  <1>2. /\ 0 \in 0 .. Abs /\ 0 \in Elastic!Hours /\ 0 \in 0 .. HourLength - 1
    BY ElasticHours DEF Elastic!Parameters, Elastic!LimitParameters
  <1>3. el = Elastic!Fresh /\ Elastic!Fresh \in Elastic!Elastic
    BY <1>1, <1>2 DEF Elastic!Init, Elastic!Fresh, Elastic!Unset, Elastic!NoHour, Elastic!Elastic
  <1>4. Elastic!TypeOK
    BY <1>1, <1>2, <1>3 DEF Elastic!Init, Elastic!TypeOK, Elastic!NoHits
  <1> QED
    BY <1>1, <1>4 DEF Elastic!Init, Elastic!Fresh, ElasticInv, Remembered, CalmCounts, LimitSaved

\* A reset of the page starts from the floor or from what was learned, but
\* the pressure stays.
LEMMA ResetInv ==
  ASSUME Elastic!Parameters, ElasticInv, Elastic!Reset
  PROVE  ElasticInv'
  <1>1. /\ Refresh \in Nat \ {0} /\ Window \in Nat \ {0}
        /\ Elastic!LongChange \in Nat /\ Elastic!LongPressure \in Nat /\ 0 \in 0 .. Abs
    BY ElasticTimes DEF Elastic!Parameters, Elastic!LimitParameters
  <1>2. /\ el \in Elastic!Elastic /\ hour.now \in Elastic!Hours
        /\ el.pressure \in 0 .. Elastic!LongPressure
        /\ el.learned \in [Elastic!Hours -> 0 .. Abs]
    BY ElasticRecord DEF ElasticInv, Elastic!TypeOK
  <1>3. Elastic!Fresh \in Elastic!Elastic /\ Elastic!Fresh.down = Refresh
    BY <1>1 DEF Elastic!Fresh, Elastic!Unset, Elastic!NoHour, Elastic!Elastic
  <1>4. /\ Elastic!Kept \in Elastic!Elastic
        /\ Elastic!Kept.pressure = el.pressure /\ Elastic!Kept.down = Refresh
    BY <1>2, <1>3 DEF Elastic!Kept, Elastic!Elastic
  <1>5. /\ el' \in Elastic!Elastic /\ el'.pressure = el.pressure /\ el'.down = Refresh
    <2>1. /\ Elastic!ResetFromFloor \in Elastic!Elastic
          /\ Elastic!ResetFromFloor.pressure = el.pressure
          /\ Elastic!ResetFromFloor.down = Refresh
      <3>1. hour.now \in Elastic!Hours \cup {Elastic!NoHour} /\ 0 \in 0 .. Elastic!LongChange
        BY <1>1, <1>2
      <3> QED
        BY <1>4, <3>1 DEF Elastic!ResetFromFloor, Elastic!Elastic
    <2>2. /\ Elastic!ResetToLearned \in Elastic!Elastic
          /\ Elastic!ResetToLearned.pressure = el.pressure
          /\ Elastic!ResetToLearned.down = Refresh
      <3>1. CASE el.learned[hour.now] = 0
        BY <1>4, <3>1 DEF Elastic!ResetToLearned
      <3>2. CASE el.learned[hour.now] # 0
        <4>1. el.learned[hour.now] \in 0 .. Abs
          BY <1>2
        <4> QED
          BY <1>2, <1>4, <3>2, <4>1 DEF Elastic!ResetToLearned, Elastic!Elastic
      <3> QED
        BY <3>1, <3>2
    <2> QED
      BY <2>1, <2>2 DEF Elastic!Reset
  <1>6. /\ disk' = el' /\ hits' = Elastic!NoHits /\ pin' = 0 /\ asked' = "nothing"
        /\ UNCHANGED <<base, enabled, hour, calm, lowered>>
    BY DEF Elastic!Reset, Elastic!config, Elastic!history
  <1>7. Elastic!TypeOK'
    BY <1>1, <1>5, <1>6 DEF ElasticInv, Elastic!TypeOK, Elastic!NoHits
  <1>8. Remembered(el', lowered') /\ CalmCounts'
    BY <1>1, <1>5, <1>6 DEF ElasticInv, Remembered, CalmCounts
  <1> QED
    BY <1>6, <1>7, <1>8 DEF ElasticInv, LimitSaved

\* What an hour learned is forgotten after a week, nothing else is.
LEMMA ExpireInv ==
  ASSUME Elastic!Parameters, ElasticInv, NEW h \in Elastic!Hours, Elastic!Expire(h)
  PROVE  ElasticInv'
  <1>1. 0 \in 0 .. Abs
    BY DEF Elastic!Parameters, Elastic!LimitParameters
  <1>2. \A e \in Elastic!Elastic :
          LET f == [e EXCEPT !.learned[h] = 0] IN
          /\ f \in Elastic!Elastic /\ f.limit = e.limit
          /\ f.pressure = e.pressure /\ f.down = e.down
    <2> TAKE e \in Elastic!Elastic
    <2> DEFINE l == [e.learned EXCEPT ![h] = 0]
               f == [e EXCEPT !.learned = l]
    <2>1. l \in [Elastic!Hours -> 0 .. Abs]
      BY <1>1, ElasticRecord
    <2>2. [e EXCEPT !.learned[h] = 0] = f
      BY DEF Elastic!Elastic
    <2> HIDE DEF l
    <2> QED
      BY <2>1, <2>2 DEF Elastic!Elastic
  <1>3. /\ el' = [el EXCEPT !.learned[h] = 0] /\ disk' = [disk EXCEPT !.learned[h] = 0]
        /\ UNCHANGED <<base, enabled, hits, pin, hour, asked, calm, lowered>>
    BY DEF Elastic!Expire, Elastic!config, Elastic!history
  <1>4. /\ el' \in Elastic!Elastic /\ el'.limit = el.limit
        /\ el'.pressure = el.pressure /\ el'.down = el.down
        /\ disk' \in Elastic!Elastic /\ disk'.limit = disk.limit
        /\ disk'.pressure = disk.pressure /\ disk'.down = disk.down
    BY <1>2, <1>3 DEF ElasticInv, Elastic!TypeOK
  <1>5. Elastic!TypeOK'
    BY <1>3, <1>4 DEF ElasticInv, Elastic!TypeOK
  <1> QED
    BY <1>3, <1>4, <1>5 DEF ElasticInv, Remembered, CalmCounts, LimitSaved

\* Time passes for the record, its copy on disk and the history alike.
LEMMA ClockInv ==
  ASSUME Elastic!Parameters, ElasticInv, Elastic!Clock
  PROVE  ElasticInv'
  <1>1. /\ Window \in Nat \ {0} /\ Refresh \in Nat \ {0} /\ Window \in Nat
    BY ElasticTimes
  <1>2. /\ el \in Elastic!Elastic /\ disk \in Elastic!Elastic
        /\ hits.severe \in 0 .. Window /\ hits.some \in 0 .. Window
        /\ calm \in 0 .. Window /\ lowered \in 0 .. Cooldown
        /\ hour \in [now: Elastic!Hours, over: 0 .. HourLength - 1]
    BY DEF ElasticInv, Elastic!TypeOK
  <1>3. /\ el' = Elastic!Aged(el) /\ disk' = Elastic!Aged(disk)
        /\ lowered' = Elastic!Older(lowered, Cooldown) /\ calm' = Elastic!Older(calm, Window)
        /\ hits' = [a \in {"severe", "some"} |-> Elastic!Older(hits[a], Window)]
        /\ hour' = Elastic!NextHour(hour)
        /\ UNCHANGED <<base, enabled, pin, asked>>
    BY DEF Elastic!Clock, Elastic!config
  <1>4. /\ el' \in Elastic!Elastic /\ el'.limit = el.limit /\ el'.pressure <= el.pressure + 1
        /\ lowered' \in 0 .. Cooldown /\ Remembered(el', lowered')
    BY <1>2, <1>3, RecordAges DEF ElasticInv
  <1>5. /\ disk' \in Elastic!Elastic /\ disk'.limit = disk.limit
        /\ Remembered(disk', lowered')
    BY <1>2, <1>3, RecordAges DEF ElasticInv
  <1>6. \A a \in 0 .. Window :
          /\ Elastic!Older(a, Window) \in 0 .. Window
          /\ Elastic!Older(a, Window) = Window \/ Elastic!Older(a, Window) = a + 1
    BY <1>1 DEF Elastic!Older, Elastic!Smaller
  <1>7. hits' \in [severe: 0 .. Window, some: 0 .. Window]
    <2>1. hits' = [severe |-> Elastic!Older(hits.severe, Window),
                   some |-> Elastic!Older(hits.some, Window)]
      BY <1>3
    <2> QED
      BY <1>2, <1>6, <2>1
  <1>8. hour' \in [now: Elastic!Hours, over: 0 .. HourLength - 1]
    <2>1. /\ HourLength \in Nat \ {0} /\ HoursPerDay \in Nat \ {0}
          /\ 0 \in 0 .. HourLength - 1
      BY ElasticHours
    <2>2. hour' = IF hour.over < HourLength - 1 THEN [hour EXCEPT !.over = hour.over + 1]
                  ELSE [now |-> (hour.now + 1) % HoursPerDay, over |-> 0]
      BY <1>3, Zenon DEF Elastic!NextHour
    <2>3. hour.now \in Nat /\ hour.over \in 0 .. HourLength - 1 /\ hour.now \in Elastic!Hours
      BY <1>2, <2>1 DEF Elastic!Hours
    <2>4. CASE hour.over < HourLength - 1
      <3>1. hour.over + 1 \in 0 .. HourLength - 1
        BY <2>1, <2>3, <2>4
      <3> QED
        BY <1>2, <2>2, <2>4, <3>1
    <2>5. CASE ~ (hour.over < HourLength - 1)
      <3>1. (hour.now + 1) % HoursPerDay \in Elastic!Hours
        BY <2>1, <2>3 DEF Elastic!Hours
      <3> QED
        BY <2>1, <2>2, <2>5, <3>1
    <2> QED
      BY <2>4, <2>5
  <1>9. Elastic!TypeOK'
    BY <1>2, <1>3, <1>4, <1>5, <1>6, <1>7, <1>8 DEF ElasticInv, Elastic!TypeOK
  <1>10. CalmCounts'
    <2>1. el.pressure \in Nat /\ el'.pressure \in Nat
      BY <1>2, <1>4, ElasticRecord
    <2>2. calm' = Window \/ calm' = calm + 1
      BY <1>2, <1>3, <1>6
    <2> QED
      BY <1>1, <1>2, <1>4, <2>1, <2>2 DEF ElasticInv, CalmCounts
  <1> QED
    BY <1>4, <1>5, <1>9, <1>10 DEF ElasticInv, LimitSaved

\* Every step keeps it, one case per action.
LEMMA ElasticNext ==
  ASSUME Elastic!Parameters, ElasticInv, [Elastic!Next]_(Elastic!vars)
  PROVE  ElasticInv'
  <1>1. CASE Elastic!TickStep
    BY <1>1, StepInv
  <1>2. CASE Elastic!SaveFloor \/ Elastic!Toggle
    BY <1>2 DEF Elastic!SaveFloor, Elastic!Toggle, Elastic!limits, Elastic!history,
       ElasticInv, Elastic!TypeOK, Remembered, CalmCounts, LimitSaved
  <1>3. CASE Elastic!Reset
    BY <1>3, ResetInv
  <1>4. CASE Elastic!RefreshPin
    BY <1>4 DEF Elastic!RefreshPin, Elastic!limits, Elastic!history, Elastic!config,
       ElasticInv, Elastic!TypeOK, Remembered, CalmCounts, LimitSaved
  <1>5. CASE Elastic!Restart
    <2>1. Window \in Nat \ {0}
      BY ElasticTimes
    <2> QED
      BY <1>5, <2>1 DEF Elastic!Restart, Elastic!config, Elastic!NoHits,
         ElasticInv, Elastic!TypeOK, CalmCounts, LimitSaved
  <1>6. ASSUME NEW h \in Elastic!Hours, Elastic!Expire(h) PROVE ElasticInv'
    BY <1>6, ExpireInv
  <1>7. CASE Elastic!Clock
    BY <1>7, ClockInv
  <1>8. CASE UNCHANGED Elastic!vars
    BY <1>8 DEF Elastic!vars, Elastic!limits, Elastic!history, Elastic!config,
       ElasticInv, Elastic!TypeOK, Remembered, CalmCounts, LimitSaved
  <1> QED
    BY <1>1, <1>2, <1>3, <1>4, <1>5, <1>6, <1>7, <1>8 DEF Elastic!Next, Elastic!Page

LEMMA ElasticHolds == Elastic!Parameters => (Elastic!Spec => []ElasticInv)
  <1> SUFFICES ASSUME Elastic!Parameters PROVE Elastic!Spec => []ElasticInv
    OBVIOUS
  <1>1. Elastic!Init => ElasticInv
    BY ElasticInit
  <1>2. ElasticInv /\ [Elastic!Next]_(Elastic!vars) => ElasticInv'
    BY ElasticNext
  <1> QED
    BY <1>1, <1>2, PTL DEF Elastic!Spec

\* A raise asks for pressure that is a cooldown old.
LEMMA RaiseNeedsCooldown ==
  ASSUME Elastic!Parameters, ElasticInv, Elastic!TickStep, Elastic!Limit' > Elastic!Limit
  PROVE  /\ lowered >= Cooldown
         /\ calm >= Window \/ calm + Refresh >= Cooldown
  <1>1. Elastic!Limit \in 1 .. Abs /\ Abs \in Nat
    BY ElasticBounds DEF ElasticInv
  <1>2. ~ StepsDown /\ Elastic!Limit' # Elastic!Limit
    BY <1>1 DEF StepsDown
  <1>3. el.pressure >= Cooldown
    BY <1>2, StepInv DEF Moves, StepsUp
  <1> QED
    BY <1>3, ElasticTimes, ElasticRecord
    DEF ElasticInv, Elastic!TypeOK, Remembered, CalmCounts

\* A step of the tick loop raises the limit only when the last step down is a
\* cooldown ago and a severe 429 the process read is out of the window, or as
\* long ago as a cooldown less one refresh: whatever intervals the page chose,
\* across resets and restarts (_elastic_step_locked, scheduler.py:1587-1667).
THEOREM RaiseWaits ==
  Elastic!Parameters =>
    (Elastic!Spec =>
       [][Elastic!TickStep /\ Elastic!Limit' > Elastic!Limit
            => /\ lowered >= Cooldown
               /\ calm >= Window \/ calm + Refresh >= Cooldown]_(Elastic!vars))
  <1> SUFFICES ASSUME Elastic!Parameters
               PROVE  Elastic!Spec =>
                        [][Elastic!TickStep /\ Elastic!Limit' > Elastic!Limit
                             => /\ lowered >= Cooldown
                                /\ calm >= Window \/ calm + Refresh >= Cooldown]_(Elastic!vars)
    OBVIOUS
  <1>1. ElasticInv /\ [Elastic!Next]_(Elastic!vars) =>
          [Elastic!TickStep /\ Elastic!Limit' > Elastic!Limit
             => /\ lowered >= Cooldown
                /\ calm >= Window \/ calm + Refresh >= Cooldown]_(Elastic!vars)
    BY RaiseNeedsCooldown
  <1> QED
    BY <1>1, ElasticHolds, PTL DEF Elastic!Spec

\* With a cooldown of at least the window and a refresh, as in the defaults, no
\* severe 429 is in the window any more (README.md:238).
THEOREM CooldownHolds ==
  Elastic!Parameters /\ Window + Refresh <= Cooldown
    => (Elastic!Spec => Elastic!RaisesAfterCooldown)
  <1> SUFFICES ASSUME Elastic!Parameters, Window + Refresh <= Cooldown
               PROVE  Elastic!Spec => Elastic!RaisesAfterCooldown
    OBVIOUS
  <1>1. ElasticInv /\ [Elastic!Next]_(Elastic!vars) =>
          [Elastic!TickStep /\ Elastic!Limit' > Elastic!Limit
             => lowered >= Cooldown /\ calm >= Window]_(Elastic!vars)
    <2> SUFFICES ASSUME ElasticInv, Elastic!TickStep, Elastic!Limit' > Elastic!Limit
                 PROVE  lowered >= Cooldown /\ calm >= Window
      OBVIOUS
    <2>1. calm \in Nat
      BY ElasticTimes DEF ElasticInv, Elastic!TypeOK
    <2> QED
      BY <2>1, RaiseNeedsCooldown, ElasticTimes
  <1> QED
    BY <1>1, ElasticHolds, PTL DEF Elastic!Spec, Elastic!RaisesAfterCooldown

\* A learned limit grows older than a week.
Forgets == \E h \in Elastic!Hours : Elastic!Expire(h)

\* What SkillLimit assumes of the limit without the pin: ElasticLimit keeps it.
WantedMoves ==
  /\ Elastic!TickStep => \/ Elastic!Wanted' = Elastic!Wanted
                         \/ Elastic!Wanted' \in 1 .. LimitOf(Abs, pin)
  /\ Elastic!Page => Elastic!Wanted' \in 1 .. Abs
  /\ Elastic!RefreshPin \/ Elastic!Restart => Elastic!Wanted' = Elastic!Wanted
  /\ Elastic!Clock \/ Forgets => Elastic!Wanted' = Elastic!Wanted

\* Joined at the pin, the elastic limit moves as SkillLimit lets it: the tick
\* moves it below the pin only, the page anywhere in range, and a new process
\* starts with the limit the old one had, since every move is saved at once
\* (_elastic_step_locked, reset_elastic, __init__, scheduler.py:1528-1667).
THEOREM ElasticFits == Elastic!Parameters => (Elastic!Spec => [][WantedMoves]_(Elastic!vars))
  <1> SUFFICES ASSUME Elastic!Parameters
               PROVE Elastic!Spec => [][WantedMoves]_(Elastic!vars)
    OBVIOUS
  <1> DEFINE InRange == Elastic!Wanted \in 1 .. Abs
  <1>0. ElasticInv => InRange
    BY ElasticBounds DEF ElasticInv
  <1>1. /\ ElasticInv /\ [Elastic!Next]_(Elastic!vars)
        /\ InRange'
        => [WantedMoves]_(Elastic!vars)
    <2> SUFFICES ASSUME ElasticInv, InRange' PROVE WantedMoves
      OBVIOUS
    <2>1. ASSUME Elastic!TickStep
          PROVE  \/ Elastic!Wanted' = Elastic!Wanted
                 \/ Elastic!Wanted' \in 1 .. LimitOf(Abs, pin)
      BY <2>1, StepInv DEF Moves, StepsDown, StepsUp
    <2>2. Elastic!RefreshPin => Elastic!Wanted' = Elastic!Wanted
      BY SameLimit DEF Elastic!RefreshPin, Elastic!config, Elastic!limits
    <2>3. Elastic!Restart => Elastic!Wanted' = Elastic!Wanted
      BY SameLimit DEF Elastic!Restart, Elastic!config, ElasticInv, LimitSaved
    <2>4. Elastic!Clock => Elastic!Wanted' = Elastic!Wanted
      BY SameLimit DEF Elastic!Clock, Elastic!config, Elastic!Aged,
         ElasticInv, Elastic!TypeOK, Elastic!Elastic
    <2>5. ASSUME NEW h \in Elastic!Hours, Elastic!Expire(h)
          PROVE  Elastic!Wanted' = Elastic!Wanted
      BY <2>5, SameLimit DEF Elastic!Expire, Elastic!config, ElasticInv,
         Elastic!TypeOK, Elastic!Elastic
    <2>6. Forgets => Elastic!Wanted' = Elastic!Wanted
      BY <2>5 DEF Forgets
    <2>7. Elastic!Wanted' \in 1 .. Abs
      OBVIOUS
    <2> QED
      BY <2>1, <2>2, <2>3, <2>4, <2>6, <2>7 DEF WantedMoves
  <1> HIDE DEF InRange
  <1> QED
    BY <1>0, <1>1, ElasticHolds, PTL DEF Elastic!Spec
=============================================================================
