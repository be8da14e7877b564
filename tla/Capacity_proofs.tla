-------------------------- MODULE Capacity_proofs --------------------------
(***************************************************************************)
(* The launch gates, for any number of tasks, any batch, limit and caps:   *)
(* the live tasks stay within the seats (SeatsBounded), and the gate opens *)
(* only if what the launched tasks are going to use leaves a slot          *)
(* (LaunchHasRoom).                                                        *)
(*                                                                         *)
(* A sum over the tasks is the size of a set of slots (Total), so how two  *)
(* sums compare follows from how the sets do.  The gate looks at the seats *)
(* before the launch takes one, hence SeatFree; a setup is never taken for *)
(* dead demand as long as it starves for less than phantomDemandSeconds,   *)
(* hence SetupCounts and StartsFed.                                        *)
(***************************************************************************)
EXTENDS Capacity, FiniteSetTheorems, TLAPS

\* A candidate that a live runner works on is marked running.
HeldIsWanted == \A t \in Tasks : runner[t] => held[t] <= want[t]

\* From the gates to the launch there is room for one more task.
SeatFree == pc = "open" => Cardinality(Active) <= MaxActive + MaxPost - 2

\* A task is starving only once it has a state.json,
StartsFed == \A t \in Tasks : phase[t] \in {"pending", "starting"} => starved[t] = "no"

\* and a setup not for phantomDemandSeconds, unless setups may be that slow.
SetupCounts == \A t \in Tasks : phase[t] = "setup" /\ ~SlowSetup => starved[t] # "long"

\* The inductive invariant.
Inv ==
  /\ TypeOK /\ HeldIsWanted
  /\ SeatsBounded /\ SeatFree
  /\ StartsFed /\ SetupCounts

-----------------------------------------------------------------------------
(* Sums as sets of slots *)

Slots(f) == {p \in Tasks \X (1 .. Batch) : p[2] <= f[p[1]]}

LEMMA SlotsFinite ==
  ASSUME NEW f
  PROVE  IsFiniteSet(Slots(f)) /\ Total(f) = Cardinality(Slots(f)) /\ Total(f) \in Nat
  <1>1. IsFiniteSet(Tasks) /\ Batch \in Nat
    BY CapacityAssumption
  <1>2. IsFiniteSet(Tasks \X (1 .. Batch))
    <2>1. IsFiniteSet(1 .. Batch)
      BY <1>1, FS_Interval
    <2> QED
      BY <1>1, <2>1, FS_Product
  <1>3. Slots(f) \subseteq Tasks \X (1 .. Batch)
    BY DEF Slots
  <1>4. IsFiniteSet(Slots(f))
    BY <1>2, <1>3, FS_Subset
  <1> QED
    BY <1>4, FS_CardinalityType DEF Total, Slots

\* A sum does not exceed two others if no summand exceeds the two of its task.
LEMMA SumOfTwo ==
  ASSUME NEW f \in [Tasks -> 0 .. Batch], NEW g \in [Tasks -> 0 .. Batch],
         NEW h \in [Tasks -> 0 .. Batch],
         \A t \in Tasks : f[t] <= g[t] + h[t]
  PROVE  Total(f) <= Total(g) + Total(h)
  <1> DEFINE rest == Slots(f) \ Slots(g)
             shift == [p \in rest |-> <<p[1], p[2] - g[p[1]]>>]
  <1>1. Batch \in Nat
    BY CapacityAssumption
  <1>2. IsFiniteSet(rest) /\ IsFiniteSet(Slots(g)) /\ IsFiniteSet(Slots(h))
    BY SlotsFinite, FS_Difference
  <1>3. shift \in Injection(rest, Slots(h))
    <2>1. ASSUME NEW p \in rest
          PROVE  /\ p = <<p[1], p[2]>> /\ p[1] \in Tasks /\ p[2] \in 1 .. Batch
                 /\ g[p[1]] \in 0 .. Batch /\ g[p[1]] < p[2]
                 /\ shift[p] \in Slots(h)
      <3>1. /\ p = <<p[1], p[2]>> /\ p[1] \in Tasks /\ p[2] \in 1 .. Batch
            /\ p[2] <= f[p[1]] /\ ~ (p[2] <= g[p[1]])
        BY DEF Slots
      <3>2. /\ f[p[1]] \in 0 .. Batch /\ g[p[1]] \in 0 .. Batch /\ h[p[1]] \in 0 .. Batch
            /\ f[p[1]] <= g[p[1]] + h[p[1]]
        BY <3>1
      <3>3. g[p[1]] < p[2] /\ p[2] - g[p[1]] \in 1 .. Batch /\ p[2] - g[p[1]] <= h[p[1]]
        BY <1>1, <3>1, <3>2
      <3>4. <<p[1], p[2] - g[p[1]]>> \in Slots(h)
        BY <3>1, <3>3 DEF Slots
      <3> QED
        BY <3>1, <3>2, <3>3, <3>4
    <2>2. shift \in [rest -> Slots(h)]
      BY <2>1
    <2>3. ASSUME NEW p \in rest, NEW q \in rest, shift[p] = shift[q]
          PROVE  p = q
      <3>1. p[1] = q[1] /\ p[2] - g[p[1]] = q[2] - g[q[1]]
        BY <2>3
      <3>2. /\ p[2] \in 1 .. Batch /\ q[2] \in 1 .. Batch
            /\ g[p[1]] \in 0 .. Batch /\ g[p[1]] = g[q[1]]
        BY <2>1, <3>1
      <3>3. \A a, b, c \in Int : a - c = b - c => a = b
        OBVIOUS
      <3>4. p[2] - g[p[1]] = q[2] - g[p[1]]
        BY <3>1, <3>2
      <3>5. p[2] \in Int /\ q[2] \in Int /\ g[p[1]] \in Int
        BY <1>1, <3>2
      <3>6. p[2] = q[2]
        BY <3>3, <3>4, <3>5
      <3> QED
        BY <3>1, <3>6, <2>1
    <2> QED
      BY <2>2, <2>3 DEF Injection, IsInjective
  <1>4. Cardinality(rest) <= Cardinality(Slots(h))
    BY <1>2, <1>3, FS_Injection
  <1>5. /\ IsFiniteSet(Slots(g) \cup rest)
        /\ Cardinality(Slots(g) \cup rest) <= Cardinality(Slots(g)) + Cardinality(rest)
    <2>1. /\ IsFiniteSet(Slots(g) \cup rest)
          /\ Cardinality(Slots(g) \cup rest)
               = Cardinality(Slots(g)) + Cardinality(rest) - Cardinality(Slots(g) \cap rest)
      BY <1>2, FS_Union
    <2>2. Slots(g) \cap rest = {}
      OBVIOUS
    <2>3. Cardinality(Slots(g) \cap rest) = 0
      BY <2>2, FS_EmptySet
    <2>4. Cardinality(Slots(g)) \in Nat /\ Cardinality(rest) \in Nat
      BY <1>2, FS_CardinalityType
    <2> QED
      BY <2>1, <2>3, <2>4
  <1>6. Slots(f) \subseteq Slots(g) \cup rest
    OBVIOUS
  <1>7. Cardinality(Slots(f)) <= Cardinality(Slots(g) \cup rest)
    BY <1>5, <1>6, FS_Subset
  <1>8. /\ Cardinality(Slots(f)) \in Nat /\ Cardinality(Slots(g)) \in Nat
        /\ Cardinality(Slots(h)) \in Nat /\ Cardinality(rest) \in Nat
        /\ Cardinality(Slots(g) \cup rest) \in Nat
    BY <1>2, <1>5, SlotsFinite, FS_CardinalityType
  <1> HIDE DEF rest, shift
  <1>9. Cardinality(Slots(f)) <= Cardinality(Slots(g)) + Cardinality(Slots(h))
    BY <1>4, <1>5, <1>7, <1>8
  <1> QED
    BY <1>9, SlotsFinite
-----------------------------------------------------------------------------
(* The seats *)

LEMMA SeatsFinite ==
  /\ IsFiniteSet(Active) /\ Cardinality(Active) \in Nat
  /\ IsFiniteSet(Post) /\ Cardinality(Post) \in Nat
  /\ Cardinality(Active \ Post) = Cardinality(Active) - Cardinality(Post)
  <1>1. IsFiniteSet(Tasks)
    BY CapacityAssumption
  <1>2. Active \subseteq Tasks /\ Post \subseteq Active
    BY DEF Active, Post
  <1>3. IsFiniteSet(Active)
    BY <1>1, <1>2, FS_Subset
  <1>4. IsFiniteSet(Post)
    BY <1>2, <1>3, FS_Subset
  <1>5. Cardinality(Active \ Post) = Cardinality(Active) - Cardinality(Active \cap Post)
    BY <1>3, FS_Difference
  <1>6. Active \cap Post = Post
    BY <1>2
  <1> QED
    BY <1>3, <1>4, <1>5, <1>6, FS_CardinalityType

\* A step that gives nobody a seat and does not open the gate.
LEMMA FewerSeats ==
  ASSUME SeatsBounded, SeatFree, Active' \subseteq Active, pc' = "open" => pc = "open"
  PROVE  SeatsBounded' /\ SeatFree'
  <1>1. IsFiniteSet(Active) /\ Cardinality(Active) \in Nat
    BY SeatsFinite
  <1>2. IsFiniteSet(Active') /\ Cardinality(Active') <= Cardinality(Active)
    BY <1>1, FS_Subset
  <1>3. Cardinality(Active') \in Nat
    BY <1>2, FS_CardinalityType
  <1>4. MaxActive \in Nat /\ MaxPost \in Nat
    BY CapacityAssumption
  <1> QED
    BY <1>1, <1>2, <1>3, <1>4 DEF SeatsBounded, SeatFree

-----------------------------------------------------------------------------
(* The invariant *)

LEMMA InitInv == Init => Inv
  <1> SUFFICES ASSUME Init PROVE Inv
    OBVIOUS
  <1>1. {Batch, MaxActive, MaxPost} \subseteq Nat \ {0}
    BY CapacityAssumption
  <1>2. TypeOK
    BY <1>1 DEF Init, TypeOK, Phases
  <1>3. HeldIsWanted /\ SeatFree /\ StartsFed /\ SetupCounts
    BY DEF Init, HeldIsWanted, SeatFree, StartsFed, SetupCounts
  <1>4. SeatsBounded
    <2>1. Active = {}
      BY DEF Init, Active
    <2>2. Cardinality(Active) = 0
      BY <2>1, FS_EmptySet
    <2> QED
      BY <1>1, <2>2 DEF SeatsBounded
  <1> QED
    BY <1>2, <1>3, <1>4 DEF Inv

\* A measurement: a task without a state.json is not starving, and a setup only
\* begins to.
LEMMA MeasuredInv ==
  ASSUME Inv, Measured, UNCHANGED <<limit, taskVars, listed>>, pc' \in {"idle", "open"}
  PROVE  TypeOK' /\ HeldIsWanted' /\ StartsFed' /\ SetupCounts'
  <1> USE DEF Inv, taskVars
  <1>1. starved' \in [Tasks -> {"no", "short", "long"}]
    BY DEF Measured, TypeOK
  <1>2. TypeOK'
    BY <1>1 DEF TypeOK
  <1>3. HeldIsWanted'
    BY DEF HeldIsWanted
  <1>4. StartsFed'
    BY DEF StartsFed, Measured, Starving, Initialised
  <1>5. SetupCounts'
    BY DEF SetupCounts, Measured
  <1> QED
    BY <1>2, <1>3, <1>4, <1>5

\* One task's phase moves, along the edges that keep the starvation times right;
\* it takes no seat.
LEMMA PhaseMoves ==
  ASSUME Inv, NEW t \in Tasks, NEW to \in Phases, phase' = With(phase, t, to),
         phase[t] \notin {"pending", "starting"} => to \notin {"pending", "starting", "setup"},
         phase[t] = "pending" => to = "over",
         phase[t] = "starting" => to \notin {"pending"},
         phase[t] = "over" => to = "over",
         UNCHANGED <<limit, starved>>, pc' = "open" => pc = "open"
  PROVE  /\ phase' \in [Tasks -> Phases] /\ StartsFed' /\ SetupCounts'
         /\ SeatsBounded' /\ SeatFree'
  <1> USE DEF Inv, With
  <1>1. phase \in [Tasks -> Phases]
    BY DEF TypeOK
  <1>2. phase' \in [Tasks -> Phases]
    BY <1>1
  <1>3. StartsFed'
    BY <1>1 DEF StartsFed
  <1>4. SetupCounts'
    BY <1>1 DEF SetupCounts, StartsFed
  <1>5. Active' \subseteq Active
    BY <1>1 DEF Active, Phases
  <1> QED
    BY <1>2, <1>3, <1>4, <1>5, FewerSeats

\* No phase moves.
LEMMA PhasesStay ==
  ASSUME Inv, UNCHANGED <<phase, starved>>, pc' = "open" => pc = "open"
  PROVE  StartsFed' /\ SetupCounts' /\ SeatsBounded' /\ SeatFree'
  <1>1. StartsFed' /\ SetupCounts'
    BY DEF Inv, StartsFed, SetupCounts
  <1>2. Active' \subseteq Active
    BY DEF Active
  <1> QED
    BY <1>1, <1>2, FewerSeats DEF Inv

LEMMA TaskInv ==
  ASSUME Inv, NEW t \in Tasks, TaskStep(t)
  PROVE  Inv'
  <1> USE DEF Inv, gateVars, With
  <1>0. Batch \in Nat \ {0}
    BY CapacityAssumption
  <1>1. CASE Initialise(t)
    <2>1. phase[t] = "starting" /\ phase' = With(phase, t, "setup") /\ UNCHANGED <<limit, gateVars>>
      BY <1>1 DEF Initialise, Goes
    <2>2. /\ phase' \in [Tasks -> Phases] /\ StartsFed' /\ SetupCounts'
          /\ SeatsBounded' /\ SeatFree'
      BY <2>1, PhaseMoves DEF Phases
    <2> QED
      BY <1>1, <2>2 DEF Initialise, Goes, TypeOK, HeldIsWanted
  <1>2. CASE NeverStarts(t)
    <2>1. phase[t] = "starting" /\ phase' = With(phase, t, "stuck") /\ UNCHANGED <<limit, gateVars>>
      BY <1>2 DEF NeverStarts, Goes
    <2>2. /\ phase' \in [Tasks -> Phases] /\ StartsFed' /\ SetupCounts'
          /\ SeatsBounded' /\ SeatFree'
      BY <2>1, PhaseMoves DEF Phases
    <2> QED
      BY <1>2, <2>2 DEF NeverStarts, Goes, TypeOK, HeldIsWanted
  <1>3. CASE StartCandidates(t)
    <2>1. phase[t] = "setup" /\ phase' = With(phase, t, "race") /\ UNCHANGED <<limit, gateVars>>
      BY <1>3 DEF StartCandidates
    <2>2. /\ phase' \in [Tasks -> Phases] /\ StartsFed' /\ SetupCounts'
          /\ SeatsBounded' /\ SeatFree'
      BY <2>1, PhaseMoves DEF Phases
    <2>3. want' \in [Tasks -> 0 .. Batch] /\ runner' \in [Tasks -> BOOLEAN] /\ held' = held
      BY <1>0, <1>3 DEF StartCandidates, TypeOK
    <2>4. HeldIsWanted'
      BY <1>0, <1>3 DEF StartCandidates, TypeOK, HeldIsWanted
    <2> QED
      BY <1>3, <2>2, <2>3, <2>4 DEF StartCandidates, TypeOK
  <1>4. CASE NextAttempt(t)
    <2>1. want' \in [Tasks -> 0 .. Batch]
      BY <1>0, <1>4 DEF NextAttempt, TypeOK
    <2>2. HeldIsWanted'
      BY <1>0, <1>4 DEF NextAttempt, TypeOK, HeldIsWanted
    <2> QED
      BY <1>4, <2>1, <2>2, PhasesStay DEF NextAttempt, TypeOK
  <1>5. CASE Decide(t)
    <2>1. phase[t] = "race" /\ phase' = With(phase, t, "post") /\ UNCHANGED <<limit, gateVars>>
      BY <1>5 DEF Decide, Goes
    <2>2. /\ phase' \in [Tasks -> Phases] /\ StartsFed' /\ SetupCounts'
          /\ SeatsBounded' /\ SeatFree'
      BY <2>1, PhaseMoves DEF Phases
    <2> QED
      BY <1>5, <2>2 DEF Decide, Goes, TypeOK, HeldIsWanted
  <1>6. CASE Ends(t)
    <2>1. /\ phase[t] \in {"starting", "stuck", "setup", "race", "post"}
          /\ phase' = With(phase, t, "over") /\ UNCHANGED <<limit, gateVars>>
      BY <1>6 DEF Ends, Goes
    <2>2. /\ phase' \in [Tasks -> Phases] /\ StartsFed' /\ SetupCounts'
          /\ SeatsBounded' /\ SeatFree'
      BY <2>1, PhaseMoves DEF Phases
    <2>3. /\ held' \in [Tasks -> 0 .. Batch] /\ runner' \in [Tasks -> BOOLEAN]
          /\ want' = want
      BY <1>0, <1>6 DEF Ends, Goes, TypeOK
    <2>4. HeldIsWanted'
      BY <1>0, <1>6 DEF Ends, Goes, TypeOK, HeldIsWanted
    <2> QED
      BY <2>1, <2>2, <2>3, <2>4 DEF TypeOK
  <1>7. CASE Grant(t)
    <2>1. held[t] \in 0 .. Batch /\ want[t] \in 0 .. Batch /\ want[t] > held[t]
      BY <1>7 DEF Grant, TypeOK
    <2>2. held' \in [Tasks -> 0 .. Batch] /\ HeldIsWanted'
      BY <1>0, <1>7, <2>1 DEF Grant, TypeOK, HeldIsWanted
    <2> QED
      BY <1>7, <2>2, PhasesStay DEF Grant, TypeOK
  <1>8. CASE CandidateEnds(t)
    <2>1. held[t] \in 0 .. Batch /\ want[t] \in 0 .. Batch /\ held[t] > 0 /\ held[t] <= want[t]
      BY <1>8 DEF CandidateEnds, TypeOK, HeldIsWanted
    <2>2. held[t] - 1 \in 0 .. Batch /\ want[t] - 1 \in 0 .. Batch /\ held[t] - 1 <= want[t] - 1
      BY <1>0, <2>1
    <2>3. held' \in [Tasks -> 0 .. Batch] /\ want' \in [Tasks -> 0 .. Batch]
      BY <1>8, <2>2 DEF CandidateEnds, TypeOK
    <2>4. HeldIsWanted'
      BY <1>8, <2>2 DEF CandidateEnds, TypeOK, HeldIsWanted
    <2> QED
      BY <1>8, <2>3, <2>4, PhasesStay DEF CandidateEnds, TypeOK
  <1>9. CASE RunnerDies(t)
    BY <1>9, PhasesStay DEF RunnerDies, TypeOK, HeldIsWanted
  <1>10. CASE SlotFreed(t)
    <2>1. held[t] \in 0 .. Batch /\ held[t] > 0
      BY <1>10 DEF SlotFreed, TypeOK
    <2>2. held[t] - 1 \in 0 .. Batch
      BY <1>0, <2>1
    <2>3. held' \in [Tasks -> 0 .. Batch] /\ HeldIsWanted'
      BY <1>10, <2>2 DEF SlotFreed, TypeOK, HeldIsWanted
    <2> QED
      BY <1>10, <2>3, PhasesStay DEF SlotFreed, TypeOK
  <1> QED
    BY <1>1, <1>2, <1>3, <1>4, <1>5, <1>6, <1>7, <1>8, <1>9, <1>10 DEF TaskStep

\* The launch takes the seat that the gates found free.
LEMMA LaunchInv ==
  ASSUME Inv, NEW t \in Tasks, Launch(t)
  PROVE  Inv'
  <1> USE DEF Inv
  <1>1. phase \in [Tasks -> Phases] /\ phase' = With(phase, t, "starting") /\ phase[t] = "pending"
    BY DEF Launch, TypeOK
  <1>2. TypeOK'
    BY <1>1 DEF Launch, TypeOK, With, Phases
  <1>3. HeldIsWanted' /\ StartsFed' /\ SetupCounts'
    BY <1>1 DEF Launch, HeldIsWanted, StartsFed, SetupCounts, With
  <1>4. SeatsBounded'
    <2>1. Active' = Active \cup {t}
      BY <1>1 DEF Active, With
    <2>2. IsFiniteSet(Active) /\ Cardinality(Active) \in Nat
      BY SeatsFinite
    <2>3. t \notin Active
      BY <1>1 DEF Active
    <2>4. Cardinality(Active') = Cardinality(Active) + 1
      BY <2>1, <2>2, <2>3, FS_AddElement
    <2>5. Cardinality(Active) <= MaxActive + MaxPost - 2
      BY DEF Launch, SeatFree
    <2>6. IsFiniteSet(Active')
      BY <2>1, <2>2, FS_AddElement
    <2>7. Cardinality(Active') \in Nat /\ MaxActive \in Nat /\ MaxPost \in Nat
      BY <2>6, FS_CardinalityType, CapacityAssumption
    <2> QED
      BY <2>2, <2>4, <2>5, <2>7 DEF SeatsBounded
  <1>5. SeatFree'
    BY DEF Launch, SeatFree
  <1> QED
    BY <1>2, <1>3, <1>4, <1>5

LEMMA NextInv == Inv /\ [Next]_vars => Inv'
  <1> SUFFICES ASSUME Inv, [Next]_vars PROVE Inv'
    OBVIOUS
  <1> USE DEF Inv
  <1>1. CASE Hold
    <2>1. TypeOK' /\ HeldIsWanted' /\ StartsFed' /\ SetupCounts'
      BY <1>1, MeasuredInv DEF Hold, TypeOK
    <2>2. Active' \subseteq Active
      BY <1>1 DEF Hold, Active, taskVars
    <2> QED
      BY <1>1, <2>1, <2>2, FewerSeats DEF Hold
  <1>2. CASE GateOpens
    <2>1. TypeOK' /\ HeldIsWanted' /\ StartsFed' /\ SetupCounts'
      BY <1>2, MeasuredInv DEF GateOpens
    <2>2. Active' = Active
      BY <1>2 DEF GateOpens, Active, taskVars
    <2>3. /\ Cardinality(Active) - Cardinality(Post) < MaxActive
          /\ Cardinality(Post) < MaxPost
      BY <1>2, SeatsFinite DEF GateOpens, Open
    <2>4. /\ Cardinality(Active) \in Nat /\ Cardinality(Post) \in Nat
          /\ MaxActive \in Nat /\ MaxPost \in Nat
      BY SeatsFinite, CapacityAssumption
    <2>5. Cardinality(Active) <= MaxActive + MaxPost - 2
      BY <2>3, <2>4
    <2>6. SeatsBounded' /\ SeatFree'
      BY <2>2, <2>5 DEF SeatsBounded, SeatFree
    <2> QED
      BY <2>1, <2>6
  <1>3. ASSUME NEW t \in Tasks, Launch(t)
        PROVE  Inv'
    BY <1>3, LaunchInv
  <1>4. ASSUME NEW t \in Tasks, LaunchFails(t)
        PROVE  Inv'
    <2>1. phase[t] = "pending" /\ phase' = With(phase, t, "over") /\ UNCHANGED <<limit, starved>>
          /\ pc' = "idle"
      BY <1>4 DEF LaunchFails
    <2>2. /\ phase' \in [Tasks -> Phases] /\ StartsFed' /\ SetupCounts'
          /\ SeatsBounded' /\ SeatFree'
      BY <2>1, PhaseMoves DEF Phases
    <2> QED
      BY <1>4, <2>2 DEF LaunchFails, TypeOK, HeldIsWanted
  <1>5. CASE NothingToLaunch
    BY <1>5, PhasesStay DEF NothingToLaunch, taskVars, TypeOK, HeldIsWanted
  <1>6. ASSUME NEW t \in Tasks, StarvesOn(t)
        PROVE  Inv'
    <2>1. starved' \in [Tasks -> {"no", "short", "long"}]
      BY <1>6 DEF StarvesOn, With, TypeOK
    <2>2. TypeOK' /\ HeldIsWanted'
      BY <1>6, <2>1 DEF StarvesOn, taskVars, TypeOK, HeldIsWanted
    <2>3. StartsFed' /\ SetupCounts'
      BY <1>6 DEF StarvesOn, With, taskVars, TypeOK, StartsFed, SetupCounts
    <2>4. Active' \subseteq Active /\ pc' = pc
      BY <1>6 DEF StarvesOn, Active, taskVars
    <2> QED
      BY <2>2, <2>3, <2>4, FewerSeats
  <1>7. ASSUME NEW t \in Tasks, TaskStep(t)
        PROVE  Inv'
    BY <1>7, TaskInv
  <1>8. CASE DockerPs
    BY <1>8, PhasesStay DEF DockerPs, taskVars, TypeOK, HeldIsWanted
  <1>9. CASE LimitMoves
    BY <1>9, PhasesStay DEF LimitMoves, taskVars, gateVars, TypeOK, HeldIsWanted
  <1>10. CASE UNCHANGED vars
    BY <1>10, PhasesStay DEF vars, taskVars, gateVars, TypeOK, HeldIsWanted
  <1> QED
    BY <1>1, <1>2, <1>3, <1>4, <1>5, <1>6, <1>7, <1>8, <1>9, <1>10 DEF Next, Tick

\* The inductive invariant holds throughout.
LEMMA InvHolds == Spec => []Inv
  BY InitInv, NextInv, PTL DEF Spec

-----------------------------------------------------------------------------
\* Every variable of the gates and of the tasks stays in its range; no slot
\* count goes below zero or above the batch.
THEOREM CapacityTyped == Spec => []TypeOK
  <1>1. Inv => TypeOK
    BY DEF Inv
  <1> QED
    BY <1>1, InvHolds, PTL

\* The live tasks never exceed the seats of both caps together, less one,
\* however the races go on and come back between the gate and the launch.
THEOREM SeatsHold == Spec => []SeatsBounded
  <1>1. Inv => SeatsBounded
    BY DEF Inv
  <1> QED
    BY <1>1, InvHolds, PTL

-----------------------------------------------------------------------------
\* What a task still claims is listed or counted as waiting: dead demand is
\* only taken from a race whose runner is gone or has nothing to do.
LEMMA ClaimCounted ==
  ASSUME Inv, ~SlowSetup, NEW t \in Tasks
  PROVE  /\ Claim(t) \in 0 .. Batch /\ Extra[t] \in 0 .. Batch
         /\ Claim(t) <= listed[t] + Extra[t]
  <1>1. /\ Batch \in Nat /\ want[t] \in 0 .. Batch /\ listed[t] \in 0 .. Batch
        /\ runner[t] \in BOOLEAN /\ phase[t] \in Phases
    BY CapacityAssumption DEF Inv, TypeOK
  <1>2. Demand(t) \in 0 .. Batch /\ Claim(t) \in 0 .. Batch
    BY <1>1 DEF Demand, Claim
  <1>3. Waiting(t) \in 0 .. Batch /\ Demand(t) <= listed[t] + Waiting(t)
    BY <1>1, <1>2 DEF Waiting, Excess
  <1>4. Extra[t] = IF Phantom(t) THEN 0 ELSE Waiting(t)
    BY DEF Extra
  <1>5. CASE Phantom(t)
    <2>1. phase[t] \in {"setup", "race"} /\ starved[t] = "long" /\ ~RunnerAlive(t)
      BY <1>5 DEF Phantom, Starving, Initialised
    <2>2. phase[t] = "race"
      BY <2>1 DEF Inv, SetupCounts
    <2>3. Claim(t) = 0
      BY <1>1, <2>1, <2>2 DEF Claim, RunnerAlive
    <2> QED
      BY <1>1, <1>2, <1>4, <1>5, <2>3
  <1>6. CASE ~Phantom(t)
    <2>1. Claim(t) <= Demand(t)
      BY <1>1, <1>2 DEF Claim, Demand
    <2> QED
      BY <1>1, <1>2, <1>3, <1>4, <1>6, <2>1
  <1> QED
    BY <1>5, <1>6

\* Unless a setup outlasts phantomDemandSeconds, the gate opens only if what
\* the launched tasks are going to use leaves a slot.
THEOREM RoomForLaunch == ~SlowSetup => (Spec => LaunchHasRoom)
  <1> SUFFICES ASSUME ~SlowSetup PROVE Spec => LaunchHasRoom
    OBVIOUS
  <1> DEFINE claims == [t \in Tasks |-> Claim(t)]
  <1>1. Inv /\ [Next]_vars => [GateOpens => Total(claims) < limit]_vars
    <2> SUFFICES ASSUME Inv, GateOpens PROVE Total(claims) < limit
      OBVIOUS
    <2>1. claims \in [Tasks -> 0 .. Batch] /\ Extra \in [Tasks -> 0 .. Batch]
      BY ClaimCounted DEF Extra
    <2>2. listed \in [Tasks -> 0 .. Batch]
      BY DEF Inv, TypeOK
    <2>3. \A t \in Tasks : claims[t] <= listed[t] + Extra[t]
      BY ClaimCounted
    <2>4. Total(claims) <= Total(listed) + Total(Extra)
      BY <2>1, <2>2, <2>3, SumOfTwo
    <2>5. Total(listed) + Total(Extra) + 1 <= limit
      BY DEF GateOpens, Open, Estimate
    <2>6. limit \in Nat /\ Total(claims) \in Nat /\ Total(listed) \in Nat /\ Total(Extra) \in Nat
      BY SlotsFinite, CapacityAssumption DEF Inv, TypeOK
    <2> QED
      BY <2>4, <2>5, <2>6
  <1> QED
    BY <1>1, InvHolds, PTL DEF Spec, LaunchHasRoom
=============================================================================
