-------------------------- MODULE LlmGuard_proofs --------------------------
(***************************************************************************)
(* For any threshold, clock and number of restarts: the guard's ownership  *)
(* of a pause and the start of its outage are in config.json whenever they *)
(* are in memory (OwnershipDurable).  What is in memory may be written by  *)
(* any of the paths that persist, so the invariant also says that a saved  *)
(* pause has a start (SavedOutageKnown), that a run of failures has one    *)
(* (FailuresDated), and that the clock is past the look-back the start is  *)
(* estimated from (ClockRuns).                                             *)
(***************************************************************************)
EXTENDS LlmGuard, TLAPS

SavedOutageKnown == saved.pausedByGuard => saved.outageSince # 0
FailuresDated == failures # 0 => outage # 0
ClockRuns == now > Lookback

Inv == /\ TypeOK /\ OwnershipDurable
       /\ SavedOutageKnown /\ FailuresDated /\ ClockRuns

-----------------------------------------------------------------------------
\* The constants, as the proofs use them.
LEMMA Constants ==
  /\ Threshold \in Nat /\ Threshold # 0
  /\ Lookback \in Nat /\ Lookback # 0
  /\ MaxNow \in Nat /\ MaxManual \in Nat /\ MaxRestart \in Nat
  BY ThresholdAssumption, ClockAssumption, BoundAssumption

\* A start of an outage is a point of the clock after 0.
LEMMA StartsDated ==
  ASSUME Inv
  PROVE  EstimatedStart \in Clock /\ EstimatedStart # 0
  <1>1. now - Lookback \in Clock /\ now - Lookback # 0
    BY Constants DEF Inv, TypeOK, ClockRuns, Clock
  <1>2. lastOk \in Clock
    BY DEF Inv, TypeOK
  <1> QED
    BY <1>1, <1>2 DEF EstimatedStart

LEMMA InitInv == Init => Inv
  <1> SUFFICES ASSUME Init PROVE Inv
    OBVIOUS
  <1>1. 0 \in Clock /\ Lookback + 1 \in Clock /\ Lookback + 1 > Lookback
    BY ClockAssumption DEF Clock
  <1>2. config \in Config /\ saved \in Config
    BY <1>1 DEF Init, Config
  <1>3. probe \in [Threads -> Probe] /\ request \in Request
    BY DEF Init, NoProbe, NoRequest, Probe, Request
  <1>4. /\ failures \in 0 .. Threshold
        /\ manuals \in 0 .. MaxManual /\ restarts \in 0 .. MaxRestart
    BY Constants DEF Init
  <1>5. TypeOK
    BY <1>1, <1>2, <1>3, <1>4 DEF Init, TypeOK
  <1> QED
    BY <1>1, <1>5 DEF Init, Inv, OwnershipDurable, SavedOutageKnown,
       FailuresDated, ClockRuns

LEMMA NextInv == Inv /\ [Next]_vars => Inv'
  <1> SUFFICES ASSUME Inv, [Next]_vars PROVE Inv'
    OBVIOUS
  <1> USE DEF Inv
  <1>c. 0 \in Clock /\ 0 \in 0 .. Threshold
    BY Constants DEF Clock
  <1>t. /\ config \in Config /\ saved \in Config
        /\ outage \in Clock /\ lastOk \in Clock /\ now \in Clock
        /\ failures \in 0 .. Threshold
        /\ probe \in [Threads -> Probe] /\ request \in Request
        /\ up \in BOOLEAN
        /\ pauser \in {"nobody", "user", "guard", "start"}
        /\ manuals \in 0 .. MaxManual /\ restarts \in 0 .. MaxRestart
    BY DEF TypeOK
  <1>1. ASSUME NEW t \in Threads, Send(t) PROVE Inv'
    <2>1. probe' \in [Threads -> Probe]
      BY <1>1, <1>t DEF Send, Probe, Config
    <2> QED
      BY <1>1, <1>t, <2>1 DEF Send, guardVars, envVars, TypeOK,
         OwnershipDurable, SavedOutageKnown, FailuresDated, ClockRuns
  <1>2. ASSUME NEW t \in Threads, Answer(t) PROVE Inv'
    <2>1. probe' \in [Threads -> Probe]
      BY <1>2, <1>t DEF Answer, Probe
    <2> QED
      BY <1>2, <1>t, <2>1 DEF Answer, guardVars, envVars, TypeOK,
         OwnershipDurable, SavedOutageKnown, FailuresDated, ClockRuns
  <1>3. ASSUME NEW t \in Threads, ApplyOk(t) PROVE Inv'
    <2>1. probe' \in [Threads -> Probe]
      BY <1>3, <1>t DEF ApplyOk, Probe, NoProbe
    <2>2. /\ failures' = 0 /\ lastOk' = now
          /\ UNCHANGED <<request, pauser, up, now, manuals, restarts>>
      BY <1>3 DEF ApplyOk, envVars
    <2>3. CASE probe[t].enabled /\ config.pausedByGuard
      <3>1. /\ config' = [config EXCEPT !.pausedByGuard = FALSE,
                                        !.paused = FALSE, !.outageSince = 0]
            /\ saved' = config' /\ outage' = 0
        BY <1>3, <2>3 DEF ApplyOk, Persist
      <3>2. config' \in Config /\ config'.pausedByGuard = FALSE
        BY <3>1, <1>c, <1>t DEF Config
      <3> QED
        BY <2>1, <2>2, <3>1, <3>2, <1>c, <1>t DEF TypeOK, OwnershipDurable,
           SavedOutageKnown, FailuresDated, ClockRuns
    <2>4. CASE ~(probe[t].enabled /\ config.pausedByGuard)
      <3>1. UNCHANGED <<config, saved, outage>>
        BY <1>3, <2>4 DEF ApplyOk
      <3> QED
        BY <2>1, <2>2, <3>1, <1>c, <1>t DEF TypeOK, OwnershipDurable,
           SavedOutageKnown, FailuresDated, ClockRuns
    <2> QED
      BY <2>3, <2>4
  <1>4. ASSUME NEW t \in Threads, ApplyFailure(t) PROVE Inv'
    <2>1. probe' \in [Threads -> Probe]
      BY <1>4, <1>t DEF ApplyFailure, Probe, NoProbe
    <2>2. UNCHANGED <<lastOk, request, up, now, manuals, restarts>>
      BY <1>4 DEF ApplyFailure, envVars
    <2>3. failures' \in 0 .. Threshold
      BY <1>4, <1>t, Constants DEF ApplyFailure, Failed
    <2>4. outage' \in Clock /\ outage' # 0
      BY <1>4, <1>t, StartsDated DEF ApplyFailure, FailuresDated
    <2>5. CASE probe[t].enabled /\ failures' >= Threshold /\ ~config.paused
      <3>1. /\ config' = [config EXCEPT !.paused = TRUE, !.pausedByGuard = TRUE,
                                        !.outageSince = outage']
            /\ saved' = config' /\ pauser' = "guard"
        BY <1>4, <2>5 DEF ApplyFailure, Paused, Persist
      <3>2. config' \in Config /\ config'.outageSince = outage'
        BY <3>1, <2>4, <1>t DEF Config
      <3> QED
        BY <2>1, <2>2, <2>3, <2>4, <3>1, <3>2, <1>t DEF TypeOK,
           OwnershipDurable, SavedOutageKnown, FailuresDated, ClockRuns
    <2>6. CASE ~(probe[t].enabled /\ failures' >= Threshold /\ ~config.paused)
      <3>1. UNCHANGED <<config, saved, pauser>>
        BY <1>4, <2>6 DEF ApplyFailure
      <3> QED
        BY <2>1, <2>2, <2>3, <2>4, <3>1, <1>t DEF TypeOK, OwnershipDurable,
           SavedOutageKnown, FailuresDated, ClockRuns
    <2> QED
      BY <2>5, <2>6
  <1>5. ASSUME NEW on \in BOOLEAN, SetEnabled(on) PROVE Inv'
    <2>1. UNCHANGED <<outage, lastOk, probe, request, up, now, manuals, restarts>>
          /\ failures' = 0 /\ saved' = config'
          /\ pauser' \in {"nobody", "user", "guard", "start"}
      BY <1>5, <1>t DEF SetEnabled, Persist, envVars
    <2>2. /\ config' \in Config
          /\ config'.pausedByGuard =>
               config.pausedByGuard /\ config'.outageSince = config.outageSince
      BY <1>5, <1>c, <1>t DEF SetEnabled, Persist, Config
    <2> QED
      BY <2>1, <2>2, <1>c, <1>t DEF TypeOK, OwnershipDurable,
         SavedOutageKnown, FailuresDated, ClockRuns
  <1>6. ASSUME NEW p \in BOOLEAN, NoteManualPause(p) PROVE Inv'
    <2>1. /\ UNCHANGED <<saved, outage, lastOk, probe, up, now, restarts>>
          /\ failures' = 0 /\ manuals' \in 0 .. MaxManual
          /\ pauser' \in {"nobody", "user", "guard", "start"}
      BY <1>6, <1>t, Constants DEF NoteManualPause
    <2>2. request' \in Request
      BY <1>6 DEF NoteManualPause, Request
    <2>3. config' \in Config /\ config'.pausedByGuard = FALSE
      BY <1>6, <1>c, <1>t DEF NoteManualPause, Config
    <2> QED
      BY <2>1, <2>2, <2>3, <1>c, <1>t DEF TypeOK, OwnershipDurable,
         SavedOutageKnown, FailuresDated, ClockRuns
  <1>7. CASE SetPaused
    <2>1. config' = [config EXCEPT !.paused = request.paused]
          /\ request' = [request EXCEPT !.at = "set"]
          /\ UNCHANGED <<saved, failures, outage, lastOk, probe, up, now,
                         manuals, restarts>>
          /\ pauser' \in {"nobody", "user", "guard", "start"}
      BY <1>7, <1>t DEF SetPaused, guardVars, envVars
    <2>2. /\ config' \in Config
          /\ config'.pausedByGuard = config.pausedByGuard
          /\ config'.outageSince = config.outageSince
      BY <2>1, <1>t DEF Config, Request
    <2>3. request' \in Request
      BY <2>1, <1>t DEF Request
    <2> QED
      BY <2>1, <2>2, <2>3, <1>t DEF TypeOK, OwnershipDurable,
         SavedOutageKnown, FailuresDated, ClockRuns
  <1>8. CASE PersistPaused
    <2>1. request' \in Request
      BY <1>8 DEF PersistPaused, NoRequest, Request
    <2> QED
      BY <1>8, <2>1, <1>t DEF PersistPaused, guardVars, envVars, TypeOK,
         OwnershipDurable, SavedOutageKnown, FailuresDated, ClockRuns
  <1>9. ASSUME NEW crashLoop \in BOOLEAN, Restart(crashLoop) PROVE Inv'
    <2>1. /\ UNCHANGED <<up, now, manuals>>
          /\ failures' = 0 /\ outage' = 0 /\ lastOk' = 0 /\ saved' = config'
          /\ restarts' \in 0 .. MaxRestart
          /\ pauser' \in {"nobody", "user", "guard", "start"}
      BY <1>9, <1>t, Constants DEF Restart, Persist
    <2>2. /\ config' \in Config
          /\ config'.pausedByGuard = saved.pausedByGuard
          /\ config'.outageSince = saved.outageSince
      BY <1>9, <1>t DEF Restart, Resumed, Persist, Config
    <2>3. probe' \in [Threads -> Probe] /\ request' \in Request
      BY <1>9 DEF Restart, NoProbe, NoRequest, Probe, Request
    <2> QED
      BY <2>1, <2>2, <2>3, <1>c, <1>t DEF TypeOK, OwnershipDurable,
         SavedOutageKnown, FailuresDated, ClockRuns
  <1>10. CASE ModelTurns
    BY <1>10, <1>t DEF ModelTurns, guardVars, TypeOK, OwnershipDurable,
       SavedOutageKnown, FailuresDated, ClockRuns
  <1>11. CASE Elapse
    <2>1. now' \in Clock /\ now' > Lookback
      BY <1>11, <1>t, Constants DEF Elapse, Clock, ClockRuns
    <2> QED
      BY <1>11, <2>1, <1>t DEF Elapse, guardVars, TypeOK, OwnershipDurable,
         SavedOutageKnown, FailuresDated, ClockRuns
  <1>12. CASE UNCHANGED vars
    BY <1>12, <1>t DEF vars, guardVars, envVars, TypeOK, OwnershipDurable,
       SavedOutageKnown, FailuresDated, ClockRuns
  <1> QED
    BY <1>1, <1>2, <1>3, <1>4, <1>5, <1>6, <1>7, <1>8, <1>9, <1>10, <1>11,
       <1>12 DEF Next, LoopProbes, PageProbes, Threads

LEMMA InvHolds == Spec => []Inv
  BY InitInv, NextInv, PTL DEF Spec

-----------------------------------------------------------------------------
\* The shared configuration, its file, the probes in flight and the request
\* in flight are always ones the code knows.
THEOREM GuardTyped == Spec => []TypeOK
  BY InvHolds, PTL DEF Inv

\* A restart in the middle of an outage finds the guard's ownership of the
\* pause and the start of the outage in config.json, whichever of the loop,
\* the page's probe and the operator wrote last.
THEOREM OwnershipHolds == Spec => []OwnershipDurable
  BY InvHolds, PTL DEF Inv
=============================================================================
