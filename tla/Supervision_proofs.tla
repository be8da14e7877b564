------------------------- MODULE Supervision_proofs -------------------------
(***************************************************************************)
(* No loop ever runs in two threads (OneThreadPerLoop), and a crash loop   *)
(* comes back paused (CrashLoopPauses), for any set of loops, restarts,    *)
(* crashes and hangs.  The watchdog starts a thread only for a loop whose  *)
(* thread is dead, so the invariant has to say that a dead loop has no     *)
(* thread left (DeadIsGone), and for the types that the process of a built *)
(* service has its entry in starts.json (Recorded).  The decision to pause *)
(* counts entries that were not marked clean: what was marked had come to  *)
(* its end in another way than by a crash (CleanEnds).                     *)
(***************************************************************************)
EXTENDS Supervision, SequenceTheorems, FiniteSetTheorems, TLAPS

\* The thread of a loop without one, or with a dead one, is not alive.
DeadIsGone == \A l \in Loops : thread[l] \in {"none", "dead"} => live[l] = 0

\* A service that was built is the last entry of starts.json.
Recorded == server \notin {"none", "booting", "locked"} => starts # <<>>

\* As long as the server is watched, the limit of bad checks is not reached.
BadUnderLimit == keeper = "watch" => bad < BadChecks

\* An entry marked clean is of a process that was told to stop.
EndsClean(e) == e.clean => e.end \in {"stopped", "hung"}
CleanEnds == \A k \in DOMAIN starts : EndsClean(starts[k])

Inv == TypeOK /\ OneThreadPerLoop /\ DeadIsGone /\ Recorded /\ BadUnderLimit /\ CleanEnds

-----------------------------------------------------------------------------
\* Changing the last entry leaves a list of entries of the same length.
LEMMA LastChanged ==
  ASSUME NEW s \in Seq(Entry), s # <<>>, NEW e \in Entry, EndsClean(e),
         \A k \in DOMAIN s : EndsClean(s[k])
  PROVE  /\ [s EXCEPT ![Len(s)] = e] \in Seq(Entry)
         /\ Len([s EXCEPT ![Len(s)] = e]) = Len(s)
         /\ \A k \in DOMAIN [s EXCEPT ![Len(s)] = e] : EndsClean([s EXCEPT ![Len(s)] = e][k])
  <1>1. Len(s) \in 1 .. Len(s)
    BY EmptySeq, LenProperties
  <1>2. \A k \in DOMAIN [s EXCEPT ![Len(s)] = e] : EndsClean([s EXCEPT ![Len(s)] = e][k])
    OBVIOUS
  <1> QED
    BY <1>1, <1>2, ExceptSeq

\* What every end of the process preserves.
LEMMA GoneInv ==
  ASSUME Inv, NEW how \in {"stopped", "crashed", "hung", "refused"}, Gone(how),
         UNCHANGED <<keeper, bad, port, paused>>
  PROVE  Inv'
  <1> DEFINE last == starts[Len(starts)]
             marked == [last EXCEPT !.end = IF @ = "alive" THEN how ELSE @]
  <1>1. starts' \in Seq(Entry) /\ Len(starts') = Len(starts) /\ CleanEnds'
    <2>1. CASE server \in {"none", "booting", "locked"}
      BY <2>1 DEF Gone, Inv, TypeOK, CleanEnds
    <2>2. CASE server \notin {"none", "booting", "locked"}
      <3>1. starts \in Seq(Entry) /\ starts # <<>> /\ last \in Entry
        BY <2>2, EmptySeq, LenProperties, ElementOfSeq DEF Inv, TypeOK, Recorded
      <3>2. marked \in Entry
        BY <3>1 DEF Entry
      <3>3. starts' = [starts EXCEPT ![Len(starts)] = marked]
        BY <2>2, <3>1 DEF Gone
      <3>4. EndsClean(marked)
        <4>1. EndsClean(last)
          BY <3>1, EmptySeq, LenProperties DEF Inv, CleanEnds
        <4> QED
          BY <3>1, <4>1 DEF Entry, EndsClean
      <3>5. \A k \in DOMAIN starts : EndsClean(starts[k])
        BY DEF Inv, CleanEnds
      <3>6. \A k \in DOMAIN starts' : EndsClean(starts'[k])
        BY <3>1, <3>2, <3>3, <3>4, <3>5, LastChanged
      <3> QED
        BY <3>1, <3>2, <3>3, <3>4, <3>5, <3>6, LastChanged DEF CleanEnds
    <2> QED
      BY <2>1, <2>2
  <1>2. TypeOK'
    <2>1. starts' \in Seq(Entry) /\ Len(starts') <= MaxStarts
      BY <1>1 DEF Inv, TypeOK
    <2>2. /\ thread' \in [Loops -> {"none", "idle", "busy", "hung", "dead"}]
          /\ live' \in [Loops -> 0 .. 2] /\ silent' \in [Loops -> BOOLEAN]
      BY DEF Gone, NoThreads, NoLives, NoSilence
    <2>3. /\ server' = "none" /\ wedged' \in BOOLEAN
          /\ lock' \in {"free", "server", "other"}
      BY DEF Gone, Inv, TypeOK
    <2>4. /\ keeper' \in {"launch", "watch", "term", "delay"} /\ bad' \in 0 .. BadChecks
          /\ paused' \in BOOLEAN /\ port' \in {"free", "other"}
      BY DEF Inv, TypeOK
    <2> QED
      BY <2>1, <2>2, <2>3, <2>4 DEF TypeOK
  <1>3. OneThreadPerLoop' /\ DeadIsGone' /\ Recorded'
    BY DEF OneThreadPerLoop, DeadIsGone, Recorded, Gone, NoThreads, NoLives
  <1>4. BadUnderLimit'
    BY DEF Inv, BadUnderLimit
  <1> QED
    BY <1>1, <1>2, <1>3, <1>4 DEF Inv

\* A step of one loop's thread: nothing but the loop's own entries changes.
LEMMA LoopInv ==
  ASSUME Inv, NEW l \in Loops,
         Begin(l) \/ End(l) \/ Hang(l) \/ Die(l) \/ FallSilent(l) \/ Revive(l)
  PROVE  Inv'
  <1> USE DEF Inv, OneThreadPerLoop, DeadIsGone, Recorded, BadUnderLimit, CleanEnds, procVars
  <1>1. CASE Begin(l)
    BY <1>1 DEF Begin, Becomes, TypeOK
  <1>2. CASE End(l)
    BY <1>2 DEF End, Becomes, TypeOK
  <1>3. CASE Hang(l)
    BY <1>3 DEF Hang, Becomes, TypeOK
  <1>4. CASE Die(l)
    BY <1>4 DEF Die, Becomes, TypeOK
  <1>5. CASE FallSilent(l)
    BY <1>5 DEF FallSilent, TypeOK
  <1>6. CASE Revive(l)
    BY <1>6 DEF Revive, Revivable, Becomes, TypeOK
  <1> QED
    BY <1>1, <1>2, <1>3, <1>4, <1>5, <1>6

LEMMA InitInv == Init => Inv
  <1> SUFFICES ASSUME Init PROVE Inv
    OBVIOUS
  <1>1. starts \in Seq(Entry) /\ Len(starts) = 0
    BY EmptySeq DEF Init
  <1>2. /\ thread \in [Loops -> {"none", "idle", "busy", "hung", "dead"}]
        /\ live \in [Loops -> 0 .. 2] /\ silent \in [Loops -> BOOLEAN]
    BY DEF Init, NoThreads, NoLives, NoSilence
  <1>3. TypeOK
    <2>1. bad \in 0 .. BadChecks /\ Len(starts) <= MaxStarts
      BY <1>1, SupervisionAssumption DEF Init
    <2>2. /\ keeper \in {"launch", "watch", "term", "delay"}
          /\ server \in {"none", "booting", "locked", "built", "starting", "up", "stopping"}
          /\ lock \in {"free", "server", "other"} /\ port \in {"free", "other"}
      BY DEF Init
    <2>3. wedged \in BOOLEAN /\ paused \in BOOLEAN
      BY DEF Init
    <2> QED
      BY <1>1, <1>2, <2>1, <2>2, <2>3 DEF TypeOK
  <1>4. OneThreadPerLoop /\ DeadIsGone /\ Recorded /\ BadUnderLimit /\ CleanEnds
    BY DEF Init, OneThreadPerLoop, DeadIsGone, Recorded, BadUnderLimit, CleanEnds, NoThreads, NoLives
  <1> QED
    BY <1>3, <1>4 DEF Inv

LEMMA NextInv == Inv /\ [Next]_vars => Inv'
  <1> SUFFICES ASSUME Inv, [Next]_vars PROVE Inv'
    OBVIOUS
  <1>1. CASE AcquireLock
    <2>1. CASE lock = "free"
      BY <1>1, <2>1 DEF AcquireLock, Inv, TypeOK, OneThreadPerLoop, DeadIsGone, Recorded, BadUnderLimit, CleanEnds, loopVars
    <2>2. CASE lock # "free"
      BY <1>1, <2>2, GoneInv DEF AcquireLock, Inv, TypeOK
    <2> QED
      BY <2>1, <2>2
  <1>2. CASE BuildService
    <2> DEFINE entry == [clean |-> FALSE, end |-> "alive"]
    <2>1. entry \in Entry
      BY DEF Entry
    <2>2. starts' \in Seq(Entry) /\ Len(starts') = Len(starts) + 1
      BY <1>2, <2>1, AppendProperties DEF BuildService, Inv, TypeOK
    <2>3. Len(starts') <= MaxStarts /\ starts' # <<>>
      BY <1>2, <2>2, EmptySeq, LenProperties, SupervisionAssumption DEF BuildService, Inv, TypeOK
    <2>4. paused' \in BOOLEAN
      BY <1>2 DEF BuildService
    <2>5. CleanEnds'
      <3>1. /\ DOMAIN starts = 1 .. Len(starts) /\ DOMAIN starts' = 1 .. Len(starts) + 1
            /\ Len(starts) \in Nat
        BY <2>2, LenProperties DEF Inv, TypeOK
      <3>2. /\ \A k \in 1 .. Len(starts) : starts'[k] = starts[k]
            /\ starts'[Len(starts) + 1] = entry
        BY <1>2, <2>1, AppendProperties DEF BuildService, Inv, TypeOK
      <3>3. \A k \in 1 .. Len(starts) + 1 : k \in 1 .. Len(starts) \/ k = Len(starts) + 1
        BY <3>1
      <3>4. EndsClean(entry)
        BY DEF EndsClean
      <3>5. \A k \in 1 .. Len(starts) : EndsClean(starts[k])
        BY <3>1 DEF Inv, CleanEnds
      <3> HIDE DEF entry
      <3> QED
        BY <3>1, <3>2, <3>3, <3>4, <3>5 DEF CleanEnds
    <2> QED
      BY <1>2, <2>2, <2>3, <2>4, <2>5
      DEF BuildService, Inv, TypeOK, OneThreadPerLoop, DeadIsGone, Recorded, BadUnderLimit, loopVars
  <1>3. CASE Bind
    <2>1. CASE port = "free"
      BY <1>3, <2>1 DEF Bind, Inv, TypeOK, OneThreadPerLoop, DeadIsGone, Recorded, BadUnderLimit, CleanEnds, loopVars
    <2>2. CASE port # "free"
      BY <1>3, <2>2, GoneInv DEF Bind, Inv, TypeOK
    <2> QED
      BY <2>1, <2>2
  <1>4. CASE StartLoops
    BY <1>4 DEF StartLoops, Inv, TypeOK, OneThreadPerLoop, DeadIsGone, Recorded, BadUnderLimit, CleanEnds
  <1>5. CASE Stop
    <2> DEFINE entry == [clean |-> TRUE, end |-> IF \E l \in Loops : silent[l] THEN "hung" ELSE "stopped"]
    <2>1. entry \in Entry
      BY DEF Entry
    <2>2. starts \in Seq(Entry) /\ starts # <<>>
      BY <1>5 DEF Stop, Inv, TypeOK, Recorded
    <2>3. EndsClean(entry) /\ \A k \in DOMAIN starts : EndsClean(starts[k])
      BY DEF EndsClean, Inv, CleanEnds
    <2>4. starts' = [starts EXCEPT ![Len(starts)] = entry]
      BY <1>5 DEF Stop, MarkCleanStop
    <2> HIDE DEF entry
    <2>5. /\ starts' \in Seq(Entry) /\ Len(starts') = Len(starts)
          /\ \A k \in DOMAIN starts' : EndsClean(starts'[k])
      BY <2>1, <2>2, <2>3, <2>4, LastChanged
    <2>6. starts' # <<>>
      BY <2>2, <2>5, EmptySeq, LenProperties
    <2> QED
      BY <1>5, <2>5, <2>6
      DEF Stop, Inv, TypeOK, OneThreadPerLoop, DeadIsGone, Recorded, BadUnderLimit, CleanEnds, loopVars
  <1>6. CASE Exit
    BY <1>6, GoneInv DEF Exit, Inv, TypeOK
  <1>7. CASE Toggle
    BY <1>7 DEF Toggle, Inv, TypeOK, OneThreadPerLoop, DeadIsGone, Recorded, BadUnderLimit, CleanEnds, procVars, loopVars
  <1>8. CASE Launch
    BY <1>8, SupervisionAssumption
    DEF Launch, Inv, TypeOK, OneThreadPerLoop, DeadIsGone, Recorded, BadUnderLimit, CleanEnds, loopVars
  <1>9. CASE Check
    <2>1. bad' \in 0 .. BadChecks
      <3>1. bad \in 0 .. BadChecks /\ bad < BadChecks /\ BadChecks \in Nat
        BY <1>9, SupervisionAssumption DEF Check, Inv, TypeOK, BadUnderLimit
      <3>2. bad' = 0 \/ bad' = bad + 1
        BY <1>9 DEF Check
      <3> QED
        BY <3>1, <3>2
    <2>2. keeper' \in {"watch", "term"}
      BY <1>9 DEF Check
    <2>3. BadUnderLimit'
      BY <1>9, <2>1, SupervisionAssumption DEF Check, BadUnderLimit
    <2> QED
      BY <1>9, <2>1, <2>2, <2>3
      DEF Check, Inv, TypeOK, OneThreadPerLoop, DeadIsGone, Recorded, BadUnderLimit, CleanEnds, procVars, loopVars
  <1>10. CASE Kill
    <2>1. PICK how \in {"stopped", "crashed", "hung", "refused"} : Gone(how)
      BY <1>10 DEF Kill
    <2> QED
      BY <1>10, <2>1, GoneInv DEF Kill, Inv, TypeOK
  <1>11. CASE Notice
    BY <1>11 DEF Notice, Inv, TypeOK, OneThreadPerLoop, DeadIsGone, Recorded, BadUnderLimit, CleanEnds, procVars, loopVars
  <1>12. CASE Delay
    BY <1>12 DEF Delay, Inv, TypeOK, OneThreadPerLoop, DeadIsGone, Recorded, BadUnderLimit, CleanEnds, procVars, loopVars
  <1>13. ASSUME NEW l \in Loops,
                Begin(l) \/ End(l) \/ Hang(l) \/ Die(l) \/ FallSilent(l) \/ Revive(l)
         PROVE  Inv'
    BY <1>13, LoopInv
  <1>14. CASE Expire
    <2>1. starts \in Seq(Entry) /\ starts # <<>>
      BY <1>14 DEF Expire, Inv, TypeOK
    <2>2. starts' \in Seq(Entry) /\ Len(starts') = Len(starts) - 1
      BY <1>14, <2>1, HeadTailProperties DEF Expire
    <2>3. Len(starts) \in Nat /\ Len(starts') <= MaxStarts
      BY <2>1, <2>2, LenProperties, SupervisionAssumption DEF Inv, TypeOK
    <2>4. server \notin {"none", "booting", "locked"} => starts' # <<>>
      <3>1. server \notin {"none", "booting", "locked"} => Len(starts) # 1
        BY <1>14 DEF Expire
      <3>2. Len(starts) # 0
        BY <2>1, EmptySeq
      <3>3. server \notin {"none", "booting", "locked"} => Len(starts') # 0
        BY <2>2, <2>3, <3>1, <3>2
      <3> QED
        BY <3>3, EmptySeq
    <2>5. CleanEnds'
      <3>1. /\ DOMAIN starts = 1 .. Len(starts) /\ DOMAIN starts' = 1 .. Len(starts')
            /\ Len(starts) \in Nat /\ Len(starts') = Len(starts) - 1
        BY <2>1, <2>2, LenProperties
      <3>2. \A k \in 1 .. Len(starts') : starts'[k] = starts[k + 1]
        BY <1>14, <2>1, HeadTailProperties DEF Expire
      <3>3. \A k \in 1 .. Len(starts') : k + 1 \in 1 .. Len(starts)
        BY <3>1
      <3> QED
        BY <3>1, <3>2, <3>3 DEF Inv, CleanEnds
    <2> QED
      BY <1>14, <2>2, <2>3, <2>4, <2>5
      DEF Expire, Inv, TypeOK, OneThreadPerLoop, DeadIsGone, Recorded, BadUnderLimit, procVars, loopVars
  <1>15. CASE Crash
    BY <1>15, GoneInv DEF Crash, Inv, TypeOK
  <1>16. CASE Wedge
    BY <1>16 DEF Wedge, Inv, TypeOK, OneThreadPerLoop, DeadIsGone, Recorded, BadUnderLimit, CleanEnds, loopVars
  <1>17. CASE OtherInstance
    BY <1>17 DEF OtherInstance, Inv, TypeOK, OneThreadPerLoop, DeadIsGone, Recorded, BadUnderLimit, CleanEnds, loopVars
  <1>18. CASE OtherProgram
    BY <1>18 DEF OtherProgram, Inv, TypeOK, OneThreadPerLoop, DeadIsGone, Recorded, BadUnderLimit, CleanEnds, procVars, loopVars
  <1>19. CASE UNCHANGED vars
    BY <1>19 DEF vars, Inv, TypeOK, OneThreadPerLoop, DeadIsGone, Recorded, BadUnderLimit, CleanEnds, procVars, loopVars
  <1> QED
    BY <1>1, <1>2, <1>3, <1>4, <1>5, <1>6, <1>7, <1>8, <1>9, <1>10, <1>11, <1>12, <1>13,
       <1>14, <1>15, <1>16, <1>17, <1>18, <1>19
    DEF Next, Boot, Keepalive, Faults, Others

-----------------------------------------------------------------------------
\* The inductive invariant holds throughout.
LEMMA InvHolds == Spec => []Inv
  BY InitInv, NextInv, PTL DEF Spec

\* Every variable of the supervision stays in its range.
THEOREM SupervisionTyped == Spec => []TypeOK
  <1>1. Inv => TypeOK
    BY DEF Inv
  <1> QED
    BY <1>1, InvHolds, PTL

\* No loop of the service ever has two living threads, whatever the watchdog,
\* the page, keepalive.sh and other programs do (health.py:175-189).
THEOREM OneThread == Spec => []OneThreadPerLoop
  <1>1. Inv => OneThreadPerLoop
    BY DEF Inv
  <1> QED
    BY <1>1, InvHolds, PTL

\* What crashed was not marked clean, so it counts when the next start decides.
LEMMA CrashesCounted ==
  ASSUME Inv
  PROVE  /\ Cardinality({k \in DOMAIN starts : starts[k].end = "crashed"}) <= Crashes
         /\ Crashes \in Nat
         /\ Cardinality({k \in DOMAIN starts : starts[k].end = "crashed"}) \in Nat
  <1> DEFINE crashed == {k \in DOMAIN starts : starts[k].end = "crashed"}
             unclean == {k \in DOMAIN starts : ~starts[k].clean}
  <1>1. DOMAIN starts = 1 .. Len(starts) /\ Len(starts) \in Nat
    BY LenProperties DEF Inv, TypeOK
  <1>2. IsFiniteSet(DOMAIN starts)
    BY <1>1, FS_Interval
  <1>3. crashed \subseteq unclean
    BY DEF Inv, CleanEnds, EndsClean
  <1>4. IsFiniteSet(unclean)
    BY <1>2, FS_Subset
  <1>5. IsFiniteSet(crashed) /\ Cardinality(crashed) <= Cardinality(unclean)
    BY <1>3, <1>4, FS_Subset
  <1> QED
    BY <1>4, <1>5, FS_CardinalityType DEF Crashes

\* A service that crashed CRASH_LOOP_STARTS times within the window comes back
\* paused, whatever else started, stopped, hung or left the window meanwhile.
THEOREM CrashLoopHolds == Spec => CrashLoopPauses
  <1>1. Inv /\ [Next]_vars =>
          [(/\ BuildService /\ PauseOnStart # "never"
            /\ Cardinality({k \in DOMAIN starts : starts[k].end = "crashed"}) >= CrashLoop)
             => paused']_vars
    <2> SUFFICES ASSUME Inv, BuildService, PauseOnStart # "never",
                        Cardinality({k \in DOMAIN starts : starts[k].end = "crashed"}) >= CrashLoop
                 PROVE  paused'
      OBVIOUS
    <2>1. CrashLoop \in Nat
      BY SupervisionAssumption
    <2>2. Crashes >= CrashLoop
      BY <2>1, CrashesCounted
    <2>3. PausesOnStart
      BY <2>2 DEF PausesOnStart
    <2> QED
      BY <2>3 DEF BuildService
  <1> QED
    BY <1>1, InvHolds, PTL DEF Spec, CrashLoopPauses
=============================================================================
