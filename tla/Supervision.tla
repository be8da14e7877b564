---------------------------- MODULE Supervision ----------------------------
(***************************************************************************)
(* Unattended operation: scripts/keepalive.sh starts server.py and ends it *)
(* when /api/health stays bad; server.py takes an instance lock, builds    *)
(* the service (api/service.py), which notes the start in starts.json and  *)
(* decides whether the queue resumes, binds its port and starts the loops; *)
(* a watchdog (api/health.py) revives loops whose thread has died.         *)
(***************************************************************************)
EXTENDS Naturals, Sequences, FiniteSets

CONSTANTS Loops,       \* background loops under LoopHealth and the watchdog
          PauseOnStart, \* automation.pauseOnStart
          CrashLoop,   \* CRASH_LOOP_STARTS
          BadChecks,   \* KEEPALIVE_UNHEALTHY_CHECKS
          MaxStarts    \* bound: starts within CRASH_LOOP_WINDOW_SECONDS

ASSUME SupervisionAssumption ==
  /\ PauseOnStart \in {"always", "never", "crash-loop"}
  /\ {CrashLoop, BadChecks, MaxStarts} \subseteq Nat \ {0}

VARIABLES keeper,   \* keepalive.sh: "launch", "watch", "term" or "delay"
          bad,      \* its consecutive bad checks
          server,   \* how far the server process is
          wedged,   \* it neither answers nor handles a signal
          lock,     \* who holds monitor.lock
          port,     \* whether another program has the port
          starts,   \* starts.json: entries of the window, [clean, end]
          paused,   \* automation.paused in config.json
          thread,   \* per loop: what its thread does
          live,     \* per loop: threads of it that are alive
          silent    \* per loop: no beat for longer than stallAfter

procVars == <<server, wedged, lock>>
loopVars == <<thread, live, silent>>
vars == <<keeper, bad, procVars, port, starts, paused, loopVars>>

NoThreads == [l \in Loops |-> "none"]
NoLives == [l \in Loops |-> 0]
NoSilence == [l \in Loops |-> FALSE]

\* "end" is history: how the process of the entry ended.
Entry == [clean: BOOLEAN, end: {"alive", "stopped", "crashed", "hung", "refused"}]

TypeOK ==
  /\ keeper \in {"launch", "watch", "term", "delay"}
  /\ bad \in 0 .. BadChecks
  /\ server \in {"none", "booting", "locked", "built", "starting", "up", "stopping"}
  /\ wedged \in BOOLEAN /\ paused \in BOOLEAN
  /\ lock \in {"free", "server", "other"} /\ port \in {"free", "other"}
  /\ starts \in Seq(Entry) /\ Len(starts) <= MaxStarts
  /\ thread \in [Loops -> {"none", "idle", "busy", "hung", "dead"}]
  /\ live \in [Loops -> 0 .. 2]
  /\ silent \in [Loops -> BOOLEAN]

Init ==
  /\ keeper = "launch" /\ bad = 0
  /\ server = "none" /\ wedged = FALSE
  /\ lock \in {"free", "other"} /\ port \in {"free", "other"}
  /\ starts = <<>> /\ paused \in BOOLEAN
  /\ thread = NoThreads /\ live = NoLives /\ silent = NoSilence

-----------------------------------------------------------------------------
(* server.py and the service *)

Gone(how) ==
  /\ server' = "none" /\ wedged' = FALSE
  /\ lock' = IF lock = "server" THEN "free" ELSE lock
  /\ starts' = IF server \in {"none", "booting", "locked"} THEN starts
               ELSE [starts EXCEPT ![Len(starts)].end = IF @ = "alive" THEN how ELSE @]
  /\ thread' = NoThreads /\ live' = NoLives /\ silent' = NoSilence

\* MonitorInstanceLock.acquire; exit code 2 when another instance holds it.
AcquireLock ==
  /\ server = "booting"
  /\ IF lock = "free"
       THEN server' = "locked" /\ lock' = "server" /\ UNCHANGED <<wedged, starts, loopVars>>
       ELSE Gone("refused")
  /\ UNCHANGED <<keeper, bad, port, paused>>

\* _decide_pause_on_start
Crashes == Cardinality({k \in DOMAIN starts : ~starts[k].clean})
\* Mutant of PausesOnStart: only beyond the limit.
PausesBeyond ==
  CASE PauseOnStart = "never"  -> FALSE
    [] PauseOnStart = "always" -> TRUE
    [] OTHER                   -> Crashes > CrashLoop
PausesOnStart ==
  CASE PauseOnStart = "never"  -> FALSE
    [] PauseOnStart = "always" -> TRUE
    [] OTHER                   -> Crashes >= CrashLoop

BuildService ==
  /\ server = "locked" /\ Len(starts) < MaxStarts
  /\ server' = "built"
  /\ starts' = Append(starts, [clean |-> FALSE, end |-> "alive"])
  /\ paused' = (paused \/ PausesOnStart)
  /\ UNCHANGED <<keeper, bad, wedged, lock, port, loopVars>>

\* The HTTP server binds its port; exit code 2 when it cannot.
Bind ==
  /\ server = "built"
  /\ IF port = "free"
       THEN server' = "starting" /\ UNCHANGED <<wedged, lock, starts, loopVars>>
       ELSE Gone("refused")
  /\ UNCHANGED <<keeper, bad, port, paused>>

\* SchedulerService.start, which reads the world first.
StartLoops ==
  /\ server = "starting" /\ server' = "up"
  /\ thread' = [l \in Loops |-> "idle"] /\ live' = [l \in Loops |-> 1]
  /\ UNCHANGED <<keeper, bad, wedged, lock, port, starts, paused, silent>>

\* SIGTERM once the service runs: _mark_clean_stop comes first.
MarkCleanStop == [starts EXCEPT ![Len(starts)] =
                    [clean |-> TRUE, end |-> IF \E l \in Loops : silent[l] THEN "hung" ELSE "stopped"]]

Stop ==
  /\ keeper = "term" /\ server = "up" /\ ~wedged
  /\ server' = "stopping" /\ starts' = MarkCleanStop
  /\ UNCHANGED <<keeper, bad, wedged, lock, port, paused, loopVars>>

Exit ==
  /\ server = "stopping" /\ Gone("stopped")
  /\ UNCHANGED <<keeper, bad, port, paused>>

\* A crash, or a kill of the system.
Crash ==
  /\ server # "none" /\ Gone("crashed")
  /\ UNCHANGED <<keeper, bad, port, paused>>

Wedge ==
  /\ server \in {"starting", "up"} /\ ~wedged /\ wedged' = TRUE
  /\ UNCHANGED <<keeper, bad, server, lock, port, starts, paused, loopVars>>

\* The page pauses or starts the queue.
Toggle ==
  /\ server = "up" /\ ~wedged /\ paused' = ~paused
  /\ UNCHANGED <<keeper, bad, procVars, port, starts, loopVars>>

-----------------------------------------------------------------------------
(* Loops, LoopHealth and the watchdog *)

Becomes(l, from, to) ==
  /\ server = "up" /\ thread[l] \in from
  /\ thread' = [thread EXCEPT ![l] = to]
  /\ UNCHANGED <<keeper, bad, procVars, port, starts, paused>>

Begin(l) == Becomes(l, {"idle"}, "busy") /\ UNCHANGED <<live, silent>>
Hang(l) == Becomes(l, {"busy"}, "hung") /\ UNCHANGED <<live, silent>>

\* LoopHealth.end: the beat of a slow loop comes late.
End(l) ==
  /\ Becomes(l, {"busy"}, "idle")
  /\ silent' = [silent EXCEPT ![l] = FALSE] /\ UNCHANGED live

Die(l) ==
  /\ Becomes(l, {"busy"}, "dead")
  /\ live' = [live EXCEPT ![l] = 0] /\ UNCHANGED silent

\* Longer than stallAfter without a beat.
FallSilent(l) ==
  /\ server = "up" /\ thread[l] \in {"busy", "hung", "dead"} /\ ~silent[l]
  /\ silent' = [silent EXCEPT ![l] = TRUE]
  /\ UNCHANGED <<keeper, bad, procVars, port, starts, paused, thread, live>>

\* Watchdog.run_once revives threads that are not alive; a stall is logged.
\* Mutant of Revivable: a silent loop gets another thread.
RevivableSilent(l) == thread[l] = "dead" \/ silent[l]
Revivable(l) == thread[l] = "dead"

Revive(l) ==
  /\ Revivable(l) /\ Becomes(l, {"dead", "hung", "busy"}, "idle")
  /\ live' = [live EXCEPT ![l] = @ + 1]
  /\ silent' = [silent EXCEPT ![l] = FALSE]

-----------------------------------------------------------------------------
(* keepalive.sh *)

Launch ==
  /\ keeper = "launch" /\ server = "none"
  /\ keeper' = "watch" /\ bad' = 0 /\ server' = "booting"
  /\ UNCHANGED <<wedged, lock, port, starts, paused, loopVars>>

\* /api/health: no answer before the loops run, then LoopHealth.healthy.
\* Mutant of Healthy: it answers.
Answers == server = "up" /\ ~wedged
Healthy == server = "up" /\ ~wedged /\ \A l \in Loops : ~silent[l]

Check ==
  /\ keeper = "watch" /\ server # "none"
  /\ bad' = IF Healthy THEN 0 ELSE bad + 1
  /\ keeper' = IF bad' >= BadChecks THEN "term" ELSE "watch"
  /\ UNCHANGED <<procVars, port, starts, paused, loopVars>>

\* SIGTERM ends a server that does not handle it yet, SIGKILL after 20
\* seconds one that does not or takes too long.
Kill ==
  /\ keeper = "term"
  /\ \/ server \in {"booting", "locked", "built", "starting", "stopping"}
     \/ server = "up" /\ wedged
  /\ Gone(IF wedged THEN "hung" ELSE "crashed")
  /\ UNCHANGED <<keeper, bad, port, paused>>

\* The server has gone: a pause, longer after exit code 2 or crashes.
Notice ==
  /\ keeper \in {"watch", "term"} /\ server = "none"
  /\ keeper' = "delay"
  /\ UNCHANGED <<bad, procVars, port, starts, paused, loopVars>>

Delay ==
  /\ keeper = "delay" /\ keeper' = "launch"
  /\ UNCHANGED <<bad, procVars, port, starts, paused, loopVars>>

-----------------------------------------------------------------------------
(* Time and other programs *)

\* The oldest entry leaves the window.
Expire ==
  /\ starts # <<>> /\ (Len(starts) = 1 => server \in {"none", "booting", "locked"})
  /\ starts' = Tail(starts)
  /\ UNCHANGED <<keeper, bad, procVars, port, paused, loopVars>>

OtherInstance ==
  /\ \/ lock = "free" /\ lock' = "other"
     \/ lock = "other" /\ lock' = "free"
  /\ UNCHANGED <<keeper, bad, server, wedged, port, starts, paused, loopVars>>

OtherProgram ==
  /\ port' \in {"free", "other"} \ {port}
  /\ server \notin {"starting", "up", "stopping"}
  /\ UNCHANGED <<keeper, bad, procVars, starts, paused, loopVars>>

Boot == AcquireLock \/ BuildService \/ Bind \/ StartLoops
Keepalive == Launch \/ Check \/ Kill \/ Notice \/ Delay
Faults == Crash \/ Wedge
Others == OtherInstance \/ OtherProgram

Next ==
  \/ Boot \/ Stop \/ Exit \/ Toggle
  \/ Keepalive
  \/ \E l \in Loops : Begin(l) \/ End(l) \/ Hang(l) \/ Die(l) \/ FallSilent(l) \/ Revive(l)
  \/ Expire
  \/ Faults
  \/ Others

\* Processes, loops that do not hang, the watchdog, keepalive.sh and time
\* go on.
Fairness ==
  /\ WF_vars(Boot) /\ WF_vars(Stop \/ Exit) /\ WF_vars(Keepalive) /\ WF_vars(Expire)
  /\ \A l \in Loops : WF_vars(End(l)) /\ WF_vars(FallSilent(l)) /\ WF_vars(Revive(l))

Spec == Init /\ [][Next]_vars /\ Fairness

-----------------------------------------------------------------------------
\* A loop never runs in two threads at once: the watchdog leaves a thread
\* that is only slow or hung to keepalive.sh (health.py:175-189).
OneThreadPerLoop == \A l \in Loops : live[l] <= 1

\* A service that crashed CRASH_LOOP_STARTS times within the window does not
\* come back with the queue running (service.py:341-376).
CrashLoopPauses ==
  [][(/\ BuildService /\ PauseOnStart # "never"
      /\ Cardinality({k \in DOMAIN starts : starts[k].end = "crashed"}) >= CrashLoop)
       => paused']_vars

\* A loop that hangs or dies works again in the end, once other programs
\* leave the lock and the port alone and the process is not killed and does
\* not wedge any more (health.py:3-9, keepalive.sh:5-7).
LoopsComeBack ==
  (<>[](lock # "other" /\ port = "free") /\ <>[][~Faults]_vars)
  => \A l \in Loops : (thread[l] \in {"hung", "dead"}) ~> (thread[l] \in {"idle", "busy"})
=============================================================================
