------------------------------ MODULE LlmGuard ------------------------------
(***************************************************************************)
(* LlmGuard (api/llm_guard.py): pauses the queue while the model the       *)
(* containers talk to is down, and resumes a pause of its own.  Two        *)
(* threads probe, the guard's loop and a page request ("test"); a probe    *)
(* takes up to 30 s, outside the lock, and is applied with the settings    *)
(* read before it.  The operator's set-paused (api/service.py) is three    *)
(* steps of which only the first takes the guard's lock.  config is the    *)
(* dictionary all of them share, saved is config.json.                     *)
(***************************************************************************)
EXTENDS Integers

CONSTANTS Threshold,   \* failThreshold
          Lookback,    \* probeSeconds, in ticks of now
          MaxNow,      \* bound: the clock
          MaxManual,   \* bound: set-paused requests in one behaviour
          MaxRestart   \* bound: restarts of the server in one behaviour

ASSUME ThresholdAssumption == Threshold \in Nat \ {0}
ASSUME ClockAssumption == Lookback \in Nat \ {0} /\ MaxNow \in Nat /\ MaxNow > Lookback
ASSUME BoundAssumption == MaxManual \in Nat /\ MaxRestart \in Nat

VARIABLES config,     \* enabled, pausedByGuard, outageSince and automation.paused
          saved,      \* the same in config.json
          failures,   \* failed probes in a row, up to Threshold
          outage,     \* outage_since in memory, 0 for unknown
          lastOk,     \* last_ok_at in memory, 0 for never
          probe,      \* the probe a thread has in flight
          request,    \* the set-paused request in flight
          up,         \* whether the model answers
          now,
          pauser,     \* history: who paused the queue last, or took the pause over
          manuals,    \* history: set-paused requests so far
          restarts    \* history: restarts so far

guardVars == <<failures, outage, lastOk>>
envVars   == <<up, now, manuals, restarts>>
vars      == <<config, saved, guardVars, probe, request, pauser, envVars>>

Threads == {"loop", "page"}
Clock   == 0..MaxNow
Config  == [enabled : BOOLEAN, pausedByGuard : BOOLEAN, paused : BOOLEAN,
            outageSince : Clock]
\* enabled is the guard setting as read before the probe was sent.
Probe   == [at : {"idle", "sent", "ok", "failed"}, enabled : BOOLEAN]
Request == [at : {"idle", "noted", "set"}, paused : BOOLEAN]

NoProbe   == [at |-> "idle", enabled |-> FALSE]
NoRequest == [at |-> "idle", paused |-> FALSE]

TypeOK ==
  /\ config \in Config /\ saved \in Config
  /\ failures \in 0..Threshold
  /\ outage \in Clock /\ lastOk \in Clock
  /\ probe \in [Threads -> Probe]
  /\ request \in Request
  /\ up \in BOOLEAN /\ now \in Clock
  /\ pauser \in {"nobody", "user", "guard", "start"}
  /\ manuals \in 0..MaxManual /\ restarts \in 0..MaxRestart

Init ==
  /\ config = [enabled |-> TRUE, pausedByGuard |-> FALSE, paused |-> FALSE,
               outageSince |-> 0]
  /\ saved = config
  /\ failures = 0 /\ outage = 0 /\ lastOk = 0
  /\ probe = [t \in Threads |-> NoProbe]
  /\ request = NoRequest
  /\ up = TRUE /\ now = Lookback + 1
  /\ pauser = "nobody" /\ manuals = 0 /\ restarts = 0

Persist(cfg) == config' = cfg /\ saved' = cfg

-----------------------------------------------------------------------------
(* Probing *)

Send(t) ==
  /\ probe[t].at = "idle"
  /\ probe' = [probe EXCEPT ![t] = [at |-> "sent", enabled |-> config.enabled]]
  /\ UNCHANGED <<config, saved, guardVars, request, pauser, envVars>>

\* step: due (how soon is left open), and no call is spent on a queue that
\* is paused by somebody else.
LoopProbes ==
  /\ config.enabled /\ (config.paused => config.pausedByGuard)
  /\ Send("loop")

PageProbes == Send("page")

\* The model's answer, or its absence.
Answer(t) ==
  /\ probe[t].at = "sent"
  /\ probe' = [probe EXCEPT ![t].at = IF up THEN "ok" ELSE "failed"]
  /\ UNCHANGED <<config, saved, guardVars, request, pauser, envVars>>

\* The start of the outage that on_resumed is called with.
Onset == IF outage # 0 THEN outage
         ELSE IF config.outageSince # 0 THEN config.outageSince ELSE now - Lookback

\* _apply_locked of a good answer.
ApplyOk(t) ==
  /\ probe[t].at = "ok"
  /\ probe' = [probe EXCEPT ![t] = NoProbe]
  /\ failures' = 0 /\ lastOk' = now
  /\ IF probe[t].enabled /\ config.pausedByGuard
     THEN /\ Persist([config EXCEPT !.pausedByGuard = FALSE, !.paused = FALSE,
                                    !.outageSince = 0])
          /\ outage' = 0
     ELSE UNCHANGED <<config, saved, outage>>
  /\ UNCHANGED <<request, pauser, envVars>>

\* Mutant of Paused: the resume relies on memory for the ownership.
PausedInMemory(cfg) ==
  /\ config' = cfg /\ saved' = [cfg EXCEPT !.pausedByGuard = FALSE, !.outageSince = 0]
\* The guard's pause goes to config.json with its owner and its start.
Paused(cfg) == Persist(cfg)

\* Mutant of Failed: a failure does not add to the ones before.
FailedOnce == 1
\* One more failure, capped: beyond the threshold only ">=" looks at it.
Failed == IF failures = Threshold THEN failures ELSE failures + 1

\* Mutant of EstimatedStart: also without a last good probe.
BeforeLastOk == lastOk - Lookback
\* When an outage that was just noticed may have begun.
EstimatedStart == IF lastOk # 0 THEN lastOk ELSE now - Lookback

\* _apply_locked of a failed probe.
ApplyFailure(t) ==
  /\ probe[t].at = "failed"
  /\ probe' = [probe EXCEPT ![t] = NoProbe]
  /\ failures' = Failed
  /\ outage' = IF failures = 0 THEN EstimatedStart ELSE outage
  /\ IF probe[t].enabled /\ failures' >= Threshold /\ ~config.paused
     THEN /\ Paused([config EXCEPT !.paused = TRUE, !.pausedByGuard = TRUE,
                                   !.outageSince = outage'])
          /\ pauser' = "guard"
     ELSE UNCHANGED <<config, saved, pauser>>
  /\ UNCHANGED <<lastOk, request, envVars>>

-----------------------------------------------------------------------------
(* The operator *)

\* set_enabled: off hands a pause of the guard back to the operator.
SetEnabled(on) ==
  /\ on # config.enabled
  /\ Persist(IF on THEN [config EXCEPT !.enabled = TRUE]
             ELSE [config EXCEPT !.enabled = FALSE, !.pausedByGuard = FALSE,
                                 !.outageSince = 0])
  /\ failures' = 0
  /\ pauser' = IF ~on /\ config.pausedByGuard THEN "user" ELSE pauser
  /\ UNCHANGED <<outage, lastOk, probe, request, envVars>>

\* set-paused, first note_manual_pause: the pause is nobody's but the user's.
NoteManualPause(paused) ==
  /\ request.at = "idle" /\ manuals < MaxManual
  /\ manuals' = manuals + 1
  /\ request' = [at |-> "noted", paused |-> paused]
  /\ failures' = 0
  /\ config' = IF config.pausedByGuard
               THEN [config EXCEPT !.pausedByGuard = FALSE, !.outageSince = 0] ELSE config
  /\ pauser' = IF config.pausedByGuard THEN "user" ELSE pauser
  /\ UNCHANGED <<saved, outage, lastOk, probe, up, now, restarts>>

\* Then the assignment, without the guard's lock ...
SetPaused ==
  /\ request.at = "noted"
  /\ request' = [request EXCEPT !.at = "set"]
  /\ config' = [config EXCEPT !.paused = request.paused]
  /\ pauser' = IF request.paused THEN "user" ELSE pauser
  /\ UNCHANGED <<saved, guardVars, probe, envVars>>

\* ... and then _persist_config.
PersistPaused ==
  /\ request.at = "set"
  /\ request' = NoRequest
  /\ saved' = config
  /\ UNCHANGED <<config, guardVars, probe, pauser, envVars>>

-----------------------------------------------------------------------------
(* The process, the model and the clock *)

\* Mutant of Resumed: a restart forgets whose pause it is.
ResumedAsManual == [saved EXCEPT !.pausedByGuard = FALSE]
\* What a new process starts from.
Resumed == saved

\* The server stops, cleanly or not, and starts again from config.json;
\* _decide_pause_on_start pauses a running queue in a crash loop.
Restart(crashLoop) ==
  /\ restarts < MaxRestart /\ restarts' = restarts + 1
  /\ crashLoop => ~Resumed.paused
  /\ Persist([Resumed EXCEPT !.paused = @ \/ crashLoop])
  /\ pauser' = IF crashLoop THEN "start"
               ELSE IF saved.pausedByGuard THEN "guard" ELSE pauser
  /\ failures' = 0 /\ outage' = 0 /\ lastOk' = 0
  /\ probe' = [t \in Threads |-> NoProbe]
  /\ request' = NoRequest
  /\ UNCHANGED <<up, now, manuals>>

ModelTurns ==
  /\ up' = ~up
  /\ UNCHANGED <<config, saved, guardVars, probe, request, pauser, now, manuals, restarts>>

Elapse ==
  /\ now < MaxNow /\ now' = now + 1
  /\ UNCHANGED <<config, saved, guardVars, probe, request, pauser, up, manuals, restarts>>

Next ==
  \/ LoopProbes \/ PageProbes
  \/ \E t \in Threads : Answer(t) \/ ApplyOk(t) \/ ApplyFailure(t)
  \/ \E on \in BOOLEAN : SetEnabled(on)
  \/ \E paused \in BOOLEAN : NoteManualPause(paused)
  \/ SetPaused \/ PersistPaused
  \/ \E crashLoop \in BOOLEAN : Restart(crashLoop)
  \/ ModelTurns \/ Elapse

Spec == Init /\ [][Next]_vars

\* The loop wakes every five seconds and its intervals are bounded; probes
\* time out; a request handler runs to its end.
Fairness ==
  /\ WF_vars(LoopProbes)
  /\ WF_vars(Answer("loop"))
  /\ WF_vars(ApplyOk("loop") \/ ApplyFailure("loop"))
  /\ WF_vars(SetPaused \/ PersistPaused)

FairSpec == Spec /\ Fairness

-----------------------------------------------------------------------------
(* Properties *)

\* The guard's ownership of a pause, and when its outage began, are never only
\* in memory: a restart in the middle of an outage keeps both.
OwnershipDurable ==
  config.pausedByGuard =>
    /\ saved.pausedByGuard
    /\ saved.outageSince = config.outageSince /\ saved.outageSince # 0

\* If the model stays up and the guard stays on, no pause the guard made lasts,
\* whoever probed, restarted or clicked in between.
GuardPauseLifted ==
  <>[](up /\ config.enabled) => []<>~(config.paused /\ pauser = "guard")

\* If the model stays down and the guard stays on, the queue ends up paused,
\* also when the operator starts it again meanwhile.
OutagePauses == <>[](~up /\ config.enabled) => <>[]config.paused
=============================================================================
