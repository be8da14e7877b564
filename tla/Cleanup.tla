------------------------------ MODULE Cleanup ------------------------------
(***************************************************************************)
(* What the monitor removes of a platform task: zombie containers          *)
(* (api/scheduler.py: _release_terminal_containers), processes and         *)
(* containers of a task the guard stops and leaked processes               *)
(* (api/guard.py), node_modules and verify clones (api/housekeeping.py).   *)
(* Each lists what exists first, judges under the queue lock and removes   *)
(* after it, while the page may rerun a side of the same task directory;   *)
(* a retry of the queue takes a new directory.                             *)
(*                                                                         *)
(* A task directory has the session its queue item started and at most     *)
(* one rerun.  Shells and executors the guard spares are left out.         *)
(***************************************************************************)
EXTENDS Naturals

CONSTANTS Roots    \* task directories of platform items

VARIABLES item,     \* the queue item whose taskRoot it is
          state,    \* status in its state.json
          quiet,    \* state.json has not been written for a long time
          session,  \* the processes that work on it
          tool,     \* a process the first session left running
          conts,    \* candidate containers, named after their session
          stopped,  \* it is in stop-tasks.json
          files,    \* node_modules and verify: "kept", "cleaned"
          mode,     \* automation.guard.mode
          pc,       \* how far the reconcile round is
          seen,     \* the containers or processes it listed
          doomed,   \* those it is about to remove
          hk,       \* the housekeeper: "idle", "listed" or "deleting"
          commands, \* the processes it listed
          target    \* the directories it is about to clean

taskVars == <<item, state, quiet, session, tool, conts, stopped>>
recVars == <<pc, seen, doomed>>
hkVars == <<hk, commands, target>>
vars == <<taskVars, files, mode, recVars, hkVars>>

Sessions == {"queue", "rerun"}
Procs == Sessions \cup {"tool"}
With(f, r, x) == [f EXCEPT ![r] = x]

TypeOK ==
  /\ item \in [Roots -> {"pending", "active", "terminal", "left"}]
  /\ state \in [Roots -> {"none", "running", "over", "failed", "complete"}]
  /\ quiet \in [Roots -> BOOLEAN] /\ tool \in [Roots -> BOOLEAN]
  /\ session \in [Roots -> [Sessions -> {"none", "starting", "working", "gone"}]]
  /\ conts \in [Roots -> SUBSET Sessions]
  /\ stopped \in [Roots -> BOOLEAN]
  /\ files \in [Roots -> {"kept", "cleaned"}]
  /\ mode \in {"off", "observe", "enforce"}
  /\ pc \in {"idle", "seen", "removing", "guard", "listed", "killing"}
  /\ seen \subseteq Roots \X Procs /\ doomed \subseteq Roots \X Procs
  /\ hk \in {"idle", "listed", "deleting"}
  /\ commands \subseteq Roots \X Procs /\ target \subseteq Roots
  /\ (seen # {} => pc \in {"seen", "listed"})
  /\ (doomed # {} => pc \in {"removing", "killing"})
  /\ (target # {} => hk = "deleting")

Init ==
  /\ item = [r \in Roots |-> "pending"]
  /\ state = [r \in Roots |-> "none"]
  /\ quiet = [r \in Roots |-> FALSE] /\ tool = quiet /\ stopped = quiet
  /\ session = [r \in Roots |-> [s \in Sessions |-> "none"]]
  /\ conts = [r \in Roots |-> {}]
  /\ files = [r \in Roots |-> "kept"]
  /\ mode \in {"off", "observe", "enforce"}
  /\ pc = "idle" /\ seen = {} /\ doomed = {}
  /\ hk = "idle" /\ commands = {} /\ target = {}

\* TERMINAL_TASK_STATUSES and FINISHED_TASK_STATUSES
TerminalTask(r) == state[r] \in {"over", "complete"}
\* Mutant of FinishedTask: a failed task is not finished.
CompleteTask(r) == state[r] = "complete"
FinishedTask(r) == state[r] \in {"complete", "failed"}

Alive(r, p) == IF p = "tool" THEN tool[r] ELSE session[r][p] \in {"starting", "working"}
Processes == {rp \in Roots \X Procs : Alive(rp[1], rp[2])}
Containers == {rs \in Roots \X Sessions : rs[2] \in conts[rs[1]]}

\* _task_root_owned_locked: an active item or a job of the monitor.
\* Mutant of Owned: an active item only.
OwnedByItem(r) == item[r] = "active"
Owned(r) == item[r] = "active" \/ Alive(r, "rerun")

-----------------------------------------------------------------------------
(* The reconcile loop: zombie containers *)

\* The docker list may come from the cache; what follows happens later.
ListContainers ==
  /\ pc = "idle" /\ pc' = "seen"
  /\ seen' = Containers
  /\ UNCHANGED <<taskVars, files, mode, doomed, hkVars>>

Zombies == {rs \in seen : item[rs[1]] = "terminal" /\ TerminalTask(rs[1])}

JudgeContainers ==
  /\ pc = "seen" /\ pc' = "removing"
  /\ doomed' = Zombies /\ seen' = {}
  /\ UNCHANGED <<taskVars, files, mode, hkVars>>

\* Mutant of Remove: by the prefix of the task.
RemoveByPrefix(rs) == conts' = With(conts, rs[1], {})

\* docker rm -f by name.
Remove(rs) == conts' = With(conts, rs[1], conts[rs[1]] \ {rs[2]})

RemoveContainer(rs) ==
  /\ pc = "removing" /\ rs \in doomed
  /\ doomed' = doomed \ {rs}
  /\ Remove(rs)
  /\ UNCHANGED <<item, state, quiet, session, tool, stopped, files, mode,
                 pc, seen, hkVars>>

ContainersRemoved ==
  /\ pc = "removing" /\ doomed = {}
  /\ pc' = IF mode = "off" THEN "idle" ELSE "guard"
  /\ UNCHANGED <<taskVars, files, mode, seen, doomed, hkVars>>

-----------------------------------------------------------------------------
(* The guard, in the same round *)

\* The mode of a round is the one it starts with: an empty list stands for
\* an observing round, which kills nothing.
ListProcesses ==
  /\ pc = "guard"
  /\ IF mode = "enforce" THEN pc' = "listed" /\ seen' = Processes
                         ELSE pc' = "idle" /\ UNCHANGED seen
  /\ UNCHANGED <<taskVars, files, mode, doomed, hkVars>>

\* candidate-timeout or no-progress, at any time of an unfinished task.
Judged(r) == item[r] = "active" /\ state[r] # "none" /\ ~FinishedTask(r)

Killed(r, p, killed) == <<r, p>> \in killed
SessionsAfter(killed) ==
  [r \in Roots |-> [s \in Sessions |-> IF Killed(r, s, killed) THEN "gone" ELSE session[r][s]]]
ToolsAfter(killed) == [r \in Roots |-> tool[r] /\ ~Killed(r, "tool", killed)]

\* stop_task, under the lock: what has been listed is killed, what has been
\* started since is not.
StopTask(r) ==
  /\ pc = "listed" /\ Judged(r)
  /\ LET killed == {rp \in seen : rp[1] = r}
     IN session' = SessionsAfter(killed) /\ tool' = ToolsAfter(killed)
  /\ stopped' = With(stopped, r, TRUE)
  /\ conts' = With(conts, r, {})
  /\ state' = With(state, r, "failed") /\ quiet' = With(quiet, r, FALSE)
  /\ item' = With(item, r, "terminal")
  /\ UNCHANGED <<files, mode, recVars, hkVars>>

\* _leaks
Leaks == {rp \in seen : ~Owned(rp[1]) /\ FinishedTask(rp[1]) /\ quiet[rp[1]]}

JudgeLeaks ==
  /\ pc = "listed" /\ pc' = "killing"
  /\ doomed' = Leaks /\ seen' = {}
  /\ UNCHANGED <<taskVars, files, mode, hkVars>>

KillLeaks ==
  /\ pc = "killing" /\ pc' = "idle"
  /\ session' = SessionsAfter(doomed) /\ tool' = ToolsAfter(doomed)
  /\ doomed' = {}
  /\ UNCHANGED <<item, state, quiet, conts, stopped, files, mode, seen, hkVars>>

ReconcileStep ==
  \/ ListContainers \/ JudgeContainers \/ ContainersRemoved
  \/ \E rs \in Roots \X Sessions : RemoveContainer(rs)
  \/ ListProcesses \/ JudgeLeaks \/ KillLeaks

SetMode ==
  /\ mode' \in {"off", "observe", "enforce"} \ {mode}
  /\ UNCHANGED <<taskVars, files, recVars, hkVars>>

-----------------------------------------------------------------------------
(* The housekeeper, on a thread of its own *)

ListCommands ==
  /\ hk = "idle" /\ hk' = "listed"
  /\ commands' = Processes
  /\ UNCHANGED <<taskVars, files, mode, recVars, target>>

\* Mutant of Cleanable: no look at the processes.
CleanableUnlisted(r) ==
  files[r] = "kept" /\ state[r] = "complete" /\ quiet[r] /\ ~Owned(r)

Cleanable(r) ==
  /\ files[r] = "kept" /\ state[r] = "complete" /\ quiet[r]
  /\ \A p \in Procs : <<r, p>> \notin commands
  /\ ~Owned(r)

JudgeTree(r) ==
  /\ hk = "listed" /\ Cleanable(r)
  /\ hk' = "deleting" /\ target' = {r}
  /\ UNCHANGED <<taskVars, files, mode, recVars, commands>>

\* rmtree, the exited containers and the marker that ends the scan of it.
DeleteTree(r) ==
  /\ hk = "deleting" /\ r \in target
  /\ hk' = "listed" /\ target' = {}
  /\ files' = With(files, r, "cleaned")
  /\ UNCHANGED <<taskVars, mode, recVars, commands>>

RoundOver ==
  /\ hk = "listed" /\ hk' = "idle" /\ commands' = {}
  /\ UNCHANGED <<taskVars, files, mode, recVars, target>>

-----------------------------------------------------------------------------
(* The item, the page and the skill *)

Surroundings == <<files, mode, recVars, hkVars>>

Launch(r) ==
  /\ item[r] = "pending" /\ item' = With(item, r, "active")
  /\ session' = With(session, r, [session[r] EXCEPT !["queue"] = "starting"])
  /\ UNCHANGED <<state, quiet, tool, conts, stopped, Surroundings>>

\* Settled, released by hand, or retried in a new directory.
ItemEnds(r) ==
  /\ \/ item[r] = "active" /\ item' = With(item, r, "terminal")
     \/ item[r] = "terminal" /\ item' = With(item, r, "left")
  /\ UNCHANGED <<state, quiet, session, tool, conts, stopped, Surroundings>>

\* start_action of the page, which looks at no status for a rerun.
Rerun(r) ==
  /\ state[r] # "none" /\ session[r]["queue"] = "gone" /\ session[r]["rerun"] = "none"
  /\ session' = With(session, r, [session[r] EXCEPT !["rerun"] = "starting"])
  /\ UNCHANGED <<item, state, quiet, tool, conts, stopped, Surroundings>>

\* A session notes its work in state.json before its first container.
Begin(r, s) ==
  /\ session[r][s] = "starting" /\ ~stopped[r]
  /\ session' = With(session, r, [session[r] EXCEPT ![s] = "working"])
  /\ state' = With(state, r, "running") /\ quiet' = With(quiet, r, FALSE)
  /\ UNCHANGED <<item, tool, conts, stopped, Surroundings>>

StartContainer(r, s) ==
  /\ session[r][s] = "working" /\ state[r] = "running" /\ ~stopped[r]
  /\ conts' = With(conts, r, conts[r] \cup {s})
  /\ UNCHANGED <<item, state, quiet, session, tool, stopped, Surroundings>>

ContainerEnds(r, s) ==
  /\ s \in conts[r] /\ Remove(<<r, s>>)
  /\ UNCHANGED <<item, state, quiet, session, tool, stopped, Surroundings>>

StartTool(r) ==
  /\ session[r]["queue"] = "working" /\ ~tool[r] /\ tool' = With(tool, r, TRUE)
  /\ UNCHANGED <<item, state, quiet, session, conts, stopped, Surroundings>>

Write(r, from, to) ==
  /\ \E s \in Sessions : session[r][s] = "working"
  /\ ~stopped[r] /\ state[r] = from
  /\ state' = With(state, r, to) /\ quiet' = With(quiet, r, FALSE)
  /\ UNCHANGED <<item, session, tool, conts, stopped, Surroundings>>

SessionEnds(r, s) ==
  /\ session[r][s] \in {"starting", "working"}
  /\ session' = With(session, r, [session[r] EXCEPT ![s] = "gone"])
  /\ UNCHANGED <<item, state, quiet, tool, conts, stopped, Surroundings>>

\* afterHours outlast a round of the housekeeper.
GoesQuiet(r) ==
  /\ hk = "idle"
  /\ FinishedTask(r) /\ ~quiet[r] /\ quiet' = With(quiet, r, TRUE)
  /\ UNCHANGED <<item, state, session, tool, conts, stopped, Surroundings>>

Task(r) ==
  \/ Launch(r) \/ ItemEnds(r) \/ Rerun(r) \/ StartTool(r) \/ GoesQuiet(r)
  \/ Write(r, "running", "over") \/ Write(r, "running", "failed")
  \/ Write(r, "over", "complete")
  \/ \E s \in Sessions : \/ Begin(r, s) \/ StartContainer(r, s)
                         \/ ContainerEnds(r, s) \/ SessionEnds(r, s)

HousekeeperStep ==
  \/ ListCommands \/ RoundOver
  \/ \E r \in Roots : JudgeTree(r) \/ DeleteTree(r)

Next ==
  \/ ReconcileStep
  \/ \E r \in Roots : StopTask(r)
  \/ HousekeeperStep
  \/ \E r \in Roots : Task(r)
  \/ SetMode

\* Both threads go on, time passes between their rounds, and a rerun ends.
Fairness ==
  /\ WF_vars(ReconcileStep) /\ WF_vars(HousekeeperStep)
  /\ \A r \in Roots : SF_vars(GoesQuiet(r)) /\ WF_vars(SessionEnds(r, "rerun"))

Spec == Init /\ [][Next]_vars /\ Fairness

-----------------------------------------------------------------------------
\* The zombie sweep never removes the container of a race that goes on,
\* although it removes after the lock what it listed before it: a rerun that
\* begins meanwhile keeps its own (scheduler.py:4379-4387).
ZombieSweepSparesWork ==
  [][\A r \in Roots : \A s \in conts[r] \ conts'[r] :
        (pc = "removing" /\ doomed' # doomed)
          => ~(session[r][s] = "working" /\ state[r] = "running")]_vars

\* No process of a task at work is killed as a leak: neither of a session
\* whose task is not finished nor of a rerun on its way (guard.py:259-298).
LeakKillSparesWork ==
  [][\A r \in Roots : \A s \in Sessions :
        (KillLeaks /\ session[r][s] # session'[r][s])
          => s = "queue" /\ state[r] # "running"]_vars

\* A task the guard stopped is gone in the end, the processes it started
\* between the list and the kill included, as long as the guard keeps
\* enforcing (guard.py:365-398, 259-298).
StoppedTaskDies ==
  <>[](mode = "enforce")
  => \A r \in Roots : stopped[r] ~> \A p \in Procs : ~Alive(r, p)

\* A tree is deleted only when what worked in it before the round has gone:
\* the processes are listed once for a round that may last for minutes
\* (housekeeping.py:8-15, 228-254).
TreeOfOldSessionKept ==
  [][\A r \in Roots : DeleteTree(r) =>
        item[r] # "active" /\ ~Alive(r, "queue") /\ ~Alive(r, "tool")]_vars
=============================================================================
