--------------------------- MODULE Cleanup_proofs ---------------------------
(***************************************************************************)
(* For any number of task directories: the zombie sweep removes no         *)
(* container of a race that goes on (ZombieSweepSparesWork), no process of *)
(* a task at work is killed as a leak (LeakKillSparesWork), and a tree is  *)
(* deleted only after what worked in it (TreeOfOldSessionKept).  All three *)
(* lists are stale when they are used.  They are safe because the sessions *)
(* of a directory come one after the other and never come back (Ordered),  *)
(* so that what was judged stays over (DoomedOver, DoomedFinished), and    *)
(* because a tree that anything entered since the list is not quiet any    *)
(* more (ListedBefore).                                                    *)
(***************************************************************************)
EXTENDS Cleanup, TLAPS

Started(r, s) == session[r][s] \in {"working", "gone"}

\* The life of a directory: queue session, state.json, containers, rerun.
Ordered ==
  \A r \in Roots :
    /\ item[r] = "pending" => session[r]["queue"] = "none"
    /\ state[r] # "none" => Started(r, "queue")
    /\ session[r]["rerun"] # "none" => session[r]["queue"] = "gone"
    /\ quiet[r] => FinishedTask(r)
    /\ \A s \in conts[r] : Started(r, s)

\* A listed container is of a session that has begun, a doomed one of a race
\* that is over as long as its session lives.
SeenStarted ==
  pc = "seen" => \A rs \in seen : rs[2] \in Sessions /\ Started(rs[1], rs[2])
DoomedOver ==
  pc = "removing" =>
    \A rs \in doomed :
      /\ rs[2] \in Sessions /\ Started(rs[1], rs[2])
      /\ session[rs[1]][rs[2]] = "working" => state[rs[1]] \notin {"none", "running"}

\* A listed rerun had been started, a doomed session is gone or its task is
\* finished.
SeenRerun ==
  pc = "listed" =>
    \A r \in Roots : <<r, "rerun">> \in seen => session[r]["rerun"] # "none"
DoomedFinished ==
  pc = "killing" =>
    \A r \in Roots :
      /\ <<r, "rerun">> \in doomed => session[r]["rerun"] = "gone"
      /\ <<r, "queue">> \in doomed => session[r]["queue"] = "gone" \/ FinishedTask(r)

\* What came into a directory since the processes were listed keeps its
\* state.json young, and nothing of a targeted tree comes back.
ListedBefore ==
  hk # "idle" =>
    \A r \in Roots : <<r, "queue">> \notin commands =>
      /\ session[r]["queue"] = "working" => ~quiet[r]
      /\ tool[r] /\ <<r, "tool">> \notin commands => ~quiet[r]
TargetDead ==
  \A r \in target : /\ item[r] \in {"terminal", "left"}
                    /\ session[r]["queue"] = "gone" /\ ~tool[r]

Inv == /\ TypeOK /\ Ordered
       /\ SeenStarted /\ DoomedOver /\ SeenRerun /\ DoomedFinished
       /\ ListedBefore /\ TargetDead

-----------------------------------------------------------------------------
LEMMA InitInv == Init => Inv
  BY DEF Init, Inv, TypeOK, Ordered, SeenStarted, DoomedOver, SeenRerun,
     DoomedFinished, ListedBefore, TargetDead, Sessions, Started

\* What a kill leaves of the sessions and tools.
LEMMA KillTyped ==
  ASSUME TypeOK, NEW killed
  PROVE  /\ SessionsAfter(killed) \in
              [Roots -> [Sessions -> {"none", "starting", "working", "gone"}]]
         /\ ToolsAfter(killed) \in [Roots -> BOOLEAN]
  BY DEF TypeOK, SessionsAfter, ToolsAfter

LEMMA ReconcileInv == Inv /\ ReconcileStep => Inv'
  <1> SUFFICES ASSUME Inv, ReconcileStep PROVE Inv'
    OBVIOUS
  <1> USE DEF Inv, taskVars, recVars, hkVars
  <1>t. TypeOK
    OBVIOUS
  <1>1. CASE ListContainers
    <2>1. TypeOK'
      BY <1>1 DEF ListContainers, Containers, TypeOK, Sessions, Procs
    <2>2. SeenStarted'
      BY <1>1 DEF ListContainers, Containers, SeenStarted, Ordered, Started
    <2> QED
      BY <1>1, <2>1, <2>2 DEF ListContainers, Ordered, DoomedOver, SeenRerun,
         DoomedFinished, ListedBefore, TargetDead, Started, FinishedTask
  <1>2. CASE JudgeContainers
    <2>1. TypeOK'
      BY <1>2 DEF JudgeContainers, Zombies, TypeOK
    <2>2. DoomedOver'
      BY <1>2 DEF JudgeContainers, Zombies, TerminalTask, SeenStarted,
         DoomedOver, Started
    <2> QED
      BY <1>2, <2>1, <2>2 DEF JudgeContainers, Ordered, SeenStarted, SeenRerun,
         DoomedFinished, ListedBefore, TargetDead, Started, FinishedTask
  <1>3. ASSUME NEW rs \in Roots \X Sessions, RemoveContainer(rs) PROVE Inv'
    <2>1. conts' \in [Roots -> SUBSET Sessions]
          /\ \A r \in Roots : conts'[r] \subseteq conts[r]
      BY <1>3, <1>t DEF RemoveContainer, Remove, With, TypeOK
    <2> QED
      BY <1>3, <2>1 DEF RemoveContainer, TypeOK, Ordered, SeenStarted,
         DoomedOver, SeenRerun, DoomedFinished, ListedBefore, TargetDead,
         Started, FinishedTask
  <1>4. CASE ContainersRemoved
    BY <1>4 DEF ContainersRemoved, TypeOK, Ordered, SeenStarted, DoomedOver,
       SeenRerun, DoomedFinished, ListedBefore, TargetDead, Started, FinishedTask
  <1>5. CASE ListProcesses
    <2>1. TypeOK'
      BY <1>5 DEF ListProcesses, Processes, TypeOK
    <2>2. SeenRerun'
      BY <1>5 DEF ListProcesses, Processes, SeenRerun, Alive
    <2> QED
      BY <1>5, <2>1, <2>2 DEF ListProcesses, Ordered, SeenStarted, DoomedOver,
         DoomedFinished, ListedBefore, TargetDead, Started, FinishedTask
  <1>6. CASE JudgeLeaks
    <2>1. TypeOK'
      BY <1>6 DEF JudgeLeaks, Leaks, TypeOK
    <2>2. DoomedFinished'
      <3>1. ASSUME NEW r \in Roots, <<r, "rerun">> \in Leaks
            PROVE  session[r]["rerun"] = "gone"
        BY <1>6, <3>1, <1>t DEF JudgeLeaks, Leaks, Owned, Alive, SeenRerun,
           TypeOK, Sessions
      <3>2. ASSUME NEW r \in Roots, <<r, "queue">> \in Leaks
            PROVE  FinishedTask(r)
        BY <3>2 DEF Leaks
      <3> QED
        BY <1>6, <3>1, <3>2 DEF JudgeLeaks, DoomedFinished, FinishedTask
    <2> QED
      BY <1>6, <2>1, <2>2 DEF JudgeLeaks, Ordered, SeenStarted, DoomedOver,
         SeenRerun, ListedBefore, TargetDead, Started, FinishedTask
  <1>7. CASE KillLeaks
    <2>1. TypeOK'
      BY <1>7, <1>t, KillTyped DEF KillLeaks, TypeOK
    <2>2. \A r \in Roots : \A s \in Sessions :
             session'[r][s] = session[r][s] \/ session'[r][s] = "gone"
      BY <1>7 DEF KillLeaks, SessionsAfter
    <2>3. \A r \in Roots : \A s \in Sessions :
             session[r][s] = "none" => session'[r][s] = "none"
      <3>1. ASSUME NEW r \in Roots, NEW s \in Sessions, <<r, s>> \in doomed
            PROVE  session[r][s] # "none"
        BY <1>7, <3>1 DEF KillLeaks, DoomedFinished, Ordered, FinishedTask,
           Sessions, Started
      <3> QED
        BY <1>7, <3>1 DEF KillLeaks, SessionsAfter, Killed
    <2>4. \A r \in Roots : tool'[r] => tool[r]
      BY <1>7 DEF KillLeaks, ToolsAfter
    <2>5. Ordered'
      BY <1>7, <1>t, <2>2, <2>3 DEF KillLeaks, Ordered, Started, FinishedTask,
         Sessions, TypeOK
    <2>6. ListedBefore' /\ TargetDead'
      BY <1>7, <1>t, <2>2, <2>4 DEF KillLeaks, ListedBefore, TargetDead,
         Sessions, TypeOK
    <2> QED
      BY <1>7, <2>1, <2>5, <2>6 DEF KillLeaks, SeenStarted, DoomedOver,
         SeenRerun, DoomedFinished
  <1> QED
    BY <1>1, <1>2, <1>3, <1>4, <1>5, <1>6, <1>7 DEF ReconcileStep

LEMMA StopInv == ASSUME NEW r \in Roots PROVE Inv /\ StopTask(r) => Inv'
  <1> SUFFICES ASSUME Inv, StopTask(r) PROVE Inv'
    OBVIOUS
  <1> USE DEF Inv
  <1> DEFINE killed == {rp \in seen : rp[1] = r}
  <1>1. /\ pc = "listed" /\ item[r] = "active" /\ state[r] # "none"
        /\ session' = SessionsAfter(killed) /\ tool' = ToolsAfter(killed)
        /\ stopped' = [stopped EXCEPT ![r] = TRUE]
        /\ conts' = [conts EXCEPT ![r] = {}]
        /\ state' = [state EXCEPT ![r] = "failed"]
        /\ quiet' = [quiet EXCEPT ![r] = FALSE]
        /\ item' = [item EXCEPT ![r] = "terminal"]
        /\ UNCHANGED <<files, mode, pc, seen, doomed, hk, commands, target>>
    BY DEF StopTask, Judged, With, recVars, hkVars
  <1>2. TypeOK'
    BY <1>1, KillTyped DEF TypeOK
  <1>3. \A q \in Roots : \A s \in Sessions :
           session'[q][s] = session[q][s] \/ (q = r /\ session'[q][s] = "gone")
    BY <1>1 DEF SessionsAfter, Killed
  <1>4. \A s \in Sessions : session[r][s] = "none" => session'[r][s] = "none"
    <2>1. <<r, "queue">> \in seen => session[r]["queue"] # "none"
      BY <1>1 DEF Ordered, Started
    <2>2. <<r, "rerun">> \in seen => session[r]["rerun"] # "none"
      BY <1>1 DEF SeenRerun
    <2> QED
      BY <1>1, <2>1, <2>2 DEF SessionsAfter, Killed, Sessions
  <1>5. \A q \in Roots : tool'[q] => tool[q]
    BY <1>1 DEF ToolsAfter
  <1>6. Ordered'
    <2> SUFFICES ASSUME NEW q \in Roots
                 PROVE  /\ item'[q] = "pending" => session'[q]["queue"] = "none"
                        /\ state'[q] # "none" => session'[q]["queue"] \in {"working", "gone"}
                        /\ session'[q]["rerun"] # "none" => session'[q]["queue"] = "gone"
                        /\ quiet'[q] => state'[q] \in {"complete", "failed"}
                        /\ \A s \in conts'[q] : session'[q][s] \in {"working", "gone"}
      BY DEF Ordered, Started, FinishedTask
    <2>1. CASE q = r
      BY <1>1, <1>3, <1>4, <2>1 DEF Ordered, Started, FinishedTask, TypeOK, Sessions
    <2>2. CASE q # r
      <3>1. /\ item'[q] = item[q] /\ state'[q] = state[q]
            /\ quiet'[q] = quiet[q] /\ conts'[q] = conts[q]
        BY <1>1, <2>2 DEF TypeOK
      <3>2. \A s \in Sessions : session'[q][s] = session[q][s]
        BY <1>3, <2>2
      <3>3. conts[q] \subseteq Sessions
        BY DEF TypeOK
      <3> QED
        BY <3>1, <3>2, <3>3 DEF Ordered, Started, FinishedTask, Sessions
    <2> QED
      BY <2>1, <2>2
  <1>7. SeenRerun'
    BY <1>1, <1>3 DEF SeenRerun, Sessions
  <1>8. ListedBefore' /\ TargetDead'
    BY <1>1, <1>3, <1>5 DEF ListedBefore, TargetDead, Sessions, TypeOK
  <1> QED
    BY <1>1, <1>2, <1>6, <1>7, <1>8 DEF SeenStarted, DoomedOver, DoomedFinished

LEMMA HousekeeperInv == Inv /\ HousekeeperStep => Inv'
  <1> SUFFICES ASSUME Inv, HousekeeperStep PROVE Inv'
    OBVIOUS
  <1> USE DEF Inv, taskVars, recVars, hkVars
  <1>1. CASE ListCommands
    <2>1. TypeOK'
      BY <1>1 DEF ListCommands, Processes, TypeOK
    <2>2. ListedBefore'
      BY <1>1 DEF ListCommands, Processes, Alive, ListedBefore, Procs, Sessions
    <2> QED
      BY <1>1, <2>1, <2>2 DEF ListCommands, Ordered, SeenStarted, DoomedOver,
         SeenRerun, DoomedFinished, TargetDead, Started, FinishedTask
  <1>2. ASSUME NEW r \in Roots, JudgeTree(r) PROVE Inv'
    <2>1. TypeOK'
      BY <1>2 DEF JudgeTree, TypeOK
    <2>2. item[r] # "active" /\ state[r] = "complete" /\ quiet[r]
          /\ <<r, "queue">> \notin commands /\ <<r, "tool">> \notin commands
      BY <1>2 DEF JudgeTree, Cleanable, Owned, Procs, Sessions
    <2>3. session[r]["queue"] = "gone" /\ ~tool[r]
      BY <1>2, <2>2 DEF JudgeTree, ListedBefore, Ordered, Started
    <2>4. item[r] \in {"terminal", "left"}
      BY <2>2, <2>3 DEF Ordered, TypeOK
    <2> QED
      BY <1>2, <2>1, <2>3, <2>4 DEF JudgeTree, Ordered, SeenStarted, DoomedOver,
         SeenRerun, DoomedFinished, ListedBefore, TargetDead, Started, FinishedTask
  <1>3. ASSUME NEW r \in Roots, DeleteTree(r) PROVE Inv'
    BY <1>3 DEF DeleteTree, With, TypeOK, Ordered, SeenStarted, DoomedOver,
       SeenRerun, DoomedFinished, ListedBefore, TargetDead, Started, FinishedTask
  <1>4. CASE RoundOver
    BY <1>4 DEF RoundOver, TypeOK, Ordered, SeenStarted, DoomedOver,
       SeenRerun, DoomedFinished, ListedBefore, TargetDead, Started, FinishedTask
  <1> QED
    BY <1>1, <1>2, <1>3, <1>4 DEF HousekeeperStep

-----------------------------------------------------------------------------
\* A step of one directory that leaves the threads alone: its types, its own
\* order, and what the stale lists say of it.
LEMMA DirectoryInv ==
  ASSUME Inv, NEW r \in Roots, UNCHANGED <<files, mode, recVars, hkVars>>, TypeOK',
         \A q \in Roots \ {r} : /\ item'[q] = item[q] /\ state'[q] = state[q]
                                /\ quiet'[q] = quiet[q] /\ session'[q] = session[q]
                                /\ tool'[q] = tool[q] /\ conts'[q] = conts[q],
         \* in order
         item'[r] = "pending" => session'[r]["queue"] = "none",
         state'[r] # "none" => Started(r, "queue")',
         session'[r]["rerun"] # "none" => session'[r]["queue"] = "gone",
         quiet'[r] => FinishedTask(r)',
         \A s \in conts'[r] : Started(r, s)',
         \* for good
         \A s \in Sessions : /\ session[r][s] # "none" => session'[r][s] # "none"
                             /\ Started(r, s) => Started(r, s)'
                             /\ session[r][s] = "gone" => session'[r][s] = "gone",
         item[r] \in {"terminal", "left"} => item'[r] \in {"terminal", "left"},
         \* the task of a session goes back to work only with the next one
         \A s \in Sessions :
           session[r][s] = "working" /\ session'[r][s] = "working"
             /\ state[r] \notin {"none", "running"}
               => state'[r] \notin {"none", "running"},
         session'[r]["queue"] # "gone" /\ session[r]["queue"] # "gone"
           /\ FinishedTask(r) => FinishedTask(r)',
         \* and quiet only between two rounds
         hk # "idle" /\ quiet'[r] => quiet[r],
         session[r]["queue"] # "working" /\ session'[r]["queue"] = "working" => ~quiet'[r],
         ~tool[r] /\ tool'[r] => session[r]["queue"] = "working"
  PROVE  Inv'
  <1> USE DEF Inv, recVars, hkVars
  <1>1. Ordered'
    BY DEF Ordered, Started, FinishedTask
  <1>2. SeenStarted'
    <2> SUFFICES ASSUME pc = "seen", NEW rs \in seen
                 PROVE  /\ rs[2] \in Sessions
                        /\ session'[rs[1]][rs[2]] \in {"working", "gone"}
      BY DEF SeenStarted, Started
    <2>1. /\ rs[1] \in Roots /\ rs[2] \in Sessions
          /\ session[rs[1]][rs[2]] \in {"working", "gone"}
      BY DEF SeenStarted, Started, TypeOK
    <2>2. CASE rs[1] = r
      BY <2>1, <2>2 DEF Started
    <2>3. CASE rs[1] # r
      BY <2>1, <2>3
    <2> QED
      BY <2>2, <2>3
  <1>3. DoomedOver'
    <2> SUFFICES ASSUME pc = "removing", NEW rs \in doomed
                 PROVE  /\ rs[2] \in Sessions
                        /\ session'[rs[1]][rs[2]] \in {"working", "gone"}
                        /\ session'[rs[1]][rs[2]] = "working"
                             => state'[rs[1]] \notin {"none", "running"}
      BY DEF DoomedOver, Started
    <2>1. rs[1] \in Roots
      BY DEF TypeOK
    <2>2. /\ rs[2] \in Sessions /\ session[rs[1]][rs[2]] \in {"working", "gone"}
          /\ session[rs[1]][rs[2]] = "working"
               => state[rs[1]] \notin {"none", "running"}
      BY DEF DoomedOver, Started
    <2>3. CASE rs[1] = r
      BY <2>2, <2>3 DEF Started
    <2>4. CASE rs[1] # r
      BY <2>1, <2>2, <2>4
    <2> QED
      BY <2>3, <2>4
  <1>4. SeenRerun'
    BY DEF SeenRerun, Sessions
  <1>5. DoomedFinished'
    BY DEF DoomedFinished, FinishedTask, Sessions
  <1>6. ListedBefore'
    BY DEF ListedBefore, Sessions, TypeOK
  <1>7. TargetDead'
    BY DEF TargetDead, Sessions, TypeOK
  <1> QED
    BY <1>1, <1>2, <1>3, <1>4, <1>5, <1>6, <1>7

LEMMA TaskInv == ASSUME NEW r \in Roots PROVE Inv /\ Task(r) => Inv'
  <1> SUFFICES ASSUME Inv, Task(r) PROVE Inv'
    OBVIOUS
  <1> USE DEF Surroundings, With
  <1>t. TypeOK /\ Ordered
    BY DEF Inv
  <1>1. CASE Launch(r)
    <2>1. TypeOK'
      BY <1>1, <1>t DEF Launch, TypeOK, Sessions, recVars, hkVars
    <2> QED
      BY <1>1, <2>1, <1>t, DirectoryInv DEF Launch, Ordered, Started,
         FinishedTask, TypeOK, Sessions
  <1>2. CASE ItemEnds(r)
    <2>1. TypeOK'
      BY <1>2, <1>t DEF ItemEnds, TypeOK, recVars, hkVars
    <2> QED
      BY <1>2, <2>1, <1>t, DirectoryInv DEF ItemEnds, Ordered, Started,
         FinishedTask, TypeOK, Sessions
  <1>3. CASE Rerun(r)
    <2>1. TypeOK'
      BY <1>3, <1>t DEF Rerun, TypeOK, Sessions, recVars, hkVars
    <2> QED
      BY <1>3, <2>1, <1>t, DirectoryInv DEF Rerun, Ordered, Started,
         FinishedTask, TypeOK, Sessions
  <1>4. CASE StartTool(r)
    <2>1. TypeOK'
      BY <1>4, <1>t DEF StartTool, TypeOK, recVars, hkVars
    <2> QED
      BY <1>4, <2>1, <1>t, DirectoryInv DEF StartTool, Ordered, Started,
         FinishedTask, TypeOK, Sessions
  <1>5. CASE GoesQuiet(r)
    <2>1. TypeOK'
      BY <1>5, <1>t DEF GoesQuiet, TypeOK, recVars, hkVars
    <2> QED
      BY <1>5, <2>1, <1>t, DirectoryInv DEF GoesQuiet, Ordered, Started,
         FinishedTask, TypeOK, Sessions, hkVars
  <1>6. ASSUME NEW from \in {"running", "over"},
               NEW to \in {"over", "failed", "complete"}, Write(r, from, to)
        PROVE  Inv'
    <2>1. TypeOK'
      BY <1>6, <1>t DEF Write, TypeOK, recVars, hkVars
    <2>2. /\ UNCHANGED <<item, session, tool, conts, files, mode, recVars, hkVars>>
          /\ state[r] = from /\ state'[r] = to /\ ~quiet'[r]
          /\ \A q \in Roots \ {r} : state'[q] = state[q] /\ quiet'[q] = quiet[q]
      BY <1>6, <1>t DEF Write, TypeOK
    <2>3. /\ item[r] = "pending" => session[r]["queue"] = "none"
          /\ Started(r, "queue")
          /\ session[r]["rerun"] # "none" => session[r]["queue"] = "gone"
          /\ \A s \in conts[r] : Started(r, s)
      BY <2>2, <1>t DEF Ordered
    <2> QED
      BY <2>1, <2>2, <2>3, DirectoryInv DEF Started, FinishedTask
  <1>7. ASSUME NEW s \in Sessions, Begin(r, s) PROVE Inv'
    <2>1. TypeOK'
      BY <1>7, <1>t DEF Begin, TypeOK, Sessions, recVars, hkVars
    <2>2. /\ UNCHANGED <<item, tool, conts, files, mode, recVars, hkVars>>
          /\ session[r][s] = "starting" /\ session'[r][s] = "working"
          /\ \A p \in Sessions \ {s} : session'[r][p] = session[r][p]
          /\ state'[r] = "running" /\ ~quiet'[r]
          /\ \A q \in Roots \ {r} : /\ state'[q] = state[q] /\ quiet'[q] = quiet[q]
                                   /\ session'[q] = session[q]
      BY <1>7, <1>t DEF Begin, TypeOK
    <2>3. /\ item[r] = "pending" => session[r]["queue"] = "none"
          /\ state[r] # "none" => session[r]["queue"] \in {"working", "gone"}
          /\ session[r]["rerun"] # "none" => session[r]["queue"] = "gone"
          /\ \A p \in conts[r] : p \in Sessions /\ session[r][p] \in {"working", "gone"}
      BY <1>t DEF Ordered, Started, TypeOK
    <2>4. CASE s = "queue"
      <3>1. state[r] = "none" /\ session[r]["rerun"] = "none"
        BY <2>2, <2>3, <2>4
      <3>2. session'[r]["rerun"] = "none" /\ ~FinishedTask(r)
        BY <2>2, <2>4, <3>1 DEF Sessions, FinishedTask
      <3>3. \A p \in Sessions : p = "queue" \/ p = "rerun"
        BY DEF Sessions
      <3>4. \A p \in conts'[r] : Started(r, p)'
        BY <2>2, <2>3 DEF Started
      <3> QED
        BY <2>1, <2>2, <2>3, <2>4, <3>1, <3>2, <3>3, <3>4, DirectoryInv
           DEF Started
    <2>5. CASE s = "rerun"
      <3>1. session[r]["queue"] = "gone" /\ session'[r]["queue"] = "gone"
        BY <2>2, <2>3, <2>5 DEF Sessions
      <3>2. \A p \in Sessions : p = "queue" \/ p = "rerun"
        BY DEF Sessions
      <3>3. item'[r] # "pending"
        BY <2>2, <2>3, <3>1
      <3>4. \A p \in conts'[r] : Started(r, p)'
        BY <2>2, <2>3 DEF Started
      <3> QED
        BY <2>1, <2>2, <2>3, <2>5, <3>1, <3>2, <3>3, <3>4, DirectoryInv
           DEF Started
    <2> QED
      BY <2>4, <2>5 DEF Sessions
  <1>8. ASSUME NEW s \in Sessions, StartContainer(r, s) PROVE Inv'
    <2>1. TypeOK'
      BY <1>8, <1>t DEF StartContainer, TypeOK, recVars, hkVars
    <2> QED
      BY <1>8, <2>1, <1>t, DirectoryInv DEF StartContainer, Ordered, Started,
         FinishedTask, TypeOK, Sessions
  <1>9. ASSUME NEW s \in Sessions, ContainerEnds(r, s) PROVE Inv'
    <2>1. TypeOK'
      BY <1>9, <1>t DEF ContainerEnds, Remove, TypeOK, recVars, hkVars
    <2> QED
      BY <1>9, <2>1, <1>t, DirectoryInv DEF ContainerEnds, Remove, Ordered,
         Started, FinishedTask, TypeOK, Sessions
  <1>10. ASSUME NEW s \in Sessions, SessionEnds(r, s) PROVE Inv'
    <2>1. TypeOK'
      BY <1>10, <1>t DEF SessionEnds, TypeOK, Sessions, recVars, hkVars
    <2> QED
      BY <1>10, <2>1, <1>t, DirectoryInv DEF SessionEnds, Ordered, Started,
         FinishedTask, TypeOK, Sessions
  <1> QED
    BY <1>1, <1>2, <1>3, <1>4, <1>5, <1>6, <1>7, <1>8, <1>9, <1>10 DEF Task

LEMMA NextInv == Inv /\ [Next]_vars => Inv'
  <1> SUFFICES ASSUME Inv, [Next]_vars PROVE Inv'
    OBVIOUS
  <1>1. CASE SetMode
    BY <1>1 DEF SetMode, taskVars, recVars, hkVars, Inv, TypeOK, Ordered,
       SeenStarted, DoomedOver, SeenRerun, DoomedFinished, ListedBefore,
       TargetDead, Started, FinishedTask
  <1>2. CASE UNCHANGED vars
    BY <1>2 DEF vars, taskVars, recVars, hkVars, Inv, TypeOK, Ordered,
       SeenStarted, DoomedOver, SeenRerun, DoomedFinished, ListedBefore,
       TargetDead, Started, FinishedTask
  <1> QED
    BY <1>1, <1>2, ReconcileInv, StopInv, HousekeeperInv, TaskInv DEF Next

LEMMA InvHolds == Spec => []Inv
  BY InitInv, NextInv, PTL DEF Spec

-----------------------------------------------------------------------------
\* Items, states, sessions and the lists of the threads are ones the code
\* has, and a list is held only where the code holds one.
THEOREM CleanupTyped == Spec => []TypeOK
  BY InvHolds, PTL DEF Inv

\* The zombie sweep removes no container of a race that goes on, whatever was
\* started between its list and its removals.
THEOREM SweepSpares == Spec => ZombieSweepSparesWork
  <1>1. Inv /\ [Next]_vars =>
          [\A r \in Roots : \A s \in conts[r] \ conts'[r] :
             (pc = "removing" /\ doomed' # doomed)
               => ~(session[r][s] = "working" /\ state[r] = "running")]_vars
    <2> SUFFICES ASSUME Inv, Next, NEW r \in Roots,
                        NEW s \in conts[r] \ conts'[r],
                        pc = "removing", doomed' # doomed
                 PROVE  ~(session[r][s] = "working" /\ state[r] = "running")
      OBVIOUS
    <2>1. PICK rs \in Roots \X Sessions : RemoveContainer(rs)
      BY DEF Next, ReconcileStep, ListContainers, JudgeContainers,
         ContainersRemoved, ListProcesses, JudgeLeaks, KillLeaks, StopTask,
         HousekeeperStep, ListCommands, RoundOver, JudgeTree, DeleteTree,
         SetMode, Task, Launch, ItemEnds, Rerun, StartTool, GoesQuiet, Write,
         Begin, StartContainer, ContainerEnds, SessionEnds, Surroundings, recVars
    <2>2. rs = <<r, s>>
      BY <2>1 DEF RemoveContainer, Remove, With, Inv, TypeOK
    <2> QED
      BY <2>1, <2>2 DEF RemoveContainer, Inv, DoomedOver
  <1> QED
    BY <1>1, InvHolds, PTL DEF Spec, ZombieSweepSparesWork

\* The leak kill hits neither a rerun nor a session of a running task.
THEOREM KillSpares == Spec => LeakKillSparesWork
  <1>1. Inv /\ [Next]_vars =>
          [\A r \in Roots : \A s \in Sessions :
             (KillLeaks /\ session[r][s] # session'[r][s])
               => s = "queue" /\ state[r] # "running"]_vars
    <2> SUFFICES ASSUME Inv, NEW r \in Roots, NEW s \in Sessions,
                        KillLeaks, session[r][s] # session'[r][s]
                 PROVE  s = "queue" /\ state[r] # "running"
      OBVIOUS
    <2>1. <<r, s>> \in doomed /\ session[r][s] # "gone"
      BY DEF KillLeaks, SessionsAfter, Killed, Inv, TypeOK
    <2> QED
      BY <2>1 DEF KillLeaks, Inv, DoomedFinished, FinishedTask, Sessions
  <1> QED
    BY <1>1, InvHolds, PTL DEF Spec, LeakKillSparesWork

\* A tree is deleted only when its item does not run and the queue's session
\* and its tools have gone, however long the round has lasted.
THEOREM TreeKept == Spec => TreeOfOldSessionKept
  <1>1. Inv /\ [Next]_vars =>
          [\A r \in Roots : DeleteTree(r) =>
             item[r] # "active" /\ ~Alive(r, "queue") /\ ~Alive(r, "tool")]_vars
    BY DEF Inv, DeleteTree, TargetDead, Alive
  <1> QED
    BY <1>1, InvHolds, PTL DEF Spec, TreeOfOldSessionKept
=============================================================================
