------------------------------- MODULE Stream -------------------------------
(***************************************************************************)
(* What an open page sees (api/service.py: SnapshotHub, api/logs.py:       *)
(* SchedulerLog, server.py: _serve_stream, static/app.js: connectStream).  *)
(* The hub builds a snapshot outside its lock, compares it with the last   *)
(* one under the lock and pushes the difference after it; a connection     *)
(* subscribes, takes a full snapshot and then the differences.  Log lines  *)
(* carry a seq, and a page that reconnects asks for those after its last.  *)
(*                                                                         *)
(* The subscriber queues (200 and 1000 messages) are not filled and the    *)
(* log is not rotated.                                                     *)
(***************************************************************************)
EXTENDS Integers, Sequences, FiniteSets, FiniteSetsExt, Functions

CONSTANTS Cards,
          MaxChange,   \* bound: changes of cards
          MaxLog,      \* bound: log lines
          MaxDrop,     \* bound: lost connections and restarts of the server
          AfterLimit   \* lines SchedulerLog.after returns at most

ASSUME StreamAssumption ==
  /\ {MaxChange, MaxLog, MaxDrop} \subseteq Nat
  /\ AfterLimit \in Nat \ {0}

VARIABLES world,    \* version of each card, 0 if there is none
          changes,  \* changes so far
          hub,      \* the hub thread: "idle", "built" or "pushing"
          payload,  \* the snapshot it built
          last,     \* _last_cards, and _full once built is TRUE
          built,
          delta,    \* the message it is about to push
          conn,     \* the connection: how far _serve_stream is
          queue,    \* its deque of differences
          view,     \* cards of the page
          early,    \* history: its full snapshot was not the hub's
          seq,      \* SchedulerLog._seq
          lines,    \* the deque of log lines of the connection
          backlog,  \* lines after() returned
          shown,    \* lines of the page
          lastSeq,  \* and the last of them
          skipped,  \* history: lines beyond the limit of after()
          drops     \* connections and processes lost so far

worldVars == <<world, changes>>
hubVars == <<hub, payload, last, built, delta>>
pageVars == <<conn, queue, view, early>>
logVars == <<seq, lines, backlog, shown, lastSeq, skipped>>
vars == <<worldVars, hubVars, pageVars, logVars, drops>>

Versions == 0 .. 2
Snapshots == [Cards -> Versions]
NoCards == [c \in Cards |-> 0]
NoChange == [c \in {} |-> 0]
Lines == 1 .. MaxLog

TypeOK ==
  /\ world \in Snapshots /\ changes \in 0 .. MaxChange
  /\ hub \in {"idle", "built", "pushing"} /\ built \in BOOLEAN
  /\ payload \in Snapshots /\ last \in Snapshots
  /\ DOMAIN delta \subseteq Cards /\ \A c \in DOMAIN delta : delta[c] \in Versions
  /\ conn \in {"off", "subscribed", "full", "ready"}
  /\ view \in Snapshots /\ early \in BOOLEAN
  /\ seq \in 0 .. MaxLog /\ lastSeq \in 0 .. MaxLog
  /\ {Range(lines), backlog, shown, skipped} \subseteq SUBSET Lines
  /\ drops \in 0 .. MaxDrop

Init ==
  /\ world \in [Cards -> {0, 1}] /\ changes = 0
  /\ hub = "idle" /\ payload = NoCards /\ last = NoCards /\ built = FALSE
  /\ delta = NoChange
  /\ conn = "off" /\ queue = <<>> /\ view = NoCards /\ early = FALSE
  /\ seq = 0 /\ lines = <<>>
  /\ backlog = {} /\ shown = {} /\ lastSeq = 0 /\ skipped = {}
  /\ drops = 0

Subscribed == conn # "off"

-----------------------------------------------------------------------------
(* SnapshotHub.build_once *)

Build ==
  /\ hub = "idle" /\ hub' = "built"
  /\ payload' = world
  /\ UNCHANGED <<worldVars, last, built, delta, pageVars, logVars, drops>>

\* Mutant of Difference: removed cards are not sent.
DifferenceOfShown(old, new) ==
  [c \in {x \in Cards : old[x] # new[x] /\ new[x] # 0} |-> new[c]]

Difference(old, new) ==
  [c \in {x \in Cards : old[x] # new[x]} |-> new[c]]

Compare ==
  /\ hub = "built" /\ hub' = "pushing"
  /\ delta' = Difference(last, payload)
  /\ last' = payload /\ built' = TRUE
  /\ UNCHANGED <<worldVars, payload, pageVars, logVars, drops>>

\* _push; a build without a difference pushes nothing a page applies.
Push ==
  /\ hub = "pushing" /\ hub' = "idle"
  /\ queue' = IF Subscribed /\ DOMAIN delta # {} THEN Append(queue, delta) ELSE queue
  /\ delta' = NoChange
  /\ UNCHANGED <<worldVars, payload, last, built, conn, view, early,
                 logVars, drops>>

\* Mutant of Full: a page gets a snapshot of its own.
FreshFull == world

\* SnapshotHub.full
Full == IF built THEN last ELSE world

-----------------------------------------------------------------------------
(* SchedulerLog *)

Emit ==
  /\ seq < MaxLog /\ seq' = seq + 1
  /\ lines' = IF Subscribed THEN Append(lines, seq') ELSE lines
  /\ UNCHANGED <<worldVars, hubVars, pageVars, backlog, shown, lastSeq, skipped, drops>>

\* Mutant of Newer: off by one.
NewerByTwo(marker) == {n \in 1 .. seq : n > marker + 1}

\* SchedulerLog.after: the newest lines after the marker.
Newer(marker) == {n \in 1 .. seq : n > marker}
After(marker) ==
  {n \in Newer(marker) : Cardinality({m \in Newer(marker) : m > n}) < AfterLimit}

-----------------------------------------------------------------------------
(* _serve_stream and the page *)

\* Both subscriptions come first, then the lines that were missed.
Connect ==
  /\ conn = "off" /\ conn' = "subscribed"
  /\ queue' = <<>> /\ lines' = <<>>
  /\ UNCHANGED <<worldVars, hubVars, view, early, seq, backlog, shown,
                 lastSeq, skipped, drops>>

ReadBacklog ==
  /\ conn = "subscribed" /\ conn' = "full"
  /\ backlog' = After(lastSeq)
  /\ skipped' = skipped \cup (Newer(lastSeq) \ After(lastSeq))
  /\ UNCHANGED <<worldVars, hubVars, queue, view, early,
                 seq, lines, shown, lastSeq, drops>>

\* The page shows each line once and remembers the last of a frame.
Shows(ns) ==
  /\ shown' = shown \cup ns
  /\ lastSeq' = Max({lastSeq} \cup ns)

SendFull ==
  /\ conn = "full" /\ conn' = "ready"
  /\ view' = Full /\ early' = ~built
  /\ Shows(backlog) /\ backlog' = {}
  /\ UNCHANGED <<worldVars, hubVars, queue, seq, lines, skipped, drops>>

SendDelta ==
  /\ conn = "ready" /\ queue # <<>>
  /\ view' = [c \in Cards |-> IF c \in DOMAIN Head(queue) THEN Head(queue)[c] ELSE view[c]]
  /\ queue' = Tail(queue)
  /\ UNCHANGED <<worldVars, hubVars, conn, early, logVars, drops>>

SendLine ==
  /\ conn = "ready" /\ lines # <<>>
  /\ Shows({Head(lines)}) /\ lines' = Tail(lines)
  /\ UNCHANGED <<worldVars, hubVars, pageVars, seq, backlog, skipped, drops>>

Disconnected == conn' = "off" /\ queue' = <<>> /\ lines' = <<>> /\ backlog' = {}

Disconnect ==
  /\ Subscribed /\ drops < MaxDrop /\ drops' = drops + 1
  /\ Disconnected
  /\ UNCHANGED <<worldVars, hubVars, view, early, seq,
                 shown, lastSeq, skipped>>

\* A new server process: _recover_seq finds the last seq in the file.
Restart ==
  /\ drops < MaxDrop /\ drops' = drops + 1
  /\ Disconnected
  /\ hub' = "idle" /\ payload' = NoCards /\ last' = NoCards /\ built' = FALSE
  /\ delta' = NoChange
  /\ UNCHANGED <<worldVars, view, early, seq, shown, lastSeq, skipped>>

Change(c) ==
  /\ changes < MaxChange /\ changes' = changes + 1
  /\ \E v \in Versions \ {world[c]} : world' = [world EXCEPT ![c] = v]
  /\ UNCHANGED <<hubVars, pageVars, logVars, drops>>

HubStep == Build \/ Compare \/ Push
StreamStep == Connect \/ ReadBacklog \/ SendFull \/ SendDelta \/ SendLine

Next ==
  \/ HubStep
  \/ StreamStep
  \/ Emit
  \/ Disconnect
  \/ Restart
  \/ \E c \in Cards : Change(c)

\* The hub thread and the thread of the connection go on.
Fairness == WF_vars(HubStep) /\ WF_vars(Connect) /\ WF_vars(ReadBacklog) /\ WF_vars(SendFull) /\ WF_vars(SendDelta)
Spec == Init /\ [][Next]_vars /\ Fairness

-----------------------------------------------------------------------------
\* A page that has applied everything pushed to it shows what the hub last
\* saw, although the hub pushes after its lock and a difference may be older
\* than the full snapshot it follows.  Before the first build the snapshot is
\* not the hub's, and a card gone since stays (service.py:134-181, 206-210).
Current(c) == view[c] = last[c] \/ (early /\ last[c] = 0)
DrainedViewIsCurrent ==
  (conn = "ready" /\ queue = <<>> /\ hub = "idle" /\ built)
    => \A c \in Cards : Current(c)

\* No line is lost between the backlog and the live lines of a connection,
\* across connections and restarts, except those a reconnecting page missed
\* beyond the limit of after() (logs.py:176, server.py:259-262).
NoLineLost == (1 .. lastSeq) \ skipped \subseteq shown

\* Once nothing changes any more the page shows it.
PageCatchesUp == <>[](\A c \in Cards : view[c] = world[c] \/ (early /\ world[c] = 0))
=============================================================================
