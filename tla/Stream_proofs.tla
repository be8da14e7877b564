--------------------------- MODULE Stream_proofs ---------------------------
(***************************************************************************)
(* For any number of cards, changes, log lines and lost connections: a     *)
(* page that has applied what was pushed to it shows what the hub saw last *)
(* (DrainedViewIsCurrent), and no log line falls between the backlog and   *)
(* the live lines (NoLineLost).  The hub pushes after its lock, so the     *)
(* invariant leaves out the cards of the difference it is about to push:   *)
(* for every other card the last word in the queue is what the hub saw     *)
(* (LastWordTrue), and without a word the page is right (SilentIsCurrent). *)
(* The live lines are the last ones of the log, one after the other        *)
(* (LiveTail), and what precedes them is accounted for (EarlierLines).     *)
(***************************************************************************)
EXTENDS Stream, SequenceTheorems, WellFoundedInduction, TLAPS

Deltas == UNION {[D -> Versions] : D \in SUBSET Cards}

Shaped ==
  /\ TypeOK
  /\ delta \in Deltas /\ queue \in Seq(Deltas) /\ lines \in Seq(Lines)

\* Outside a push nothing is on its way, and a difference says what was seen.
DeltaIsLast ==
  /\ hub # "pushing" => DOMAIN delta = {}
  /\ \A c \in DOMAIN delta : delta[c] = last[c]

\* Before its first build the hub has seen nothing, and who came is early.
UnbuiltIsEmpty == ~built => last = NoCards /\ (conn = "ready" => early)

OffIsEmpty == conn = "off" => queue = <<>> /\ lines = <<>>

\* The last message on a card that has one in the queue.
LastOn(i, c) ==
  c \in DOMAIN queue[i] /\ \A j \in i + 1 .. Len(queue) : c \notin DOMAIN queue[j]

LastWordTrue ==
  \A c \in Cards : c \notin DOMAIN delta =>
    \A i \in 1 .. Len(queue) : LastOn(i, c) => queue[i][c] = last[c]

Silent(c) == \A i \in 1 .. Len(queue) : c \notin DOMAIN queue[i]
SilentIsCurrent ==
  \A c \in Cards : conn = "ready" /\ c \notin DOMAIN delta /\ Silent(c) => Current(c)

\* The log of a connection.
LiveTail ==
  Subscribed => /\ Len(lines) <= seq
                /\ \A i \in 1 .. Len(lines) : lines[i] = seq - Len(lines) + i
EarlierLines ==
  conn \in {"full", "ready"} =>
    \A n \in 1 .. seq - Len(lines) :
      n \in shown \cup skipped \cup (IF conn = "full" THEN backlog ELSE {})
\* Lines of the backlog have been written, and precede the live ones unless
\* they are among them.
BacklogWritten ==
  /\ lastSeq <= seq
  /\ \A n \in backlog : n <= seq
  /\ conn = "full" =>
       \A n \in backlog : \A m \in lastSeq + 1 .. n : m \in backlog \cup skipped

Inv == /\ Shaped /\ DeltaIsLast /\ UnbuiltIsEmpty /\ OffIsEmpty
       /\ LastWordTrue /\ SilentIsCurrent
       /\ LiveTail /\ EarlierLines /\ BacklogWritten /\ NoLineLost

-----------------------------------------------------------------------------
\* "Less than" on the naturals, as a relation the library's theorem takes.
Below == {ss \in Nat \X Nat : ss[1] < ss[2]}

\* Max of a bounded set of naturals is its greatest element.
LEMMA MaxIsGreatest ==
  ASSUME NEW b \in Nat, NEW S \in SUBSET (0 .. b), S # {}
  PROVE  Max(S) \in S /\ \A y \in S : y <= Max(S)
  <1> DEFINE T == {b - y : y \in S}
  <1>1. T \subseteq Nat /\ T # {}
    <2>1. \A y \in S : b - y \in Nat
      OBVIOUS
    <2> QED
      BY <2>1
  <1>2. IsWellFoundedOn(Below, Nat)
    BY NatLessThanWellFounded, Zenon DEF OpToRel, Below
  <1>3. PICK m \in T : \A y \in T : ~ (<<y, m>> \in Below)
    <2> HIDE DEF T
    <2> QED
      BY <1>1, <1>2, WFMin, Zenon
  <1>4. \A y \in T : ~ (y < m)
    BY <1>1, <1>3 DEF Below
  <1>5. PICK x \in S : m = b - x
    BY <1>3
  <1>6. \A y \in S : x >= y
    <2> SUFFICES ASSUME NEW y \in S PROVE x >= y
      OBVIOUS
    <2>1. b - y \in T
      OBVIOUS
    <2>2. ~ (b - y < b - x)
      BY <1>4, <1>5, <2>1
    <2> QED
      BY <2>2
  <1>7. Max(S) \in S /\ \A y \in S : Max(S) >= y
    BY <1>6 DEF Max
  <1> QED
    BY <1>7

LEMMA Bounds ==
  /\ MaxChange \in Nat /\ MaxLog \in Nat /\ MaxDrop \in Nat /\ NoChange \in Deltas
  /\ NoCards \in Snapshots /\ DOMAIN NoChange = {}
  <1>1. NoChange \in [{} -> Versions]
    BY DEF NoChange
  <1>2. {} \in SUBSET Cards
    OBVIOUS
  <1>3. NoChange \in Deltas /\ DOMAIN NoChange = {}
    BY <1>1, <1>2 DEF Deltas
  <1>4. NoCards \in Snapshots
    BY DEF NoCards, Snapshots, Versions
  <1> QED
    BY <1>3, <1>4, StreamAssumption

LEMMA InitInv == Init => Inv
  <1> SUFFICES ASSUME Init PROVE Inv
    OBVIOUS
  <1>1. <<>> \in Seq(Deltas) /\ <<>> \in Seq(Lines) /\ Len(<<>>) = 0
    BY EmptySeq
  <1>2. Range(lines) = {}
    BY <1>1, LenProperties DEF Init, Range
  <1>3. Shaped
    <2>1. {0, 1} \subseteq Versions
      BY DEF Versions
    <2>2. world \in Snapshots
      BY <2>1 DEF Init, Snapshots
    <2>3. /\ changes \in 0 .. MaxChange /\ drops \in 0 .. MaxDrop
          /\ seq \in 0 .. MaxLog /\ lastSeq \in 0 .. MaxLog
      BY Bounds DEF Init
    <2>4. {Range(lines), backlog, shown, skipped} \subseteq SUBSET Lines
      BY <1>2 DEF Init
    <2>5. queue \in Seq(Deltas) /\ lines \in Seq(Lines)
      BY <1>1 DEF Init
    <2> QED
      BY <2>2, <2>3, <2>4, <2>5, Bounds DEF Init, Shaped, TypeOK
  <1>4. LastWordTrue /\ SilentIsCurrent /\ LiveTail /\ EarlierLines
        /\ BacklogWritten /\ NoLineLost
    BY <1>1 DEF Init, LastWordTrue, SilentIsCurrent, LiveTail, Subscribed,
       EarlierLines, BacklogWritten, NoLineLost
  <1> QED
    BY <1>3, <1>4, Bounds DEF Init, Inv, DeltaIsLast, UnbuiltIsEmpty, OffIsEmpty

-----------------------------------------------------------------------------
\* The two halves of the invariant, which share the connection only.
ViewInv == DeltaIsLast /\ UnbuiltIsEmpty /\ LastWordTrue /\ SilentIsCurrent
LogInv == LiveTail /\ EarlierLines /\ BacklogWritten /\ NoLineLost

\* A step that touches neither the hub nor what the page shows of it.
LEMMA ViewKept ==
  ASSUME ViewInv, UNCHANGED <<hubVars, queue, view, early>>,
         conn' = "ready" => conn = "ready"
  PROVE  ViewInv'
  BY DEF ViewInv, hubVars, DeltaIsLast, UnbuiltIsEmpty, LastWordTrue, LastOn,
     SilentIsCurrent, Silent, Current

\* A step that does not touch the log.
LEMMA LogKept ==
  ASSUME LogInv, UNCHANGED <<logVars, conn>>
  PROVE  LogInv'
  BY DEF LogInv, logVars, LiveTail, Subscribed, EarlierLines, BacklogWritten,
     NoLineLost

\* A lost connection leaves what the page showed.
LEMMA LogOff ==
  ASSUME LogInv, Disconnected, UNCHANGED <<seq, shown, lastSeq, skipped>>
  PROVE  LogInv'
  BY DEF LogInv, Disconnected, LiveTail, Subscribed, EarlierLines,
     BacklogWritten, NoLineLost

LEMMA HubInv == Inv /\ HubStep => Inv'
  <1> SUFFICES ASSUME Inv, HubStep PROVE Inv'
    OBVIOUS
  <1> USE DEF worldVars, pageVars
  <1>t. /\ TypeOK /\ delta \in Deltas /\ queue \in Seq(Deltas)
        /\ lines \in Seq(Lines) /\ OffIsEmpty /\ ViewInv /\ LogInv
    BY DEF Inv, Shaped, ViewInv, LogInv
  <1>l. LogInv'
    BY <1>t, LogKept DEF HubStep, Build, Compare, Push
  <1>1. CASE Build
    <2>1. Shaped' /\ OffIsEmpty'
      BY <1>1, <1>t DEF Build, logVars, Shaped, TypeOK, OffIsEmpty
    <2>2. ViewInv'
      BY <1>1, <1>t DEF Build, ViewInv, DeltaIsLast, UnbuiltIsEmpty,
         LastWordTrue, LastOn, SilentIsCurrent, Silent, Current
    <2> QED
      BY <1>l, <2>1, <2>2 DEF Inv, ViewInv, LogInv
  <1>2. CASE Compare
    <2>1. delta' \in Deltas
      <3>1. \A c \in Cards : payload[c] \in Versions
        BY <1>t DEF TypeOK, Snapshots
      <3> DEFINE D == {x \in Cards : last[x] # payload[x]}
      <3>2. delta' = [c \in D |-> payload[c]] /\ D \in SUBSET Cards
        BY <1>2 DEF Compare, Difference
      <3>3. delta' \in [D -> Versions]
        BY <3>1, <3>2
      <3> QED
        BY <3>2, <3>3 DEF Deltas
    <2>2. /\ DOMAIN delta' = {c \in Cards : last[c] # payload[c]}
          /\ \A c \in DOMAIN delta' : delta'[c] = payload[c]
          /\ last' = payload /\ built' /\ hub = "built" /\ hub' = "pushing"
          /\ UNCHANGED <<world, changes, payload, conn, queue, view, early,
                         logVars, drops>>
      BY <1>2 DEF Compare, Difference
    <2>3. Shaped' /\ OffIsEmpty'
      <3>1. \A c \in DOMAIN delta' : delta'[c] \in Versions
        BY <2>2, <1>t DEF TypeOK, Snapshots
      <3>2. built' \in BOOLEAN
        BY <1>2 DEF Compare
      <3> QED
        BY <2>1, <2>2, <3>1, <3>2, <1>t DEF logVars, Shaped, TypeOK, OffIsEmpty
    <2>4. \A c \in Cards \ DOMAIN delta' :
            last'[c] = last[c] /\ c \notin DOMAIN delta
      BY <2>2, <1>t DEF ViewInv, DeltaIsLast
    <2>5. LastWordTrue'
      BY <2>2, <2>4, <1>t DEF ViewInv, LastWordTrue, LastOn
    <2>6. SilentIsCurrent'
      BY <2>2, <2>4, <1>t DEF ViewInv, SilentIsCurrent, Silent, Current
    <2> QED
      BY <1>l, <2>2, <2>3, <2>5, <2>6 DEF Inv, LogInv, DeltaIsLast, UnbuiltIsEmpty
  <1>3. CASE Push
    <2>1. /\ hub' = "idle" /\ delta' = NoChange
          /\ UNCHANGED <<world, changes, payload, last, built, conn, view,
                         early, logVars, drops>>
      BY <1>3 DEF Push
    <2>2. \/ queue' = queue /\ (~Subscribed \/ DOMAIN delta = {})
          \/ queue' = Append(queue, delta) /\ Subscribed
      BY <1>3 DEF Push
    <2>3. queue' \in Seq(Deltas)
      BY <2>2, <1>t, AppendProperties
    <2>4. Shaped'
      BY <2>1, <2>3, <1>t, Bounds DEF logVars, Shaped, TypeOK
    <2>5. OffIsEmpty'
      BY <2>1, <2>2, <1>t DEF logVars, OffIsEmpty, Subscribed
    <2>6. LastWordTrue' /\ SilentIsCurrent'
      <3>1. CASE queue' = queue /\ DOMAIN delta = {}
        BY <2>1, <3>1, <1>t DEF ViewInv, LastWordTrue, LastOn,
           SilentIsCurrent, Silent, Current
      <3>2. CASE queue' = queue /\ ~Subscribed
        <4>1. Len(queue') = 0 /\ conn' # "ready"
          BY <2>1, <3>2, <1>t, EmptySeq DEF OffIsEmpty, Subscribed
        <4> QED
          BY <4>1 DEF LastWordTrue, SilentIsCurrent
      <3>3. CASE queue' = Append(queue, delta)
        <4>1. /\ Len(queue') = Len(queue) + 1 /\ Len(queue) \in Nat
              /\ \A i \in 1 .. Len(queue) : queue'[i] = queue[i]
              /\ queue'[Len(queue) + 1] = delta
          BY <3>3, <1>t, AppendProperties, LenProperties
        <4>2. ASSUME NEW c \in Cards, NEW i \in 1 .. Len(queue'), LastOn(i, c)'
              PROVE  queue'[i][c] = last[c]
          <5>1. CASE i = Len(queue) + 1
            BY <4>1, <4>2, <5>1, <1>t DEF LastOn, ViewInv, DeltaIsLast
          <5>2. CASE i # Len(queue) + 1
            <6>1. i \in 1 .. Len(queue) /\ queue'[i] = queue[i]
              BY <4>1, <5>2
            <6>2. c \notin DOMAIN delta
              BY <4>1, <4>2, <6>1 DEF LastOn
            <6>3. LastOn(i, c)
              BY <4>1, <4>2, <6>1 DEF LastOn
            <6> QED
              BY <6>1, <6>2, <6>3, <1>t DEF ViewInv, LastWordTrue
          <5> QED
            BY <5>1, <5>2
        <4>3. ASSUME NEW c \in Cards, conn = "ready", Silent(c)'
              PROVE  Current(c)
          <5>1. c \notin DOMAIN delta /\ Silent(c)
            BY <4>1, <4>3 DEF Silent
          <5> QED
            BY <4>3, <5>1, <1>t DEF ViewInv, SilentIsCurrent
        <4>4. \A c \in Cards : Current(c) => Current(c)'
          BY <2>1 DEF Current
        <4> QED
          BY <2>1, <4>2, <4>3, <4>4 DEF LastWordTrue, SilentIsCurrent
      <3> QED
        BY <2>2, <3>1, <3>2, <3>3
    <2>7. DeltaIsLast' /\ UnbuiltIsEmpty'
      BY <2>1, <1>t, Bounds DEF ViewInv, DeltaIsLast, UnbuiltIsEmpty
    <2> QED
      BY <1>l, <2>4, <2>5, <2>6, <2>7 DEF Inv, LogInv
  <1> QED
    BY <1>1, <1>2, <1>3 DEF HubStep

-----------------------------------------------------------------------------
\* What a page shows after it has shown some lines.
LEMMA ShowsTyped ==
  ASSUME TypeOK, NEW ns \in SUBSET Lines, Shows(ns)
  PROVE  /\ shown' = shown \cup ns /\ shown' \subseteq Lines
         /\ lastSeq' \in 0 .. MaxLog /\ lastSeq' \in {lastSeq} \cup ns
         /\ \A n \in {lastSeq} \cup ns : n <= lastSeq'
  <1>1. {lastSeq} \cup ns \in SUBSET (0 .. MaxLog) /\ {lastSeq} \cup ns # {}
    BY Bounds DEF TypeOK, Lines
  <1>2. lastSeq' \in {lastSeq} \cup ns /\ \A n \in {lastSeq} \cup ns : n <= lastSeq'
    BY <1>1, Bounds, MaxIsGreatest DEF Shows
  <1> QED
    BY <1>1, <1>2 DEF Shows, TypeOK

LEMMA RangeTyped ==
  ASSUME NEW s \in Seq(Lines)
  PROVE  Range(s) \subseteq Lines
  BY LenProperties, ElementOfSeq DEF Range

LEMMA StreamInv == Inv /\ StreamStep => Inv'
  <1> SUFFICES ASSUME Inv, StreamStep PROVE Inv'
    OBVIOUS
  <1> USE DEF worldVars, hubVars, pageVars, logVars
  <1>t. /\ TypeOK /\ delta \in Deltas /\ queue \in Seq(Deltas)
        /\ lines \in Seq(Lines) /\ OffIsEmpty /\ ViewInv /\ LogInv
    BY DEF Inv, Shaped, ViewInv, LogInv
  <1>n. /\ seq \in 0 .. MaxLog /\ lastSeq \in 0 .. MaxLog /\ MaxLog \in Nat
        /\ backlog \subseteq Lines /\ shown \subseteq Lines /\ skipped \subseteq Lines
        /\ Len(lines) \in Nat /\ Len(queue) \in Nat
    BY <1>t, Bounds, LenProperties DEF TypeOK
  <1>e. <<>> \in Seq(Deltas) /\ <<>> \in Seq(Lines) /\ Len(<<>>) = 0
    BY EmptySeq
  <1>1. CASE Connect
    <2>1. /\ conn' = "subscribed" /\ queue' = <<>> /\ lines' = <<>>
          /\ UNCHANGED <<world, changes, hub, payload, last, built, delta, view,
                         early, seq, backlog, shown, lastSeq, skipped, drops>>
      BY <1>1 DEF Connect
    <2>2. Shaped' /\ OffIsEmpty'
      BY <2>1, <1>e, <1>t, RangeTyped DEF Shaped, TypeOK, OffIsEmpty
    <2>3. ViewInv'
      BY <2>1, <1>e, <1>t DEF ViewInv, DeltaIsLast, UnbuiltIsEmpty,
         LastWordTrue, SilentIsCurrent
    <2>4. LogInv'
      BY <2>1, <1>e, <1>n, <1>t DEF LogInv, LiveTail, EarlierLines,
         BacklogWritten, NoLineLost
    <2> QED
      BY <2>2, <2>3, <2>4 DEF Inv, ViewInv, LogInv
  <1>2. CASE ReadBacklog
    <2>1. /\ conn = "subscribed" /\ conn' = "full" /\ backlog' = After(lastSeq)
          /\ skipped' = skipped \cup (Newer(lastSeq) \ After(lastSeq))
          /\ UNCHANGED <<world, changes, hub, payload, last, built, delta, queue,
                         view, early, seq, lines, shown, lastSeq, drops>>
      BY <1>2 DEF ReadBacklog
    <2>2. /\ After(lastSeq) \subseteq Newer(lastSeq)
          /\ Newer(lastSeq) = {n \in 1 .. seq : n > lastSeq}
          /\ Newer(lastSeq) \subseteq Lines
      BY <1>n DEF After, Newer, Lines
    <2>3. Shaped' /\ OffIsEmpty'
      BY <2>1, <2>2, <1>n, <1>t DEF Shaped, TypeOK, OffIsEmpty
    <2>4. ViewInv'
      BY <2>1, <1>t, ViewKept
    <2>5. LiveTail'
      BY <2>1, <1>t DEF LogInv, LiveTail, Subscribed
    <2>6. EarlierLines' /\ BacklogWritten' /\ NoLineLost'
      BY <2>1, <2>2, <1>n, <1>t DEF LogInv, EarlierLines, BacklogWritten, NoLineLost
    <2> QED
      BY <2>3, <2>4, <2>5, <2>6 DEF Inv, ViewInv
  <1>3. CASE SendFull
    <2>1. /\ conn = "full" /\ conn' = "ready" /\ view' = Full /\ early' = ~built
          /\ Shows(backlog) /\ backlog' = {}
          /\ UNCHANGED <<world, changes, hub, payload, last, built, delta, queue,
                         seq, lines, skipped, drops>>
      BY <1>3 DEF SendFull
    <2>2. /\ shown' = shown \cup backlog /\ shown' \subseteq Lines
          /\ lastSeq' \in 0 .. MaxLog /\ lastSeq' \in {lastSeq} \cup backlog
      BY <2>1, <1>n, <1>t, ShowsTyped
    <2>3. view' \in Snapshots /\ early' \in BOOLEAN
      BY <2>1, <1>t DEF Full, TypeOK
    <2>4. Shaped' /\ OffIsEmpty'
      BY <2>1, <2>2, <2>3, <1>n, <1>t DEF Shaped, TypeOK, OffIsEmpty
    <2>5. \A c \in Cards : Current(c)'
      BY <2>1, <1>t DEF Current, Full, ViewInv, UnbuiltIsEmpty, NoCards
    <2>6. ViewInv'
      BY <2>1, <2>5, <1>t DEF ViewInv, DeltaIsLast, UnbuiltIsEmpty,
         LastWordTrue, LastOn, SilentIsCurrent
    <2>7. LiveTail' /\ EarlierLines'
      BY <2>1, <2>2, <1>t DEF LogInv, LiveTail, Subscribed, EarlierLines
    <2>8. BacklogWritten'
      BY <2>1, <2>2, <1>n, <1>t DEF LogInv, BacklogWritten
    <2>9. NoLineLost'
      <3> SUFFICES ASSUME NEW n \in 1 .. lastSeq', n \notin skipped
                   PROVE  n \in shown \cup backlog
        BY <2>1, <2>2 DEF NoLineLost
      <3>1. CASE n <= lastSeq
        BY <3>1, <1>n, <1>t, <2>2 DEF LogInv, NoLineLost
      <3>2. CASE n > lastSeq
        <4>1. lastSeq' \in backlog /\ n \in lastSeq + 1 .. lastSeq'
          BY <2>2, <3>2, <1>n
        <4> QED
          BY <2>1, <4>1, <1>t DEF LogInv, BacklogWritten
      <3> QED
        BY <3>1, <3>2, <1>n, <2>2
    <2> QED
      BY <2>4, <2>6, <2>7, <2>8, <2>9 DEF Inv, ViewInv
  <1>4. CASE SendDelta
    <2>1. /\ conn = "ready" /\ queue # <<>> /\ queue' = Tail(queue)
          /\ view' = [c \in Cards |-> IF c \in DOMAIN Head(queue)
                                      THEN Head(queue)[c] ELSE view[c]]
          /\ UNCHANGED <<world, changes, hub, payload, last, built, delta, conn,
                         early, logVars, drops>>
      BY <1>4 DEF SendDelta
    <2>2. /\ Head(queue) \in Deltas /\ queue' \in Seq(Deltas)
          /\ Len(queue') = Len(queue) - 1 /\ Len(queue) \in Nat /\ Len(queue) # 0
          /\ \A i \in 1 .. Len(queue') : queue'[i] = queue[i + 1]
          /\ Head(queue) = queue[1]
      BY <2>1, <1>t, HeadTailProperties, EmptySeq
    <2>3. view' \in Snapshots
      <3>1. \A c \in DOMAIN Head(queue) : Head(queue)[c] \in Versions
        BY <2>2 DEF Deltas
      <3> QED
        BY <2>1, <3>1, <1>t DEF TypeOK, Snapshots
    <2>4. Shaped' /\ OffIsEmpty'
      BY <2>1, <2>2, <2>3, <1>t DEF Shaped, TypeOK, OffIsEmpty
    <2>5. LastWordTrue'
      <3> SUFFICES ASSUME NEW c \in Cards, c \notin DOMAIN delta,
                          NEW i \in 1 .. Len(queue'), LastOn(i, c)'
                   PROVE  queue'[i][c] = last[c]
        BY <2>1 DEF LastWordTrue
      <3>1. i + 1 \in 1 .. Len(queue) /\ queue'[i] = queue[i + 1]
        BY <2>2
      <3>2. \A j \in i + 2 .. Len(queue) : c \notin DOMAIN queue[j]
        <4> SUFFICES ASSUME NEW j \in i + 2 .. Len(queue)
                     PROVE  c \notin DOMAIN queue[j]
          OBVIOUS
        <4>1. j - 1 \in i + 1 .. Len(queue') /\ j - 1 \in 1 .. Len(queue')
          BY <2>2
        <4>2. queue'[j - 1] = queue[j]
          BY <2>2, <4>1
        <4> QED
          BY <4>1, <4>2 DEF LastOn
      <3>3. LastOn(i + 1, c)
        BY <3>1, <3>2 DEF LastOn
      <3> QED
        BY <3>1, <3>3, <1>t DEF ViewInv, LastWordTrue
    <2>6. SilentIsCurrent'
      <3> SUFFICES ASSUME NEW c \in Cards, c \notin DOMAIN delta, Silent(c)'
                   PROVE  Current(c)'
        BY <2>1 DEF SilentIsCurrent
      <3>1. \A j \in 2 .. Len(queue) : c \notin DOMAIN queue[j]
        <4> SUFFICES ASSUME NEW j \in 2 .. Len(queue)
                     PROVE  c \notin DOMAIN queue[j]
          OBVIOUS
        <4>1. j - 1 \in 1 .. Len(queue') /\ queue'[j - 1] = queue[j]
          BY <2>2
        <4> QED
          BY <4>1 DEF Silent
      <3>2. CASE c \in DOMAIN Head(queue)
        <4>1. LastOn(1, c) /\ 1 \in 1 .. Len(queue)
          BY <2>2, <3>1, <3>2 DEF LastOn
        <4>2. view'[c] = last[c]
          BY <2>1, <2>2, <3>2, <4>1, <1>t DEF ViewInv, LastWordTrue
        <4> QED
          BY <2>1, <4>2 DEF Current
      <3>3. CASE c \notin DOMAIN Head(queue)
        <4>1. Silent(c)
          BY <2>2, <3>1, <3>3 DEF Silent
        <4>2. Current(c) /\ view'[c] = view[c]
          BY <2>1, <3>3, <4>1, <1>t DEF ViewInv, SilentIsCurrent
        <4> QED
          BY <2>1, <4>2 DEF Current
      <3> QED
        BY <3>2, <3>3
    <2>7. DeltaIsLast' /\ UnbuiltIsEmpty'
      BY <2>1, <1>t DEF ViewInv, DeltaIsLast, UnbuiltIsEmpty
    <2>8. LogInv'
      BY <2>1, <1>t, LogKept
    <2> QED
      BY <2>4, <2>5, <2>6, <2>7, <2>8 DEF Inv, LogInv
  <1>5. CASE SendLine
    <2>1. /\ conn = "ready" /\ lines # <<>> /\ Shows({Head(lines)})
          /\ lines' = Tail(lines)
          /\ UNCHANGED <<world, changes, hub, payload, last, built, delta, conn,
                         queue, view, early, seq, backlog, skipped, drops>>
      BY <1>5 DEF SendLine
    <2>2. /\ Head(lines) \in Lines /\ lines' \in Seq(Lines)
          /\ Len(lines') = Len(lines) - 1 /\ Len(lines) # 0
          /\ \A i \in 1 .. Len(lines') : lines'[i] = lines[i + 1]
          /\ Head(lines) = lines[1]
      BY <2>1, <1>t, HeadTailProperties, EmptySeq
    <2>3. /\ shown' = shown \cup {Head(lines)} /\ shown' \subseteq Lines
          /\ lastSeq' \in 0 .. MaxLog /\ lastSeq' \in {lastSeq, Head(lines)}
      BY <2>1, <2>2, <1>t, ShowsTyped
    <2>4. Shaped' /\ OffIsEmpty'
      BY <2>1, <2>2, <2>3, <1>n, <1>t, RangeTyped DEF Shaped, TypeOK, OffIsEmpty
    <2>5. ViewInv'
      BY <2>1, <1>t, ViewKept
    <2>6. Head(lines) = seq - Len(lines) + 1 /\ Len(lines) <= seq
      BY <2>1, <2>2, <1>n, <1>t DEF LogInv, LiveTail, Subscribed
    <2>7. LiveTail'
      BY <2>1, <2>2, <1>n, <1>t DEF LogInv, LiveTail, Subscribed
    <2>8. EarlierLines'
      <3> SUFFICES ASSUME NEW n \in 1 .. seq - Len(lines')
                   PROVE  n \in shown' \cup skipped
        BY <2>1 DEF EarlierLines
      <3>1. CASE n = Head(lines)
        BY <2>3, <3>1
      <3>2. CASE n # Head(lines)
        <4>1. n \in 1 .. seq - Len(lines)
          BY <2>2, <2>6, <3>2, <1>n
        <4> QED
          BY <2>1, <2>3, <4>1, <1>t DEF LogInv, EarlierLines
      <3> QED
        BY <3>1, <3>2
    <2>9. BacklogWritten'
      BY <2>1, <2>2, <2>3, <2>6, <1>n, <1>t DEF LogInv, BacklogWritten
    <2>10. NoLineLost'
      <3> SUFFICES ASSUME NEW n \in 1 .. lastSeq', n \notin skipped
                   PROVE  n \in shown'
        BY <2>1 DEF NoLineLost
      <3>1. CASE n <= lastSeq
        BY <2>3, <3>1, <1>n, <1>t DEF LogInv, NoLineLost
      <3>2. CASE n > lastSeq
        <4>1. n \in 1 .. seq - Len(lines') /\ lastSeq' = Head(lines)
          BY <2>2, <2>3, <2>6, <3>2, <1>n
        <4> QED
          BY <2>1, <2>8, <4>1 DEF EarlierLines
      <3> QED
        BY <3>1, <3>2, <1>n, <2>3
    <2> QED
      BY <2>4, <2>5, <2>7, <2>8, <2>9, <2>10 DEF Inv, ViewInv
  <1> QED
    BY <1>1, <1>2, <1>3, <1>4, <1>5 DEF StreamStep

-----------------------------------------------------------------------------
LEMMA NextInv == Inv /\ [Next]_vars => Inv'
  <1> SUFFICES ASSUME Inv, [Next]_vars PROVE Inv'
    OBVIOUS
  <1> USE DEF worldVars, hubVars, pageVars, logVars
  <1>t. /\ TypeOK /\ delta \in Deltas /\ queue \in Seq(Deltas)
        /\ lines \in Seq(Lines) /\ OffIsEmpty /\ ViewInv /\ LogInv
    BY DEF Inv, Shaped, ViewInv, LogInv
  <1>n. /\ seq \in 0 .. MaxLog /\ lastSeq \in 0 .. MaxLog /\ MaxLog \in Nat
        /\ drops \in 0 .. MaxDrop /\ MaxDrop \in Nat
        /\ Len(lines) \in Nat
    BY <1>t, Bounds, LenProperties DEF TypeOK
  <1>e. /\ <<>> \in Seq(Deltas) /\ <<>> \in Seq(Lines) /\ Len(<<>>) = 0
        /\ {} \subseteq Lines
    BY EmptySeq
  <1>1. CASE Emit
    <2>1. /\ seq < MaxLog /\ seq' = seq + 1
          /\ lines' = IF Subscribed THEN Append(lines, seq') ELSE lines
          /\ UNCHANGED <<world, changes, hub, payload, last, built, delta, conn,
                         queue, view, early, backlog, shown, lastSeq, skipped,
                         drops>>
      BY <1>1 DEF Emit
    <2>2. seq' \in Lines /\ seq' \in 0 .. MaxLog
      BY <2>1, <1>n DEF Lines
    <2>3. CASE Subscribed
      <3>1. /\ lines' \in Seq(Lines) /\ Len(lines') = Len(lines) + 1
            /\ \A i \in 1 .. Len(lines) : lines'[i] = lines[i]
            /\ lines'[Len(lines) + 1] = seq'
        BY <2>1, <2>2, <2>3, <1>t, AppendProperties
      <3>2. Shaped' /\ OffIsEmpty'
        BY <2>1, <2>2, <2>3, <3>1, <1>t, RangeTyped DEF Shaped, TypeOK,
           OffIsEmpty, Subscribed
      <3>3. LiveTail'
        BY <2>1, <2>3, <3>1, <1>n, <1>t DEF LogInv, LiveTail, Subscribed
      <3>4. EarlierLines'
        BY <2>1, <3>1, <1>n, <1>t DEF LogInv, EarlierLines
      <3>5. BacklogWritten' /\ NoLineLost'
        BY <2>1, <1>n, <1>t DEF LogInv, BacklogWritten, NoLineLost, TypeOK, Lines
      <3> QED
        BY <2>1, <3>2, <3>3, <3>4, <3>5, <1>t, ViewKept DEF Inv, ViewInv
    <2>4. CASE ~Subscribed
      <3>1. Shaped' /\ OffIsEmpty'
        BY <2>1, <2>2, <2>4, <1>t DEF Shaped, TypeOK, OffIsEmpty, Subscribed
      <3>2. LogInv'
        BY <2>1, <2>4, <1>n, <1>t DEF LogInv, LiveTail, Subscribed, EarlierLines,
           BacklogWritten, NoLineLost, TypeOK, Lines
      <3> QED
        BY <2>1, <3>1, <3>2, <1>t, ViewKept DEF Inv, ViewInv, LogInv
    <2> QED
      BY <2>3, <2>4
  <1>2. CASE Disconnect
    <2>1. /\ conn' = "off" /\ queue' = <<>> /\ lines' = <<>> /\ backlog' = {}
          /\ drops' \in 0 .. MaxDrop
          /\ UNCHANGED <<world, changes, hub, payload, last, built, delta, view,
                         early, seq, shown, lastSeq, skipped>>
      BY <1>2, <1>n DEF Disconnect, Disconnected
    <2>2. Shaped' /\ OffIsEmpty'
      BY <2>1, <1>e, <1>t, RangeTyped DEF Shaped, TypeOK, OffIsEmpty
    <2>3. ViewInv'
      BY <2>1, <1>e, <1>t DEF ViewInv, DeltaIsLast, UnbuiltIsEmpty,
         LastWordTrue, SilentIsCurrent
    <2>4. LogInv'
      BY <1>2, <1>t, LogOff DEF Disconnect
    <2> QED
      BY <2>2, <2>3, <2>4 DEF Inv, ViewInv, LogInv
  <1>3. CASE Restart
    <2>1. /\ conn' = "off" /\ queue' = <<>> /\ lines' = <<>> /\ backlog' = {}
          /\ drops' \in 0 .. MaxDrop
          /\ hub' = "idle" /\ payload' = NoCards /\ last' = NoCards
          /\ built' = FALSE /\ delta' = NoChange
          /\ UNCHANGED <<world, changes, view, early, seq, shown, lastSeq, skipped>>
      BY <1>3, <1>n DEF Restart, Disconnected
    <2>2. Shaped' /\ OffIsEmpty'
      BY <2>1, <1>e, <1>t, Bounds, RangeTyped DEF Shaped, TypeOK, OffIsEmpty
    <2>3. ViewInv'
      BY <2>1, <1>e, Bounds DEF ViewInv, DeltaIsLast, UnbuiltIsEmpty,
         LastWordTrue, SilentIsCurrent
    <2>4. LogInv'
      BY <1>3, <1>t, LogOff DEF Restart
    <2> QED
      BY <2>2, <2>3, <2>4 DEF Inv, ViewInv, LogInv
  <1>4. ASSUME NEW c \in Cards, Change(c) PROVE Inv'
    <2>1. /\ world' \in Snapshots /\ changes' \in 0 .. MaxChange
      BY <1>4, <1>t, Bounds DEF Change, TypeOK, Snapshots
    <2>2. UNCHANGED <<hub, payload, last, built, delta, conn, queue, view, early,
                      logVars, drops>>
      BY <1>4 DEF Change
    <2>3. Shaped' /\ OffIsEmpty'
      BY <2>1, <2>2, <1>t DEF Shaped, TypeOK, OffIsEmpty
    <2> QED
      BY <2>2, <2>3, <1>t, ViewKept, LogKept DEF Inv, ViewInv, LogInv
  <1>5. CASE UNCHANGED vars
    <2>1. UNCHANGED <<world, changes, hub, payload, last, built, delta, conn,
                      queue, view, early, logVars, drops>>
      BY <1>5 DEF vars
    <2>2. Shaped' /\ OffIsEmpty'
      BY <2>1, <1>t DEF Shaped, TypeOK, OffIsEmpty
    <2> QED
      BY <2>1, <2>2, <1>t, ViewKept, LogKept DEF Inv, ViewInv, LogInv
  <1> QED
    BY <1>1, <1>2, <1>3, <1>4, <1>5, HubInv, StreamInv DEF Next

LEMMA InvHolds == Spec => []Inv
  BY InitInv, NextInv, PTL DEF Spec

-----------------------------------------------------------------------------
\* Snapshots, differences and log lines are ones the code sends.
THEOREM StreamTyped == Spec => []TypeOK
  BY InvHolds, PTL DEF Inv, Shaped

\* A page that has applied everything pushed to it shows what the hub saw
\* last, although snapshots are taken between a comparison and its push.
THEOREM ViewCurrent == Spec => []DrainedViewIsCurrent
  <1>1. Inv => DrainedViewIsCurrent
    <2> SUFFICES ASSUME Inv, conn = "ready", queue = <<>>, hub = "idle",
                        NEW c \in Cards
                 PROVE  Current(c)
      BY DEF DrainedViewIsCurrent
    <2>1. Silent(c) /\ c \notin DOMAIN delta
      BY EmptySeq DEF Silent, Inv, DeltaIsLast
    <2> QED
      BY <2>1 DEF Inv, SilentIsCurrent
  <1> QED
    BY <1>1, InvHolds, PTL

\* Subscribing before the missed lines are read leaves no gap.
THEOREM LinesKept == Spec => []NoLineLost
  BY InvHolds, PTL DEF Inv
=============================================================================
