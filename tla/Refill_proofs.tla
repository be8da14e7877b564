--------------------------- MODULE Refill_proofs ---------------------------
(***************************************************************************)
(* For any offers, targets and use limits: the refill fails no item that   *)
(* was launched after it looked (RunningNotFailed), fails an item only for *)
(* quota or source (FailedForCause), and an add queues a disabled or used  *)
(* up project only when that overtook its own check (StaleListingRefused). *)
(* A round lists each type once, so what it has filed under a type never   *)
(* contradicts itself (ListedOnce), the plan of a round is empty before it *)
(* begins (PlanEmpty), and a call that is not overtaken has passed checks  *)
(* that still hold (ChecksHold).                                           *)
(***************************************************************************)
EXTENDS Refill, FiniteSetTheorems, TLAPS

QueueTyped ==
  /\ item \in [Offers -> {"none", "pending", "active", "rejected"}]
  /\ blocked \subseteq Codes /\ disabling \subseteq Codes
  /\ drained \subseteq Offers
  /\ uses \in [Codes -> 0 .. MaxUses] /\ counts \in [Codes -> 0 .. MaxUses]
  /\ loaded \in BOOLEAN
PlanTyped ==
  /\ phase \in {"rest", "list", "check", "track", "add"}
  /\ toList \subseteq Types /\ (toList # {} => phase = "list")
  /\ cands \subseteq Offers /\ gone \subseteq Offers /\ cands \cap gone = {}
  /\ doomed \subseteq Offers
  /\ room \in 0 .. Target /\ added \in 0 .. Batch
CallsTyped ==
  /\ unblocked \subseteq Calls /\ cleared \subseteq Calls
  /\ overtaken \subseteq InFlight

ListedOnce == \A o \in cands \cup gone : o[2] \notin toList
PlanEmpty ==
  /\ phase = "rest" => cands = {}
  /\ gone # {} => phase = "list"
  /\ doomed # {} => phase = "check"

\* A caller has one call at a time, the refill only while it adds.
OneCall ==
  /\ unblocked \cap cleared = {}
  /\ \A k, m \in InFlight : k[1] = m[1] => k = m
  /\ \A k \in InFlight : k[1] = "refill" => phase = "add" /\ added < Batch
ChecksHold ==
  /\ \A k \in InFlight \ overtaken : k[2][1] \notin blocked
  /\ \A k \in cleared \ overtaken : ~Exhausted(k[2][1])

PlanInv == PlanTyped /\ ListedOnce /\ PlanEmpty
CallInv == CallsTyped /\ ChecksHold
Inv == QueueTyped /\ PlanInv /\ CallInv /\ OneCall

\* An offer that never lost quota or source is filed under nothing else.
Clean(o) == o \notin gone /\ o \notin doomed /\ item[o] # "rejected"

-----------------------------------------------------------------------------
\* Queue items are finitely many.
LEMMA CountsItems ==
  ASSUME NEW status
  PROVE  Cardinality(In(status)) \in Nat
  BY RefillAssumption, FS_Subset, FS_CardinalityType DEF In

\* An offer has a code and a type.
LEMMA OfferParts ==
  ASSUME NEW o \in Offers
  PROVE  o[1] \in Codes /\ o[2] \in Types
  BY DEF Codes, Types

LEMMA PlanKept == PlanInv /\ UNCHANGED plan => PlanInv'
  BY DEF PlanInv, PlanTyped, ListedOnce, PlanEmpty, plan

\* A step that leaves the calls and what they check alone, or enables a
\* project, keeps what they found.
LEMMA CallsKept ==
  ASSUME CallInv, UNCHANGED <<adds, counts, loaded>>, blocked' \subseteq blocked
  PROVE  CallInv'
  BY DEF CallInv, CallsTyped, ChecksHold, Exhausted, adds, InFlight

\* The plan moves on only while the refill has no call.
LEMMA OneCallKept ==
  ASSUME OneCall, UNCHANGED adds,
         UNCHANGED <<phase, added>> \/ phase # "add" \/ ~Calling("refill"),
         CallsTyped
  PROVE  OneCall'
  <1>1. UNCHANGED <<unblocked, cleared>>
    BY DEF adds
  <1>2. CASE UNCHANGED <<phase, added>>
    BY <1>1, <1>2 DEF OneCall, InFlight
  <1>3. CASE phase # "add" \/ ~Calling("refill")
    <2>1. \A k \in InFlight : k[1] # "refill"
      BY <1>3 DEF OneCall, Calling, CallsTyped, Calls, InFlight
    <2> QED
      BY <1>1, <2>1 DEF OneCall, InFlight
  <1> QED
    BY <1>2, <1>3

LEMMA InitInv == Init => Inv
  <1> SUFFICES ASSUME Init PROVE Inv
    OBVIOUS
  <1>1. 0 \in 0 .. MaxUses /\ room \in 0 .. Target /\ added \in 0 .. Batch
    BY RefillAssumption DEF Init
  <1> QED
    BY <1>1 DEF Init, Inv, QueueTyped, PlanInv, PlanTyped, CallInv, CallsTyped,
       InFlight, ListedOnce, PlanEmpty, OneCall, ChecksHold

-----------------------------------------------------------------------------
\* The steps of add_platform, by whoever calls it.
LEMMA EnterKeeps ==
  ASSUME Inv, NEW who \in Callers, NEW o \in Offers, Enter(who, o),
         UNCHANGED <<phase, added>>,
         who = "refill" => phase = "add" /\ added < Batch
  PROVE  QueueTyped' /\ CallInv' /\ OneCall'
  <1> DEFINE k == <<who, o>>
  <1> USE DEF Inv
  <1>1. /\ k \in Calls /\ k[1] = who /\ k[2] = o
        /\ \A m \in InFlight : m[1] # who
    BY DEF Calls, Enter, Calling, CallInv, CallsTyped, InFlight
  <1>2. QueueTyped'
    BY DEF Enter, QueueTyped, outside
  <1>3. UNCHANGED <<counts, loaded, blocked, cleared, overtaken>>
    BY DEF Enter, outside
  <1>4. CASE ~Unblocked(o)
    <2>1. UNCHANGED adds
      BY <1>4 DEF Enter, adds
    <2> QED
      BY <1>2, <1>3, <2>1, CallsKept, OneCallKept DEF CallInv
  <1>5. CASE Unblocked(o)
    <2>1. unblocked' = unblocked \cup {k}
      BY <1>5 DEF Enter
    <2>2. o[1] \notin blocked
      BY <1>5 DEF Unblocked
    <2> HIDE DEF k
    <2>3. CallsTyped'
      BY <1>1, <1>3, <2>1 DEF CallInv, CallsTyped, InFlight
    <2>4. ChecksHold'
      BY <1>1, <1>3, <2>1, <2>2 DEF CallInv, ChecksHold, Exhausted, InFlight
    <2>5. OneCall'
      BY <1>1, <1>3, <2>1 DEF OneCall, InFlight
    <2> QED
      BY <1>2, <2>3, <2>4, <2>5 DEF CallInv
  <1> QED
    BY <1>4, <1>5

LEMMA CheckUsesKeeps ==
  ASSUME Inv, NEW who \in Callers, NEW o \in Offers, CheckUses(who, o)
  PROVE  Inv'
  <1> DEFINE k == <<who, o>>
  <1> USE DEF Inv
  <1>1. /\ k \in unblocked /\ unblocked' = unblocked \ {k} /\ k[2] = o
        /\ UNCHANGED <<item, blocked, disabling, drained, uses, counts, loaded>>
        /\ UNCHANGED plan
    BY DEF CheckUses, outside
  <1>2. PlanInv' /\ QueueTyped'
    BY <1>1, PlanKept DEF QueueTyped
  <1>3. \/ Exhausted(o[1]) /\ overtaken' = overtaken \ {k} /\ cleared' = cleared
        \/ ~Exhausted(o[1]) /\ overtaken' = overtaken /\ cleared' = cleared \cup {k}
    BY DEF CheckUses
  <1> HIDE DEF k
  <1>4. CallsTyped'
    BY <1>1, <1>3 DEF CallInv, CallsTyped, InFlight
  <1>5. ChecksHold'
    BY <1>1, <1>3 DEF CallInv, ChecksHold, OneCall, Exhausted, InFlight
  <1>6. OneCall'
    BY <1>1, <1>3 DEF OneCall, InFlight, plan
  <1> QED
    BY <1>2, <1>4, <1>5, <1>6 DEF CallInv

LEMMA AppendKeeps ==
  ASSUME Inv, NEW who \in Callers, NEW o \in Offers, Append(who, o)
  PROVE  Inv'
  <1> DEFINE k == <<who, o>>
  <1> USE DEF Inv
  <1>1. /\ k \in cleared /\ cleared' = cleared \ {k} /\ k[1] = who /\ k[2] = o
        /\ overtaken' = overtaken \ {k}
        /\ UNCHANGED <<blocked, disabling, drained, uses, counts, loaded, unblocked,
                       phase, toList, cands, gone, doomed>>
        /\ \/ UNCHANGED <<added, room>>
           \/ /\ who = "refill" /\ added' = added + 1
              /\ room' = IF room > 0 THEN room - 1 ELSE 0
    BY DEF Append, outside
  <1>2. QueueTyped'
    BY <1>1 DEF Append, Queued, QueueTyped
  <1> HIDE DEF k
  <1>3. PlanInv'
    <2>1. who = "refill" => added < Batch
      BY <1>1 DEF OneCall, InFlight
    <2>2. Target \in Nat /\ Batch \in Nat
      BY RefillAssumption
    <2>3. added' \in 0 .. Batch /\ room' \in 0 .. Target
      BY <1>1, <2>1, <2>2 DEF PlanInv, PlanTyped
    <2> QED
      BY <1>1, <2>3 DEF PlanInv, PlanTyped, ListedOnce, PlanEmpty
  <1>4. CallsTyped'
    BY <1>1 DEF CallInv, CallsTyped, InFlight
  <1>5. ChecksHold'
    BY <1>1 DEF CallInv, ChecksHold, OneCall, Exhausted, InFlight
  <1>6. OneCall'
    <2>1. \A m \in InFlight' : m \in InFlight /\ m # k
      BY <1>1 DEF OneCall, InFlight
    <2>2. who = "refill" => \A m \in InFlight' : m[1] # "refill"
      BY <1>1, <2>1 DEF OneCall, InFlight
    <2> QED
      BY <1>1, <2>1, <2>2 DEF OneCall, InFlight
  <1> QED
    BY <1>2, <1>3, <1>4, <1>5, <1>6 DEF CallInv

-----------------------------------------------------------------------------
\* The steps of a round in which the refill has no call.
LEMMA PlanningInv ==
  ASSUME Inv, UNCHANGED <<blocked, disabling, outside, adds>>,
         item' \in [Offers -> {"none", "pending", "active", "rejected"}],
         phase # "add" \/ ~Calling("refill"), PlanInv'
  PROVE  Inv'
  BY CallsKept, OneCallKept DEF Inv, QueueTyped, CallInv, outside

\* A step of the refill.
LEMMA RefillingInv == Inv /\ Refilling => Inv'
  <1> SUFFICES ASSUME Inv, Refilling PROVE Inv'
    OBVIOUS
  <1>t. item \in [Offers -> {"none", "pending", "active", "rejected"}]
    BY DEF Inv, QueueTyped
  <1>p. PlanTyped /\ ListedOnce /\ PlanEmpty
    BY DEF Inv, PlanInv
  <1>n. Target \in Nat /\ Batch \in Nat
    BY RefillAssumption
  <1>1. CASE Begin
    <2>1. PlanInv'
      BY <1>1, <1>p DEF Begin, PlanInv, PlanTyped, ListedOnce, PlanEmpty
    <2> QED
      BY <1>1, <1>t, <2>1, PlanningInv DEF Begin
  <1>2. ASSUME NEW t \in Types, List(t) PROVE Inv'
    <2>1. /\ phase = "list" /\ t \in toList /\ toList' = toList \ {t}
          /\ cands' = cands \cup {o \in Offers : o[2] = t /\ Lists(o)}
          /\ gone' = gone \cup {o \in Offers : o[2] = t /\ Excludes(o)}
          /\ UNCHANGED <<phase, doomed, room, added>>
      BY <1>2 DEF List
    <2>2. \A o \in Offers : ~(Lists(o) /\ Excludes(o))
      BY DEF Lists, Excludes
    <2>3. cands' \cap gone' = {}
      BY <2>1, <2>2, <1>p DEF ListedOnce, PlanTyped
    <2>4. ListedOnce'
      BY <2>1, <1>p DEF ListedOnce
    <2>5. PlanInv'
      BY <2>1, <2>3, <2>4, <1>p DEF PlanInv, PlanTyped, PlanEmpty
    <2> QED
      BY <1>2, <1>t, <2>1, <2>5, PlanningInv DEF List
  <1>3. ASSUME NEW t \in Types, ListFails(t) PROVE Inv'
    <2>1. PlanInv'
      BY <1>3, <1>p DEF ListFails, PlanInv, PlanTyped, ListedOnce, PlanEmpty
    <2> QED
      BY <1>3, <1>t, <2>1, PlanningInv DEF ListFails
  <1>4. CASE Validate
    <2>1. room' \in 0 .. Target
      BY <1>4, <1>n, CountsItems DEF Validate
    <2>2. PlanInv'
      BY <1>4, <2>1, <1>p DEF Validate, PlanInv, PlanTyped, ListedOnce, PlanEmpty
    <2> QED
      BY <1>4, <1>t, <2>2, PlanningInv DEF Validate
  <1>5. ASSUME NEW o \in Offers, FailItem(o) PROVE Inv'
    <2>1. item' \in [Offers -> {"none", "pending", "active", "rejected"}]
      BY <1>5, <1>t DEF FailItem
    <2>2. PlanInv'
      BY <1>5, <1>p DEF FailItem, PlanInv, PlanTyped, ListedOnce, PlanEmpty
    <2> QED
      BY <1>5, <2>1, <2>2, PlanningInv DEF FailItem
  <1>6. CASE Count
    <2>1. room' \in 0 .. Target
      BY <1>6, <1>n, <1>p, CountsItems DEF Count, PlanTyped
    <2>2. PlanInv'
      BY <1>6, <2>1, <1>p DEF Count, PlanInv, PlanTyped, ListedOnce, PlanEmpty
    <2> QED
      BY <1>6, <1>t, <2>2, PlanningInv DEF Count
  <1>7. CASE Track
    <2>1. PlanInv'
      BY <1>7, <1>p DEF Track, PlanInv, PlanTyped, ListedOnce, PlanEmpty
    <2> QED
      BY <1>7, <1>t, <2>1, PlanningInv DEF Track
  <1>8. ASSUME NEW o \in Offers, Select(o) PROVE Inv'
    <2>1. /\ phase = "add" /\ added < Batch /\ Enter("refill", o)
          /\ UNCHANGED <<phase, toList, gone, doomed, room, added>>
          /\ cands' \subseteq cands
      BY <1>8 DEF Select
    <2>2. PlanInv'
      BY <2>1, <1>p DEF PlanInv, PlanTyped, ListedOnce, PlanEmpty
    <2>3. QueueTyped' /\ CallInv' /\ OneCall'
      BY <2>1, EnterKeeps DEF Callers
    <2> QED
      BY <2>2, <2>3 DEF Inv
  <1>9. ASSUME NEW o \in Offers, CheckUses("refill", o) \/ Append("refill", o)
        PROVE  Inv'
    BY <1>9, CheckUsesKeeps, AppendKeeps DEF Callers
  <1>10. CASE Finish
    <2>1. 0 \in 0 .. Target /\ 0 \in 0 .. Batch
      BY <1>n
    <2>2. PlanInv'
      BY <1>10, <2>1, <1>p DEF Finish, PlanInv, PlanTyped, ListedOnce, PlanEmpty
    <2> QED
      BY <1>10, <1>t, <2>2, PlanningInv DEF Finish
  <1> QED
    BY <1>1, <1>2, <1>3, <1>4, <1>5, <1>6, <1>7, <1>8, <1>9, <1>10 DEF Refilling

\* A step beside the plan and the calls.
LEMMA AsideInv ==
  ASSUME Inv, QueueTyped', UNCHANGED <<adds, plan, counts, loaded>>,
         blocked' \subseteq blocked
  PROVE  Inv'
  BY PlanKept, CallsKept, OneCallKept DEF Inv, CallInv, plan

LEMMA NextInv == Inv /\ [Next]_vars => Inv'
  <1> SUFFICES ASSUME Inv, [Next]_vars PROVE Inv'
    OBVIOUS
  <1>t. QueueTyped
    BY DEF Inv
  <1>1. CASE Refilling
    BY <1>1, RefillingInv
  <1>2. ASSUME NEW r \in Requests, NEW o \in Offers,
               PageAdds(r, o) \/ CheckUses(r, o) \/ Append(r, o)
        PROVE  Inv'
    <2>1. r \in Callers /\ r # "refill"
      BY RefillAssumption DEF Callers
    <2>2. CASE PageAdds(r, o)
      <3>1. Enter(r, o) /\ UNCHANGED plan
        BY <2>2 DEF PageAdds
      <3>2. QueueTyped' /\ CallInv' /\ OneCall'
        BY <2>1, <3>1, EnterKeeps DEF plan
      <3> QED
        BY <3>1, <3>2, PlanKept DEF Inv
    <2> QED
      BY <1>2, <2>1, <2>2, CheckUsesKeeps, AppendKeeps
  <1>3. ASSUME NEW o \in Offers, Remove(o) \/ Retry(o) PROVE Inv'
    <2>1. QueueTyped'
      BY <1>3, <1>t DEF Remove, Retry, Queued, QueueTyped, outside
    <2> QED
      BY <1>3, <2>1, AsideInv DEF Remove, Retry, outside
  <1>4. ASSUME NEW o \in Unsteady, Disable(o) PROVE Inv'
    <2>1. o \in Offers
      BY RefillAssumption
    <2>2. QueueTyped'
      BY <1>4, <2>1, <1>t, OfferParts DEF Disable, QueueTyped, outside
    <2> QED
      BY <1>4, <2>2, AsideInv DEF Disable, outside
  <1>5. ASSUME NEW c \in Codes, SyncBlocklist(c) PROVE Inv'
    <2>1. /\ blocked' = blocked \cup {c}
          /\ overtaken' = overtaken \cup {k \in InFlight : k[2][1] = c}
          /\ UNCHANGED <<counts, loaded, unblocked, cleared>> /\ UNCHANGED plan
      BY <1>5 DEF SyncBlocklist, outside
    <2>2. QueueTyped'
      BY <1>5, <1>t DEF SyncBlocklist, QueueTyped, outside
    <2>3. CallInv'
      BY <2>1 DEF Inv, CallInv, CallsTyped, ChecksHold, Exhausted, InFlight
    <2>4. OneCall'
      BY <2>1 DEF Inv, OneCall, InFlight, plan
    <2> QED
      BY <2>1, <2>2, <2>3, <2>4, PlanKept DEF Inv
  <1>6. ASSUME NEW c \in Codes, Enable(c) PROVE Inv'
    <2>1. QueueTyped'
      BY <1>6, <1>t DEF Enable, QueueTyped, outside
    <2> QED
      BY <1>6, <2>1, AsideInv DEF Enable, outside
  <1>7. ASSUME NEW o \in Offers, Launch(o) \/ Requeue(o) \/ End(o) PROVE Inv'
    <2>1. QueueTyped'
      BY <1>7, <1>t, OfferParts, RefillAssumption
         DEF Launch, Requeue, End, Queued, QueueTyped, outside
    <2> QED
      BY <1>7, <2>1, AsideInv DEF Launch, Requeue, End, outside
  <1>8. ASSUME NEW o \in Unsteady, QuotaMoves(o) PROVE Inv'
    <2>1. QueueTyped'
      BY <1>8, <1>t, RefillAssumption DEF QuotaMoves, QueueTyped
    <2> QED
      BY <1>8, <2>1, AsideInv DEF QuotaMoves
  <1>9. CASE Fetch
    <2>1. /\ counts' = uses /\ loaded' = TRUE
          /\ overtaken' = overtaken \cup {k \in cleared : uses[k[2][1]] >= UseLimit}
          /\ UNCHANGED <<blocked, unblocked, cleared>> /\ UNCHANGED plan
      BY <1>9 DEF Fetch
    <2>2. QueueTyped'
      BY <1>9, <1>t DEF Fetch, QueueTyped
    <2>3. CallInv'
      BY <2>1 DEF Inv, CallInv, CallsTyped, ChecksHold, Exhausted, InFlight
    <2>4. OneCall'
      BY <2>1 DEF Inv, OneCall, InFlight, plan
    <2> QED
      BY <2>1, <2>2, <2>3, <2>4, PlanKept DEF Inv
  <1>10. CASE UNCHANGED vars
    <2>1. QueueTyped'
      BY <1>10, <1>t DEF vars, QueueTyped, outside
    <2> QED
      BY <1>10, <2>1, AsideInv DEF vars, outside
  <1> QED
    BY <1>1, <1>2, <1>3, <1>4, <1>5, <1>6, <1>7, <1>8, <1>9, <1>10
       DEF Next, Page, Outside

LEMMA InvHolds == Spec => []Inv
  BY InitInv, NextInv, PTL DEF Spec

-----------------------------------------------------------------------------
\* Every state of the queue, the blocklist, the plan of a refill and the calls
\* of add_platform is one the code has; what is listed and what is excluded
\* never overlap, and only calls in flight are overtaken.
THEOREM RefillTyped == Spec => []TypeOK
  <1>1. Inv => TypeOK
    BY DEF Inv, TypeOK, QueueTyped, PlanInv, PlanTyped, CallInv, CallsTyped,
       InFlight
  <1> QED
    BY <1>1, InvHolds, PTL

\* The refill never fails an item that runs: fail_item looks at the item
\* again under the queue lock.
THEOREM RunningSpared == Spec => RunningNotFailed
  <1>1. Inv /\ [Next]_vars =>
          [\A o \in Offers : item[o] = "active" => item'[o] # "rejected"]_vars
    <2> SUFFICES ASSUME Inv, Next, NEW o \in Offers, item[o] = "active"
                 PROVE  item'[o] # "rejected"
      OBVIOUS
    <2>1. item \in [Offers -> {"none", "pending", "active", "rejected"}]
      BY DEF Inv, QueueTyped
    <2>2. CASE Refilling
      BY <2>1, <2>2 DEF Refilling, Begin, List, ListFails, Validate, FailItem,
         Fails, Count, Track, Select, Enter, CheckUses, Append, Queued, Finish
    <2>3. CASE Page
      BY <2>1, <2>3 DEF Page, PageAdds, Enter, CheckUses, Append, Remove, Retry,
         Disable, Queued, SyncBlocklist, Enable
    <2>4. CASE Outside
      BY <2>1, <2>4 DEF Outside, Launch, Requeue, End, QuotaMoves, Queued, Fetch
    <2> QED
      BY <2>2, <2>3, <2>4 DEF Next
  <1> QED
    BY <1>1, InvHolds, PTL DEF Spec, RunningNotFailed

\* However old the listing an add goes by, what it queues has no other item;
\* it is disabled or used up only if a disable or a fetch overtook this very
\* add between its check and the queue's lock.
THEOREM StaleRefused == Spec => StaleListingRefused
  <1>1. Inv /\ [Next]_vars =>
          [\A o \in Offers : (item[o] = "none" /\ item'[o] = "pending")
             => /\ o[1] \notin CodesOf(Live)
                /\ o[1] \in blocked \/ Exhausted(o[1])
                     => \E who \in Callers : <<who, o>> \in overtaken \ overtaken']_vars
    <2> SUFFICES ASSUME Inv, Next, NEW o \in Offers,
                        item[o] = "none", item'[o] = "pending"
                 PROVE  /\ o[1] \notin CodesOf(Live)
                        /\ o[1] \in blocked \/ Exhausted(o[1])
                             => \E who \in Callers : <<who, o>> \in overtaken \ overtaken'
      OBVIOUS
    <2>1. item \in [Offers -> {"none", "pending", "active", "rejected"}]
      BY DEF Inv, QueueTyped
    <2>2. \E who \in Callers, other \in Offers : Append(who, other)
      <3>1. CASE Refilling
        BY <2>1, <3>1 DEF Refilling, Begin, List, ListFails, Validate,
           FailItem, Count, Track, Select, Enter, CheckUses, Finish, Callers
      <3>2. CASE Page
        BY <2>1, <3>2 DEF Page, PageAdds, Enter, CheckUses, Remove, Retry,
           Disable, Queued, SyncBlocklist, Enable, Callers
      <3>3. CASE Outside
        BY <2>1, <3>3 DEF Outside, Launch, Requeue, End, QuotaMoves, Queued,
           Fetch
      <3> QED
        BY <3>1, <3>2, <3>3 DEF Next
    <2>3. PICK who \in Callers, other \in Offers : Append(who, other)
      BY <2>2
    <2>4. other = o /\ o[1] \notin CodesOf(Live)
      BY <2>1, <2>3 DEF Append, Queued
    <2>5. <<who, o>> \in cleared /\ overtaken' = overtaken \ {<<who, o>>}
      BY <2>3, <2>4 DEF Append
    <2>6. <<who, o>> \notin overtaken => o[1] \notin blocked /\ ~Exhausted(o[1])
      BY <2>5 DEF Inv, CallInv, ChecksHold, InFlight
    <2> QED
      BY <2>4, <2>5, <2>6
  <1> QED
    BY <1>1, InvHolds, PTL DEF Spec, StaleListingRefused

-----------------------------------------------------------------------------
\* An offer that keeps its quota and source stays clean.
LEMMA CleanStep ==
  ASSUME NEW o \in Offers
  PROVE  Inv /\ o \notin drained /\ Clean(o) /\ [Next]_vars => Clean(o)'
  <1> SUFFICES ASSUME Inv, o \notin drained, Clean(o), [Next]_vars
               PROVE  Clean(o)'
    OBVIOUS
  <1>1. item \in [Offers -> {"none", "pending", "active", "rejected"}]
    BY DEF Inv, QueueTyped
  <1>2. CASE Refilling
    <2>1. gone' \subseteq gone \cup drained
      BY <1>2 DEF Refilling, Begin, List, Excludes, ListFails, Validate,
         FailItem, Count, Track, Select, CheckUses, Append, Finish, plan
    <2>2. doomed' \subseteq gone \cup doomed
      BY <1>2 DEF Refilling, Begin, List, ListFails, Validate, FailItem,
         Count, Track, Select, CheckUses, Append, Finish, plan
    <2>3. item'[o] # "rejected"
      BY <1>1, <1>2 DEF Clean, Refilling, Begin, List, ListFails, Validate,
         FailItem, Count, Track, Select, Enter, CheckUses, Append, Queued, Finish
    <2> QED
      BY <2>1, <2>2, <2>3 DEF Clean
  <1>3. CASE Page
    BY <1>1, <1>3 DEF Clean, Page, PageAdds, Enter, CheckUses, Append, Remove,
       Retry, Disable, Queued, SyncBlocklist, Enable, plan
  <1>4. CASE Outside
    BY <1>1, <1>4 DEF Clean, Outside, Launch, Requeue, End, QuotaMoves, Queued,
       Fetch, plan
  <1>5. CASE UNCHANGED vars
    BY <1>5 DEF Clean, vars, plan
  <1> QED
    BY <1>2, <1>3, <1>4, <1>5 DEF Next

\* An item is failed by the refill only for quota or source: an offer that
\* has both for ever is never failed, although it may run, be disabled, reach
\* its use limit or be on nobody's list.
THEOREM FailedOnlyForCause == Spec => FailedForCause
  <1> SUFFICES ASSUME NEW o \in Offers
               PROVE  Spec => ([](o \notin drained) => [](item[o] # "rejected"))
    BY DEF FailedForCause
  <1>1. Init => Clean(o)
    BY DEF Init, Clean
  <1>2. Clean(o) => item[o] # "rejected"
    BY DEF Clean
  <1>3. Inv /\ o \notin drained /\ Clean(o) /\ [Next]_vars => Clean(o)'
    BY CleanStep
  <1> QED
    BY <1>1, <1>2, <1>3, InvHolds, PTL DEF Spec
=============================================================================
