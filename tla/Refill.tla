------------------------------- MODULE Refill -------------------------------
(***************************************************************************)
(* Keeping the queue filled: the auto loop's refill (api/service.py) lists *)
(* the platform's candidates type by type (api/platform.py), fails queued  *)
(* items whose quota has gone, and adds projects; the page adds, removes,  *)
(* disables and retries meanwhile, tasks run, and the QC platform's use    *)
(* counts (api/qc_usage.py) arrive late.  An add checks the project first  *)
(* and takes the queue's lock only to append it.                           *)
(***************************************************************************)
EXTENDS Integers, FiniteSets

CONSTANTS Offers,   \* the platform's offers: <<project code, task type>>
          Priority, \* codes with a priority prefix
          Target,   \* autoRefill.targetPending
          Batch,    \* autoRefill.batchSize
          UseLimit, \* automation.projectUsage.limit
          Requests, \* bound: requests of the page that add at a time
          Unsteady, \* bound: offers that lose quota, or that the page disables
          MaxUses   \* bound: submissions of a project

Codes == {o[1] : o \in Offers}
Types == {o[2] : o \in Offers}
Callers == {"refill"} \cup Requests
Calls == Callers \X Offers

ASSUME RefillAssumption ==
  /\ IsFiniteSet(Offers) /\ Priority \subseteq Codes
  /\ Unsteady \subseteq Offers
  /\ Target \in Nat \ {0} /\ Batch \in Nat \ {0}
  /\ UseLimit \in Nat \ {0} /\ MaxUses \in Nat
  /\ "refill" \notin Requests

VARIABLES item,      \* per offer: its queue item
          blocked,   \* disabled codes, synced to queue and platform
          disabling, \* codes whose disable_project has removed the item
          drained,   \* offers without quota or source on the platform
          uses,      \* submissions on the QC platform
          counts,    \* ProjectUsage's counts
          loaded,    \* and whether it has fetched any
          unblocked, \* calls of add_platform past the blocklist
          cleared,   \* calls past the use count too, before the queue's lock
          overtaken, \* history: calls whose check no longer holds
          phase,     \* where the refill is
          toList,    \* types it has still to list
          cands,     \* candidates_by_type, less what is tracked when it adds
          gone,      \* reasons_by_type: excluded for quota or source
          doomed,    \* queued items it is about to fail
          room,      \* effective target, then what is left of it
          added

outside == <<drained, uses, counts, loaded>>
adds == <<unblocked, cleared, overtaken>>
plan == <<phase, toList, cands, gone, doomed, room, added>>
vars == <<item, blocked, disabling, outside, adds, plan>>

TypeOK ==
  /\ item \in [Offers -> {"none", "pending", "active", "rejected"}]
  /\ blocked \subseteq Codes /\ disabling \subseteq Codes
  /\ drained \subseteq Offers
  /\ uses \in [Codes -> 0 .. MaxUses] /\ counts \in [Codes -> 0 .. MaxUses]
  /\ loaded \in BOOLEAN
  /\ unblocked \subseteq Calls /\ cleared \subseteq Calls
  /\ overtaken \subseteq unblocked \cup cleared
  /\ phase \in {"rest", "list", "check", "track", "add"}
  /\ toList \subseteq Types /\ (toList # {} => phase = "list")
  /\ cands \subseteq Offers /\ gone \subseteq Offers /\ cands \cap gone = {}
  /\ doomed \subseteq Offers
  /\ room \in 0 .. Target /\ added \in 0 .. Batch

Init ==
  /\ item = [o \in Offers |-> "none"]
  /\ blocked = {} /\ disabling = {}
  /\ drained = {}
  /\ uses = [c \in Codes |-> 0] /\ counts = [c \in Codes |-> 0]
  /\ loaded = FALSE
  /\ unblocked = {} /\ cleared = {} /\ overtaken = {}
  /\ phase = "rest" /\ toList = {} /\ cands = {} /\ gone = {} /\ doomed = {}
  /\ room = 0 /\ added = 0

In(status) == {o \in Offers : item[o] = status}
CodesOf(S) == {o[1] : o \in S}
Live == In("pending") \cup In("active")

-----------------------------------------------------------------------------
(* Use counts *)

\* inflight_project_types: queued and running items are uses to come.
Inflight(c) == Cardinality({o \in Live : o[1] = c})

\* blocked_reason, with and without the queued ones: nothing is blocked
\* before the first fetch.
AtLimit(c) == loaded /\ counts[c] + Inflight(c) >= UseLimit
Exhausted(c) == loaded /\ counts[c] >= UseLimit

\* ProjectUsage.refresh that succeeds; one that fails keeps the counts.
Fetch ==
  /\ counts # uses \/ ~loaded
  /\ counts' = uses /\ loaded' = TRUE
  /\ overtaken' = overtaken \cup {k \in cleared : uses[k[2][1]] >= UseLimit}
  /\ UNCHANGED <<item, blocked, disabling, drained, uses, unblocked, cleared, plan>>

-----------------------------------------------------------------------------
(* add_platform *)

InFlight == unblocked \cup cleared
Calling(who) == \E o \in Offers : <<who, o>> \in InFlight
Queued(o) == [item EXCEPT ![o] = "pending"]

\* The blocklist, read without a lock.
\* Mutant of Unblocked: the blocklist of the listing is relied on.
UnblockedWhenListed(o) == TRUE
Unblocked(o) == o[1] \notin blocked

Enter(who, o) ==
  /\ ~Calling(who)
  /\ unblocked' = IF Unblocked(o) THEN unblocked \cup {<<who, o>>} ELSE unblocked
  /\ UNCHANGED <<item, blocked, disabling, outside, cleared, overtaken>>

\* The use count, under ProjectUsage's lock.
CheckUses(who, o) ==
  /\ <<who, o>> \in unblocked /\ unblocked' = unblocked \ {<<who, o>>}
  /\ IF Exhausted(o[1])
       THEN overtaken' = overtaken \ {<<who, o>>} /\ UNCHANGED cleared
       ELSE cleared' = cleared \cup {<<who, o>>} /\ UNCHANGED overtaken
  /\ UNCHANGED <<item, blocked, disabling, outside, plan>>

\* Under the queue's lock: no queued or running item of the project, and the
\* new item, which the refill counts.
Append(who, o) ==
  /\ <<who, o>> \in cleared /\ cleared' = cleared \ {<<who, o>>}
  /\ overtaken' = overtaken \ {<<who, o>>}
  /\ item' = IF o[1] \in CodesOf(Live) THEN item ELSE Queued(o)
  /\ IF who = "refill" /\ o[1] \notin CodesOf(Live)
       THEN added' = added + 1 /\ room' = IF room > 0 THEN room - 1 ELSE 0
       ELSE UNCHANGED <<added, room>>
  /\ UNCHANGED <<blocked, disabling, outside, unblocked, phase, toList, cands, gone, doomed>>

-----------------------------------------------------------------------------
(* maybe_refill_queue *)

Begin ==
  /\ phase = "rest" /\ phase' = "list" /\ toList' = Types
  /\ UNCHANGED <<item, blocked, disabling, outside, adds, cands, gone, doomed, room, added>>

\* platform.candidates: a running project first, then source and quota, then
\* the blocklist, then the use limit.
Busy == CodesOf(In("active"))
Lists(o) == o \notin drained /\ o[1] \notin Busy \cup blocked /\ ~AtLimit(o[1])
\* Mutant of Excludes: every project that is not listed.
ExcludesUnlisted(o) == ~Lists(o)
Excludes(o) == o \in drained /\ o[1] \notin Busy

List(t) ==
  /\ phase = "list" /\ t \in toList
  /\ toList' = toList \ {t}
  /\ cands' = cands \cup {o \in Offers : o[2] = t /\ Lists(o)}
  /\ gone' = gone \cup {o \in Offers : o[2] = t /\ Excludes(o)}
  /\ UNCHANGED <<item, blocked, disabling, outside, adds, phase, doomed, room, added>>

\* Mutant of ListFails: one failure ends the listing.
ListFailsAll(t) ==
  /\ phase = "list" /\ t \in toList
  /\ toList' = {} /\ cands' = {} /\ gone' = {}
  /\ UNCHANGED <<item, blocked, disabling, outside, adds, phase, doomed, room, added>>

ListFails(t) ==
  /\ phase = "list" /\ t \in toList
  /\ toList' = toList \ {t}
  /\ UNCHANGED <<item, blocked, disabling, outside, adds, phase, cands, gone, doomed, room, added>>

\* The queue's snapshot: what to fail and how many run.  The reasons are not
\* read again.
Validate ==
  /\ phase = "list" /\ toList = {} /\ phase' = "check"
  /\ doomed' = In("pending") \cap gone
  /\ room' = IF Cardinality(In("active")) >= Target THEN 0
             ELSE Target - Cardinality(In("active"))
  /\ gone' = {}
  /\ UNCHANGED <<item, blocked, disabling, outside, adds, toList, cands, added>>

\* fail_item
\* Mutant of Fails: whatever became of the item.
FailsAnyway(o) == TRUE
Fails(o) == item[o] = "pending"

FailItem(o) ==
  /\ phase = "check" /\ o \in doomed
  /\ doomed' = doomed \ {o}
  /\ item' = IF Fails(o) THEN [item EXCEPT ![o] = "rejected"] ELSE item
  /\ UNCHANGED <<blocked, disabling, outside, adds, phase, toList, cands, gone, room, added>>

\* pending_count, and the room it leaves
Count ==
  /\ phase = "check" /\ doomed = {} /\ phase' = "track"
  /\ room' = IF room >= Cardinality(In("pending"))
               THEN room - Cardinality(In("pending")) ELSE 0
  /\ UNCHANGED <<item, blocked, disabling, outside, adds, toList, cands, gone, doomed, added>>

\* tracked_project_codes
Track ==
  /\ phase = "track" /\ phase' = "add"
  /\ cands' = {o \in cands : o[1] \notin CodesOf(Live)}
  /\ UNCHANGED <<item, blocked, disabling, outside, adds, toList, gone, doomed, room, added>>

Urgent == {o \in cands : o[1] \in Priority}
Selectable == IF Urgent # {} THEN Urgent ELSE IF room > 0 THEN cands ELSE {}

\* The code is tracked from here on, whatever add_platform makes of it.
Select(o) ==
  /\ phase = "add" /\ added < Batch /\ o \in Selectable
  /\ Enter("refill", o)
  /\ cands' = {other \in cands : other[1] # o[1]}
  /\ UNCHANGED <<phase, toList, gone, doomed, room, added>>

Finish ==
  /\ phase = "add" /\ ~Calling("refill") /\ (added = Batch \/ Selectable = {})
  /\ phase' = "rest"
  /\ cands' = {} /\ room' = 0 /\ added' = 0
  /\ UNCHANGED <<item, blocked, disabling, outside, adds, toList, gone, doomed>>

-----------------------------------------------------------------------------
(* The page *)

\* Candidates on the page are as old as its last listing.
PageAdds(r, o) == Enter(r, o) /\ UNCHANGED plan

Remove(o) ==
  /\ item[o] \in {"pending", "rejected"}
  /\ item' = [item EXCEPT ![o] = "none"]
  /\ UNCHANGED <<blocked, disabling, outside, adds, plan>>

Retry(o) ==
  /\ item[o] = "rejected" /\ item' = Queued(o)
  /\ UNCHANGED <<blocked, disabling, outside, adds, plan>>

\* disable_project removes the item, then updates the settings and the
\* blocklists (_sync_blocklist).
Disable(o) ==
  /\ item[o] # "active" /\ o[1] \notin blocked \cup disabling
  /\ item[o] = "none" => \A other \in Offers : other[1] = o[1] => item[other] = "none"
  /\ item' = [item EXCEPT ![o] = "none"]
  /\ disabling' = disabling \cup {o[1]}
  /\ UNCHANGED <<blocked, outside, adds, plan>>

SyncBlocklist(c) ==
  /\ c \in disabling
  /\ disabling' = disabling \ {c} /\ blocked' = blocked \cup {c}
  /\ overtaken' = overtaken \cup {k \in InFlight : k[2][1] = c}
  /\ UNCHANGED <<item, outside, unblocked, cleared, plan>>

\* enable_project
Enable(c) ==
  /\ c \in blocked /\ blocked' = blocked \ {c}
  /\ UNCHANGED <<item, disabling, outside, adds, plan>>

-----------------------------------------------------------------------------
(* Tasks and the platforms *)

Launch(o) ==
  /\ item[o] = "pending" /\ item' = [item EXCEPT ![o] = "active"]
  /\ UNCHANGED <<blocked, disabling, outside, adds, plan>>

\* A stalled or paused task is queued again.
Requeue(o) ==
  /\ item[o] = "active" /\ item' = Queued(o)
  /\ UNCHANGED <<blocked, disabling, outside, adds, plan>>

\* A task ends, with a submission or without.
End(o) ==
  /\ item[o] = "active" /\ item' = [item EXCEPT ![o] = "none"]
  /\ \/ uses[o[1]] < MaxUses /\ uses' = [uses EXCEPT ![o[1]] = @ + 1]
     \/ UNCHANGED uses
  /\ UNCHANGED <<blocked, disabling, drained, counts, loaded, adds, plan>>

QuotaMoves(o) ==
  /\ drained' = IF o \in drained THEN drained \ {o} ELSE drained \cup {o}
  /\ UNCHANGED <<item, blocked, disabling, uses, counts, loaded, adds, plan>>

Refilling ==
  \/ Begin
  \/ \E t \in Types : List(t) \/ ListFails(t)
  \/ Validate
  \/ \E o \in Offers : FailItem(o)
  \/ Count \/ Track
  \/ \E o \in Offers : Select(o) \/ CheckUses("refill", o) \/ Append("refill", o)
  \/ Finish

Page ==
  \/ \E r \in Requests, o \in Offers :
       PageAdds(r, o) \/ CheckUses(r, o) \/ Append(r, o)
  \/ \E o \in Offers : Remove(o) \/ Retry(o)
  \/ \E o \in Unsteady : Disable(o)
  \/ \E c \in Codes : SyncBlocklist(c) \/ Enable(c)

Outside ==
  \/ \E o \in Offers : Launch(o) \/ Requeue(o) \/ End(o)
  \/ \E o \in Unsteady : QuotaMoves(o)
  \/ Fetch

Next == Refilling \/ Page \/ Outside

\* The auto loop comes round.
Spec == Init /\ [][Next]_vars /\ WF_vars(Refilling)

-----------------------------------------------------------------------------
\* The refill never fails an item that was launched after it looked at the
\* queue (service.py:1596-1608, scheduler.py:2982).
RunningNotFailed == [][\A o \in Offers : item[o] = "active" => item'[o] # "rejected"]_vars

\* An item is failed only for quota or source: never because its project is
\* running, disabled, or at a use limit the item itself counts for
\* (service.py:1599-1607).
FailedForCause == \A o \in Offers : [](o \notin drained) => [](item[o] # "rejected")

\* However old the listing, what an add queues has no other item, and it is
\* disabled or used up only if that came about within this very add, between
\* its check and the queue's lock (scheduler.py:2835-2855).
StaleListingRefused ==
  [][\A o \in Offers : (item[o] = "none" /\ item'[o] = "pending")
       => /\ o[1] \notin CodesOf(Live)
          /\ o[1] \in blocked \/ Exhausted(o[1])
               => \E who \in Callers : <<who, o>> \in overtaken \ overtaken']_vars

\* A project that stays eligible is queued or meets a full queue again and
\* again, as long as its own type can be listed, whatever the other types do
\* (service.py:1547-1557).  The refill counts the running items, then the
\* pending ones, then looks which projects have one: what others queue, or
\* what leaves the queue in between, is counted for a place it does not take
\* (service.py:1567-1612); that must not go on for ever.
Eligible(o) == o \notin drained /\ o[1] \notin blocked /\ ~Exhausted(o[1])
QueuedByOthers(o) == Requeue(o) \/ Retry(o) \/ \E r \in Requests : Append(r, o)
Leaves(o) == End(o) \/ Remove(o) \/ Disable(o)
Miscounted(o) == QueuedByOthers(o) \/ (phase \in {"check", "track"} /\ Leaves(o))
QueueFull == Cardinality(Live) >= Target
EligibleIsQueued ==
  \A o \in Offers :
    (/\ <>[]Eligible(o) /\ []<><<List(o[2])>>_vars
     /\ <>[][\A other \in Offers : ~Miscounted(other)]_vars)
      => []<>(o[1] \in CodesOf(Live) \/ QueueFull)
=============================================================================
