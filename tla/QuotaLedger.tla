---------------------------- MODULE QuotaLedger ----------------------------
(***************************************************************************)
(* What the scheduler promises of the platform tasks it pre-deducts: a     *)
(* task that was reserved is eventually consumed by a success or released  *)
(* by a cancel, never both and never twice.  A reservation whose answer    *)
(* got lost is nobody's.                                                   *)
(***************************************************************************)
CONSTANT Tasks

VARIABLE ledger

Entry == {"free", "reserved", "lost", "consumed", "released"}

Init == ledger = [t \in Tasks |-> "free"]

\* Where an entry may be after one step.
Successors(e) ==
  {e} \cup (CASE e = "free"     -> {"reserved", "lost"}
               [] e = "reserved" -> {"consumed", "released"}
               [] OTHER          -> {})

\* One save may record the outcome of several tasks.
Next == /\ ledger' \in [Tasks -> Entry]
        /\ \A t \in Tasks : ledger'[t] \in Successors(ledger[t])

Resolve(t) == Next /\ ledger[t] = "reserved" /\ ledger'[t] # "reserved"

Spec == Init /\ [][Next]_ledger

LiveSpec == Spec /\ \A t \in Tasks : WF_ledger(Resolve(t))
=============================================================================
