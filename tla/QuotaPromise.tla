------------------------------ MODULE QuotaPromise ------------------------------
(***************************************************************************)
(* What the cap on AI drafts promises: a ledger of charges for each month. *)
(* A capped plan is charged only while the month has room; a charge is     *)
(* given back only while its draft is open; a draft that has left, or died *)
(* with its handler, stays charged; past months only shrink.  Room beyond  *)
(* the cap comes from stray refunds alone, one for each open slot that is  *)
(* given up without having been charged to the present month.  The counter *)
(* and its month, audits, tones and awaits are left out: AiDraftQuota is   *)
(* shown to implement this.                                                *)
(***************************************************************************)
EXTENDS Integers

CONSTANTS Months, Cap

VARIABLES
    month,
    unlimited,  \* the plan has no cap
    charged,    \* charges, per month
    final,      \* those of them that stay: their draft is no longer awaited
    foreign,    \* open slots that were not charged to the present month
    stray       \* refunds the present month got for such a slot, per month

promise == <<month, unlimited, charged, final, foreign, stray>>

None == [m \in Months |-> 0]

Init ==
    /\ month = 0 /\ unlimited \in BOOLEAN
    /\ charged = None /\ final = None /\ stray = None
    /\ foreign = 0

\* One more charge, and the month has room for it.
Charge(m) ==
    /\ m = month /\ ~unlimited
    /\ charged'[m] = charged[m] + 1
    /\ charged'[m] <= Cap + stray'[m]

Charges(m) ==
    /\ final[m] <= final'[m] /\ final'[m] <= charged'[m]
    /\ charged'[m] <= charged[m] \/ Charge(m)

\* Each stray refund is for a foreign slot; the slots of an unlimited plan are
\* foreign.
Refunds ==
    /\ \A m \in Months \ {month} : stray'[m] = stray[m]
    /\ stray[month] <= stray'[month] /\ 0 <= foreign'
    /\ stray'[month] + foreign' <= stray[month] + foreign + IF unlimited THEN 1 ELSE 0

\* A handler ends, or takes a slot, or both.
Draft ==
    /\ UNCHANGED <<month, unlimited>>
    /\ \A m \in Months : Charges(m)
    /\ Refunds

ChangePlan ==
    /\ unlimited' = ~unlimited
    /\ UNCHANGED <<month, charged, final, foreign, stray>>

\* What is open was charged to another month from now on.
TurnMonth ==
    /\ month' = month + 1 /\ month' \in Months
    /\ foreign' = foreign + charged[month] - final[month]
    /\ UNCHANGED <<unlimited, charged, final, stray>>

Next == Draft \/ ChangePlan \/ TurnMonth

Spec == Init /\ [][Next]_promise
=============================================================================
