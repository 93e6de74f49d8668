---------------------------- MODULE BillingPromise ----------------------------
(***************************************************************************)
(* What the billing webhook promises an account: an event of the provider  *)
(* takes effect once and whole, or is missed because a fault cut its       *)
(* delivery off, and the provider is told to stop sending it only then.    *)
(* Deliveries, retries, duplicates, claims and their release are left out: *)
(* BillingWebhook is shown to implement this.                              *)
(***************************************************************************)
EXTENDS Integers, Sequences

CONSTANTS
    Events,      \* what the provider can tell: [name, sub, status, custom, ...]
    Free, Null,  \* the free plan, and no subscription
    MaxFaults

VARIABLES
    told,     \* the events, in the order they happened
    open,     \* those the provider still wants acknowledged
    settled,  \* those that took effect
    missed,   \* those that never will
    row,      \* what the account has: [plan, status, sub]
    faults    \* deliveries cut off so far

promise == <<told, open, settled, missed, row, faults>>

Init ==
    /\ told = <<>>
    /\ open = {} /\ settled = {} /\ missed = {}
    /\ row = [plan |-> Free, status |-> "active", sub |-> Null]
    /\ faults = 0

\* What an event makes of an account.
After(ev) ==
    CASE ev.name = "subscription_expired" ->
            [plan |-> Free, status |-> "active", sub |-> Null]
      [] ev.name \in {"subscription_cancelled", "subscription_paused"} ->
            [row EXCEPT !.status = ev.status]
      [] OTHER -> [plan |-> ev.custom, status |-> ev.status, sub |-> ev.sub]

Happen(ev) ==
    /\ told' = Append(told, ev)
    /\ open' = open \cup {Len(told) + 1}
    /\ UNCHANGED <<settled, missed, row, faults>>

Settle(e) ==
    /\ e \notin settled \cup missed
    /\ settled' = settled \cup {e}
    /\ open' = open \ {e}
    /\ row' = After(told[e])
    /\ UNCHANGED <<told, missed, faults>>

Miss(e) ==
    /\ e \notin settled \cup missed
    /\ faults < MaxFaults
    /\ faults' = faults + 1
    /\ missed' = missed \cup {e}
    /\ UNCHANGED <<told, open, settled, row>>

Acknowledge(e) ==
    /\ e \in settled \cup missed
    /\ open' = open \ {e}
    /\ UNCHANGED <<told, settled, missed, row, faults>>

\* told' # told follows from Happen, and spares a model checker
\* the search through Events.
Next ==
    \/ told' # told /\ \E ev \in Events : Happen(ev)
    \/ \E e \in DOMAIN told : Settle(e) \/ Miss(e) \/ Acknowledge(e)

Spec == Init /\ [][Next]_promise
=============================================================================
