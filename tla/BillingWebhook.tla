---------------------------- MODULE BillingWebhook ----------------------------
(***************************************************************************)
(* How the plan of one account follows what the account bought at the      *)
(* billing provider (LemonSqueezy): POST /api/billing/checkout, the        *)
(* webhook handler with its claim table, and reconcileFromWebhook          *)
(* (routes/billing.js).                                                    *)
(*                                                                         *)
(* The provider sends an event for every change, retries it until it is    *)
(* acknowledged, may deliver it again after that, and keeps no order       *)
(* between events.  The handler awaits nothing between its claim and its   *)
(* UPDATE but two promises that are already resolved, so a delivery is one *)
(* step; claim and UPDATE are still two commits, between which the process *)
(* may die, and the release of the claim of a failed delivery may fail as  *)
(* well.                                                                   *)
(***************************************************************************)
EXTENDS Integers, Sequences, FiniteSets

CONSTANTS
    Subs,         \* provider subscription ids
    PaidPlans,    \* plans that can be bought
    Free,         \* the free plan
    Null,         \* SQL NULL in billing_subscription_id
    MaxEvents,    \* bound: events the provider sends
    MaxFaults     \* bound: failed or interrupted deliveries

ASSUME BillingAssumption ==
    /\ Free \notin PaidPlans
    /\ Null \notin Subs
    /\ MaxEvents \in Nat /\ MaxFaults \in Nat

VARIABLES
    provider,   \* EXTERNAL: the provider's view of each subscription
    events,     \* EXTERNAL: the events sent so far; an event's id is its index
    unacked,    \* EXTERNAL: the ids the provider still retries
    claimed,    \* webhook_events.event_id
    plan,       \* subscriptions.plan
    status,     \* subscriptions.status
    current,    \* subscriptions.billing_subscription_id
    applied,    \* HISTORY: how often each event was reconciled
    inOrder,    \* HISTORY: events have been reconciled in the order sent
    faults

account == <<plan, status, current>>
vars == <<provider, events, unacked, claimed, plan, status, current,
          applied, inOrder, faults>>

\* What a subscription is at the provider: `bought` is the plan put into the
\* checkout's custom data, `variant` the plan being billed.
Life == {"none", "checkout", "active", "past_due", "cancelled", "paused", "expired"}
Subscription == [status : Life, bought : PaidPlans, variant : PaidPlans]

Renewing == {"subscription_created", "subscription_updated",
             "subscription_resumed", "subscription_unpaused"}
Stopping == {"subscription_cancelled", "subscription_paused"}
Names == Renewing \cup Stopping \cup {"subscription_expired"}
Event == [name : Names, sub : Subs, status : Life, custom : PaidPlans, variant : PaidPlans]

Ids == 1..MaxEvents
Sent == 1..Len(events)

Init ==
    /\ provider \in [Subs -> {s \in Subscription : s.status = "none" /\ s.bought = s.variant}]
    /\ events = <<>>
    /\ unacked = {}
    /\ claimed = {}
    /\ plan = Free
    /\ status = "active"
    /\ current = Null
    /\ applied = [e \in Ids |-> 0]
    /\ inOrder = TRUE
    /\ faults = 0

-----------------------------------------------------------------------------
(* The shop.                                                               *)

\* POST /checkout refuses an account that has a paid plan, in the account's
\* own books.
ActivePaid == status = "active" /\ plan # Free /\ current # Null

Checkout(s) ==
    /\ provider[s].status = "none"
    /\ ~ActivePaid
    /\ provider' = [provider EXCEPT ![s].status = "checkout"]
    /\ UNCHANGED <<events, unacked, claimed, account, applied, inOrder, faults>>

\* A change at the provider, and the event that tells of it.
Change(s, from, to, name, variant) ==
    /\ provider[s].status \in from
    /\ Len(events) < MaxEvents
    /\ provider' = [provider EXCEPT ![s] = [status |-> to, bought |-> @.bought,
                                            variant |-> variant]]
    /\ events' = Append(events, [name |-> name, sub |-> s, status |-> to,
                                 custom |-> provider[s].bought, variant |-> variant])
    /\ unacked' = unacked \cup {Len(events) + 1}
    /\ UNCHANGED <<claimed, account, applied, inOrder, faults>>

Keeping(s, from, to, name) == Change(s, from, to, name, provider[s].variant)

Pay(s)       == Keeping(s, {"checkout"}, "active", "subscription_created")
SwitchPlan(s) == \E p \in PaidPlans \ {provider[s].variant} :
                    Change(s, {"active"}, "active", "subscription_updated", p)
PaymentFails(s) == Keeping(s, {"active"}, "past_due", "subscription_updated")
PaymentRecovers(s) == Keeping(s, {"past_due"}, "active", "subscription_updated")
Cancel(s)    == Keeping(s, {"active", "past_due"}, "cancelled", "subscription_cancelled")
Pause(s)     == Keeping(s, {"active"}, "paused", "subscription_paused")
Resume(s)    == Keeping(s, {"cancelled"}, "active", "subscription_resumed")
Unpause(s)   == Keeping(s, {"paused"}, "active", "subscription_unpaused")
\* A renewal, a card change, any other change: the same status told again.
Tell(s)      == LET now == provider[s].status IN
                /\ now \notin {"none", "checkout"}
                /\ Keeping(s, {now}, now, "subscription_updated")
Expire(s)    == Keeping(s, {"cancelled", "past_due"}, "expired", "subscription_expired")

-----------------------------------------------------------------------------
(* The webhook handler.                                                    *)

\* Mutant: the UPDATE of a renewing event keeps the subscription on record, if
\* there is one.
RenewKeepingRecord(ev) ==
    /\ plan' = ev.custom
    /\ current' = IF current = Null THEN ev.sub ELSE current
    /\ status' = ev.status

\* The account is found by custom data alone, whatever subscription it has on
\* record; the plan is the one bought at checkout.
Renew(ev) ==
    plan' = ev.custom /\ current' = ev.sub /\ status' = ev.status

Stop(ev) == status' = ev.status /\ UNCHANGED <<plan, current>>

\* Mutant: an expiry clears the subscription but keeps the plan.
ForgetSubscription == current' = Null /\ status' = "active" /\ UNCHANGED plan

\* Mutant: an expiry sets the plan to NULL.
Unset == plan' = Null /\ current' = Null /\ status' = "active"

Downgrade == plan' = Free /\ current' = Null /\ status' = "active"

\* reconcileFromWebhook.
Reconcile(e) ==
    \/ events[e].name \in Renewing /\ Renew(events[e])
    \/ events[e].name \in Stopping /\ Stop(events[e])
    \/ events[e].name = "subscription_expired" /\ Downgrade

\* INSERT OR IGNORE changed a row.
FirstDelivery(e) == e \notin claimed

Apply(e) ==
    /\ FirstDelivery(e)
    /\ claimed' = claimed \cup {e}
    /\ Reconcile(e)
    /\ unacked' = unacked \ {e}
    /\ applied' = [applied EXCEPT ![e] = @ + 1]
    /\ inOrder' = (inOrder /\ \A d \in Sent : applied[d] > 0 <=> d < e)
    /\ UNCHANGED <<provider, events, faults>>

Dedupe(e) ==
    /\ ~FirstDelivery(e)
    /\ unacked' = unacked \ {e}
    /\ UNCHANGED <<provider, events, claimed, account, applied, inOrder, faults>>

\* Mutant: a failed delivery keeps its claim.
ReleaseNothing(e) == claimed' = claimed \cup {e}

\* DELETE FROM webhook_events: as if the claim had not been made.
ReleaseClaim(e) == claimed' = claimed

\* Mutant: a failed delivery is answered as a good one, so that the provider
\* stops retrying.
FailAcknowledged(e) ==
    /\ FirstDelivery(e)
    /\ ReleaseClaim(e)
    /\ unacked' = unacked \ {e}
    /\ UNCHANGED <<provider, events, account, applied, inOrder, faults>>

\* The UPDATE throws; the claim is released and the provider told to retry.
FailAndRelease(e) ==
    /\ FirstDelivery(e)
    /\ ReleaseClaim(e)
    /\ UNCHANGED <<provider, events, unacked, account, applied, inOrder, faults>>

\* The process dies after the claim, or the release throws too.
LoseClaim(e) ==
    /\ FirstDelivery(e)
    /\ faults < MaxFaults
    /\ faults' = faults + 1
    /\ claimed' = claimed \cup {e}
    /\ UNCHANGED <<provider, events, unacked, account, applied, inOrder>>

Next ==
    \/ \E s \in Subs : Checkout(s)
    \/ \E s \in Subs : Pay(s)
    \/ \E s \in Subs : SwitchPlan(s)
    \/ \E s \in Subs : PaymentFails(s)
    \/ \E s \in Subs : PaymentRecovers(s)
    \/ \E s \in Subs : Cancel(s)
    \/ \E s \in Subs : Pause(s)
    \/ \E s \in Subs : Resume(s)
    \/ \E s \in Subs : Unpause(s)
    \/ \E s \in Subs : Tell(s)
    \/ \E s \in Subs : Expire(s)
    \/ \E e \in Sent : Apply(e)
    \/ \E e \in Sent : Dedupe(e)
    \/ \E e \in Sent : FailAndRelease(e)
    \/ \E e \in Sent : LoseClaim(e)

Spec == Init /\ [][Next]_vars

\* The provider retries what is not acknowledged, and a delivery that keeps
\* being made succeeds in the end.
Fairness == \A e \in Ids :
    /\ WF_vars(e \in unacked /\ Apply(e))
    /\ WF_vars(e \in unacked /\ Dedupe(e))

FairSpec == Spec /\ Fairness

-----------------------------------------------------------------------------
(* Properties.                                                             *)

\* Types; the sequence of events stays within its bound.
TypeOK ==
    /\ provider \in [Subs -> Subscription]
    /\ events \in Seq(Event) /\ Len(events) <= MaxEvents
    /\ unacked \subseteq Sent
    /\ claimed \subseteq Sent
    /\ plan \in PaidPlans \cup {Free}
    /\ status \in Life \ {"none", "checkout"}
    /\ current \in Subs \cup {Null}
    /\ applied \in [Ids -> Nat]
    /\ inOrder \in BOOLEAN
    /\ faults \in 0..MaxFaults

\* However often an event is delivered, it changes the account once: a late
\* duplicate cannot bring back a plan that has since been cancelled.
AppliedOnce == \A e \in Ids : applied[e] <= 1

\* The two columns the checkout guard reads go together, whatever the order
\* of events: a paid plan is the plan bought with the subscription on record,
\* which was paid for; a free account has none on record.
PlanHasItsSubscription ==
    /\ plan = Free <=> current = Null
    /\ current # Null => /\ plan = provider[current].bought
                         /\ provider[current].status \notin {"none", "checkout"}

Dropped == {e \in Sent : e \in claimed /\ applied[e] = 0}

\* An event is refused as a duplicate without having taken effect only where
\* a delivery was cut off between the claim and its release: an UPDATE that
\* fails does not lose its event.
LostOnlyByFaults == Cardinality(Dropped) <= faults

About(s) == {e \in Sent : events[e].sub = s}

\* Another subscription has had an event of these names since the last of s.
Overtaken(s, names) ==
    \E d \in Sent : /\ events[d].name \in names
                    /\ \A e \in About(s) : e < d

\* With every event applied in the order sent, a subscription that is active
\* at the provider is the one on record, with the plan bought with it, unless
\* another one has been renewed or has expired since its last event; and the
\* account is active unless another one had any event since.  Whatever this or
\* the other subscriptions went through before does not matter.
PayingCustomerServed ==
    \A s \in Subs :
        /\ inOrder
        /\ \A e \in Sent : applied[e] = 1
        /\ provider[s].status = "active"
        => /\ \/ plan = provider[s].bought /\ current = s
              \/ Overtaken(s, Renewing \cup {"subscription_expired"})
           /\ status = "active" \/ Overtaken(s, Names)

\* Every event the provider sends takes effect in the end, but for as many
\* as deliveries were cut off after the claim.
EventsTakeEffect ==
    <>[](Cardinality({e \in Sent : applied[e] = 0}) <= faults)

\* The abstract specification (BillingPromise): each event takes effect once
\* and whole, or is missed by a fault, and only then is it acknowledged.
Promise == INSTANCE BillingPromise WITH
    Events <- Event, told <- events, open <- unacked,
    settled <- {e \in Sent : applied[e] > 0}, missed <- Dropped,
    row <- [plan |-> plan, status |-> status, sub |-> current]
PromiseKept == Promise!Spec

-----------------------------------------------------------------------------
(* What comments of the code say and the code does not do.                 *)

Known == {s \in Subs : provider[s].status \notin {"none", "checkout"}}

\* routes/billing.js:62-65: the plan of an active subscription is changed in
\* the portal of the provider, by its plan-switch flow.
SwitchTakesEffect ==
    \A s \in Subs :
        /\ inOrder
        /\ \A e \in Sent : applied[e] = 1
        /\ Known = {s}
        /\ provider[s].status = "active"
        => plan = provider[s].variant
=============================================================================
