------------------------ MODULE BillingWebhook_proofs ------------------------
(***************************************************************************)
(* Theorems about BillingWebhook, for any number of subscriptions, plans,  *)
(* events and faults.  The inductive invariant says what the events carry: *)
(* the subscription an event tells of was paid for, its custom data is     *)
(* what was bought, and the last event of each subscription tells where it  *)
(* now stands.                                                             *)
(***************************************************************************)
EXTENDS BillingWebhook, TLAPS, FiniteSetTheorems, SequenceTheorems

Unpaid == {"none", "checkout"}

\* What an event says of its subscription.
EventsTold ==
    \A e \in Sent :
        /\ provider[events[e].sub].status \notin Unpaid
        /\ events[e].custom = provider[events[e].sub].bought
        /\ events[e].status \notin Unpaid
        /\ events[e].status = "active" => events[e].name \in Renewing

Paid == {s \in Subs : provider[s].status \notin Unpaid}

\* A subscription that was paid for has a last event, which tells its state.
LastTold ==
    \A s \in Paid : \E e \in Sent :
        /\ events[e].sub = s /\ provider[s].status = events[e].status
        /\ \A d \in About(s) : d <= e

AppliedIsClaimed == \A e \in Ids : applied[e] > 0 => e \in claimed

\* Applied so far, in order, are the events up to k.
UpTo(k) == inOrder /\ \A d \in Sent : applied[d] > 0 <=> d <= k

Overtaking == Renewing \cup {"subscription_expired"}

\* What an active event wrote stands until a later one writes over it.
ActiveMirrored ==
    \A k \in Sent : \A e \in 1..k :
        UpTo(k) /\ events[e].status = "active" =>
            /\ \/ plan = events[e].custom /\ current = events[e].sub
               \/ \E d \in (e + 1)..k : events[d].name \in Overtaking
            /\ e = k => status = "active"

IInv ==
    /\ TypeOK
    /\ EventsTold
    /\ LastTold
    /\ AppliedIsClaimed
    /\ AppliedOnce
    /\ PlanHasItsSubscription
    /\ ActiveMirrored
    /\ LostOnlyByFaults

-----------------------------------------------------------------------------
(* The two kinds of step.                                                  *)

Told(s, from, to, name, variant) ==
    /\ to \in Life \ Unpaid
    /\ name \in Names
    /\ variant \in PaidPlans
    /\ to = "active" => name \in Renewing
    /\ "none" \notin from
    /\ Change(s, from, to, name, variant)

ShopStep(s) ==
    Pay(s) \/ SwitchPlan(s) \/ PaymentFails(s) \/ PaymentRecovers(s) \/ Cancel(s)
    \/ Pause(s) \/ Resume(s) \/ Unpause(s) \/ Tell(s) \/ Expire(s)

LEMMA ShopStepTells ==
    ASSUME TypeOK, NEW s \in Subs, ShopStep(s)
    PROVE  \E from, to, name, variant : Told(s, from, to, name, variant)
<1> USE DEF Told, Life, Unpaid, Names, Renewing, Stopping, Keeping
<1>0. provider[s] \in Subscription /\ provider[s].variant \in PaidPlans
      /\ provider[s].status \in Life
  BY DEF TypeOK, Subscription
<1>1. CASE Pay(s)
  BY <1>0, <1>1 DEF Pay
<1>2. CASE SwitchPlan(s)
  <2>1. PICK p \in PaidPlans : Change(s, {"active"}, "active", "subscription_updated", p)
    BY <1>2 DEF SwitchPlan
  <2> QED BY <2>1
<1>3. CASE PaymentFails(s)
  BY <1>0, <1>3 DEF PaymentFails
<1>4. CASE PaymentRecovers(s)
  BY <1>0, <1>4 DEF PaymentRecovers
<1>5. CASE Cancel(s)
  BY <1>0, <1>5 DEF Cancel
<1>6. CASE Pause(s)
  BY <1>0, <1>6 DEF Pause
<1>7. CASE Resume(s)
  BY <1>0, <1>7 DEF Resume
<1>8. CASE Unpause(s)
  BY <1>0, <1>8 DEF Unpause
<1>9. CASE Tell(s)
  BY <1>0, <1>9 DEF Tell
<1>10. CASE Expire(s)
  BY <1>0, <1>10 DEF Expire
<1> QED BY <1>1, <1>2, <1>3, <1>4, <1>5, <1>6, <1>7, <1>8, <1>9, <1>10 DEF ShopStep

\* The next-state relation, by kind of step.
LEMMA NextSteps ==
    ASSUME Next
    PROVE  \/ \E s \in Subs : Checkout(s) \/ ShopStep(s)
           \/ \E e \in Sent : Apply(e) \/ Dedupe(e) \/ FailAndRelease(e) \/ LoseClaim(e)
BY DEF Next, ShopStep

-----------------------------------------------------------------------------
(* The inductive invariant.                                                *)

LEMMA DroppedFinite ==
    ASSUME TypeOK
    PROVE  IsFiniteSet(Dropped) /\ Cardinality(Dropped) \in Nat
<1>1. Len(events) \in Nat
  BY LenProperties DEF TypeOK
<1>2. IsFiniteSet(Sent)
  BY <1>1, FS_Interval DEF Sent
<1>3. Dropped \subseteq Sent
  BY DEF Dropped
<1> QED BY <1>2, <1>3, FS_Subset, FS_CardinalityType

LEMMA EventTypes ==
    ASSUME TypeOK, NEW e \in Sent
    PROVE  /\ events[e].sub \in Subs /\ events[e].status \in Life
           /\ events[e].custom \in PaidPlans /\ events[e].name \in Names
<1>1. events[e] \in Event
  BY DEF TypeOK, Sent
<1> QED BY <1>1 DEF Event

LEMMA InitInv == Init => IInv
<1> SUFFICES ASSUME Init
             PROVE  IInv
  OBVIOUS
<1>1. events = <<>> /\ Len(events) = 0 /\ Sent = {}
  BY DEF Init, Sent
<1>2. TypeOK
  <2>1. provider \in [Subs -> Subscription]
    BY DEF Init, Subscription
  <2> QED BY <1>1, <2>1, BillingAssumption DEF Init, TypeOK, Life
<1>3. EventsTold /\ ActiveMirrored
  BY <1>1 DEF EventsTold, ActiveMirrored
<1>4. LastTold
  BY DEF Init, LastTold, Paid, Unpaid
<1>5. AppliedIsClaimed /\ AppliedOnce
  BY DEF Init, AppliedIsClaimed, AppliedOnce
<1>6. PlanHasItsSubscription
  BY DEF Init, PlanHasItsSubscription
<1>7. LostOnlyByFaults
  <2>1. Dropped = {}
    BY <1>1 DEF Dropped
  <2> QED BY <2>1, FS_EmptySet DEF LostOnlyByFaults, Init
<1> QED BY <1>2, <1>3, <1>4, <1>5, <1>6, <1>7 DEF IInv

LEMMA CheckoutKeeps ==
    ASSUME IInv, NEW s \in Subs, Checkout(s)
    PROVE  IInv'
<1> USE DEF IInv, Checkout, account
<1>1. \A t \in Subs : /\ provider'[t].bought = provider[t].bought
                      /\ provider'[t].status = IF t = s THEN "checkout" ELSE provider[t].status
                      /\ provider'[t].variant = provider[t].variant
  BY DEF TypeOK, Subscription
<1>2. Sent' = Sent
  BY DEF Sent
<1>3. TypeOK'
  <2>1. provider' \in [Subs -> Subscription]
    BY DEF TypeOK, Subscription, Life
  <2>2. UNCHANGED <<events, unacked, claimed, plan, status, current, applied, inOrder, faults>>
    OBVIOUS
  <2> QED BY <1>2, <2>1, <2>2 DEF TypeOK
<1>4. \A e \in Sent : events[e].sub \in Subs /\ events[e].sub # s
  BY EventTypes DEF EventsTold, Unpaid
<1>5. EventsTold'
  BY <1>1, <1>2, <1>4 DEF EventsTold, Unpaid
<1>6. Paid' = Paid /\ s \notin Paid
  BY <1>1 DEF Paid, Unpaid
<1>7. \A t \in Subs : About(t)' = About(t)
  BY <1>2 DEF About
<1>8. LastTold'
  <2>1. \A t \in Paid : t \in Subs /\ provider'[t].status = provider[t].status
    BY <1>1, <1>6 DEF Paid
  <2> QED BY <1>2, <1>6, <1>7, <2>1 DEF LastTold
<1>9. AppliedIsClaimed' /\ AppliedOnce'
  BY DEF AppliedIsClaimed, AppliedOnce
<1>10. PlanHasItsSubscription'
  BY <1>1, BillingAssumption DEF PlanHasItsSubscription, TypeOK
<1>11. ActiveMirrored'
  BY <1>2 DEF ActiveMirrored, UpTo
<1>12. LostOnlyByFaults'
  BY <1>2 DEF LostOnlyByFaults, Dropped
<1> QED BY <1>3, <1>5, <1>8, <1>9, <1>10, <1>11, <1>12

LEMMA ChangeKeeps ==
    ASSUME IInv, NEW s \in Subs,
           NEW from, NEW to, NEW name, NEW variant,
           Told(s, from, to, name, variant)
    PROVE  IInv'
<1> USE DEF IInv
<1> DEFINE ev == [name |-> name, sub |-> s, status |-> to,
                  custom |-> provider[s].bought, variant |-> variant]
           n == Len(events) + 1
<1>0. /\ events \in Seq(Event) /\ Len(events) \in Nat
      /\ provider[s] \in Subscription /\ provider[s].bought \in PaidPlans
  BY DEF TypeOK, Subscription
<1>1. ev \in Event
  BY <1>0 DEF Told, Event
<1>2. /\ events' = Append(events, ev) /\ events' \in Seq(Event)
      /\ Len(events') = n /\ n <= MaxEvents
      /\ events'[n] = ev
      /\ \A e \in Sent : events'[e] = events[e]
      /\ Sent' = Sent \cup {n} /\ n \notin Sent /\ n \in Ids
  <2>1. events' = Append(events, ev) /\ Len(events) < MaxEvents
    BY DEF Told, Change
  <2>2. events' \in Seq(Event) /\ Len(events') = n /\ events'[n] = ev
        /\ \A e \in 1..Len(events) : events'[e] = events[e]
    BY <1>0, <1>1, <2>1
  <2> QED BY <1>0, <2>1, <2>2, BillingAssumption DEF Sent, Ids
<1>3. /\ \A t \in Subs : t # s => provider'[t] = provider[t]
      /\ provider'[s] = [status |-> to, bought |-> provider[s].bought, variant |-> variant]
      /\ provider' \in [Subs -> Subscription]
  BY <1>0 DEF Told, Change, TypeOK, Subscription
<1>4. UNCHANGED <<claimed, plan, status, current, applied, inOrder, faults>>
      /\ unacked' = unacked \cup {n}
  BY DEF Told, Change, account
<1>5. applied[n] = 0 /\ n \notin claimed
  BY <1>2 DEF AppliedIsClaimed, TypeOK
<1>6. \A e \in Sent : events[e].sub \in Subs
  BY EventTypes
<1>7. TypeOK'
  BY <1>2, <1>3, <1>4, BillingAssumption DEF TypeOK
<1>8. EventsTold'
  <2>1. to \notin Unpaid /\ (to = "active" => name \in Renewing)
    BY DEF Told
  <2>2. \A t \in Subs : /\ provider'[t].bought = provider[t].bought
                        /\ provider[t].status \notin Unpaid => provider'[t].status \notin Unpaid
    BY <1>3, <2>1
  <2> SUFFICES ASSUME NEW e \in Sent'
               PROVE  /\ provider'[events'[e].sub].status \notin Unpaid
                      /\ events'[e].custom = provider'[events'[e].sub].bought
                      /\ events'[e].status \notin Unpaid
                      /\ events'[e].status = "active" => events'[e].name \in Renewing
    BY DEF EventsTold
  <2>3. CASE e \in Sent
    <3>1. events'[e] = events[e] /\ events[e].sub \in Subs
      BY <2>3, <1>2, <1>6
    <3>2. /\ provider[events[e].sub].status \notin Unpaid
          /\ events[e].custom = provider[events[e].sub].bought
          /\ events[e].status \notin Unpaid
          /\ events[e].status = "active" => events[e].name \in Renewing
      BY <2>3 DEF EventsTold
    <3> QED BY <2>2, <3>1, <3>2
  <2>4. CASE e = n
    <3>1. events'[e] = ev
      BY <2>4, <1>2
    <3>2. ev.sub = s /\ ev.custom = provider[s].bought /\ ev.status = to /\ ev.name = name
      OBVIOUS
    <3>3. provider'[s].status = to /\ provider'[s].bought = provider[s].bought
      BY <1>3
    <3> QED BY <2>1, <3>1, <3>2, <3>3
  <2> QED BY <2>3, <2>4, <1>2
<1>9. LastTold'
  <2> SUFFICES ASSUME NEW t \in Paid'
               PROVE  \E e \in Sent' :
                        /\ events'[e].sub = t /\ provider'[t].status = events'[e].status
                        /\ \A d \in About(t)' : d <= e
    BY DEF LastTold
  <2>1. CASE t = s
    <3>1. ev.sub = s /\ ev.status = to /\ provider'[s].status = to
      BY <1>3
    <3>2. \A d \in About(t)' : d <= n
      BY <1>0, <1>2 DEF About, Sent
    <3> QED BY <1>2, <2>1, <3>1, <3>2
  <2>2. CASE t # s
    <3>1. t \in Subs /\ provider'[t] = provider[t] /\ t \in Paid
      BY <2>2, <1>3 DEF Paid
    <3>2. PICK e \in Sent : /\ events[e].sub = t /\ provider[t].status = events[e].status
                            /\ \A d \in About(t) : d <= e
      BY <3>1 DEF LastTold
    <3>3. ev.sub = s
      OBVIOUS
    <3>4. About(t)' = About(t)
      BY <1>2, <2>2, <3>3 DEF About
    <3> QED BY <1>2, <3>1, <3>2, <3>4
  <2> QED BY <2>1, <2>2
<1>11. AppliedIsClaimed' /\ AppliedOnce'
  BY <1>4 DEF AppliedIsClaimed, AppliedOnce
<1>12. PlanHasItsSubscription'
  <2>1. \A t \in Subs : /\ provider'[t].bought = provider[t].bought
                        /\ provider[t].status \notin Unpaid => provider'[t].status \notin Unpaid
    BY <1>3 DEF Told, Unpaid
  <2> QED BY <1>4, <2>1, BillingAssumption DEF PlanHasItsSubscription, TypeOK, Unpaid
<1>13. ActiveMirrored'
  <2> SUFFICES ASSUME NEW k \in Sent', NEW e \in 1..k, UpTo(k)',
                      events'[e].status = "active"
               PROVE  /\ \/ plan' = events'[e].custom /\ current' = events'[e].sub
                         \/ \E d \in (e + 1)..k : events'[d].name \in Overtaking
                      /\ e = k => status' = "active"
    BY DEF ActiveMirrored
  <2>1. k # n
    BY <1>2, <1>4, <1>5, <1>0 DEF UpTo, Sent
  <2>2. k \in Sent /\ UpTo(k)
    BY <2>1, <1>2, <1>4 DEF UpTo
  <2>3. \A d \in 1..k : events'[d] = events[d]
    BY <1>0, <1>2, <2>2 DEF Sent
  <2>4. \A d \in (e + 1)..k : d \in 1..k
    BY <1>0, <2>2 DEF Sent
  <2> QED BY <2>2, <2>3, <2>4, <1>4 DEF ActiveMirrored
<1>14. LostOnlyByFaults'
  <2>1. Dropped' = Dropped
    BY <1>2, <1>4, <1>5 DEF Dropped
  <2> QED BY <2>1, <1>4 DEF LostOnlyByFaults
<1> QED BY <1>7, <1>8, <1>9, <1>11, <1>12, <1>13, <1>14

LEMMA ApplyKeeps ==
    ASSUME IInv, NEW e \in Sent, Apply(e)
    PROVE  IInv'
<1> USE DEF IInv
<1> DEFINE ev == events[e]
<1>0. /\ ev.sub \in Subs /\ ev.status \in Life /\ ev.custom \in PaidPlans /\ ev.name \in Names
  BY EventTypes
<1>a. Sent \subseteq Ids /\ Sent \subseteq Nat
  BY BillingAssumption DEF TypeOK, Sent, Ids
<1>1. /\ e \notin claimed /\ claimed' = claimed \cup {e}
      /\ UNCHANGED <<provider, events, faults>>
      /\ unacked' = unacked \ {e} /\ Sent' = Sent
      /\ inOrder' = (inOrder /\ \A d \in Sent : applied[d] > 0 <=> d < e)
  BY DEF Apply, FirstDelivery, Sent
<1>2. /\ applied[e] = 0 /\ applied'[e] = 1
      /\ \A d \in Ids : d # e => applied'[d] = applied[d]
      /\ applied' \in [Ids -> Nat]
  BY <1>a, <1>1 DEF Apply, AppliedIsClaimed, TypeOK
<1>3. \/ /\ ev.name \in Renewing
         /\ plan' = ev.custom /\ current' = ev.sub /\ status' = ev.status
      \/ /\ ev.name \in Stopping /\ ev.name \notin Renewing
         /\ plan' = plan /\ current' = current /\ status' = ev.status
      \/ /\ ev.name = "subscription_expired" /\ ev.name \notin Renewing
         /\ plan' = Free /\ current' = Null /\ status' = "active"
  BY DEF Apply, Reconcile, Renew, Stop, Downgrade, Renewing, Stopping
<1>4. /\ provider[ev.sub].status \notin Unpaid
      /\ ev.custom = provider[ev.sub].bought
      /\ ev.status \notin Unpaid
      /\ ev.status = "active" => ev.name \in Renewing
  BY DEF EventsTold
<1>5. TypeOK'
  <2>1. /\ plan' \in PaidPlans \cup {Free} /\ current' \in Subs \cup {Null}
        /\ status' \in Life \ {"none", "checkout"}
    BY <1>0, <1>3, <1>4 DEF TypeOK, Unpaid, Life
  <2>2. inOrder' \in BOOLEAN
    BY <1>1
  <2> QED BY <1>1, <1>2, <2>1, <2>2 DEF TypeOK
<1>6. EventsTold' /\ LastTold'
  BY <1>1 DEF EventsTold, Paid, LastTold, About
<1>7. AppliedIsClaimed' /\ AppliedOnce'
  <2>1. \A d \in Ids : d # e => applied'[d] = applied[d] /\ (d \in claimed <=> d \in claimed')
    BY <1>1, <1>2
  <2> QED BY <1>1, <1>2, <2>1 DEF AppliedIsClaimed, AppliedOnce
<1>8. PlanHasItsSubscription'
  BY <1>0, <1>1, <1>3, <1>4, BillingAssumption DEF PlanHasItsSubscription, TypeOK, Unpaid
<1>9. ActiveMirrored'
  <2> SUFFICES ASSUME NEW k \in Sent, NEW x \in 1..k, UpTo(k)', events[x].status = "active"
               PROVE  /\ \/ plan' = events[x].custom /\ current' = events[x].sub
                         \/ \E d \in (x + 1)..k : events[d].name \in Overtaking
                      /\ x = k => status' = "active"
    BY <1>1 DEF ActiveMirrored
  <2>1. /\ \A d \in Sent : applied'[d] > 0 <=> d <= k
        /\ inOrder /\ \A d \in Sent : applied[d] > 0 <=> d < e
    BY <1>1 DEF UpTo
  <2>2. e \in Nat /\ k \in Nat /\ e <= k
    BY <1>a, <1>2, <2>1
  <2>3. k = e
    <3>1. SUFFICES ASSUME k # e
                   PROVE  FALSE
      OBVIOUS
    <3>2. applied'[k] = applied[k]
      BY <1>a, <1>2, <3>1
    <3>3. k < e
      BY <2>1, <2>2, <3>2
    <3> QED BY <2>2, <3>3
  <2>4. CASE x = k
    BY <2>3, <2>4, <1>3, <1>4
  <2>5. CASE x # k
    <3>1. k - 1 \in Sent /\ x \in 1..(k - 1)
      BY <2>2, <2>5 DEF Sent, TypeOK
    <3>2. UpTo(k - 1)
      BY <1>a, <2>1, <2>2, <2>3 DEF UpTo
    <3>3. \/ plan = events[x].custom /\ current = events[x].sub
          \/ \E d \in (x + 1)..(k - 1) : events[d].name \in Overtaking
      BY <3>1, <3>2 DEF ActiveMirrored
    <3>4. CASE \E d \in (x + 1)..(k - 1) : events[d].name \in Overtaking
      <4>1. \A d \in (x + 1)..(k - 1) : d \in (x + 1)..k
        BY <2>2
      <4> QED BY <2>5, <3>4, <4>1
    <3>5. CASE plan = events[x].custom /\ current = events[x].sub
      <4>1. CASE ev.name \in Stopping /\ ev.name \notin Renewing
        BY <2>5, <3>5, <4>1, <1>3 DEF Stopping
      <4>2. CASE ev.name \in Overtaking
        <5>1. k \in (x + 1)..k
          BY <2>2, <2>5
        <5>2. events[k].name \in Overtaking
          BY <2>3, <4>2
        <5> QED BY <2>5, <5>1, <5>2
      <4> QED BY <4>1, <4>2, <1>3 DEF Overtaking
    <3> QED BY <3>3, <3>4, <3>5
  <2> QED BY <2>4, <2>5
<1>10. LostOnlyByFaults'
  <2>1. Dropped' = Dropped
    <3>1. \A d \in Sent : d # e => applied'[d] = applied[d] /\ (d \in claimed <=> d \in claimed')
      BY <1>a, <1>1, <1>2
    <3> QED BY <1>1, <1>2, <3>1 DEF Dropped
  <2> QED BY <1>1, <2>1 DEF LostOnlyByFaults
<1> QED BY <1>5, <1>6, <1>7, <1>8, <1>9, <1>10

LEMMA OneMore ==
    ASSUME NEW S, NEW x, IsFiniteSet(S)
    PROVE  Cardinality(S \cup {x}) \in {Cardinality(S), Cardinality(S) + 1}
BY FS_AddElement

\* The handler's other ends: they touch claims and faults alone.
LEMMA NoEffectKeeps ==
    ASSUME IInv, NEW e \in Sent, Dedupe(e) \/ FailAndRelease(e) \/ LoseClaim(e)
    PROVE  IInv'
<1> USE DEF IInv
<1>1. /\ UNCHANGED <<provider, events, plan, status, current, applied, inOrder>>
      /\ Sent' = Sent
  BY DEF Dedupe, FailAndRelease, LoseClaim, account, Sent
<1>2. \/ claimed' = claimed /\ faults' = faults
      \/ claimed' = claimed \cup {e} /\ faults' = faults + 1 /\ faults < MaxFaults
  BY DEF Dedupe, FailAndRelease, LoseClaim, ReleaseClaim
<1>3. unacked' \subseteq unacked
  BY DEF Dedupe, FailAndRelease, LoseClaim
<1>4. TypeOK'
  BY <1>1, <1>2, <1>3, BillingAssumption DEF TypeOK
<1>5. EventsTold' /\ LastTold' /\ AppliedOnce' /\ PlanHasItsSubscription'
  BY <1>1 DEF EventsTold, Paid, LastTold, About, AppliedOnce, PlanHasItsSubscription
<1>6. ActiveMirrored'
  BY <1>1 DEF ActiveMirrored, UpTo
<1>7. AppliedIsClaimed'
  BY <1>1, <1>2 DEF AppliedIsClaimed
<1>8. LostOnlyByFaults'
  <2>1. CASE claimed' = claimed /\ faults' = faults
    <3>1. Dropped' = Dropped
      BY <1>1, <2>1 DEF Dropped
    <3> QED BY <2>1, <3>1 DEF LostOnlyByFaults
  <2>2. CASE claimed' = claimed \cup {e} /\ faults' = faults + 1
    <3>1. IsFiniteSet(Dropped) /\ Cardinality(Dropped) \in Nat
      BY DroppedFinite
    <3>2. Dropped' = Dropped \/ Dropped' = Dropped \cup {e}
      BY <1>1, <2>2 DEF Dropped
    <3>3. \/ Cardinality(Dropped)' = Cardinality(Dropped)
          \/ Cardinality(Dropped)' = Cardinality(Dropped \cup {e})
      BY <3>2, Zenon
    <3>4. Cardinality(Dropped)' \in {Cardinality(Dropped), Cardinality(Dropped) + 1}
      BY <3>1, <3>3, OneMore
    <3>5. faults \in Nat
      BY BillingAssumption DEF TypeOK
    <3> QED BY <2>2, <3>1, <3>4, <3>5 DEF LostOnlyByFaults
  <2> QED BY <1>2, <2>1, <2>2
<1> QED BY <1>4, <1>5, <1>6, <1>7, <1>8

LEMMA NextInv == IInv /\ [Next]_vars => IInv'
<1> SUFFICES ASSUME IInv, [Next]_vars
             PROVE  IInv'
  OBVIOUS
<1>1. CASE Next
  <2>1. CASE \E s \in Subs : Checkout(s)
    BY <2>1, CheckoutKeeps
  <2>2. CASE \E s \in Subs : ShopStep(s)
    <3>1. TypeOK
      BY DEF IInv
    <3> QED BY <2>2, <3>1, ShopStepTells, ChangeKeeps
  <2>3. CASE \E e \in Sent : Apply(e)
    BY <2>3, ApplyKeeps
  <2>4. CASE \E e \in Sent : Dedupe(e) \/ FailAndRelease(e) \/ LoseClaim(e)
    BY <2>4, NoEffectKeeps
  <2> QED BY <1>1, <2>1, <2>2, <2>3, <2>4, NextSteps
<1>2. CASE UNCHANGED vars
  BY <1>2 DEF vars, account, IInv, TypeOK, Sent, EventsTold, Paid, LastTold, About,
              AppliedIsClaimed, AppliedOnce, PlanHasItsSubscription, ActiveMirrored, UpTo,
              LostOnlyByFaults, Dropped
<1> QED BY <1>1, <1>2

LEMMA Inductive == Spec => []IInv
BY InitInv, NextInv, PTL DEF Spec

-----------------------------------------------------------------------------
(* The theorems.                                                           *)

\* Type correctness: an UPDATE never leaves the row without a plan or with a
\* status no paid subscription has.
THEOREM TypeCorrect == Spec => []TypeOK
<1>1. IInv => TypeOK
  BY DEF IInv
<1> QED BY <1>1, Inductive, PTL

\* However often the provider delivers an event, it takes effect once.
THEOREM AppliedOnceHolds == Spec => []AppliedOnce
<1>1. IInv => AppliedOnce
  BY DEF IInv
<1> QED BY <1>1, Inductive, PTL

\* Under any order of events, a paid plan is the one bought with the
\* subscription on record, and a free account has no subscription on record.
THEOREM PlanHasItsSubscriptionHolds == Spec => []PlanHasItsSubscription
<1>1. IInv => PlanHasItsSubscription
  BY DEF IInv
<1> QED BY <1>1, Inductive, PTL

\* No event is lost but by a delivery cut off between claim and release.
THEOREM LostOnlyByFaultsHolds == Spec => []LostOnlyByFaults
<1>1. IInv => LostOnlyByFaults
  BY DEF IInv
<1> QED BY <1>1, Inductive, PTL

\* With all events applied in order, an active subscription is the one on
\* record, with its plan, and the account active, unless another subscription
\* had an event since: the last event of the subscription was an active one,
\* and what it wrote stands until a later event writes over it.
THEOREM PayingCustomerServedHolds == Spec => []PayingCustomerServed
<1>1. IInv => PayingCustomerServed
  <2> SUFFICES ASSUME IInv, NEW s \in Subs, inOrder, \A e \in Sent : applied[e] = 1,
                      provider[s].status = "active"
               PROVE  /\ \/ plan = provider[s].bought /\ current = s
                         \/ Overtaken(s, Overtaking)
                      /\ status = "active" \/ Overtaken(s, Names)
    BY DEF PayingCustomerServed, Overtaking
  <2> DEFINE k == Len(events)
  <2>1. k \in Nat
    BY DEF IInv, TypeOK
  <2>2. PICK e \in Sent : /\ events[e].sub = s /\ events[e].status = "active"
                          /\ \A d \in About(s) : d <= e
    BY DEF IInv, LastTold, Paid, Unpaid
  <2>3. events[e].custom = provider[s].bought
    BY <2>2 DEF IInv, EventsTold
  <2>4. k \in Sent /\ e \in 1..k /\ UpTo(k)
    BY <2>1, <2>2 DEF UpTo, Sent
  <2>5. /\ \/ plan = provider[s].bought /\ current = s
           \/ \E d \in (e + 1)..k : events[d].name \in Overtaking
        /\ e = k => status = "active"
    BY <2>2, <2>3, <2>4 DEF IInv, ActiveMirrored
  <2>6. ASSUME NEW names, NEW d \in (e + 1)..k, events[d].name \in names
        PROVE  Overtaken(s, names)
    <3>1. d \in Sent /\ e < d
      BY <2>1, <2>4 DEF Sent
    <3>2. \A c \in About(s) : c < d
      BY <2>1, <2>2, <2>4, <3>1 DEF About, Sent
    <3> QED BY <2>6, <3>1, <3>2 DEF Overtaken
  <2>7. e # k => k \in (e + 1)..k /\ events[k].name \in Names
    BY <2>1, <2>4, EventTypes DEF IInv
  <2> QED BY <2>5, <2>6, <2>7
<1> QED BY <1>1, Inductive, PTL

-----------------------------------------------------------------------------
(* Refinement of BillingPromise.                                           *)

Settled == {e \in Sent : applied[e] > 0}

LEMMA SentTypes ==
    ASSUME TypeOK, NEW e \in Sent
    PROVE  e \in DOMAIN events /\ e \in Ids /\ applied[e] \in Nat
<1>1. Len(events) \in Nat /\ DOMAIN events = 1..Len(events)
  BY LenProperties DEF TypeOK
<1> QED BY <1>1, BillingAssumption DEF TypeOK, Sent, Ids

\* An id is open for its first effect exactly when it is not claimed.
LEMMA UnclaimedIsOpen ==
    ASSUME IInv, NEW e \in Sent
    PROVE  e \in claimed <=> e \in Settled \cup Dropped
<1>1. e \in Ids /\ applied[e] \in Nat
  BY SentTypes DEF IInv
<1> QED BY <1>1 DEF IInv, AppliedIsClaimed, Settled, Dropped

\* A change at the provider is Happen: its id is new, so that nothing has
\* been done about it yet.
LEMMA ChangeRefines ==
    ASSUME IInv, NEW s \in Subs,
           NEW from, NEW to, NEW name, NEW variant,
           Told(s, from, to, name, variant)
    PROVE  [Promise!Next]_(Promise!promise)
<1> DEFINE ev == [name |-> name, sub |-> s, status |-> to,
                  custom |-> provider[s].bought, variant |-> variant]
           n == Len(events) + 1
<1>1. ev \in Event
  BY DEF IInv, TypeOK, Told, Event, Subscription
<1>2. /\ n \in Ids /\ n \notin Sent /\ Sent' = Sent \cup {n}
      /\ events' = Append(events, ev)
  BY <1>1, AppendProperties, BillingAssumption DEF IInv, TypeOK, Told, Change, Sent, Ids
<1>3. n \notin claimed /\ applied[n] = 0
  BY <1>2 DEF IInv, TypeOK, AppliedIsClaimed
<1>4. Settled' = Settled /\ Dropped' = Dropped
  BY <1>2, <1>3 DEF Settled, Dropped, Told, Change
<1>5. Promise!Happen(ev)
  BY <1>2, <1>4 DEF Promise!Happen, Told, Change, account, Settled
<1>6. events' # events
  BY <1>1, <1>2, AppendProperties, LenProperties DEF IInv, TypeOK
<1> QED BY <1>1, <1>5, <1>6 DEF Promise!Next

LEMMA ApplyRefines ==
    ASSUME IInv, NEW e \in Sent, Apply(e)
    PROVE  [Promise!Next]_(Promise!promise)
<1>1. e \in DOMAIN events /\ e \in Ids /\ applied[e] \in Nat
  BY SentTypes DEF IInv
<1>2. e \notin Settled \cup Dropped
  BY UnclaimedIsOpen DEF Apply, FirstDelivery
<1>3. Settled' = Settled \cup {e} /\ Dropped' = Dropped
  BY <1>1, <1>2 DEF Settled, Dropped, Apply, Sent, IInv, TypeOK, Ids
<1>4. [plan |-> plan, status |-> status, sub |-> current]' = Promise!After(events[e])
  <2> USE DEF Promise!After, Apply, Reconcile, Names, Renewing, Stopping
  <2>1. CASE events[e].name \in Renewing
    BY <2>1 DEF Renew
  <2>2. CASE events[e].name \in Stopping
    BY <2>2 DEF Stop
  <2>3. CASE events[e].name = "subscription_expired"
    BY <2>3 DEF Downgrade
  <2> QED BY <2>1, <2>2, <2>3
<1>5. Promise!Settle(e)
  BY <1>2, <1>3, <1>4 DEF Promise!Settle, Apply, Settled
<1> QED BY <1>1, <1>5 DEF Promise!Next

LEMMA NoEffectRefines ==
    ASSUME IInv, NEW e \in Sent, Dedupe(e) \/ FailAndRelease(e) \/ LoseClaim(e)
    PROVE  [Promise!Next]_(Promise!promise)
<1>0. e \in DOMAIN events /\ e \in Ids /\ applied[e] \in Nat
  BY SentTypes DEF IInv
<1>1. CASE Dedupe(e)
  <2>1. e \in Settled \cup Dropped
    BY <1>1, UnclaimedIsOpen DEF Dedupe, FirstDelivery
  <2>2. Promise!Acknowledge(e)
    BY <1>1, <2>1 DEF Promise!Acknowledge, Dedupe, Settled, Dropped, Sent, account
  <2> QED BY <1>0, <2>2 DEF Promise!Next
<1>2. CASE FailAndRelease(e)
  BY <1>2 DEF Promise!promise, FailAndRelease, ReleaseClaim, account, Dropped, Sent
<1>3. CASE LoseClaim(e)
  <2>1. e \notin Settled \cup Dropped
    BY <1>3, UnclaimedIsOpen DEF LoseClaim, FirstDelivery
  <2>2. faults < MaxFaults /\ faults' = faults + 1
    BY <1>3 DEF LoseClaim
  <2>3. Dropped' = Dropped \cup {e} /\ Settled' = Settled
    BY <1>0, <1>3, <2>1 DEF LoseClaim, Dropped, Settled, Sent
  <2>4. UNCHANGED <<events, unacked, plan, status, current>>
    BY <1>3 DEF LoseClaim, account
  <2>5. Promise!Miss(e)
    BY <2>1, <2>2, <2>3, <2>4 DEF Promise!Miss, Settled
  <2> QED BY <1>0, <2>5 DEF Promise!Next
<1> QED BY <1>1, <1>2, <1>3

LEMMA StepRefines == IInv /\ [Next]_vars => [Promise!Next]_(Promise!promise)
<1> SUFFICES ASSUME IInv, [Next]_vars PROVE [Promise!Next]_(Promise!promise)
  OBVIOUS
<1>1. CASE Next
  <2>1. CASE \E s \in Subs : Checkout(s)
    BY <2>1 DEF Promise!promise, Checkout, account, Dropped, Sent
  <2>2. CASE \E s \in Subs : ShopStep(s)
    <3>1. PICK s \in Subs : ShopStep(s)
      BY <2>2
    <3>2. TypeOK
      BY DEF IInv
    <3> QED BY <3>1, <3>2, ShopStepTells, ChangeRefines
  <2>3. CASE \E e \in Sent : Apply(e)
    BY <2>3, ApplyRefines
  <2>4. CASE \E e \in Sent : Dedupe(e) \/ FailAndRelease(e) \/ LoseClaim(e)
    BY <2>4, NoEffectRefines
  <2> QED BY <1>1, <2>1, <2>2, <2>3, <2>4, NextSteps
<1>2. CASE UNCHANGED vars
  BY <1>2 DEF Promise!promise, vars, account, Dropped, Sent
<1> QED BY <1>1, <1>2

\* Every behaviour of the webhook keeps the promise: whatever is delivered,
\* retried, repeated or cut off, an event takes effect once and whole, or a
\* fault took it, and only then is the provider told to stop.
THEOREM ImplementsPromise == Spec => PromiseKept
<1>1. Init => Promise!Init
  BY DEF Init, Promise!Init, Sent, Dropped
<1> QED BY <1>1, StepRefines, Inductive, PTL DEF Spec, PromiseKept, Promise!Spec
=============================================================================
