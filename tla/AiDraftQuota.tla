----------------------------- MODULE AiDraftQuota -----------------------------
(***************************************************************************)
(* The monthly cap on AI drafts of one account: reserveAiDraft and         *)
(* refundAiDraft (lib/billing/enforcement.js) as the draft handlers of the *)
(* dashboard (routes/reviews.js) and of the browser extension              *)
(* (routes/extension.js) use them: reserve a slot, await the model, refund *)
(* the slot if the answer is only a template or the call threw; and as the *)
(* audit of a prospect's reviews (routes/auditPreviews.js) uses them: a    *)
(* slot for each review and for two more tones of each, one after the      *)
(* other, all of them refunded when it is refused on the way.              *)
(*                                                                         *)
(* Each reservation and each refund is one synchronous transaction.  The   *)
(* await between them is where other drafts, the turn of the month, a plan *)
(* change (a billing webhook) and a crash come in.  What an audit does     *)
(* between two of its awaits is one action.                                *)
(***************************************************************************)
EXTENDS Integers, FiniteSets

CONSTANTS
    Drafts,      \* bound: the slots that handlers can hold together
    Cap,         \* maxAiDraftsPerMonth of the free plan (3 in the code)
    Null,        \* SQL NULL in ai_drafts_period_start
    MaxMonth,    \* bound: the calendar stops here
    MaxAsked,    \* bound: drafts and audits the account asks for
    MaxReviews,  \* reviews of one audit (12 in the code)
    Tones        \* tones of one review (3 in the code)

ASSUME QuotaAssumption ==
    /\ IsFiniteSet(Drafts)
    /\ Cap \in Nat
    /\ MaxMonth \in Nat /\ MaxAsked \in Nat
    /\ MaxReviews \in Nat /\ Tones \in Nat
    /\ Null \notin Nat

VARIABLES
    month,      \* the UTC calendar month
    unlimited,  \* the plan has no cap on AI drafts
    used,       \* subscriptions.ai_drafts_used
    period,     \* subscriptions.ai_drafts_period_start
    job,        \* the slots handlers hold
    audit,      \* the audit under way
    delivered,  \* HISTORY: AI drafts delivered on slots charged to a month
    lost,       \* HISTORY: charged slots whose handler died, per month
    stray,      \* HISTORY: refunds in a month that no slot charged to it backs
    asked

vars == <<month, unlimited, used, period, job, audit, delivered, lost, stray, asked>>

Months == 0..MaxMonth

\* A slot between its reservation and the end of its handler: whether the
\* reservation was counted, and in which month.
Waiting == [counted : BOOLEAN, month : Months]
Idle == [counted |-> FALSE]

\* An audit awaits the model on slot `at` for tone `tone` of a review, with
\* `left` reviews to come; `kept` are the slots of the drafts it has.
Audits == [at : Drafts, kept : SUBSET Drafts, tone : Nat, left : Nat]
NoAudit == [kept |-> {}]

Init ==
    /\ month = 0
    /\ unlimited \in BOOLEAN
    /\ used = 0
    /\ period = Null
    /\ job = [d \in Drafts |-> Idle]
    /\ audit = NoAudit
    /\ delivered = [m \in Months |-> 0]
    /\ lost = [m \in Months |-> 0]
    /\ stray = [m \in Months |-> 0]
    /\ asked = 0

-----------------------------------------------------------------------------
(* lib/billing/enforcement.js.                                             *)

\* Mutant: a draft that fell back to a template keeps its slot.
RefundNothing(R) == used

\* Mutant: no MAX(0, ...).
RefundBelowZero(R) == IF period = month THEN used - Cardinality(R) ELSE used

\* The counter after one refund for each slot of R, which look at the month
\* of the refund alone.
Refunded(R) ==
    IF period # month THEN used
    ELSE IF used > Cardinality(R) THEN used - Cardinality(R) ELSE 0

\* Mutant: the counter is never reset.
CarriedOver(R) == Refunded(R)

\* What a reservation that follows the refunds reads: a new month starts
\* from zero.
Current(R) == IF period = month THEN Refunded(R) ELSE 0

Admitted(R) == unlimited \/ Current(R) < Cap

\* An unlimited plan counts nothing.  As a mutant of CountReserved: the check
\* without the count, as canUseAiDraft does it.
Uncounted(R) == used' = Refunded(R) /\ UNCHANGED period

\* A capped plan counts, in the transaction that checks.
CountReserved(R) == used' = Current(R) + 1 /\ period' = month

Charged(d, m) == job[d].counted /\ job[d].month = m

\* Refunds of this month's counter for slots that were not charged to it.
Strays(R) == IF period = month
             THEN [stray EXCEPT ![month] = @ + Cardinality({d \in R : ~Charged(d, month)})]
             ELSE stray

\* Refund the slots of R.
RefundAiDraft(R) ==
    /\ Uncounted(R)
    /\ stray' = Strays(R)

\* Refund the slots of R, then reserve slot e.
RefundAndReserve(R, e) ==
    /\ Admitted(R)
    /\ IF unlimited THEN Uncounted(R) ELSE CountReserved(R)
    /\ stray' = Strays(R)
    /\ job' = [d \in Drafts |-> IF d = e THEN [counted |-> ~unlimited, month |-> month]
                                ELSE IF d \in R THEN Idle ELSE job[d]]

\* The slots of S are no longer held.
Release(S) == job' = [d \in Drafts |-> IF d \in S THEN Idle ELSE job[d]]

OfMonth(m) == {d \in Drafts : job[d] # Idle /\ Charged(d, m)}

\* The drafts on the slots of S leave.
Deliver(S) == delivered' = [m \in Months |-> delivered[m] + Cardinality(OfMonth(m) \cap S)]

-----------------------------------------------------------------------------
(* GET /reviews/:id/draft and POST /extension/draft.                       *)

OfAudit == IF audit = NoAudit THEN {} ELSE audit.kept \cup {audit.at}

Ask(d) ==
    /\ job[d] = Idle
    /\ asked < MaxAsked
    /\ asked' = asked + 1
    /\ RefundAndReserve({}, d)
    /\ UNCHANGED <<month, unlimited, audit, delivered, lost>>

\* The model answered: the slot stays spent.
AnsweredByAi(d) ==
    /\ job[d] # Idle /\ d \notin OfAudit
    /\ Deliver({d})
    /\ Release({d})
    /\ UNCHANGED <<month, unlimited, used, period, audit, lost, stray, asked>>

\* A template instead of an AI answer, or a throw: refund.
FellBack(d) ==
    /\ job[d] # Idle /\ d \notin OfAudit
    /\ RefundAiDraft({d})
    /\ Release({d})
    /\ UNCHANGED <<month, unlimited, audit, delivered, lost, asked>>

-----------------------------------------------------------------------------
(* POST /audit-previews.                                                   *)

\* The first slot of an audit of n reviews; refused, it ends with nothing.
StartAudit(d, n) ==
    /\ audit = NoAudit /\ job[d] = Idle
    /\ asked < MaxAsked
    /\ asked' = asked + 1
    /\ RefundAndReserve({}, d)
    /\ audit' = [at |-> d, kept |-> {}, tone |-> 1, left |-> n - 1]
    /\ UNCHANGED <<month, unlimited, delivered, lost>>

\* The slots refunded and kept when the model answered, or fell back to a
\* template, on slot `at`.
Back(ai) == IF ai THEN {} ELSE {audit.at}
Kept(ai) == IF ai THEN audit.kept \cup {audit.at} ELSE audit.kept

\* A template for the first tone of a review spares it the other tones.
MoreTones(ai) == audit.tone < Tones /\ (ai \/ audit.tone > 1)

\* On to the next tone of this review, or to the next review.
AuditGoesOn(ai, e) ==
    /\ audit # NoAudit
    /\ MoreTones(ai) \/ audit.left > 0
    /\ job[e] = Idle \/ e \in Back(ai)
    /\ RefundAndReserve(Back(ai), e)
    /\ audit' = [at |-> e, kept |-> Kept(ai),
                 tone |-> IF MoreTones(ai) THEN audit.tone + 1 ELSE 1,
                 left |-> IF MoreTones(ai) THEN audit.left ELSE audit.left - 1]
    /\ UNCHANGED <<month, unlimited, delivered, lost, asked>>

\* Refused at the next review (a tone that is refused is only left out): 402,
\* and every slot of the audit is refunded, its finished drafts thrown away.
AuditRefused(ai) ==
    /\ audit # NoAudit
    /\ audit.left > 0 /\ ~Admitted(Back(ai))
    /\ RefundAiDraft(OfAudit)
    /\ Release(OfAudit)
    /\ audit' = NoAudit
    /\ UNCHANGED <<month, unlimited, delivered, lost, asked>>

\* The last review is through: the audit is stored with the drafts it has.
AuditStored(ai) ==
    /\ audit # NoAudit
    /\ audit.left = 0 /\ (MoreTones(ai) => ~Admitted(Back(ai)))
    /\ RefundAiDraft(Back(ai))
    /\ Deliver(Kept(ai))
    /\ Release(OfAudit)
    /\ audit' = NoAudit
    /\ UNCHANGED <<month, unlimited, lost, asked>>

-----------------------------------------------------------------------------
(* What happens around the handlers.                                       *)

\* A billing webhook moves the account between a capped and an unlimited
\* plan; the counter columns are not touched.
ChangePlan ==
    /\ unlimited' = ~unlimited
    /\ UNCHANGED <<month, used, period, job, audit, delivered, lost, stray, asked>>

TurnMonth ==
    /\ month < MaxMonth
    /\ month' = month + 1
    /\ UNCHANGED <<unlimited, used, period, job, audit, delivered, lost, stray, asked>>

\* The process dies: nobody is left to refund.
Crash ==
    /\ \E d \in Drafts : job[d] # Idle
    /\ lost' = [m \in Months |-> lost[m] + Cardinality(OfMonth(m))]
    /\ job' = [d \in Drafts |-> Idle]
    /\ audit' = NoAudit
    /\ UNCHANGED <<month, unlimited, used, period, delivered, stray, asked>>

Next ==
    \/ \E d \in Drafts : Ask(d)
    \/ \E d \in Drafts : AnsweredByAi(d)
    \/ \E d \in Drafts : FellBack(d)
    \/ \E d \in Drafts, n \in 1..MaxReviews : StartAudit(d, n)
    \/ \E ai \in BOOLEAN, e \in Drafts : AuditGoesOn(ai, e)
    \/ \E ai \in BOOLEAN : AuditRefused(ai)
    \/ \E ai \in BOOLEAN : AuditStored(ai)
    \/ ChangePlan
    \/ TurnMonth
    \/ Crash

Spec == Init /\ [][Next]_vars

-----------------------------------------------------------------------------
(* Properties.                                                             *)

Spent(m) == delivered[m] + lost[m] + Cardinality(OfMonth(m))

\* An audit holds the slots it is to refund or to spend, each once.
AuditOK ==
    /\ audit \in Audits \cup {NoAudit}
    /\ \A d \in OfAudit : job[d] # Idle
    /\ audit # NoAudit => audit.at \notin audit.kept

\* Types; the counter stays within the cap and is never negative.
TypeOK ==
    /\ month \in Months
    /\ unlimited \in BOOLEAN
    /\ used \in 0..Cap
    /\ period \in Months \cup {Null}
    /\ job \in [Drafts -> Waiting \cup {Idle}]
    /\ AuditOK
    /\ delivered \in [Months -> Nat]
    /\ lost \in [Months -> Nat]
    /\ stray \in [Months -> Nat]
    /\ asked \in Nat

\* In no month do more AI drafts leave on charged slots, parallel requests
\* included, than the cap allows plus the refunds that month received for
\* slots it had not charged.
CapUnlessStray ==
    \A m \in Months : Spent(m) <= Cap + stray[m]

\* The counter never holds a draft against the account that it did not get,
\* is not waiting for, and did not lose to a crash: a template is free.
NeverOvercharged == period = month => used <= Spent(month)

\* Without a stray refund the counter is exactly what was spent.
ExactUnlessStray == period = month /\ stray[month] = 0 => used = Spent(month)

\* The slots in flight that were not charged to this month.
Foreign == {d \in Drafts : job[d] # Idle /\ ~Charged(d, month)}

\* The two columns of the counter keep the ledger of QuotaPromise, whatever
\* drafts, audits, plan changes, crashes and turns of the month overlap.
Promise == INSTANCE QuotaPromise WITH
    charged <- [m \in Months |-> Spent(m)],
    final <- [m \in Months |-> delivered[m] + lost[m]],
    foreign <- Cardinality(Foreign)

PromiseKept == Promise!Spec
=============================================================================
