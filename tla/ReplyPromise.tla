----------------------------- MODULE ReplyPromise -----------------------------
(***************************************************************************)
(* What the reply feature promises the owner of a business, in three       *)
(* sentences: the platform shows nothing the owner did not ask to publish, *)
(* it shows nothing before the time the owner asked for, and a review is   *)
(* badged as posted only once the platform shows a reply to it.  Saving,   *)
(* queueing, batching, retrying and crashing are left out: ReplyPublishing *)
(* is shown to implement this.                                             *)
(***************************************************************************)
EXTENDS Integers

CONSTANTS Reviews, Texts, NoText, MaxTime

VARIABLES
    clock,   \* the time
    grants,  \* what the owner asked for: [review, text, at]
    live,    \* the reply the platform shows under each review
    badge    \* the reviews marked as posted

promise == <<clock, grants, live, badge>>

Init ==
    /\ clock = 0
    /\ grants = {}
    /\ live = [r \in Reviews |-> NoText]
    /\ badge = [r \in Reviews |-> FALSE]

\* The owner asks for text x under review r at time t or as soon as possible
\* after it.
Ask(r, x, t) ==
    /\ t >= clock
    /\ grants' = grants \cup {[review |-> r, text |-> x, at |-> t]}
    /\ UNCHANGED <<clock, live, badge>>

Publish(g) ==
    /\ g.at <= clock
    /\ live' = [live EXCEPT ![g.review] = g.text]
    /\ UNCHANGED <<clock, grants, badge>>

Mark(r) ==
    /\ live[r] # NoText
    /\ badge' = [badge EXCEPT ![r] = TRUE]
    /\ UNCHANGED <<clock, grants, live>>

\* Reviews leave the dashboard, and their badges with them.
Forget(S) ==
    /\ badge' = [r \in Reviews |-> r \notin S /\ badge[r]]
    /\ UNCHANGED <<clock, grants, live>>

Pass ==
    /\ clock' = clock + 1
    /\ UNCHANGED <<grants, live, badge>>

Next ==
    \/ \E r \in Reviews, x \in Texts, t \in 0..MaxTime : Ask(r, x, t)
    \/ \E g \in grants : Publish(g)
    \/ \E r \in Reviews : Mark(r)
    \/ \E S \in SUBSET Reviews : Forget(S)
    \/ Pass

Spec == Init /\ [][Next]_promise
=============================================================================
