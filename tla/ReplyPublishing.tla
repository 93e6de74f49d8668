--------------------------- MODULE ReplyPublishing ---------------------------
(***************************************************************************)
(* How a reply to a review travels from the dashboard to the review        *)
(* platform: POST /api/reviews/:id/respond (routes/reviews.js), the        *)
(* scheduled-reply job (jobs/scheduledReplyPoster.js), the routes that     *)
(* create, bulk-answer, import and delete reviews, and the connections     *)
(* that settings can add and drop.                                         *)
(*                                                                         *)
(* The server is one Node process over a synchronous database, so the code *)
(* between two awaits is one atomic action here.  The only await on these  *)
(* paths is provider.replyToReview: a handler or a tick that reaches it    *)
(* leaves a record in call[c] and goes on, from what it had read before,   *)
(* when the platform answers.  A crash keeps the rows and loses the calls. *)
(***************************************************************************)
EXTENDS Integers, Sequences, FiniteSets

CONSTANTS
    Reviews,        \* reviews of one business
    Texts,          \* reply texts after template substitution
    NoText,         \* SQL NULL or '' in response_text
    Null,           \* SQL NULL in a timestamp column
    Platforms,      \* provider names
    PlatformOf,     \* reviews.platform, fixed when the row is inserted
    HasExternalId,  \* the reviews that came from a platform sync
    Requests,       \* respond requests that can be in flight together
    Ticks,          \* poster ticks that can be in flight together
    BatchLimit,     \* LIMIT of the due-row query (100 in the code)
    MaxTime,        \* bound: the clock stops here
    MaxSaves,       \* bound: number of saves through /respond
    MaxFailures,    \* bound: failed platform calls
    MaxCrashes      \* bound: process restarts

ASSUME ReplyAssumption ==
    /\ IsFiniteSet(Reviews)
    /\ NoText \notin Texts
    /\ Null \notin Nat
    /\ PlatformOf \in [Reviews -> Platforms]
    /\ HasExternalId \subseteq Reviews
    /\ Requests \cap Ticks = {}
    /\ BatchLimit \in Nat \ {0}
    /\ {MaxTime, MaxSaves, MaxFailures, MaxCrashes} \subseteq Nat

VARIABLES
    now,          \* the clock of datetime('now')
    row,          \* "absent", "present" or "deleted"
    text,         \* reviews.response_text
    sched,        \* reviews.scheduled_post_at
    posted,       \* reviews.response_posted_at is not NULL
    respondedAt,  \* reviews.responded_at
    connected,    \* platforms with a platform_connections row
    postable,     \* platforms the environment lets replies go to
    call,         \* the replyToReview a handler or tick is awaiting
    queue,        \* rows a tick has read and not reached yet
    live,         \* EXTERNAL: the reply the platform shows
    grants,       \* HISTORY: the publications the owner asked for
    announced,    \* HISTORY: review.responded webhooks fired per review
    saves, failures, crashes

rowVars == <<row, text, sched, posted, respondedAt>>
envVars == <<connected, postable>>
budget == <<saves, failures, crashes>>
vars == <<now, row, text, sched, posted, respondedAt, connected, postable,
          call, queue, live, grants, announced, saves, failures, crashes>>

Callers == Requests \cup Ticks
Times == 0..MaxTime

Snapshot == [review : Reviews, text : Texts]
Dialling == [review : Reviews, text : Texts, first : BOOLEAN, landed : BOOLEAN]
NoCall == [landed |-> FALSE]
Grant == [review : Reviews, text : Texts, at : Times]

Init ==
    /\ now = 0
    /\ row = [r \in Reviews |-> "absent"]
    /\ text = [r \in Reviews |-> NoText]
    /\ sched = [r \in Reviews |-> Null]
    /\ posted = [r \in Reviews |-> FALSE]
    /\ respondedAt = [r \in Reviews |-> Null]
    /\ connected = Platforms
    /\ postable = Platforms
    /\ call = [c \in Callers |-> NoCall]
    /\ queue = [t \in Ticks |-> <<>>]
    /\ live = [r \in Reviews |-> NoText]
    /\ grants = {}
    /\ announced = [r \in Reviews |-> 0]
    /\ saves = 0 /\ failures = 0 /\ crashes = 0

-----------------------------------------------------------------------------
(* Rows come into being.                                                   *)

\* A platform sync inserts reviews unanswered, with their external id.
SyncInsert(r) ==
    /\ r \in HasExternalId
    /\ row[r] = "absent"
    /\ row' = [row EXCEPT ![r] = "present"]
    /\ UNCHANGED <<now, text, sched, posted, respondedAt, connected, postable,
                   call, queue, live, grants, announced, saves, failures, crashes>>

\* POST /reviews: a hand-entered review has no external id; the first auto
\* rule that matches answers it at once and the answer is announced.
CreateReview(r, x) ==
    /\ r \notin HasExternalId
    /\ row[r] = "absent"
    /\ row' = [row EXCEPT ![r] = "present"]
    /\ text' = [text EXCEPT ![r] = x]
    /\ respondedAt' = [respondedAt EXCEPT ![r] = IF x = NoText THEN Null ELSE now]
    /\ announced' = [announced EXCEPT ![r] = IF x = NoText THEN @ ELSE @ + 1]
    /\ UNCHANGED <<now, sched, posted, connected, postable, call, queue, live,
                   grants, saves, failures, crashes>>

\* POST /reviews/import: a CSV row may bring its old answer along, silently.
ImportReview(r, x) ==
    /\ r \notin HasExternalId
    /\ row[r] = "absent"
    /\ row' = [row EXCEPT ![r] = "present"]
    /\ text' = [text EXCEPT ![r] = x]
    /\ respondedAt' = [respondedAt EXCEPT ![r] = IF x = NoText THEN Null ELSE now]
    /\ UNCHANGED <<now, sched, posted, connected, postable, call, queue, live,
                   grants, announced, saves, failures, crashes>>

\* DELETE /reviews/:id and POST /reviews/bulk-delete.
DeleteReviews(S) ==
    /\ S # {} /\ \A r \in S : row[r] = "present"
    /\ row' = [r \in Reviews |-> IF r \in S THEN "deleted" ELSE row[r]]
    /\ text' = [r \in Reviews |-> IF r \in S THEN NoText ELSE text[r]]
    /\ sched' = [r \in Reviews |-> IF r \in S THEN Null ELSE sched[r]]
    /\ posted' = [r \in Reviews |-> IF r \in S THEN FALSE ELSE posted[r]]
    /\ respondedAt' = [r \in Reviews |-> IF r \in S THEN Null ELSE respondedAt[r]]
    /\ UNCHANGED <<now, connected, postable, call, queue, live, grants,
                   announced, saves, failures, crashes>>

-----------------------------------------------------------------------------
(* POST /reviews/:id/respond.                                              *)

\* A reply to r can be sent out now: its platform is listed in
\* REPLY_TO_PLATFORMS with a provider that can reply, the review is known
\* there, and the business is connected.
CanPost(r) ==
    /\ PlatformOf[r] \in postable
    /\ r \in HasExternalId
    /\ PlatformOf[r] \in connected

\* Mutant: "first" judged by the badge instead of the saved text.
UnpostedIsFirst(r) == ~posted[r]

IsFirstResponse(r) == text[r] = NoText

\* Mutant: the schedule is stored but does not hold the call back.
DialsAnyway(r, at) == CanPost(r)

DialsNow(r, at) == at = Null /\ CanPost(r)

Announce(r, first) ==
    announced' = IF first THEN [announced EXCEPT ![r] = @ + 1] ELSE announced

\* Read the row, save the reply, and either answer the request or dial the
\* platform.  `at` is Null to post now, else the time asked for; up to a
\* minute of skew is forgiven, so it may be the present.
Respond(q, r, x, at) ==
    LET first == IsFirstResponse(r)
        dial == DialsNow(r, at)
    IN
    /\ call[q] = NoCall
    /\ row[r] = "present"
    /\ at \in Times => at >= now
    /\ saves < MaxSaves
    /\ saves' = saves + 1
    /\ text' = [text EXCEPT ![r] = x]
    /\ sched' = [sched EXCEPT ![r] = at]
    /\ respondedAt' = [respondedAt EXCEPT ![r] = IF first THEN now ELSE @]
    /\ grants' = grants \cup
           {[review |-> r, text |-> x, at |-> IF at = Null THEN now ELSE at]}
    /\ call' = IF dial
               THEN [call EXCEPT ![q] = [review |-> r, text |-> x,
                                         first |-> first, landed |-> FALSE]]
               ELSE call
    /\ Announce(r, first /\ ~dial)
    /\ UNCHANGED <<now, row, posted, connected, postable, queue, live,
                   failures, crashes>>

\* Mutant: an upsert instead of an UPDATE.
MarkPostedUpsert(r) == posted' = [posted EXCEPT ![r] = TRUE]

\* UPDATE reviews SET response_posted_at: no effect on a deleted row.
MarkPosted(r) ==
    posted' = [posted EXCEPT ![r] = @ \/ row[r] = "present"]

\* Mutant: the call is not awaited.
RespondPostedUnawaited(q) ==
    /\ call[q] # NoCall
    /\ MarkPosted(call[q].review)
    /\ Announce(call[q].review, call[q].first)
    /\ call' = [call EXCEPT ![q] = NoCall]
    /\ UNCHANGED <<now, row, text, sched, respondedAt, connected, postable,
                   queue, live, grants, saves, failures, crashes>>

\* The awaited call resolves: set response_posted_at, announce, answer.
RespondPosted(q) ==
    /\ call[q] # NoCall /\ call[q].landed
    /\ MarkPosted(call[q].review)
    /\ Announce(call[q].review, call[q].first)
    /\ call' = [call EXCEPT ![q] = NoCall]
    /\ UNCHANGED <<now, row, text, sched, respondedAt, connected, postable,
                   queue, live, grants, saves, failures, crashes>>

\* The awaited call rejects, before or after the platform took the reply:
\* the error is reported beside the saved reply.
RespondFailed(q) ==
    /\ call[q] # NoCall
    /\ failures < MaxFailures
    /\ failures' = failures + 1
    /\ Announce(call[q].review, call[q].first)
    /\ call' = [call EXCEPT ![q] = NoCall]
    /\ UNCHANGED <<now, row, text, sched, posted, respondedAt, connected,
                   postable, queue, live, grants, saves, crashes>>

Unanswered(S) == {r \in S : row[r] = "present" /\ text[r] = NoText}

\* POST /reviews/bulk-respond answers only the unanswered and never posts.
BulkRespond(S, x) ==
    LET targets == Unanswered(S)
    IN
    /\ targets # {}
    /\ text' = [r \in Reviews |-> IF r \in targets THEN x ELSE text[r]]
    /\ respondedAt' = [r \in Reviews |-> IF r \in targets THEN now ELSE respondedAt[r]]
    /\ announced' = [r \in Reviews |-> IF r \in targets THEN announced[r] + 1
                                       ELSE announced[r]]
    /\ UNCHANGED <<now, row, sched, posted, connected, postable, call, queue,
                   live, grants, saves, failures, crashes>>

-----------------------------------------------------------------------------
(* jobs/scheduledReplyPoster.js.                                           *)

\* Mutant: the query forgets the time.
Queued(r) ==
    /\ row[r] = "present"
    /\ sched[r] # Null
    /\ text[r] # NoText
    /\ ~posted[r]

Due(r) ==
    /\ row[r] = "present"
    /\ sched[r] # Null /\ sched[r] <= now
    /\ text[r] # NoText
    /\ ~posted[r]

\* What the due-row query may return: at most BatchLimit due rows, the
\* longest due first; it leaves open the order of rows due since the same
\* second.
DueRows ==
    LET due == {r \in Reviews : Due(r)}
        size == IF Cardinality(due) < BatchLimit THEN Cardinality(due)
                                                 ELSE BatchLimit
    IN  {q \in [1..size -> due] :
            /\ \A i, j \in 1..size : i < j => q[i] # q[j] /\ sched[q[i]] <= sched[q[j]]
            /\ \A r \in due : \A i \in 1..size :
                  r \in {q[j] : j \in 1..size} \/ sched[q[i]] <= sched[r]}

\* Mutant: a row that cannot be posted stays in the queue.
KeepSchedule(S, schedule) == schedule

Unschedule(S, schedule) == [r \in Reviews |-> IF r \in S THEN Null ELSE schedule[r]]

\* The loop over the rows q from where it stands to its next await: a row
\* that cannot be posted loses its schedule, the first that can is dialled
\* with the text read by the query.  `schedule` is the column as the step
\* has left it so far.
RunLoop(t, q, schedule) ==
    \E k \in 1..(Len(q) + 1) :
        /\ \A i \in 1..(k - 1) : ~CanPost(q[i].review)
        /\ k <= Len(q) => CanPost(q[k].review)
        /\ sched' = Unschedule({q[i].review : i \in 1..(k - 1)}, schedule)
        /\ call' = [call EXCEPT ![t] =
               IF k <= Len(q)
               THEN [review |-> q[k].review, text |-> q[k].text,
                     first |-> FALSE, landed |-> FALSE]
               ELSE NoCall]
        /\ queue' = [queue EXCEPT ![t] = SubSeq(q, k + 1, Len(q))]

\* The interval timer fires.  Nothing keeps it from firing while an earlier
\* tick still awaits the platform.
Tick(t) ==
    /\ call[t] = NoCall
    /\ \E r \in Reviews : Due(r)
    /\ \E q \in DueRows :
          RunLoop(t, [i \in DOMAIN q |-> [review |-> q[i], text |-> text[q[i]]]], sched)
    /\ UNCHANGED <<now, row, text, posted, respondedAt, connected, postable,
                   live, grants, announced, saves, failures, crashes>>

\* The platform took the reply: posted and unscheduled in one UPDATE, by id
\* alone, then on with the loop.
TickPosted(t) ==
    LET r == call[t].review IN
    /\ call[t] # NoCall /\ call[t].landed
    /\ MarkPosted(r)
    /\ RunLoop(t, queue[t], Unschedule({r}, sched))
    /\ UNCHANGED <<now, row, text, respondedAt, connected, postable, live,
                   grants, announced, saves, failures, crashes>>

\* The call rejected: the schedule stays for the next tick.
TickFailed(t) ==
    /\ call[t] # NoCall
    /\ failures < MaxFailures
    /\ failures' = failures + 1
    /\ RunLoop(t, queue[t], sched)
    /\ UNCHANGED <<now, row, text, posted, respondedAt, connected, postable,
                   live, grants, announced, saves, crashes>>

-----------------------------------------------------------------------------
(* The platform, the settings page, the clock and the process.             *)

\* The platform applies the PUT: the text replaces any earlier reply.
PlatformAccepts(c) ==
    /\ call[c] # NoCall /\ ~call[c].landed
    /\ live' = [live EXCEPT ![call[c].review] = call[c].text]
    /\ call' = [call EXCEPT ![c].landed = TRUE]
    /\ UNCHANGED <<now, row, text, sched, posted, respondedAt, connected,
                   postable, queue, grants, announced, saves, failures, crashes>>

\* PUT /businesses/:id sets or clears a platform id.
SetConnection(p) ==
    /\ connected' = IF p \in connected THEN connected \ {p} ELSE connected \cup {p}
    /\ UNCHANGED <<now, row, text, sched, posted, respondedAt, postable, call,
                   queue, live, grants, announced, saves, failures, crashes>>

Pass ==
    /\ now < MaxTime
    /\ now' = now + 1
    /\ UNCHANGED <<row, text, sched, posted, respondedAt, connected, postable,
                   call, queue, live, grants, announced, saves, failures, crashes>>

\* The process dies and comes back, perhaps with another environment.
Restart ==
    /\ crashes < MaxCrashes
    /\ crashes' = crashes + 1
    /\ call' = [c \in Callers |-> NoCall]
    /\ queue' = [t \in Ticks |-> <<>>]
    /\ postable' \in SUBSET Platforms
    /\ UNCHANGED <<now, row, text, sched, posted, respondedAt, connected, live,
                   grants, announced, saves, failures>>

Next ==
    \/ \E r \in Reviews : SyncInsert(r)
    \/ \E r \in Reviews, x \in Texts \cup {NoText} : CreateReview(r, x)
    \/ \E r \in Reviews, x \in Texts \cup {NoText} : ImportReview(r, x)
    \/ \E S \in SUBSET Reviews : DeleteReviews(S)
    \/ \E q \in Requests, r \in Reviews, x \in Texts, at \in Times \cup {Null} :
          Respond(q, r, x, at)
    \/ \E q \in Requests : RespondPosted(q)
    \/ \E q \in Requests : RespondFailed(q)
    \/ \E S \in SUBSET Reviews, x \in Texts : BulkRespond(S, x)
    \/ \E t \in Ticks : Tick(t)
    \/ \E t \in Ticks : TickPosted(t)
    \/ \E t \in Ticks : TickFailed(t)
    \/ \E c \in Callers : PlatformAccepts(c)
    \/ \E p \in Platforms : SetConnection(p)
    \/ Pass
    \/ Restart

Spec == Init /\ [][Next]_vars
-----------------------------------------------------------------------------
(* Fairness: the interval timer keeps firing (jobs/scheduledReplyPoster.js,*)
(* startScheduledReplyPoster), an HTTP call settles, its continuation runs,*)
(* and time goes on.  Nobody is obliged to use a route.                    *)

Fairness ==
    /\ WF_vars(Pass)
    /\ \A t \in Ticks : WF_vars(Tick(t)) /\ WF_vars(TickPosted(t))
    /\ \A q \in Requests : WF_vars(RespondPosted(q))
    /\ \A c \in Callers : WF_vars(PlatformAccepts(c))

FairSpec == Spec /\ Fairness

-----------------------------------------------------------------------------
(* Properties.                                                             *)

\* The types, and: a review that has no row has no column either (no late
\* UPDATE brings one back).
TypeOK ==
    /\ now \in Times
    /\ row \in [Reviews -> {"absent", "present", "deleted"}]
    /\ text \in [Reviews -> Texts \cup {NoText}]
    /\ sched \in [Reviews -> Times \cup {Null}]
    /\ posted \in [Reviews -> BOOLEAN]
    /\ respondedAt \in [Reviews -> Times \cup {Null}]
    /\ connected \subseteq Platforms /\ postable \subseteq Platforms
    /\ call \in [Callers -> Dialling \cup {NoCall}]
    /\ queue \in [Ticks -> Seq(Snapshot)]
    /\ live \in [Reviews -> Texts \cup {NoText}]
    /\ grants \subseteq Grant
    /\ announced \in [Reviews -> Nat]
    /\ saves \in 0..MaxSaves /\ failures \in 0..MaxFailures /\ crashes \in 0..MaxCrashes
    /\ \A r \in Reviews : row[r] # "present" =>
          text[r] = NoText /\ sched[r] = Null /\ ~posted[r] /\ respondedAt[r] = Null

Granted(r, x) == \E g \in grants : g.review = r /\ g.text = x /\ g.at <= now

\* response_posted_at is only set on a review whose reply the platform shows:
\* no save, failure, crash or deletion between the dial and the answer lets
\* the dashboard claim a reply went out that never did.
PostedMeansLive == \A r \in Reviews : posted[r] => live[r] # NoText

\* The platform only ever shows a text the owner asked to publish on that
\* review, and never before the time asked for: not an imported or bulk
\* answer, not a scheduled reply ahead of its schedule, whatever a tick had
\* read before the row changed under it.
NeverBeforeItsTime ==
    \A r \in Reviews : live[r] # NoText => Granted(r, live[r])

\* What sits in the queue is what the owner queued: text and time in a
\* scheduled row were asked for together in one save.
QueuedAsAsked ==
    \A r \in Reviews : sched[r] # Null =>
        [review |-> r, text |-> text[r], at |-> sched[r]] \in grants

\* review.responded is announced at most once for a review, however first
\* answers, edits, bulk answers and late platform answers interleave.
AnnouncedOnce == \A r \in Reviews : announced[r] <= 1

\* responded_at is the time of the first answer and no later save moves it.
FirstResponseTimeFixed ==
    [][\A r \in Reviews : respondedAt[r] # Null /\ row'[r] = "present"
          => respondedAt'[r] = respondedAt[r]]_vars

\* Every due reply is dealt with: posted or taken out of the queue.  Ticks
\* that overlap, a lost tick and a full batch only delay it.
DueIsServed == \A r \in Reviews : Due(r) ~> ~Due(r)

\* The abstract specification (ReplyPromise): publish on request and in
\* time, show the badge after publishing.
Promise == INSTANCE ReplyPromise WITH clock <- now, badge <- posted
PromiseKept == Promise!Spec

-----------------------------------------------------------------------------
(* What a comment of the code says and the code does not do.                *)

\* db/schema.js:415-424: a reply with a schedule is picked up by the job.
QueueDrains == \A r \in Reviews : sched[r] # Null ~> sched[r] = Null
=============================================================================
