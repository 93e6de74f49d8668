---------------------------- MODULE ReviewIngestion ----------------------------
(***************************************************************************)
(* How the reviews of one location get from a platform into the reviews    *)
(* table: syncOne (jobs/syncReviews.js) over fetchReviews of the Google    *)
(* provider, run by the scheduler's tick and by the manual-sync requests   *)
(* of routes/platforms.js at the same time, for a connection the owner can *)
(* remove and set up again (routes/businesses.js).                         *)
(*                                                                         *)
(* A sync reads the connection row, awaits the platform, and then inserts  *)
(* and moves last_synced_at in one transaction.  last_synced_at is the     *)
(* lower bound of the next fetch, so a review below it that is not in the  *)
(* table never arrives.                                                    *)
(***************************************************************************)
EXTENDS Integers, FiniteSets

CONSTANTS
    Reviews,         \* reviews that may be written at the platform
    Workers,         \* the scheduler's tick and manual-sync requests
    tick,            \* the scheduler's tick
    PageSize,        \* reviews in a fetched page (50 in the code)
    MaxClock,        \* bound: seconds
    MaxConnections,  \* bound: times the connection is set up
    MaxFaults        \* bound: failed fetches, failed transactions, crashes

ASSUME IngestionAssumption ==
    /\ IsFiniteSet(Reviews)
    /\ tick \in Workers
    /\ PageSize \in Nat
    /\ MaxClock \in Nat /\ MaxConnections \in Nat /\ MaxFaults \in Nat

VARIABLES
    clock,       \* seconds, from 1
    created,     \* EXTERNAL: when each review was written, 0: not yet
    placesOnly,  \* no OAuth credentials: Google is left to the places poller
    conn,        \* platform_connections.id of the connection, 0: none
    lastId,      \* the last id given to a connection
    since,       \* platform_connections.last_synced_at, 0: NULL
    rows,        \* reviews in the table
    deleted,     \* HISTORY: reviews the owner has deleted
    job,         \* where each worker is
    late,        \* HISTORY: reviews written while an answer was on its way
    skipped,     \* HISTORY: reviews a sync without credentials passed over
    failed,      \* HISTORY: reviews a failed fetch passed over
    faults

vars == <<clock, created, placesOnly, conn, lastId, since, rows, deleted, job,
          late, skipped, failed, faults>>

Idle == [phase |-> "idle", conn |-> 0, since |-> 0, got |-> {}]

Init ==
    /\ clock = 1
    /\ created = [r \in Reviews |-> 0]
    /\ placesOnly \in BOOLEAN
    /\ conn = 0
    /\ lastId = 0
    /\ since = 0
    /\ rows = {}
    /\ deleted = {}
    /\ job = [w \in Workers |-> Idle]
    /\ late = {}
    /\ skipped = {}
    /\ failed = {}
    /\ faults = 0

-----------------------------------------------------------------------------
(* The platform.                                                           *)

Published == {r \in Reviews : created[r] > 0}

\* A review that PageSize newer ones push off the first page.
Crowded(r) == Cardinality({q \in Reviews : created[q] > created[r]}) >= PageSize

FirstPage == {r \in Published : ~Crowded(r)}

\* An answer of this connection is on its way to the server.
AnswerOnItsWay == \E w \in Workers : job[w].phase = "answered" /\ job[w].conn = conn

Write(r) ==
    /\ created[r] = 0
    /\ \A q \in Reviews : created[q] # clock
    /\ created' = [created EXCEPT ![r] = clock]
    /\ late' = IF AnswerOnItsWay THEN late \cup {r} ELSE late
    /\ UNCHANGED <<clock, placesOnly, conn, lastId, since, rows, deleted, job,
                   skipped, failed, faults>>

Pass ==
    /\ clock < MaxClock
    /\ clock' = clock + 1
    /\ UNCHANGED <<created, placesOnly, conn, lastId, since, rows, deleted, job,
                   late, skipped, failed, faults>>

-----------------------------------------------------------------------------
(* The owner.                                                              *)

\* PUT /businesses sets or clears the platform id: a new row with no
\* last_synced_at, or no row.
Connect ==
    /\ conn = 0
    /\ lastId < MaxConnections
    /\ lastId' = lastId + 1
    /\ conn' = lastId + 1
    /\ since' = 0
    /\ late' = {} /\ skipped' = {} /\ failed' = {}
    /\ UNCHANGED <<clock, created, placesOnly, rows, deleted, job, faults>>

Disconnect ==
    /\ conn # 0
    /\ conn' = 0
    /\ since' = 0
    /\ UNCHANGED <<clock, created, placesOnly, lastId, rows, deleted, job, late,
                   skipped, failed, faults>>

Delete(r) ==
    /\ r \in rows
    /\ rows' = rows \ {r}
    /\ deleted' = deleted \cup {r}
    /\ UNCHANGED <<clock, created, placesOnly, conn, lastId, since, job, late,
                   skipped, failed, faults>>

-----------------------------------------------------------------------------
(* syncOne.                                                                *)

\* The filter of fetchReviews is created_at > since, but datetime('now') drops
\* the fraction of the second and createTime keeps it.
Newer(r, s) == created[r] >= s

\* Mutant: UPDATE ... WHERE business_id = ? AND provider = ?, which matches the
\* row that is there now, the worker's or one created since.
AnyRow(w) == conn # 0

\* UPDATE ... WHERE id = ?, with the id read before the await.
OwnRow(w) == job[w].conn = conn

\* Mutant: datetime('now', 'localtime'), ahead of the platform's UTC.
StampLocalTime(w) == since' = IF OwnRow(w) THEN clock + 1 ELSE since

\* last_synced_at = datetime('now') on the worker's row.
StampSince(w) == since' = IF OwnRow(w) THEN clock ELSE since

\* Mutant: the running flag is not taken back.
KeepRunning(w) ==
    job' = [job EXCEPT ![w] = IF w = tick THEN [@ EXCEPT !.phase = "idle"] ELSE Idle]

Finish(w) == job' = [job EXCEPT ![w] = Idle]

\* No connection, nothing to sync.
NotFound(w) == job[w] = Idle /\ conn = 0 /\ UNCHANGED vars

\* Read the connection row and send the request.
Begin(w) ==
    /\ job[w] = Idle
    /\ conn # 0
    /\ ~placesOnly
    /\ job' = [job EXCEPT ![w] = [phase |-> "fetching", conn |-> conn,
                                  since |-> since, got |-> {}]]
    /\ UNCHANGED <<clock, created, placesOnly, conn, lastId, since, rows, deleted,
                   late, skipped, failed, faults>>

\* Reviews that a sync which moves last_synced_at without a fetch leaves behind.
PassedOver(w) == IF OwnRow(w) THEN Published \ rows ELSE {}

\* No OAuth credentials: last_synced_at moves, nothing is fetched.
ShortCircuit(w) ==
    /\ job[w] = Idle
    /\ conn # 0
    /\ placesOnly
    /\ since' = clock
    /\ skipped' = skipped \cup (Published \ rows)
    /\ UNCHANGED <<clock, created, placesOnly, conn, lastId, rows, deleted, job,
                   late, failed, faults>>

\* The platform reads its reviews; the filter is applied on arrival, to the
\* `since` read at the start.
Answer(w) ==
    /\ job[w].phase = "fetching"
    /\ job' = [job EXCEPT ![w] = [phase |-> "answered", conn |-> job[w].conn,
                  since |-> job[w].since,
                  got |-> {r \in FirstPage : Newer(r, job[w].since)}]]
    /\ UNCHANGED <<clock, created, placesOnly, conn, lastId, since, rows, deleted,
                   late, skipped, failed, faults>>

\* The loop skips the reviews it knows.
New(got) == got \ rows

\* The transaction.
Commit(w) ==
    /\ job[w].phase = "answered"
    /\ rows' = rows \cup New(job[w].got)
    /\ StampSince(w)
    /\ Finish(w)
    /\ UNCHANGED <<clock, created, placesOnly, conn, lastId, deleted, late,
                   skipped, failed, faults>>

Fault == faults < MaxFaults /\ faults' = faults + 1

\* fetchReviews throws: the error path stores the error and moves
\* last_synced_at as well.
FetchFails(w) ==
    /\ Fault
    /\ job[w].phase \in {"fetching", "answered"}
    /\ StampSince(w)
    /\ failed' = failed \cup PassedOver(w)
    /\ Finish(w)
    /\ UNCHANGED <<clock, created, placesOnly, conn, lastId, rows, deleted, late,
                   skipped>>

\* The transaction throws: nothing changes.
CommitFails(w) ==
    /\ Fault
    /\ job[w].phase = "answered"
    /\ Finish(w)
    /\ UNCHANGED <<clock, created, placesOnly, conn, lastId, since, rows, deleted,
                   late, skipped, failed>>

\* The process restarts, with or without OAuth credentials.
Restart ==
    /\ Fault
    /\ placesOnly' \in BOOLEAN
    /\ job' = [w \in Workers |-> Idle]
    /\ UNCHANGED <<clock, created, conn, lastId, since, rows, deleted, late, skipped, failed>>

Next ==
    \/ \E r \in Reviews : Write(r)
    \/ Pass
    \/ Connect
    \/ Disconnect
    \/ \E r \in Reviews : Delete(r)
    \/ \E w \in Workers : NotFound(w)
    \/ \E w \in Workers : Begin(w)
    \/ \E w \in Workers : ShortCircuit(w)
    \/ \E w \in Workers : Answer(w)
    \/ \E w \in Workers : Commit(w)
    \/ \E w \in Workers : FetchFails(w)
    \/ \E w \in Workers : CommitFails(w)
    \/ Restart

Spec == Init /\ [][Next]_vars

\* The scheduler's interval fires again and again, and its awaits end.
Fairness ==
    /\ WF_vars(Begin(tick))
    /\ WF_vars(Answer(tick))
    /\ WF_vars(Commit(tick))

FairSpec == Spec /\ Fairness

-----------------------------------------------------------------------------
(* Properties.                                                             *)

Job == [phase : {"idle", "fetching", "answered"}, conn : Nat, since : Nat,
        got : SUBSET Reviews]

\* Types; nothing is dated in the future, and without a connection there is
\* no lower bound to fetch from.
TypeOK ==
    /\ clock \in Nat \ {0}
    /\ created \in [Reviews -> Nat] /\ \A r \in Reviews : created[r] <= clock
    /\ placesOnly \in BOOLEAN
    /\ conn \in {0, lastId} /\ lastId \in Nat
    /\ since \in 0..clock
    /\ conn = 0 => since = 0
    /\ rows \subseteq Published
    /\ deleted \subseteq Published
    /\ job \in [Workers -> Job]
    /\ late \subseteq Published
    /\ skipped \subseteq Published
    /\ failed \subseteq Published
    /\ faults \in 0..MaxFaults

Seen(r) == r \in rows \cup deleted

\* The ways a review is known to be left behind: written between the answer
\* and the stamp, passed over by a stamp without a fetch or after a failed
\* one, or off the page.
LeftBehind(r) == r \in late \cup skipped \cup failed \/ Crowded(r)

\* last_synced_at means what its name says, whatever syncs overlap and however
\* the connection came and went: a review older than it is in the table, but
\* for the known ways of being left behind.
NothingElseSkipped ==
    \A r \in Published : created[r] < since => Seen(r) \/ LeftBehind(r)

\* Overlapping syncs, each cut by its await, keep IngestPromise, in which a
\* sync is one step: late commits, removed connections and failures included.
Promise == INSTANCE IngestPromise WITH
    connected <- conn # 0,
    crowded <- {r \in Published : Crowded(r)}

PromiseKept == Promise!Spec

\* While there is a connection the tick can use, every review arrives in the
\* end, but for the known ways of being left behind.
EveryReviewArrives ==
    \A r \in Reviews :
        <>[](r \in Published /\ conn # 0 /\ ~placesOnly => Seen(r) \/ LeftBehind(r))

-----------------------------------------------------------------------------
(* What comments of the code say and the code does not do.                 *)

\* jobs/syncReviews.js:16-17: either all new reviews land and last_synced_at
\* advances, or nothing changes; lib/providers/base.js:30-31: after a failure
\* the connection is retried.  So a failure alone leaves nothing behind.
FailureIsRetried ==
    \A r \in Published :
        created[r] < since => Seen(r) \/ r \in late \cup skipped \/ Crowded(r)
=============================================================================
