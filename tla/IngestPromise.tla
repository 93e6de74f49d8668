----------------------------- MODULE IngestPromise -----------------------------
(***************************************************************************)
(* What ingestion promises about the reviews of a connected location, as   *)
(* if every sync were one step: last_synced_at only moves forward, to the  *)
(* present, and only past reviews that are in the table or on record as    *)
(* left behind; nothing leaves the table but by a deletion; nothing is     *)
(* stamped without a connection.  The fetch, its lower bound, workers and  *)
(* connection ids are left out: ReviewIngestion is shown to implement this. *)
(***************************************************************************)
EXTENDS Integers

CONSTANT Reviews

VARIABLES
    clock,
    created,     \* when each review was written, 0: not yet
    placesOnly,  \* there are no credentials to fetch with
    connected,
    since,       \* last_synced_at
    rows,        \* reviews in the table
    deleted,     \* reviews that were deleted from it
    crowded,     \* reviews newer ones have pushed off the page
    late,        \* reviews written while an answer was on its way
    skipped,     \* reviews passed over for want of credentials
    failed,      \* reviews passed over by a failed fetch
    faults

promise == <<clock, created, placesOnly, connected, since, rows, deleted, crowded, late,
             skipped, failed, faults>>

Init ==
    /\ clock = 1 /\ created = [r \in Reviews |-> 0]
    /\ placesOnly \in BOOLEAN /\ ~connected /\ since = 0
    /\ rows = {} /\ deleted = {} /\ crowded = {}
    /\ late = {} /\ skipped = {} /\ failed = {} /\ faults = 0

Published == {r \in Reviews : created[r] > 0}

Write(r) ==
    /\ r \notin Published
    /\ created' = [created EXCEPT ![r] = clock]
    /\ crowded \subseteq crowded' /\ crowded' \subseteq Published \cup {r}
    /\ late' \in {late, late \cup {r}}
    /\ UNCHANGED <<clock, placesOnly, connected, since, rows, deleted, skipped, failed, faults>>

Connect ==
    /\ ~connected /\ connected'
    /\ since' = 0 /\ late' = {} /\ skipped' = {} /\ failed' = {}
    /\ UNCHANGED <<clock, created, placesOnly, rows, deleted, crowded, faults>>

Disconnect ==
    /\ connected /\ ~connected'
    /\ since' = 0
    /\ UNCHANGED <<clock, created, placesOnly, rows, deleted, crowded, late, skipped, failed,
                   faults>>

Delete(r) ==
    /\ r \in rows
    /\ rows' = rows \ {r} /\ deleted' = deleted \cup {r}
    /\ UNCHANGED <<clock, created, placesOnly, connected, since, crowded, late, skipped, failed,
                   faults>>

Pass ==
    /\ clock' = clock + 1
    /\ UNCHANGED <<created, placesOnly, connected, since, rows, deleted, crowded, late, skipped,
                   failed, faults>>

-----------------------------------------------------------------------------
(* A sync.                                                                 *)

\* Reviews that a stamp of this second leaves behind without a record.
Dropped ==
    {r \in Published : created[r] < clock} \
        (rows' \cup deleted \cup crowded \cup late \cup skipped' \cup failed')

Stamp == connected /\ since' = clock /\ Dropped = {}

\* Reviews arrive, also for a connection that is gone meanwhile: it has no
\* stamp any more.
Land ==
    /\ rows \subseteq rows' /\ rows' \subseteq Published
    /\ Stamp \/ since' = since
    /\ UNCHANGED <<clock, created, placesOnly, connected, deleted, crowded, late, skipped, failed,
                   faults>>

PassOver ==
    /\ placesOnly
    /\ skipped' = skipped \cup (Published \ rows)
    /\ Stamp
    /\ UNCHANGED <<clock, created, placesOnly, connected, rows, deleted, crowded, late, failed,
                   faults>>

\* Of a failure, the stamp is all that can remain.
Fail ==
    /\ faults' = faults + 1
    /\ \/ failed' = failed \cup (Published \ rows) /\ Stamp
       \/ failed' = failed /\ since' = since
    /\ placesOnly' \in BOOLEAN
    /\ UNCHANGED <<clock, created, connected, rows, deleted, crowded, late, skipped>>

Next ==
    \/ \E r \in Reviews : Write(r) \/ Delete(r)
    \/ Connect \/ Disconnect \/ Pass
    \/ Land \/ PassOver \/ Fail

Spec == Init /\ [][Next]_promise
=============================================================================
