---------------------------- MODULE ReviewRequests ----------------------------
(***************************************************************************)
(* Review requests of one business: the mails that ask a customer for a    *)
(* review (routes/reviewRequests.js) and the job that follows up once on   *)
(* those nobody clicked (jobs/followUpRequests.js).                        *)
(*                                                                         *)
(* Every handler and every round of the job changes the table first and    *)
(* then awaits the mail.  The job reads its candidates once, before a loop *)
(* of such awaits, and its timer has no running flag: rows are clicked,    *)
(* resent and deleted under it, by customers, by the owner and by a second *)
(* run of the job.                                                         *)
(***************************************************************************)
EXTENDS Integers, FiniteSets

CONSTANTS
    Requests,    \* ids of review_requests; AUTOINCREMENT, so never reused
    Customers,   \* address and platform together: what the cooldown is about
    Handlers,    \* HTTP requests that may await a mail at the same time
    Runs,        \* runs of the follow-up job that may overlap
    Null,        \* no request
    Cooldown,    \* the 24 hours between two requests to a customer
    FollowUpAfter,   \* users.follow_up_after_days
    MaxAge,      \* MAX_AGE_DAYS of the job
    MaxDay,      \* bound: the calendar stops here
    MaxResends,  \* bound: resends of the owner
    MaxFaults    \* bound: mails that fail and crashes

ASSUME RequestAssumption ==
    /\ Handlers \cap Runs = {}
    /\ Null \notin Requests
    /\ Cooldown \in Nat /\ FollowUpAfter \in Nat \ {0} /\ MaxAge \in Nat
    /\ MaxDay \in Nat /\ MaxResends \in Nat /\ MaxFaults \in Nat

VARIABLES
    day,        \* datetime('now')
    enabled,    \* the owner wants follow-ups and has a plan with them
    rows,       \* review_requests, for the ids inserted and not deleted
    gone,       \* ids deleted
    call,       \* the mail each handler or run awaits
    todo,       \* what is left of the rows a run read
    resends,    \* requests of the owner to resend
    followUps,  \* HISTORY: follow-up mails a run turned to, per request
    shared,     \* HISTORY: requests two overlapping runs read
    quiet,      \* HISTORY: requests clicked while no run held them
    faults

vars == <<day, enabled, rows, gone, call, todo, resends,
          followUps, shared, quiet, faults>>

Days == 0..MaxDay
Senders == Handlers \cup Runs

\* One row.  "link" numbers the tokens the row has had, the last one being
\* the token_hash stored; "held" says that the mail with that one arrived.
Row == [customer : Customers, created : Days, sent : Days, clicked : BOOLEAN,
        followedUp : BOOLEAN, link : Nat, held : BOOLEAN]

Mail == [request : Requests, link : Nat]
NoMail == [request |-> Null]

Live == DOMAIN rows
With(id, row) == [r \in Live \cup {id} |-> IF r = id THEN row ELSE rows[r]]

Init ==
    /\ day = 0
    /\ enabled \in BOOLEAN
    /\ rows = [r \in {} |-> 0]
    /\ gone = {}
    /\ call = [s \in Senders |-> NoMail]
    /\ todo = [w \in Runs |-> {}]
    /\ resends = 0
    /\ followUps = [r \in Requests |-> 0]
    /\ shared = {}
    /\ quiet = {}
    /\ faults = 0

-----------------------------------------------------------------------------
(* The owner: routes/reviewRequests.js.                                    *)

\* Mutant: the last day of the cooldown does not count.
NotQuiteRecent(c) ==
    \E r \in Live : rows[r].customer = c /\ rows[r].sent > day - Cooldown

\* The cooldown query.
Recent(c) ==
    \E r \in Live : rows[r].customer = c /\ rows[r].sent >= day - Cooldown

\* POST /: the cooldown, the row, the token, and then the mail.
Send(h, c) ==
    /\ call[h] = NoMail
    /\ ~Recent(c)
    /\ \E r \in Requests \ (Live \cup gone) :
        /\ rows' = With(r, [customer |-> c, created |-> day, sent |-> day,
                            clicked |-> FALSE, followedUp |-> FALSE,
                            link |-> 0, held |-> FALSE])
        /\ call' = [call EXCEPT ![h] = [request |-> r, link |-> 0]]
    /\ UNCHANGED <<day, enabled, gone, todo, resends, followUps, shared, quiet,
                   faults>>

\* POST /bulk does the same for one line of the file after the other, with
\* an await after each; a line within the cooldown is skipped.
BulkLine(h, c) == Send(h, c)

\* A new token is stored: the link in the mails sent so far is dead.
Renew(row) == [row EXCEPT !.link = @ + 1, !.held = FALSE]

\* Mutant: a new token is stored and the mail carries the one it replaced.
ResendOldLink(h, r) ==
    /\ call[h] = NoMail
    /\ r \in Live
    /\ resends < MaxResends
    /\ resends' = resends + 1
    /\ rows' = [rows EXCEPT ![r] = [Renew(@) EXCEPT !.sent = day,
                                                       !.clicked = FALSE]]
    /\ call' = [call EXCEPT ![h] = [request |-> r, link |-> rows[r].link]]
    /\ quiet' = quiet \ {r}
    /\ UNCHANGED <<day, enabled, gone, todo, followUps, shared, faults>>

\* POST /:id/resend: no cooldown; the click is forgotten, follow_up_sent_at
\* is not.
Resend(h, r) ==
    /\ call[h] = NoMail
    /\ r \in Live
    /\ resends < MaxResends
    /\ resends' = resends + 1
    /\ rows' = [rows EXCEPT ![r] = [Renew(@) EXCEPT !.sent = day,
                                                       !.clicked = FALSE]]
    /\ call' = [call EXCEPT ![h] = [request |-> r, link |-> rows[r].link + 1]]
    /\ quiet' = quiet \ {r}
    /\ UNCHANGED <<day, enabled, gone, todo, followUps, shared, faults>>

\* DELETE /:id.
Delete(r) ==
    /\ r \in Live
    /\ rows' = [q \in Live \ {r} |-> rows[q]]
    /\ gone' = gone \cup {r}
    /\ UNCHANGED <<day, enabled, call, todo, resends, followUps, shared, quiet,
                   faults>>

\* The setting follow_up_after_days, or the plan, changes.
Toggle ==
    /\ enabled' = ~enabled
    /\ UNCHANGED <<day, rows, gone, call, todo, resends, followUps, shared,
                   quiet, faults>>

-----------------------------------------------------------------------------
(* The customer: GET /track/:token.                                        *)

Unread == {r \in Requests : \A w \in Runs : r \notin todo[w]}

\* A click on the link of the latest token; older ones are not found.
Click(r) ==
    /\ r \in Live
    /\ rows[r].held
    /\ rows' = [rows EXCEPT ![r].clicked = TRUE]
    /\ quiet' = IF r \in Unread THEN quiet \cup {r} ELSE quiet
    /\ UNCHANGED <<day, enabled, gone, call, todo, resends, followUps, shared,
                   faults>>

-----------------------------------------------------------------------------
(* The job: jobs/followUpRequests.js.                                      *)

\* Mutant: clicks are not looked at.
DueClickedOrNot(r) ==
    /\ ~rows[r].followedUp
    /\ day - rows[r].sent \in FollowUpAfter..MaxAge

\* The query of the job.
Due(r) ==
    /\ ~rows[r].clicked
    /\ ~rows[r].followedUp
    /\ day - rows[r].sent \in FollowUpAfter..MaxAge

\* Mutant: the mark is left to the end of the run.
Unmarked(row) == Renew(row)

\* The update before the mail: a new token and follow_up_sent_at.
Marked(row) == [Renew(row) EXCEPT !.followedUp = TRUE]

\* Mutant: an upsert instead of the update.
FollowUpUpsert(w, table, rest) ==
    \E r \in rest :
        /\ rows' = IF r \in DOMAIN table THEN [table EXCEPT ![r] = Marked(@)]
                   ELSE [q \in DOMAIN table \cup {r} |->
                            IF q = r THEN [customer |-> CHOOSE c \in Customers : TRUE,
                                           created |-> day, sent |-> day,
                                           clicked |-> FALSE, followedUp |-> TRUE,
                                           link |-> 0, held |-> FALSE]
                            ELSE table[q]]
        /\ call' = [call EXCEPT ![w] =
                        [request |-> r,
                         link |-> IF r \in DOMAIN table THEN table[r].link + 1
                                  ELSE 0]]
        /\ todo' = [todo EXCEPT ![w] = rest \ {r}]
        /\ followUps' = [followUps EXCEPT ![r] = @ + 1]

\* One round of the loop: the row is not looked at again.  If it was deleted,
\* the update finds nothing and the mail goes out with a link nobody knows.
FollowUp(w, table, rest) ==
    \E r \in rest :
        /\ rows' = IF r \in DOMAIN table THEN [table EXCEPT ![r] = Marked(@)]
                   ELSE table
        /\ call' = [call EXCEPT ![w] =
                        [request |-> r,
                         link |-> IF r \in DOMAIN table THEN table[r].link + 1
                                  ELSE 0]]
        /\ todo' = [todo EXCEPT ![w] = rest \ {r}]
        /\ followUps' = [followUps EXCEPT ![r] = @ + 1]

\* A tick: read the candidates, and turn to the first.
Begin(w) ==
    LET pending == {r \in Live : Due(r)} IN
    /\ call[w] = NoMail
    /\ enabled
    /\ FollowUp(w, rows, pending)
    /\ shared' = shared \cup (pending \ Unread)
    /\ UNCHANGED <<day, enabled, gone, resends, quiet, faults>>

-----------------------------------------------------------------------------
(* The mail server answers.                                                *)

\* Back from the await: a run goes on to its next row, a handler is done.
GoOn(s, table) ==
    \/ /\ s \in Runs /\ todo[s] # {}
       /\ FollowUp(s, table, todo[s])
    \/ /\ ~(s \in Runs /\ todo[s] # {})
       /\ rows' = table
       /\ call' = [call EXCEPT ![s] = NoMail]
       /\ UNCHANGED <<todo, followUps>>

\* The rows once the mails of some senders have reached their customers.  A
\* link that is no longer the one stored is of no use.
Reached(senders) ==
    [r \in Live |-> [rows[r] EXCEPT !.held = @ \/
        \E s \in senders : call[s] = [request |-> r, link |-> rows[r].link]]]

MailArrives(s) ==
    /\ call[s] # NoMail
    /\ GoOn(s, Reached({s}))
    /\ UNCHANGED <<day, enabled, gone, resends, shared, quiet, faults>>

\* The call for the mail fails, though the mail may have left: caught and
\* reported, the row stays as it is.
MailFails(s) ==
    /\ call[s] # NoMail
    /\ faults < MaxFaults
    /\ faults' = faults + 1
    /\ \E left \in SUBSET {s} : GoOn(s, Reached(left))
    /\ UNCHANGED <<day, enabled, gone, resends, shared, quiet>>

-----------------------------------------------------------------------------
(* What happens around the handlers.                                       *)

\* The process dies; of the mails it was sending any may have left.
Crash ==
    /\ \E s \in Senders : call[s] # NoMail
    /\ faults < MaxFaults
    /\ faults' = faults + 1
    /\ \E left \in SUBSET {s \in Senders : call[s] # NoMail} : rows' = Reached(left)
    /\ call' = [s \in Senders |-> NoMail]
    /\ todo' = [w \in Runs |-> {}]
    /\ UNCHANGED <<day, enabled, gone, resends, followUps, shared, quiet>>

Pass ==
    /\ day < MaxDay
    /\ day' = day + 1
    /\ UNCHANGED <<enabled, rows, gone, call, todo, resends, followUps, shared,
                   quiet, faults>>

Next ==
    \/ \E h \in Handlers, c \in Customers : Send(h, c)
    \/ \E h \in Handlers, c \in Customers : BulkLine(h, c)
    \/ \E h \in Handlers, r \in Requests : Resend(h, r)
    \/ \E r \in Requests : Delete(r)
    \/ \E r \in Requests : Click(r)
    \/ \E w \in Runs : Begin(w)
    \/ \E s \in Senders : MailArrives(s)
    \/ \E s \in Senders : MailFails(s)
    \/ Toggle
    \/ Crash
    \/ Pass

Spec == Init /\ [][Next]_vars

-----------------------------------------------------------------------------
(* Properties.                                                             *)

\* Types; no update after an await brings a deleted request back, and a run
\* that awaits no mail has nothing left to do.
TypeOK ==
    /\ day \in Days
    /\ enabled \in BOOLEAN
    /\ Live \subseteq Requests
    /\ rows \in [Live -> Row]
    /\ gone \subseteq Requests \ Live
    /\ call \in [Senders -> Mail \cup {NoMail}]
    /\ todo \in [Runs -> SUBSET (Live \cup gone)]
    /\ \A w \in Runs : call[w] = NoMail => todo[w] = {}
    /\ resends \in Nat
    /\ followUps \in [Requests -> Nat]
    /\ shared \subseteq Requests
    /\ quiet \subseteq Live \cup gone
    /\ faults \in Nat

\* The requests on file to one customer were made more than 24 hours apart,
\* whatever was sent, resent and imported at the same time.
CooldownHolds ==
    \A p, q \in Live :
        p # q /\ rows[p].customer = rows[q].customer
            => \/ rows[p].created - rows[q].created > Cooldown
               \/ rows[q].created - rows[p].created > Cooldown

\* A request is followed up at most once in its life, resends, mail failures
\* and restarts included, unless two overlapping runs both read it.
OnceUnlessOverlap ==
    \A r \in Requests : followUps[r] > 1 => r \in shared

\* Nobody is followed up who clicked before the run read the table, until
\* the owner asks again.
QuietAfterClick ==
    [][\A r \in quiet : followUps'[r] = followUps[r]]_vars

\* The customer of every request on file has a link that works, or is about
\* to get it, as long as no mail has failed: no resend and no run, however
\* they overlap, leaves a token nobody was sent.
LinkInHand ==
    faults = 0 =>
        \A r \in Live :
            \/ rows[r].held
            \/ \E s \in Senders : call[s] = [request |-> r, link |-> rows[r].link]

\* The request model keeps the promise: each change of the table, however
\* handlers, runs, mails and crashes interleave, is one that RequestPromise
\* allows.
Promise == INSTANCE RequestPromise WITH
    asked <- [r \in Live |-> [customer |-> rows[r].customer,
                              at |-> rows[r].created]],
    reminded <- followUps,
    overlap <- shared

PromiseKept == Promise!Spec
=============================================================================
