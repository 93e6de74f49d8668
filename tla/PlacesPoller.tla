----------------------------- MODULE PlacesPoller -----------------------------
(***************************************************************************)
(* jobs/placesPoller.js: a tick walks the businesses that have a Google    *)
(* place one by one, fetches the newest reviews of each from the Places    *)
(* API, inserts those it does not know, and tells the owner about each of  *)
(* them by mail, Telegram and LINE, one await after the other.  The chats  *)
(* are those of ChatLinks; whom to tell is read before the fetch.          *)
(*                                                                         *)
(* A running flag keeps ticks apart.  Whoever is told once is not told     *)
(* again: a crash between the insert and the messages loses them.          *)
(***************************************************************************)
EXTENDS ChatLinks, FiniteSets

CONSTANTS
    Businesses,
    OwnerOf,     \* businesses.user_id
    Reviews,
    PlaceOf,     \* the business whose Google place a review is about
    PageSize,    \* reviews in an answer of the Places API (5)
    MaxFaults    \* bound: failed fetches, failed messages and crashes

ASSUME PollerAssumption ==
    /\ OwnerOf \in [Businesses -> Users]
    /\ PlaceOf \in [Reviews -> Businesses]
    /\ None \notin Businesses /\ None \notin Reviews
    /\ PageSize \in Nat /\ MaxFaults \in Nat

VARIABLES
    open,      \* businesses that exist
    placed,    \* those with a google_place_id
    mailOn,    \* users with notif_new_review
    page,      \* EXTERNAL: the reviews Google answers with, all places
    rows,      \* reviews in the table
    running,   \* _running
    poll,      \* where the tick is
    faults,
    told,      \* HISTORY: messages that have gone out
    twice,     \* HISTORY: messages that went out again
    removed,   \* HISTORY: reviews whose row has been deleted
    owed,      \* HISTORY: messages the inserted reviews call for
    lost       \* HISTORY: messages that failed or that a crash cut off

pollVars == <<open, placed, mailOn, page, rows, running, poll, faults, told, twice,
              removed, owed, lost>>
vars == <<linkVars, pollVars>>

Stops == {"draft", "mail"} \cup Kinds
Messages == Reviews \X (Stops \ {"draft"}) \X (Chats \cup {None})

NoPoll == [stage |-> "idle", at |-> None, left |-> {}, mail |-> FALSE,
           chat |-> [k \in Kinds |-> None], of |-> None, todo |-> {}, stops |-> {}]

Init ==
    /\ LinkInit
    /\ open = Businesses /\ placed = Businesses
    /\ mailOn = Users
    /\ page \in {p \in SUBSET Reviews : \A b \in Businesses :
                    Cardinality({r \in p : PlaceOf[r] = b}) <= PageSize}
    /\ rows = {}
    /\ running = FALSE /\ poll = NoPoll
    /\ faults = 0
    /\ told = {} /\ twice = {} /\ removed = {} /\ owed = {} /\ lost = {}

-----------------------------------------------------------------------------
(* Google and the owners.                                                  *)

PageOf(b) == {r \in page : PlaceOf[r] = b}

\* A review is written; older ones may drop off the page.
Appear(r) ==
    /\ Change
    /\ r \notin page
    /\ page' \in {p \in SUBSET (page \cup {r}) :
                    /\ r \in p
                    /\ Cardinality({q \in p : PlaceOf[q] = PlaceOf[r]}) <= PageSize
                    /\ \A q \in page \ p : PlaceOf[q] = PlaceOf[r]}
    /\ UNCHANGED <<bots, accounts, link, issued, hushed, doubled, dead, open, placed,
                   mailOn, rows, running, poll, faults, told, twice, removed, owed, lost>>

\* PUT /businesses/:id sets or clears the place.
SetPlace(b) ==
    /\ Change
    /\ b \in open /\ OwnerOf[b] \in accounts
    /\ placed' = IF b \in placed THEN placed \ {b} ELSE placed \cup {b}
    /\ UNCHANGED <<bots, accounts, link, issued, hushed, doubled, dead, open, mailOn,
                   page, rows, running, poll, faults, told, twice, removed, owed, lost>>

\* PUT /auth/notifications and the unsubscribe link.
SetMail(u) ==
    /\ Change
    /\ u \in accounts
    /\ mailOn' = IF u \in mailOn THEN mailOn \ {u} ELSE mailOn \cup {u}
    /\ UNCHANGED <<bots, accounts, link, issued, hushed, doubled, dead, open, placed,
                   page, rows, running, poll, faults, told, twice, removed, owed, lost>>

\* DELETE /reviews/:id: nothing remembers the review.
DeleteReview(r) ==
    /\ Change
    /\ r \in rows /\ OwnerOf[PlaceOf[r]] \in accounts
    /\ rows' = rows \ {r}
    /\ removed' = removed \cup {r}
    /\ UNCHANGED <<bots, accounts, link, issued, hushed, doubled, dead, open, placed,
                   mailOn, page, running, poll, faults, told, twice, owed, lost>>

\* DELETE /auth/me takes one business along, if there is any; the others of
\* the account stay.
DeleteAccount(u) ==
    /\ DeleteLinks(u)
    /\ mailOn' = mailOn \ {u}
    /\ \E gone \in SUBSET {b \in open : OwnerOf[b] = u} :
        /\ Cardinality(gone) = IF \E b \in open : OwnerOf[b] = u THEN 1 ELSE 0
        /\ open' = open \ gone
        /\ placed' = placed \ gone
        /\ rows' = {r \in rows : PlaceOf[r] \notin gone}
        /\ removed' = removed \cup {r \in rows : PlaceOf[r] \in gone}
    /\ UNCHANGED <<page, running, poll, faults, told, twice, owed, lost>>

\* POST /gdpr/confirm-erasure deletes the row of the user and what refers to
\* it; businesses.user_id does not, so all businesses stay and are polled on.
Erase(u) ==
    /\ DeleteLinks(u)
    /\ mailOn' = mailOn \ {u}
    /\ UNCHANGED <<open, placed, page, rows, running, poll, faults, told, twice, removed,
                   owed, lost>>

-----------------------------------------------------------------------------
(* The walk over the businesses.                                           *)

\* Mutant: the flag is only taken back when nothing was thrown.
EndWhen(thrown) == poll' = NoPoll /\ running' = thrown

\* The end of the tick, by its last business or by an error: finally.
End(thrown) == poll' = NoPoll /\ running' = FALSE

\* pollOne reads the business, its owner and the owner's chats, and asks
\* Google.  A deleted owner leaves a business nobody is told about.
Start(b, left) ==
    /\ running' = TRUE
    /\ poll' = [stage |-> "fetching", at |-> b, left |-> left,
                mail |-> OwnerOf[b] \in accounts \cap mailOn,
                chat |-> [k \in Kinds |-> link[k][OwnerOf[b]].chat],
                of |-> None, todo |-> {}, stops |-> {}]

\* On to the next business of the list that still has a place.
GoOn(left) ==
    LET pollable == left \cap open \cap placed IN
    \/ \E b \in pollable, over \in SUBSET (left \ pollable) : Start(b, left \ (over \cup {b}))
    \/ pollable = {} /\ End(FALSE)

unchangedByPoll == <<linkVars, open, placed, mailOn, page, removed>>

Tick ==
    /\ ~running
    /\ GoOn(open \cap placed)
    /\ UNCHANGED <<unchangedByPoll, rows, faults, told, twice, owed, lost>>

\* The interval fires and finds the flag set.
SkipTick == running /\ UNCHANGED vars

Fault == faults < MaxFaults /\ faults' = faults + 1

\* fetchReviews throws: on with the next business.
FetchFails ==
    /\ Fault
    /\ poll.stage = "fetching"
    /\ GoOn(poll.left)
    /\ UNCHANGED <<unchangedByPoll, rows, told, twice, owed, lost>>

\* Mutant: the rows are not looked up.
Fetched(b) == PageOf(b)

New(b) == PageOf(b) \ rows

NothingNew ==
    /\ poll.stage = "fetching"
    /\ New(poll.at) = {}
    /\ GoOn(poll.left)
    /\ UNCHANGED <<unchangedByPoll, rows, faults, told, twice, owed, lost>>

\* Mutant: the table takes reviews of no business.
Takes(b) == TRUE

\* reviews.business_id refers to businesses.
Exists(b) == b \in open

\* The business was deleted during the fetch: the insert throws, outside the
\* try, and the whole tick ends.
InsertThrows ==
    /\ poll.stage = "fetching"
    /\ New(poll.at) # {} /\ ~Exists(poll.at)
    /\ End(TRUE)
    /\ UNCHANGED <<unchangedByPoll, rows, faults, told, twice, owed, lost>>

\* What has to be awaited for each review, in this order: the draft, the mail,
\* Telegram, LINE.
StopsOf(p) ==
    {"draft"} \cup (IF p.mail THEN {"mail"} ELSE {}) \cup {k \in bots : p.chat[k] # None}

Rank == [draft |-> 1, mail |-> 2, telegram |-> 3, line |-> 4]

Message(p, r, s) == <<r, s, IF s \in Kinds THEN p.chat[s] ELSE None>>

\* The first round for review r of those in `todo`.
Round(p, r, todo) ==
    poll' = [stage |-> "telling", at |-> p.at, left |-> p.left, mail |-> p.mail, chat |-> p.chat,
             of |-> r, todo |-> todo \ {r}, stops |-> StopsOf(p)]

\* The new reviews are inserted in one transaction.
Insert ==
    LET new == New(poll.at) IN
    /\ poll.stage = "fetching"
    /\ new # {} /\ Exists(poll.at)
    /\ rows' = rows \cup new
    /\ owed' = owed \cup {Message(poll, r, s) : r \in new, s \in StopsOf(poll) \ {"draft"}}
    /\ \E r \in new : Round(poll, r, new)
    /\ UNCHANGED <<unchangedByPoll, running, faults, told, twice, lost>>

-----------------------------------------------------------------------------
(* Telling the owner.                                                      *)

\* What is being awaited.
Stop == CHOOSE s \in poll.stops : \A t \in poll.stops : Rank[s] <= Rank[t]

Going == IF poll.stage = "telling" /\ Stop # "draft" THEN {Message(poll, poll.of, Stop)} ELSE {}

\* The next await: for this review, the next one, or the next business.
NextStop ==
    IF poll.stops # {Stop} THEN poll' = [poll EXCEPT !.stops = @ \ {Stop}] /\ UNCHANGED running
    ELSE IF poll.todo # {} THEN (\E r \in poll.todo : Round(poll, r, poll.todo)) /\ UNCHANGED running
    ELSE GoOn(poll.left)

\* Mutant: an error is not caught for each message but for the whole tick.
AfterFailureEnd == End(TRUE)

\* Each message has its own try: a failure goes on as success does.
AfterFailure == NextStop

Send(out) ==
    /\ told' = told \cup out
    /\ twice' = twice \cup (told \cap out)
    /\ owed' = owed \ out

Told ==
    /\ poll.stage = "telling"
    /\ Send(Going)
    /\ NextStop
    /\ UNCHANGED <<unchangedByPoll, rows, faults, lost>>

NotTold ==
    /\ Fault
    /\ poll.stage = "telling"
    /\ lost' = lost \cup Going
    /\ AfterFailure
    /\ UNCHANGED <<unchangedByPoll, rows, told, twice, owed>>

\* What the tick still has to say about the business it is at.
InHand ==
    IF poll.stage # "telling" THEN {}
    ELSE {Message(poll, poll.of, s) : s \in poll.stops \ {"draft"}}
         \cup {Message(poll, r, s) : r \in poll.todo, s \in StopsOf(poll) \ {"draft"}}

\* The process restarts; a message on its way may have left.
Crash ==
    /\ Fault
    /\ running
    /\ \E out \in SUBSET Going : Send(out)
    /\ lost' = lost \cup InHand
    /\ End(TRUE)
    /\ UNCHANGED <<unchangedByPoll, rows>>

Next ==
    \/ LinkNext /\ UNCHANGED pollVars
    \/ \E r \in Reviews : Appear(r)
    \/ \E b \in Businesses : SetPlace(b)
    \/ \E u \in Users : SetMail(u)
    \/ \E r \in Reviews : DeleteReview(r)
    \/ \E u \in Users : DeleteAccount(u)
    \/ \E u \in Users : Erase(u)
    \/ Tick
    \/ SkipTick
    \/ FetchFails
    \/ NothingNew
    \/ InsertThrows
    \/ Insert
    \/ Told
    \/ NotTold
    \/ Crash

Spec == Init /\ [][Next]_vars

\* The interval fires again and again; Google and the messengers answer.
Fairness ==
    /\ WF_vars(Tick)
    /\ WF_vars(NothingNew \/ InsertThrows \/ Insert)
    /\ WF_vars(Told)

FairSpec == Spec /\ Fairness

-----------------------------------------------------------------------------
(* Properties.                                                             *)

Poll == [stage : {"idle", "fetching", "telling"}, at : Businesses \cup {None},
         left : SUBSET Businesses, mail : BOOLEAN, chat : [Kinds -> Chats \cup {None}],
         of : Reviews \cup {None}, todo : SUBSET Reviews, stops : SUBSET Stops]

\* Types; the flag is set while a tick is under way, and no review stays
\* or comes back once its business was deleted.
TypeOK ==
    /\ LinkTypeOK
    /\ placed \subseteq open /\ open \subseteq Businesses
    /\ mailOn \subseteq accounts
    /\ page \subseteq Reviews
    /\ rows \subseteq {r \in Reviews : PlaceOf[r] \in open}
    /\ running \in BOOLEAN
    /\ poll # NoPoll => running
    /\ poll \in Poll
    /\ poll.stage = "idle" => poll = NoPoll
    /\ faults \in Nat
    /\ told \subseteq Messages /\ twice \subseteq Messages
    /\ removed \subseteq Reviews
    /\ owed \subseteq Messages /\ lost \subseteq Messages

\* Nobody is told twice about a review, whatever is polled again and wherever
\* the tick was cut off, unless its row was deleted in between.
AnnouncedOnce == \A m \in twice : m[1] \in removed

\* Every message that an inserted review calls for goes out, is in the tick's
\* hands, failed itself or was cut off by a crash: no other failing message,
\* draft or business costs it.
NothingForgotten == owed \subseteq InHand \cup lost

\* A code works once, and not after a newer one or an unlink in Settings.
DeadCodesStayDead ==
    \A k \in Kinds, u \in Users : link[k][u].code # 0 => <<k, u, link[k][u].code>> \notin dead

\* After an unlink at either end, an unfollow or the end of the account, no
\* poll that starts later tells this chat about this account's reviews until
\* it sends a new code; except a Telegram chat that was bound to several
\* accounts when it left.
QuietAfterUnlink ==
    [][\A b \in Businesses, k \in Kinds, c \in Chats \ doubled :
          /\ poll'.at = b /\ poll.at # b
          /\ <<OwnerOf[b], k, c>> \in hushed
          => poll'.chat[k] # c]_vars

\* A review that stays on the page of a business with a place gets into the
\* table, again if need be, whatever happens to the other businesses.
EveryReviewArrives ==
    \A r \in Reviews :
        <>[](r \in page /\ PlaceOf[r] \in open \cap placed) => []<>(r \in rows)

\* The abstract specification (NoticePromise): a message becomes due for a
\* review not yet told about, goes out once, and fails by a fault only.
Promise == INSTANCE NoticePromise WITH
    due <- InHand, out <- told, failed <- lost, gone <- removed
PromiseKept == Promise!Spec
=============================================================================
