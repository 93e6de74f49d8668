----------------------------- MODULE RequestPromise -----------------------------
(***************************************************************************)
(* What a business promises the customers it asks for reviews: nobody is   *)
(* asked twice within the cooldown, a reminder comes no sooner than the    *)
(* owner set and once in the life of a request (but for requests that two  *)
(* overlapping runs read), and none comes to who has clicked, unless asked *)
(* again.  Mails, links, handlers, runs and what they await are left out:  *)
(* ReviewRequests is shown to implement this.                              *)
(***************************************************************************)
EXTENDS Integers

CONSTANTS Requests, Customers, Cooldown, FollowUpAfter

VARIABLES
    day,
    asked,     \* the requests on file: whom, and when
    gone,      \* requests that were deleted
    reminded,  \* reminders so far, of each request
    overlap,   \* requests that two runs at once have read
    quiet      \* requests whose customer wants no reminder

promise == <<day, asked, gone, reminded, overlap, quiet>>

OnFile == DOMAIN asked

Init ==
    /\ day = 0
    /\ asked = [r \in {} |-> 0]
    /\ gone = {}
    /\ reminded = [r \in Requests |-> 0]
    /\ overlap = {}
    /\ quiet = {}

Ask(r, c) ==
    /\ r \in Requests \ (OnFile \cup gone)
    /\ \A q \in OnFile : asked[q].customer = c => day - asked[q].at > Cooldown
    /\ asked' = [q \in OnFile \cup {r} |->
                    IF q = r THEN [customer |-> c, at |-> day] ELSE asked[q]]
    /\ UNCHANGED <<day, gone, reminded, overlap, quiet>>

\* The owner asks the same customer once more.
AskAgain(r) ==
    /\ r \in OnFile
    /\ quiet' = quiet \ {r}
    /\ UNCHANGED <<day, asked, gone, reminded, overlap>>

\* A request deleted while a run goes on may still be reminded of.
Remind(r) ==
    /\ r \in OnFile \cup gone
    /\ r \notin quiet
    /\ r \in OnFile => day - asked[r].at >= FollowUpAfter
    /\ overlap \subseteq overlap' /\ overlap' \subseteq OnFile \cup overlap
    /\ \A q \in overlap' \ overlap : reminded[q] = 0
    /\ reminded[r] = 0 \/ r \in overlap'
    /\ reminded' = [reminded EXCEPT ![r] = @ + 1]
    /\ UNCHANGED <<day, asked, gone, quiet>>

Quieten(r) ==
    /\ r \in OnFile
    /\ quiet' = quiet \cup {r}
    /\ UNCHANGED <<day, asked, gone, reminded, overlap>>

Remove(r) ==
    /\ r \in OnFile
    /\ asked' = [q \in OnFile \ {r} |-> asked[q]]
    /\ gone' = gone \cup {r}
    /\ UNCHANGED <<day, reminded, overlap, quiet>>

Pass ==
    /\ day' = day + 1
    /\ UNCHANGED <<asked, gone, reminded, overlap, quiet>>

Next ==
    \/ \E r \in Requests :
        \/ \E c \in Customers : Ask(r, c)
        \/ AskAgain(r) \/ Remind(r) \/ Quieten(r) \/ Remove(r)
    \/ Pass

Spec == Init /\ [][Next]_promise
=============================================================================
