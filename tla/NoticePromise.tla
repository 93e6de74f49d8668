----------------------------- MODULE NoticePromise -----------------------------
(***************************************************************************)
(* What the poller promises the owner of a business about new reviews:     *)
(* messages become due together, only for reviews that no such message has *)
(* gone out about (unless the review was deleted since); a due message     *)
(* goes out once; and one that does not go out failed by a fault.  Ticks,  *)
(* fetches, links, rounds and their order are left out: PlacesPoller is    *)
(* shown to implement this.                                                *)
(***************************************************************************)
EXTENDS Integers

CONSTANTS Reviews, Messages   \* a message is a tuple that begins with its review

VARIABLES
    due,     \* messages about to be sent
    out,     \* messages that have gone out
    failed,  \* messages that a fault may have cost
    gone,    \* reviews that were deleted
    faults   \* faults so far

promise == <<due, out, failed, gone, faults>>

Init == due = {} /\ out = {} /\ failed = {} /\ gone = {} /\ faults = 0

\* Messages of which none has gone out, but about deleted reviews.
Fresh(S) == \A m \in S \cap out : m[1] \in gone

Announce ==
    /\ due = {}
    /\ due' \subseteq Messages /\ Fresh(due')
    /\ UNCHANGED <<out, failed, gone, faults>>

Deliver(m) ==
    /\ Fresh({m})
    /\ due' = due \ {m}
    /\ out' = out \cup {m}
    /\ UNCHANGED <<failed, gone, faults>>

\* A fault costs at most the one message that is being sent.
Fail(S) ==
    /\ faults' = faults + 1
    /\ due' = due \ S
    /\ failed' = failed \cup S
    /\ UNCHANGED <<out, gone>>

\* A crash costs all that is due; the message on its way may have left.
Crash(S) ==
    /\ faults' = faults + 1
    /\ Fresh(S)
    /\ due' = {}
    /\ out' = out \cup S
    /\ failed' = failed \cup due
    /\ UNCHANGED gone

Forget ==
    /\ gone \subseteq gone' /\ gone' \subseteq Reviews
    /\ UNCHANGED <<due, out, failed, faults>>

AtMostOneDue == {{}} \cup {{m} : m \in due}

Next ==
    \/ Announce
    \/ \E m \in due : Deliver(m)
    \/ \E S \in AtMostOneDue : Fail(S) \/ Crash(S)
    \/ Forget

Spec == Init /\ [][Next]_promise
=============================================================================
