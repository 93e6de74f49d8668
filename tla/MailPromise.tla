------------------------------ MODULE MailPromise ------------------------------
(***************************************************************************)
(* What the jobs that mail on a timer promise about each mail: it is sent  *)
(* for only when it has not left too recently, its mark agrees with what   *)
(* became of it, only a fault costs it, and nobody is mailed who wants     *)
(* quiet.  The exceptions are mails of deleted accounts and audits, mails  *)
(* two overlapping runs went for, and mails that left although their run   *)
(* saw a failure.  Queries, loops, runs and settings are left out:         *)
(* MailJobs is shown to implement this.                                    *)
(***************************************************************************)
EXTENDS Integers

CONSTANTS
    Onboarding, Digests, Reminders,  \* the three kinds of mails
    DigestGap                        \* days between two digests of one user

VARIABLES
    day,
    faults,     \* failed mails and crashes so far
    mark,       \* the day each mail was marked as done
    last,       \* the day each mail last left
    awaited,    \* mails that are being sent
    forgotten,  \* mails of what was deleted
    shared,     \* mails that two runs went for
    unsure,     \* mails that left although their run saw a failure
    quiet       \* mails nobody may be sent

promise == <<day, faults, mark, last, awaited, forgotten, shared, unsure, quiet>>

Mails == Onboarding \cup Digests \cup Reminders
Never == -1

Init ==
    /\ day = 0 /\ faults = 0
    /\ mark = [m \in Mails |-> Never] /\ last = [m \in Mails |-> Never]
    /\ awaited = {} /\ forgotten = {} /\ shared = {} /\ unsure = {} /\ quiet = {}

-----------------------------------------------------------------------------
(* The life of one mail.                                                   *)

Fresh(m) == last[m] = Never \/ (m \in Digests /\ day - last[m] >= DigestGap)

Rest(m) ==
    /\ m \in awaited <=> m \in awaited'
    /\ last'[m] = last[m] /\ mark'[m] = mark[m]

\* A reminder is marked before it leaves, so that it is not tried again.
TakeUp(m) ==
    /\ m \notin awaited /\ m \in awaited'
    /\ Fresh(m) /\ last'[m] = last[m]
    /\ mark'[m] = IF m \in Reminders THEN day ELSE mark[m]

\* The others are marked when they have left.
Leave(m) ==
    /\ m \in awaited /\ m \notin awaited'
    /\ last'[m] = day
    /\ IF m \in Reminders \/ (m \in Onboarding /\ mark[m] # Never)
       THEN mark'[m] = mark[m] ELSE mark'[m] = day

\* A mail that was not marked is tried again.
Miss(m) ==
    /\ m \in awaited /\ m \notin awaited'
    /\ faults' = faults + 1
    /\ last'[m] = last[m] \/ (m \in unsure' /\ last'[m] = day)
    /\ mark'[m] = mark[m]

\* An onboarding mail that is not needed any more.
Waive(m) ==
    /\ m \in Onboarding /\ mark[m] = Never /\ mark'[m] = day
    /\ m \in awaited <=> m \in awaited'
    /\ last'[m] = last[m]

-----------------------------------------------------------------------------
(* All mails.                                                              *)

\* A reminder is not even excused by a mail nobody knows has left.
Excused(m) == m \in forgotten \cup shared' \cup (unsure' \ Reminders)

\* What holds of excused mails, too.
Always(m) ==
    /\ last'[m] = last[m] \/ (m \in awaited /\ last'[m] = day)
    /\ mark'[m] = mark[m] \/ (m \notin forgotten /\ mark'[m] = day)

\* Onboarding looks at the mark again: two runs share an onboarding mail only
\* while one of them sends it.
Work ==
    /\ UNCHANGED <<day, forgotten, quiet>>
    /\ faults' \in {faults, faults + 1}
    /\ shared \subseteq shared' /\ (shared' \ shared) \cap Onboarding \subseteq awaited
    /\ unsure \subseteq unsure' /\ unsure' \ unsure \subseteq awaited
    /\ unsure' # unsure => faults' = faults + 1
    /\ awaited' \cap quiet = {}
    /\ \A m \in Mails :
        /\ Always(m)
        /\ Excused(m) \/ Rest(m) \/ TakeUp(m) \/ Leave(m) \/ Miss(m) \/ Waive(m)

\* What is being sent when somebody says no is not quiet yet.
Settings ==
    /\ forgotten \subseteq forgotten'
    /\ mark' = [m \in Mails |-> IF m \in forgotten' THEN Never ELSE mark[m]]
    /\ quiet' \subseteq Mails \ awaited
    /\ UNCHANGED <<day, faults, last, awaited, shared, unsure>>

Pass ==
    /\ day' = day + 1
    /\ UNCHANGED <<faults, mark, last, awaited, forgotten, shared, unsure, quiet>>

Next == Work \/ Settings \/ Pass

Spec == Init /\ [][Next]_promise
=============================================================================
