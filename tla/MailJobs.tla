-------------------------------- MODULE MailJobs --------------------------------
(***************************************************************************)
(* The three jobs that mail on a timer: the onboarding mails               *)
(* (jobs/onboardingEmails.js), the weekly digest (jobs/weeklyDigest.js)    *)
(* and the reminder that an audit was opened and not answered              *)
(* (jobs/auditFollowupReminders.js).                                       *)
(*                                                                         *)
(* Each run reads its candidates once and then awaits one mail after the   *)
(* other.  What keeps a mail from going out again is a mark in the         *)
(* database.  Onboarding and digest set it when the mail has left, so that *)
(* a failed mail is tried again; the reminder sets it before, so that it   *)
(* is not.  Only onboarding looks at the mark again before it sends.  No   *)
(* timer has a running flag, so runs of one job may overlap.               *)
(***************************************************************************)
EXTENDS Integers

CONSTANTS
    Users,       \* accounts, verified on day 0
    Steps,       \* the days of the onboarding mails (0, 1, 3, 7 and 14)
    SetupSteps,  \* PLATFORM_CHECK_DAYS: not for users who have connected
    FreeSteps,   \* FREE_ONLY_DAYS: not for paying users
    Window,      \* days after which nobody is onboarded (21)
    Audits,      \* audit previews that have been shared, on day 0
    Runs,        \* runs of the jobs that may overlap
    Deployments, \* the sets of jobs whose interval is not set to 0
    DigestGap,   \* MIN_HOURS_BETWEEN_DIGESTS, in days
    ReminderAge, \* REMINDER_THRESHOLD_HOURS, in days
    AuditLife,   \* days until an audit expires
    None,        \* no mail
    MaxDay,      \* bound: the calendar stops here
    MaxChanges,  \* bound: settings changed by the users
    MaxFaults    \* bound: mails that fail and crashes

Onboarding == [job : {"onboarding"}, user : Users, step : Steps]
Digests == [job : {"digest"}, user : Users]
Reminders == [job : {"reminder"}, audit : Audits]
Mails == Onboarding \cup Digests \cup Reminders
Jobs == {"onboarding", "digest", "reminder"}

ASSUME MailAssumption ==
    /\ Steps \subseteq Nat /\ SetupSteps \subseteq Steps /\ FreeSteps \subseteq Steps
    /\ None \notin Mails /\ Users \cap Audits = {}
    /\ Deployments \subseteq SUBSET Jobs
    /\ Window \in Nat /\ AuditLife \in Nat
    /\ DigestGap \in Nat \ {0} /\ ReminderAge \in Nat
    /\ MaxDay \in Nat /\ MaxChanges \in Nat /\ MaxFaults \in Nat

VARIABLES
    enabled,    \* the jobs of this deployment
    day,        \* days since the users were verified
    tips,       \* users with notif_onboarding
    weekly,     \* users with notif_weekly_summary
    paid,       \* users whose plan is not the free one
    connected,  \* users with a platform connection
    busy,       \* users whose business had reviews in the last 7 days
    viewed,     \* audit_previews.first_viewed_at
    replied,    \* audits with marked_as_replied_at
    gone,       \* users and audits that have been deleted
    mark,       \* onboarding_emails, users.last_digest_sent_at and
                \* audit_previews.last_followup_reminder_sent_at
    run,        \* what each run holds and awaits
    changes,
    faults,
    lastMail,   \* HISTORY: the day each mail last left
    twice,      \* HISTORY: mails that left again too early
    passed,     \* HISTORY: onboarding marks set without a mail
    shared,     \* HISTORY: mails two overlapping runs went for
    unsure,     \* HISTORY: mails that left although the run did not see it
    quiet       \* HISTORY: mails declined while no run held them

settings == <<tips, weekly, paid, connected, busy, viewed, replied, gone, changes>>
vars == <<enabled, day, settings, mark, run, faults, lastMail, twice, passed, shared,
          unsure, quiet>>

Days == 0..MaxDay
Never == -1

\* No run.
Idle == [todo |-> {}, mail |-> None, paid |-> {}]

Init ==
    /\ enabled \in Deployments
    /\ day = 0
    /\ tips = Users
    /\ weekly \in SUBSET Users /\ paid \in SUBSET Users
    /\ connected \in SUBSET Users /\ busy \in SUBSET Users
    /\ viewed \in [Audits -> {Never, 0}]
    /\ replied = {} /\ gone = {}
    /\ mark = [m \in Mails |-> Never]
    /\ run = [w \in Runs |-> Idle]
    /\ changes = 0 /\ faults = 0
    /\ lastMail = [m \in Mails |-> Never]
    /\ twice = {} /\ passed = {} /\ shared = {} /\ unsure = {} /\ quiet = {}

Owner(m) == IF m \in Reminders THEN m.audit ELSE m.user

Held(w) == run[w].todo \cup ({run[w].mail} \ {None})

-----------------------------------------------------------------------------
(* The users and the readers of the audits.                                *)

\* Somebody has said no to this mail, or is past it.
Declined(m) ==
    \/ Owner(m) \in gone
    \/ m \in Onboarding /\ (m.user \notin tips \/ (m.step \in FreeSteps /\ m.user \in paid))
    \/ m \in Digests /\ m.user \notin weekly \cap paid
    \/ m \in Reminders /\ m.audit \in replied

\* One setting changes; what is declined from now on and in no run's hands
\* stays quiet until it is asked for again.
Changed ==
    /\ changes < MaxChanges
    /\ changes' = changes + 1
    /\ quiet' = {m \in Mails : Declined(m)' /\ (m \in quiet \/ \A w \in Runs : m \notin Held(w))}
    /\ UNCHANGED <<enabled, day, run, faults, lastMail, twice, passed, shared, unsure>>

Toggled(set, x) == IF x \in set THEN set \ {x} ELSE set \cup {x}

\* PUT /auth/notifications and the unsubscribe links.
SetTips(u) ==
    /\ u \notin gone
    /\ tips' = Toggled(tips, u)
    /\ UNCHANGED <<weekly, paid, connected, busy, viewed, replied, gone, mark>>
    /\ Changed

SetWeekly(u) ==
    /\ u \notin gone
    /\ weekly' = Toggled(weekly, u)
    /\ UNCHANGED <<tips, paid, connected, busy, viewed, replied, gone, mark>>
    /\ Changed

\* The billing webhook.
SetPlan(u) ==
    /\ u \notin gone
    /\ paid' = Toggled(paid, u)
    /\ UNCHANGED <<tips, weekly, connected, busy, viewed, replied, gone, mark>>
    /\ Changed

SetConnected(u) ==
    /\ u \notin gone
    /\ connected' = Toggled(connected, u)
    /\ UNCHANGED <<tips, weekly, paid, busy, viewed, replied, gone, mark>>
    /\ Changed

\* Reviews come in, or the last ones grow older than a week.
SetBusy(u) ==
    /\ u \notin gone
    /\ busy' = Toggled(busy, u)
    /\ UNCHANGED <<tips, weekly, paid, connected, viewed, replied, gone, mark>>
    /\ Changed

\* GET /audit-previews/share/:token by a reader: the first one counts.
View(a) ==
    /\ a \notin gone /\ day < AuditLife
    /\ viewed[a] = Never
    /\ viewed' = [viewed EXCEPT ![a] = day]
    /\ UNCHANGED <<tips, weekly, paid, connected, busy, replied, gone, mark>>
    /\ Changed

\* POST /:id/mark-replied and /:id/unmark-replied.
SetReplied(a) ==
    /\ a \notin gone
    /\ replied' = Toggled(replied, a)
    /\ UNCHANGED <<tips, weekly, paid, connected, busy, viewed, gone, mark>>
    /\ Changed

\* DELETE /auth/me, the erasure on request and DELETE /audit-previews/:id, with
\* the rows that refer to the account.  Of its businesses, to which the
\* connections belong, the first deletes one and the second none.
Delete(x) ==
    /\ x \notin gone
    /\ gone' = gone \cup {x}
    /\ tips' = tips \ {x} /\ weekly' = weekly \ {x} /\ paid' = paid \ {x}
    /\ connected' \in {connected, connected \ {x}} /\ busy' = busy \ {x}
    /\ viewed' = [a \in Audits |-> IF a = x THEN Never ELSE viewed[a]]
    /\ replied' = replied \ {x}
    /\ mark' = [m \in Mails |-> IF Owner(m) = x THEN Never ELSE mark[m]]
    /\ Changed

-----------------------------------------------------------------------------
(* The queries and the rounds of the loops.                                *)

\* Mutant: the bound the comment names, the day of the last mail, not the
\* three weeks of the query.
InShortWindow == day < Window

\* The upper bound of the onboarding query.
InWindow == day <= Window

\* Mutant: the plan is left to the settings page.
OptedIn(u) == u \in weekly

\* The digest is a paid feature: users who were downgraded keep the setting.
WantsDigest(u) == u \in weekly /\ u \in paid

\* No answer and no reminder yet.
Unanswered(a) == a \notin replied /\ mark[[job |-> "reminder", audit |-> a]] = Never

\* What the query of each job returns, at the start of a run.
Candidates(job) ==
    {m \in Mails :
        /\ m.job = job
        /\ m \in Onboarding => m.user \in tips /\ InWindow
        /\ m \in Digests => /\ WantsDigest(m.user)
                            /\ mark[m] = Never \/ day - mark[m] >= DigestGap
        /\ m \in Reminders => /\ viewed[m.audit] # Never /\ Unanswered(m.audit)
                              /\ viewed[m.audit] + ReminderAge <= day
                              /\ day < AuditLife}

\* The day of an onboarding mail has come, the plan read with the candidate
\* allows it, and the table has no mark.
StepDue(m, planRead, marks) ==
    /\ m.step <= day
    /\ ~(m.step \in FreeSteps /\ m.user \in planRead)
    /\ marks[m] = Never

\* The setup hint is not for users who have connected meanwhile: they get the
\* mark and no mail.
Passes(m, planRead, marks) ==
    /\ m \in Onboarding
    /\ StepDue(m, planRead, marks)
    /\ m.step \in SetupSteps /\ m.user \in connected

\* Mutant: the loop trusts the rows it read.
SendsAnyway(m, planRead, marks) ==
    /\ m \in Onboarding => StepDue(m, planRead, [n \in Mails |-> Never]) /\ ~Passes(m, planRead, marks)
    /\ m \in Digests => m.user \in busy

\* What a round of the loop still looks at before it sends.  The reminder
\* looks at nothing.
Sends(m, planRead, marks) ==
    /\ m \in Onboarding => StepDue(m, planRead, marks) /\ ~Passes(m, planRead, marks)
    /\ m \in Digests => m.user \in busy

\* Mutant: the reminder sets its mark when the mail has left, like the others.
MarkedLater(m, marks) == marks

\* The mark that is set before the await.
MarkedFirst(m, marks) ==
    IF m \in Reminders /\ Owner(m) \notin gone THEN [marks EXCEPT ![m] = day] ELSE marks

\* Mutant: the mark is set whether or not the mail has left.
MarkedAnyway(m, left, marks) ==
    IF m \in Reminders \/ Owner(m) \in gone THEN marks ELSE [marks EXCEPT ![m] = day]

\* Mutant: the mark does not refer to the users.
MarkedForGood(m, left, marks) ==
    IF ~left \/ m \in Reminders THEN marks ELSE [marks EXCEPT ![m] = day]

\* The mark that is set after the await, if it returned.  INSERT OR IGNORE
\* keeps the first mark of an onboarding mail; for an account that is gone it
\* fails, and the digest's UPDATE finds no row.
MarkedAfter(m, left, marks) ==
    IF \/ ~left \/ m \in Reminders \/ Owner(m) \in gone
       \/ m \in Onboarding /\ marks[m] # Never
    THEN marks ELSE [marks EXCEPT ![m] = day]

\* Candidates of one user come in the order of their days.
Before(m, n) == m \in Onboarding /\ n \in Onboarding /\ m.user = n.user /\ m.step < n.step

\* Some other run is waiting for the same mail.
Awaited(w, m) == \E v \in Runs \ {w} : run[v].mail = m

\* The INSERT of a mark without a mail is outside the try: its foreign key
\* fails for a user who is gone meanwhile.
Throws(m, planRead, marks) == Passes(m, planRead, marks) /\ Owner(m) \in gone

\* The loop of run w over the candidates `rest`, up to its next await, its end
\* or the error that ends it.  Candidates that are not sent are passed over.
Loop(w, rest, planRead, marks) ==
    \E over \in SUBSET rest :
        LET unsent == {n \in over : Passes(n, planRead, marks)}
            marked == [n \in Mails |-> IF n \in unsent THEN day ELSE marks[n]]
            nexts == {m \in rest \ over : \A n \in rest : Before(n, m) => n \in over}
        IN
        /\ \A n \in over : ~Sends(n, planRead, marks) /\ ~Throws(n, planRead, marks)
        /\ passed' = passed \cup unsent
        /\ \/ \E m \in nexts :
                /\ Sends(m, planRead, marks)
                /\ mark' = MarkedFirst(m, marked)
                /\ run' = [run EXCEPT ![w] = [todo |-> rest \ (over \cup {m}), mail |-> m,
                                              paid |-> planRead]]
           \/ /\ over = rest \/ \E m \in nexts : Throws(m, planRead, marks)
              /\ mark' = marked
              /\ run' = [run EXCEPT ![w] = Idle]

\* Mails that two runs are after at the same time: the onboarding loop looks
\* at the mark before each mail, so only those both are waiting for.
Contended(w) ==
    {m \in Mails : \E v \in Runs \ {w} :
        \/ m \in Onboarding /\ run'[w].mail = m /\ run[v].mail = m
        \/ m \notin Onboarding /\ m \in run'[w].todo \cup {run'[w].mail} /\ m \in Held(v)}

\* Only onboarding looks at the plan again after the query.
PlanRead(job) == IF job = "onboarding" THEN paid ELSE {}

\* A tick, or the first run after the start: the query and the first rounds.
Begin(w, job) ==
    /\ job \in enabled
    /\ run[w] = Idle
    /\ Loop(w, Candidates(job), PlanRead(job), mark)
    /\ shared' = shared \cup Contended(w)
    /\ UNCHANGED <<enabled, day, settings, faults, lastMail, twice, unsure, quiet>>

-----------------------------------------------------------------------------
(* The mail server.                                                        *)

\* The mails of some runs leave.
Leave(senders) ==
    LET out == {m \in Mails : \E w \in senders : run[w].mail = m}
        soon(m) == lastMail[m] # Never /\ (m \in Digests => day - lastMail[m] < DigestGap)
    IN
    /\ lastMail' = [m \in Mails |-> IF m \in out THEN day ELSE lastMail[m]]
    /\ twice' = twice \cup {m \in out : soon(m)}

\* Back from the await of a mail: the mark, and on with the loop.
Sent(w) ==
    /\ run[w].mail # None
    /\ Leave({w})
    /\ Loop(w, run[w].todo, run[w].paid, MarkedAfter(run[w].mail, TRUE, mark))
    /\ shared' = shared \cup Contended(w)
    /\ UNCHANGED <<enabled, day, settings, faults, unsure, quiet>>

Fault == faults < MaxFaults /\ faults' = faults + 1

\* The call fails, though the mail may have left: reported, no mark, and on
\* with the loop.
Fails(w) ==
    /\ run[w].mail # None
    /\ Fault
    /\ \E left \in SUBSET {w} :
        /\ Leave(left)
        /\ unsure' = unsure \cup {run[v].mail : v \in left}
    /\ Loop(w, run[w].todo, run[w].paid, MarkedAfter(run[w].mail, FALSE, mark))
    /\ shared' = shared \cup Contended(w)
    /\ UNCHANGED <<enabled, day, settings, quiet>>

\* The process dies; of the mails it was sending any may have left.
Crash ==
    LET busyRuns == {w \in Runs : run[w].mail # None} IN
    /\ busyRuns # {}
    /\ Fault
    /\ \E left \in SUBSET busyRuns :
        /\ Leave(left)
        /\ unsure' = unsure \cup {run[w].mail : w \in left}
    /\ run' = [w \in Runs |-> Idle]
    /\ UNCHANGED <<enabled, day, settings, mark, passed, shared, quiet>>

Pass ==
    /\ day < MaxDay
    /\ day' = day + 1
    /\ UNCHANGED <<enabled, settings, mark, run, faults, lastMail, twice, passed, shared,
                   unsure, quiet>>

Next ==
    \/ \E u \in Users : SetTips(u)
    \/ \E u \in Users : SetWeekly(u)
    \/ \E u \in Users : SetPlan(u)
    \/ \E u \in Users : SetConnected(u)
    \/ \E u \in Users : SetBusy(u)
    \/ \E a \in Audits : View(a)
    \/ \E a \in Audits : SetReplied(a)
    \/ \E x \in Users \cup Audits : Delete(x)
    \/ \E w \in Runs, job \in Jobs : Begin(w, job)
    \/ \E w \in Runs : Sent(w)
    \/ \E w \in Runs : Fails(w)
    \/ Crash
    \/ Pass

Spec == Init /\ [][Next]_vars

\* The timers fire again and again, and every mail is answered.
Fairness ==
    /\ \A job \in Jobs : WF_vars(\E w \in Runs : Begin(w, job))
    /\ \A w \in Runs : WF_vars(Sent(w))

FairSpec == Spec /\ Fairness

-----------------------------------------------------------------------------
(* Properties.                                                             *)

Run == [todo : SUBSET Mails, mail : Mails \cup {None}, paid : SUBSET Users]

\* Types; a run that waits for no mail has nothing left to do, and no mark comes
\* back after its owner was deleted, whatever runs were still mailing.
TypeOK ==
    /\ enabled \subseteq Jobs
    /\ day \in Days
    /\ tips \subseteq Users /\ weekly \subseteq Users /\ paid \subseteq Users
    /\ connected \subseteq Users /\ busy \subseteq Users
    /\ viewed \in [Audits -> Days \cup {Never}]
    /\ replied \subseteq Audits
    /\ gone \subseteq Users \cup Audits
    /\ mark \in [Mails -> Days \cup {Never}]
    /\ run \in [Runs -> Run]
    /\ \A w \in Runs : run[w].mail = None => run[w] = Idle
    /\ \A m \in Mails : Owner(m) \in gone => mark[m] = Never
    /\ changes \in Nat /\ faults \in Nat
    /\ lastMail \in [Mails -> Days \cup {Never}]
    /\ twice \subseteq Mails /\ passed \subseteq Onboarding /\ shared \subseteq Mails
    /\ unsure \subseteq Mails /\ quiet \subseteq Mails

\* No mail comes twice, whatever fails, crashes or runs long, unless two
\* overlapping runs went for it or a mail left that the server does not know
\* of; the reminder, which marks first, not even then.
OnceUnlessOverlap ==
    \A m \in twice :
        Owner(m) \notin gone => m \in shared \/ (m \in unsure /\ m \notin Reminders)

\* An onboarding mail or digest that is marked has left, and not before its
\* mark; the only marks without a mail are those of users who needed no
\* setup hint.
MarkedMeansMailed ==
    \A m \in Onboarding \cup Digests :
        mark[m] # Never => m \in passed \/ mark[m] <= lastMail[m]

\* A reminder never leaves without its mark, and as long as no mail fails a
\* mark never stands without its reminder.
ReminderMatchesMark ==
    \A m \in Reminders :
        /\ lastMail[m] # Never => mark[m] # Never \/ m.audit \in gone
        /\ faults = 0 /\ mark[m] # Never =>
                lastMail[m] # Never \/ \E w \in Runs : run[w].mail = m

\* The three jobs keep MailPromise, however many runs overlap, fail or crash:
\* the life of a mail as its reader sees it, from one mark to the next.
Promise == INSTANCE MailPromise WITH
    last <- lastMail,
    awaited <- {m \in Mails : \E w \in Runs : run[w].mail = m},
    forgotten <- {m \in Mails : Owner(m) \in gone}

PromiseKept == Promise!Spec

\* Nobody is mailed who said no, stopped paying or answered while no run had
\* the mail in hand.
QuietWhenDeclined ==
    [][\A w \in Runs, m \in quiet : run'[w].mail = m => run[w].mail = m]_vars

Wanted(m) ==
    /\ m.job \in enabled /\ ~Declined(m)
    /\ m \in Onboarding => m.step <= day /\ day <= Window
    /\ m \in Digests => m.user \in busy
    /\ m \in Reminders => /\ viewed[m.audit] # Never
                          /\ viewed[m.audit] + ReminderAge <= day /\ day < AuditLife

Open(m) == mark[m] = Never \/ (m \in Digests /\ day - mark[m] >= DigestGap)

\* Who goes on wanting a mail gets its mark again and again: no failure, no
\* crash and no other mail keeps it away.
WantedIsServed == \A m \in Mails : <>[]Wanted(m) => []<>~Open(m)
=============================================================================
