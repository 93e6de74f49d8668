---------------------------- MODULE MailJobs_proofs ----------------------------
(***************************************************************************)
(* Theorems about MailJobs, for any number of users, audits, runs, days,   *)
(* failures and crashes.  "No mail twice" rests on three facts that hold   *)
(* for mails no two runs went for: whoever holds the mail holds it alone,  *)
(* what a run still has to send has not left too recently, and what has    *)
(* left is marked.                                                         *)
(***************************************************************************)
EXTENDS MailJobs, TLAPS

\* Nothing is left of the settings of what has been deleted.
NothingOfTheGone ==
    /\ tips \cap gone = {} /\ weekly \cap gone = {}
    /\ \A a \in Audits \cap gone : viewed[a] = Never

\* A run does not hold the mail it waits for a second time.
NotInTodo == \A w \in Runs : run[w].mail \notin run[w].todo

\* Nothing leaves in the future.
NotLate == \A m \in Mails : lastMail[m] <= day

\* The reminder a run waits for is marked.
AwaitedIsMarked ==
    \A w \in Runs, m \in Reminders :
        run[w].mail = m => mark[m] # Never \/ m.audit \in gone

\* What run w goes for, in the sense of "shared".
After(w, m) ==
    \/ m = run[w].mail
    \/ m \notin Onboarding /\ m \in run[w].todo

\* A mail no two runs went for is after by one run at most.
AfterByOne ==
    \A v, w \in Runs, m \in Mails \ shared :
        After(v, m) /\ After(w, m) => v = w

\* Mails nothing unusual has happened to.
Plain(m) == m \in Mails \ shared /\ Owner(m) \notin gone
            /\ (m \in unsure => m \in Reminders)

Fresh(m) == lastMail[m] = Never \/ (m \in Digests /\ day - lastMail[m] >= DigestGap)

\* What a run is after has not left too recently.
AfterIsFresh == \A w \in Runs, m \in Mails : Plain(m) /\ After(w, m) => Fresh(m)

\* What has left is marked, digests with the day they left.
MailedIsMarked ==
    \A m \in Mails : Plain(m) /\ lastMail[m] # Never =>
        /\ mark[m] # Never
        /\ m \in Digests => mark[m] = lastMail[m]

\* What is quiet is declined, and no run will send it.
QuietIsHarmless ==
    \A m \in quiet :
        /\ Declined(m)
        /\ \A w \in Runs :
            /\ run[w].mail # m
            /\ m \in run[w].todo =>
                    m \in Onboarding /\ m.step \in FreeSteps /\ m.user \in run[w].paid

IInv ==
    /\ TypeOK /\ NothingOfTheGone /\ NotInTodo /\ NotLate
    /\ MarkedMeansMailed /\ ReminderMatchesMark /\ AwaitedIsMarked
    /\ AfterByOne /\ AfterIsFresh /\ MailedIsMarked
    /\ OnceUnlessOverlap /\ QuietIsHarmless

-----------------------------------------------------------------------------
(* Lemmas.                                                                 *)

\* The three kinds of mail are disjoint.
LEMMA Kinds ==
    ASSUME NEW m \in Mails
    PROVE  /\ m \in Onboarding => m \notin Digests /\ m \notin Reminders
           /\ m \in Digests => m \notin Onboarding /\ m \notin Reminders
           /\ m \in Reminders => m \notin Onboarding /\ m \notin Digests
           /\ m \in Onboarding \/ m \in Digests \/ m \in Reminders
           /\ m \in Reminders => Owner(m) = m.audit
           /\ m \in Onboarding => Owner(m) = m.user
           /\ m \in Digests => Owner(m) = m.user
           /\ m \in Onboarding <=> m.job = "onboarding"
           /\ m \in Digests <=> m.job = "digest"
           /\ m \in Reminders <=> m.job = "reminder"
           /\ m # None
BY MailAssumption DEF Mails, Onboarding, Digests, Reminders, Owner

LEMMA InitInv == Init => IInv
<1> SUFFICES ASSUME Init
             PROVE  IInv
  OBVIOUS
<1> USE DEF Init
<1>1. \A w \in Runs : run[w].todo = {} /\ run[w].mail = None
  BY DEF Idle
<1>2. Idle \in Run
  BY DEF Idle, Run
<1>3. TypeOK
  BY <1>2, MailAssumption DEF TypeOK, Days, Never
<1>4. NothingOfTheGone /\ NotInTodo /\ NotLate
  BY <1>1 DEF NothingOfTheGone, NotInTodo, NotLate, Never
<1>5. MarkedMeansMailed /\ ReminderMatchesMark /\ MailedIsMarked
  BY DEF MarkedMeansMailed, ReminderMatchesMark, MailedIsMarked, Mails
<1>6. \A w \in Runs, m \in Mails : ~After(w, m)
  BY <1>1, Kinds DEF After
<1>7. AfterByOne /\ AfterIsFresh
  BY <1>6 DEF AfterByOne, AfterIsFresh
<1>8. AwaitedIsMarked
  BY <1>1, Kinds DEF AwaitedIsMarked, Mails
<1>9. OnceUnlessOverlap /\ QuietIsHarmless
  BY DEF OnceUnlessOverlap, QuietIsHarmless
<1> QED BY <1>3, <1>4, <1>5, <1>7, <1>8, <1>9 DEF IInv

\* What the loop has done when it comes to its next await, or to its end.
LoopDid(w, rest, planRead, marks) ==
    /\ run' \in [Runs -> Run]
    /\ \A v \in Runs \ {w} : run'[v] = run[v]
    /\ run'[w].todo \subseteq rest
    /\ run'[w].mail \in rest \cup {None} /\ run'[w].mail \notin run'[w].todo
    /\ run'[w].mail = None => run'[w] = Idle
    /\ run'[w].mail # None =>
         run'[w].paid = planRead /\ Sends(run'[w].mail, planRead, marks)
    /\ mark' \in [Mails -> Days \cup {Never}]
    /\ \A n \in Mails :
         \/ mark'[n] = marks[n]
         \/ /\ n \in Onboarding /\ marks[n] = Never /\ n \in passed'
            /\ Owner(n) \notin gone /\ mark'[n] = day
            /\ n \in rest /\ n # run'[w].mail
         \/ n \in Reminders /\ n = run'[w].mail /\ Owner(n) \notin gone /\ mark'[n] = day
    /\ run'[w].mail \in Reminders =>
         Owner(run'[w].mail) \in gone \/ mark'[run'[w].mail] = day
    /\ passed \subseteq passed' /\ passed' \subseteq Onboarding

LEMMA LoopEffect ==
    ASSUME TypeOK, NEW w \in Runs, NEW rest \in SUBSET Mails,
           NEW planRead \in SUBSET Users,
           NEW marks \in [Mails -> Days \cup {Never}],
           Loop(w, rest, planRead, marks)
    PROVE  LoopDid(w, rest, planRead, marks)
<1> USE DEF TypeOK
<1> DEFINE unsent(over) == {n \in over : Passes(n, planRead, marks)}
           marked(over) == [n \in Mails |-> IF n \in unsent(over) THEN day ELSE marks[n]]
<1>0. day \in Days \cup {Never}
  OBVIOUS
<1>1. PICK over \in SUBSET rest :
        /\ \A n \in over : ~Sends(n, planRead, marks) /\ ~Throws(n, planRead, marks)
        /\ passed' = passed \cup unsent(over)
        /\ \/ \E m \in rest \ over :
                /\ Sends(m, planRead, marks)
                /\ mark' = MarkedFirst(m, marked(over))
                /\ run' = [run EXCEPT ![w] = [todo |-> rest \ (over \cup {m}), mail |-> m,
                                              paid |-> planRead]]
           \/ mark' = marked(over) /\ run' = [run EXCEPT ![w] = Idle]
  BY DEF Loop
<1>2. \A n \in Mails : n \in unsent(over) =>
        /\ n \in Onboarding /\ marks[n] = Never /\ n \in passed' /\ Owner(n) \notin gone
        /\ n \in over
  BY <1>1 DEF Passes, StepDue, Throws
<1>3. passed \subseteq passed' /\ passed' \subseteq Onboarding
  BY <1>1 DEF Passes
<1>4. \A n \in Mails : /\ marked(over)[n] \in Days \cup {Never}
                       /\ \/ marked(over)[n] = marks[n]
                          \/ n \in unsent(over) /\ marked(over)[n] = day
  BY <1>0
<1>5. marked(over) \in [Mails -> Days \cup {Never}]
  BY <1>4
<1> HIDE DEF marked, unsent
<1>6. ASSUME NEW m \in rest \ over,
             Sends(m, planRead, marks),
             mark' = MarkedFirst(m, marked(over)),
             run' = [run EXCEPT ![w] = [todo |-> rest \ (over \cup {m}), mail |-> m,
                                        paid |-> planRead]]
      PROVE  LoopDid(w, rest, planRead, marks)
  <2> DEFINE r == [todo |-> rest \ (over \cup {m}), mail |-> m, paid |-> planRead]
  <2>1. r \in Run /\ r.mail = m /\ r.todo = rest \ (over \cup {m}) /\ r.paid = planRead
    BY DEF Run
  <2>2. run'[w] = r /\ run' \in [Runs -> Run] /\ \A v \in Runs \ {w} : run'[v] = run[v]
    BY <1>6, <2>1
  <2>3. m # None /\ m \in Mails
    BY MailAssumption
  <2> HIDE DEF r
  <2>4. /\ mark' \in [Mails -> Days \cup {Never}]
        /\ \A n \in Mails : n # m => mark'[n] = marked(over)[n]
        /\ \/ mark'[m] = marked(over)[m]
           \/ m \in Reminders /\ Owner(m) \notin gone /\ mark'[m] = day
        /\ m \in Reminders => Owner(m) \in gone \/ mark'[m] = day
    BY <1>0, <1>5, <1>6, <2>3 DEF MarkedFirst
  <2>5. \A n \in Mails :
                \/ mark'[n] = marks[n]
                \/ /\ n \in Onboarding /\ marks[n] = Never /\ n \in passed'
                   /\ Owner(n) \notin gone /\ mark'[n] = day
                   /\ n \in rest /\ n # m
                \/ n \in Reminders /\ n = m /\ Owner(n) \notin gone /\ mark'[n] = day
    BY <1>2, <1>4, <2>4
  <2> QED BY <1>3, <1>6, <2>1, <2>2, <2>3, <2>4, <2>5 DEF LoopDid
<1>7. ASSUME mark' = marked(over), run' = [run EXCEPT ![w] = Idle]
      PROVE  LoopDid(w, rest, planRead, marks)
  <2>1. Idle \in Run /\ Idle.todo = {} /\ Idle.mail = None
    BY DEF Idle, Run
  <2>2. run' \in [Runs -> Run] /\ run'[w] = Idle /\ \A v \in Runs \ {w} : run'[v] = run[v]
    BY <1>7, <2>1
  <2>3. None \notin Reminders /\ None \notin Mails
    BY MailAssumption DEF Mails
  <2> QED BY <1>2, <1>3, <1>4, <1>5, <1>7, <2>1, <2>2, <2>3 DEF LoopDid
<1> QED BY <1>1, <1>6, <1>7

\* The mails of some runs leave.
LEMMA LeaveEffect ==
    ASSUME TypeOK, NEW senders \in SUBSET Runs, Leave(senders)
    PROVE  /\ lastMail' \in [Mails -> Days \cup {Never}]
           /\ \A m \in Mails :
                \/ lastMail'[m] = day /\ \E w \in senders : run[w].mail = m
                \/ lastMail'[m] = lastMail[m] /\ ~\E w \in senders : run[w].mail = m
           /\ twice' \subseteq Mails
           /\ \A m \in Mails : m \in twice' =>
                \/ m \in twice
                \/ (\E w \in senders : run[w].mail = m) /\ ~Fresh(m)
<1> DEFINE out == {m \in Mails : \E w \in senders : run[w].mail = m}
<1>1. /\ lastMail' = [m \in Mails |-> IF m \in out THEN day ELSE lastMail[m]]
      /\ twice' = twice \cup {m \in out : lastMail[m] # Never
                                /\ (m \in Digests => day - lastMail[m] < DigestGap)}
  BY DEF Leave
<1>2. day \in Days
  BY DEF TypeOK
<1>3. \A m \in Mails : lastMail'[m] \in Days \cup {Never}
  BY <1>1, <1>2 DEF TypeOK
<1>4. \A m \in Mails : lastMail[m] \in Int
  BY MailAssumption DEF TypeOK, Days, Never
<1>5. \A m \in Mails : lastMail[m] # Never /\ (m \in Digests => day - lastMail[m] < DigestGap)
            => ~Fresh(m)
  BY <1>2, <1>4, MailAssumption DEF Fresh, Days
<1> QED BY <1>1, <1>3, <1>5 DEF TypeOK

\* One round of a loop keeps the invariant, given what the mails that left
\* before it and the mark set for them have kept.
LEMMA RoundKeeps ==
    ASSUME IInv, NEW w \in Runs, NEW rest \in SUBSET Mails,
           NEW planRead \in SUBSET Users,
           NEW marks \in [Mails -> Days \cup {Never}],
           Loop(w, rest, planRead, marks),
           shared' = shared \cup Contended(w),
           UNCHANGED <<enabled, day, settings, quiet>>,
           lastMail' \in [Mails -> Days \cup {Never}],
           twice' \subseteq Mails, unsure' \subseteq Mails, faults' \in Nat,
           unsure \subseteq unsure',
           NotLate', OnceUnlessOverlap',
           \A m \in Mails : marks[m] # Never => Owner(m) \notin gone,
           \A m \in Onboarding \cup Digests :
                marks[m] # Never => m \in passed \/ marks[m] <= lastMail'[m],
           \A m \in Reminders :
                /\ lastMail'[m] # Never => marks[m] # Never \/ m.audit \in gone
                /\ faults' = 0 /\ marks[m] # Never =>
                        lastMail'[m] # Never \/ \E v \in Runs \ {w} : run[v].mail = m
                /\ \A v \in Runs \ {w} :
                        run[v].mail = m => marks[m] # Never \/ m.audit \in gone,
           \A m \in Mails : Plain(m)' =>
                /\ lastMail'[m] # Never =>
                        marks[m] # Never /\ (m \in Digests => marks[m] = lastMail'[m])
                /\ m \in rest /\ m \notin Onboarding => Fresh(m)'
                /\ \A v \in Runs \ {w} : After(v, m) => Fresh(m)',
           \A m \in quiet \cap rest :
                m \in Onboarding /\ m.step \in FreeSteps /\ m.user \in planRead
    PROVE  IInv'
<1> USE DEF IInv
<1>1. TypeOK
  OBVIOUS
<1>2. LoopDid(w, rest, planRead, marks)
  BY <1>1, LoopEffect
<1> USE DEF LoopDid
<1>3. day \in Days /\ day # Never /\ \A m \in Mails : mark'[m] # Never \/ mark'[m] = Never
  BY MailAssumption DEF TypeOK, Days, Never
<1>4. Contended(w) \subseteq Mails
  BY DEF Contended
<1>5. TypeOK'
  <2>1. \A m \in Mails : Owner(m)' \in gone' => mark'[m] = Never
    <3> SUFFICES ASSUME NEW m \in Mails, Owner(m) \in gone
                 PROVE  mark'[m] = Never
      BY DEF settings, Owner
    <3>1. marks[m] = Never
      OBVIOUS
    <3> QED BY <1>2, <3>1
  <2>2. \A v \in Runs : run'[v].mail = None => run'[v] = Idle
    BY <1>2 DEF TypeOK
  <2> QED BY <1>2, <1>4, <2>1, <2>2 DEF TypeOK, settings
<1>6. NothingOfTheGone'
  BY DEF NothingOfTheGone, settings
<1>7. NotInTodo'
  BY <1>2 DEF NotInTodo
<1>8. MarkedMeansMailed'
  BY <1>2, Kinds DEF MarkedMeansMailed, Mails
<1>9. ReminderMatchesMark'
  <2> SUFFICES ASSUME NEW m \in Reminders
               PROVE  /\ lastMail'[m] # Never => mark'[m] # Never \/ m.audit \in gone
                      /\ faults' = 0 /\ mark'[m] # Never =>
                            lastMail'[m] # Never \/ \E v \in Runs : run'[v].mail = m
    BY DEF ReminderMatchesMark, settings
  <2>1. m \in Mails /\ m \notin Onboarding
    BY Kinds DEF Mails
  <2>2. mark'[m] = marks[m] \/ (m = run'[w].mail /\ mark'[m] = day)
    BY <1>2, <2>1
  <2> QED BY <1>2, <1>3, <2>2
<1>10. AwaitedIsMarked'
  <2> SUFFICES ASSUME NEW v \in Runs, NEW m \in Reminders, run'[v].mail = m
               PROVE  mark'[m] # Never \/ m.audit \in gone
    BY DEF AwaitedIsMarked, settings
  <2>1. m \in Mails /\ m \notin Onboarding /\ Owner(m) = m.audit
    BY Kinds DEF Mails
  <2>2. mark'[m] = marks[m] \/ mark'[m] = day
    BY <1>2, <2>1
  <2>3. CASE v = w
    BY <1>2, <1>3, <2>1, <2>3
  <2>4. CASE v # w
    BY <1>2, <1>3, <2>2, <2>4
  <2> QED BY <2>3, <2>4
<1>11. ASSUME NEW v \in Runs \ {w}, NEW m \in Mails, After(v, m)', After(w, m)'
       PROVE  m \in shared'
  <2>1. run'[v] = run[v] /\ m # None
    BY <1>2, Kinds
  <2>2. m \in Contended(w)
    BY <1>11, <2>1 DEF After, Contended, Held
  <2> QED BY <2>2
<1>12. AfterByOne'
  <2> SUFFICES ASSUME NEW u \in Runs, NEW v \in Runs, NEW m \in Mails \ shared',
                      After(u, m)', After(v, m)', u # v
               PROVE  FALSE
    BY DEF AfterByOne
  <2>1. u # w /\ v # w
    BY <1>11
  <2>2. After(u, m) /\ After(v, m)
    BY <1>2, <2>1 DEF After
  <2> QED BY <2>2 DEF AfterByOne
<1>13. AfterIsFresh'
  <2> SUFFICES ASSUME NEW v \in Runs, NEW m \in Mails, Plain(m)', After(v, m)'
               PROVE  Fresh(m)'
    BY DEF AfterIsFresh
  <2>1. CASE v # w
    <3>1. After(v, m)
      BY <1>2, <2>1 DEF After
    <3> QED BY <2>1, <3>1
  <2>2. CASE v = w
    <3>1. m \in rest
      BY <1>2, <2>2, Kinds DEF After
    <3>2. CASE m \notin Onboarding
      BY <3>1, <3>2
    <3>3. CASE m \in Onboarding
      <4>1. m = run'[w].mail
        BY <2>2, <3>3 DEF After
      <4>2. Sends(m, planRead, marks)
        BY <1>2, <4>1, Kinds
      <4>3. marks[m] = Never
        BY <3>3, <4>2 DEF Sends, StepDue
      <4> QED BY <4>3 DEF Fresh
    <3> QED BY <3>2, <3>3
  <2> QED BY <2>1, <2>2
<1>14. MailedIsMarked'
  <2> SUFFICES ASSUME NEW m \in Mails, Plain(m)', lastMail'[m] # Never
               PROVE  /\ mark'[m] # Never
                      /\ m \in Digests => mark'[m] = lastMail'[m]
    BY DEF MailedIsMarked
  <2>1. marks[m] # Never /\ (m \in Digests => marks[m] = lastMail'[m])
    OBVIOUS
  <2>2. m \in Digests => mark'[m] = marks[m]
    BY <1>2, Kinds
  <2> QED BY <1>2, <1>3, <2>1, <2>2
<1>15. QuietIsHarmless'
  <2> SUFFICES ASSUME NEW m \in quiet
               PROVE  /\ Declined(m)'
                      /\ \A v \in Runs :
                          /\ run'[v].mail # m
                          /\ m \in run'[v].todo => m \in Onboarding /\ m.step \in FreeSteps
                                                   /\ m.user \in run'[v].paid
    BY DEF QuietIsHarmless
  <2>1. m \in Mails
    BY DEF TypeOK
  <2>2. Declined(m)'
    BY DEF QuietIsHarmless, Declined, settings, Owner
  <2>3. ASSUME run'[w].mail = m
        PROVE  FALSE
    <3>1. m \in rest /\ Sends(m, planRead, marks)
      BY <1>2, <2>1, <2>3, Kinds
    <3>2. m \in Onboarding /\ m.step \in FreeSteps /\ m.user \in planRead
      BY <3>1
    <3> QED BY <3>1, <3>2 DEF Sends, StepDue
  <2>4. ASSUME m \in run'[w].todo
        PROVE  m \in Onboarding /\ m.step \in FreeSteps /\ m.user \in run'[w].paid
    <3>1. m \in rest /\ run'[w] # Idle
      BY <1>2, <2>4 DEF Idle
    <3> QED BY <1>2, <3>1
  <2> QED BY <1>2, <2>2, <2>3, <2>4 DEF QuietIsHarmless
<1> QED BY <1>5, <1>6, <1>7, <1>8, <1>9, <1>10, <1>12, <1>13, <1>14, <1>15

LEMMA BeginKeeps ==
    ASSUME IInv, NEW w \in Runs, NEW job \in Jobs, Begin(w, job)
    PROVE  IInv'
<1> USE DEF IInv
<1> DEFINE rest == Candidates(job)
<1>1. TypeOK /\ run[w].mail = None /\ run[w].todo = {}
  BY DEF Begin, Idle
<1>2. rest \in SUBSET Mails /\ PlanRead(job) \in SUBSET Users
      /\ mark \in [Mails -> Days \cup {Never}]
  BY DEF TypeOK, Candidates, PlanRead, Mails, Jobs
<1>3. Loop(w, rest, PlanRead(job), mark) /\ shared' = shared \cup Contended(w)
      /\ UNCHANGED <<enabled, day, settings, quiet>>
      /\ UNCHANGED <<faults, lastMail, twice, unsure>>
  BY DEF Begin
<1>4. NotLate' /\ OnceUnlessOverlap'
  BY <1>3 DEF NotLate, OnceUnlessOverlap, settings, Owner
<1>5. \A m \in Mails : Plain(m)' => Plain(m)
  BY <1>3 DEF Plain, settings, Owner
<1>6. ASSUME NEW m \in Mails, Plain(m)'
      PROVE  /\ lastMail'[m] # Never =>
                    mark[m] # Never /\ (m \in Digests => mark[m] = lastMail'[m])
             /\ m \in rest /\ m \notin Onboarding => Fresh(m)'
             /\ \A v \in Runs \ {w} : After(v, m) => Fresh(m)'
  <2>1. Plain(m) /\ lastMail'[m] = lastMail[m] /\ (Fresh(m) => Fresh(m)')
    BY <1>3, <1>5, <1>6 DEF Fresh
  <2>2. lastMail[m] # Never => mark[m] # Never /\ (m \in Digests => mark[m] = lastMail[m])
    BY <2>1 DEF MailedIsMarked
  <2>3. m \in rest /\ m \in Reminders => mark[m] = Never
    BY DEF Candidates, Unanswered, Reminders
  <2>4. m \in rest /\ m \in Digests => mark[m] = Never \/ day - mark[m] >= DigestGap
    BY DEF Candidates
  <2>5. m \in rest /\ m \notin Onboarding => Fresh(m)
    BY <2>2, <2>3, <2>4, Kinds DEF Fresh
  <2> QED BY <2>1, <2>2, <2>5 DEF AfterIsFresh
<1>7. ASSUME NEW m \in quiet \cap rest
      PROVE  m \in Onboarding /\ m.step \in FreeSteps /\ m.user \in PlanRead(job)
  <2>1. Declined(m) /\ m \in Mails
    BY <1>1 DEF QuietIsHarmless, TypeOK
  <2>2. CASE job = "onboarding"
    <3>1. m \in Onboarding /\ m.user \in tips
      BY <2>1, <2>2, Kinds DEF Candidates
    <3>2. m.user \notin gone /\ m \notin Digests /\ m \notin Reminders /\ Owner(m) = m.user
      BY <2>1, <3>1, Kinds DEF NothingOfTheGone
    <3> QED BY <2>1, <2>2, <3>1, <3>2 DEF Declined, PlanRead
  <2>3. CASE job = "digest"
    <3>1. m \in Digests /\ m.user \in weekly \cap paid
      BY <2>1, <2>3, Kinds DEF Candidates, WantsDigest
    <3>2. m.user \notin gone /\ m \notin Onboarding /\ m \notin Reminders /\ Owner(m) = m.user
      BY <2>1, <3>1, Kinds DEF NothingOfTheGone
    <3> QED BY <2>1, <3>1, <3>2 DEF Declined
  <2>4. CASE job = "reminder"
    <3>1. m \in Reminders /\ m.audit \in Audits /\ viewed[m.audit] # Never /\ m.audit \notin replied
      <4>1. m \in Reminders
        BY <2>1, <2>4, Kinds DEF Candidates
      <4>2. m.audit \in Audits
        BY <4>1 DEF Reminders
      <4> QED BY <4>1, <4>2 DEF Candidates, Unanswered
    <3>2. m.audit \notin gone /\ m \notin Onboarding /\ m \notin Digests /\ Owner(m) = m.audit
      BY <2>1, <3>1, Kinds DEF NothingOfTheGone
    <3> QED BY <2>1, <3>1, <3>2 DEF Declined
  <2> QED BY <2>2, <2>3, <2>4 DEF Jobs
<1>8. \A m \in Mails : mark[m] # Never => Owner(m) \notin gone
  BY DEF TypeOK
<1>9. \A m \in Onboarding \cup Digests :
            mark[m] # Never => m \in passed \/ mark[m] <= lastMail'[m]
  BY <1>3 DEF MarkedMeansMailed
<1>10. \A m \in Reminders :
                /\ lastMail'[m] # Never => mark[m] # Never \/ m.audit \in gone
                /\ faults' = 0 /\ mark[m] # Never =>
                        lastMail'[m] # Never \/ \E v \in Runs \ {w} : run[v].mail = m
                /\ \A v \in Runs \ {w} :
                        run[v].mail = m => mark[m] # Never \/ m.audit \in gone
  <2> SUFFICES ASSUME NEW m \in Reminders
               PROVE  /\ lastMail[m] # Never => mark[m] # Never \/ m.audit \in gone
                      /\ faults = 0 /\ mark[m] # Never =>
                            lastMail[m] # Never \/ \E v \in Runs \ {w} : run[v].mail = m
                      /\ \A v \in Runs \ {w} :
                            run[v].mail = m => mark[m] # Never \/ m.audit \in gone
    BY <1>3
  <2>1. m # None
    BY Kinds DEF Mails
  <2> QED BY <1>1, <2>1 DEF ReminderMatchesMark, AwaitedIsMarked
<1>11. /\ lastMail' \in [Mails -> Days \cup {Never}] /\ twice' \subseteq Mails
       /\ unsure' \subseteq Mails /\ faults' \in Nat /\ unsure \subseteq unsure'
  BY <1>3 DEF TypeOK
<1> HIDE DEF rest
<1> QED BY <1>2, <1>3, <1>4, <1>6, <1>7, <1>8, <1>9, <1>10, <1>11, RoundKeeps

\* Back from the await, with the mail left or not, known or not.
LEMMA BackKeeps ==
    ASSUME IInv, NEW w \in Runs, run[w].mail # None,
           NEW left \in SUBSET {w}, NEW ok \in BOOLEAN, ok => left = {w},
           ~ok => faults' # 0 /\ unsure' = unsure \cup {run[v].mail : v \in left},
           ok => unsure' = unsure, faults' \in Nat, faults' = 0 => faults = 0,
           Leave(left),
           Loop(w, run[w].todo, run[w].paid, MarkedAfter(run[w].mail, ok, mark)),
           shared' = shared \cup Contended(w),
           UNCHANGED <<enabled, day, settings, quiet>>
    PROVE  IInv'
<1> USE DEF IInv
<1> DEFINE out == run[w].mail
           marks == MarkedAfter(out, ok, mark)
           rest == run[w].todo
<1>1. /\ TypeOK /\ out \in Mails /\ rest \in SUBSET Mails
      /\ run[w].paid \in SUBSET Users /\ out \notin rest
  BY DEF TypeOK, Run, NotInTodo
<1>2. /\ lastMail' \in [Mails -> Days \cup {Never}]
      /\ \A m \in Mails :
           \/ lastMail'[m] = day /\ m = out /\ left = {w}
           \/ lastMail'[m] = lastMail[m] /\ ~(m = out /\ left = {w})
      /\ twice' \subseteq Mails
      /\ \A m \in Mails : m \in twice' => m \in twice \/ (m = out /\ left = {w} /\ ~Fresh(m))
  BY <1>1, LeaveEffect
<1>3. day \in Days /\ day # Never /\ day <= day
  BY MailAssumption DEF TypeOK, Days, Never
<1>4. /\ marks \in [Mails -> Days \cup {Never}]
      /\ \A m \in Mails :
            \/ marks[m] = mark[m]
            \/ /\ m = out /\ ok /\ marks[m] = day /\ Owner(m) \notin gone /\ m \notin Reminders
               /\ (m \in Onboarding => mark[m] = Never)
      /\ ok /\ out \notin Reminders /\ Owner(out) \notin gone =>
            marks[out] = day \/ (out \in Onboarding /\ marks[out] # Never)
  BY <1>1, <1>3 DEF MarkedAfter, TypeOK
<1>5. unsure' \subseteq Mails /\ unsure \subseteq unsure'
      /\ (left = {w} /\ ~ok => out \in unsure')
  BY <1>1 DEF TypeOK
<1>6. \A m \in Mails : Plain(m)' => Plain(m)
  BY <1>5 DEF Plain, settings, Owner
<1>7. NotLate'
  BY <1>2, <1>3 DEF NotLate
<1>8. After(w, out)
  BY DEF After
<1>9. OnceUnlessOverlap'
  <2> SUFFICES ASSUME NEW m \in twice', Owner(m) \notin gone
               PROVE  m \in shared' \/ (m \in unsure' /\ m \notin Reminders)
    BY DEF OnceUnlessOverlap, settings, Owner
  <2>1. CASE m \in twice
    BY <1>5, <2>1 DEF OnceUnlessOverlap
  <2>2. CASE m = out /\ ~Fresh(m)
    <3>1. ~Plain(m)
      BY <1>1, <1>8, <2>2 DEF AfterIsFresh
    <3> QED BY <1>1, <1>5, <2>2, <3>1 DEF Plain
  <2> QED BY <1>2, <2>1, <2>2
<1>10. \A m \in Mails : marks[m] # Never => Owner(m) \notin gone
  BY <1>4 DEF TypeOK
<1>11. \A m \in Onboarding \cup Digests :
            marks[m] # Never => m \in passed \/ marks[m] <= lastMail'[m]
  <2> SUFFICES ASSUME NEW m \in Onboarding \cup Digests, marks[m] # Never, m \notin passed
               PROVE  marks[m] <= lastMail'[m]
    OBVIOUS
  <2>1. m \in Mails
    BY DEF Mails
  <2>2. CASE marks[m] = mark[m]
    <3>1. mark[m] <= lastMail[m] /\ lastMail[m] <= day /\ mark[m] \in Int /\ lastMail[m] \in Int
          /\ day \in Int
      BY <2>1, <2>2, MailAssumption DEF MarkedMeansMailed, NotLate, TypeOK, Days, Never
    <3> QED BY <1>2, <2>1, <2>2, <3>1
  <2>3. CASE m = out /\ ok /\ marks[m] = day
    BY <1>2, <1>3, <2>1, <2>3
  <2> QED BY <1>4, <2>1, <2>2, <2>3
<1>12. \A m \in Reminders :
                /\ lastMail'[m] # Never => marks[m] # Never \/ m.audit \in gone
                /\ faults' = 0 /\ marks[m] # Never =>
                        lastMail'[m] # Never \/ \E v \in Runs \ {w} : run[v].mail = m
                /\ \A v \in Runs \ {w} :
                        run[v].mail = m => marks[m] # Never \/ m.audit \in gone
  <2> SUFFICES ASSUME NEW m \in Reminders
               PROVE  /\ lastMail'[m] # Never => mark[m] # Never \/ m.audit \in gone
                      /\ faults' = 0 /\ mark[m] # Never =>
                            lastMail'[m] # Never \/ \E v \in Runs \ {w} : run[v].mail = m
                      /\ \A v \in Runs \ {w} :
                            run[v].mail = m => mark[m] # Never \/ m.audit \in gone
    BY <1>4 DEF Mails
  <2>1. m \in Mails
    BY DEF Mails
  <2>2. \A v \in Runs : run[v].mail = m => mark[m] # Never \/ m.audit \in gone
    BY DEF AwaitedIsMarked
  <2>3. lastMail'[m] # Never => mark[m] # Never \/ m.audit \in gone
    BY <1>2, <2>1, <2>2 DEF ReminderMatchesMark
  <2>4. faults' = 0 /\ mark[m] # Never =>
                            lastMail'[m] # Never \/ \E v \in Runs \ {w} : run[v].mail = m
    <3> SUFFICES ASSUME faults' = 0, mark[m] # Never, lastMail'[m] = Never
                 PROVE  \E v \in Runs \ {w} : run[v].mail = m
      OBVIOUS
    <3>1. faults = 0 /\ left = {w}
      OBVIOUS
    <3>2. m # out /\ lastMail[m] = Never
      BY <1>2, <1>3, <2>1, <3>1
    <3>3. PICK v \in Runs : run[v].mail = m
      BY <3>1, <3>2 DEF ReminderMatchesMark
    <3> QED BY <3>2, <3>3
  <2> QED BY <2>2, <2>3, <2>4
<1>13. ASSUME NEW m \in Mails, Plain(m)'
       PROVE  /\ lastMail'[m] # Never =>
                    marks[m] # Never /\ (m \in Digests => marks[m] = lastMail'[m])
              /\ m \in rest /\ m \notin Onboarding => Fresh(m)'
              /\ \A v \in Runs \ {w} : After(v, m) => Fresh(m)'
  <2>1. Plain(m)
    BY <1>6, <1>13
  <2>2. m # out => lastMail'[m] = lastMail[m] /\ (Fresh(m) => Fresh(m)')
    BY <1>2 DEF Fresh
  <2>3. \A v \in Runs \ {w} : After(v, m) => m # out
    BY <1>1, <1>8, <2>1 DEF AfterByOne, Plain
  <2>4. m \in rest /\ m \notin Onboarding => Fresh(m)'
    BY <1>1, <2>1, <2>2 DEF AfterIsFresh, After
  <2>5. \A v \in Runs \ {w} : After(v, m) => Fresh(m)'
    BY <2>1, <2>2, <2>3 DEF AfterIsFresh
  <2>6. ASSUME lastMail'[m] # Never
        PROVE  marks[m] # Never /\ (m \in Digests => marks[m] = lastMail'[m])
    <3>1. CASE lastMail'[m] = lastMail[m] /\ ~(m = out /\ left = {w})
      <4>1. mark[m] # Never /\ (m \in Digests => mark[m] = lastMail[m])
        BY <2>1, <2>6, <3>1 DEF MailedIsMarked
      <4>2. marks[m] = mark[m]
        BY <1>4, <3>1
      <4> QED BY <3>1, <4>1, <4>2
    <3>2. CASE m = out /\ left = {w} /\ lastMail'[m] = day
      <4>1. CASE m \in Reminders
        <5>1. mark[m] # Never
          BY <2>1, <3>2, <4>1, Kinds DEF AwaitedIsMarked, Plain
        <5> QED BY <1>3, <1>4, <4>1, <5>1, Kinds
      <4>2. CASE m \notin Reminders
        <5>1. ok /\ Owner(m) \notin gone
          BY <1>5, <1>13, <3>2, <4>2, <2>1 DEF Plain
        <5> QED BY <1>3, <1>4, <3>2, <4>2, <5>1, Kinds
      <4> QED BY <4>1, <4>2
    <3> QED BY <1>2, <3>1, <3>2
  <2> QED BY <2>4, <2>5, <2>6
<1>14. \A m \in quiet \cap rest :
            m \in Onboarding /\ m.step \in FreeSteps /\ m.user \in run[w].paid
  BY DEF QuietIsHarmless
<1>15. Loop(w, rest, run[w].paid, marks)
  OBVIOUS
<1> HIDE DEF rest, marks, out
<1> QED BY <1>1, <1>2, <1>4, <1>5, <1>7, <1>9, <1>10, <1>11, <1>12, <1>13, <1>14, <1>15, RoundKeeps

LEMMA CrashKeeps ==
    ASSUME IInv, Crash
    PROVE  IInv'
<1> USE DEF IInv
<1> PICK left \in SUBSET {w \in Runs : run[w].mail # None} :
        /\ Leave(left)
        /\ unsure' = unsure \cup {run[w].mail : w \in left}
  BY DEF Crash
<1>1. /\ run' = [w \in Runs |-> Idle] /\ faults' \in Nat /\ faults' # 0
      /\ UNCHANGED <<enabled, day, settings, mark, passed, shared, quiet>>
  BY DEF Crash, Fault, TypeOK
<1>2. /\ lastMail' \in [Mails -> Days \cup {Never}]
      /\ \A m \in Mails :
           \/ lastMail'[m] = day /\ \E w \in left : run[w].mail = m
           \/ lastMail'[m] = lastMail[m] /\ ~\E w \in left : run[w].mail = m
      /\ twice' \subseteq Mails
      /\ \A m \in Mails : m \in twice' =>
           \/ m \in twice
           \/ (\E w \in left : run[w].mail = m) /\ ~Fresh(m)
  BY LeaveEffect
<1>3. Idle \in Run /\ Idle.todo = {} /\ Idle.mail = None
  BY DEF Idle, Run
<1>4. \A w \in Runs : run'[w] = Idle
  BY <1>1
<1>5. \A w \in Runs, m \in Mails : ~After(w, m)' /\ run'[w].mail # m
  BY <1>3, <1>4, Kinds DEF After
<1>6. day \in Days /\ day # Never
  BY MailAssumption DEF TypeOK, Days, Never
<1>7. \A w \in left : w \in Runs /\ run[w].mail \in Mails /\ run[w].mail \in unsure'
  BY DEF TypeOK, Run
<1>8. unsure' \subseteq Mails /\ unsure \subseteq unsure'
  BY <1>7 DEF TypeOK
<1>9. TypeOK'
  BY <1>1, <1>2, <1>3, <1>4, <1>8 DEF TypeOK, settings, Owner
<1>10. NothingOfTheGone' /\ NotInTodo'
  BY <1>1, <1>3, <1>4 DEF NothingOfTheGone, settings, NotInTodo
<1>11. NotLate'
  <2> SUFFICES ASSUME NEW m \in Mails
               PROVE  lastMail'[m] <= day
    BY <1>1 DEF NotLate
  <2>1. lastMail[m] <= day /\ day <= day
    BY <1>6 DEF NotLate, Days
  <2> QED BY <1>2, <2>1
<1>12. MarkedMeansMailed'
  <2> SUFFICES ASSUME NEW m \in Onboarding \cup Digests, mark[m] # Never, m \notin passed
               PROVE  mark[m] <= lastMail'[m]
    BY <1>1 DEF MarkedMeansMailed
  <2>1. m \in Mails
    BY DEF Mails
  <2>2. mark[m] <= lastMail[m] /\ lastMail[m] <= day /\ mark[m] \in Int /\ lastMail[m] \in Int
        /\ day \in Int
    BY <2>1, MailAssumption DEF MarkedMeansMailed, NotLate, TypeOK, Days, Never
  <2> QED BY <1>2, <2>1, <2>2
<1>13. ReminderMatchesMark'
  <2> SUFFICES ASSUME NEW m \in Reminders, lastMail'[m] # Never
               PROVE  mark[m] # Never \/ m.audit \in gone
    BY <1>1 DEF ReminderMatchesMark, settings
  <2>1. m \in Mails
    BY DEF Mails
  <2> QED BY <1>2, <1>7, <2>1 DEF ReminderMatchesMark, AwaitedIsMarked
<1>14. AwaitedIsMarked'
  BY <1>5 DEF AwaitedIsMarked, Mails
<1>15. AfterByOne' /\ AfterIsFresh'
  BY <1>5 DEF AfterByOne, AfterIsFresh
<1>16. \A m \in Mails : Plain(m)' => Plain(m)
  BY <1>1, <1>8 DEF Plain, settings, Owner
<1>17. MailedIsMarked'
  <2> SUFFICES ASSUME NEW m \in Mails, Plain(m)', lastMail'[m] # Never
               PROVE  mark[m] # Never /\ (m \in Digests => mark[m] = lastMail'[m])
    BY <1>1 DEF MailedIsMarked
  <2>1. CASE \E w \in left : run[w].mail = m
    <3>1. m \in Reminders /\ Owner(m) \notin gone
      BY <1>1, <1>7, <1>16, <2>1 DEF Plain
    <3> QED BY <1>7, <2>1, <3>1, Kinds DEF AwaitedIsMarked
  <2>2. CASE ~\E w \in left : run[w].mail = m
    BY <1>2, <1>16, <2>2 DEF MailedIsMarked
  <2> QED BY <2>1, <2>2
<1>18. OnceUnlessOverlap'
  <2> SUFFICES ASSUME NEW m \in twice', Owner(m) \notin gone
               PROVE  m \in shared \/ (m \in unsure' /\ m \notin Reminders)
    BY <1>1 DEF OnceUnlessOverlap, settings, Owner
  <2>1. CASE m \in twice
    BY <1>8, <2>1 DEF OnceUnlessOverlap
  <2>2. CASE (\E w \in left : run[w].mail = m) /\ ~Fresh(m)
    <3>1. ~Plain(m)
      BY <1>2, <1>7, <2>2 DEF AfterIsFresh, After
    <3> QED BY <1>2, <1>7, <2>2, <3>1 DEF Plain
  <2> QED BY <1>2, <2>1, <2>2
<1>19. QuietIsHarmless'
  <2> SUFFICES ASSUME NEW m \in quiet
               PROVE  Declined(m)' /\ \A w \in Runs : run'[w].mail # m /\ m \notin run'[w].todo
    BY <1>1 DEF QuietIsHarmless
  <2>1. m \in Mails /\ Declined(m)'
    BY <1>1 DEF QuietIsHarmless, TypeOK, Declined, settings, Owner
  <2> QED BY <1>3, <1>4, <1>5, <2>1
<1> QED BY <1>9, <1>10, <1>11, <1>12, <1>13, <1>14, <1>15, <1>17, <1>18, <1>19

\* A setting changes, or something is deleted and its marks with it.
LEMMA ChangedKeeps ==
    ASSUME IInv, Changed,
           tips' \subseteq Users, weekly' \subseteq Users, paid' \subseteq Users,
           connected' \subseteq Users, busy' \subseteq Users,
           viewed' \in [Audits -> Days \cup {Never}], replied' \subseteq Audits,
           gone' \subseteq Users \cup Audits, gone \subseteq gone',
           NothingOfTheGone',
           mark' \in [Mails -> Days \cup {Never}],
           \A m \in Mails : IF Owner(m) \in gone' THEN mark'[m] = Never ELSE mark'[m] = mark[m]
    PROVE  IInv'
<1> USE DEF IInv
<1>1. /\ changes' \in Nat
      /\ quiet' \subseteq Mails
      /\ \A m \in quiet' : Declined(m)' /\ (m \in quiet \/ \A w \in Runs : m \notin Held(w))
      /\ UNCHANGED <<enabled, day, run, faults, lastMail, twice, passed, shared, unsure>>
  BY DEF Changed, TypeOK
<1>2. TypeOK'
  BY <1>1 DEF TypeOK, Owner
<1>3. NotInTodo' /\ NotLate'
  BY <1>1 DEF NotInTodo, NotLate
<1>4. MarkedMeansMailed'
  BY <1>1 DEF MarkedMeansMailed, Mails
<1>5. \A m \in Reminders : m \in Mails /\ Owner(m) = m.audit
  BY Kinds DEF Mails
<1>6. ReminderMatchesMark'
  BY <1>1, <1>5 DEF ReminderMatchesMark
<1>7. AwaitedIsMarked'
  BY <1>1, <1>5 DEF AwaitedIsMarked
<1>8. \A m \in Mails : Plain(m)' => Plain(m)
  BY <1>1 DEF Plain, Owner
<1>9. AfterByOne' /\ AfterIsFresh'
  BY <1>1, <1>8 DEF AfterByOne, AfterIsFresh, After, Fresh
<1>10. MailedIsMarked'
  BY <1>1, <1>8 DEF MailedIsMarked, Plain, Owner
<1>11. OnceUnlessOverlap'
  BY <1>1 DEF OnceUnlessOverlap, Owner
<1>12. QuietIsHarmless'
  <2> SUFFICES ASSUME NEW m \in quiet', NEW w \in Runs
               PROVE  /\ Declined(m)' /\ run[w].mail # m
                      /\ m \in run[w].todo => m \in Onboarding /\ m.step \in FreeSteps
                                                   /\ m.user \in run[w].paid
    BY <1>1 DEF QuietIsHarmless
  <2>1. m # None
    BY <1>1, Kinds
  <2> QED BY <1>1, <2>1 DEF QuietIsHarmless, Held
<1> QED BY <1>2, <1>3, <1>4, <1>6, <1>7, <1>9, <1>10, <1>11, <1>12

LEMMA PassKeeps ==
    ASSUME IInv, day' \in Days, day <= day',
           UNCHANGED <<enabled, settings, mark, run, faults, lastMail, twice, passed,
                       shared, unsure, quiet>>
    PROVE  IInv'
<1> USE DEF IInv
<1>1. TypeOK' /\ NothingOfTheGone' /\ NotInTodo' /\ MarkedMeansMailed'
      /\ ReminderMatchesMark' /\ AwaitedIsMarked' /\ AfterByOne' /\ MailedIsMarked'
      /\ OnceUnlessOverlap'
  BY DEF TypeOK, NothingOfTheGone, NotInTodo, MarkedMeansMailed, ReminderMatchesMark,
         AwaitedIsMarked, AfterByOne, MailedIsMarked, OnceUnlessOverlap, settings, Owner,
         After, Plain
<1>2. /\ day \in Int /\ day' \in Int /\ DigestGap \in Int
      /\ \A m \in Mails : lastMail[m] \in Int
  BY MailAssumption DEF TypeOK, Days, Never
<1>3. NotLate'
  <2> SUFFICES ASSUME NEW m \in Mails
               PROVE  lastMail'[m] <= day'
    BY DEF NotLate
  <2>1. lastMail[m] <= day
    BY DEF NotLate
  <2>2. lastMail'[m] = lastMail[m]
    OBVIOUS
  <2> HIDE DEF IInv
  <2> QED BY <1>2, <2>1, <2>2
<1>4. \A m \in Mails : Fresh(m) => Fresh(m)'
  BY <1>2 DEF Fresh
<1>5. AfterIsFresh'
  BY <1>4 DEF AfterIsFresh, Plain, After, settings, Owner
<1>6. QuietIsHarmless'
  BY DEF QuietIsHarmless, Declined, settings, Owner
<1> QED BY <1>1, <1>3, <1>5, <1>6

\* Nothing that is quiet is turned to.
LEMMA NextKeeps ==
    ASSUME IInv, [Next]_vars
    PROVE  IInv'
<1> USE DEF IInv
<1>0. TypeOK
  OBVIOUS
<1>1. \A x \in Users \cup Audits : gone \cup {x} \subseteq Users \cup Audits
  BY DEF TypeOK
<1>2. \A m \in Mails : IF Owner(m) \in gone THEN mark[m] = Never ELSE mark[m] = mark[m]
  BY DEF TypeOK
<1>3. \A set \in SUBSET Users, u \in Users :
            Toggled(set, u) \in SUBSET Users /\ Toggled(set, u) \subseteq set \cup {u}
  BY DEF Toggled
<1>4. \A set \in SUBSET Audits, u \in Audits : Toggled(set, u) \in SUBSET Audits
  BY DEF Toggled
<1>5. ASSUME NEW u \in Users, SetTips(u)
      PROVE  IInv'
  <2>1. NothingOfTheGone'
    BY <1>0, <1>3, <1>5 DEF SetTips, NothingOfTheGone, TypeOK
  <2> QED BY <1>0, <1>2, <1>3, <1>5, <2>1, ChangedKeeps DEF SetTips, TypeOK
<1>6. ASSUME NEW u \in Users, SetWeekly(u)
      PROVE  IInv'
  <2>1. NothingOfTheGone'
    BY <1>0, <1>3, <1>6 DEF SetWeekly, NothingOfTheGone, TypeOK
  <2> QED BY <1>0, <1>2, <1>3, <1>6, <2>1, ChangedKeeps DEF SetWeekly, TypeOK
<1>7. ASSUME NEW u \in Users, SetPlan(u)
      PROVE  IInv'
  <2>1. NothingOfTheGone'
    BY <1>7 DEF SetPlan, NothingOfTheGone
  <2> QED BY <1>0, <1>2, <1>3, <1>7, <2>1, ChangedKeeps DEF SetPlan, TypeOK
<1>8. ASSUME NEW u \in Users, SetConnected(u)
      PROVE  IInv'
  <2>1. NothingOfTheGone'
    BY <1>0, <1>3, <1>8 DEF SetConnected, NothingOfTheGone, TypeOK
  <2> QED BY <1>0, <1>2, <1>3, <1>8, <2>1, ChangedKeeps DEF SetConnected, TypeOK
<1>9. ASSUME NEW u \in Users, SetBusy(u)
      PROVE  IInv'
  <2>1. NothingOfTheGone'
    BY <1>9 DEF SetBusy, NothingOfTheGone
  <2> QED BY <1>0, <1>2, <1>3, <1>9, <2>1, ChangedKeeps DEF SetBusy, TypeOK
<1>10. ASSUME NEW a \in Audits, View(a)
      PROVE  IInv'
  <2>1. NothingOfTheGone'
    BY <1>0, <1>10 DEF View, NothingOfTheGone, TypeOK
  <2> QED BY <1>0, <1>2, <1>10, <2>1, ChangedKeeps DEF View, TypeOK
<1>11. ASSUME NEW a \in Audits, SetReplied(a)
      PROVE  IInv'
  <2>1. NothingOfTheGone'
    BY <1>11 DEF SetReplied, NothingOfTheGone
  <2> QED BY <1>0, <1>2, <1>4, <1>11, <2>1, ChangedKeeps DEF SetReplied, TypeOK
<1>12. ASSUME NEW x \in Users \cup Audits, Delete(x)
      PROVE  IInv'
  <2>1. /\ gone' = gone \cup {x}
        /\ tips' = tips \ {x} /\ weekly' = weekly \ {x} /\ paid' = paid \ {x}
        /\ connected' \in {connected, connected \ {x}} /\ busy' = busy \ {x}
        /\ viewed' = [a \in Audits |-> IF a = x THEN Never ELSE viewed[a]]
        /\ replied' = replied \ {x}
        /\ mark' = [m \in Mails |-> IF Owner(m) = x THEN Never ELSE mark[m]]
        /\ Changed
    BY <1>12 DEF Delete
  <2>2. NothingOfTheGone'
    BY <2>1 DEF NothingOfTheGone
  <2>3. mark' \in [Mails -> Days \cup {Never}]
    BY <2>1 DEF TypeOK
  <2>4. \A m \in Mails : IF Owner(m) \in gone' THEN mark'[m] = Never ELSE mark'[m] = mark[m]
    BY <2>1 DEF TypeOK
  <2>5. viewed' \in [Audits -> Days \cup {Never}]
    BY <2>1 DEF TypeOK
  <2>6. /\ tips' \subseteq Users /\ weekly' \subseteq Users /\ paid' \subseteq Users
        /\ connected' \subseteq Users /\ busy' \subseteq Users
        /\ replied' \subseteq Audits /\ gone' \subseteq Users \cup Audits
        /\ gone \subseteq gone'
    BY <2>1 DEF TypeOK
  <2> QED BY <2>1, <2>2, <2>3, <2>4, <2>5, <2>6, ChangedKeeps
<1>13. ASSUME NEW w \in Runs, NEW job \in Jobs, Begin(w, job)
       PROVE  IInv'
  BY <1>13, BeginKeeps
<1>14. ASSUME NEW w \in Runs, Sent(w)
       PROVE  IInv'
  <2>1. {w} \in SUBSET {w} /\ TRUE \in BOOLEAN /\ faults' = faults /\ faults \in Nat
    BY <1>14 DEF Sent, TypeOK
  <2> QED BY <1>14, <2>1, BackKeeps DEF Sent
<1>15. ASSUME NEW w \in Runs, Fails(w)
       PROVE  IInv'
  <2>1. PICK left \in SUBSET {w} :
            Leave(left) /\ unsure' = unsure \cup {run[v].mail : v \in left}
    BY <1>15 DEF Fails
  <2>2. FALSE \in BOOLEAN /\ faults' # 0 /\ faults' \in Nat
    BY <1>15 DEF Fails, Fault, TypeOK
  <2> QED BY <1>15, <2>1, <2>2, BackKeeps DEF Fails
<1>16. CASE Crash
  BY <1>16, CrashKeeps
<1>17. CASE Pass
  BY <1>17, MailAssumption, PassKeeps DEF Pass, TypeOK, Days
<1>18. CASE UNCHANGED vars
  BY <1>0, <1>18, MailAssumption, PassKeeps DEF vars, TypeOK, Days
<1> QED BY <1>5, <1>6, <1>7, <1>8, <1>9, <1>10, <1>11, <1>12, <1>13, <1>14, <1>15, <1>16,
           <1>17, <1>18 DEF Next

\* A run turns to no mail that is quiet.
LEMMA NextQuiet ==
    ASSUME IInv, [Next]_vars, NEW w \in Runs, NEW m \in quiet, run'[w].mail = m
    PROVE  run[w].mail = m
<1> USE DEF IInv
<1>1. m \in Mails /\ m # None
  BY Kinds DEF TypeOK
<1>2. CASE run' = run
  BY <1>2
<1>3. ASSUME NEW v \in Runs, NEW rest \in SUBSET Mails, NEW planRead \in SUBSET Users,
             NEW marks \in [Mails -> Days \cup {Never}],
             Loop(v, rest, planRead, marks), UNCHANGED quiet, IInv'
      PROVE  run[w].mail = m
  BY <1>3 DEF QuietIsHarmless
<1>4. IInv'
  BY NextKeeps
<1>5. CASE quiet' = quiet
  BY <1>4, <1>5 DEF QuietIsHarmless
<1>6. CASE Changed
  BY <1>6 DEF Changed
<1>7. ASSUME NEW u \in Users,
             SetTips(u) \/ SetWeekly(u) \/ SetPlan(u) \/ SetConnected(u) \/ SetBusy(u)
      PROVE  Changed
  BY <1>7 DEF SetTips, SetWeekly, SetPlan, SetConnected, SetBusy
<1>8. ASSUME NEW a \in Audits, View(a) \/ SetReplied(a)
      PROVE  Changed
  BY <1>8 DEF View, SetReplied
<1>9. ASSUME NEW x \in Users \cup Audits, Delete(x)
      PROVE  Changed
  BY <1>9 DEF Delete
<1> QED BY <1>5, <1>6, <1>7, <1>8, <1>9 DEF Next, vars, Begin, Sent, Fails, Crash, Pass

-----------------------------------------------------------------------------
(* The life of a mail, as MailPromise tells it.                            *)

Sending == {m \in Mails : \E w \in Runs : run[w].mail = m}
Forgotten == {m \in Mails : Owner(m) \in gone}

\* What became of the mail run w was waiting for, once `marks` is stored.
Ended(w, marks) ==
    \A m \in Mails : m = run[w].mail /\ Plain(m)' =>
        \/ /\ lastMail'[m] = day
           /\ IF m \in Reminders \/ (m \in Onboarding /\ mark[m] # Never)
              THEN marks[m] = mark[m] ELSE marks[m] = day
        \/ /\ faults' = faults + 1
           /\ lastMail'[m] = lastMail[m] \/ (m \in unsure' /\ lastMail'[m] = day)
           /\ marks[m] = mark[m]

\* Failures are counted, and only what was being sent may leave unseen.
FaultsCounted ==
    /\ faults' \in {faults, faults + 1}
    /\ unsure \subseteq unsure' /\ unsure' \ unsure \subseteq Sending
    /\ unsure' # unsure => faults' = faults + 1

\* What is excused is what is not plain.
LEMMA PlainOrExcused ==
    ASSUME TypeOK, NEW m \in Mails, UNCHANGED gone
    PROVE  Plain(m)' <=> ~Promise!Excused(m)
BY DEF Plain, Promise!Excused, Owner

\* One round of a loop after the end of a mail, or at the start of a run.
LEMMA RoundRefines ==
    ASSUME IInv, IInv', NEW w \in Runs, NEW rest \in SUBSET Mails,
           NEW planRead \in SUBSET Users,
           NEW marks \in [Mails -> Days \cup {Never}],
           Loop(w, rest, planRead, marks),
           run[w].mail \notin rest,
           shared' = shared \cup Contended(w),
           UNCHANGED <<day, gone, quiet>>,
           FaultsCounted, Ended(w, marks),
           \A m \in Mails :
                /\ lastMail'[m] = lastMail[m] \/ (m = run[w].mail /\ lastMail'[m] = day)
                /\ \/ marks[m] = mark[m]
                   \/ m = run[w].mail /\ Owner(m) \notin gone /\ marks[m] = day
    PROVE  Promise!Work
<1>1. TypeOK /\ day # Never
  BY MailAssumption DEF IInv, TypeOK, Days, Never
<1>2. LoopDid(w, rest, planRead, marks)
  BY <1>1, LoopEffect
<1> USE DEF LoopDid
<1>3. shared \subseteq shared' /\ (shared' \ shared) \cap Onboarding \subseteq Sending
  BY DEF Contended, Sending
<1>4. Sending' \cap quiet = {}
  BY DEF IInv, QuietIsHarmless, Sending
<1>5. ASSUME NEW m \in Mails
      PROVE  Promise!Always(m)
  <2>1. lastMail'[m] = lastMail[m] \/ (m \in Sending /\ lastMail'[m] = day)
    BY DEF Sending
  <2>2. mark'[m] = mark[m] \/ (Owner(m) \notin gone /\ mark'[m] = day)
    BY <1>2
  <2> QED BY <2>1, <2>2 DEF Promise!Always, Sending
<1>6. ASSUME NEW m \in Mails, ~Promise!Excused(m)
      PROVE  \/ Promise!Rest(m) \/ Promise!TakeUp(m) \/ Promise!Leave(m)
             \/ Promise!Miss(m) \/ Promise!Waive(m)
  <2>1. /\ Plain(m) /\ Plain(m)' /\ m \in Mails \ shared /\ m \notin shared'
        /\ Owner(m) \notin gone
    BY <1>1, <1>3, <1>6, PlainOrExcused DEF Plain, Owner, FaultsCounted
  <2>2. m # None
    BY Kinds
  <2>3. CASE m = run[w].mail
    <3>1. \A v \in Runs : run[v].mail = m => v = w
      BY <2>1, <2>3 DEF IInv, AfterByOne, After
    <3>2. run'[w].mail # m /\ m \notin rest
      BY <1>2, <2>2, <2>3
    <3>3. m \in Sending /\ m \notin Sending'
      BY <1>2, <2>3, <3>1, <3>2 DEF Sending
    <3>4. mark'[m] = marks[m]
      BY <1>2, <3>2
    <3> QED BY <2>1, <2>3, <3>3, <3>4 DEF Ended, Promise!Leave, Promise!Miss, Sending, Never,
                                         Promise!Never
  <2>4. CASE m # run[w].mail /\ m = run'[w].mail
    <3>1. m \in Sending' /\ lastMail'[m] = lastMail[m] /\ marks[m] = mark[m]
      BY <2>4 DEF Sending
    <3>2. m \notin Sending
      <4>1. \A v \in Runs : run'[v].mail = m => v = w
        BY <2>1, <2>4 DEF IInv, AfterByOne, After
      <4> QED BY <1>2, <2>4, <4>1 DEF Sending
    <3>3. Fresh(m)
      BY <2>1, <2>4, <3>1 DEF IInv, AfterIsFresh, After, Fresh
    <3>4. IF m \in Reminders THEN mark'[m] = day ELSE mark'[m] = mark[m]
      BY <1>2, <2>1, <2>4, <3>1
    <3> QED BY <3>1, <3>2, <3>3, <3>4
            DEF Promise!TakeUp, Promise!Fresh, Fresh, Sending, Never, Promise!Never
  <2>5. CASE m # run[w].mail /\ m # run'[w].mail
    <3>1. m \in Sending <=> m \in Sending'
      BY <1>2, <2>5 DEF Sending
    <3>2. lastMail'[m] = lastMail[m] /\ marks[m] = mark[m]
      BY <2>5
    <3>3. \/ mark'[m] = mark[m]
          \/ m \in Onboarding /\ mark[m] = Never /\ mark'[m] = day
      BY <1>2, <2>5, <3>2
    <3> QED BY <3>1, <3>2, <3>3 DEF Promise!Rest, Promise!Waive, Sending, Never, Promise!Never
  <2> QED BY <2>3, <2>4, <2>5
<1>7. Forgotten' = Forgotten
  BY DEF Forgotten, Owner
<1> QED BY <1>3, <1>4, <1>5, <1>6, <1>7
        DEF Promise!Work, Promise!Mails, Mails, FaultsCounted, Sending, Forgotten

LEMMA BeginRefines ==
    ASSUME IInv, IInv', NEW w \in Runs, NEW job \in Jobs, Begin(w, job)
    PROVE  Promise!Work
<1>1. /\ Candidates(job) \in SUBSET Mails /\ PlanRead(job) \in SUBSET Users
      /\ mark \in [Mails -> Days \cup {Never}]
  BY DEF IInv, TypeOK, Candidates, PlanRead
<1>2. /\ Loop(w, Candidates(job), PlanRead(job), mark)
      /\ shared' = shared \cup Contended(w) /\ run[w].mail = None
      /\ UNCHANGED <<day, gone, quiet, faults, lastMail, unsure>>
  BY DEF Begin, settings, Idle
<1>3. None \notin Mails
  BY MailAssumption
<1>4. FaultsCounted /\ Ended(w, mark)
  BY <1>2, <1>3 DEF FaultsCounted, Ended
<1> QED BY <1>1, <1>2, <1>3, <1>4, RoundRefines

LEMMA BackRefines ==
    ASSUME IInv, IInv', NEW w \in Runs, run[w].mail # None,
           NEW left \in SUBSET {w}, NEW ok \in BOOLEAN,
           IF ok THEN left = {w} /\ unsure' = unsure /\ faults' = faults
                 ELSE faults' = faults + 1 /\ unsure' = unsure \cup {run[v].mail : v \in left},
           Leave(left),
           Loop(w, run[w].todo, run[w].paid, MarkedAfter(run[w].mail, ok, mark)),
           shared' = shared \cup Contended(w),
           UNCHANGED <<day, gone, quiet>>
    PROVE  Promise!Work
<1> DEFINE out == run[w].mail
           marks == MarkedAfter(out, ok, mark)
<1>1. /\ TypeOK /\ out \in Mails /\ run[w].todo \in SUBSET Mails
      /\ run[w].paid \in SUBSET Users /\ out \notin run[w].todo
  BY DEF IInv, TypeOK, Run, NotInTodo
<1>2. \A m \in Mails :
          \/ lastMail'[m] = day /\ m = out /\ left = {w}
          \/ lastMail'[m] = lastMail[m] /\ ~(m = out /\ left = {w})
  BY <1>1, LeaveEffect
<1>3. day \in Days \cup {Never}
  BY <1>1 DEF TypeOK
<1>4. /\ marks \in [Mails -> Days \cup {Never}]
      /\ \A m \in Mails : marks[m] = mark[m]
                          \/ (m = out /\ Owner(m) \notin gone /\ marks[m] = day)
      /\ IF ~ok \/ out \in Reminders \/ Owner(out) \in gone
            \/ (out \in Onboarding /\ mark[out] # Never)
         THEN marks[out] = mark[out] ELSE marks[out] = day
  BY <1>1, <1>3 DEF MarkedAfter, TypeOK
<1>5. FaultsCounted
  <2>1. out \in Sending /\ {run[v].mail : v \in left} \subseteq {out}
    BY <1>1 DEF Sending
  <2>2. faults' \in {faults, faults + 1}
    OBVIOUS
  <2> QED BY <2>1, <2>2 DEF FaultsCounted
<1>6. Ended(w, marks)
  <2> SUFFICES ASSUME NEW m \in Mails, m = out, Plain(m)'
               PROVE
        \/ /\ lastMail'[m] = day
           /\ IF m \in Reminders \/ (m \in Onboarding /\ mark[m] # Never)
              THEN marks[m] = mark[m] ELSE marks[m] = day
        \/ /\ faults' = faults + 1
           /\ lastMail'[m] = lastMail[m] \/ (m \in unsure' /\ lastMail'[m] = day)
           /\ marks[m] = mark[m]
    BY DEF Ended
  <2>1. Owner(m) \notin gone
    BY DEF Plain, Owner
  <2>2. CASE ok
    <3>1. lastMail'[m] = day
      BY <1>2, <2>2
    <3>2. IF m \in Reminders \/ (m \in Onboarding /\ mark[m] # Never)
          THEN marks[m] = mark[m] ELSE marks[m] = day
      BY <1>4, <2>1, <2>2
    <3> QED BY <3>1, <3>2
  <2>3. CASE ~ok
    <3>1. faults' = faults + 1 /\ marks[m] = mark[m]
      BY <1>4, <2>3
    <3>2. left = {w} => m \in unsure'
      BY <2>3
    <3> QED BY <1>2, <3>1, <3>2
  <2> QED BY <2>2, <2>3
<1> HIDE DEF marks
<1>7. Loop(w, run[w].todo, run[w].paid, marks)
  BY DEF marks
<1> QED BY <1>1, <1>2, <1>4, <1>5, <1>6, <1>7, RoundRefines

LEMMA CrashRefines ==
    ASSUME IInv, IInv', Crash
    PROVE  Promise!Work
<1> PICK left \in SUBSET {w \in Runs : run[w].mail # None} :
        /\ Leave(left)
        /\ unsure' = unsure \cup {run[w].mail : w \in left}
  BY DEF Crash
<1>1. /\ run' = [w \in Runs |-> Idle] /\ faults' = faults + 1
      /\ UNCHANGED <<day, gone, mark, shared, quiet>>
  BY DEF Crash, Fault, settings
<1>2. TypeOK /\ \A w \in left : w \in Runs /\ run[w].mail \in Mails
  BY DEF IInv, TypeOK, Run
<1>3. \A m \in Mails :
          \/ lastMail'[m] = day /\ \E w \in left : run[w].mail = m
          \/ lastMail'[m] = lastMail[m] /\ ~\E w \in left : run[w].mail = m
  BY <1>2, LeaveEffect
<1>4. Sending' = {}
  BY <1>1, MailAssumption DEF Sending, Idle
<1>5. FaultsCounted
  BY <1>1, <1>2 DEF FaultsCounted, Sending
<1>6. ASSUME NEW m \in Mails
      PROVE  Promise!Always(m) /\ (Promise!Rest(m) \/ Promise!Miss(m))
  <2>1. lastMail'[m] = lastMail[m] \/ (m \in Sending /\ lastMail'[m] = day /\ m \in unsure')
    BY <1>2, <1>3 DEF Sending
  <2>2. mark'[m] = mark[m]
    BY <1>1
  <2>3. m \notin Sending'
    BY <1>4
  <2> QED BY <1>1, <2>1, <2>2, <2>3 DEF Promise!Always, Promise!Rest, Promise!Miss, Sending
<1>7. Forgotten' = Forgotten
  BY <1>1 DEF Forgotten, Owner
<1> QED BY <1>1, <1>4, <1>5, <1>6, <1>7
        DEF Promise!Work, Promise!Mails, Mails, FaultsCounted, Sending, Forgotten

\* What is deleted takes its marks along.
LEMMA ChangedRefines ==
    ASSUME IInv, IInv', Changed, gone \subseteq gone',
           mark' = mark \/ mark' = [m \in Mails |-> IF Owner(m) \in gone' \ gone
                                                    THEN Never ELSE mark[m]]
    PROVE  Promise!Settings
<1>1. /\ quiet' \subseteq Mails
      /\ UNCHANGED <<day, run, faults, lastMail, shared, unsure>>
  BY DEF Changed
<1>2. quiet' \cap Sending = {}
  BY <1>1 DEF IInv, QuietIsHarmless, Sending
<1>3. /\ mark \in [Mails -> Days \cup {Never}] /\ mark' \in [Mails -> Days \cup {Never}]
      /\ \A m \in Mails : Owner(m) \in gone => mark[m] = Never
      /\ \A m \in Mails : Owner(m) \in gone' => mark'[m] = Never
  BY DEF IInv, TypeOK, Owner
<1>4. \A m \in Mails : m \in Forgotten' <=> Owner(m) \in gone'
  BY DEF Forgotten, Owner
<1>5. \A m \in Mails : mark'[m] = IF m \in Forgotten' THEN Never ELSE mark[m]
  BY <1>3, <1>4
<1>6. mark' = [m \in Mails |-> IF m \in Forgotten' THEN Never ELSE mark[m]]
  BY <1>3, <1>5
<1>7. Forgotten \subseteq Forgotten'
  BY <1>4 DEF Forgotten
<1>8. Sending' = Sending
  BY <1>1 DEF Sending
<1> QED BY <1>1, <1>2, <1>6, <1>7, <1>8
        DEF Promise!Settings, Promise!Mails, Mails, Promise!Never, Never, Sending, Forgotten

LEMMA StepRefines ==
    ASSUME IInv, IInv', [Next]_vars
    PROVE  [Promise!Next]_(Promise!promise)
<1>1. ASSUME Changed, gone' = gone, mark' = mark
      PROVE  Promise!Settings
  BY <1>1, ChangedRefines
<1>2. ASSUME NEW u \in Users,
             SetTips(u) \/ SetWeekly(u) \/ SetPlan(u) \/ SetConnected(u) \/ SetBusy(u)
      PROVE  Promise!Settings
  BY <1>1, <1>2 DEF SetTips, SetWeekly, SetPlan, SetConnected, SetBusy
<1>3. ASSUME NEW a \in Audits, View(a) \/ SetReplied(a)
      PROVE  Promise!Settings
  BY <1>1, <1>3 DEF View, SetReplied
<1>4. ASSUME NEW x \in Users \cup Audits, Delete(x)
      PROVE  Promise!Settings
  <2>1. Changed /\ gone' \ gone = {x} /\ gone \subseteq gone'
        /\ mark' = [m \in Mails |-> IF Owner(m) = x THEN Never ELSE mark[m]]
    BY <1>4 DEF Delete
  <2>2. mark' = [m \in Mails |-> IF Owner(m) \in gone' \ gone THEN Never ELSE mark[m]]
    BY <2>1
  <2> QED BY <2>1, <2>2, ChangedRefines
<1>5. ASSUME NEW w \in Runs, NEW job \in Jobs, Begin(w, job)
      PROVE  Promise!Work
  BY <1>5, BeginRefines
<1>6. ASSUME NEW w \in Runs, Sent(w)
      PROVE  Promise!Work
  <2>1. {w} \in SUBSET {w} /\ TRUE \in BOOLEAN
    OBVIOUS
  <2> QED BY <1>6, <2>1, BackRefines DEF Sent, settings
<1>7. ASSUME NEW w \in Runs, Fails(w)
      PROVE  Promise!Work
  <2>1. PICK left \in SUBSET {w} :
            Leave(left) /\ unsure' = unsure \cup {run[v].mail : v \in left}
    BY <1>7 DEF Fails
  <2>2. FALSE \in BOOLEAN /\ faults' = faults + 1
    BY <1>7 DEF Fails, Fault
  <2> QED BY <1>7, <2>1, <2>2, BackRefines DEF Fails, settings
<1>8. CASE Crash
  BY <1>8, CrashRefines DEF Promise!Next
<1>9. CASE Pass
  <2>1. Sending' = Sending /\ Forgotten' = Forgotten
    BY <1>9 DEF Pass, Sending, Forgotten, settings, Owner
  <2>2. Promise!Pass
    BY <1>9, <2>1 DEF Pass, Promise!Pass, Sending, Forgotten, settings
  <2> QED BY <2>2 DEF Promise!Next
<1>10. CASE UNCHANGED vars
  <2>1. Sending' = Sending /\ Forgotten' = Forgotten
    BY <1>10 DEF vars, Sending, Forgotten, settings, Owner
  <2> QED BY <1>10, <2>1 DEF vars, Promise!promise, Sending, Forgotten, settings
<1> QED BY <1>2, <1>3, <1>4, <1>5, <1>6, <1>7, <1>8, <1>9, <1>10 DEF Next, Promise!Next

-----------------------------------------------------------------------------
(* Theorems.                                                               *)

LEMMA Inductive == Spec => []IInv
BY InitInv, NextKeeps, PTL DEF Spec

\* The types; no mark comes back for a deleted account, whatever runs were
\* still mailing it.
THEOREM TypeCorrect == Spec => []TypeOK
BY Inductive, PTL DEF IInv

\* No mail comes twice but by overlapping runs or a mail the server does not
\* know has left; the three jobs' marks are enough for all else.
THEOREM OnceUnlessOverlapHolds == Spec => []OnceUnlessOverlap
BY Inductive, PTL DEF IInv

\* An onboarding or digest mark never runs ahead of its mail.
THEOREM MarkedMeansMailedHolds == Spec => []MarkedMeansMailed
BY Inductive, PTL DEF IInv

\* A reminder never leaves unmarked, and without a failure none is marked in
\* vain.
THEOREM ReminderMatchesMarkHolds == Spec => []ReminderMatchesMark
BY Inductive, PTL DEF IInv

\* Nobody is mailed who declined while no run had the mail in hand.
THEOREM QuietWhenDeclinedHolds == Spec => QuietWhenDeclined
<1>1. IInv /\ [Next]_vars =>
        [\A w \in Runs, m \in quiet : run'[w].mail = m => run[w].mail = m]_vars
  BY NextQuiet
<1> QED BY <1>1, Inductive, PTL DEF Spec, QuietWhenDeclined

\* The queries, the loops and the marks of the three jobs implement MailPromise:
\* each mail is taken up only when it has not left too recently, marked as the
\* kind of mail asks, and lost by faults alone; nobody is mailed who is quiet.
THEOREM ImplementsPromise == Spec => PromiseKept
<1>1. Init => Promise!Init
  <2> SUFFICES ASSUME Init
               PROVE  Promise!Init
    OBVIOUS
  <2>1. Sending = {} /\ Forgotten = {}
    BY MailAssumption DEF Init, Sending, Forgotten, Idle
  <2> QED BY <2>1 DEF Init, Promise!Init, Promise!Mails, Mails, Promise!Never, Never,
                      Sending, Forgotten
<1>2. IInv /\ IInv' /\ [Next]_vars => [Promise!Next]_(Promise!promise)
  BY StepRefines
<1> QED BY <1>1, <1>2, Inductive, PTL DEF Spec, PromiseKept, Promise!Spec

\* No two runs of one job overlap.  Runs of different jobs may.
Apart ==
    \A v, w \in Runs : \A m \in Held(v), n \in Held(w) : m.job = n.job => v = w

ApartSpec == Init /\ [][Next /\ Apart']_vars

\* An overlap is all that can send a reminder twice, and all but an unseen mail
\* that can send any other one twice: with runs shorter than the interval of
\* their timer the marks are enough, across failures and crashes.
THEOREM OnceWhenApart ==
    ApartSpec => [](\A m \in twice : Owner(m) \notin gone => m \in unsure \ Reminders)
<1>1. Init => IInv /\ shared = {}
  BY InitInv DEF Init
<1>2. ASSUME IInv, shared = {}, [Next /\ Apart']_vars
      PROVE  shared' = {}
  <2>1. ASSUME NEW w \in Runs, shared' = shared \cup Contended(w), Apart',
               \A v \in Runs \ {w} : run'[v] = run[v]
        PROVE  shared' = {}
    <3> SUFFICES ASSUME NEW m \in Contended(w)
                 PROVE  FALSE
      BY <1>2, <2>1
    <3>1. PICK v \in Runs \ {w} : m \in Mails /\ m \in Held(v) /\ m \in Held(w)'
      BY Kinds DEF Contended, Held
    <3>2. m \in Held(v)'
      BY <2>1, <3>1 DEF Held
    <3> QED BY <2>1, <3>1, <3>2 DEF Apart
  <2>2. ASSUME NEW w \in Runs, NEW rest, NEW planRead, NEW marks,
               Loop(w, rest, planRead, marks)
        PROVE  \A v \in Runs \ {w} : run'[v] = run[v]
    BY <1>2, <2>2 DEF Loop, IInv, TypeOK
  <2>3. \/ shared' = shared
        \/ \E w \in Runs : /\ shared' = shared \cup Contended(w) /\ Apart'
                           /\ \A v \in Runs \ {w} : run'[v] = run[v]
    BY <1>2, <2>2 DEF Next, vars, Begin, Sent, Fails, Crash, Pass, Changed, SetTips, SetWeekly,
       SetPlan, SetConnected, SetBusy, View, SetReplied, Delete
  <2> QED BY <1>2, <2>1, <2>3
<1>3. IInv /\ shared = {} /\ [Next /\ Apart']_vars => IInv' /\ (shared = {})'
  BY <1>2, NextKeeps
<1>4. IInv /\ shared = {} => \A m \in twice : Owner(m) \notin gone => m \in unsure \ Reminders
  BY DEF IInv, OnceUnlessOverlap
<1> QED BY <1>1, <1>3, <1>4, PTL DEF ApartSpec
=============================================================================
