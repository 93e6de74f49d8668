----------------------- MODULE ReplyPublishing_proofs -----------------------
(***************************************************************************)
(* Theorems about ReplyPublishing, for any number of reviews, requests and *)
(* ticks.  The inductive invariant adds to the properties what every reply *)
(* under way carries with it: a grant whose time has come.                 *)
(***************************************************************************)
EXTENDS ReplyPublishing, TLAPS, FiniteSetTheorems, SequenceTheorems

-----------------------------------------------------------------------------
(* The loop of a tick.                                                     *)

\* A tick reads a sequence of due rows.
LEMMA DueRowsShape ==
    ASSUME NEW q \in DueRows
    PROVE  /\ DOMAIN q = 1..Len(q) /\ Len(q) \in Nat
           /\ \A i \in DOMAIN q : q[i] \in Reviews /\ Due(q[i])
           /\ [i \in DOMAIN q |-> [review |-> q[i], text |-> text[q[i]]]]
                \in Seq([review : Reviews, text : {text[r] : r \in {s \in Reviews : Due(s)}}])
<1> DEFINE due == {r \in Reviews : Due(r)}
           size == IF Cardinality(due) < BatchLimit THEN Cardinality(due)
                                                    ELSE BatchLimit
           f == [i \in DOMAIN q |-> [review |-> q[i], text |-> text[q[i]]]]
           Row == [review : Reviews, text : {text[r] : r \in due}]
<1>1. IsFiniteSet(due)
  BY ReplyAssumption, FS_Subset, due \subseteq Reviews
<1>2. Cardinality(due) \in Nat
  BY <1>1, FS_CardinalityType
<1>3. size \in Nat
  BY <1>2, ReplyAssumption
<1>4. q \in [1..size -> due]
  BY DEF DueRows
<1> HIDE DEF size
<1>5. q \in Seq(due) /\ DOMAIN q = 1..Len(q) /\ Len(q) \in Nat
  BY <1>3, <1>4
<1>6. \A i \in DOMAIN q : q[i] \in due
  BY <1>4
<1>7. \A i \in 1..Len(q) : f[i] \in Row
  BY <1>5, <1>6
<1>8. f = [i \in 1..Len(q) |-> f[i]]
  BY <1>5
<1>9. f \in Seq(Row)
  <2> HIDE DEF f, Row
  <2> QED BY <1>5, <1>7, <1>8
<1> QED BY <1>5, <1>6, <1>9

\* What a stretch of the loop does: it takes schedules away and sets none, it
\* dials at most a row it was given, keeps only rows it was given, and leaves
\* the other callers alone.
LEMMA RunLoopEffect ==
    ASSUME TypeOK, NEW t \in Ticks, NEW q \in Seq(Snapshot),
           NEW schedule \in [Reviews -> Times \cup {Null}],
           RunLoop(t, q, schedule)
    PROVE  /\ sched' \in [Reviews -> Times \cup {Null}]
           /\ \A r \in Reviews : sched'[r] = schedule[r] \/ sched'[r] = Null
           /\ call' \in [Callers -> Dialling \cup {NoCall}]
           /\ \A c \in Callers : c # t => call'[c] = call[c]
           /\ \/ call'[t] = NoCall
              \/ \E k \in 1..Len(q) :
                    call'[t] = [review |-> q[k].review, text |-> q[k].text,
                                first |-> FALSE, landed |-> FALSE]
           /\ queue' \in [Ticks -> Seq(Snapshot)]
           /\ \A s \in Ticks : s # t => queue'[s] = queue[s]
           /\ \A i \in 1..Len(queue'[t]) : \E j \in 1..Len(q) : queue'[t][i] = q[j]
<1>1. PICK k \in 1..(Len(q) + 1) :
        /\ sched' = Unschedule({q[i].review : i \in 1..(k - 1)}, schedule)
        /\ call' = [call EXCEPT ![t] =
               IF k <= Len(q)
               THEN [review |-> q[k].review, text |-> q[k].text,
                     first |-> FALSE, landed |-> FALSE]
               ELSE NoCall]
        /\ queue' = [queue EXCEPT ![t] = SubSeq(q, k + 1, Len(q))]
  BY DEF RunLoop
<1>2. /\ sched' \in [Reviews -> Times \cup {Null}]
      /\ \A r \in Reviews : sched'[r] = schedule[r] \/ sched'[r] = Null
  BY <1>1 DEF Unschedule
<1>3. Len(q) \in Nat /\ \A i \in 1..Len(q) : q[i] \in Snapshot
  OBVIOUS
<1>4. /\ call' \in [Callers -> Dialling \cup {NoCall}]
      /\ \A c \in Callers : c # t => call'[c] = call[c]
      /\ \/ call'[t] = NoCall
         \/ \E j \in 1..Len(q) :
               call'[t] = [review |-> q[j].review, text |-> q[j].text,
                           first |-> FALSE, landed |-> FALSE]
  <2>1. k <= Len(q) => k \in 1..Len(q)
    BY <1>1, <1>3
  <2>2. t \in Callers
    BY DEF Callers
  <2> QED BY <1>1, <1>3, <2>1, <2>2 DEF TypeOK, Dialling, Snapshot
<1>5. /\ SubSeq(q, k + 1, Len(q)) \in Seq(Snapshot)
      /\ \A i \in 1..Len(SubSeq(q, k + 1, Len(q))) :
            \E j \in 1..Len(q) : SubSeq(q, k + 1, Len(q))[i] = q[j]
  <2>1. k \in Nat /\ k >= 1 /\ k <= Len(q) + 1
    BY <1>1, <1>3
  <2>2. SubSeq(q, k + 1, Len(q)) = [i \in 1..(Len(q) - k) |-> q[i + k]]
    BY <1>3, <2>1
  <2>3. \A i \in 1..(Len(q) - k) : i + k \in 1..Len(q)
    BY <1>3, <2>1
  <2> QED BY <1>3, <2>1, <2>2, <2>3
<1>6. /\ queue' \in [Ticks -> Seq(Snapshot)]
      /\ \A s \in Ticks : s # t => queue'[s] = queue[s]
      /\ \A i \in 1..Len(queue'[t]) : \E j \in 1..Len(q) : queue'[t][i] = q[j]
  <2> DEFINE rest == SubSeq(q, k + 1, Len(q))
  <2>1. queue \in [Ticks -> Seq(Snapshot)] /\ queue' = [queue EXCEPT ![t] = rest]
    BY <1>1 DEF TypeOK
  <2>2. rest \in Seq(Snapshot) /\ \A i \in 1..Len(rest) : \E j \in 1..Len(q) : rest[i] = q[j]
    BY <1>5
  <2> HIDE DEF rest
  <2> QED BY <2>1, <2>2
<1> QED BY <1>2, <1>4, <1>6

-----------------------------------------------------------------------------
(* The inductive invariant.                                                *)

CallsGranted ==
    \A c \in Callers : call[c] # NoCall => Granted(call[c].review, call[c].text)

QueuesGranted ==
    \A t \in Ticks : \A i \in 1..Len(queue[t]) :
        Granted(queue[t][i].review, queue[t][i].text)

LandedIsLive ==
    \A c \in Callers : call[c].landed => live[call[c].review] # NoText

IInv ==
    /\ TypeOK
    /\ CallsGranted
    /\ QueuesGranted
    /\ LandedIsLive
    /\ PostedMeansLive
    /\ NeverBeforeItsTime
    /\ QueuedAsAsked

\* A grant is never withdrawn and its time does not come twice.
LEMMA GrantedStays ==
    ASSUME TypeOK, now' \in Times, now <= now', grants \subseteq grants',
           NEW r, NEW x, Granted(r, x)
    PROVE  Granted(r, x)'
<1>1. PICK g \in grants : g.review = r /\ g.text = x /\ g.at <= now
  BY DEF Granted
<1>2. g.at \in Int /\ now \in Int /\ now' \in Int
  BY <1>1, ReplyAssumption DEF TypeOK, Grant, Times
<1> QED BY <1>1, <1>2 DEF Granted

\* A row with a schedule has a text.
LEMMA QueuedHasText ==
    ASSUME TypeOK, QueuedAsAsked, NEW r \in Reviews, sched[r] # Null
    PROVE  text[r] \in Texts /\ text[r] # NoText
<1>1. [review |-> r, text |-> text[r], at |-> sched[r]] \in Grant
  BY DEF QueuedAsAsked, TypeOK
<1>2. text[r] \in Texts
  BY <1>1 DEF Grant
<1> QED BY <1>2, ReplyAssumption

LEMMA InitIInv == Init => IInv
<1> SUFFICES ASSUME Init PROVE IInv
  OBVIOUS
<1>1. TypeOK
  BY ReplyAssumption DEF Init, TypeOK, Times, Dialling, NoCall, Callers
<1>2. CallsGranted /\ QueuesGranted /\ LandedIsLive
  BY DEF Init, CallsGranted, QueuesGranted, LandedIsLive, NoCall, Callers
<1> QED BY <1>1, <1>2 DEF Init, IInv, PostedMeansLive, NeverBeforeItsTime, QueuedAsAsked

LEMMA TimesAreNats == Times \subseteq Nat /\ Null \notin Times /\ 0 \in Times
BY ReplyAssumption DEF Times

-----------------------------------------------------------------------------
(* Every action preserves it.                                              *)

\* Rows appear, are answered without being published, or go.
LEMMA RowsStep ==
    ASSUME IInv,
           \/ \E r \in Reviews : SyncInsert(r)
           \/ \E r \in Reviews, x \in Texts \cup {NoText} : CreateReview(r, x)
           \/ \E r \in Reviews, x \in Texts \cup {NoText} : ImportReview(r, x)
           \/ \E S \in SUBSET Reviews : DeleteReviews(S)
           \/ \E S \in SUBSET Reviews, x \in Texts : BulkRespond(S, x)
    PROVE  IInv'
<1> USE DEF IInv
<1>1. UNCHANGED <<now, connected, postable, call, queue, live, grants, saves, failures, crashes>>
  BY DEF SyncInsert, CreateReview, ImportReview, DeleteReviews, BulkRespond
<1>2. (CallsGranted /\ QueuesGranted /\ LandedIsLive /\ NeverBeforeItsTime)'
  BY <1>1 DEF CallsGranted, QueuesGranted, LandedIsLive, NeverBeforeItsTime, Granted
<1>3. ASSUME NEW r \in Reviews, SyncInsert(r)
      PROVE  (TypeOK /\ PostedMeansLive /\ QueuedAsAsked)'
  BY <1>1, <1>3 DEF SyncInsert, TypeOK, PostedMeansLive, QueuedAsAsked
<1>4. ASSUME NEW r \in Reviews, NEW x \in Texts \cup {NoText},
             CreateReview(r, x) \/ ImportReview(r, x)
      PROVE  (TypeOK /\ PostedMeansLive /\ QueuedAsAsked)'
  <2>1. PostedMeansLive'
    BY <1>1, <1>4 DEF CreateReview, ImportReview, PostedMeansLive
  <2>2. QueuedAsAsked'
    BY <1>1, <1>4 DEF CreateReview, ImportReview, TypeOK, QueuedAsAsked
  <2>3. TypeOK'
    <3>1. announced' \in [Reviews -> Nat]
      BY <1>4 DEF CreateReview, ImportReview, TypeOK
    <3>2. /\ row' = [row EXCEPT ![r] = "present"]
          /\ text' = [text EXCEPT ![r] = x]
          /\ respondedAt' = [respondedAt EXCEPT ![r] = IF x = NoText THEN Null ELSE now]
          /\ UNCHANGED <<sched, posted>>
      BY <1>4 DEF CreateReview, ImportReview
    <3> QED BY <1>1, <3>1, <3>2 DEF TypeOK
  <2> QED BY <2>1, <2>2, <2>3
<1>5. ASSUME NEW S \in SUBSET Reviews, DeleteReviews(S)
      PROVE  (TypeOK /\ PostedMeansLive /\ QueuedAsAsked)'
  <2>1. TypeOK'
    BY <1>1, <1>5 DEF DeleteReviews, TypeOK
  <2>2. PostedMeansLive' /\ QueuedAsAsked'
    BY <1>1, <1>5 DEF DeleteReviews, PostedMeansLive, QueuedAsAsked
  <2> QED BY <2>1, <2>2
<1>6. ASSUME NEW S \in SUBSET Reviews, NEW x \in Texts, BulkRespond(S, x)
      PROVE  (TypeOK /\ PostedMeansLive /\ QueuedAsAsked)'
  <2>1. TypeOK'
    BY <1>1, <1>6 DEF BulkRespond, Unanswered, TypeOK
  <2>2. PostedMeansLive'
    BY <1>1, <1>6 DEF BulkRespond, PostedMeansLive
  <2>3. \A r \in Unanswered(S) : sched[r] = Null
    BY QueuedHasText DEF Unanswered
  <2>4. QueuedAsAsked'
    BY <1>1, <1>6, <2>3 DEF BulkRespond, QueuedAsAsked
  <2> QED BY <2>1, <2>2, <2>4
<1> QED BY <1>2, <1>3, <1>4, <1>5, <1>6

\* A save records what it asks for before it dials or queues it.
LEMMA RespondStep ==
    ASSUME IInv, NEW q \in Requests, NEW r \in Reviews, NEW x \in Texts,
           NEW at \in Times \cup {Null}, Respond(q, r, x, at)
    PROVE  IInv'
<1> DEFINE asked == [review |-> r, text |-> x, at |-> IF at = Null THEN now ELSE at]
           dialled == [review |-> r, text |-> x, first |-> IsFirstResponse(r),
                       landed |-> FALSE]
<1> USE DEF IInv
<1>1. /\ call' = IF DialsNow(r, at) THEN [call EXCEPT ![q] = dialled] ELSE call
      /\ grants' = grants \cup {asked}
      /\ text' = [text EXCEPT ![r] = x]
      /\ sched' = [sched EXCEPT ![r] = at]
      /\ row[r] = "present" /\ saves < MaxSaves /\ saves' = saves + 1
      /\ respondedAt' = [respondedAt EXCEPT ![r] = IF IsFirstResponse(r) THEN now ELSE @]
      /\ Announce(r, IsFirstResponse(r) /\ ~DialsNow(r, at))
      /\ UNCHANGED <<now, row, posted, connected, postable, queue, live, failures, crashes>>
  BY DEF Respond
<1>2. DialsNow(r, at) => at = Null
  BY DEF DialsNow
<1>3. asked \in Grant /\ asked.at \in Times
  BY DEF Grant, TypeOK
<1>4. q \in Callers /\ IsFirstResponse(r) \in BOOLEAN
  BY DEF Callers, IsFirstResponse
<1>5. TypeOK'
  <2>1. call' \in [Callers -> Dialling \cup {NoCall}]
    BY <1>1, <1>4 DEF TypeOK, Dialling
  <2>2. announced' \in [Reviews -> Nat]
    BY <1>1 DEF Announce, TypeOK
  <2>3. saves' \in 0..MaxSaves
    BY <1>1, ReplyAssumption DEF TypeOK
  <2>4. text' \in [Reviews -> Texts \cup {NoText}] /\ sched' \in [Reviews -> Times \cup {Null}]
        /\ respondedAt' \in [Reviews -> Times \cup {Null}]
    BY <1>1 DEF TypeOK
  <2>5. \A s \in Reviews : row[s] # "present" =>
          text'[s] = NoText /\ sched'[s] = Null /\ ~posted[s] /\ respondedAt'[s] = Null
    BY <1>1 DEF TypeOK
  <2> QED BY <1>1, <1>3, <2>1, <2>2, <2>3, <2>4, <2>5 DEF TypeOK
<1>6. \A s, y : Granted(s, y) => Granted(s, y)'
  BY <1>1, TimesAreNats, GrantedStays DEF TypeOK
<1>7. at = Null => Granted(r, x)'
  <2> SUFFICES ASSUME at = Null PROVE Granted(r, x)'
    OBVIOUS
  <2>1. asked \in grants' /\ asked.review = r /\ asked.text = x /\ asked.at = now
    BY <1>1
  <2>2. now' \in Nat /\ now' = now
    BY <1>1, TimesAreNats DEF TypeOK
  <2> HIDE DEF asked
  <2> QED BY <2>1, <2>2 DEF Granted
<1>8. CallsGranted'
  <2> SUFFICES ASSUME NEW c \in Callers, call'[c] # NoCall
               PROVE  Granted(call[c].review, call[c].text)'
    BY DEF CallsGranted
  <2>1. CASE call'[c] = call[c]
    <3>1. Granted(call[c].review, call[c].text)
      BY <2>1 DEF CallsGranted
    <3> QED BY <3>1, <2>1, <1>6 DEF Granted
  <2>2. CASE call'[c] # call[c]
    <3>1. c = q /\ DialsNow(r, at) /\ call'[c] = dialled
      BY <2>2, <1>1, <1>4 DEF TypeOK
    <3> QED BY <3>1, <1>2, <1>7 DEF Granted
  <2> QED BY <2>1, <2>2
<1>9. QueuesGranted'
  BY <1>1, <1>6 DEF QueuesGranted, TypeOK, Snapshot
<1>10. LandedIsLive' /\ PostedMeansLive'
  BY <1>1, <1>4 DEF LandedIsLive, PostedMeansLive, TypeOK
<1>11. NeverBeforeItsTime'
  BY <1>1, <1>6 DEF NeverBeforeItsTime, TypeOK
<1>12. QueuedAsAsked'
  BY <1>1 DEF QueuedAsAsked, TypeOK
<1> QED BY <1>5, <1>8, <1>9, <1>10, <1>11, <1>12

\* The answer to a request's call: its review may have been edited, deleted
\* or scheduled meanwhile.
LEMMA AnswerStep ==
    ASSUME IInv, NEW q \in Requests, RespondPosted(q) \/ RespondFailed(q)
    PROVE  IInv'
<1> USE DEF IInv
<1>1. /\ call[q] # NoCall
      /\ call' = [call EXCEPT ![q] = NoCall]
      /\ Announce(call[q].review, call[q].first)
      /\ UNCHANGED <<now, row, text, sched, respondedAt, connected, postable,
                     queue, live, grants, saves, crashes>>
  BY DEF RespondPosted, RespondFailed
<1>2. q \in Callers /\ call[q] \in Dialling
  BY <1>1 DEF Callers, TypeOK
<1>3. call[q].review \in Reviews /\ call[q].first \in BOOLEAN
  BY <1>2 DEF Dialling
<1>4. \/ MarkPosted(call[q].review) /\ call[q].landed /\ UNCHANGED failures
      \/ UNCHANGED posted /\ failures < MaxFailures /\ failures' = failures + 1
  BY DEF RespondPosted, RespondFailed
<1>5. /\ posted' \in [Reviews -> BOOLEAN]
      /\ \A r \in Reviews : posted'[r] =>
            posted[r] \/ (r = call[q].review /\ call[q].landed /\ row[r] = "present")
  <2>1. CASE UNCHANGED posted
    BY <2>1 DEF TypeOK
  <2>2. CASE MarkPosted(call[q].review) /\ call[q].landed
    BY <2>2, <1>3 DEF MarkPosted, TypeOK
  <2> QED BY <2>1, <2>2, <1>4
<1>6. TypeOK'
  <2>1. announced' \in [Reviews -> Nat]
    BY <1>1, <1>3 DEF Announce, TypeOK
  <2>2. failures' \in 0..MaxFailures
    BY <1>4, ReplyAssumption DEF TypeOK
  <2>3. call' \in [Callers -> Dialling \cup {NoCall}]
    BY <1>1, <1>2 DEF TypeOK
  <2> QED BY <1>1, <1>5, <2>1, <2>2, <2>3 DEF TypeOK
<1>7. CallsGranted' /\ LandedIsLive'
  <2>1. \A c \in Callers : call'[c] = call[c] \/ call'[c] = NoCall
    BY <1>1 DEF TypeOK
  <2> QED BY <1>1, <2>1 DEF CallsGranted, LandedIsLive, Granted, NoCall
<1>8. QueuesGranted' /\ NeverBeforeItsTime' /\ QueuedAsAsked'
  BY <1>1 DEF QueuesGranted, NeverBeforeItsTime, QueuedAsAsked, Granted
<1>9. PostedMeansLive'
  BY <1>1, <1>2, <1>5 DEF PostedMeansLive, LandedIsLive
<1> QED BY <1>6, <1>7, <1>8, <1>9

\* The tick t runs its loop over rows whose replies have been granted, with
\* the schedule as it stands or with entries taken away.
LEMMA LoopStep ==
    ASSUME IInv, NEW t \in Ticks, NEW q \in Seq(Snapshot),
           NEW schedule \in [Reviews -> Times \cup {Null}],
           \A r \in Reviews : schedule[r] = sched[r] \/ schedule[r] = Null,
           \A i \in 1..Len(q) : Granted(q[i].review, q[i].text),
           RunLoop(t, q, schedule),
           posted' \in [Reviews -> BOOLEAN],
           \A r \in Reviews : posted'[r] =>
              posted[r] \/ (live[r] # NoText /\ row[r] = "present"),
           failures' \in 0..MaxFailures,
           UNCHANGED <<now, row, text, respondedAt, connected, postable, live,
                       grants, announced, saves, crashes>>
    PROVE  IInv'
<1> USE DEF IInv
<1>1. /\ sched' \in [Reviews -> Times \cup {Null}]
      /\ \A r \in Reviews : sched'[r] = schedule[r] \/ sched'[r] = Null
      /\ call' \in [Callers -> Dialling \cup {NoCall}]
      /\ \A c \in Callers : c # t => call'[c] = call[c]
      /\ \/ call'[t] = NoCall
         \/ \E k \in 1..Len(q) :
               call'[t] = [review |-> q[k].review, text |-> q[k].text,
                           first |-> FALSE, landed |-> FALSE]
      /\ queue' \in [Ticks -> Seq(Snapshot)]
      /\ \A s \in Ticks : s # t => queue'[s] = queue[s]
      /\ \A i \in 1..Len(queue'[t]) : \E j \in 1..Len(q) : queue'[t][i] = q[j]
  BY RunLoopEffect
<1>2. TypeOK'
  BY <1>1 DEF TypeOK
<1>3. CallsGranted'
  <2> SUFFICES ASSUME NEW c \in Callers, call'[c] # NoCall
               PROVE  Granted(call[c].review, call[c].text)'
    BY DEF CallsGranted
  <2>1. CASE c # t
    <3>1. call'[c] = call[c]
      BY <1>1, <2>1
    <3>2. Granted(call[c].review, call[c].text)
      BY <3>1 DEF CallsGranted
    <3> QED BY <3>1, <3>2 DEF Granted
  <2>2. CASE c = t
    <3>1. PICK k \in 1..Len(q) :
            call'[c] = [review |-> q[k].review, text |-> q[k].text,
                        first |-> FALSE, landed |-> FALSE]
      BY <1>1, <2>2
    <3>2. \E g \in grants : g.review = q[k].review /\ g.text = q[k].text /\ g.at <= now
      BY DEF Granted
    <3> QED BY <3>1, <3>2 DEF Granted
  <2> QED BY <2>1, <2>2
<1>4. QueuesGranted'
  <2> SUFFICES ASSUME NEW s \in Ticks, NEW i \in 1..Len(queue'[s])
               PROVE  Granted(queue[s][i].review, queue[s][i].text)'
    BY DEF QueuesGranted
  <2>1. CASE s # t
    <3>1. queue'[s] = queue[s]
      BY <1>1, <2>1
    <3>2. Granted(queue[s][i].review, queue[s][i].text)
      BY <3>1 DEF QueuesGranted
    <3> QED BY <3>1, <3>2 DEF Granted
  <2>2. CASE s = t
    <3>1. PICK j \in 1..Len(q) : queue'[s][i] = q[j]
      BY <1>1, <2>2
    <3>2. \E g \in grants : g.review = q[j].review /\ g.text = q[j].text /\ g.at <= now
      BY DEF Granted
    <3> QED BY <3>1, <3>2 DEF Granted
  <2> QED BY <2>1, <2>2
<1>5. LandedIsLive'
  <2> SUFFICES ASSUME NEW c \in Callers, call'[c].landed
               PROVE  live'[call'[c].review] # NoText
    BY DEF LandedIsLive
  <2>1. c # t
    <3> SUFFICES ASSUME c = t PROVE FALSE
      OBVIOUS
    <3>1. CASE call'[t] = NoCall
      BY <3>1 DEF NoCall
    <3>2. CASE \E k \in 1..Len(q) :
                 call'[t] = [review |-> q[k].review, text |-> q[k].text,
                             first |-> FALSE, landed |-> FALSE]
      BY <3>2
    <3> QED BY <1>1, <3>1, <3>2
  <2> QED BY <1>1, <2>1 DEF LandedIsLive
<1>6. PostedMeansLive' /\ NeverBeforeItsTime'
  BY DEF PostedMeansLive, NeverBeforeItsTime, Granted
<1>7. QueuedAsAsked'
  BY <1>1 DEF QueuedAsAsked
<1> QED BY <1>2, <1>3, <1>4, <1>5, <1>6, <1>7

LEMMA TickStep == ASSUME IInv, NEW t \in Ticks, Tick(t) PROVE IInv'
<1> USE DEF IInv
<1>1. PICK q \in DueRows :
        RunLoop(t, [i \in DOMAIN q |-> [review |-> q[i], text |-> text[q[i]]]], sched)
  BY DEF Tick
<1> DEFINE f == [i \in DOMAIN q |-> [review |-> q[i], text |-> text[q[i]]]]
<1>2. \A r \in Reviews : Due(r) => Granted(r, text[r]) /\ text[r] \in Texts
  <2> SUFFICES ASSUME NEW r \in Reviews, Due(r)
               PROVE  Granted(r, text[r]) /\ text[r] \in Texts
    OBVIOUS
  <2>1. [review |-> r, text |-> text[r], at |-> sched[r]] \in grants /\ sched[r] <= now
    BY DEF Due, QueuedAsAsked
  <2> QED BY <2>1, QueuedHasText DEF Granted, Due
<1>3. /\ f \in Seq([review : Reviews, text : {text[r] : r \in {s \in Reviews : Due(s)}}])
      /\ DOMAIN q = 1..Len(q) /\ Len(q) \in Nat
      /\ \A i \in DOMAIN q : q[i] \in Reviews /\ Due(q[i])
  BY DueRowsShape
<1>4. f \in Seq(Snapshot) /\ Len(f) = Len(q)
  <2>1. \A i \in 1..Len(q) : f[i] \in Snapshot
    BY <1>2, <1>3 DEF Snapshot
  <2>2. f = [i \in 1..Len(q) |-> f[i]]
    BY <1>3
  <2> HIDE DEF f
  <2> QED BY <1>3, <2>1, <2>2
<1>5. \A i \in 1..Len(f) : Granted(f[i].review, f[i].text)
  BY <1>2, <1>3, <1>4
<1>6. UNCHANGED <<now, row, text, posted, respondedAt, connected, postable,
                  live, grants, announced, saves, failures, crashes>>
  BY DEF Tick
<1>7. posted' \in [Reviews -> BOOLEAN] /\ failures' \in 0..MaxFailures
      /\ sched \in [Reviews -> Times \cup {Null}]
      /\ \A r \in Reviews : posted'[r] => posted[r]
  BY <1>6 DEF TypeOK
<1>8. RunLoop(t, f, sched)
  BY <1>1
<1> HIDE DEF f, IInv
<1> QED BY <1>4, <1>5, <1>6, <1>7, <1>8, LoopStep

LEMMA TickAnswerStep ==
    ASSUME IInv, NEW t \in Ticks, TickPosted(t) \/ TickFailed(t)
    PROVE  IInv'
<1> USE DEF IInv
<1>1. /\ queue[t] \in Seq(Snapshot)
      /\ \A i \in 1..Len(queue[t]) : Granted(queue[t][i].review, queue[t][i].text)
  BY DEF TypeOK, QueuesGranted
<1>2. CASE TickFailed(t)
  <2>1. /\ failures' \in 0..MaxFailures /\ posted' \in [Reviews -> BOOLEAN]
        /\ sched \in [Reviews -> Times \cup {Null}]
        /\ \A r \in Reviews : posted'[r] => posted[r]
        /\ RunLoop(t, queue[t], sched)
        /\ UNCHANGED <<now, row, text, respondedAt, connected, postable, live,
                       grants, announced, saves, crashes>>
    BY <1>2, ReplyAssumption DEF TickFailed, TypeOK
  <2> HIDE DEF IInv
  <2> QED BY <1>1, <2>1, LoopStep
<1>3. CASE TickPosted(t)
  <2>1. t \in Callers /\ call[t] \in Dialling /\ call[t].landed
    BY <1>3 DEF TickPosted, Callers, TypeOK
  <2>2. PICK r \in Reviews : r = call[t].review /\ live[r] # NoText
    BY <2>1 DEF Dialling, LandedIsLive
  <2> DEFINE schedule == Unschedule({r}, sched)
  <2>3. /\ schedule \in [Reviews -> Times \cup {Null}]
        /\ \A s \in Reviews : schedule[s] = sched[s] \/ schedule[s] = Null
    BY DEF Unschedule, TypeOK
  <2>4. /\ posted' \in [Reviews -> BOOLEAN]
        /\ \A s \in Reviews : posted'[s] =>
              posted[s] \/ (live[s] # NoText /\ row[s] = "present")
    BY <1>3, <2>2 DEF TickPosted, MarkPosted, TypeOK
  <2>5. /\ RunLoop(t, queue[t], schedule) /\ failures' \in 0..MaxFailures
        /\ UNCHANGED <<now, row, text, respondedAt, connected, postable, live,
                       grants, announced, saves, crashes>>
    BY <1>3, <2>2 DEF TickPosted, TypeOK
  <2> HIDE DEF IInv, schedule
  <2> QED BY <1>1, <2>3, <2>4, <2>5, LoopStep
<1> QED BY <1>2, <1>3

LEMMA PlatformStep == ASSUME IInv, NEW c \in Callers, PlatformAccepts(c) PROVE IInv'
<1> USE DEF IInv
<1>1. call[c] \in Dialling
  BY DEF PlatformAccepts, TypeOK
<1>2. PICK r \in Reviews, x \in Texts : r = call[c].review /\ x = call[c].text
  BY <1>1 DEF Dialling
<1>3. /\ live' = [live EXCEPT ![r] = x]
      /\ call' = [call EXCEPT ![c] = [call[c] EXCEPT !.landed = TRUE]]
      /\ UNCHANGED <<now, row, text, sched, posted, respondedAt, connected,
                     postable, queue, grants, announced, saves, failures, crashes>>
  BY <1>2 DEF PlatformAccepts
<1>4. Granted(r, x) /\ x # NoText
  BY <1>2, ReplyAssumption DEF CallsGranted, PlatformAccepts
<1>5. TypeOK'
  <2>1. [call[c] EXCEPT !.landed = TRUE] \in Dialling
    BY <1>1 DEF Dialling
  <2>2. call' \in [Callers -> Dialling \cup {NoCall}] /\ live' \in [Reviews -> Texts \cup {NoText}]
    BY <1>3, <2>1 DEF TypeOK
  <2> QED BY <1>3, <2>2 DEF TypeOK
<1>6. \A d \in Callers : call'[d] # NoCall =>
        /\ call[d] # NoCall
        /\ call'[d].review = call[d].review /\ call'[d].text = call[d].text
        /\ call'[d].landed => d = c \/ call[d].landed
  BY <1>1, <1>3 DEF TypeOK, Dialling, PlatformAccepts
<1>7. CallsGranted'
  BY <1>3, <1>6 DEF CallsGranted, Granted
<1>8. \A s \in Reviews : live[s] # NoText \/ s = r => live'[s] # NoText
  BY <1>3, <1>4 DEF TypeOK
<1>9. LandedIsLive'
  <2> SUFFICES ASSUME NEW d \in Callers, call'[d].landed
               PROVE  live'[call'[d].review] # NoText
    BY DEF LandedIsLive
  <2>1. call'[d] # NoCall /\ call[d] \in Dialling
    BY <1>6 DEF NoCall, TypeOK
  <2>2. call[d].review \in Reviews
    BY <2>1 DEF Dialling
  <2> QED BY <1>2, <1>6, <1>8, <2>1, <2>2 DEF LandedIsLive
<1>10. PostedMeansLive' /\ QueuesGranted' /\ QueuedAsAsked'
  BY <1>3, <1>8 DEF PostedMeansLive, QueuesGranted, QueuedAsAsked, Granted
<1>11. NeverBeforeItsTime'
  BY <1>3, <1>4 DEF NeverBeforeItsTime, Granted, TypeOK
<1> QED BY <1>5, <1>7, <1>9, <1>10, <1>11

LEMMA EnvironmentStep ==
    ASSUME IInv, (\E p \in Platforms : SetConnection(p)) \/ Pass \/ Restart
    PROVE  IInv'
<1> USE DEF IInv
<1>1. CASE \E p \in Platforms : SetConnection(p)
  BY <1>1 DEF SetConnection, TypeOK, CallsGranted, QueuesGranted, LandedIsLive,
              PostedMeansLive, NeverBeforeItsTime, QueuedAsAsked, Granted
<1>2. CASE Pass
  <2>1. now' \in Times /\ now <= now'
    BY <1>2, ReplyAssumption DEF Pass, TypeOK, Times
  <2>2. UNCHANGED <<row, text, sched, posted, respondedAt, connected, postable,
                    call, queue, live, grants, announced, saves, failures, crashes>>
    BY <1>2 DEF Pass
  <2>3. \A r, x : Granted(r, x) => Granted(r, x)'
    BY <2>1, <2>2, GrantedStays
  <2>4. TypeOK' /\ LandedIsLive' /\ PostedMeansLive' /\ QueuedAsAsked'
    BY <2>1, <2>2 DEF TypeOK, LandedIsLive, PostedMeansLive, QueuedAsAsked
  <2>5. CallsGranted'
    BY <2>2, <2>3 DEF CallsGranted, Granted
  <2>6. QueuesGranted'
    <3> SUFFICES ASSUME NEW t \in Ticks, NEW i \in 1..Len(queue[t])
                 PROVE  Granted(queue[t][i].review, queue[t][i].text)'
      BY <2>2 DEF QueuesGranted
    <3> DEFINE e == queue[t][i]
    <3>1. Granted(e.review, e.text)
      BY DEF QueuesGranted
    <3>2. e' = e
      BY <2>2
    <3> QED BY <2>3, <3>1, <3>2 DEF Granted
  <2>7. NeverBeforeItsTime'
    BY <2>2, <2>3 DEF NeverBeforeItsTime, Granted
  <2> QED BY <2>4, <2>5, <2>6, <2>7
<1>3. CASE Restart
  <2>1. TypeOK'
    BY <1>3, ReplyAssumption DEF Restart, TypeOK
  <2>2. CallsGranted' /\ QueuesGranted' /\ LandedIsLive'
    BY <1>3 DEF Restart, CallsGranted, QueuesGranted, LandedIsLive, NoCall
  <2>3. PostedMeansLive' /\ NeverBeforeItsTime' /\ QueuedAsAsked'
    BY <1>3 DEF Restart, PostedMeansLive, NeverBeforeItsTime, QueuedAsAsked, Granted
  <2> QED BY <2>1, <2>2, <2>3
<1> QED BY <1>1, <1>2, <1>3

LEMMA NextIInv == IInv /\ [Next]_vars => IInv'
<1> SUFFICES ASSUME IInv, [Next]_vars PROVE IInv'
  OBVIOUS
<1>1. CASE UNCHANGED vars
  BY <1>1 DEF vars, IInv, TypeOK, CallsGranted, QueuesGranted, LandedIsLive,
              PostedMeansLive, NeverBeforeItsTime, QueuedAsAsked, Granted
<1>2. CASE Next
  BY <1>2, RowsStep, RespondStep, AnswerStep, TickStep, TickAnswerStep,
     PlatformStep, EnvironmentStep DEF Next
<1> QED BY <1>1, <1>2

LEMMA Invariance == Spec => []IInv
BY InitIInv, NextIInv, PTL DEF Spec

-----------------------------------------------------------------------------
(* The theorems.                                                           *)

\* Types, and no late UPDATE gives columns to a row that is gone.
THEOREM TypeCorrect == Spec => []TypeOK
<1>1. IInv => TypeOK
  BY DEF IInv
<1> QED BY <1>1, Invariance, PTL

\* However saves, ticks, answers, deletions and restarts interleave, a review
\* badged as posted has a reply on the platform.
THEOREM PostedMeansLiveHolds == Spec => []PostedMeansLive
<1>1. IInv => PostedMeansLive
  BY DEF IInv
<1> QED BY <1>1, Invariance, PTL

\* The platform never shows a text that was not asked for, or not yet.
THEOREM NeverBeforeItsTimeHolds == Spec => []NeverBeforeItsTime
<1>1. IInv => NeverBeforeItsTime
  BY DEF IInv
<1> QED BY <1>1, Invariance, PTL

\* The queue holds what the owner queued.
THEOREM QueuedAsAskedHolds == Spec => []QueuedAsAsked
<1>1. IInv => QueuedAsAsked
  BY DEF IInv
<1> QED BY <1>1, Invariance, PTL

\* responded_at is set once, by whichever route answers first.
THEOREM FirstResponseTimeFixedHolds == Spec => FirstResponseTimeFixed
<1> DEFINE Fixed == \A r \in Reviews : respondedAt[r] # Null /\ row'[r] = "present"
                       => respondedAt'[r] = respondedAt[r]
           answered == \A r \in Reviews : respondedAt[r] # Null => text[r] # NoText
<1>1. Init => answered
  BY ReplyAssumption DEF Init
<1>2. IInv /\ answered /\ [Next]_vars => answered' /\ [Fixed]_vars
  <2> SUFFICES ASSUME IInv, answered, [Next]_vars PROVE answered' /\ Fixed
    OBVIOUS
  <2> USE DEF IInv
  <2>1. CASE UNCHANGED <<row, text, respondedAt>>
    BY <2>1
  <2>2. ASSUME NEW r \in Reviews, NEW x \in Texts \cup {NoText},
               CreateReview(r, x) \/ ImportReview(r, x)
        PROVE  answered' /\ Fixed
    BY <2>2, ReplyAssumption DEF CreateReview, ImportReview, TypeOK
  <2>3. ASSUME NEW S \in SUBSET Reviews, DeleteReviews(S)
        PROVE  answered' /\ Fixed
    BY <2>3 DEF DeleteReviews, TypeOK
  <2>4. ASSUME NEW q \in Requests, NEW r \in Reviews, NEW x \in Texts,
               NEW at \in Times \cup {Null}, Respond(q, r, x, at)
        PROVE  answered' /\ Fixed
    <3>1. x # NoText
      BY ReplyAssumption
    <3>2. /\ text' = [text EXCEPT ![r] = x]
          /\ respondedAt' = [respondedAt EXCEPT ![r] = IF text[r] = NoText THEN now ELSE @]
      BY <2>4 DEF Respond, IsFirstResponse
    <3>3. /\ \A s \in Reviews : text'[s] = IF s = r THEN x ELSE text[s]
          /\ \A s \in Reviews : respondedAt'[s] =
                IF s = r /\ text[s] = NoText THEN now ELSE respondedAt[s]
      BY <3>2 DEF TypeOK
    <3> QED BY <3>1, <3>3
  <2>5. ASSUME NEW S \in SUBSET Reviews, NEW x \in Texts, BulkRespond(S, x)
        PROVE  answered' /\ Fixed
    BY <2>5, ReplyAssumption DEF BulkRespond, Unanswered, TypeOK
  <2>6. ASSUME NEW r \in Reviews, SyncInsert(r)
        PROVE  answered' /\ Fixed
    BY <2>6 DEF SyncInsert, TypeOK
  <2>7. CASE \/ \E q \in Requests : RespondPosted(q) \/ RespondFailed(q)
             \/ \E t \in Ticks : Tick(t) \/ TickPosted(t) \/ TickFailed(t)
             \/ \E c \in Callers : PlatformAccepts(c)
             \/ \E p \in Platforms : SetConnection(p)
             \/ Pass \/ Restart \/ UNCHANGED vars
    <3>1. UNCHANGED <<row, text, respondedAt>>
      BY <2>7 DEF RespondPosted, RespondFailed, Tick, TickPosted, TickFailed,
                  PlatformAccepts, SetConnection, Pass, Restart, vars
    <3> QED BY <3>1, <2>1
  <2> HIDE DEF answered, Fixed
  <2> QED BY <2>2, <2>3, <2>4, <2>5, <2>6, <2>7 DEF Next
<1> HIDE DEF answered, Fixed
<1>3. Spec => [][Fixed]_vars
  BY <1>1, <1>2, Invariance, PTL DEF Spec
<1> QED BY <1>3 DEF FirstResponseTimeFixed, Fixed

-----------------------------------------------------------------------------
(* The first response is announced once.                                   *)

FirstCall(c, r) == call[c] # NoCall /\ call[c].review = r /\ call[c].first

\* The announcement of a first answer is owed by at most one request, and
\* while it is owed the review reads as answered or is gone.
OwedOnce ==
    \A r \in Reviews : \A c \in Callers : FirstCall(c, r) =>
        /\ announced[r] = 0
        /\ row[r] # "absent"
        /\ text[r] # NoText \/ row[r] = "deleted"
        /\ \A d \in Callers : FirstCall(d, r) => d = c

Unannounced ==
    \A r \in Reviews : text[r] = NoText /\ row[r] # "deleted" => announced[r] = 0

AInv == IInv /\ AnnouncedOnce /\ OwedOnce /\ Unannounced

\* A step that announces nothing, empties no text of a live row, brings back
\* no row and makes no request owe a new announcement.
LEMMA QuietStep ==
    ASSUME AInv, IInv', UNCHANGED announced,
           \A r \in Reviews : /\ text'[r] = NoText /\ row'[r] # "deleted" => text[r] = NoText /\ row[r] # "deleted"
                              /\ row[r] # "absent" => row'[r] # "absent",
           \A r \in Reviews, c \in Callers : FirstCall(c, r)' => FirstCall(c, r)
    PROVE  AInv'
<1>1. AnnouncedOnce' /\ Unannounced'
  BY DEF AInv, AnnouncedOnce, Unannounced
<1>2. OwedOnce'
  <2> SUFFICES ASSUME NEW r \in Reviews, NEW c \in Callers, FirstCall(c, r)'
               PROVE  /\ announced'[r] = 0
                      /\ row'[r] # "absent"
                      /\ text'[r] # NoText \/ row'[r] = "deleted"
                      /\ \A d \in Callers : FirstCall(d, r)' => d = c
    BY DEF OwedOnce
  <2>1. FirstCall(c, r)
    OBVIOUS
  <2> QED BY <2>1 DEF AInv, OwedOnce
<1> QED BY <1>1, <1>2 DEF AInv

LEMMA AnnouncingStep ==
    ASSUME AInv, IInv', NEW S \in SUBSET Reviews,
           \A r \in S : row[r] # "deleted" /\ text[r] = NoText,
           \A r \in S : text'[r] # NoText /\ row'[r] = "present",
           \A r \in Reviews \ S : text'[r] = text[r] /\ row'[r] = row[r],
           \A r \in Reviews : announced'[r] = IF r \in S THEN announced[r] + 1 ELSE announced[r],
           UNCHANGED call
    PROVE  AInv'
<1>1. \A r \in S : announced[r] = 0 /\ \A c \in Callers : ~FirstCall(c, r)
  BY DEF AInv, Unannounced, OwedOnce
<1>2. AnnouncedOnce' /\ Unannounced'
  BY <1>1 DEF AInv, AnnouncedOnce, Unannounced
<1>3. OwedOnce'
  BY <1>1 DEF AInv, OwedOnce, FirstCall
<1> QED BY <1>2, <1>3 DEF AInv

LEMMA RespondAnnounces ==
    ASSUME AInv, IInv', NEW q \in Requests, NEW r \in Reviews, NEW x \in Texts,
           NEW at \in Times \cup {Null}, Respond(q, r, x, at)
    PROVE  AInv'
<1>0. TypeOK /\ x # NoText
  BY ReplyAssumption DEF AInv, IInv
<1>1. /\ call' = IF DialsNow(r, at)
                 THEN [call EXCEPT ![q] = [review |-> r, text |-> x,
                                           first |-> IsFirstResponse(r), landed |-> FALSE]]
                 ELSE call
      /\ text' = [text EXCEPT ![r] = x]
      /\ row[r] = "present" /\ row' = row /\ call[q] = NoCall
      /\ Announce(r, IsFirstResponse(r) /\ ~DialsNow(r, at))
  BY DEF Respond
<1>2. CASE IsFirstResponse(r) /\ ~DialsNow(r, at)
  <2>1. \A s \in Reviews : announced'[s] = IF s \in {r} THEN announced[s] + 1 ELSE announced[s]
    BY <1>0, <1>1, <1>2 DEF Announce, TypeOK
  <2>2. \A s \in Reviews : text'[s] = IF s = r THEN x ELSE text[s]
    BY <1>0, <1>1 DEF TypeOK
  <2>3. text[r] = NoText /\ row[r] # "deleted" /\ row'[r] = "present" /\ UNCHANGED call
    BY <1>1, <1>2 DEF IsFirstResponse
  <2>4. {r} \in SUBSET Reviews /\ \A s \in Reviews \ {r} : text'[s] = text[s] /\ row'[s] = row[s]
    BY <1>1, <2>2
  <2>5. \A s \in {r} : /\ row[s] # "deleted" /\ text[s] = NoText
                       /\ text'[s] # NoText /\ row'[s] = "present"
    BY <1>0, <2>2, <2>3
  <2> QED BY <2>1, <2>3, <2>4, <2>5, AnnouncingStep
<1>3. CASE ~IsFirstResponse(r)
  <2>1. UNCHANGED announced
    BY <1>1, <1>3 DEF Announce
  <2>2. \A s \in Reviews, c \in Callers : FirstCall(c, s)' => FirstCall(c, s)
    BY <1>0, <1>1, <1>3 DEF FirstCall, TypeOK
  <2>3. \A s \in Reviews : text'[s] = NoText => text[s] = NoText
    BY <1>0, <1>1 DEF TypeOK
  <2> QED BY <1>1, <2>1, <2>2, <2>3, QuietStep
<1>4. CASE IsFirstResponse(r) /\ DialsNow(r, at)
  <2>1. UNCHANGED announced
    BY <1>1, <1>4 DEF Announce
  <2>2. announced[r] = 0 /\ \A c \in Callers : ~FirstCall(c, r)
    BY <1>1, <1>4 DEF IsFirstResponse, AInv, Unannounced, OwedOnce
  <2>3. \A s \in Reviews, c \in Callers :
           FirstCall(c, s)' => FirstCall(c, s) \/ (c = q /\ s = r)
    BY <1>0, <1>1 DEF FirstCall, TypeOK
  <2>4. \A s \in Reviews : text'[s] = IF s = r THEN x ELSE text[s]
    BY <1>0, <1>1 DEF TypeOK
  <2>5. OwedOnce'
    <3> SUFFICES ASSUME NEW s \in Reviews, NEW c \in Callers, FirstCall(c, s)'
                 PROVE  /\ announced'[s] = 0
                        /\ row'[s] # "absent"
                        /\ text'[s] # NoText \/ row'[s] = "deleted"
                        /\ \A d \in Callers : FirstCall(d, s)' => d = c
      BY DEF OwedOnce
    <3>1. CASE s = r
      BY <1>0, <1>1, <2>1, <2>2, <2>3, <2>4, <3>1
    <3>2. CASE s # r
      BY <1>1, <2>1, <2>3, <2>4, <3>2 DEF AInv, OwedOnce
    <3> QED BY <3>1, <3>2
  <2>6. AnnouncedOnce' /\ Unannounced'
    BY <1>0, <1>1, <2>1, <2>4 DEF AInv, AnnouncedOnce, Unannounced
  <2> QED BY <2>5, <2>6 DEF AInv
<1> QED BY <1>2, <1>3, <1>4

LEMMA AnswerAnnounces ==
    ASSUME AInv, IInv', NEW q \in Requests, RespondPosted(q) \/ RespondFailed(q)
    PROVE  AInv'
<1>1. /\ call[q] # NoCall
      /\ call' = [call EXCEPT ![q] = NoCall]
      /\ Announce(call[q].review, call[q].first)
      /\ UNCHANGED <<row, text>>
  BY DEF RespondPosted, RespondFailed
<1>2. TypeOK /\ q \in Callers /\ call[q] \in Dialling
  BY <1>1 DEF Callers, TypeOK, AInv, IInv
<1> DEFINE r == call[q].review
<1>3. r \in Reviews /\ call[q].first \in BOOLEAN
  BY <1>2 DEF Dialling
<1>4. \A s \in Reviews, c \in Callers : FirstCall(c, s)' <=> c # q /\ FirstCall(c, s)
  BY <1>1, <1>2 DEF FirstCall, TypeOK
<1>5. CASE ~call[q].first
  <2>1. UNCHANGED announced
    BY <1>1, <1>5 DEF Announce
  <2> QED BY <1>1, <1>4, <2>1, QuietStep
<1>6. CASE call[q].first
  <2>1. FirstCall(q, r)
    BY <1>1, <1>6 DEF FirstCall
  <2>2. announced' = [announced EXCEPT ![r] = @ + 1]
    BY <1>1, <1>6 DEF Announce
  <2> HIDE DEF r
  <2>3. /\ announced[r] = 0 /\ (text[r] # NoText \/ row[r] = "deleted")
        /\ \A c \in Callers : FirstCall(c, r) => c = q
    BY <1>2, <1>3, <2>1 DEF AInv, OwedOnce
  <2>4. \A s \in Reviews : announced'[s] = IF s = r THEN 1 ELSE announced[s]
    BY <1>2, <1>3, <2>2, <2>3 DEF TypeOK
  <2>5. AnnouncedOnce' /\ Unannounced'
    BY <1>1, <2>3, <2>4 DEF AInv, AnnouncedOnce, Unannounced
  <2>6. OwedOnce'
    <3> SUFFICES ASSUME NEW s \in Reviews, NEW c \in Callers, FirstCall(c, s)'
                 PROVE  /\ announced'[s] = 0
                        /\ row'[s] # "absent"
                        /\ text'[s] # NoText \/ row'[s] = "deleted"
                        /\ \A d \in Callers : FirstCall(d, s)' => d = c
      BY DEF OwedOnce
    <3>1. FirstCall(c, s) /\ s # r
      BY <1>4, <2>3
    <3> QED BY <1>1, <1>4, <2>4, <3>1 DEF AInv, OwedOnce
  <2> QED BY <2>5, <2>6 DEF AInv
<1> QED BY <1>3, <1>5, <1>6

LEMMA TickQuiet ==
    ASSUME AInv, IInv', NEW t \in Ticks, Tick(t) \/ TickPosted(t) \/ TickFailed(t)
    PROVE  AInv'
<1>1. UNCHANGED <<row, text, announced>>
  BY DEF Tick, TickPosted, TickFailed
<1>2. /\ \A c \in Callers : c # t => call'[c] = call[c]
      /\ call'[t] # NoCall => ~call'[t].first
  <2>1. ASSUME NEW q, NEW schedule, RunLoop(t, q, schedule)
        PROVE  /\ \A c \in Callers : c # t => call'[c] = call[c]
               /\ call'[t] # NoCall => ~call'[t].first
    BY <2>1 DEF RunLoop, AInv, IInv, TypeOK, Callers
  <2> QED BY <2>1 DEF Tick, TickPosted, TickFailed
<1>3. \A s \in Reviews, c \in Callers : FirstCall(c, s)' => FirstCall(c, s)
  BY <1>2 DEF FirstCall
<1> QED BY <1>1, <1>3, QuietStep

LEMMA NextAInv == AInv /\ [Next]_vars => AInv'
<1> SUFFICES ASSUME AInv, [Next]_vars PROVE AInv'
  OBVIOUS
<1>1. IInv'
  BY NextIInv DEF AInv
<1>2. TypeOK
  BY DEF AInv, IInv
<1>3. ASSUME NEW r \in Reviews, SyncInsert(r) PROVE AInv'
  <2>1. UNCHANGED <<text, announced, call>> /\ row' = [row EXCEPT ![r] = "present"]
        /\ row[r] = "absent"
    BY <1>3 DEF SyncInsert
  <2> QED BY <1>1, <1>2, <2>1, QuietStep DEF FirstCall, TypeOK
<1>4. ASSUME NEW r \in Reviews, NEW x \in Texts \cup {NoText}, CreateReview(r, x) PROVE AInv'
  <2>1. /\ row[r] = "absent" /\ text[r] = NoText /\ UNCHANGED call
        /\ row' = [row EXCEPT ![r] = "present"]
        /\ text' = [text EXCEPT ![r] = x]
        /\ announced' = [announced EXCEPT ![r] = IF x = NoText THEN @ ELSE @ + 1]
    BY <1>2, <1>4 DEF CreateReview, TypeOK
  <2>2. CASE x = NoText
    <3>1. UNCHANGED <<announced, text>>
      BY <1>2, <2>1, <2>2 DEF TypeOK
    <3> QED BY <1>1, <1>2, <2>1, <3>1, QuietStep DEF FirstCall, TypeOK
  <2>3. CASE x # NoText
    <3>1. \A s \in Reviews : announced'[s] = IF s \in {r} THEN announced[s] + 1 ELSE announced[s]
      BY <1>2, <2>1, <2>3 DEF TypeOK
    <3>2. \A s \in {r} : /\ row[s] # "deleted" /\ text[s] = NoText
                         /\ text'[s] # NoText /\ row'[s] = "present"
      BY <1>2, <2>1, <2>3 DEF TypeOK
    <3>3. \A s \in Reviews \ {r} : text'[s] = text[s] /\ row'[s] = row[s]
      BY <1>2, <2>1 DEF TypeOK
    <3>4. {r} \in SUBSET Reviews
      OBVIOUS
    <3> QED BY <1>1, <2>1, <3>1, <3>2, <3>3, <3>4, AnnouncingStep
  <2> QED BY <2>2, <2>3
<1>5. ASSUME NEW r \in Reviews, NEW x \in Texts \cup {NoText}, ImportReview(r, x) PROVE AInv'
  <2>1. /\ row[r] = "absent" /\ text[r] = NoText /\ UNCHANGED <<announced, call>>
        /\ row' = [row EXCEPT ![r] = "present"]
        /\ text' = [text EXCEPT ![r] = x]
    BY <1>2, <1>5 DEF ImportReview, TypeOK
  <2> QED BY <1>1, <1>2, <2>1, QuietStep DEF FirstCall, TypeOK
<1>6. ASSUME NEW S \in SUBSET Reviews, DeleteReviews(S) PROVE AInv'
  <2>1. /\ UNCHANGED <<announced, call>>
        /\ \A r \in Reviews : row'[r] = IF r \in S THEN "deleted" ELSE row[r]
        /\ \A r \in Reviews : text'[r] = IF r \in S THEN NoText ELSE text[r]
    BY <1>6 DEF DeleteReviews
  <2> QED BY <1>1, <2>1, QuietStep DEF FirstCall
<1>7. ASSUME NEW S \in SUBSET Reviews, NEW x \in Texts, BulkRespond(S, x) PROVE AInv'
  <2>1. /\ UNCHANGED <<row, call>> /\ Unanswered(S) \in SUBSET Reviews
        /\ \A r \in Unanswered(S) : row[r] = "present" /\ text[r] = NoText
        /\ \A r \in Reviews : text'[r] = IF r \in Unanswered(S) THEN x ELSE text[r]
        /\ \A r \in Reviews : announced'[r] = IF r \in Unanswered(S) THEN announced[r] + 1
                                              ELSE announced[r]
    BY <1>7 DEF BulkRespond, Unanswered
  <2>2. x # NoText
    BY ReplyAssumption
  <2> DEFINE U == Unanswered(S)
  <2>3. /\ U \in SUBSET Reviews
        /\ \A r \in U : row[r] # "deleted" /\ text[r] = NoText
        /\ \A r \in U : text'[r] # NoText /\ row'[r] = "present"
        /\ \A r \in Reviews \ U : text'[r] = text[r] /\ row'[r] = row[r]
        /\ \A r \in Reviews : announced'[r] = IF r \in U THEN announced[r] + 1 ELSE announced[r]
        /\ UNCHANGED call
    BY <2>1, <2>2
  <2> HIDE DEF U
  <2> QED BY <1>1, <2>3, AnnouncingStep
<1>8. ASSUME NEW c \in Callers, PlatformAccepts(c) PROVE AInv'
  <2>1. UNCHANGED <<row, text, announced>> /\ call' = [call EXCEPT ![c].landed = TRUE]
        /\ call[c] # NoCall
    BY <1>8 DEF PlatformAccepts
  <2>2. call[c] \in Dialling
    BY <1>2, <2>1 DEF TypeOK
  <2>3. \A s \in Reviews, d \in Callers : FirstCall(d, s)' => FirstCall(d, s)
    BY <1>2, <2>1, <2>2 DEF FirstCall, TypeOK, Dialling
  <2> QED BY <1>1, <2>1, <2>3, QuietStep
<1>9. CASE (\E p \in Platforms : SetConnection(p)) \/ Pass \/ UNCHANGED vars
  <2>1. UNCHANGED <<row, text, announced, call>>
    BY <1>9 DEF SetConnection, Pass, vars
  <2> QED BY <1>1, <2>1, QuietStep DEF FirstCall
<1>10. CASE Restart
  <2>1. UNCHANGED <<row, text, announced>> /\ call' = [c \in Callers |-> NoCall]
    BY <1>10 DEF Restart
  <2> QED BY <1>1, <2>1, QuietStep DEF FirstCall
<1> QED BY <1>1, <1>3, <1>4, <1>5, <1>6, <1>7, <1>8, <1>9, <1>10,
           RespondAnnounces, AnswerAnnounces, TickQuiet DEF Next

\* No interleaving of first answers, edits, bulk answers, late platform
\* answers, deletions and restarts announces review.responded twice.
THEOREM AnnouncedOnceHolds == Spec => []AnnouncedOnce
<1>1. Init => AInv
  BY InitIInv DEF Init, AInv, AnnouncedOnce, OwedOnce, Unannounced, FirstCall
<1>2. AInv => AnnouncedOnce
  BY DEF AInv
<1> QED BY <1>1, <1>2, NextAInv, PTL DEF Spec

-----------------------------------------------------------------------------
(* Refinement of ReplyPromise.                                             *)

\* Setting the badge is Mark on a review that is still there, a stutter on
\* one that is gone.
LEMMA MarkRefines ==
    ASSUME TypeOK, NEW r \in Reviews, live[r] # NoText, MarkPosted(r),
           UNCHANGED <<now, grants, live>>
    PROVE  [Promise!Next]_(Promise!promise)
<1>1. CASE row[r] = "present"
  <2>1. Promise!Mark(r)
    BY <1>1 DEF MarkPosted, Promise!Mark, TypeOK
  <2> QED BY <2>1 DEF Promise!Next
<1>2. CASE row[r] # "present"
  <2>1. UNCHANGED posted
    BY <1>2 DEF MarkPosted, TypeOK
  <2> QED BY <2>1 DEF Promise!promise
<1> QED BY <1>1, <1>2

LEMMA StepRefines == IInv /\ [Next]_vars => [Promise!Next]_(Promise!promise)
<1> SUFFICES ASSUME IInv, [Next]_vars PROVE [Promise!Next]_(Promise!promise)
  OBVIOUS
<1> USE DEF IInv
<1>1. CASE UNCHANGED <<now, grants, live, posted>>
  BY <1>1 DEF Promise!promise
<1>2. ASSUME NEW S \in SUBSET Reviews, DeleteReviews(S)
      PROVE  [Promise!Next]_(Promise!promise)
  <2>1. Promise!Forget(S)
    BY <1>2 DEF DeleteReviews, Promise!Forget, TypeOK
  <2> QED BY <2>1 DEF Promise!Next
<1>3. ASSUME NEW q \in Requests, NEW r \in Reviews, NEW x \in Texts,
             NEW at \in Times \cup {Null}, Respond(q, r, x, at)
      PROVE  [Promise!Next]_(Promise!promise)
  <2> DEFINE t == IF at = Null THEN now ELSE at
  <2>1. t \in Times /\ t >= now
    BY <1>3, TimesAreNats DEF Respond, TypeOK
  <2>2. Promise!Ask(r, x, t)
    BY <1>3, <2>1 DEF Respond, Promise!Ask
  <2> HIDE DEF t
  <2> QED BY <2>1, <2>2 DEF Promise!Next, Times
<1>4. ASSUME NEW q \in Requests, RespondPosted(q)
      PROVE  [Promise!Next]_(Promise!promise)
  <2>1. q \in Callers /\ call[q] \in Dialling /\ call[q].landed
    BY <1>4 DEF RespondPosted, Callers, TypeOK
  <2>2. call[q].review \in Reviews /\ live[call[q].review] # NoText
    BY <2>1 DEF Dialling, LandedIsLive
  <2> QED BY <1>4, <2>2, MarkRefines DEF RespondPosted
<1>5. ASSUME NEW t \in Ticks, TickPosted(t)
      PROVE  [Promise!Next]_(Promise!promise)
  <2>1. t \in Callers /\ call[t] \in Dialling /\ call[t].landed
    BY <1>5 DEF TickPosted, Callers, TypeOK
  <2>2. call[t].review \in Reviews /\ live[call[t].review] # NoText
    BY <2>1 DEF Dialling, LandedIsLive
  <2> QED BY <1>5, <2>2, MarkRefines DEF TickPosted
<1>6. ASSUME NEW c \in Callers, PlatformAccepts(c)
      PROVE  [Promise!Next]_(Promise!promise)
  <2>1. PICK g \in grants : g.review = call[c].review /\ g.text = call[c].text /\ g.at <= now
    BY <1>6 DEF PlatformAccepts, CallsGranted, Granted
  <2>2. Promise!Publish(g)
    BY <1>6, <2>1 DEF PlatformAccepts, Promise!Publish
  <2> QED BY <2>2 DEF Promise!Next
<1>7. CASE Pass
  BY <1>7 DEF Pass, Promise!Pass, Promise!Next
<1>8. CASE \/ \E r \in Reviews : SyncInsert(r)
           \/ \E r \in Reviews, x \in Texts \cup {NoText} : CreateReview(r, x)
           \/ \E r \in Reviews, x \in Texts \cup {NoText} : ImportReview(r, x)
           \/ \E q \in Requests : RespondFailed(q)
           \/ \E S \in SUBSET Reviews, x \in Texts : BulkRespond(S, x)
           \/ \E t \in Ticks : Tick(t) \/ TickFailed(t)
           \/ \E p \in Platforms : SetConnection(p)
           \/ Restart \/ UNCHANGED vars
  <2>1. UNCHANGED <<now, grants, live, posted>>
    BY <1>8 DEF SyncInsert, CreateReview, ImportReview, RespondFailed, BulkRespond,
                Tick, TickFailed, SetConnection, Restart, vars
  <2> QED BY <2>1, <1>1
<1> QED BY <1>2, <1>3, <1>4, <1>5, <1>6, <1>7, <1>8 DEF Next

\* Every behaviour of the server keeps the promise to the owner.
THEOREM ImplementsPromise == Spec => PromiseKept
<1>1. Init => Promise!Init
  BY DEF Init, Promise!Init
<1> QED BY <1>1, StepRefines, Invariance, PTL DEF Spec, PromiseKept, Promise!Spec
=============================================================================
