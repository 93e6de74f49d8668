------------------------ MODULE ReviewIngestion_proofs ------------------------
(***************************************************************************)
(* Theorems about ReviewIngestion, for any number of reviews, workers and  *)
(* connections and any page size.  What last_synced_at means is inductive  *)
(* only together with what an answer on its way means: it holds every      *)
(* review down to a lower bound at which the table was already complete.   *)
(***************************************************************************)
EXTENDS ReviewIngestion, TLAPS, FiniteSetTheorems

\* A worker under way read its lower bound from a connection that existed,
\* and last_synced_at never moves back while that connection exists.
JobsCarry ==
    \A w \in Workers : job[w].phase # "idle" =>
        /\ job[w].conn \in 1..lastId
        /\ job[w].got \subseteq Published
        /\ job[w].conn = conn => job[w].since <= since

\* An answer holds every review of its window, but for the known ways of
\* being left behind.
AnswersComplete ==
    \A w \in Workers : job[w].phase = "answered" /\ job[w].conn = conn =>
        \A r \in Published :
            r \in job[w].got \/ created[r] < job[w].since \/ r \in late \/ Crowded(r)

IInv == TypeOK /\ JobsCarry /\ AnswersComplete /\ NothingElseSkipped

-----------------------------------------------------------------------------
(* Lemmas.                                                                 *)

LEMMA InitInv == Init => IInv
<1> SUFFICES ASSUME Init
             PROVE  IInv
  OBVIOUS
<1>1. Published = {}
  BY DEF Init, Published
<1>2. TypeOK
  BY <1>1, IngestionAssumption DEF Init, TypeOK, Job, Idle
<1>3. JobsCarry /\ AnswersComplete
  BY DEF Init, JobsCarry, AnswersComplete, Idle
<1>4. NothingElseSkipped
  BY <1>1 DEF NothingElseSkipped
<1> QED BY <1>2, <1>3, <1>4 DEF IInv

\* A review pushed off the page stays off it: reviews are only added, each
\* newer than all before.
LEMMA CrowdedStays ==
    ASSUME TypeOK, NEW r \in Reviews, Write(r),
           NEW x \in Published, Crowded(x)
    PROVE  Crowded(x)'
<1> DEFINE older == {q \in Reviews : created[q] > created[x]}
           newer == {q \in Reviews : created'[q] > created'[x]}
<1>1. /\ x # r /\ created'[x] = created[x]
      /\ created' = [created EXCEPT ![r] = clock]
      /\ created[r] = 0 /\ created[x] \in Nat /\ created[x] <= clock /\ clock \in Nat
  BY DEF Write, Published, TypeOK
<1>2. \A q \in Reviews : created[q] > created[x] => created'[q] > created'[x]
  BY <1>1 DEF TypeOK
<1>3. older \subseteq newer /\ newer \subseteq Reviews
  BY <1>2
<1>4. IsFiniteSet(newer) /\ IsFiniteSet(older)
  BY <1>3, IngestionAssumption, FS_Subset
<1>5. Cardinality(older) <= Cardinality(newer)
  BY <1>3, <1>4, FS_Subset
<1>6. Cardinality(older) \in Nat /\ Cardinality(newer) \in Nat
  BY <1>4, FS_CardinalityType
<1>7. Cardinality(older) >= PageSize
  BY DEF Crowded
<1>8. Cardinality(newer) >= PageSize
  BY <1>5, <1>6, <1>7, IngestionAssumption
<1> QED BY <1>8 DEF Crowded

LEMMA CrowdedSame ==
    ASSUME UNCHANGED created
    PROVE  Published' = Published /\ \A r : Crowded(r)' <=> Crowded(r)
BY DEF Published, Crowded

LEMMA WriteKeeps ==
    ASSUME IInv, NEW r \in Reviews, Write(r)
    PROVE  IInv'
<1> USE DEF IInv
<1>1. /\ created' = [created EXCEPT ![r] = clock] /\ created[r] = 0
      /\ UNCHANGED <<clock, placesOnly, conn, lastId, since, rows, deleted, job,
                     skipped, failed, faults>>
  BY DEF Write
<1>2. /\ Published' = Published \cup {r} /\ r \notin Published
      /\ created'[r] = clock
      /\ \A q \in Published : created'[q] = created[q]
  BY <1>1 DEF Published, TypeOK
<1>3. late \subseteq late' /\ late' \subseteq late \cup {r}
      /\ (AnswerOnItsWay => r \in late')
  BY DEF Write
<1>4. TypeOK'
  BY <1>1, <1>2, <1>3 DEF TypeOK
<1>5. JobsCarry'
  BY <1>1, <1>2 DEF JobsCarry
<1>6. \A x \in Published : Crowded(x) => Crowded(x)'
  BY CrowdedStays
<1>7. AnswersComplete'
  <2> SUFFICES ASSUME NEW w \in Workers, job[w].phase = "answered", job[w].conn = conn,
                      NEW x \in Published'
               PROVE  x \in job[w].got \/ created'[x] < job[w].since \/ x \in late' \/ Crowded(x)'
    BY <1>1 DEF AnswersComplete
  <2>1. CASE x = r
    BY <1>3, <2>1 DEF AnswerOnItsWay
  <2>2. CASE x \in Published
    BY <1>2, <1>3, <1>6, <2>2 DEF AnswersComplete
  <2> QED BY <1>2, <2>1, <2>2
<1>8. NothingElseSkipped'
  <2> SUFFICES ASSUME NEW x \in Published', created'[x] < since
               PROVE  Seen(x)' \/ LeftBehind(x)'
    BY <1>1 DEF NothingElseSkipped
  <2>1. x \in Published
    BY <1>2 DEF TypeOK
  <2>2. Seen(x) \/ LeftBehind(x)
    BY <1>2, <2>1 DEF NothingElseSkipped
  <2> QED BY <1>1, <1>3, <1>6, <2>1, <2>2 DEF Seen, LeftBehind
<1> QED BY <1>4, <1>5, <1>7, <1>8

LEMMA BeginKeeps ==
    ASSUME IInv, NEW w \in Workers, Begin(w)
    PROVE  IInv'
<1> USE DEF IInv
<1>1. UNCHANGED <<clock, created, placesOnly, conn, lastId, since, rows, deleted,
                  late, skipped, failed, faults>> /\ conn # 0
  BY DEF Begin
<1>2. \A v \in Workers : job'[v] =
          IF v = w THEN [phase |-> "fetching", conn |-> conn, since |-> since, got |-> {}]
                   ELSE job[v]
  BY DEF Begin, TypeOK
<1>3. Published' = Published /\ \A r : Crowded(r)' <=> Crowded(r)
  BY <1>1, CrowdedSame
<1>4. TypeOK'
  <2>1. job' \in [Workers -> Job]
    BY DEF Begin, TypeOK, Job
  <2> QED BY <1>1, <1>3, <2>1 DEF TypeOK
<1>5. JobsCarry'
  BY <1>1, <1>2, <1>3 DEF JobsCarry, TypeOK
<1>6. AnswersComplete'
  BY <1>1, <1>2, <1>3 DEF AnswersComplete
<1>7. NothingElseSkipped'
  BY <1>1, <1>3 DEF NothingElseSkipped, Seen, LeftBehind
<1> QED BY <1>4, <1>5, <1>6, <1>7

LEMMA AnswerKeeps ==
    ASSUME IInv, NEW w \in Workers, Answer(w)
    PROVE  IInv'
<1> USE DEF IInv
<1> DEFINE got == {r \in FirstPage : Newer(r, job[w].since)}
<1>1. UNCHANGED <<clock, created, placesOnly, conn, lastId, since, rows, deleted,
                  late, skipped, failed, faults>> /\ job[w].phase = "fetching"
  BY DEF Answer
<1>2. \A v \in Workers : job'[v] =
          IF v = w THEN [phase |-> "answered", conn |-> job[w].conn,
                         since |-> job[w].since, got |-> got]
                   ELSE job[v]
  BY DEF Answer, TypeOK
<1>3. Published' = Published /\ \A r : Crowded(r)' <=> Crowded(r)
  BY <1>1, CrowdedSame
<1>4. got \subseteq Published
  BY DEF FirstPage
<1>5. job[w] \in Job /\ job[w].since \in Nat
  BY DEF TypeOK, Job
<1>a. /\ job'[w].conn = job[w].conn /\ job'[w].since = job[w].since
      /\ job'[w].got = got
  <2> HIDE DEF got
  <2> QED BY <1>2
<1>6. TypeOK'
  <2>1. Published \subseteq Reviews
    BY DEF Published
  <2>2. job' \in [Workers -> Job]
    BY <1>4, <1>5, <2>1 DEF Answer, TypeOK, Job
  <2> QED BY <1>1, <1>3, <2>2 DEF TypeOK
<1>7. JobsCarry'
  <2> SUFFICES ASSUME NEW v \in Workers, job'[v].phase # "idle"
               PROVE  /\ job'[v].conn \in 1..lastId
                      /\ job'[v].got \subseteq Published
                      /\ job'[v].conn = conn => job'[v].since <= since
    BY <1>1, <1>3 DEF JobsCarry
  <2>1. CASE v = w
    <3>1. job[w].conn \in 1..lastId /\ (job[w].conn = conn => job[w].since <= since)
      BY <1>1 DEF JobsCarry
    <3> QED BY <1>4, <1>a, <2>1, <3>1
  <2>2. CASE v # w
    BY <1>2, <2>2 DEF JobsCarry
  <2> QED BY <2>1, <2>2
<1>8. AnswersComplete'
  <2> SUFFICES ASSUME NEW v \in Workers, job'[v].phase = "answered", job'[v].conn = conn,
                      NEW r \in Published
               PROVE  r \in job'[v].got \/ created[r] < job'[v].since \/ r \in late \/ Crowded(r)
    BY <1>1, <1>3 DEF AnswersComplete
  <2>1. CASE v = w
    <3>1. created[r] \in Nat
      BY DEF TypeOK, Published
    <3>2. r \in got \/ created[r] < job[w].since \/ Crowded(r)
      BY <1>5, <3>1 DEF FirstPage, Newer
    <3> QED BY <1>a, <2>1, <3>2
  <2>2. CASE v # w
    BY <1>2, <2>2 DEF AnswersComplete
  <2> QED BY <2>1, <2>2
<1>9. NothingElseSkipped'
  BY <1>1, <1>3 DEF NothingElseSkipped, Seen, LeftBehind
<1> QED BY <1>6, <1>7, <1>8, <1>9

\* What the ends of a sync have in common: the worker goes idle, and its row
\* is stamped or not.
LEMMA EndKeeps ==
    ASSUME IInv, NEW w \in Workers, Finish(w),
           UNCHANGED <<clock, created, placesOnly, conn, lastId, deleted>>,
           since' = since \/ (conn # 0 /\ since' = clock),
           late' = late, faults' \in 0..MaxFaults,
           rows \subseteq rows', rows' \subseteq Published,
           skipped \subseteq skipped', skipped' \subseteq Published,
           failed \subseteq failed', failed' \subseteq Published,
           since' # since => \A r \in Published : created[r] < clock =>
               Seen(r)' \/ LeftBehind(r)'
    PROVE  IInv'
<1> USE DEF IInv
<1>1. \A v \in Workers : job'[v] = IF v = w THEN Idle ELSE job[v]
  BY DEF Finish, TypeOK
<1>2. Published' = Published /\ \A r : Crowded(r)' <=> Crowded(r)
  BY CrowdedSame
<1>3. since \in 0..clock /\ since' \in 0..clock /\ since <= since' /\ clock \in Nat
  BY DEF TypeOK
<1>4. TypeOK'
  <2>1. job' \in [Workers -> Job]
    BY DEF Finish, TypeOK, Job, Idle
  <2>2. conn' = 0 => since' = 0
    BY DEF TypeOK
  <2> QED BY <1>2, <1>3, <2>1, <2>2 DEF TypeOK
<1>5. JobsCarry'
  <2> SUFFICES ASSUME NEW v \in Workers, job'[v].phase # "idle"
               PROVE  /\ job'[v].conn \in 1..lastId
                      /\ job'[v].got \subseteq Published
                      /\ job'[v].conn = conn => job'[v].since <= since'
    BY <1>2 DEF JobsCarry
  <2>1. v # w /\ job'[v] = job[v]
    BY <1>1 DEF Idle
  <2>2. job[v].since \in Nat
    BY DEF TypeOK, Job
  <2> QED BY <1>3, <2>1, <2>2 DEF JobsCarry
<1>6. AnswersComplete'
  BY <1>1, <1>2 DEF AnswersComplete, Idle
<1>7. NothingElseSkipped'
  <2> SUFFICES ASSUME NEW r \in Published, created[r] < since'
               PROVE  Seen(r)' \/ LeftBehind(r)'
    BY <1>2 DEF NothingElseSkipped
  <2>1. CASE since' = since
    <3>1. Seen(r) \/ LeftBehind(r)
      BY <2>1 DEF NothingElseSkipped
    <3> QED BY <1>2, <3>1 DEF Seen, LeftBehind
  <2>2. CASE since' # since
    BY <2>2
  <2> QED BY <2>1, <2>2
<1> QED BY <1>4, <1>5, <1>6, <1>7

LEMMA CommitKeeps ==
    ASSUME IInv, NEW w \in Workers, Commit(w)
    PROVE  IInv'
<1> USE DEF IInv
<1>1. /\ job[w].phase = "answered" /\ Finish(w)
      /\ rows' = rows \cup job[w].got
      /\ since' = IF job[w].conn = conn THEN clock ELSE since
      /\ UNCHANGED <<clock, created, placesOnly, conn, lastId, deleted, late,
                     skipped, failed, faults>>
  BY DEF Commit, New, StampSince, OwnRow
<1>2. job[w].conn \in 1..lastId /\ job[w].got \subseteq Published /\ lastId \in Nat
  BY <1>1 DEF JobsCarry, TypeOK
<1>3. since' = since \/ (conn # 0 /\ since' = clock)
  BY <1>1, <1>2
<1>4. \A r : Crowded(r)' <=> Crowded(r)
  BY <1>1, CrowdedSame
<1>5. ASSUME since' # since, NEW r \in Published, created[r] < clock
      PROVE  Seen(r)' \/ LeftBehind(r)'
  <2>1. job[w].conn = conn /\ job[w].since <= since
    BY <1>1, <1>5 DEF JobsCarry
  <2>2. r \in job[w].got \/ created[r] < job[w].since \/ r \in late \/ Crowded(r)
    BY <1>1, <2>1 DEF AnswersComplete
  <2>3. CASE created[r] < job[w].since
    <3>1. created[r] \in Nat /\ job[w].since \in Nat /\ since \in Nat
      BY DEF TypeOK, Job, Published
    <3>2. Seen(r) \/ LeftBehind(r)
      BY <2>1, <2>3, <3>1 DEF NothingElseSkipped
    <3> QED BY <1>1, <1>4, <3>2 DEF Seen, LeftBehind
  <2>4. CASE r \in job[w].got \/ r \in late \/ Crowded(r)
    BY <1>1, <1>4, <2>4 DEF Seen, LeftBehind
  <2> QED BY <2>2, <2>3, <2>4
<1>6. rows \subseteq rows' /\ rows' \subseteq Published
      /\ skipped \subseteq Published /\ failed \subseteq Published /\ faults' \in 0..MaxFaults
  BY <1>1, <1>2 DEF TypeOK
<1> QED BY <1>1, <1>3, <1>5, <1>6, EndKeeps

LEMMA FailsKeep ==
    ASSUME IInv, NEW w \in Workers, FetchFails(w) \/ CommitFails(w)
    PROVE  IInv'
<1> USE DEF IInv
<1>1. /\ job[w].phase # "idle" /\ Finish(w) /\ faults' \in 0..MaxFaults
      /\ UNCHANGED <<clock, created, placesOnly, conn, lastId, rows, deleted, late, skipped>>
      /\ rows \subseteq Published /\ skipped \subseteq Published /\ failed \subseteq Published
  BY IngestionAssumption DEF FetchFails, CommitFails, Fault, TypeOK
<1>2. job[w].conn \in 1..lastId /\ lastId \in Nat
  BY <1>1 DEF JobsCarry, TypeOK
<1>3. CASE CommitFails(w)
  <2>1. since' = since /\ failed' = failed
    BY <1>3 DEF CommitFails
  <2> QED BY <1>1, <2>1, EndKeeps
<1>4. CASE FetchFails(w)
  <2>1. /\ since' = IF job[w].conn = conn THEN clock ELSE since
        /\ failed' = failed \cup IF job[w].conn = conn THEN Published \ rows ELSE {}
    BY <1>4 DEF FetchFails, StampSince, PassedOver, OwnRow
  <2>2. since' = since \/ (conn # 0 /\ since' = clock)
    BY <1>2, <2>1
  <2>3. failed \subseteq failed' /\ failed' \subseteq Published
    BY <1>1, <2>1
  <2>4. since' # since => \A r \in Published : created[r] < clock =>
            Seen(r)' \/ LeftBehind(r)'
    BY <1>1, <2>1 DEF Seen, LeftBehind
  <2> QED BY <1>1, <2>2, <2>3, <2>4, EndKeeps
<1> QED BY <1>3, <1>4

LEMMA ShortCircuitKeeps ==
    ASSUME IInv, NEW w \in Workers, ShortCircuit(w)
    PROVE  IInv'
<1> USE DEF IInv
<1>1. /\ job[w] = Idle /\ conn # 0 /\ since' = clock
      /\ skipped' = skipped \cup (Published \ rows)
      /\ UNCHANGED <<clock, created, placesOnly, conn, lastId, rows, deleted, job,
                     late, failed, faults>>
  BY DEF ShortCircuit
<1>2. Finish(w)
  BY <1>1 DEF Finish, TypeOK
<1>3. /\ rows \subseteq Published /\ skipped' \subseteq Published /\ failed \subseteq Published
      /\ faults' \in 0..MaxFaults
  BY <1>1 DEF TypeOK
<1>4. \A r \in Published : created[r] < clock => Seen(r)' \/ LeftBehind(r)'
  BY <1>1 DEF Seen, LeftBehind
<1> QED BY <1>1, <1>2, <1>3, <1>4, EndKeeps

LEMMA RestartKeeps ==
    ASSUME IInv, Restart
    PROVE  IInv'
<1> USE DEF IInv
<1>1. /\ job' = [w \in Workers |-> Idle] /\ placesOnly' \in BOOLEAN
      /\ faults' \in 0..MaxFaults
      /\ UNCHANGED <<clock, created, conn, lastId, since, rows, deleted, late, skipped, failed>>
  BY IngestionAssumption DEF Restart, Fault, TypeOK
<1>2. Published' = Published /\ \A r : Crowded(r)' <=> Crowded(r)
  BY <1>1, CrowdedSame
<1>3. TypeOK'
  <2>1. job' \in [Workers -> Job]
    BY <1>1 DEF Job, Idle
  <2> QED BY <1>1, <1>2, <2>1 DEF TypeOK
<1>4. JobsCarry' /\ AnswersComplete'
  BY <1>1 DEF JobsCarry, AnswersComplete, Idle
<1>5. NothingElseSkipped'
  BY <1>1, <1>2 DEF NothingElseSkipped, Seen, LeftBehind
<1> QED BY <1>3, <1>4, <1>5

\* The clock, and the owner's connecting, disconnecting and deleting.
LEMMA OwnerKeeps ==
    ASSUME IInv, Pass \/ Connect \/ Disconnect \/ \E r \in Reviews : Delete(r)
    PROVE  IInv'
<1> USE DEF IInv
<1>1. CASE Pass
  <2>1. /\ UNCHANGED <<created, placesOnly, conn, lastId, since, rows, deleted, job,
                       late, skipped, failed, faults>> /\ clock' = clock + 1
    BY <1>1 DEF Pass
  <2>2. Published' = Published /\ \A r : Crowded(r)' <=> Crowded(r)
    BY <2>1, CrowdedSame
  <2>3. TypeOK'
    BY <2>1, <2>2 DEF TypeOK
  <2>4. JobsCarry' /\ AnswersComplete' /\ NothingElseSkipped'
    BY <2>1, <2>2 DEF JobsCarry, AnswersComplete, NothingElseSkipped, Seen, LeftBehind
  <2> QED BY <2>3, <2>4
<1>2. CASE Connect
  <2>1. /\ conn = 0 /\ lastId' = lastId + 1 /\ conn' = lastId + 1 /\ since' = 0
        /\ late' = {} /\ skipped' = {} /\ failed' = {}
        /\ UNCHANGED <<clock, created, placesOnly, rows, deleted, job, faults>>
    BY <1>2 DEF Connect
  <2>2. Published' = Published /\ \A r : Crowded(r)' <=> Crowded(r)
    BY <2>1, CrowdedSame
  <2>3. TypeOK'
    BY <2>1, <2>2 DEF TypeOK
  <2>4. \A w \in Workers : job[w].phase # "idle" => job[w].conn \in 1..lastId /\ job[w].conn # conn'
    BY <2>1 DEF JobsCarry, TypeOK
  <2>5. lastId \in Nat
    BY DEF TypeOK
  <2>6. JobsCarry'
    BY <2>1, <2>2, <2>4, <2>5 DEF JobsCarry
  <2>7. AnswersComplete'
    BY <2>1, <2>4 DEF AnswersComplete
  <2>8. NothingElseSkipped'
    BY <2>1, <2>2 DEF NothingElseSkipped, TypeOK, Published
  <2> QED BY <2>3, <2>6, <2>7, <2>8
<1>3. CASE Disconnect
  <2>1. /\ conn # 0 /\ conn' = 0 /\ since' = 0
        /\ UNCHANGED <<clock, created, placesOnly, lastId, rows, deleted, job, late,
                       skipped, failed, faults>>
    BY <1>3 DEF Disconnect
  <2>2. Published' = Published /\ \A r : Crowded(r)' <=> Crowded(r)
    BY <2>1, CrowdedSame
  <2>3. TypeOK'
    BY <2>1, <2>2 DEF TypeOK
  <2>4. \A w \in Workers : job[w].phase # "idle" => job[w].conn \in 1..lastId /\ job[w].conn # conn'
    BY <2>1 DEF JobsCarry, TypeOK
  <2>5. JobsCarry'
    BY <2>1, <2>2, <2>4 DEF JobsCarry
  <2>6. AnswersComplete'
    BY <2>1, <2>4 DEF AnswersComplete
  <2>7. NothingElseSkipped'
    BY <2>1, <2>2 DEF NothingElseSkipped, TypeOK, Published
  <2> QED BY <2>3, <2>5, <2>6, <2>7
<1>4. CASE \E r \in Reviews : Delete(r)
  <2>1. PICK r \in Reviews : Delete(r)
    BY <1>4
  <2>2. /\ r \in rows /\ rows' = rows \ {r} /\ deleted' = deleted \cup {r}
        /\ UNCHANGED <<clock, created, placesOnly, conn, lastId, since, job, late,
                       skipped, failed, faults>>
    BY <2>1 DEF Delete
  <2>3. Published' = Published /\ \A q : Crowded(q)' <=> Crowded(q)
    BY <2>2, CrowdedSame
  <2>4. TypeOK'
    BY <2>2, <2>3 DEF TypeOK
  <2>5. JobsCarry' /\ AnswersComplete'
    BY <2>2, <2>3 DEF JobsCarry, AnswersComplete
  <2>6. NothingElseSkipped'
    BY <2>2, <2>3 DEF NothingElseSkipped, Seen, LeftBehind
  <2> QED BY <2>4, <2>5, <2>6
<1> QED BY <1>1, <1>2, <1>3, <1>4

LEMMA NextInv == IInv /\ [Next]_vars => IInv'
<1> SUFFICES ASSUME IInv, [Next]_vars
             PROVE  IInv'
  OBVIOUS
<1>1. CASE UNCHANGED vars
  BY <1>1 DEF vars, IInv, TypeOK, JobsCarry, AnswersComplete, NothingElseSkipped,
              Published, Crowded, Seen, LeftBehind
<1>2. CASE \E r \in Reviews : Write(r)
  BY <1>2, WriteKeeps
<1>3. CASE Pass \/ Connect \/ Disconnect \/ \E r \in Reviews : Delete(r)
  BY <1>3, OwnerKeeps
<1>4. CASE \E w \in Workers : NotFound(w)
  BY <1>1, <1>4 DEF NotFound
<1>5. CASE \E w \in Workers : Begin(w)
  BY <1>5, BeginKeeps
<1>6. CASE \E w \in Workers : ShortCircuit(w)
  BY <1>6, ShortCircuitKeeps
<1>7. CASE \E w \in Workers : Answer(w)
  BY <1>7, AnswerKeeps
<1>8. CASE \E w \in Workers : Commit(w)
  BY <1>8, CommitKeeps
<1>9. CASE \E w \in Workers : FetchFails(w) \/ CommitFails(w)
  BY <1>9, FailsKeep
<1>10. CASE Restart
  BY <1>10, RestartKeeps
<1> QED BY <1>1, <1>2, <1>3, <1>4, <1>5, <1>6, <1>7, <1>8, <1>9, <1>10 DEF Next

LEMMA Inductive == Spec => []IInv
BY InitInv, NextInv, PTL DEF Spec

-----------------------------------------------------------------------------
(* The syncs as single steps.                                              *)

\* The reviews off the page, as IngestPromise sees them.
OffPage == {r \in Published : Crowded(r)}

LEMMA OffPageSame ==
    ASSUME UNCHANGED created
    PROVE  OffPage' = OffPage /\ Published' = Published
BY CrowdedSame DEF OffPage

LEMMA WriteRefines ==
    ASSUME IInv, NEW r \in Reviews, Write(r)
    PROVE  Promise!Write(r)
<1>1. /\ created' = [created EXCEPT ![r] = clock] /\ created[r] = 0
      /\ UNCHANGED <<clock, placesOnly, conn, since, rows, deleted, skipped, failed, faults>>
      /\ late' \in {late, late \cup {r}}
  BY DEF Write
<1>2. Published' = Published \cup {r} /\ r \notin Published
  BY <1>1 DEF Published, IInv, TypeOK
<1>3. \A x \in Published : Crowded(x) => Crowded(x)'
  BY CrowdedStays DEF IInv
<1>4. OffPage \subseteq OffPage' /\ OffPage' \subseteq Published \cup {r}
  BY <1>2, <1>3 DEF OffPage
<1> QED BY <1>1, <1>2, <1>4 DEF Promise!Write, Promise!Published, Published, OffPage

\* The stamp of a sync drops nothing, because the invariant holds after it.
LEMMA StampRefines ==
    ASSUME IInv, IInv', since' = clock, conn # 0,
           UNCHANGED <<clock, created, deleted, late>>
    PROVE  Promise!Stamp
<1>1. \A r \in Published : created[r] < clock =>
          r \in rows' \cup deleted \/ r \in late \cup skipped' \cup failed' \/ Crowded(r)
  BY CrowdedSame DEF IInv, NothingElseSkipped, Seen, LeftBehind
<1> QED BY <1>1 DEF Promise!Stamp, Promise!Dropped, Promise!Published, Published, OffPage

LEMMA CommitRefines ==
    ASSUME IInv, IInv', NEW w \in Workers, Commit(w)
    PROVE  Promise!Land
<1>1. /\ since' = IF job[w].conn = conn THEN clock ELSE since
      /\ rows \subseteq rows' /\ job[w].phase = "answered"
      /\ UNCHANGED <<clock, created, placesOnly, conn, deleted, late, skipped, failed, faults>>
  BY DEF Commit, StampSince, OwnRow
<1>2. job[w].conn \in 1..lastId /\ lastId \in Nat
  BY <1>1 DEF IInv, JobsCarry, TypeOK
<1>3. Promise!Stamp \/ since' = since
  BY <1>1, <1>2, StampRefines
<1>4. OffPage' = OffPage /\ Published' = Published /\ rows' \subseteq Published
  BY <1>1, OffPageSame DEF IInv, TypeOK
<1> QED BY <1>1, <1>3, <1>4 DEF Promise!Land, Promise!Published, Published, OffPage

LEMMA ShortCircuitRefines ==
    ASSUME IInv, IInv', NEW w \in Workers, ShortCircuit(w)
    PROVE  Promise!PassOver
<1>1. /\ placesOnly /\ since' = clock /\ conn # 0
      /\ skipped' = skipped \cup (Published \ rows)
      /\ UNCHANGED <<clock, created, placesOnly, conn, rows, deleted, late, failed, faults>>
  BY DEF ShortCircuit
<1>2. Promise!Stamp
  BY <1>1, StampRefines
<1>3. OffPage' = OffPage
  BY <1>1, OffPageSame
<1> QED BY <1>1, <1>2, <1>3 DEF Promise!PassOver, Promise!Published, Published, OffPage

LEMMA FailsRefine ==
    ASSUME IInv, IInv', (\E w \in Workers : FetchFails(w) \/ CommitFails(w)) \/ Restart
    PROVE  Promise!Fail
<1>1. /\ faults' = faults + 1
      /\ UNCHANGED <<clock, created, conn, rows, deleted, late, skipped>>
      /\ placesOnly' \in BOOLEAN
  BY DEF FetchFails, CommitFails, Restart, Fault, IInv, TypeOK
<1>2. \/ failed' = failed \cup (Published \ rows) /\ Promise!Stamp
      \/ failed' = failed /\ since' = since
  <2>1. CASE (\E w \in Workers : CommitFails(w)) \/ Restart
    BY <2>1 DEF CommitFails, Restart
  <2>2. ASSUME NEW w \in Workers, FetchFails(w)
        PROVE  \/ failed' = failed \cup (Published \ rows) /\ Promise!Stamp
               \/ failed' = failed /\ since' = since
    <3>1. /\ since' = IF job[w].conn = conn THEN clock ELSE since
          /\ failed' = failed \cup IF job[w].conn = conn THEN Published \ rows ELSE {}
          /\ job[w].phase # "idle"
      BY <2>2 DEF FetchFails, StampSince, PassedOver, OwnRow
    <3>2. job[w].conn \in 1..lastId /\ lastId \in Nat
      BY <3>1 DEF IInv, JobsCarry, TypeOK
    <3>3. CASE job[w].conn = conn
      <4>1. since' = clock /\ conn # 0
        BY <3>1, <3>2, <3>3
      <4> QED BY <1>1, <3>1, <3>3, <4>1, StampRefines
    <3>4. CASE job[w].conn # conn
      BY <3>1, <3>4
    <3> QED BY <3>3, <3>4
  <2> QED BY <2>1, <2>2
<1>3. OffPage' = OffPage
  BY <1>1, OffPageSame
<1> QED BY <1>1, <1>2, <1>3 DEF Promise!Fail, Promise!Published, Published, OffPage

LEMMA StepRefines ==
    ASSUME IInv, IInv', [Next]_vars
    PROVE  [Promise!Next]_(Promise!promise)
<1>1. CASE \E r \in Reviews : Write(r)
  BY <1>1, WriteRefines DEF Promise!Next
<1>2. CASE \E r \in Reviews : Delete(r)
  <2>1. PICK r \in Reviews : Delete(r)
    BY <1>2
  <2>2. OffPage' = OffPage
    BY <2>1, OffPageSame DEF Delete
  <2>3. Promise!Delete(r)
    BY <2>1, <2>2 DEF Delete, Promise!Delete, OffPage
  <2> QED BY <2>3 DEF Promise!Next
<1>3. CASE Pass
  <2>1. OffPage' = OffPage
    BY <1>3, OffPageSame DEF Pass
  <2>2. Promise!Pass
    BY <1>3, <2>1 DEF Pass, Promise!Pass, OffPage
  <2> QED BY <2>2 DEF Promise!Next
<1>4. CASE Connect
  <2>1. OffPage' = OffPage /\ conn' # 0
    BY <1>4, OffPageSame DEF Connect, IInv, TypeOK
  <2>2. Promise!Connect
    BY <1>4, <2>1 DEF Connect, Promise!Connect, OffPage
  <2> QED BY <2>2 DEF Promise!Next
<1>5. CASE Disconnect
  <2>1. OffPage' = OffPage
    BY <1>5, OffPageSame DEF Disconnect
  <2>2. Promise!Disconnect
    BY <1>5, <2>1 DEF Disconnect, Promise!Disconnect, OffPage
  <2> QED BY <2>2 DEF Promise!Next
<1>6. CASE \E w \in Workers : Commit(w)
  BY <1>6, CommitRefines DEF Promise!Next
<1>7. CASE \E w \in Workers : ShortCircuit(w)
  BY <1>7, ShortCircuitRefines DEF Promise!Next
<1>8. CASE (\E w \in Workers : FetchFails(w) \/ CommitFails(w)) \/ Restart
  BY <1>8, FailsRefine DEF Promise!Next
<1>9. CASE UNCHANGED vars \/ \E w \in Workers : NotFound(w) \/ Begin(w) \/ Answer(w)
  <2>1. UNCHANGED <<clock, created, placesOnly, conn, since, rows, deleted, late, skipped,
                    failed, faults>>
    BY <1>9 DEF NotFound, Begin, Answer, vars
  <2>2. OffPage' = OffPage
    BY <2>1, OffPageSame
  <2> QED BY <2>1, <2>2 DEF Promise!promise, OffPage
<1> QED BY <1>1, <1>2, <1>3, <1>4, <1>5, <1>6, <1>7, <1>8, <1>9 DEF Next

-----------------------------------------------------------------------------
(* The theorems.                                                           *)

\* Type correctness: a late sync of a removed connection stamps no row.
THEOREM TypeCorrect == Spec => []TypeOK
<1>1. IInv => TypeOK
  BY DEF IInv
<1> QED BY <1>1, Inductive, PTL

\* A review older than last_synced_at is in the table, but for the known
\* ways of being left behind.
THEOREM NothingElseSkippedHolds == Spec => []NothingElseSkipped
<1>1. IInv => NothingElseSkipped
  BY DEF IInv
<1> QED BY <1>1, Inductive, PTL

\* Overlapping syncs, cut at their awaits, implement IngestPromise, where a sync
\* is one step: last_synced_at passes no review that is neither in the table nor
\* left behind in a listed way, and no sync stamps a connection that is gone.
THEOREM ImplementsPromise == Spec => PromiseKept
<1>1. Init => Promise!Init
  <2> SUFFICES ASSUME Init
               PROVE  Promise!Init
    OBVIOUS
  <2>1. OffPage = {}
    BY DEF Init, OffPage, Published
  <2> QED BY <2>1 DEF Init, Promise!Init, OffPage
<1>2. IInv /\ IInv' /\ [Next]_vars => [Promise!Next]_(Promise!promise)
  BY StepRefines
<1> QED BY <1>1, <1>2, Inductive, PTL DEF Spec, PromiseKept, Promise!Spec

\* While a connection exists its last_synced_at never moves back, whichever of
\* several syncs commits last.
THEOREM NeverMovesBack == Spec => [][conn' = conn => since <= since']_vars
<1>1. ASSUME IInv, [Next]_vars, conn' = conn
      PROVE  since <= since'
  <2>1. since \in Nat /\ clock \in Nat /\ since <= clock
    BY <1>1 DEF IInv, TypeOK
  <2>2. since' = since \/ since' = clock
    BY <1>1 DEF Next, vars, Write, Pass, Connect, Disconnect, Delete, NotFound, Begin,
       ShortCircuit, Answer, Commit, FetchFails, CommitFails, Restart, StampSince, IInv, TypeOK
  <2> QED BY <2>1, <2>2
<1>2. IInv /\ [Next]_vars => [conn' = conn => since <= since']_vars
  BY <1>1
<1> QED BY <1>2, Inductive, PTL DEF Spec

\* A server with credentials on which no fetch, transaction or process fails.
HealthySpec == Init /\ ~placesOnly /\ [][Next /\ faults' = faults]_vars

\* On a healthy server the race with an answer on its way and the size of a page
\* are all that leaves a review behind, with any number of syncs at a time.
THEOREM OnlyRaceAndPage ==
    HealthySpec => [](\A r \in Published :
        created[r] < since => Seen(r) \/ r \in late \/ Crowded(r))
<1> DEFINE Healthy == ~placesOnly /\ skipped = {} /\ failed = {}
<1>1. Init /\ ~placesOnly => IInv /\ Healthy
  BY InitInv DEF Init
<1>2. ASSUME IInv, Healthy, [Next /\ faults' = faults]_vars
      PROVE  Healthy'
  <2>1. faults' # faults + 1 \/ UNCHANGED vars
    BY <1>2 DEF IInv, TypeOK
  <2> QED BY <1>2, <2>1 DEF Next, vars, Write, Pass, Connect, Disconnect, Delete, NotFound, Begin,
       ShortCircuit, Answer, Commit, FetchFails, CommitFails, Restart, Fault
<1>3. IInv /\ Healthy /\ [Next /\ faults' = faults]_vars => IInv' /\ Healthy'
  BY <1>2, NextInv
<1>4. IInv /\ Healthy => \A r \in Published :
        created[r] < since => Seen(r) \/ r \in late \/ Crowded(r)
  BY DEF IInv, NothingElseSkipped, LeftBehind
<1> HIDE DEF Healthy
<1> QED BY <1>1, <1>3, <1>4, PTL DEF HealthySpec
=============================================================================
