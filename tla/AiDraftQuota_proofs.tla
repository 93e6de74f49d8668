------------------------- MODULE AiDraftQuota_proofs -------------------------
(***************************************************************************)
(* Theorems about AiDraftQuota, for any cap and any number of drafts in    *)
(* flight.  The counter says nothing about past months, so the inductive   *)
(* invariant says what it stands for in the current one, that nothing was  *)
(* charged to a month before its first reservation, and nothing at all to  *)
(* months to come.                                                         *)
(***************************************************************************)
EXTENDS AiDraftQuota, TLAPS, FiniteSetTheorems

-----------------------------------------------------------------------------
(* Counting the drafts in flight.                                          *)

LEMMA OfMonthFinite ==
    ASSUME NEW m
    PROVE  IsFiniteSet(OfMonth(m)) /\ Cardinality(OfMonth(m)) \in Nat
<1>1. OfMonth(m) \subseteq Drafts
  BY DEF OfMonth
<1> QED BY <1>1, QuotaAssumption, FS_Subset, FS_CardinalityType

\* The slots of a set are those of it that were charged to m and the others.
LEMMA Shares ==
    ASSUME NEW S \in SUBSET Drafts, NEW m
    PROVE  /\ IsFiniteSet(S) /\ Cardinality(S) \in Nat
           /\ Cardinality(OfMonth(m) \cap S) \in Nat
           /\ Cardinality(OfMonth(m) \cap S) <= Cardinality(S)
           /\ Cardinality(OfMonth(m) \cap S) <= Cardinality(OfMonth(m))
           /\ Cardinality(OfMonth(m) \ S) =
                 Cardinality(OfMonth(m)) - Cardinality(OfMonth(m) \cap S)
           /\ Cardinality(S \ OfMonth(m)) =
                 Cardinality(S) - Cardinality(OfMonth(m) \cap S)
<1>1. IsFiniteSet(S) /\ IsFiniteSet(OfMonth(m))
  BY QuotaAssumption, FS_Subset, OfMonthFinite
<1>2. OfMonth(m) \cap S = S \cap OfMonth(m)
  OBVIOUS
<1>3. IsFiniteSet(OfMonth(m) \cap S)
      /\ Cardinality(OfMonth(m) \cap S) <= Cardinality(S)
      /\ Cardinality(OfMonth(m) \cap S) <= Cardinality(OfMonth(m))
  BY <1>1, FS_Intersection
<1>4. /\ Cardinality(OfMonth(m) \ S) =
            Cardinality(OfMonth(m)) - Cardinality(OfMonth(m) \cap S)
      /\ Cardinality(S \ OfMonth(m)) = Cardinality(S) - Cardinality(S \cap OfMonth(m))
  BY <1>1, FS_Difference
<1> QED BY <1>1, <1>2, <1>3, <1>4, FS_CardinalityType

\* Refunding the slots of R counts as stray those that are not this month's.
LEMMA StrayShare ==
    ASSUME TypeOK, NEW R \in SUBSET Drafts, \A d \in R : job[d] # Idle,
           stray' = Strays(R)
    PROVE  /\ stray' \in [Months -> Nat]
           /\ \A m \in Months : stray'[m] = stray[m] +
                 IF period = month /\ m = month
                 THEN Cardinality(R) - Cardinality(OfMonth(month) \cap R) ELSE 0
<1>1. {d \in R : ~Charged(d, month)} = R \ OfMonth(month)
  BY DEF OfMonth
<1>2. stray \in [Months -> Nat] /\ month \in Months
  BY DEF TypeOK
<1> DEFINE others == Cardinality(R \ OfMonth(month))
<1>3. others \in Nat /\ others = Cardinality(R) - Cardinality(OfMonth(month) \cap R)
  BY Shares, FS_Difference, FS_CardinalityType
<1>4. stray' = IF period = month THEN [stray EXCEPT ![month] = @ + others] ELSE stray
  BY <1>1 DEF Strays
<1> HIDE DEF others
<1> QED BY <1>2, <1>3, <1>4

\* Slots that are let go of leave the month they were charged to.
LEMMA OfMonthLeaves ==
    ASSUME NEW S \in SUBSET Drafts, Release(S), NEW m
    PROVE  Cardinality(OfMonth(m))' = Cardinality(OfMonth(m)) - Cardinality(OfMonth(m) \cap S)
<1>1. \A d \in Drafts : job'[d] = IF d \in S THEN Idle ELSE job[d]
  BY DEF Release
<1>2. OfMonth(m)' = OfMonth(m) \ S
  BY <1>1 DEF OfMonth, Charged
<1> QED BY <1>2, Shares

\* A slot that is reserved, while those of R are let go of, is one more of
\* this month if it is counted.
LEMMA OfMonthJoins ==
    ASSUME NEW R \in SUBSET Drafts, NEW e \in Drafts, job[e] = Idle \/ e \in R,
           unlimited \in BOOLEAN,
           job' = [d \in Drafts |-> IF d = e THEN [counted |-> ~unlimited, month |-> month]
                                    ELSE IF d \in R THEN Idle ELSE job[d]],
           NEW m
    PROVE  Cardinality(OfMonth(m))' =
              Cardinality(OfMonth(m)) - Cardinality(OfMonth(m) \cap R)
                 + (IF ~unlimited /\ m = month THEN 1 ELSE 0)
<1> DEFINE slot == [counted |-> ~unlimited, month |-> month]
<1>1. /\ slot # Idle /\ slot.counted = ~unlimited /\ slot.month = month
      /\ \A d \in Drafts : job'[d] = IF d = e THEN slot ELSE IF d \in R THEN Idle ELSE job[d]
  BY DEF Idle
<1> HIDE DEF slot
<1>2. e \notin OfMonth(m) \ R
  BY DEF OfMonth
<1>3. /\ IsFiniteSet(OfMonth(m) \ R) /\ Cardinality(OfMonth(m) \ R) \in Nat
      /\ Cardinality(OfMonth(m) \ R) =
            Cardinality(OfMonth(m)) - Cardinality(OfMonth(m) \cap R)
      /\ Cardinality(OfMonth(m)) \in Nat /\ Cardinality(OfMonth(m) \cap R) \in Nat
  BY OfMonthFinite, Shares, FS_Difference, FS_CardinalityType
<1>4. CASE ~unlimited /\ m = month
  <2>1. OfMonth(m)' = (OfMonth(m) \ R) \cup {e}
    BY <1>1, <1>4 DEF OfMonth, Charged
  <2>2. Cardinality((OfMonth(m) \ R) \cup {e}) = Cardinality(OfMonth(m) \ R) + 1
    BY <1>2, <1>3, FS_AddElement
  <2> QED BY <1>3, <1>4, <2>1, <2>2
<1>5. CASE ~(~unlimited /\ m = month)
  <2>1. OfMonth(m)' = OfMonth(m) \ R
    BY <1>1, <1>2, <1>5 DEF OfMonth, Charged
  <2> QED BY <1>3, <1>5, <2>1
<1> QED BY <1>4, <1>5

-----------------------------------------------------------------------------
(* The inductive invariant.                                                *)

\* In the month of the counter: what it may be short of is stray refunds.
CounterCovers == period = month => Spent(month) <= used + stray[month]

NothingYet ==
    /\ \A m \in Months : m > month => Spent(m) = 0
    /\ period # month => Spent(month) = 0
    /\ period \in Months => period <= month

IInv == TypeOK /\ CapUnlessStray /\ NeverOvercharged /\ CounterCovers /\ NothingYet

LEMMA SpentIsNat == ASSUME TypeOK, NEW m \in Months PROVE Spent(m) \in Nat
BY OfMonthFinite DEF Spent, TypeOK

\* Spent(month), before and after a step, names the month it is about.
LEMMA SpentNow ==
    /\ \A c : c = month => Spent(month) = Spent(c)
    /\ \A c : c = month' => Spent(month)' = Spent(c)'
BY DEF Spent, OfMonth

LEMMA MonthsAreNats == Months \subseteq Nat /\ 0 \in Months /\ Null \notin Months
BY QuotaAssumption DEF Months

LEMMA InitIInv == Init => IInv
<1> SUFFICES ASSUME Init PROVE IInv
  OBVIOUS
<1>1. \A m \in Months : OfMonth(m) = {}
  BY DEF Init, OfMonth
<1>2. \A m \in Months : Spent(m) = 0
  BY <1>1, FS_EmptySet DEF Init, Spent
<1>3. TypeOK
  BY MonthsAreNats, QuotaAssumption DEF Init, TypeOK, AuditOK, OfAudit
<1> QED BY <1>2, <1>3, MonthsAreNats, QuotaAssumption
        DEF Init, IInv, CapUnlessStray, NeverOvercharged, CounterCovers, NothingYet

-----------------------------------------------------------------------------
(* Every action preserves it.                                              *)

\* What a step does to the books: n slots are refunded, of which r[m] were
\* charged to m, and one more is reserved and counted if joins.
Books(n, r, joins) ==
    /\ month' = month
    /\ IF joins THEN Current(n) < Cap /\ CountReserved(n) ELSE Uncounted(n)
    /\ \A m \in Months :
          /\ r[m] \in Nat /\ r[m] <= Cardinality(n) /\ r[m] <= Spent(m)
          /\ Spent(m)' = Spent(m) - r[m] + (IF joins /\ m = month THEN 1 ELSE 0)
          /\ stray'[m] = stray[m] + IF period = month /\ m = month
                                    THEN Cardinality(n) - r[m] ELSE 0

Balanced == used \in 0..Cap /\ CapUnlessStray /\ NeverOvercharged /\ CounterCovers /\ NothingYet

LEMMA BooksStep ==
    ASSUME IInv, NEW n \in SUBSET Drafts, NEW r, NEW joins \in BOOLEAN, Books(n, r, joins)
    PROVE  Balanced' /\ period' \in Months \cup {Null}
<1> DEFINE k == Cardinality(n)
<1>1. PICK c \in Months : c = month
  BY DEF IInv, TypeOK
<1>2a. Cardinality(n) \in Nat
  BY QuotaAssumption, FS_Subset, FS_CardinalityType
<1>2. /\ c \in Nat /\ used \in Nat /\ used <= Cap /\ Cap \in Nat /\ k \in Nat
      /\ \A m \in Months : stray[m] \in Nat /\ Spent(m) \in Nat /\ m \in Nat
  BY <1>1, <1>2a, MonthsAreNats, SpentIsNat, QuotaAssumption DEF IInv, TypeOK
<1>3. /\ \A m \in Months : Spent(m) <= Cap + stray[m]
      /\ period = c => used <= Spent(c) /\ Spent(c) <= used + stray[c]
      /\ \A m \in Months : m > c => Spent(m) = 0
      /\ period # c => Spent(c) = 0
      /\ period \in Months => period <= c
      /\ period \in Months \cup {Null}
  BY <1>1, SpentNow DEF IInv, TypeOK, CapUnlessStray, NeverOvercharged, CounterCovers, NothingYet
<1> DEFINE left == IF period = c THEN IF used > k THEN used - k ELSE 0 ELSE used
           current == IF period = c THEN left ELSE 0
<1>4. /\ left = Refunded(n) /\ current = Current(n) /\ left \in Nat /\ left <= used
      /\ current \in Nat /\ current <= Cap
  BY <1>1, <1>2 DEF Refunded, Current
<1>5. /\ \A m \in Months : Spent(m)' = Spent(m) - r[m] + (IF joins /\ m = c THEN 1 ELSE 0)
      /\ \A m \in Months : r[m] \in Nat /\ r[m] <= k /\ r[m] <= Spent(m)
      /\ \A m \in Months : stray'[m] = stray[m] + IF period = c /\ m = c THEN k - r[m] ELSE 0
      /\ month' = c
  BY <1>1 DEF Books
<1>6. Spent(month)' = Spent(c)'
  BY <1>5, SpentNow
<1>7. IF joins THEN current < Cap /\ used' = current + 1 /\ period' = c
               ELSE used' = left /\ period' = period
  <2>1. Books(n, r, joins)
    OBVIOUS
  <2> HIDE DEF left, current
  <2> QED BY <1>1, <1>4, <2>1 DEF Books, CountReserved, Uncounted
<1>8. used' \in 0..Cap /\ period' \in Months \cup {Null}
  <2>1. CASE joins
    BY <1>2, <1>4, <1>7, <2>1
  <2>2. CASE ~joins
    BY <1>2, <1>3, <1>4, <1>7, <2>2
  <2> QED BY <2>1, <2>2
<1> DEFINE S == Spent(c)
           T == Spent(c)'
           x == stray[c]
           y == stray'[c]
           q == r[c]
<1>9. /\ S \in Nat /\ x \in Nat /\ q \in Nat /\ q <= k /\ q <= S
      /\ T = S - q + (IF joins THEN 1 ELSE 0)
      /\ y = x + IF period = c THEN k - q ELSE 0
      /\ S <= Cap + x
      /\ period = c => used <= S /\ S <= used + x
      /\ period # c => S = 0
  BY <1>1, <1>2, <1>3, <1>5
<1> HIDE DEF S, T, x, y, q, k
<1>10. period' = c => used' <= T /\ T <= used' + y
  <2>1. CASE joins
    BY <1>2, <1>7, <1>9, <2>1
  <2>2. CASE ~joins
    BY <1>2, <1>7, <1>9, <2>2
  <2> QED BY <2>1, <2>2
<1>11. T <= Cap + y
  <2>1. CASE joins
    BY <1>2, <1>7, <1>9, <2>1
  <2>2. CASE ~joins
    BY <1>2, <1>7, <1>9, <2>2
  <2> QED BY <2>1, <2>2
<1>12. period' # c => T = 0
  BY <1>1, <1>2, <1>7, <1>9
<1>13. \A m \in Months : m # c => Spent(m)' <= Spent(m) /\ Spent(m)' \in Nat /\ stray'[m] = stray[m]
  BY <1>2, <1>5
<1>14. CapUnlessStray'
  <2>1. \A m \in Months : m # c => Spent(m)' <= Cap + stray'[m]
    BY <1>2, <1>3, <1>13
  <2>2. \A m \in Months : Spent(m)' <= Cap + stray'[m]
    BY <1>11, <2>1 DEF T, y
  <2> QED BY <2>2 DEF CapUnlessStray
<1>15. NeverOvercharged' /\ CounterCovers'
  BY <1>5, <1>6, <1>10 DEF NeverOvercharged, CounterCovers, T, y
<1>16. NothingYet'
  <2>1. \A m \in Months : m > c => Spent(m)' = 0
    BY <1>2, <1>3, <1>13
  <2>2. period' \in Months => period' <= c
    BY <1>2, <1>3, <1>7
  <2> QED BY <1>5, <1>6, <1>12, <2>1, <2>2 DEF NothingYet, T
<1> QED BY <1>8, <1>14, <1>15, <1>16 DEF Balanced

Held(S) == S \subseteq Drafts /\ \A d \in S : job[d] # Idle

\* Slots are refunded, and the handler reserves another.
Reserves(R, e) ==
    /\ Held(R) /\ e \in Drafts /\ (job[e] = Idle \/ e \in R)
    /\ RefundAndReserve(R, e)
    /\ UNCHANGED <<month, unlimited, delivered, lost>>

LEMMA ReserveBooks ==
    ASSUME IInv, NEW R, NEW e, Reserves(R, e)
    PROVE  /\ \E r : Books(R, r, ~unlimited)
           /\ job' \in [Drafts -> Waiting \cup {Idle}] /\ stray' \in [Months -> Nat]
<1> USE DEF Reserves
<1>1. R \in SUBSET Drafts /\ (\A d \in R : job[d] # Idle) /\ TypeOK /\ month \in Months
      /\ unlimited \in BOOLEAN
  BY DEF Held, IInv, TypeOK
<1>2. job' = [d \in Drafts |-> IF d = e THEN [counted |-> ~unlimited, month |-> month]
                               ELSE IF d \in R THEN Idle ELSE job[d]]
  BY DEF RefundAndReserve
<1>3. job' \in [Drafts -> Waiting \cup {Idle}]
  BY <1>1, <1>2 DEF TypeOK, Waiting
<1>4. stray' = Strays(R)
  BY DEF RefundAndReserve
<1> DEFINE r == [m \in Months |-> Cardinality(OfMonth(m) \cap R)]
           joins == ~unlimited
<1>5. \A m \in Months : /\ delivered[m] \in Nat /\ lost[m] \in Nat
                        /\ Cardinality(OfMonth(m)) \in Nat
                        /\ r[m] \in Nat /\ r[m] <= Cardinality(R)
                        /\ r[m] <= Cardinality(OfMonth(m))
  BY <1>1, Shares, OfMonthFinite DEF TypeOK
<1>6. \A m \in Months : Cardinality(OfMonth(m))' =
         Cardinality(OfMonth(m)) - r[m] + (IF joins /\ m = month THEN 1 ELSE 0)
  BY <1>1, <1>2, OfMonthJoins
<1>7. \A m \in Months : stray'[m] = stray[m] +
         IF period = month /\ m = month THEN Cardinality(R) - r[m] ELSE 0
  BY <1>1, <1>4, StrayShare
<1>8. IF joins THEN Current(R) < Cap /\ CountReserved(R) ELSE Uncounted(R)
  BY <1>1 DEF RefundAndReserve, Admitted
<1> HIDE DEF r
<1>9. \A m \in Months :
         /\ Spent(m)' = Spent(m) - r[m] + (IF joins /\ m = month THEN 1 ELSE 0)
         /\ r[m] <= Spent(m)
  BY <1>5, <1>6 DEF Spent
<1>10. Books(R, r, joins)
  BY <1>5, <1>7, <1>8, <1>9 DEF Books
<1> QED BY <1>1, <1>3, <1>4, <1>10, StrayShare

LEMMA ReserveStep ==
    ASSUME IInv, NEW R, NEW e, Reserves(R, e)
    PROVE  /\ Balanced' /\ period' \in Months \cup {Null}
           /\ job' \in [Drafts -> Waiting \cup {Idle}] /\ stray' \in [Months -> Nat]
<1>1. R \in SUBSET Drafts /\ (~unlimited) \in BOOLEAN
  BY DEF Reserves, Held, IInv, TypeOK
<1> QED BY <1>1, ReserveBooks, BooksStep

\* A handler ends: the slots of R are refunded, the drafts of K leave.
Ends(R, K) ==
    /\ Held(R) /\ Held(K) /\ R \cap K = {}
    /\ Uncounted(R) /\ stray' = Strays(R)
    /\ Release(R \cup K) /\ Deliver(K)
    /\ UNCHANGED <<month, unlimited, lost>>

LEMMA EndBooks ==
    ASSUME IInv, NEW R, NEW K, Ends(R, K)
    PROVE  /\ \E r : Books(R, r, FALSE)
           /\ \A m \in Months : delivered[m] <= delivered'[m]
           /\ job' \in [Drafts -> Waiting \cup {Idle}]
           /\ stray' \in [Months -> Nat] /\ delivered' \in [Months -> Nat]
<1> USE DEF Ends
<1>1. /\ R \in SUBSET Drafts /\ K \in SUBSET Drafts /\ R \cup K \in SUBSET Drafts
      /\ \A d \in R : job[d] # Idle
      /\ TypeOK
  BY DEF Held, IInv
<1>2. job' \in [Drafts -> Waiting \cup {Idle}]
  BY DEF Release, IInv, TypeOK
<1> DEFINE r == [m \in Months |-> Cardinality(OfMonth(m) \cap R)]
           k == [m \in Months |-> Cardinality(OfMonth(m) \cap K)]
<1>3. \A m \in Months : /\ delivered[m] \in Nat /\ lost[m] \in Nat
                        /\ Cardinality(OfMonth(m)) \in Nat
                        /\ r[m] \in Nat /\ r[m] <= Cardinality(R) /\ k[m] \in Nat
                        /\ r[m] <= Cardinality(OfMonth(m))
  BY <1>1, Shares, OfMonthFinite DEF TypeOK
<1>4. delivered' \in [Months -> Nat] /\ \A m \in Months : delivered'[m] = delivered[m] + k[m]
  <2>1. delivered' = [m \in Months |-> delivered[m] + Cardinality(OfMonth(m) \cap K)]
    BY DEF Deliver
  <2>2. \A m \in Months : delivered[m] + Cardinality(OfMonth(m) \cap K) \in Nat
    <3>1. \A m \in Months : Cardinality(OfMonth(m) \cap K) \in Nat
      BY <1>1, Shares
    <3> HIDE DEF k, r
    <3> QED BY <1>3, <3>1
  <2> QED BY <2>1, <2>2
<1>5. \A m \in Months : Cardinality(OfMonth(m))' = Cardinality(OfMonth(m)) - (r[m] + k[m])
  <2> SUFFICES ASSUME NEW m \in Months
               PROVE  Cardinality(OfMonth(m))' = Cardinality(OfMonth(m)) - (r[m] + k[m])
    OBVIOUS
  <2>1. Cardinality(OfMonth(m))' =
           Cardinality(OfMonth(m)) - Cardinality(OfMonth(m) \cap (R \cup K))
    BY <1>1, OfMonthLeaves
  <2> DEFINE A == OfMonth(m) \cap R
             B == OfMonth(m) \cap K
  <2>2. OfMonth(m) \cap (R \cup K) = A \cup B /\ A \cap B = {}
    OBVIOUS
  <2>3. IsFiniteSet(A) /\ IsFiniteSet(B) /\ Cardinality(A) \in Nat /\ Cardinality(B) \in Nat
    BY OfMonthFinite, FS_Intersection, FS_CardinalityType
  <2>4. Cardinality(A \cup B) = Cardinality(A) + Cardinality(B)
    <3>1. Cardinality(A \cup B) = Cardinality(A) + Cardinality(B) - Cardinality(A \cap B)
      BY <2>3, FS_Union
    <3>2. Cardinality(A \cap B) = 0
      BY <2>2, FS_EmptySet
    <3> HIDE DEF A, B
    <3> QED BY <2>3, <3>1, <3>2
  <2> QED BY <2>1, <2>2, <2>4
<1>6. \A m \in Months : stray'[m] = stray[m] +
         IF period = month /\ m = month THEN Cardinality(R) - r[m] ELSE 0
  BY <1>1, StrayShare DEF IInv, TypeOK
<1> HIDE DEF r, k
<1>7. \A m \in Months : Spent(m)' = Spent(m) - r[m] /\ r[m] <= Spent(m) /\ Spent(m) \in Nat
  BY <1>1, <1>3, <1>4, <1>5, SpentIsNat DEF Spent
<1>8. Books(R, r, FALSE)
  BY <1>3, <1>6, <1>7 DEF Books
<1>9. \A m \in Months : delivered[m] <= delivered'[m]
  BY <1>3, <1>4
<1> QED BY <1>1, <1>2, <1>4, <1>8, <1>9, StrayShare

LEMMA EndStep ==
    ASSUME IInv, NEW R, NEW K, Ends(R, K)
    PROVE  /\ Balanced' /\ period' \in Months \cup {Null}
           /\ job' \in [Drafts -> Waiting \cup {Idle}]
           /\ stray' \in [Months -> Nat] /\ delivered' \in [Months -> Nat]
<1>1. R \in SUBSET Drafts /\ FALSE \in BOOLEAN
  BY DEF Ends, Held
<1> QED BY <1>1, EndBooks, BooksStep

-----------------------------------------------------------------------------
(* Every action preserves it.                                              *)

\* The types a step must restore beside Balanced.
LEMMA Restored ==
    ASSUME Balanced', period' \in Months \cup {Null},
           job' \in [Drafts -> Waiting \cup {Idle}],
           stray' \in [Months -> Nat], delivered' \in [Months -> Nat],
           lost' \in [Months -> Nat], month' \in Months, unlimited' \in BOOLEAN,
           asked' \in Nat, AuditOK'
    PROVE  IInv'
BY DEF Balanced, IInv, TypeOK, AuditOK

LEMMA HeldNow ==
    ASSUME IInv
    PROVE  /\ Held({}) /\ Held(OfAudit)
           /\ audit # NoAudit => /\ OfAudit = audit.kept \cup {audit.at}
                                 /\ audit.at \notin audit.kept
                                 /\ audit.left \in Nat /\ audit.tone \in Nat
BY DEF IInv, TypeOK, AuditOK, Held, OfAudit, Audits

LEMMA DeliverNone == ASSUME IInv, delivered' = delivered PROVE Deliver({})
<1>1. \A m \in Months : OfMonth(m) \cap {} = {}
  OBVIOUS
<1>2. \A m \in Months : Cardinality(OfMonth(m) \cap {}) = 0
  BY <1>1, FS_EmptySet
<1>3. delivered \in [Months -> Nat]
  BY DEF IInv, TypeOK
<1> QED BY <1>2, <1>3 DEF Deliver

LEMMA AskStep ==
    ASSUME IInv, NEW d \in Drafts, Ask(d) PROVE IInv'
<1>1. /\ job[d] = Idle /\ asked' = asked + 1 /\ RefundAndReserve({}, d)
      /\ UNCHANGED <<month, unlimited, audit, delivered, lost>>
  BY DEF Ask
<1>2. /\ Balanced' /\ period' \in Months \cup {Null}
      /\ job' \in [Drafts -> Waiting \cup {Idle}] /\ stray' \in [Months -> Nat]
  BY <1>1, HeldNow, ReserveStep DEF Reserves
<1>3. \A e \in Drafts : job[e] # Idle => job'[e] # Idle
  BY <1>1 DEF RefundAndReserve, Idle
<1>4. AuditOK'
  BY <1>1, <1>3, HeldNow DEF IInv, TypeOK, AuditOK, OfAudit, Held
<1> QED BY <1>1, <1>2, <1>4, Restored DEF IInv, TypeOK

LEMMA StraysNone == ASSUME TypeOK PROVE Strays({}) = stray
<1>1. {d \in {} : ~Charged(d, month)} = {}
  OBVIOUS
<1>2. Cardinality({d \in {} : ~Charged(d, month)}) = 0
  BY <1>1, FS_EmptySet
<1>3. stray[month] + 0 = stray[month] /\ stray \in [Months -> Nat]
  BY DEF TypeOK
<1>4. [stray EXCEPT ![month] = @ + 0] = stray
  BY <1>3
<1> QED BY <1>2, <1>4 DEF Strays

\* A draft of the dashboard or the extension is done.
LEMMA DoneEnds ==
    ASSUME IInv, NEW d \in Drafts, AnsweredByAi(d) \/ FellBack(d)
    PROVE  \E R, K : Ends(R, K)
<1>1. /\ job[d] # Idle /\ Release({d}) /\ UNCHANGED <<month, unlimited, lost>>
  BY DEF AnsweredByAi, FellBack
<1>2. Held({d}) /\ Held({}) /\ {d} \cap {} = {} /\ {d} \cup {} = {d} /\ {} \cup {d} = {d}
  BY <1>1 DEF Held
<1>3. TypeOK
  BY DEF IInv
<1>4. used \in Nat
  BY <1>3, QuotaAssumption DEF TypeOK
<1>5. CASE AnsweredByAi(d)
  <2>1. Uncounted({})
    BY <1>4, <1>5, FS_EmptySet DEF AnsweredByAi, Uncounted, Refunded
  <2>2. stray' = Strays({}) /\ Deliver({d})
    BY <1>3, <1>5, StraysNone DEF AnsweredByAi
  <2>3. Ends({}, {d})
    BY <1>1, <1>2, <2>1, <2>2 DEF Ends
  <2> QED BY <2>3
<1>6. CASE FellBack(d)
  <2>1. Uncounted({d}) /\ stray' = Strays({d})
    BY <1>6 DEF FellBack, RefundAiDraft
  <2>2. Deliver({})
    BY <1>6, DeliverNone DEF FellBack
  <2>3. Ends({d}, {})
    BY <1>1, <1>2, <2>1, <2>2 DEF Ends
  <2> QED BY <2>3
<1> QED BY <1>5, <1>6

LEMMA DoneStep ==
    ASSUME IInv, NEW d \in Drafts, AnsweredByAi(d) \/ FellBack(d) PROVE IInv'
<1>1. /\ job[d] # Idle /\ d \notin OfAudit /\ Release({d})
      /\ UNCHANGED <<month, unlimited, audit, lost, asked>>
  BY DEF AnsweredByAi, FellBack
<1>2. /\ Balanced' /\ period' \in Months \cup {Null}
      /\ job' \in [Drafts -> Waiting \cup {Idle}]
      /\ stray' \in [Months -> Nat] /\ delivered' \in [Months -> Nat]
  BY DoneEnds, EndStep
<1>3. \A e \in Drafts : job[e] # Idle /\ e # d => job'[e] # Idle
  BY <1>1 DEF Release
<1>4. AuditOK'
  BY <1>1, <1>3, HeldNow DEF IInv, TypeOK, AuditOK, OfAudit, Held
<1> QED BY <1>1, <1>2, <1>4, Restored DEF IInv, TypeOK

\* An audit reserves its first slot.
LEMMA StartAuditStep ==
    ASSUME IInv, NEW d \in Drafts, NEW n \in 1..MaxReviews, StartAudit(d, n) PROVE IInv'
<1>1. /\ job[d] = Idle /\ asked' = asked + 1 /\ RefundAndReserve({}, d)
      /\ audit' = [at |-> d, kept |-> {}, tone |-> 1, left |-> n - 1]
      /\ UNCHANGED <<month, unlimited, delivered, lost>>
  BY DEF StartAudit
<1>2. /\ Balanced' /\ period' \in Months \cup {Null}
      /\ job' \in [Drafts -> Waiting \cup {Idle}] /\ stray' \in [Months -> Nat]
  BY <1>1, HeldNow, ReserveStep DEF Reserves
<1>3. job'[d] # Idle
  BY <1>1 DEF RefundAndReserve, Idle
<1>4. audit' \in Audits /\ OfAudit' \subseteq {d} /\ audit'.at \notin audit'.kept
  <2>1. n - 1 \in Nat
    BY QuotaAssumption
  <2> QED BY <1>1, <2>1 DEF Audits, OfAudit
<1>5. AuditOK'
  BY <1>3, <1>4 DEF AuditOK
<1> QED BY <1>1, <1>2, <1>5, Restored DEF IInv, TypeOK

\* An audit, answered, reserves the next slot.
LEMMA AuditGoesOnStep ==
    ASSUME IInv, NEW ai \in BOOLEAN, NEW e \in Drafts, AuditGoesOn(ai, e) PROVE IInv'
<1>1. /\ audit # NoAudit /\ (MoreTones(ai) \/ audit.left > 0)
      /\ job[e] = Idle \/ e \in Back(ai)
      /\ RefundAndReserve(Back(ai), e)
      /\ audit' = [at |-> e, kept |-> Kept(ai),
                   tone |-> IF MoreTones(ai) THEN audit.tone + 1 ELSE 1,
                   left |-> IF MoreTones(ai) THEN audit.left ELSE audit.left - 1]
      /\ UNCHANGED <<month, unlimited, delivered, lost, asked>>
  BY DEF AuditGoesOn
<1>2. /\ Held(OfAudit) /\ OfAudit = audit.kept \cup {audit.at}
      /\ audit.at \notin audit.kept /\ audit.left \in Nat /\ audit.tone \in Nat
  BY <1>1, HeldNow
<1>3. /\ Held(Back(ai)) /\ Held(Kept(ai)) /\ Back(ai) \cap Kept(ai) = {}
  BY <1>2 DEF Back, Kept, Held
<1>4. /\ Balanced' /\ period' \in Months \cup {Null}
      /\ job' \in [Drafts -> Waiting \cup {Idle}] /\ stray' \in [Months -> Nat]
  BY <1>1, <1>3, ReserveStep DEF Reserves
<1>5. job'[e] # Idle /\ \A d \in Kept(ai) : job'[d] # Idle
  BY <1>1, <1>3 DEF RefundAndReserve, Idle, Held
<1>6. e \notin Kept(ai)
  BY <1>1, <1>3 DEF Held
<1>7. audit' \in Audits /\ OfAudit' \subseteq Kept(ai) \cup {e} /\ audit'.at \notin audit'.kept
  BY <1>1, <1>2, <1>3, <1>6 DEF Audits, OfAudit, Held
<1>8. AuditOK'
  BY <1>5, <1>7 DEF AuditOK
<1> QED BY <1>1, <1>4, <1>8, Restored DEF IInv, TypeOK

\* An audit ends: refused, or stored.
LEMMA AuditEnds ==
    ASSUME IInv, NEW ai \in BOOLEAN, AuditRefused(ai) \/ AuditStored(ai)
    PROVE  \E R, K : Ends(R, K)
<1>1. audit # NoAudit /\ Release(OfAudit) /\ UNCHANGED <<month, unlimited, lost>>
  BY DEF AuditRefused, AuditStored
<1>2. /\ Held(OfAudit) /\ Held({}) /\ OfAudit = audit.kept \cup {audit.at}
      /\ audit.at \notin audit.kept
  BY <1>1, HeldNow
<1>3. /\ Held(Back(ai)) /\ Held(Kept(ai)) /\ Back(ai) \cap Kept(ai) = {}
      /\ Back(ai) \cup Kept(ai) = OfAudit
      /\ OfAudit \cap {} = {} /\ OfAudit \cup {} = OfAudit
  BY <1>2 DEF Back, Kept, Held
<1>4. CASE AuditRefused(ai)
  <2>1. Uncounted(OfAudit) /\ stray' = Strays(OfAudit) /\ delivered' = delivered
    BY <1>4 DEF AuditRefused, RefundAiDraft
  <2>2. Ends(OfAudit, {})
    BY <1>1, <1>2, <1>3, <2>1, DeliverNone DEF Ends
  <2> QED BY <2>2
<1>5. CASE AuditStored(ai)
  <2>1. Uncounted(Back(ai)) /\ stray' = Strays(Back(ai)) /\ Deliver(Kept(ai))
    BY <1>5 DEF AuditStored, RefundAiDraft
  <2>2. Ends(Back(ai), Kept(ai))
    BY <1>1, <1>3, <2>1 DEF Ends
  <2> QED BY <2>2
<1> QED BY <1>4, <1>5

LEMMA AuditEndStep ==
    ASSUME IInv, NEW ai \in BOOLEAN, AuditRefused(ai) \/ AuditStored(ai) PROVE IInv'
<1>1. audit' = NoAudit /\ UNCHANGED <<month, unlimited, lost, asked>>
  BY DEF AuditRefused, AuditStored
<1>2. /\ Balanced' /\ period' \in Months \cup {Null}
      /\ job' \in [Drafts -> Waiting \cup {Idle}]
      /\ stray' \in [Months -> Nat] /\ delivered' \in [Months -> Nat]
  BY AuditEnds, EndStep
<1>3. AuditOK'
  BY <1>1 DEF AuditOK, OfAudit
<1> QED BY <1>1, <1>2, <1>3, Restored DEF IInv, TypeOK

LEMMA AroundStep == ASSUME IInv, ChangePlan \/ TurnMonth PROVE IInv'
<1> USE DEF IInv
<1>1. UNCHANGED <<used, period, job, audit, delivered, lost, stray, asked>>
  BY DEF ChangePlan, TurnMonth
<1>2. \A m \in Months : Spent(m)' = Spent(m)
  BY <1>1 DEF Spent, OfMonth, Charged
<1>3. month' \in Months /\ month \in Months /\ unlimited' \in BOOLEAN
      /\ (month' = month \/ month' = month + 1)
  <2>1. month \in Months /\ unlimited \in BOOLEAN
    BY DEF TypeOK
  <2>2. CASE ChangePlan
    BY <2>1, <2>2 DEF ChangePlan
  <2>3. CASE TurnMonth
    BY <2>1, <2>3, QuotaAssumption DEF TurnMonth, Months
  <2> QED BY <2>1, <2>2, <2>3
<1>4. PICK c \in Months : c = month'
  BY <1>3
<1>5. Spent(month)' = Spent(c)
  BY <1>2, <1>4, SpentNow
<1>6. TypeOK' /\ CapUnlessStray'
  BY <1>1, <1>2, <1>3 DEF TypeOK, AuditOK, OfAudit, CapUnlessStray
<1>7. CASE c = month
  BY <1>1, <1>2, <1>4, <1>5, <1>6, <1>7, SpentNow
     DEF NeverOvercharged, CounterCovers, NothingYet
<1>8. CASE c = month + 1
  <2>1. c > month /\ month \in Nat /\ c \in Nat
    BY <1>3, <1>8, MonthsAreNats
  <2>2. Spent(c) = 0 /\ period # c
    BY <2>1 DEF NothingYet
  <2>3. \A m \in Months : m > c => Spent(m) = 0
    BY <2>1, MonthsAreNats DEF NothingYet
  <2>4. period \in Months => period <= c
    BY <2>1, MonthsAreNats DEF NothingYet
  <2>5. NothingYet'
    BY <1>1, <1>2, <1>4, <1>5, <2>2, <2>3, <2>4 DEF NothingYet
  <2>6. NeverOvercharged' /\ CounterCovers'
    BY <1>1, <1>4, <2>2 DEF NeverOvercharged, CounterCovers
  <2> QED BY <1>6, <2>5, <2>6
<1> QED BY <1>3, <1>4, <1>7, <1>8

LEMMA CrashStep == ASSUME IInv, Crash PROVE IInv'
<1> USE DEF IInv
<1>1. /\ job' = [d \in Drafts |-> Idle] /\ audit' = NoAudit
      /\ UNCHANGED <<month, unlimited, used, period, delivered, stray, asked>>
      /\ lost' = [m \in Months |-> lost[m] + Cardinality(OfMonth(m))]
  BY DEF Crash
<1>2. \A m \in Months : OfMonth(m)' = {}
  BY <1>1 DEF OfMonth
<1>3. \A m \in Months : Cardinality(OfMonth(m))' = 0
  BY <1>2, FS_EmptySet
<1>4. \A m \in Months : delivered[m] \in Nat /\ lost[m] \in Nat /\ Cardinality(OfMonth(m)) \in Nat
  BY OfMonthFinite DEF TypeOK
<1>5. \A m \in Months : Spent(m)' = Spent(m)
  BY <1>1, <1>3, <1>4 DEF Spent
<1>6. TypeOK'
  BY <1>1, <1>4 DEF TypeOK, AuditOK, OfAudit
<1>7. PICK c \in Months : c = month
  BY DEF TypeOK
<1>8. Spent(month)' = Spent(c) /\ Spent(month) = Spent(c)
  BY <1>1, <1>5, <1>7, SpentNow
<1>9. CapUnlessStray' /\ NothingYet'
  BY <1>1, <1>5, <1>8 DEF CapUnlessStray, NothingYet
<1>10. NeverOvercharged' /\ CounterCovers'
  BY <1>1, <1>8 DEF NeverOvercharged, CounterCovers
<1> QED BY <1>6, <1>9, <1>10

LEMMA NextIInv == IInv /\ [Next]_vars => IInv'
<1> SUFFICES ASSUME IInv, [Next]_vars PROVE IInv'
  OBVIOUS
<1>1. CASE UNCHANGED vars
  BY <1>1 DEF vars, IInv, TypeOK, CapUnlessStray, NeverOvercharged, CounterCovers,
              NothingYet, Spent, OfMonth, Charged, AuditOK, OfAudit
<1>2. CASE Next
  BY <1>2, AskStep, DoneStep, StartAuditStep, AuditGoesOnStep, AuditEndStep,
     AroundStep, CrashStep DEF Next
<1> QED BY <1>1, <1>2

LEMMA Invariance == Spec => []IInv
BY InitIInv, NextIInv, PTL DEF Spec

-----------------------------------------------------------------------------
(* The theorems.                                                           *)

\* The counter stays in 0..Cap whatever refunds arrive.
THEOREM TypeCorrect == Spec => []TypeOK
<1>1. IInv => TypeOK
  BY DEF IInv
<1> QED BY <1>1, Invariance, PTL

\* Parallel drafts, crashes, plan changes and month turns let through no more
\* than the cap plus one draft for each stray refund.
THEOREM CapUnlessStrayHolds == Spec => []CapUnlessStray
<1>1. IInv => CapUnlessStray
  BY DEF IInv
<1> QED BY <1>1, Invariance, PTL

\* The account is never charged for a template.
THEOREM NeverOverchargedHolds == Spec => []NeverOvercharged
<1>1. IInv => NeverOvercharged
  BY DEF IInv
<1> QED BY <1>1, Invariance, PTL

\* Where no stray refund came in, the counter is exact.
THEOREM ExactUnlessStrayHolds == Spec => []ExactUnlessStray
<1>1. IInv => ExactUnlessStray
  <2> SUFFICES ASSUME IInv, period = month, stray[month] = 0
               PROVE  used = Spent(month)
    BY DEF ExactUnlessStray
  <2>1. used \in Int /\ Spent(month) \in Int
    BY SpentIsNat, QuotaAssumption DEF IInv, TypeOK
  <2> QED BY <2>1 DEF IInv, NeverOvercharged, CounterCovers
<1> QED BY <1>1, Invariance, PTL

-----------------------------------------------------------------------------
(* The promise: each step is one of QuotaPromise, or a stutter.            *)

\* The ledger as the promise sees it.
Ledger == [m \in Months |-> Spent(m)]
Final == [m \in Months |-> delivered[m] + lost[m]]

LEMMA ForeignParts ==
    ASSUME NEW S
    PROVE  /\ IsFiniteSet(Foreign) /\ Cardinality(Foreign) \in Nat
           /\ Cardinality(Foreign \cap S) \in Nat
           /\ Cardinality(Foreign \ S) = Cardinality(Foreign) - Cardinality(Foreign \cap S)
           /\ Cardinality(Foreign \ S) \in Nat
<1>1. IsFiniteSet(Foreign)
  <2>1. Foreign \subseteq Drafts
    BY DEF Foreign
  <2> QED BY <2>1, QuotaAssumption, FS_Subset
<1>2. IsFiniteSet(Foreign \cap S) /\ IsFiniteSet(Foreign \ S)
  BY <1>1, FS_Intersection, FS_Difference
<1>3. Cardinality(Foreign \ S) = Cardinality(Foreign) - Cardinality(Foreign \cap S)
  BY <1>1, FS_Difference
<1> QED BY <1>1, <1>2, <1>3, FS_CardinalityType

\* The strays among the refunds of R are the foreign slots of R.
LEMMA ForeignStrays ==
    ASSUME TypeOK, NEW R, Held(R), stray' = Strays(R)
    PROVE  /\ \A m \in Months \ {month} : stray'[m] = stray[m]
           /\ stray[month] <= stray'[month] /\ stray[month] \in Nat /\ stray'[month] \in Nat
           /\ stray'[month] <= stray[month] + Cardinality(Foreign \cap R)
<1>1. {d \in R : ~Charged(d, month)} = Foreign \cap R
  BY DEF Held, Foreign
<1>2. stray \in [Months -> Nat] /\ month \in Months
  BY DEF TypeOK
<1> DEFINE n == Cardinality(Foreign \cap R)
<1>3. n \in Nat
  BY ForeignParts
<1>4. stray' = IF period = month THEN [stray EXCEPT ![month] = @ + n] ELSE stray
  BY <1>1 DEF Strays
<1> HIDE DEF n
<1>5. CASE period = month
  BY <1>2, <1>3, <1>4, <1>5 DEF n
<1>6. CASE period # month
  BY <1>2, <1>3, <1>4, <1>6 DEF n
<1> QED BY <1>5, <1>6

\* A handler that ends charges nothing, and takes its foreign slots with it.
LEMMA EndRefines ==
    ASSUME IInv, NEW R, NEW K, Ends(R, K)
    PROVE  Promise!Draft
<1>1. PICK r : Books(R, r, FALSE)
  BY EndBooks
<1>2. TypeOK /\ month' = month /\ unlimited' = unlimited /\ lost' = lost
      /\ Held(R) /\ Held(K) /\ stray' = Strays(R) /\ Release(R \cup K)
  BY DEF Ends, IInv
<1>3. \A m \in Months : Ledger[m] = Spent(m) /\ Ledger'[m] = Spent(m)'
                        /\ Final[m] = delivered[m] + lost[m]
                        /\ Final'[m] = delivered'[m] + lost'[m]
  BY DEF Ledger, Final
<1>4. \A m \in Months : Final[m] <= Final'[m] /\ Final'[m] <= Ledger'[m]
                        /\ Ledger'[m] <= Ledger[m]
  <2> SUFFICES ASSUME NEW m \in Months
               PROVE  Final[m] <= Final'[m] /\ Final'[m] <= Ledger'[m]
                      /\ Ledger'[m] <= Ledger[m]
    OBVIOUS
  <2>1. delivered[m] \in Nat /\ delivered'[m] \in Nat /\ lost[m] \in Nat
        /\ delivered[m] <= delivered'[m]
    BY <1>2, EndBooks DEF TypeOK
  <2>2. Spent(m) \in Nat /\ r[m] \in Nat /\ Spent(m)' = Spent(m) - r[m] + 0
    BY <1>1, <1>2, SpentIsNat DEF Books
  <2>3. Spent(m)' = delivered'[m] + lost'[m] + Cardinality(OfMonth(m))'
        /\ Cardinality(OfMonth(m))' \in Nat
    <3>1. Cardinality(OfMonth(m))' =
             Cardinality(OfMonth(m)) - Cardinality(OfMonth(m) \cap (R \cup K))
      BY <1>2, OfMonthLeaves DEF Held
    <3> DEFINE n == Cardinality(OfMonth(m))
               k == Cardinality(OfMonth(m) \cap (R \cup K))
    <3>2. R \cup K \in SUBSET Drafts
      BY <1>2 DEF Held
    <3>3. n \in Nat /\ k \in Nat /\ k <= n
      BY <3>2, Shares, OfMonthFinite
    <3> HIDE DEF n, k
    <3>4. n - k \in Nat
      BY <3>3
    <3>5. Cardinality(OfMonth(m))' = n - k
      BY <3>1 DEF n, k
    <3> QED BY <3>4, <3>5 DEF Spent
  <2> QED BY <1>2, <1>3, <2>1, <2>2, <2>3
<1>5. Foreign' = Foreign \ (R \cup K)
  BY <1>2 DEF Foreign, Charged, Release, Held
<1>6. Cardinality(Foreign)' = Cardinality(Foreign) - Cardinality(Foreign \cap (R \cup K))
      /\ Cardinality(Foreign)' \in Nat
  BY <1>5, ForeignParts
<1>7. Cardinality(Foreign \cap R) <= Cardinality(Foreign \cap (R \cup K))
  <2>1. IsFiniteSet(Foreign \cap (R \cup K))
    BY ForeignParts, FS_Intersection
  <2>2. Foreign \cap R \subseteq Foreign \cap (R \cup K)
    OBVIOUS
  <2> QED BY <2>1, <2>2, FS_Subset
<1> DEFINE f == Cardinality(Foreign)
           g == Cardinality(Foreign)'
           a == Cardinality(Foreign \cap R)
           b == Cardinality(Foreign \cap (R \cup K))
<1>8. f \in Nat /\ g \in Nat /\ a \in Nat /\ b \in Nat /\ g = f - b /\ a <= b
  BY <1>6, <1>7, ForeignParts
<1>9. /\ \A m \in Months \ {month} : stray'[m] = stray[m]
      /\ stray[month] <= stray'[month] /\ stray[month] \in Nat /\ stray'[month] \in Nat
      /\ stray'[month] <= stray[month] + a
  BY <1>2, ForeignStrays
<1> HIDE DEF f, g, a, b
<1>10. 0 <= g /\ stray'[month] + g <= stray[month] + f + IF unlimited THEN 1 ELSE 0
  BY <1>8, <1>9
<1> QED BY <1>2, <1>4, <1>9, <1>10
        DEF Promise!Draft, Promise!Charges, Promise!Refunds, Ledger, Final, f, g

\* A reservation is charged if the plan is capped, for which there was room,
\* and otherwise adds a foreign slot.
LEMMA ReserveRefines ==
    ASSUME IInv, CapUnlessStray', NEW R, NEW e, Reserves(R, e)
    PROVE  Promise!Draft
<1>1. PICK r : Books(R, r, ~unlimited)
  BY ReserveBooks
<1>2. /\ TypeOK /\ month' = month /\ unlimited' = unlimited /\ unlimited \in BOOLEAN
      /\ delivered' = delivered /\ lost' = lost
      /\ Held(R) /\ R \in SUBSET Drafts /\ e \in Drafts /\ (job[e] = Idle \/ e \in R)
      /\ stray' = Strays(R)
      /\ job' = [d \in Drafts |-> IF d = e THEN [counted |-> ~unlimited, month |-> month]
                                  ELSE IF d \in R THEN Idle ELSE job[d]]
  BY DEF Reserves, RefundAndReserve, IInv, TypeOK, Held
<1>3. \A m \in Months : Ledger[m] = Spent(m) /\ Ledger'[m] = Spent(m)'
                        /\ Final[m] = delivered[m] + lost[m] /\ Final'[m] = Final[m]
  BY <1>2 DEF Ledger, Final
<1>4. \A m \in Months :
         /\ Final[m] <= Final'[m] /\ Final'[m] <= Ledger'[m]
         /\ Ledger'[m] <= Ledger[m] \/
              (m = month /\ ~unlimited /\ Ledger'[m] = Ledger[m] + 1
               /\ Ledger'[m] <= Cap + stray'[m])
  <2> SUFFICES ASSUME NEW m \in Months
               PROVE  /\ Final[m] <= Final'[m] /\ Final'[m] <= Ledger'[m]
                      /\ Ledger'[m] <= Ledger[m] \/
                           (m = month /\ ~unlimited /\ Ledger'[m] = Ledger[m] + 1
                            /\ Ledger'[m] <= Cap + stray'[m])
    OBVIOUS
  <2>1. delivered[m] \in Nat /\ lost[m] \in Nat
    BY <1>2 DEF TypeOK
  <2>2. Spent(m) \in Nat /\ r[m] \in Nat
        /\ Spent(m)' = Spent(m) - r[m] + (IF ~unlimited /\ m = month THEN 1 ELSE 0)
    BY <1>1, <1>2, SpentIsNat DEF Books
  <2>3. Spent(m)' = delivered[m] + lost[m] + Cardinality(OfMonth(m))'
        /\ Cardinality(OfMonth(m))' \in Nat
    <3>1. Cardinality(OfMonth(m))' =
             Cardinality(OfMonth(m)) - Cardinality(OfMonth(m) \cap R)
                + (IF ~unlimited /\ m = month THEN 1 ELSE 0)
      BY <1>2, OfMonthJoins
    <3> DEFINE n == Cardinality(OfMonth(m))
               k == Cardinality(OfMonth(m) \cap R)
               one == IF ~unlimited /\ m = month THEN 1 ELSE 0
    <3>2. n \in Nat /\ k \in Nat /\ k <= n /\ one \in Nat
      BY <1>2, Shares, OfMonthFinite
    <3>3. Cardinality(OfMonth(m))' = n - k + one
      BY <3>1
    <3> HIDE DEF n, k, one
    <3>4. Cardinality(OfMonth(m))' \in Nat
      BY <3>2, <3>3
    <3> QED BY <1>2, <3>4 DEF Spent
  <2>4. Spent(m)' <= Cap + stray'[m]
    BY DEF CapUnlessStray
  <2> QED BY <1>3, <2>1, <2>2, <2>3, <2>4
<1> DEFINE slot == [counted |-> ~unlimited, month |-> month]
<1>5. /\ slot # Idle /\ slot.counted = ~unlimited /\ slot.month = month
      /\ \A d \in Drafts : job'[d] = IF d = e THEN slot ELSE IF d \in R THEN Idle ELSE job[d]
  BY <1>2 DEF Idle
<1> HIDE DEF slot
<1>6. e \notin Foreign \ R
  BY <1>2 DEF Foreign
<1>7. Foreign' = (Foreign \ R) \cup (IF unlimited THEN {e} ELSE {})
  BY <1>2, <1>5, <1>6 DEF Foreign, Charged
<1> DEFINE f == Cardinality(Foreign)
           g == Cardinality(Foreign)'
           a == Cardinality(Foreign \cap R)
           more == IF unlimited THEN 1 ELSE 0
<1>8. f \in Nat /\ a \in Nat /\ f - a \in Nat /\ g = f - a + more
  <2>1. /\ IsFiniteSet(Foreign \ R) /\ f \in Nat /\ a \in Nat
        /\ Cardinality(Foreign \ R) = f - a /\ f - a \in Nat
    BY ForeignParts, FS_Difference
  <2>2. CASE unlimited
    <3>1. Foreign' = (Foreign \ R) \cup {e}
      BY <1>7, <2>2
    <3>2. Cardinality((Foreign \ R) \cup {e}) = Cardinality(Foreign \ R) + 1
      BY <1>6, <2>1, FS_AddElement
    <3> QED BY <2>1, <2>2, <3>1, <3>2
  <2>3. CASE ~unlimited
    <3>1. Foreign' = Foreign \ R
      BY <1>7, <2>3
    <3> QED BY <2>1, <2>3, <3>1
  <2> QED BY <2>2, <2>3
<1>9. /\ \A m \in Months \ {month} : stray'[m] = stray[m]
      /\ stray[month] <= stray'[month] /\ stray[month] \in Nat /\ stray'[month] \in Nat
      /\ stray'[month] <= stray[month] + a
  BY <1>2, ForeignStrays
<1>10. more \in Nat
  OBVIOUS
<1> HIDE DEF f, g, a, more
<1>11. 0 <= g /\ stray'[month] + g <= stray[month] + f + more
  BY <1>8, <1>9, <1>10
<1> QED BY <1>2, <1>4, <1>9, <1>11
        DEF Promise!Draft, Promise!Charges, Promise!Charge, Promise!Refunds,
            Ledger, Final, f, g, more

\* A crash: what was open is final, and nothing is foreign any more.
LEMMA CrashRefines ==
    ASSUME IInv, Crash
    PROVE  Promise!Draft
<1>1. /\ job' = [d \in Drafts |-> Idle] /\ UNCHANGED <<month, unlimited, delivered, stray>>
      /\ lost' = [m \in Months |-> lost[m] + Cardinality(OfMonth(m))]
      /\ TypeOK
  BY DEF Crash, IInv
<1>2. \A m \in Months : Final[m] <= Final'[m] /\ Final'[m] <= Ledger'[m]
                        /\ Ledger'[m] <= Ledger[m]
  <2> SUFFICES ASSUME NEW m \in Months
               PROVE  Final[m] <= Final'[m] /\ Final'[m] <= Ledger'[m]
                      /\ Ledger'[m] <= Ledger[m]
    OBVIOUS
  <2>1. OfMonth(m)' = {}
    BY <1>1 DEF OfMonth
  <2>2. Cardinality(OfMonth(m))' = 0
    BY <2>1, FS_EmptySet
  <2>3. delivered[m] \in Nat /\ lost[m] \in Nat /\ Cardinality(OfMonth(m)) \in Nat
    BY <1>1, OfMonthFinite DEF TypeOK
  <2>4. lost'[m] = lost[m] + Cardinality(OfMonth(m)) /\ delivered'[m] = delivered[m]
    BY <1>1
  <2>5. /\ Ledger[m] = delivered[m] + lost[m] + Cardinality(OfMonth(m))
        /\ Ledger'[m] = delivered'[m] + lost'[m] + Cardinality(OfMonth(m))'
        /\ Final[m] = delivered[m] + lost[m] /\ Final'[m] = delivered'[m] + lost'[m]
    BY DEF Ledger, Final, Spent
  <2> QED BY <2>2, <2>3, <2>4, <2>5
<1>3. Cardinality(Foreign)' = 0
  <2>1. Foreign' = {}
    BY <1>1 DEF Foreign
  <2> QED BY <2>1, FS_EmptySet
<1>4. stray[month] \in Nat /\ stray'[month] = stray[month] /\ Cardinality(Foreign) \in Nat
  BY <1>1, ForeignParts DEF TypeOK
<1> QED BY <1>1, <1>2, <1>3, <1>4
        DEF Promise!Draft, Promise!Charges, Promise!Refunds, Ledger, Final

\* The month turns: every slot in flight is foreign from now on.
LEMMA TurnRefines ==
    ASSUME IInv, TurnMonth
    PROVE  Promise!TurnMonth
<1>1. /\ month' = month + 1 /\ TypeOK /\ month \in Months /\ month \in Nat
      /\ UNCHANGED <<unlimited, used, period, job, delivered, lost, stray>>
  BY MonthsAreNats DEF TurnMonth, IInv, TypeOK
<1>2. month + 1 \in Months
  BY <1>1, QuotaAssumption DEF TurnMonth, Months
<1>3. Ledger' = Ledger /\ Final' = Final
  BY <1>1 DEF Ledger, Final, Spent, OfMonth, Charged
<1>4. OfMonth(month + 1) = {}
  <2>1. Spent(month + 1) = 0
    BY <1>1, <1>2 DEF IInv, NothingYet
  <2>2. delivered[month + 1] \in Nat /\ lost[month + 1] \in Nat
        /\ Cardinality(OfMonth(month + 1)) \in Nat
    BY <1>1, <1>2, OfMonthFinite DEF TypeOK
  <2>3. Cardinality(OfMonth(month + 1)) = 0
    BY <2>1, <2>2 DEF Spent
  <2> QED BY <2>3, OfMonthFinite, FS_EmptySet
<1>5. Foreign' = Foreign \cup OfMonth(month) /\ Foreign \cap OfMonth(month) = {}
  BY <1>1, <1>4 DEF Foreign, OfMonth, Charged
<1>6. Cardinality(Foreign)' = Cardinality(Foreign) + Cardinality(OfMonth(month))
  <2>1. IsFiniteSet(Foreign) /\ IsFiniteSet(OfMonth(month))
    BY ForeignParts, OfMonthFinite
  <2>2. Cardinality(Foreign \cup OfMonth(month)) =
           Cardinality(Foreign) + Cardinality(OfMonth(month))
             - Cardinality(Foreign \cap OfMonth(month))
    BY <2>1, FS_Union
  <2>3. Cardinality(Foreign \cap OfMonth(month)) = 0
    BY <1>5, FS_EmptySet
  <2> QED BY <1>5, <2>1, <2>2, <2>3, FS_CardinalityType
<1>7. Ledger[month] - Final[month] = Cardinality(OfMonth(month))
  <2>1. delivered[month] \in Nat /\ lost[month] \in Nat /\ Cardinality(OfMonth(month)) \in Nat
    BY <1>1, OfMonthFinite DEF TypeOK
  <2>2. Ledger[month] = delivered[month] + lost[month] + Cardinality(OfMonth(month))
        /\ Final[month] = delivered[month] + lost[month]
    BY <1>1 DEF Ledger, Final, Spent
  <2> QED BY <2>1, <2>2
<1>8. Ledger[month] \in Int /\ Final[month] \in Int /\ Cardinality(Foreign) \in Int
  <2>1. delivered[month] \in Nat /\ lost[month] \in Nat /\ Spent(month) \in Nat
    BY <1>1, SpentIsNat DEF TypeOK
  <2>2. Ledger[month] = Spent(month) /\ Final[month] = delivered[month] + lost[month]
    BY <1>1 DEF Ledger, Final
  <2>3. Cardinality(Foreign) \in Nat
    BY ForeignParts
  <2>4. Ledger[month] \in Int /\ Final[month] \in Int
    BY <2>1, <2>2
  <2> QED BY <2>3, <2>4
<1>9. Cardinality(Foreign)' = Cardinality(Foreign) + Ledger[month] - Final[month]
  BY <1>6, <1>7, <1>8
<1> QED BY <1>1, <1>2, <1>3, <1>9 DEF Promise!TurnMonth, Ledger, Final

LEMMA StepRefines == IInv /\ IInv' /\ [Next]_vars => [Promise!Next]_(Promise!promise)
<1> SUFFICES ASSUME IInv, CapUnlessStray', [Next]_vars
             PROVE  [Promise!Next]_(Promise!promise)
  BY DEF IInv
<1>1. ASSUME NEW d \in Drafts, Ask(d) \/ \E n \in 1..MaxReviews : StartAudit(d, n)
      PROVE  Promise!Draft
  <2>1. Reserves({}, d)
    BY <1>1, HeldNow DEF Ask, StartAudit, Reserves
  <2> QED BY <2>1, ReserveRefines
<1>2. ASSUME NEW ai \in BOOLEAN, NEW e \in Drafts, AuditGoesOn(ai, e)
      PROVE  Promise!Draft
  <2>1. Held(Back(ai))
    BY <1>2, HeldNow DEF AuditGoesOn, Back, Held
  <2>2. Reserves(Back(ai), e)
    BY <1>2, <2>1 DEF AuditGoesOn, Reserves
  <2> QED BY <2>2, ReserveRefines
<1>3. ASSUME \/ \E d \in Drafts : AnsweredByAi(d) \/ FellBack(d)
             \/ \E ai \in BOOLEAN : AuditRefused(ai) \/ AuditStored(ai)
      PROVE  Promise!Draft
  BY <1>3, DoneEnds, AuditEnds, EndRefines
<1>4. CASE Crash
  BY <1>4, CrashRefines DEF Promise!Next
<1>5. CASE TurnMonth
  BY <1>5, TurnRefines DEF Promise!Next
<1>6. CASE ChangePlan
  <2>1. Ledger' = Ledger /\ Final' = Final /\ Foreign' = Foreign
    BY <1>6 DEF ChangePlan, Ledger, Final, Foreign, Spent, OfMonth, Charged
  <2>2. Promise!ChangePlan
    BY <1>6, <2>1 DEF ChangePlan, Promise!ChangePlan, Ledger, Final
  <2> QED BY <2>2 DEF Promise!Next
<1>7. CASE UNCHANGED vars
  <2>1. Ledger' = Ledger /\ Final' = Final /\ Foreign' = Foreign
    BY <1>7 DEF vars, Ledger, Final, Foreign, Spent, OfMonth, Charged
  <2> QED BY <1>7, <2>1 DEF vars, Promise!promise, Ledger, Final
<1>8. CASE Promise!Draft
  BY <1>8 DEF Promise!Next
<1> QED BY <1>1, <1>2, <1>3, <1>4, <1>5, <1>6, <1>7, <1>8 DEF Next

\* Every behaviour of the handlers keeps the promise: the two columns of the
\* counter, which no job resets and refunds do not look at closely, amount to a
\* ledger for each month that is charged within the cap.
THEOREM ImplementsPromise == Spec => PromiseKept
<1>1. Init => Promise!Init
  <2> SUFFICES ASSUME Init PROVE Promise!Init
    OBVIOUS
  <2>1. \A m \in Months : OfMonth(m) = {}
    BY DEF Init, OfMonth
  <2>2. \A m \in Months : Spent(m) = 0 /\ delivered[m] + lost[m] = 0
    BY <2>1, FS_EmptySet DEF Init, Spent
  <2>3. Ledger = [m \in Months |-> 0] /\ Final = [m \in Months |-> 0]
    BY <2>2 DEF Ledger, Final
  <2>4. Foreign = {}
    BY DEF Init, Foreign
  <2>5. Cardinality(Foreign) = 0
    BY <2>4, FS_EmptySet
  <2> QED BY <2>3, <2>5 DEF Init, Promise!Init, Promise!None, Ledger, Final
<1> QED BY <1>1, StepRefines, Invariance, PTL DEF Spec, PromiseKept, Promise!Spec

-----------------------------------------------------------------------------
(* Where no stray refund can come in.                                      *)

\* A capped account whose plan does not change, and for which no draft is
\* awaited while the month turns.  Everything else may happen: drafts and
\* audits at the same time, templates, refusals, crashes.
CalmStep == Next /\ unlimited' = unlimited /\ (month' # month => \A d \in Drafts : job[d] = Idle)

CalmSpec == Init /\ ~unlimited /\ [][CalmStep]_vars

Calm ==
    /\ ~unlimited
    /\ \A d \in Drafts : job[d] # Idle => Charged(d, month)
    /\ \A m \in Months : stray[m] = 0

LEMMA CalmRefunds ==
    ASSUME IInv, Calm, NEW R, Held(R), stray' = Strays(R)
    PROVE  \A m \in Months : stray'[m] = 0
<1>1. Foreign = {}
  BY DEF Calm, Foreign
<1>2. Foreign \cap R = {}
  BY <1>1
<1>3. Cardinality(Foreign \cap R) = 0
  BY <1>2, FS_EmptySet
<1> QED BY <1>3, ForeignStrays DEF IInv, Calm

LEMMA CalmKept == IInv /\ Calm /\ [CalmStep]_vars => Calm'
<1> SUFFICES ASSUME IInv, Calm, [CalmStep]_vars PROVE Calm'
  OBVIOUS
<1>1. ASSUME NEW R, NEW e, Reserves(R, e) PROVE Calm'
  <2>1. \A m \in Months : stray'[m] = 0
    BY <1>1, CalmRefunds DEF Reserves, RefundAndReserve
  <2>2. /\ month' = month /\ ~unlimited /\ ~unlimited'
        /\ job' = [d \in Drafts |-> IF d = e THEN [counted |-> ~unlimited, month |-> month]
                                    ELSE IF d \in R THEN Idle ELSE job[d]]
    BY <1>1 DEF Reserves, RefundAndReserve, Calm
  <2> QED BY <2>1, <2>2 DEF Calm, Charged
<1>2. ASSUME NEW R, NEW K, Ends(R, K) PROVE Calm'
  <2>1. \A m \in Months : stray'[m] = 0
    BY <1>2, CalmRefunds DEF Ends
  <2> QED BY <1>2, <2>1 DEF Ends, Release, Calm, Charged
<1>3. ASSUME NEW d \in Drafts, Ask(d) \/ \E n \in 1..MaxReviews : StartAudit(d, n)
      PROVE  Calm'
  <2>1. Reserves({}, d)
    BY <1>3, HeldNow DEF Ask, StartAudit, Reserves
  <2> QED BY <1>1, <2>1
<1>4. ASSUME NEW ai \in BOOLEAN, NEW e \in Drafts, AuditGoesOn(ai, e)
      PROVE  Calm'
  <2>1. Held(Back(ai))
    BY <1>4, HeldNow DEF AuditGoesOn, Back, Held
  <2>2. Reserves(Back(ai), e)
    BY <1>4, <2>1 DEF AuditGoesOn, Reserves
  <2> QED BY <1>1, <2>2
<1>5. ASSUME \/ \E d \in Drafts : AnsweredByAi(d) \/ FellBack(d)
             \/ \E ai \in BOOLEAN : AuditRefused(ai) \/ AuditStored(ai)
      PROVE  Calm'
  BY <1>2, <1>5, DoneEnds, AuditEnds
<1>6. CASE Crash
  BY <1>6 DEF Crash, Calm
<1>7. CASE TurnMonth /\ CalmStep
  <2>1. month' # month
    BY <1>7, MonthsAreNats, QuotaAssumption DEF TurnMonth, IInv, TypeOK
  <2> QED BY <1>7, <2>1 DEF TurnMonth, CalmStep, Calm
<1>8. CASE ChangePlan /\ CalmStep
  BY <1>8 DEF ChangePlan, CalmStep, IInv, TypeOK
<1>9. CASE UNCHANGED vars
  BY <1>9 DEF vars, Calm, Charged
<1> QED BY <1>3, <1>4, <1>5, <1>6, <1>7, <1>8, <1>9 DEF CalmStep, Next

\* Strays are all that lets drafts through beyond the cap: an account that
\* stays on a capped plan and has no draft in flight when the month turns gets
\* no more than the cap in any month, and its counter is exact, with any number
\* of drafts and audits at once and across crashes.
THEOREM CapIsStrict ==
    CalmSpec => [](/\ \A m \in Months : Spent(m) <= Cap
                   /\ period = month => used = Spent(month))
<1>1. Init /\ ~unlimited => IInv /\ Calm
  <2>1. Init => \A m \in Months : stray[m] = 0
    BY DEF Init
  <2>2. Init => \A d \in Drafts : job[d] = Idle
    BY DEF Init
  <2> QED BY <2>1, <2>2, InitIInv DEF Calm
<1>2. IInv /\ Calm /\ [CalmStep]_vars => IInv' /\ Calm'
  BY NextIInv, CalmKept DEF CalmStep
<1>3. IInv /\ Calm => /\ \A m \in Months : Spent(m) <= Cap
                      /\ period = month => used = Spent(month)
  <2> SUFFICES ASSUME IInv, Calm
               PROVE  /\ \A m \in Months : Spent(m) <= Cap
                      /\ period = month => used = Spent(month)
    OBVIOUS
  <2>1. \A m \in Months : stray[m] = 0 /\ Spent(m) \in Nat
    BY SpentIsNat DEF Calm, IInv
  <2>2. \A m \in Months : Spent(m) <= Cap
    BY <2>1, QuotaAssumption DEF IInv, CapUnlessStray
  <2>3. month \in Months /\ used \in Nat
    BY QuotaAssumption DEF IInv, TypeOK
  <2>4. period = month => used <= Spent(month) /\ Spent(month) <= used + 0
    BY <2>1, <2>3 DEF IInv, NeverOvercharged, CounterCovers
  <2> QED BY <2>1, <2>2, <2>3, <2>4
<1> QED BY <1>1, <1>2, <1>3, PTL DEF CalmSpec
=============================================================================
