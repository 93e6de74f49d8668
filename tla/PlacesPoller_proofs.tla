-------------------------- MODULE PlacesPoller_proofs --------------------------
(***************************************************************************)
(* Theorems about PlacesPoller and the links of ChatLinks, for any number  *)
(* of accounts, chats, businesses and reviews.  The links are settled      *)
(* first, without the poller.  "Not told twice" rests on what the tick has *)
(* in its hands: rows it has inserted and not told about.                  *)
(***************************************************************************)
EXTENDS PlacesPoller, FiniteSetTheorems, TLAPS

\* Codes that are dead have been handed out.
DeadWereIssued == \A d \in dead : d[3] <= issued[d[1]][d[2]]

\* Who took a link back is not bound, but for chats bound more than once.
HushedIsUnlinked ==
    \A u \in Users, k \in Kinds, c \in Chats :
        <<u, k, c>> \in hushed /\ link[k][u].chat = c => c \in doubled

LinkInv == LinkTypeOK /\ DeadWereIssued /\ DeadCodesStayDead /\ HushedIsUnlinked

\* The tick tells about rows that are, or were, in the table, each once.
HandIsKnown ==
    poll.stage = "telling" =>
        /\ poll.of \in Reviews /\ poll.of \notin poll.todo
        /\ poll.stops # {}
        /\ poll.todo \cup {poll.of} \subseteq rows \cup removed

ToldIsKnown == \A m \in told : m[1] \in rows \cup removed

\* What is still to be told has not been told, or was deleted in between.
HandIsFresh == \A m \in told \cap InHand : m[1] \in removed

IInv ==
    /\ TypeOK /\ LinkInv /\ HandIsKnown /\ ToldIsKnown /\ HandIsFresh
    /\ AnnouncedOnce /\ NothingForgotten

-----------------------------------------------------------------------------
(* The links.                                                              *)

LEMMA LinkInitInv == LinkInit => LinkInv
<1> SUFFICES ASSUME LinkInit
             PROVE  LinkInv
  OBVIOUS
<1> USE DEF LinkInit
<1>1. LinkTypeOK
  BY LinkAssumption DEF LinkTypeOK, LinkRow, Unlinked, Row
<1>2. DeadWereIssued
  BY DEF DeadWereIssued
<1>3. DeadCodesStayDead
  BY <1>1 DEF DeadCodesStayDead
<1>4. HushedIsUnlinked
  BY DEF HushedIsUnlinked
<1> QED BY <1>1, <1>2, <1>3, <1>4 DEF LinkInv

\* The row of one account and bot is replaced by one without a code.
RowReplaced(k, u, row) ==
    /\ row.code = 0
    /\ row # Unlinked => u \in accounts
    /\ link' = [link EXCEPT ![k][u] = row]
    /\ dead' = dead \cup Codes(k, u)
    /\ \A d \in Chats : <<u, k, d>> \in hushed' => row.chat # d \/ d \in doubled
    /\ \A v \in Users, j \in Kinds, d \in Chats :
          v # u \/ j # k => (<<v, j, d>> \in hushed' => <<v, j, d>> \in hushed)
    /\ hushed' \subseteq Users \X Kinds \X Chats
    /\ changes' \in Nat
    /\ UNCHANGED <<bots, accounts, issued, doubled>>

LEMMA LinkStep ==
    ASSUME LinkInv, LinkNext \/ (\E u \in Users : DeleteLinks(u))
    PROVE  LinkInv'
<1> USE LinkAssumption DEF LinkInv, Change
<1>1. ASSUME NEW k \in Kinds, NEW u \in Users, GenerateToken(k, u)
      PROVE  LinkInv'
  <2> DEFINE row == Row(link[k][u].chat, issued[k][u] + 1)
  <2>1. row \in LinkRow /\ row.chat = link[k][u].chat /\ row.code = issued[k][u] + 1
    BY DEF LinkTypeOK, LinkRow, Row
  <2>2. link' = [link EXCEPT ![k] = [link[k] EXCEPT ![u] = row]]
    BY <1>1 DEF GenerateToken, LinkTypeOK, LinkRow
  <2>3. \A j \in Kinds, v \in Users :
            link'[j][v] = IF j = k /\ v = u THEN row ELSE link[j][v]
    BY <2>2 DEF LinkTypeOK
  <2>4. \A j \in Kinds, v \in Users :
            issued'[j][v] = IF j = k /\ v = u THEN issued[k][u] + 1 ELSE issued[j][v]
    BY <1>1 DEF GenerateToken, LinkTypeOK
  <2>5. issued' \in [Kinds -> [Users -> Nat]]
    BY <1>1 DEF GenerateToken, LinkTypeOK
  <2>6. link' \in [Kinds -> [Users -> LinkRow]]
    BY <2>1, <2>2 DEF LinkTypeOK
  <2>7. Codes(k, u) \subseteq Kinds \X Users \X Nat
    BY DEF Codes, LinkTypeOK
  <2>8. LinkTypeOK'
    <3> HIDE DEF row
    <3>1. \A j \in Kinds, v \in Users :
            /\ link'[j][v].code \in {0, issued'[j][v]}
            /\ j = "line" /\ link'[j][v].chat # None => link'[j][v].code = 0
            /\ v \notin accounts => link'[j][v] = Unlinked
      BY <1>1, <2>1, <2>3, <2>4 DEF GenerateToken, LinkTypeOK
    <3> QED BY <1>1, <2>5, <2>6, <2>7, <3>1 DEF GenerateToken, LinkTypeOK
  <2>9. DeadWereIssued'
    BY <1>1, <2>4 DEF GenerateToken, DeadWereIssued, Codes, LinkTypeOK
  <2>10. DeadCodesStayDead'
    <3> SUFFICES ASSUME NEW j \in Kinds, NEW v \in Users, link'[j][v].code # 0,
                        <<j, v, link'[j][v].code>> \in dead'
                 PROVE  FALSE
      BY DEF DeadCodesStayDead
    <3>1. CASE j = k /\ v = u
      <4>1. <<k, u, issued[k][u] + 1>> \notin dead /\ <<k, u, issued[k][u] + 1>> \notin Codes(k, u)
        BY DEF DeadWereIssued, Codes, LinkTypeOK
      <4> QED BY <1>1, <2>1, <2>3, <3>1, <4>1 DEF GenerateToken
    <3>2. CASE ~(j = k /\ v = u)
      <4>1. <<j, v, link[j][v].code>> \notin Codes(k, u)
        BY <3>2 DEF Codes
      <4> QED BY <1>1, <2>3, <3>2, <4>1 DEF GenerateToken, DeadCodesStayDead
    <3> QED BY <3>1, <3>2
  <2>11. HushedIsUnlinked'
    BY <1>1, <2>1, <2>3 DEF GenerateToken, HushedIsUnlinked
  <2> QED BY <2>8, <2>9, <2>10, <2>11
<1>0. ASSUME NEW k \in Kinds, NEW u \in Users, NEW row \in LinkRow, RowReplaced(k, u, row)
      PROVE  LinkInv'
  <2>1. \A j \in Kinds, v \in Users :
            link'[j][v] = IF j = k /\ v = u THEN row ELSE link[j][v]
    BY <1>0 DEF RowReplaced, LinkTypeOK
  <2>2. link' \in [Kinds -> [Users -> LinkRow]]
    BY <1>0 DEF RowReplaced, LinkTypeOK
  <2>3. Codes(k, u) \subseteq Kinds \X Users \X Nat
    BY DEF Codes, LinkTypeOK
  <2>4. LinkTypeOK'
    BY <1>0, <2>1, <2>2, <2>3 DEF RowReplaced, LinkTypeOK
  <2>5. DeadWereIssued'
    BY <1>0 DEF RowReplaced, DeadWereIssued, Codes, LinkTypeOK
  <2>6. DeadCodesStayDead'
    BY <1>0, <2>1 DEF RowReplaced, DeadCodesStayDead, Codes
  <2>7. HushedIsUnlinked'
    BY <1>0, <2>1 DEF RowReplaced, HushedIsUnlinked
  <2> QED BY <2>4, <2>5, <2>6, <2>7
<1>2. ASSUME NEW k \in Kinds, NEW u \in Users, Expire(k, u)
      PROVE  LinkInv'
  <2> DEFINE row == Row(link[k][u].chat, 0)
  <2>1. row \in LinkRow /\ row.code = 0 /\ row.chat = link[k][u].chat
    BY DEF LinkTypeOK, LinkRow, Row
  <2>2. u \in accounts
    BY <1>2 DEF Expire, LinkTypeOK, Unlinked, Row
  <2>3. link' = [link EXCEPT ![k][u] = row]
    BY <1>2 DEF Expire
  <2> HIDE DEF row
  <2>4. RowReplaced(k, u, row)
    BY <1>2, <2>1, <2>2, <2>3 DEF Expire, RowReplaced, LinkTypeOK, HushedIsUnlinked
  <2> QED BY <1>0, <2>1, <2>4
<1>4. ASSUME NEW k \in Kinds, NEW c \in Chats, NEW u \in Users, SendCode(k, c, u)
      PROVE  LinkInv'
  <2>1. Bind(link[k][u], c) \in LinkRow /\ Bind(link[k][u], c).code = 0
        /\ Bind(link[k][u], c).chat = c
    BY DEF Bind, LinkRow, Row
  <2>2. u \in accounts
    BY <1>4 DEF SendCode, LinkTypeOK, Unlinked, Row
  <2>3. link' = [link EXCEPT ![k][u] = Bind(link[k][u], c)]
    BY <1>4 DEF SendCode, LinkTypeOK
  <2>4. RowReplaced(k, u, Bind(link[k][u], c))
    BY <1>4, <2>1, <2>2, <2>3 DEF SendCode, RowReplaced, LinkTypeOK
  <2> QED BY <1>0, <2>1, <2>4
<1>5. ASSUME NEW k \in Kinds, NEW u \in Users, UnlinkInSettings(k, u)
      PROVE  LinkInv'
  <2>1. Unlinked \in LinkRow /\ Unlinked.code = 0
        /\ \A d \in Chats : Unlinked.chat # d
    BY DEF Unlinked, LinkRow, Row
  <2>2. link' = [link EXCEPT ![k][u] = Unlinked]
    BY <1>5 DEF UnlinkInSettings
  <2>3. RowReplaced(k, u, Unlinked)
    BY <1>5, <2>1, <2>2 DEF UnlinkInSettings, RowReplaced, LinkTypeOK
  <2> QED BY <1>0, <2>1, <2>3
<1>6. ASSUME NEW k \in Kinds, NEW c \in Chats, Leave(k, c)
      PROVE  LinkInv'
  <2>1. PICK users \in SUBSET Bound(k, c) :
            /\ Drop(k, users)
            /\ users = Bound(k, c) \/ c \in doubled'
    <3>1. CASE k = "line" /\ UnfollowAll(c)
      BY <3>1 DEF UnfollowAll
    <3>2. CASE k = "telegram" /\ \E u \in Bound(k, c) : Drop(k, {u})
      <4>1. PICK u \in Bound(k, c) : Drop(k, {u})
        BY <3>2
      <4>2. CASE \A v \in Bound(k, c) : v = u
        BY <4>1, <4>2
      <4>3. CASE \E v \in Bound(k, c) : v # u
        <5>1. c \in doubled'
          BY <1>6, <3>2, <4>3 DEF Leave
        <5> QED BY <4>1, <5>1
      <4> QED BY <4>2, <4>3
    <3> QED BY <1>6, <3>1, <3>2 DEF Leave
  <2>2. \A u \in Bound(k, c) : Row(None, link[k][u].code) \in LinkRow
    BY DEF Bound, LinkTypeOK, LinkRow, Row
  <2>3. \A j \in Kinds, v \in Users :
            link'[j][v] = IF j = k /\ v \in users THEN Row(None, link[j][v].code)
                          ELSE link[j][v]
    BY <2>1 DEF Drop, LinkTypeOK
  <2>4. link' \in [Kinds -> [Users -> LinkRow]]
    BY <2>1, <2>2 DEF Drop, LinkTypeOK, Bound
  <2>5. \A j \in Kinds, v \in Users :
            /\ link'[j][v].code = link[j][v].code
            /\ link'[j][v].chat \in {None, link[j][v].chat}
            /\ j = k /\ v \in users => link'[j][v].chat = None /\ v \in accounts
    <3>1. \A v \in users : v \in accounts
      BY DEF Bound, LinkTypeOK, Unlinked, Row
    <3>2. SUFFICES ASSUME NEW j \in Kinds, NEW v \in Users
                   PROVE  /\ link'[j][v].code = link[j][v].code
                          /\ link'[j][v].chat \in {None, link[j][v].chat}
                          /\ j = k /\ v \in users => link'[j][v].chat = None /\ v \in accounts
      OBVIOUS
    <3>3. CASE j = k /\ v \in users
      <4>1. link'[j][v] = Row(None, link[j][v].code)
        BY <2>3, <3>3
      <4>2. link'[j][v].code = link[j][v].code /\ link'[j][v].chat = None
        BY <4>1 DEF Row
      <4> QED BY <3>1, <3>3, <4>2
    <3>4. CASE ~(j = k /\ v \in users)
      BY <2>3, <3>4
    <3> QED BY <3>3, <3>4
  <2>6. doubled \subseteq doubled' /\ doubled' \subseteq doubled \cup {c}
    BY <1>6 DEF Leave
  <2>7. LinkTypeOK'
    <3>1. \A j \in Kinds, v \in Users : v \notin accounts => link'[j][v] = Unlinked
      <4> SUFFICES ASSUME NEW j \in Kinds, NEW v \in Users, v \notin accounts
                   PROVE  link'[j][v] = Unlinked
        OBVIOUS
      <4>1. ~(j = k /\ v \in users)
        BY <2>5
      <4> QED BY <2>3, <4>1 DEF LinkTypeOK
    <3>2. hushed' \subseteq Users \X Kinds \X Chats /\ doubled' \subseteq Chats
      BY <1>6, <2>6 DEF Leave, LinkTypeOK
    <3>3. \A j \in Kinds, v \in Users :
            /\ link'[j][v].code \in {0, issued[j][v]}
            /\ j = "line" /\ link'[j][v].chat # None => link'[j][v].code = 0
      <4>1. \A j \in Kinds, v \in Users :
              /\ link[j][v].code \in {0, issued[j][v]}
              /\ j = "line" /\ link[j][v].chat # None => link[j][v].code = 0
        BY DEF LinkTypeOK
      <4> HIDE DEF LinkInv
      <4> QED BY <2>5, <4>1
    <3> QED BY <1>6, <2>4, <3>1, <3>2, <3>3 DEF Leave, LinkTypeOK
  <2>8. HushedIsUnlinked'
    <3> SUFFICES ASSUME NEW v \in Users, NEW j \in Kinds, NEW d \in Chats,
                        <<v, j, d>> \in hushed', link'[j][v].chat = d
                 PROVE  d \in doubled'
      BY DEF HushedIsUnlinked
    <3>1. link[j][v].chat = d
      BY <2>5
    <3>2. CASE j = k /\ d = c
      <4>1. v \in Bound(k, c) /\ v \notin users
        BY <2>5, <3>1, <3>2 DEF Bound
      <4> QED BY <2>1, <3>2, <4>1
    <3>3. CASE ~(j = k /\ d = c)
      <4>1. <<v, j, d>> \in hushed
        BY <1>6, <3>3 DEF Leave
      <4> QED BY <2>6, <3>1, <4>1 DEF HushedIsUnlinked
    <3> QED BY <3>2, <3>3
  <2> QED BY <1>6, <2>5, <2>7, <2>8 DEF Leave, DeadWereIssued, DeadCodesStayDead
<1>7. ASSUME NEW u \in Users, DeleteLinks(u)
      PROVE  LinkInv'
  <2>1. \A j \in Kinds, v \in Users :
            link'[j][v] = IF v = u THEN Unlinked ELSE link[j][v]
    BY <1>7 DEF DeleteLinks, LinkTypeOK
  <2>2. Unlinked \in LinkRow /\ Unlinked.code = 0 /\ Unlinked.chat \notin Chats
        /\ Unlinked.chat = None
    BY DEF Unlinked, LinkRow, Row
  <2>3. link' \in [Kinds -> [Users -> LinkRow]]
    BY <1>7, <2>2 DEF DeleteLinks, LinkTypeOK
  <2>4. UNION {Codes(k, u) : k \in Kinds} \subseteq Kinds \X Users \X Nat
    BY DEF Codes, LinkTypeOK
  <2>5. LinkTypeOK'
    <3> HIDE DEF Unlinked
    <3>1. \A j \in Kinds, v \in Users :
            /\ link'[j][v].code \in {0, issued[j][v]}
            /\ j = "line" /\ link'[j][v].chat # None => link'[j][v].code = 0
            /\ v \notin accounts' => link'[j][v] = Unlinked
      BY <1>7, <2>1, <2>2 DEF DeleteLinks, LinkTypeOK
    <3>2. hushed' \subseteq Users \X Kinds \X Chats
      BY <1>7 DEF DeleteLinks, LinkTypeOK
    <3> QED BY <1>7, <2>3, <2>4, <3>1, <3>2 DEF DeleteLinks, LinkTypeOK
  <2>6. DeadWereIssued'
    BY <1>7 DEF DeleteLinks, DeadWereIssued, Codes, LinkTypeOK
  <2>7. DeadCodesStayDead'
    BY <1>7, <2>1, <2>2 DEF DeleteLinks, DeadCodesStayDead, Codes
  <2>8. HushedIsUnlinked'
    BY <1>7, <2>1, <2>2 DEF DeleteLinks, HushedIsUnlinked
  <2> QED BY <2>5, <2>6, <2>7, <2>8
<1> HIDE DEF LinkInv
<1> QED BY <1>1, <1>2, <1>4, <1>5, <1>6, <1>7 DEF LinkNext

LEMMA LinkSame ==
    ASSUME LinkInv, changes' \in Nat,
           UNCHANGED <<bots, accounts, link, issued, hushed, doubled, dead>>
    PROVE  LinkInv'
BY DEF LinkInv, LinkTypeOK, DeadWereIssued, DeadCodesStayDead, HushedIsUnlinked

-----------------------------------------------------------------------------
(* The walk.                                                               *)

LEMMA MessageType ==
    ASSUME TypeOK, NEW p \in Poll, NEW r \in Reviews, NEW s \in StopsOf(p) \ {"draft"}
    PROVE  Message(p, r, s) \in Messages /\ s \in Stops /\ Message(p, r, s)[1] = r
<1>1. s \in Stops \ {"draft"}
  BY DEF StopsOf, Stops, TypeOK, LinkTypeOK
<1>2. (IF s \in Kinds THEN p.chat[s] ELSE None) \in Chats \cup {None}
  BY DEF Poll
<1> QED BY <1>1, <1>2 DEF Message, Messages

\* What is awaited is one of the stops that are left.
LEMMA StopIsLeft ==
    ASSUME poll.stops \subseteq Stops, poll.stops # {}
    PROVE  Stop \in poll.stops
<1>1. Rank["draft"] = 1 /\ Rank["mail"] = 2 /\ Rank["telegram"] = 3 /\ Rank["line"] = 4
  BY DEF Rank
<1>2. \E s \in poll.stops : \A t \in poll.stops : Rank[s] <= Rank[t]
  <2> HIDE DEF Rank
  <2>1. CASE "draft" \in poll.stops
    BY <1>1, <2>1 DEF Stops, Kinds
  <2>2. CASE "draft" \notin poll.stops /\ "mail" \in poll.stops
    BY <1>1, <2>2 DEF Stops, Kinds
  <2>3. CASE "draft" \notin poll.stops /\ "mail" \notin poll.stops /\ "telegram" \in poll.stops
    BY <1>1, <2>3 DEF Stops, Kinds
  <2>4. CASE poll.stops = {"line"}
    BY <1>1, <2>4
  <2> QED BY <2>1, <2>2, <2>3, <2>4 DEF Stops, Kinds
<1> QED BY <1>2 DEF Stop

\* The next business is read afresh, or the tick is over.
LEMMA GoesOn ==
    ASSUME TypeOK, NEW left \in SUBSET Businesses, GoOn(left)
    PROVE  /\ poll' \in Poll /\ running' \in BOOLEAN
           /\ poll'.stage \in {"idle", "fetching"}
           /\ poll'.stage = "idle" => poll' = NoPoll
           /\ poll' # NoPoll => running'
           /\ \/ poll'.at = None
              \/ \A k \in Kinds : poll'.chat[k] = link[k][OwnerOf[poll'.at]].chat
<1> USE PollerAssumption
<1>1. ASSUME NEW b \in left \cap open \cap placed, NEW rest \in SUBSET left, Start(b, rest)
      PROVE  /\ poll' \in Poll /\ poll'.stage = "fetching" /\ running' = TRUE
             /\ \A k \in Kinds : poll'.chat[k] = link[k][OwnerOf[poll'.at]].chat
  <2> DEFINE m == OwnerOf[b] \in accounts \cap mailOn
  <2>1. m \in BOOLEAN
    OBVIOUS
  <2>2. [k \in Kinds |-> link[k][OwnerOf[b]].chat] \in [Kinds -> Chats \cup {None}]
    BY DEF TypeOK, LinkTypeOK, LinkRow
  <2>3. poll' = [stage |-> "fetching", at |-> b, left |-> rest, mail |-> m,
                 chat |-> [k \in Kinds |-> link[k][OwnerOf[b]].chat],
                 of |-> None, todo |-> {}, stops |-> {}]
    BY <1>1 DEF Start
  <2> HIDE DEF m
  <2> QED BY <1>1, <2>1, <2>2, <2>3 DEF Start, Poll
<1>2. ASSUME End(FALSE)
      PROVE  poll' = NoPoll /\ running' = FALSE /\ NoPoll \in Poll /\ NoPoll.at = None
             /\ NoPoll.stage = "idle"
  BY <1>2 DEF End, NoPoll, Poll
<1>3. CASE End(FALSE)
  BY <1>2, <1>3
<1>4. CASE \E b \in left \cap open \cap placed, rest \in SUBSET left : Start(b, rest)
  BY <1>1, <1>4 DEF NoPoll
<1>5. (\E b \in left \cap open \cap placed, rest \in SUBSET left : Start(b, rest)) \/ End(FALSE)
  BY DEF GoOn
<1> QED BY <1>3, <1>4, <1>5

LEMMA IdleHandIsEmpty ==
    ASSUME poll.stage # "telling"
    PROVE  InHand = {} /\ Going = {}
BY DEF InHand, Going

\* All messages about some reviews.
RoundsOf(todo) == {Message(poll, q, s) : q \in todo, s \in StopsOf(poll) \ {"draft"}}

\* A round begins with every stop before it.
LEMMA RoundBegins ==
    ASSUME TypeOK, NEW todo \in SUBSET Reviews, NEW r \in todo, Round(poll, r, todo),
           UNCHANGED bots
    PROVE  /\ poll' \in Poll /\ poll'.stage = "telling" /\ poll'.at = poll.at
           /\ poll'.of = r /\ poll'.todo = todo \ {r} /\ poll'.stops = StopsOf(poll)
           /\ StopsOf(poll) # {}
           /\ InHand' = RoundsOf(todo)
<1>1. StopsOf(poll) \subseteq Stops /\ "draft" \in StopsOf(poll)
  BY DEF StopsOf, Stops, TypeOK, LinkTypeOK
<1>2. /\ poll' \in Poll /\ poll'.stage = "telling" /\ poll'.at = poll.at
      /\ poll'.of = r /\ poll'.todo = todo \ {r} /\ poll'.stops = StopsOf(poll)
      /\ poll'.mail = poll.mail /\ poll'.chat = poll.chat
  BY <1>1 DEF Round, TypeOK, Poll
<1>3. StopsOf(poll)' = StopsOf(poll)
  BY <1>2 DEF StopsOf
<1>4. \A q, s : Message(poll, q, s)' = Message(poll, q, s)
  BY <1>2 DEF Message
<1>5. InHand' = {Message(poll, r, s) : s \in StopsOf(poll) \ {"draft"}}
                \cup {Message(poll, q, s) : q \in todo \ {r}, s \in StopsOf(poll) \ {"draft"}}
  BY <1>2, <1>3, <1>4 DEF InHand
<1> QED BY <1>1, <1>2, <1>5 DEF RoundsOf

\* The step after an await leaves in hand what was there, but for what was
\* awaited.
LEMMA HandShrinks ==
    ASSUME TypeOK, HandIsKnown, poll.stage = "telling", NextStop,
           UNCHANGED bots
    PROVE  /\ poll' \in Poll /\ running' \in BOOLEAN
           /\ poll' # NoPoll => running'
           /\ poll'.stage = "idle" => poll' = NoPoll
           /\ InHand' = InHand \ Going
           /\ Going \subseteq InHand
           /\ \A m \in Going : m[1] = poll.of
           /\ poll'.stage = "telling" =>
                /\ poll'.of \notin poll'.todo /\ poll'.stops # {}
                /\ poll'.todo \cup {poll'.of} \subseteq poll.todo \cup {poll.of}
           /\ \/ poll'.at \in {None, poll.at}
              \/ \A k \in Kinds : poll'.chat[k] = link[k][OwnerOf[poll'.at]].chat
<1> DEFINE Here(S) == {Message(poll, poll.of, s) : s \in S \ {"draft"}}
           There == RoundsOf(poll.todo)
<1>1. Stop \in poll.stops
  BY StopIsLeft DEF HandIsKnown, TypeOK, Poll
<1>2. InHand = Here(poll.stops) \cup There
  BY DEF InHand, RoundsOf
<1>3. Going = Here({Stop})
  BY DEF Going
<1>4. \A q, r, s, t : Message(poll, q, s) = Message(poll, r, t) => q = r /\ s = t
  BY DEF Message
<1>5. poll.of \notin poll.todo
  BY DEF HandIsKnown
<1>6. Going \cap There = {}
  BY <1>3, <1>4, <1>5 DEF RoundsOf
<1>7. Here(poll.stops) \ Going = Here(poll.stops \ {Stop})
  BY <1>3, <1>4
<1>8. Going \subseteq InHand /\ \A m \in Going : m[1] = poll.of
  BY <1>1, <1>2, <1>3 DEF Message
<1>9. InHand \ Going = Here(poll.stops \ {Stop}) \cup There
  BY <1>2, <1>6, <1>7
<1>10. CASE poll.stops # {Stop} /\ poll' = [poll EXCEPT !.stops = @ \ {Stop}] /\ UNCHANGED running
  <2>1. poll' \in Poll /\ poll'.stage = "telling" /\ poll'.of = poll.of /\ poll'.at = poll.at
        /\ poll'.todo = poll.todo /\ poll'.stops = poll.stops \ {Stop}
        /\ poll'.mail = poll.mail /\ poll'.chat = poll.chat
    BY <1>10 DEF TypeOK, Poll
  <2>2. StopsOf(poll)' = StopsOf(poll)
    BY <2>1 DEF StopsOf
  <2>3. \A q, s : Message(poll, q, s)' = Message(poll, q, s)
    BY <2>1 DEF Message
  <2>4. InHand' = Here(poll.stops \ {Stop}) \cup There
    BY <2>1, <2>2, <2>3 DEF InHand, RoundsOf
  <2>5. poll # NoPoll /\ poll'.stops # {}
    BY <1>1, <1>10, <2>1 DEF NoPoll
  <2>6. running \in BOOLEAN /\ running' = running /\ (poll # NoPoll => running)
    BY <1>10 DEF TypeOK
  <2> HIDE DEF Here, There
  <2> QED BY <1>5, <1>8, <1>9, <2>1, <2>4, <2>5, <2>6
<1>11. CASE /\ poll.stops = {Stop} /\ poll.todo # {} /\ UNCHANGED running
            /\ \E r \in poll.todo : Round(poll, r, poll.todo)
  <2>1. PICK r \in poll.todo : Round(poll, r, poll.todo)
    BY <1>11
  <2>2. poll.todo \subseteq Reviews
    BY DEF TypeOK, Poll
  <2>3. /\ poll' \in Poll /\ poll'.stage = "telling" /\ poll'.at = poll.at
        /\ poll'.of = r /\ poll'.todo = poll.todo \ {r} /\ poll'.stops # {}
        /\ InHand' = There
    BY <2>1, <2>2, RoundBegins
  <2>4. Here(poll.stops \ {Stop}) = {}
    BY <1>11
  <2>5. running \in BOOLEAN /\ running' = running /\ running
    BY <1>11 DEF TypeOK, NoPoll
  <2> HIDE DEF Here, There
  <2> QED BY <1>5, <1>8, <1>9, <2>3, <2>4, <2>5
<1>12. CASE poll.stops = {Stop} /\ poll.todo = {} /\ GoOn(poll.left)
  <2>1. poll.left \in SUBSET Businesses
    BY DEF TypeOK, Poll
  <2>2. There = {} /\ Here(poll.stops \ {Stop}) = {}
    BY <1>12 DEF RoundsOf
  <2>3. poll'.stage # "telling"
    BY <1>12, <2>1, GoesOn
  <2>4. InHand' = {}
    BY <2>3 DEF InHand
  <2> HIDE DEF Here, There
  <2> QED BY <1>8, <1>9, <1>12, <2>1, <2>2, <2>3, <2>4, GoesOn
<1> QED BY <1>10, <1>11, <1>12 DEF NextStop

-----------------------------------------------------------------------------
(* The invariant.                                                          *)

\* What the tick says, but for the types.
Saying == HandIsKnown /\ ToldIsKnown /\ HandIsFresh /\ AnnouncedOnce /\ NothingForgotten

LEMMA InitInv == Init => IInv
<1> SUFFICES ASSUME Init
             PROVE  IInv
  OBVIOUS
<1> USE DEF Init
<1>1. LinkInv
  BY LinkInitInv
<1>2. poll = NoPoll /\ poll.stage = "idle" /\ poll \in Poll
  BY DEF NoPoll, Poll
<1>3. TypeOK
  BY <1>1, <1>2, PollerAssumption DEF TypeOK, LinkInv, LinkInit
<1>4. InHand = {} /\ HandIsKnown
  BY <1>2 DEF InHand, HandIsKnown
<1> QED BY <1>1, <1>3, <1>4 DEF IInv, ToldIsKnown, HandIsFresh, AnnouncedOnce, NothingForgotten

\* A step of Google or the owners: a row that goes is remembered.
LEMMA OthersStep ==
    ASSUME IInv, UNCHANGED <<bots, poll, told, twice, owed, lost>>,
           rows \cup removed \subseteq rows' \cup removed', removed \subseteq removed'
    PROVE  Saying'
<1>1. InHand' = InHand
  BY DEF InHand, StopsOf, Message
<1> QED BY <1>1 DEF IInv, Saying, HandIsKnown, ToldIsKnown, HandIsFresh, AnnouncedOnce,
                 NothingForgotten

\* A step of the tick that says nothing and ends with nothing in hand.
LEMMA SilentStep ==
    ASSUME IInv, poll.stage # "telling", poll'.stage # "telling",
           UNCHANGED <<rows, removed, told, twice, owed, lost>>
    PROVE  Saying'
<1>1. InHand = {} /\ InHand' = {}
  BY DEF InHand
<1> QED BY <1>1 DEF IInv, Saying, HandIsKnown, ToldIsKnown, HandIsFresh, AnnouncedOnce,
                 NothingForgotten

LEMMA HandType == TypeOK /\ HandIsKnown => InHand \subseteq Messages
<1> SUFFICES ASSUME TypeOK, HandIsKnown, poll.stage = "telling"
             PROVE  InHand \subseteq Messages
  BY DEF InHand
<1>1. poll \in Poll /\ poll.of \in Reviews /\ poll.todo \subseteq Reviews /\ poll.stops \subseteq Stops
  BY DEF TypeOK, Poll, HandIsKnown
<1>2. \A r \in poll.todo, s \in StopsOf(poll) \ {"draft"} : Message(poll, r, s) \in Messages
  BY <1>1, MessageType
<1>3. \A s \in poll.stops \ {"draft"} : Message(poll, poll.of, s) \in Messages
  BY <1>1 DEF Message, Messages, Poll
<1> QED BY <1>2, <1>3 DEF InHand

LEMMA InvNext == IInv /\ [Next]_vars => IInv'
<1> SUFFICES ASSUME IInv, [Next]_vars
             PROVE  IInv'
  OBVIOUS
<1> USE LinkAssumption, PollerAssumption
<1>0. TypeOK /\ LinkInv /\ HandIsKnown /\ poll \in Poll
  BY DEF IInv, TypeOK
<1>t. ASSUME Saying', LinkInv', TypeOK'
      PROVE  IInv'
  BY <1>t DEF Saying, IInv
<1>1. CASE LinkNext /\ UNCHANGED pollVars
  <2>1. LinkInv' /\ UNCHANGED <<bots, accounts>>
    BY <1>0, <1>1, LinkStep DEF LinkNext, GenerateToken, Expire, SendCode, UnlinkInSettings, Leave
  <2>2. Saying'
    BY <1>1, <2>1, OthersStep DEF pollVars
  <2>3. TypeOK'
    BY <1>0, <1>1, <2>1 DEF TypeOK, LinkInv, pollVars
  <2> QED BY <1>t, <2>1, <2>2, <2>3
<1>2. ASSUME NEW r \in Reviews, Appear(r)
      PROVE  IInv'
  <2>1. LinkInv'
    BY <1>0, <1>2, LinkSame DEF Appear, Change, LinkInv, LinkTypeOK
  <2>2. Saying'
    BY <1>2, OthersStep DEF Appear
  <2>3. TypeOK'
    BY <1>0, <1>2, <2>1 DEF Appear, TypeOK, LinkInv
  <2> QED BY <1>t, <2>1, <2>2, <2>3
<1>3. ASSUME NEW b \in Businesses, SetPlace(b)
      PROVE  IInv'
  <2>1. LinkInv'
    BY <1>0, <1>3, LinkSame DEF SetPlace, Change, LinkInv, LinkTypeOK
  <2>2. Saying'
    BY <1>3, OthersStep DEF SetPlace
  <2>3. TypeOK'
    BY <1>0, <1>3, <2>1 DEF SetPlace, TypeOK, LinkInv
  <2> QED BY <1>t, <2>1, <2>2, <2>3
<1>4. ASSUME NEW u \in Users, SetMail(u)
      PROVE  IInv'
  <2>1. LinkInv'
    BY <1>0, <1>4, LinkSame DEF SetMail, Change, LinkInv, LinkTypeOK
  <2>2. Saying'
    BY <1>4, OthersStep DEF SetMail
  <2>3. TypeOK'
    BY <1>0, <1>4, <2>1 DEF SetMail, TypeOK, LinkInv
  <2> QED BY <1>t, <2>1, <2>2, <2>3
<1>5. ASSUME NEW r \in Reviews, DeleteReview(r)
      PROVE  IInv'
  <2>1. LinkInv'
    BY <1>0, <1>5, LinkSame DEF DeleteReview, Change, LinkInv, LinkTypeOK
  <2>2. Saying'
    BY <1>5, OthersStep DEF DeleteReview
  <2>3. TypeOK'
    BY <1>0, <1>5, <2>1 DEF DeleteReview, TypeOK, LinkInv
  <2> QED BY <1>t, <2>1, <2>2, <2>3
<1>6. ASSUME NEW u \in Users, DeleteAccount(u)
      PROVE  IInv'
  <2>1. LinkInv'
    BY <1>0, <1>6, LinkStep DEF DeleteAccount
  <2>2. Saying'
    BY <1>6, OthersStep DEF DeleteAccount, DeleteLinks
  <2>3. PICK gone \in SUBSET {b \in open : OwnerOf[b] = u} :
            /\ open' = open \ gone
            /\ placed' = placed \ gone
            /\ rows' = {r \in rows : PlaceOf[r] \notin gone}
            /\ removed' = removed \cup {r \in rows : PlaceOf[r] \in gone}
    BY <1>6 DEF DeleteAccount
  <2>4. /\ accounts' = accounts \ {u} /\ mailOn' = mailOn \ {u}
        /\ UNCHANGED <<page, running, poll, faults, told, twice, owed, lost>>
    BY <1>6 DEF DeleteAccount, DeleteLinks
  <2>5. TypeOK'
    BY <1>0, <2>1, <2>3, <2>4 DEF TypeOK, LinkInv
  <2> QED BY <1>t, <2>1, <2>2, <2>5
<1>6e. ASSUME NEW u \in Users, Erase(u)
      PROVE  IInv'
  <2>1. LinkInv'
    BY <1>0, <1>6e, LinkStep DEF Erase
  <2>2. Saying'
    BY <1>6e, OthersStep DEF Erase, DeleteLinks
  <2>3. accounts' = accounts \ {u} /\ mailOn' = mailOn \ {u}
        /\ UNCHANGED <<open, placed, page, rows, running, poll, faults, told, twice, removed,
                       owed, lost>>
    BY <1>6e DEF Erase, DeleteLinks
  <2>4. TypeOK'
    BY <1>0, <2>1, <2>3 DEF TypeOK, LinkInv
  <2> QED BY <1>t, <2>1, <2>2, <2>4
<1>l. ASSUME UNCHANGED linkVars
      PROVE  LinkInv' /\ LinkTypeOK'
  BY <1>0, <1>l, LinkSame DEF linkVars, LinkInv, LinkTypeOK
\* A step of the tick that goes on to the next business.
<1>g. ASSUME NEW left \in SUBSET Businesses, GoOn(left), poll.stage # "telling",
             UNCHANGED <<unchangedByPoll, rows, told, twice, owed, lost>>, faults' \in Nat
      PROVE  IInv'
  <2>1. /\ poll' \in Poll /\ running' \in BOOLEAN /\ poll'.stage # "telling"
        /\ poll'.stage = "idle" => poll' = NoPoll
        /\ poll' # NoPoll => running'
    BY <1>0, <1>g, GoesOn
  <2>2. LinkInv'
    BY <1>g, <1>l DEF unchangedByPoll
  <2>3. Saying'
    BY <1>g, <2>1, SilentStep DEF unchangedByPoll
  <2>4. TypeOK'
    BY <1>0, <1>g, <1>l, <2>1 DEF TypeOK, unchangedByPoll, linkVars
  <2> QED BY <1>t, <2>2, <2>3, <2>4
<1>e. ASSUME NEW t \in BOOLEAN, End(t)
      PROVE  poll' = NoPoll /\ running' = FALSE /\ NoPoll \in Poll /\ NoPoll.stage = "idle"
             /\ InHand' = {}
  <2>1. poll' = NoPoll /\ running' = FALSE
    BY <1>e DEF End
  <2>2. NoPoll \in Poll /\ NoPoll.stage = "idle"
    BY DEF NoPoll, Poll
  <2> QED BY <2>1, <2>2 DEF InHand
<1>7. CASE Tick
  <2>1. poll.stage # "telling"
    BY <1>0, <1>7 DEF Tick, TypeOK, NoPoll
  <2>2. open \cap placed \in SUBSET Businesses /\ faults' \in Nat
    BY <1>0, <1>7 DEF Tick, TypeOK
  <2>3. GoOn(open \cap placed) /\ UNCHANGED <<unchangedByPoll, rows, told, twice, owed, lost>>
    BY <1>7 DEF Tick
  <2> QED BY <1>g, <2>1, <2>2, <2>3
<1>8. CASE FetchFails \/ NothingNew
  <2>1. poll.stage # "telling" /\ GoOn(poll.left)
        /\ UNCHANGED <<unchangedByPoll, rows, told, twice, owed, lost>>
    BY <1>8 DEF FetchFails, NothingNew
  <2>2. poll.left \in SUBSET Businesses
    BY <1>0 DEF Poll
  <2>3. faults' \in Nat
    BY <1>0, <1>8 DEF FetchFails, NothingNew, Fault, TypeOK
  <2> QED BY <1>g, <2>1, <2>2, <2>3
<1>9. CASE InsertThrows
  <2>1. poll.stage # "telling" /\ End(TRUE)
        /\ UNCHANGED <<unchangedByPoll, rows, faults, told, twice, owed, lost>>
    BY <1>9 DEF InsertThrows
  <2>2. poll' = NoPoll /\ running' = FALSE /\ NoPoll \in Poll /\ poll'.stage = "idle"
    BY <1>e, <2>1
  <2>3. LinkInv'
    BY <1>l, <2>1 DEF unchangedByPoll
  <2>4. Saying'
    BY <2>1, <2>2, SilentStep DEF unchangedByPoll
  <2>5. TypeOK'
    BY <1>0, <1>l, <2>1, <2>2 DEF TypeOK, unchangedByPoll, linkVars
  <2> QED BY <1>t, <2>3, <2>4, <2>5
<1>10. CASE Insert
  <2> DEFINE new == New(poll.at)
  <2>1. /\ poll.stage = "fetching" /\ poll.at \in open
        /\ new # {} /\ rows' = rows \cup new
        /\ UNCHANGED <<unchangedByPoll, running, faults, told, twice, lost>>
    BY <1>10 DEF Insert, Exists
  <2>2. new \in SUBSET {r \in Reviews : PlaceOf[r] = poll.at} /\ new \cap rows = {}
    BY <1>0 DEF New, PageOf, TypeOK
  <2>3. PICK r \in new : Round(poll, r, new)
    BY <1>10 DEF Insert
  <2>4. owed' = owed \cup RoundsOf(new)
    BY <1>10 DEF Insert, RoundsOf
  <2> HIDE DEF new
  <2>5. /\ poll' \in Poll /\ poll'.stage = "telling"
        /\ poll'.of = r /\ poll'.todo = new \ {r} /\ poll'.stops # {}
        /\ InHand' = RoundsOf(new)
    <3>1. UNCHANGED bots
      BY <2>1 DEF unchangedByPoll, linkVars
    <3> QED BY <1>0, <2>2, <2>3, <3>1, RoundBegins
  <2>6. RoundsOf(new) \subseteq Messages /\ \A m \in RoundsOf(new) : m[1] \in new
    <3>1. \A q \in new, s \in StopsOf(poll) \ {"draft"} :
            Message(poll, q, s) \in Messages /\ Message(poll, q, s)[1] = q
      BY <1>0, <2>2, MessageType
    <3> QED BY <3>1 DEF RoundsOf
  <2>7. LinkInv'
    BY <1>l, <2>1 DEF unchangedByPoll
  <2>8. running
    BY <1>0, <2>1 DEF TypeOK, NoPoll
  <2>9. TypeOK'
    BY <1>0, <1>l, <2>1, <2>2, <2>4, <2>5, <2>6, <2>8 DEF TypeOK, unchangedByPoll, linkVars
  <2>10. InHand = {} /\ removed' = removed
    BY <2>1 DEF InHand, unchangedByPoll
  <2>11. Saying'
    BY <2>1, <2>2, <2>4, <2>5, <2>6, <2>10
       DEF IInv, Saying, HandIsKnown, ToldIsKnown, HandIsFresh, AnnouncedOnce, NothingForgotten
  <2> QED BY <1>t, <2>7, <2>9, <2>11
<1>11. CASE Told \/ NotTold
  <2>1. /\ poll.stage = "telling" /\ NextStop
        /\ UNCHANGED <<unchangedByPoll, rows>>
    BY <1>11 DEF Told, NotTold, AfterFailure
  <2>2. UNCHANGED <<bots, removed>>
    BY <2>1 DEF unchangedByPoll, linkVars
  <2>3. /\ poll' \in Poll /\ running' \in BOOLEAN
        /\ poll' # NoPoll => running'
        /\ poll'.stage = "idle" => poll' = NoPoll
        /\ InHand' = InHand \ Going
        /\ Going \subseteq InHand
        /\ \A m \in Going : m[1] = poll.of
        /\ poll'.stage = "telling" =>
             /\ poll'.of \notin poll'.todo /\ poll'.stops # {}
             /\ poll'.todo \cup {poll'.of} \subseteq poll.todo \cup {poll.of}
    BY <1>0, <2>1, <2>2, HandShrinks
  <2>4. InHand \subseteq Messages
    BY <1>0, HandType
  <2>5. LinkInv'
    BY <1>l, <2>1 DEF unchangedByPoll
  <2>6. HandIsKnown'
    <3> SUFFICES ASSUME poll'.stage = "telling"
                 PROVE  HandIsKnown'
      BY DEF HandIsKnown
    <3>1. poll.todo \cup {poll.of} \subseteq Reviews /\ poll.todo \cup {poll.of} \subseteq rows \cup removed
      BY <1>0, <2>1 DEF HandIsKnown, Poll
    <3>2. poll'.todo \cup {poll'.of} \subseteq poll.todo \cup {poll.of}
      BY <2>3
    <3>3. poll'.of \in Reviews /\ poll'.todo \cup {poll'.of} \subseteq rows' \cup removed'
      BY <2>1, <2>2, <3>1, <3>2
    <3> QED BY <2>3, <3>3 DEF HandIsKnown
  <2>7. poll.of \in rows \cup removed
    BY <1>0, <2>1 DEF HandIsKnown
  <2>8. CASE Told
    <3>1. /\ told' = told \cup Going /\ twice' = twice \cup (told \cap Going)
          /\ owed' = owed \ Going /\ UNCHANGED <<faults, lost>>
      BY <2>8 DEF Told, Send
    <3>2. TypeOK'
      BY <1>0, <1>l, <2>1, <2>3, <2>4, <3>1 DEF TypeOK, unchangedByPoll, linkVars
    <3>3. (ToldIsKnown /\ HandIsFresh /\ AnnouncedOnce /\ NothingForgotten)'
      BY <2>1, <2>2, <2>3, <2>7, <3>1
         DEF IInv, ToldIsKnown, HandIsFresh, AnnouncedOnce, NothingForgotten
    <3> QED BY <1>t, <2>5, <2>6, <3>2, <3>3 DEF Saying
  <2>9. CASE NotTold
    <3>1. /\ lost' = lost \cup Going /\ faults' = faults + 1 /\ UNCHANGED <<told, twice, owed>>
      BY <2>9 DEF NotTold, Fault
    <3>2. TypeOK'
      BY <1>0, <1>l, <2>1, <2>3, <2>4, <3>1 DEF TypeOK, unchangedByPoll, linkVars
    <3>3. (ToldIsKnown /\ HandIsFresh /\ AnnouncedOnce /\ NothingForgotten)'
      BY <2>1, <2>2, <2>3, <3>1
         DEF IInv, ToldIsKnown, HandIsFresh, AnnouncedOnce, NothingForgotten
    <3> QED BY <1>t, <2>5, <2>6, <3>2, <3>3 DEF Saying
  <2> QED BY <1>11, <2>8, <2>9
<1>12. CASE Crash
  <2>1. PICK out \in SUBSET Going : Send(out)
    BY <1>12 DEF Crash
  <2>2. /\ End(TRUE) /\ lost' = lost \cup InHand /\ faults' = faults + 1
        /\ UNCHANGED <<unchangedByPoll, rows>>
    BY <1>12 DEF Crash, Fault
  <2>3. poll' = NoPoll /\ running' = FALSE /\ NoPoll \in Poll /\ NoPoll.stage = "idle"
        /\ InHand' = {}
    BY <1>e, <2>2
  <2>4. Going \subseteq InHand /\ InHand \subseteq Messages
        /\ \A m \in Going : m[1] \in rows \cup removed
    <3>1. InHand \subseteq Messages
      BY <1>0, HandType
    <3>2. CASE Going # {}
      <4>1. poll.stage = "telling" /\ Going = {Message(poll, poll.of, Stop)} /\ Stop # "draft"
        BY <3>2 DEF Going
      <4>2. Stop \in poll.stops
        BY <1>0, <4>1, StopIsLeft DEF HandIsKnown, Poll
      <4>3. Message(poll, poll.of, Stop) \in InHand /\ Message(poll, poll.of, Stop)[1] = poll.of
        BY <4>1, <4>2 DEF InHand, Message
      <4> QED BY <1>0, <3>1, <4>1, <4>3 DEF HandIsKnown
    <3> QED BY <3>1, <3>2
  <2>5. LinkInv'
    BY <1>l, <2>2 DEF unchangedByPoll
  <2>6. /\ told' = told \cup out /\ twice' = twice \cup (told \cap out) /\ owed' = owed \ out
        /\ out \subseteq Going /\ UNCHANGED removed
    BY <2>1, <2>2 DEF Send, unchangedByPoll
  <2>7. TypeOK'
    <3>1. told' \subseteq Messages /\ twice' \subseteq Messages /\ owed' \subseteq Messages
          /\ lost' \subseteq Messages /\ faults' \in Nat
      BY <1>0, <2>2, <2>4, <2>6 DEF TypeOK
    <3> QED BY <1>0, <1>l, <2>2, <2>3, <3>1 DEF TypeOK, unchangedByPoll, linkVars
  <2>8. Saying'
    BY <2>2, <2>3, <2>4, <2>6
       DEF IInv, Saying, HandIsKnown, ToldIsKnown, HandIsFresh, AnnouncedOnce, NothingForgotten
  <2> QED BY <1>t, <2>5, <2>7, <2>8
<1>13. CASE SkipTick \/ UNCHANGED vars
  <2>1. UNCHANGED vars
    BY <1>13 DEF SkipTick
  <2>2. LinkInv'
    BY <1>l, <2>1 DEF vars
  <2>3. Saying'
    BY <2>1, OthersStep DEF vars, linkVars, pollVars
  <2>4. TypeOK'
    BY <1>0, <1>l, <2>1 DEF TypeOK, vars, linkVars, pollVars
  <2> QED BY <1>t, <2>2, <2>3, <2>4
<1> QED BY <1>1, <1>2, <1>3, <1>4, <1>5, <1>6, <1>6e, <1>7, <1>8, <1>9, <1>10, <1>11, <1>12, <1>13
        DEF Next

\* The invariant holds of every reachable state.
THEOREM IInvHolds == Spec => []IInv
<1> QED BY InitInv, InvNext, PTL DEF Spec

\* Types, the running flag, and rows without a business, for any instance.
THEOREM TypeCorrect == Spec => []TypeOK
<1>1. IInv => TypeOK
  BY DEF IInv
<1> QED BY <1>1, IInvHolds, PTL

\* A used, replaced, withdrawn or expired code is on no row again.
THEOREM DeadCodesHold == Spec => []DeadCodesStayDead
<1>1. IInv => DeadCodesStayDead
  BY DEF IInv, LinkInv
<1> QED BY <1>1, IInvHolds, PTL

\* No owner is told twice about a row, through faults, crashes and new ticks.
THEOREM AnnouncedOnceHolds == Spec => []AnnouncedOnce
<1>1. IInv => AnnouncedOnce
  BY DEF IInv
<1> QED BY <1>1, IInvHolds, PTL

\* Only its own failure or a crash costs a message.
THEOREM NothingForgottenHolds == Spec => []NothingForgotten
<1>1. IInv => NothingForgotten
  BY DEF IInv
<1> QED BY <1>1, IInvHolds, PTL

\* A poll that begins reads the links as they are.
LEMMA QuietStep ==
    ASSUME IInv, [Next]_vars,
           NEW b \in Businesses, NEW k \in Kinds, NEW c \in Chats \ doubled,
           poll'.at = b, poll.at # b, <<OwnerOf[b], k, c>> \in hushed
    PROVE  poll'.chat[k] # c
<1> USE PollerAssumption
<1>0. TypeOK /\ HandIsKnown /\ HushedIsUnlinked /\ poll.left \in SUBSET Businesses
  BY DEF IInv, LinkInv, TypeOK, Poll
<1>1. ASSUME \A j \in Kinds : poll'.chat[j] = link[j][OwnerOf[poll'.at]].chat
      PROVE  poll'.chat[k] # c
  BY <1>0, <1>1 DEF HushedIsUnlinked
<1>2. ASSUME NEW left \in SUBSET Businesses, GoOn(left)
      PROVE  poll'.chat[k] # c
  BY <1>0, <1>1, <1>2, GoesOn
<1>3. CASE Tick
  <2>1. open \cap placed \in SUBSET Businesses
    BY <1>0 DEF TypeOK
  <2> QED BY <1>2, <1>3, <2>1 DEF Tick
<1>4. CASE FetchFails \/ NothingNew
  BY <1>0, <1>2, <1>4 DEF FetchFails, NothingNew
<1>5. CASE InsertThrows \/ Crash
  BY <1>5 DEF InsertThrows, Crash, End, NoPoll
<1>6. CASE Insert
  BY <1>6 DEF Insert, Round
<1>7. CASE Told \/ NotTold
  <2>1. poll.stage = "telling" /\ NextStop /\ UNCHANGED bots
    BY <1>7 DEF Told, NotTold, AfterFailure, unchangedByPoll, linkVars
  <2>2. \/ poll'.at \in {None, poll.at}
        \/ \A j \in Kinds : poll'.chat[j] = link[j][OwnerOf[poll'.at]].chat
    BY <1>0, <2>1, HandShrinks
  <2> QED BY <1>1, <2>2
<1>8. CASE UNCHANGED poll
  BY <1>8
<1> QED BY <1>3, <1>4, <1>5, <1>6, <1>7, <1>8
        DEF Next, vars, pollVars, Appear, SetPlace, SetMail, DeleteReview, DeleteAccount, Erase, SkipTick

\* Whoever took the link back hears nothing of a poll that starts later.
THEOREM QuietAfterUnlinkHolds == Spec => QuietAfterUnlink
<1>1. IInv /\ [Next]_vars =>
        [\A b \in Businesses, k \in Kinds, c \in Chats \ doubled :
            /\ poll'.at = b /\ poll.at # b
            /\ <<OwnerOf[b], k, c>> \in hushed
            => poll'.chat[k] # c]_vars
  BY QuietStep
<1> QED BY <1>1, IInvHolds, PTL DEF Spec, QuietAfterUnlink

-----------------------------------------------------------------------------
(* Refinement of NoticePromise.                                            *)

\* What is being sent is one message or none, of those in hand.
LEMMA GoingIsOne ==
    ASSUME TypeOK, HandIsKnown
    PROVE  Going \subseteq InHand /\ Going \in Promise!AtMostOneDue
<1>1. CASE Going # {}
  <2>1. poll.stage = "telling" /\ Going = {Message(poll, poll.of, Stop)} /\ Stop # "draft"
    BY <1>1 DEF Going
  <2>2. Stop \in poll.stops
    BY <2>1, StopIsLeft DEF HandIsKnown, TypeOK, Poll
  <2>3. Message(poll, poll.of, Stop) \in InHand
    BY <2>1, <2>2 DEF InHand
  <2> QED BY <2>1, <2>3 DEF Promise!AtMostOneDue
<1> QED BY <1>1 DEF Promise!AtMostOneDue

\* The owners, their links and Google change nothing that the promise is
\* about, but for the reviews that are deleted.
LEMMA OthersRefine ==
    ASSUME TypeOK,
           UNCHANGED <<bots, poll, faults, told, lost>>,
           removed \subseteq removed' /\ removed' \subseteq Reviews
    PROVE  [Promise!Next]_(Promise!promise)
<1>1. UNCHANGED InHand
  BY DEF InHand, StopsOf, Message
<1>2. Promise!Forget
  BY <1>1 DEF Promise!Forget
<1> QED BY <1>2 DEF Promise!Next

\* A step of the tick between two businesses has nothing in hand before or
\* after: a stutter, or a fault that costs no message.
LEMMA SilentRefines ==
    ASSUME poll.stage # "telling", poll'.stage # "telling",
           UNCHANGED <<told, lost, removed>>, faults' \in {faults, faults + 1}
    PROVE  [Promise!Next]_(Promise!promise)
<1>1. InHand = {} /\ InHand' = {}
  BY DEF InHand
<1>2. CASE faults' = faults
  BY <1>1, <1>2 DEF Promise!promise
<1>3. CASE faults' = faults + 1
  <2>1. Promise!Fail({})
    BY <1>1, <1>3 DEF Promise!Fail
  <2> QED BY <2>1 DEF Promise!Next, Promise!AtMostOneDue
<1> QED BY <1>2, <1>3

LEMMA InsertRefines ==
    ASSUME IInv, Insert
    PROVE  [Promise!Next]_(Promise!promise)
<1> DEFINE new == New(poll.at)
<1>1. TypeOK /\ new \in SUBSET Reviews /\ new \cap rows = {}
  BY DEF IInv, New, PageOf, TypeOK
<1>2. PICK r \in new : Round(poll, r, new)
  BY DEF Insert
<1>3. poll.stage = "fetching" /\ UNCHANGED <<bots, faults, told, lost, removed>>
  BY DEF Insert, unchangedByPoll, linkVars
<1> HIDE DEF new
<1>4. InHand = {} /\ InHand' = RoundsOf(new)
  BY <1>1, <1>2, <1>3, RoundBegins DEF InHand
<1>5. \A q \in new, s \in StopsOf(poll) \ {"draft"} :
        Message(poll, q, s) \in Messages /\ Message(poll, q, s)[1] = q
  BY <1>1, MessageType DEF TypeOK
<1>6. RoundsOf(new) \subseteq Messages /\ \A m \in RoundsOf(new) : m[1] \in new
  BY <1>5 DEF RoundsOf
<1>7. \A m \in RoundsOf(new) \cap told : m[1] \in removed
  BY <1>1, <1>6 DEF IInv, ToldIsKnown
<1>8. Promise!Announce
  BY <1>3, <1>4, <1>6, <1>7 DEF Promise!Announce, Promise!Fresh
<1> QED BY <1>8 DEF Promise!Next

LEMMA TellingRefines ==
    ASSUME IInv, Told \/ NotTold
    PROVE  [Promise!Next]_(Promise!promise)
<1>1. TypeOK /\ HandIsKnown /\ HandIsFresh
  BY DEF IInv
<1>2. poll.stage = "telling" /\ NextStop /\ UNCHANGED <<bots, removed>>
  BY DEF Told, NotTold, AfterFailure, unchangedByPoll, linkVars
<1>3. InHand' = InHand \ Going
  BY <1>1, <1>2, HandShrinks
<1>4. CASE NotTold
  <2>1. Promise!Fail(Going)
    BY <1>2, <1>3, <1>4 DEF NotTold, Fault, Promise!Fail
  <2> QED BY <1>1, <2>1, GoingIsOne DEF Promise!Next
<1>5. CASE Told /\ Going = {}
  BY <1>2, <1>3, <1>5 DEF Told, Send, Promise!promise
<1>6. CASE Told /\ Going # {}
  <2>1. PICK m \in InHand : Going = {m}
    BY <1>1, <1>6, GoingIsOne DEF Promise!AtMostOneDue
  <2>2. told' = told \cup {m} /\ UNCHANGED <<lost, faults>>
    BY <1>6, <2>1 DEF Told, Send
  <2>3. Promise!Deliver(m)
    BY <1>1, <1>2, <1>3, <2>1, <2>2 DEF Promise!Deliver, Promise!Fresh, HandIsFresh
  <2> QED BY <2>3 DEF Promise!Next
<1> QED BY <1>4, <1>5, <1>6

LEMMA CrashRefines ==
    ASSUME IInv, Crash
    PROVE  [Promise!Next]_(Promise!promise)
<1>1. TypeOK /\ HandIsKnown /\ HandIsFresh
  BY DEF IInv
<1>2. PICK out \in SUBSET Going : Send(out)
  BY DEF Crash
<1>3. /\ told' = told \cup out /\ lost' = lost \cup InHand /\ faults' = faults + 1
      /\ UNCHANGED removed
  BY <1>2 DEF Crash, Send, Fault, unchangedByPoll
<1>4. InHand' = {}
  BY DEF Crash, End, InHand, NoPoll
<1>5. out \subseteq InHand /\ out \in Promise!AtMostOneDue
  BY <1>1, GoingIsOne DEF Promise!AtMostOneDue
<1>6. Promise!Crash(out)
  BY <1>1, <1>3, <1>4, <1>5 DEF Promise!Crash, Promise!Fresh, HandIsFresh
<1> QED BY <1>5, <1>6 DEF Promise!Next

LEMMA StepRefines == IInv /\ [Next]_vars => [Promise!Next]_(Promise!promise)
<1> SUFFICES ASSUME IInv, [Next]_vars PROVE [Promise!Next]_(Promise!promise)
  OBVIOUS
<1>0. TypeOK /\ removed \subseteq Reviews /\ rows \subseteq Reviews /\ poll \in Poll
  BY DEF IInv, TypeOK
<1>1. CASE \/ LinkNext /\ UNCHANGED pollVars
           \/ \E r \in Reviews : Appear(r)
           \/ \E b \in Businesses : SetPlace(b)
           \/ \E u \in Users : SetMail(u)
           \/ \E r \in Reviews : DeleteReview(r)
           \/ \E u \in Users : DeleteAccount(u)
           \/ \E u \in Users : Erase(u)
           \/ SkipTick \/ UNCHANGED vars
  <2>1. UNCHANGED <<bots, poll, faults, told, lost>>
    <3>1. CASE LinkNext /\ UNCHANGED pollVars
      BY <3>1 DEF LinkNext, GenerateToken, Expire, SendCode, UnlinkInSettings, Leave, pollVars
    <3>2. CASE \/ \E r \in Reviews : Appear(r) \/ DeleteReview(r)
               \/ \E b \in Businesses : SetPlace(b)
               \/ \E u \in Users : SetMail(u)
      BY <3>2 DEF Appear, SetPlace, SetMail, DeleteReview
    <3>3. CASE \E u \in Users : DeleteAccount(u) \/ Erase(u)
      BY <3>3 DEF DeleteAccount, Erase, DeleteLinks
    <3>4. CASE SkipTick \/ UNCHANGED vars
      BY <3>4 DEF SkipTick, vars, linkVars, pollVars
    <3> QED BY <1>1, <3>1, <3>2, <3>3, <3>4
  <2>2. removed \subseteq removed' /\ removed' \subseteq Reviews
    BY <1>0, <1>1 DEF pollVars, Appear, SetPlace, SetMail, DeleteReview, DeleteAccount, Erase,
                      SkipTick, vars
  <2> QED BY <1>0, <2>1, <2>2, OthersRefine
<1>2. CASE Tick \/ FetchFails \/ NothingNew
  <2>1. PICK left \in SUBSET Businesses : GoOn(left)
    BY <1>0, <1>2 DEF Tick, FetchFails, NothingNew, TypeOK, Poll
  <2>2. poll'.stage # "telling"
    BY <1>0, <2>1, GoesOn
  <2>3. poll.stage # "telling"
    BY <1>0, <1>2 DEF Tick, FetchFails, NothingNew, TypeOK, NoPoll
  <2>4. UNCHANGED <<told, lost, removed>> /\ faults' \in {faults, faults + 1}
    BY <1>2 DEF Tick, FetchFails, NothingNew, Fault, unchangedByPoll
  <2> QED BY <2>2, <2>3, <2>4, SilentRefines
<1>3. CASE InsertThrows
  <2>1. poll.stage # "telling" /\ poll'.stage # "telling"
    BY <1>3 DEF InsertThrows, End, NoPoll
  <2>2. UNCHANGED <<told, lost, removed, faults>>
    BY <1>3 DEF InsertThrows, unchangedByPoll
  <2> QED BY <2>1, <2>2, SilentRefines
<1> QED BY <1>1, <1>2, <1>3, InsertRefines, TellingRefines, CrashRefines DEF Next

\* Every behaviour of the poller keeps the promise: a review is announced by
\* messages none of which has gone out before, each goes out once, and none
\* fails to but by a fault.
THEOREM ImplementsPromise == Spec => PromiseKept
<1>1. Init => Promise!Init
  BY DEF Init, Promise!Init, InHand, NoPoll
<1> QED BY <1>1, StepRefines, IInvHolds, PTL DEF Spec, PromiseKept, Promise!Spec

-----------------------------------------------------------------------------
(* The running flag.                                                       *)

FlagIsATick == running => poll # NoPoll

LEMMA GoOnSetsFlag ==
    ASSUME NEW left, GoOn(left)
    PROVE  FlagIsATick'
<1>1. CASE \E b, over : Start(b, over)
  BY <1>1 DEF Start, NoPoll, FlagIsATick
<1>2. CASE End(FALSE)
  BY <1>2 DEF End, FlagIsATick
<1> QED BY <1>1, <1>2 DEF GoOn

LEMMA FlagStep == TypeOK /\ FlagIsATick /\ [Next]_vars => FlagIsATick'
<1> SUFFICES ASSUME TypeOK, FlagIsATick, [Next]_vars PROVE FlagIsATick'
  OBVIOUS
<1>1. CASE UNCHANGED <<running, poll>>
  BY <1>1 DEF FlagIsATick
<1>2. CASE Tick \/ FetchFails \/ NothingNew
  BY <1>2, GoOnSetsFlag DEF Tick, FetchFails, NothingNew
<1>3. CASE InsertThrows \/ Crash
  BY <1>3 DEF InsertThrows, Crash, End, FlagIsATick
<1>4. ASSUME NEW r, NEW todo, Round(poll, r, todo)
      PROVE  FlagIsATick'
  BY <1>4 DEF Round, NoPoll, FlagIsATick
<1>5. CASE Insert
  BY <1>4, <1>5 DEF Insert
<1>6. CASE Told \/ NotTold
  <2>1. NextStop /\ poll.stage = "telling" /\ poll \in Poll
    BY <1>6 DEF Told, NotTold, AfterFailure, TypeOK
  <2>2. CASE poll' = [poll EXCEPT !.stops = @ \ {Stop}]
    BY <2>1, <2>2 DEF Poll, NoPoll, FlagIsATick
  <2> QED BY <1>4, <2>1, <2>2, GoOnSetsFlag DEF NextStop
<1>7. CASE LinkNext /\ UNCHANGED pollVars
  BY <1>1, <1>7 DEF pollVars
<1>8. CASE \/ \E r \in Reviews : Appear(r) \/ DeleteReview(r)
           \/ \E b \in Businesses : SetPlace(b)
           \/ \E u \in Users : SetMail(u) \/ DeleteAccount(u) \/ Erase(u)
           \/ SkipTick \/ UNCHANGED vars
  BY <1>1, <1>8 DEF Appear, DeleteReview, SetPlace, SetMail, DeleteAccount, Erase, SkipTick,
                    vars, pollVars
<1> QED BY <1>2, <1>3, <1>5, <1>6, <1>7, <1>8 DEF Next

\* The flag is set exactly while a tick is under way: no error and no crash
\* leaves it behind, which would stop the poller for good.
THEOREM FlagMeansTick == Spec => [](running <=> poll # NoPoll)
<1>1. Init => FlagIsATick
  BY DEF Init, FlagIsATick
<1>2. IInv => TypeOK
  BY DEF IInv
<1>3. TypeOK /\ FlagIsATick => (running <=> poll # NoPoll)
  BY DEF TypeOK, FlagIsATick
<1> QED BY <1>1, <1>2, <1>3, FlagStep, IInvHolds, PTL DEF Spec
=============================================================================
