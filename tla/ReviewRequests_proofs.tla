------------------------ MODULE ReviewRequests_proofs ------------------------
(***************************************************************************)
(* Theorems about ReviewRequests, for any number of requests, customers,   *)
(* handlers and runs, and any cooldown and follow-up window.  "At most one *)
(* follow-up" is not inductive: what makes it so is that a row some run    *)
(* still has to do has had none, and that a row without the mark has had   *)
(* none, for the rows that no two overlapping runs read.                   *)
(***************************************************************************)
EXTENDS ReviewRequests, TLAPS

\* The times of a row are in order.
TimesInOrder ==
    \A r \in Live : rows[r].created <= rows[r].sent /\ rows[r].sent <= day

\* What one run holds, it alone holds, and it has not been followed up.
HeldByOne ==
    \A r \in Requests \ shared :
        /\ followUps[r] <= 1
        /\ \A w \in Runs : r \in todo[w] => followUps[r] = 0
        /\ \A v, w \in Runs : r \in todo[v] /\ r \in todo[w] => v = w

\* A row without the mark has not been followed up, nor has an unused id.
UnmarkedIsNew ==
    \A r \in Requests \ shared :
        /\ r \in Live /\ ~rows[r].followedUp => followUps[r] = 0
        /\ r \notin Live \cup gone => followUps[r] = 0

\* Who clicked in quiet is on no list and counts as clicked.
QuietClicked ==
    \A r \in quiet : r \in Unread /\ (r \in Live => rows[r].clicked)

IInv ==
    /\ TypeOK /\ TimesInOrder /\ CooldownHolds
    /\ HeldByOne /\ UnmarkedIsNew
    /\ QuietClicked /\ LinkInHand

-----------------------------------------------------------------------------
(* Lemmas.                                                                 *)

LEMMA InitInv == Init => IInv
<1> SUFFICES ASSUME Init
             PROVE  IInv
  OBVIOUS
<1>1. Live = {}
  BY DEF Init, Live
<1>2. TypeOK
  BY <1>1, RequestAssumption DEF Init, TypeOK, Days, Live, Senders
<1>3. TimesInOrder /\ CooldownHolds /\ LinkInHand
  BY <1>1 DEF TimesInOrder, CooldownHolds, LinkInHand
<1>4. HeldByOne /\ UnmarkedIsNew
  BY <1>1 DEF Init, HeldByOne, UnmarkedIsNew
<1>5. QuietClicked
  BY DEF Init, QuietClicked
<1> QED BY <1>2, <1>3, <1>4, <1>5 DEF IInv

\* One field of a row changed.
LEMMA HeldField ==
    ASSUME NEW row \in Row, NEW b \in BOOLEAN
    PROVE  LET n == [row EXCEPT !.held = b] IN
           /\ n \in Row
           /\ n.customer = row.customer /\ n.created = row.created /\ n.sent = row.sent /\ n.clicked = row.clicked
           /\ n.followedUp = row.followedUp /\ n.link = row.link /\ n.held = b
BY DEF Row

LEMMA LinkField ==
    ASSUME NEW row \in Row, NEW b \in Nat
    PROVE  LET n == [row EXCEPT !.link = b] IN
           /\ n \in Row
           /\ n.customer = row.customer /\ n.created = row.created /\ n.sent = row.sent /\ n.clicked = row.clicked
           /\ n.followedUp = row.followedUp /\ n.link = b /\ n.held = row.held
BY DEF Row

LEMMA MarkField ==
    ASSUME NEW row \in Row, NEW b \in BOOLEAN
    PROVE  LET n == [row EXCEPT !.followedUp = b] IN
           /\ n \in Row
           /\ n.customer = row.customer /\ n.created = row.created /\ n.sent = row.sent /\ n.clicked = row.clicked
           /\ n.followedUp = b /\ n.link = row.link /\ n.held = row.held
BY DEF Row

LEMMA SentField ==
    ASSUME NEW row \in Row, NEW b \in Days
    PROVE  LET n == [row EXCEPT !.sent = b] IN
           /\ n \in Row
           /\ n.customer = row.customer /\ n.created = row.created /\ n.sent = b /\ n.clicked = row.clicked
           /\ n.followedUp = row.followedUp /\ n.link = row.link /\ n.held = row.held
BY DEF Row

LEMMA ClickedField ==
    ASSUME NEW row \in Row, NEW b \in BOOLEAN
    PROVE  LET n == [row EXCEPT !.clicked = b] IN
           /\ n \in Row
           /\ n.customer = row.customer /\ n.created = row.created /\ n.sent = row.sent /\ n.clicked = b
           /\ n.followedUp = row.followedUp /\ n.link = row.link /\ n.held = row.held
BY DEF Row

LEMMA RenewFields ==
    ASSUME NEW row \in Row
    PROVE  LET n == Renew(row) IN
           /\ n \in Row
           /\ n.customer = row.customer /\ n.created = row.created /\ n.sent = row.sent
           /\ n.clicked = row.clicked /\ n.followedUp = row.followedUp
           /\ n.link = row.link + 1 /\ n.held = FALSE
<1> DEFINE a == [row EXCEPT !.link = row.link + 1]
<1>1. row.link + 1 \in Nat
  BY DEF Row
<1>2. a \in Row /\ Renew(row) = [a EXCEPT !.held = FALSE]
  BY <1>1, LinkField DEF Renew
<1>3. a.customer = row.customer /\ a.created = row.created /\ a.sent = row.sent
      /\ a.clicked = row.clicked /\ a.followedUp = row.followedUp /\ a.link = row.link + 1
  BY <1>1, LinkField
<1> DEFINE b == FALSE
           c == [a EXCEPT !.held = b]
<1>4. b \in BOOLEAN /\ b = FALSE
  OBVIOUS
<1>5. Renew(row) = c
  BY <1>2
<1> HIDE DEF a, b
<1>6. /\ c \in Row /\ c.customer = a.customer /\ c.created = a.created /\ c.sent = a.sent
      /\ c.clicked = a.clicked /\ c.followedUp = a.followedUp
      /\ c.link = a.link /\ c.held = b
  BY <1>2, <1>4, HeldField
<1> HIDE DEF c
<1> QED BY <1>3, <1>4, <1>5, <1>6

\* A table that differs from the present one in mails received at most.
Same(table) ==
    /\ table \in [Live -> Row]
    /\ \A r \in Live :
        /\ table[r].customer = rows[r].customer
        /\ table[r].created = rows[r].created
        /\ table[r].sent = rows[r].sent
        /\ table[r].clicked = rows[r].clicked
        /\ table[r].followedUp = rows[r].followedUp
        /\ table[r].link = rows[r].link
        /\ rows[r].held => table[r].held

LEMMA ReachedSame ==
    ASSUME TypeOK, NEW senders
    PROVE  Same(Reached(senders))
<1> DEFINE T == Reached(senders)
<1>1. ASSUME NEW r \in Live
      PROVE  /\ T[r] \in Row
             /\ T[r].customer = rows[r].customer /\ T[r].created = rows[r].created
             /\ T[r].sent = rows[r].sent /\ T[r].clicked = rows[r].clicked
             /\ T[r].followedUp = rows[r].followedUp /\ T[r].link = rows[r].link
             /\ rows[r].held => T[r].held
  <2> DEFINE b == rows[r].held \/
        \E s \in senders : call[s] = [request |-> r, link |-> rows[r].link]
  <2>1. rows[r] \in Row
    BY DEF TypeOK
  <2>2. T[r] = [rows[r] EXCEPT !.held = b]
    BY DEF Reached
  <2>3. b \in BOOLEAN /\ (rows[r].held => b)
    BY DEF Row
  <2> HIDE DEF b, T
  <2> DEFINE row == rows[r]
             c == [row EXCEPT !.held = b]
  <2>4. row \in Row
    BY <2>1
  <2> HIDE DEF row
  <2>5. /\ c \in Row /\ c.customer = row.customer /\ c.created = row.created
        /\ c.sent = row.sent /\ c.clicked = row.clicked
        /\ c.followedUp = row.followedUp /\ c.link = row.link /\ c.held = b
    BY <2>3, <2>4, HeldField
  <2>6. T[r] = c
    BY <2>2 DEF row
  <2> HIDE DEF c
  <2> QED BY <2>3, <2>5, <2>6 DEF row
<1>2. T \in [Live -> Row]
  BY <1>1 DEF Reached
<1> HIDE DEF T
<1>3. Same(T)
  BY <1>1, <1>2 DEF Same
<1> QED BY <1>3 DEF T

\* What one round of the job does to the state.
LEMMA FollowUpEffect ==
    ASSUME TypeOK, NEW w \in Runs, NEW table, Same(table),
           NEW rest \in SUBSET (Live \cup gone), FollowUp(w, table, rest)
    PROVE  \E r \in rest :
        /\ rows' \in [Live -> Row] /\ Live' = Live
        /\ \A q \in Live :
            /\ rows'[q].customer = rows[q].customer
            /\ rows'[q].created = rows[q].created
            /\ rows'[q].sent = rows[q].sent
            /\ rows'[q].clicked = rows[q].clicked
            /\ q # r => rows'[q] = table[q]
        /\ r \in Live => rows'[r].followedUp /\ rows'[r].link = rows[r].link + 1
        /\ call' = [call EXCEPT ![w] = [request |-> r,
                        link |-> IF r \in Live THEN rows[r].link + 1 ELSE 0]]
        /\ todo' = [todo EXCEPT ![w] = rest \ {r}]
        /\ followUps' = [followUps EXCEPT ![r] = @ + 1]
<1>1. /\ DOMAIN table = Live /\ table \in [Live -> Row]
      /\ \A r \in Live : table[r].link = rows[r].link
  BY DEF Same
<1>2. PICK r \in rest :
        /\ rows' = IF r \in Live THEN [table EXCEPT ![r] = Marked(@)] ELSE table
        /\ call' = [call EXCEPT ![w] = [request |-> r,
                        link |-> IF r \in Live THEN table[r].link + 1 ELSE 0]]
        /\ todo' = [todo EXCEPT ![w] = rest \ {r}]
        /\ followUps' = [followUps EXCEPT ![r] = @ + 1]
  BY <1>1 DEF FollowUp
<1>3. r \in Live => /\ Marked(table[r]) \in Row
                    /\ Marked(table[r]).customer = table[r].customer
                    /\ Marked(table[r]).created = table[r].created
                    /\ Marked(table[r]).sent = table[r].sent
                    /\ Marked(table[r]).clicked = table[r].clicked
                    /\ Marked(table[r]).followedUp
                    /\ Marked(table[r]).link = table[r].link + 1
  <2> SUFFICES ASSUME r \in Live
               PROVE  /\ Marked(table[r]) \in Row
                      /\ Marked(table[r]).customer = table[r].customer
                      /\ Marked(table[r]).created = table[r].created
                      /\ Marked(table[r]).sent = table[r].sent
                      /\ Marked(table[r]).clicked = table[r].clicked
                      /\ Marked(table[r]).followedUp
                      /\ Marked(table[r]).link = table[r].link + 1
    OBVIOUS
  <2> DEFINE n == Renew(table[r])
  <2>1. table[r] \in Row
    BY <1>1
  <2>2. /\ n \in Row
        /\ n.customer = table[r].customer /\ n.created = table[r].created
        /\ n.sent = table[r].sent /\ n.clicked = table[r].clicked
        /\ n.link = table[r].link + 1
    BY <2>1, RenewFields
  <2> DEFINE b == TRUE
             c == [n EXCEPT !.followedUp = b]
  <2>3. Marked(table[r]) = c
    BY DEF Marked
  <2>4. b \in BOOLEAN /\ b = TRUE
    OBVIOUS
  <2>5. n \in Row
    BY <2>2
  <2> HIDE DEF n, b
  <2>6. /\ c \in Row /\ c.customer = n.customer /\ c.created = n.created
        /\ c.sent = n.sent /\ c.clicked = n.clicked
        /\ c.followedUp = b /\ c.link = n.link
    BY <2>4, <2>5, MarkField
  <2> HIDE DEF c
  <2> QED BY <2>2, <2>3, <2>4, <2>6
<1>4. /\ DOMAIN rows' = Live
      /\ \A q \in Live : rows'[q] = IF q = r THEN Marked(table[r]) ELSE table[q]
  BY <1>1, <1>2
<1>5. rows' \in [Live -> Row]
  BY <1>1, <1>2, <1>3
<1>6. Live' = Live
  BY <1>4 DEF Live
<1>7. call' = [call EXCEPT ![w] = [request |-> r,
                    link |-> IF r \in Live THEN rows[r].link + 1 ELSE 0]]
  BY <1>1, <1>2
<1>8. \A q \in Live :
            /\ rows'[q].customer = rows[q].customer
            /\ rows'[q].created = rows[q].created
            /\ rows'[q].sent = rows[q].sent
            /\ rows'[q].clicked = rows[q].clicked
            /\ q # r => rows'[q] = table[q]
  BY <1>3, <1>4 DEF Same
<1>9. r \in Live => rows'[r].followedUp /\ rows'[r].link = rows[r].link + 1
  BY <1>1, <1>3, <1>4
<1> QED BY <1>2, <1>5, <1>6, <1>7, <1>8, <1>9

\* One round of the job keeps the invariant, but for the links, which depend
\* on who was awaited.
LEMMA FollowUpKeeps ==
    ASSUME IInv, NEW w \in Runs, NEW table, Same(table),
           NEW rest \in SUBSET (Live \cup gone), FollowUp(w, table, rest),
           UNCHANGED <<day, gone, quiet>>,
           enabled' \in BOOLEAN, resends' \in Nat, faults' \in Nat,
           shared \subseteq shared', shared' \subseteq Requests,
           \A r \in rest : r \notin quiet,
           \A r \in rest \ shared' :
                /\ followUps[r] = 0
                /\ \A v \in Runs : r \in todo[v] => v = w
    PROVE  /\ TypeOK' /\ TimesInOrder' /\ CooldownHolds' /\ HeldByOne'
           /\ UnmarkedIsNew' /\ QuietClicked'
<1> USE DEF IInv
<1>1. PICK r \in rest :
        /\ rows' \in [Live -> Row] /\ Live' = Live
        /\ \A q \in Live :
            /\ rows'[q].customer = rows[q].customer
            /\ rows'[q].created = rows[q].created
            /\ rows'[q].sent = rows[q].sent
            /\ rows'[q].clicked = rows[q].clicked
            /\ q # r => rows'[q] = table[q]
        /\ r \in Live => rows'[r].followedUp /\ rows'[r].link = rows[r].link + 1
        /\ call' = [call EXCEPT ![w] = [request |-> r,
                        link |-> IF r \in Live THEN rows[r].link + 1 ELSE 0]]
        /\ todo' = [todo EXCEPT ![w] = rest \ {r}]
        /\ followUps' = [followUps EXCEPT ![r] = @ + 1]
  BY FollowUpEffect
<1>2. \A q \in Live : q # r => rows'[q].followedUp = rows[q].followedUp
  BY <1>1 DEF Same
<1>3. r \in Requests /\ rest \subseteq Requests /\ Live \cup gone \subseteq Requests
  BY DEF TypeOK
<1>4. \A v \in Runs : todo'[v] = IF v = w THEN rest \ {r} ELSE todo[v]
  BY <1>1 DEF TypeOK
<1>5. \A q \in Requests : followUps'[q] = IF q = r THEN followUps[r] + 1 ELSE followUps[q]
  BY <1>1, <1>3 DEF TypeOK
<1>6. TypeOK'
  <2>1. [request |-> r, link |-> IF r \in Live THEN rows[r].link + 1 ELSE 0] \in Mail
    <3>1. (IF r \in Live THEN rows[r].link + 1 ELSE 0) \in Nat
      BY DEF TypeOK, Row
    <3> QED BY <1>3, <3>1 DEF Mail
  <2>2. call' \in [Senders -> Mail \cup {NoMail}]
    BY <1>1, <2>1 DEF TypeOK
  <2>3. todo' \in [Runs -> SUBSET (Live \cup gone)]
    BY <1>1 DEF TypeOK
  <2>4. followUps' \in [Requests -> Nat]
    BY <1>1, <1>3 DEF TypeOK
  <2>5. call'[w] # NoMail
    <3>1. call'[w].request = r
      BY <1>1 DEF TypeOK, Senders
    <3>2. r # Null
      BY <1>3, RequestAssumption
    <3> QED BY <3>1, <3>2 DEF NoMail
  <2>6. \A v \in Runs : v # w => call'[v] = call[v] /\ todo'[v] = todo[v]
    BY <1>1 DEF TypeOK, Senders
  <2>7. \A v \in Runs : call'[v] = NoMail => todo'[v] = {}
    BY <2>5, <2>6 DEF TypeOK
  <2> QED BY <1>1, <2>2, <2>3, <2>4, <2>7 DEF TypeOK
<1>7. TimesInOrder'
  BY <1>1 DEF TimesInOrder
<1>8. CooldownHolds'
  BY <1>1 DEF CooldownHolds
<1>9. HeldByOne'
  <2> SUFFICES ASSUME NEW q \in Requests \ shared'
               PROVE  /\ followUps'[q] <= 1
                      /\ \A v \in Runs : q \in todo'[v] => followUps'[q] = 0
                      /\ \A u, v \in Runs : q \in todo'[u] /\ q \in todo'[v] => u = v
    BY DEF HeldByOne
  <2>1. q \in Requests \ shared
    OBVIOUS
  <2>2. CASE q = r
    BY <1>4, <1>5, <2>2
  <2>3. CASE q # r
    <3>1. followUps'[q] = followUps[q]
      BY <1>5, <2>3
    <3>2. CASE q \in rest
      BY <1>4, <2>1, <3>1, <3>2 DEF HeldByOne
    <3>3. CASE q \notin rest
      BY <1>4, <2>1, <3>1, <3>3 DEF HeldByOne
    <3> QED BY <3>2, <3>3
  <2> QED BY <2>2, <2>3
<1>10. UnmarkedIsNew'
  BY <1>1, <1>2, <1>5 DEF UnmarkedIsNew
<1>11. QuietClicked'
  <2>1. \A q \in quiet : q \in Requests /\ q \notin rest
    BY <1>3 DEF TypeOK
  <2>2. \A q \in quiet : \A v \in Runs : q \notin todo'[v]
    BY <1>4, <2>1 DEF QuietClicked, Unread
  <2> QED BY <1>1, <2>1, <2>2 DEF QuietClicked, Unread
<1> QED BY <1>6, <1>7, <1>8, <1>9, <1>10, <1>11

\* No token is left that nobody was sent: the round's own token is on its
\* way, and the mail that came before it has arrived.
LEMMA FollowUpLinks ==
    ASSUME TypeOK, LinkInHand, NEW w \in Runs, NEW table, Same(table),
           NEW rest \in SUBSET (Live \cup gone), FollowUp(w, table, rest),
           UNCHANGED faults,
           \A r \in Live : call[w] = [request |-> r, link |-> rows[r].link]
                              => table[r].held
    PROVE  LinkInHand'
<1>1. PICK r \in rest :
        /\ Live' = Live
        /\ \A q \in Live : q # r => rows'[q] = table[q]
        /\ r \in Live => rows'[r].link = rows[r].link + 1
        /\ call' = [call EXCEPT ![w] = [request |-> r,
                        link |-> IF r \in Live THEN rows[r].link + 1 ELSE 0]]
  BY FollowUpEffect
<1> SUFFICES ASSUME faults = 0, NEW q \in Live
             PROVE  \/ rows'[q].held
                    \/ \E s \in Senders :
                           call'[s] = [request |-> q, link |-> rows'[q].link]
  BY <1>1 DEF LinkInHand
<1>2. CASE q = r
  BY <1>1, <1>2 DEF TypeOK, Senders
<1>3. CASE q # r
  <2>1. rows'[q] = table[q] /\ table[q].link = rows[q].link
        /\ (rows[q].held => table[q].held)
    BY <1>1, <1>3 DEF Same
  <2>2. CASE rows[q].held
    BY <2>1, <2>2
  <2>3. CASE ~rows[q].held
    <3>1. PICK s \in Senders : call[s] = [request |-> q, link |-> rows[q].link]
      BY <2>3 DEF LinkInHand
    <3>2. CASE s = w
      BY <2>1, <3>1, <3>2
    <3>3. CASE s # w
      <4>1. call'[s] = call[s]
        BY <1>1, <3>3 DEF TypeOK
      <4> QED BY <2>1, <3>1, <4>1
    <3> QED BY <3>2, <3>3
  <2> QED BY <2>2, <2>3
<1> QED BY <1>2, <1>3

\* Mails that arrive or not, runs that end: nothing but received links and
\* shorter lists.
LEMMA MailsKeep ==
    ASSUME IInv, Same(rows'),
           call' \in [Senders -> Mail \cup {NoMail}],
           todo' \in [Runs -> SUBSET (Live \cup gone)],
           \A w \in Runs : todo'[w] \subseteq todo[w],
           \A w \in Runs : call'[w] = NoMail => todo'[w] = {},
           faults' \in Nat,
           UNCHANGED <<day, enabled, gone, resends, followUps, shared, quiet>>
    PROVE  /\ TypeOK' /\ TimesInOrder' /\ CooldownHolds' /\ HeldByOne'
           /\ UnmarkedIsNew' /\ QuietClicked'
<1> USE DEF IInv
<1>1. rows' \in [Live -> Row] /\ Live' = Live
  BY DEF Same, Live
<1>2. TypeOK'
  BY <1>1 DEF TypeOK
<1>3. TimesInOrder' /\ CooldownHolds'
  BY <1>1 DEF Same, TimesInOrder, CooldownHolds
<1>4. HeldByOne' /\ UnmarkedIsNew'
  BY <1>1 DEF Same, HeldByOne, UnmarkedIsNew, TypeOK
<1>5. QuietClicked'
  BY <1>1 DEF Same, QuietClicked, Unread, TypeOK
<1> QED BY <1>2, <1>3, <1>4, <1>5

-----------------------------------------------------------------------------
(* Every action keeps the invariant.                                       *)

LEMMA GoOnKeeps ==
    ASSUME IInv, NEW s \in Senders, NEW table, Same(table), GoOn(s, table),
           call[s] # NoMail, faults' \in Nat,
           UNCHANGED <<day, enabled, gone, resends, shared, quiet>>
    PROVE  /\ TypeOK' /\ TimesInOrder' /\ CooldownHolds' /\ HeldByOne'
           /\ UnmarkedIsNew' /\ QuietClicked'
<1> USE DEF IInv
<1>1. CASE s \in Runs /\ todo[s] # {} /\ FollowUp(s, table, todo[s])
  <2>1. todo[s] \in SUBSET (Live \cup gone)
    BY <1>1 DEF TypeOK
  <2>2. \A r \in todo[s] : r \notin quiet
    BY <1>1 DEF QuietClicked, Unread
  <2>3. \A r \in todo[s] \ shared' :
            followUps[r] = 0 /\ \A v \in Runs : r \in todo[v] => v = s
    BY <1>1, <2>1 DEF HeldByOne, TypeOK
  <2>4. enabled' \in BOOLEAN /\ resends' \in Nat /\ shared' \subseteq Requests
    BY DEF TypeOK
  <2> QED BY <1>1, <2>1, <2>2, <2>3, <2>4, FollowUpKeeps
<1>2. CASE /\ ~(s \in Runs /\ todo[s] # {})
           /\ rows' = table
           /\ call' = [call EXCEPT ![s] = NoMail]
           /\ UNCHANGED <<todo, followUps>>
  <2>1. call' \in [Senders -> Mail \cup {NoMail}]
    BY <1>2 DEF TypeOK
  <2>2. \A w \in Runs : call'[w] = NoMail => todo'[w] = {}
    BY <1>2 DEF TypeOK, Senders
  <2>3. todo' \in [Runs -> SUBSET (Live \cup gone)]
    BY <1>2 DEF TypeOK
  <2> QED BY <1>2, <2>1, <2>2, <2>3, MailsKeep
<1> QED BY <1>1, <1>2 DEF GoOn

LEMMA MailArrivesKeeps ==
    ASSUME IInv, NEW s \in Senders, MailArrives(s)
    PROVE  IInv'
<1> USE DEF IInv
<1> DEFINE table == Reached({s})
<1>1. Same(table)
  BY ReachedSame
<1>2. /\ TypeOK' /\ TimesInOrder' /\ CooldownHolds' /\ HeldByOne'
      /\ UnmarkedIsNew' /\ QuietClicked'
  BY <1>1, GoOnKeeps DEF MailArrives, TypeOK
<1>3. \A r \in Live : call[s] = [request |-> r, link |-> rows[r].link]
                          => table[r].held
  <2> SUFFICES ASSUME NEW r \in Live,
                      call[s] = [request |-> r, link |-> rows[r].link]
               PROVE  table[r].held
    OBVIOUS
  <2> DEFINE row == rows[r]
             b == row.held \/
                  \E q \in {s} : call[q] = [request |-> r, link |-> row.link]
             c == [row EXCEPT !.held = b]
  <2>1. table[r] = c
    BY DEF Reached
  <2>2. b = TRUE
    OBVIOUS
  <2>3. row \in Row
    BY DEF TypeOK
  <2>4. b \in BOOLEAN
    BY <2>2
  <2> HIDE DEF b, row
  <2>5. c.held = b
    BY <2>3, <2>4, HeldField
  <2> HIDE DEF c
  <2> QED BY <2>1, <2>2, <2>5
<1> HIDE DEF table
<1>4. LinkInHand'
  <2>1. CASE s \in Runs /\ todo[s] # {} /\ FollowUp(s, table, todo[s])
    <3>1. todo[s] \in SUBSET (Live \cup gone)
      BY <2>1 DEF TypeOK
    <3>2. UNCHANGED faults
      BY DEF MailArrives
    <3> QED BY <1>1, <1>3, <2>1, <3>1, <3>2, FollowUpLinks
  <2>2. CASE rows' = table /\ call' = [call EXCEPT ![s] = NoMail]
    <3> SUFFICES ASSUME faults = 0, NEW q \in Live
                 PROVE  \/ rows'[q].held
                        \/ \E t \in Senders :
                               call'[t] = [request |-> q, link |-> rows'[q].link]
      BY <1>1, <2>2 DEF LinkInHand, Live, Same, MailArrives
    <3>1. rows'[q].link = rows[q].link /\ (rows[q].held => rows'[q].held)
      BY <1>1, <2>2 DEF Same
    <3>2. CASE rows[q].held
      BY <3>1, <3>2
    <3>3. CASE ~rows[q].held
      <4>1. PICK t \in Senders : call[t] = [request |-> q, link |-> rows[q].link]
        BY <3>3 DEF LinkInHand
      <4>2. CASE t = s
        BY <1>3, <2>2, <4>1, <4>2
      <4>3. CASE t # s
        BY <2>2, <3>1, <4>1, <4>3 DEF TypeOK
      <4> QED BY <4>2, <4>3
    <3> QED BY <3>2, <3>3
  <2>3. GoOn(s, table)
    BY DEF MailArrives, table
  <2> QED BY <2>1, <2>2, <2>3 DEF GoOn
<1> QED BY <1>2, <1>4

LEMMA MailFailsKeeps ==
    ASSUME IInv, NEW s \in Senders, MailFails(s)
    PROVE  IInv'
<1> USE DEF IInv
<1>1. PICK left \in SUBSET {s} : GoOn(s, Reached(left))
  BY DEF MailFails
<1>2. Same(Reached(left))
  BY ReachedSame
<1>3. faults' \in Nat /\ faults' # 0 /\ call[s] # NoMail
  BY DEF MailFails, TypeOK
<1>4. /\ TypeOK' /\ TimesInOrder' /\ CooldownHolds' /\ HeldByOne'
      /\ UnmarkedIsNew' /\ QuietClicked'
  BY <1>1, <1>2, <1>3, GoOnKeeps DEF MailFails
<1>5. LinkInHand'
  BY <1>3 DEF LinkInHand
<1> QED BY <1>4, <1>5

LEMMA SendKeeps ==
    ASSUME IInv, NEW h \in Handlers, NEW c \in Customers, Send(h, c)
    PROVE  IInv'
<1> USE DEF IInv
<1>1. PICK r \in Requests \ (Live \cup gone) :
        /\ rows' = With(r, [customer |-> c, created |-> day, sent |-> day,
                            clicked |-> FALSE, followedUp |-> FALSE,
                            link |-> 0, held |-> FALSE])
        /\ call' = [call EXCEPT ![h] = [request |-> r, link |-> 0]]
  BY DEF Send
<1>2. /\ UNCHANGED <<day, enabled, gone, todo, resends, followUps, shared, quiet, faults>>
      /\ call[h] = NoMail /\ ~Recent(c)
  BY DEF Send
<1>3. h \in Senders /\ \A w \in Runs : w # h
  BY RequestAssumption DEF Senders
<1> DEFINE new == [customer |-> c, created |-> day, sent |-> day,
                   clicked |-> FALSE, followedUp |-> FALSE,
                   link |-> 0, held |-> FALSE]
<1>4. /\ new \in Row /\ new.customer = c /\ new.created = day /\ new.sent = day
      /\ ~new.followedUp /\ new.link = 0
  BY DEF Row, TypeOK
<1>5. rows' = [q \in Live \cup {r} |-> IF q = r THEN new ELSE rows[q]]
  BY <1>1 DEF With
<1> HIDE DEF new
<1>6. Live' = Live \cup {r} /\ rows'[r] = new /\ \A q \in Live : rows'[q] = rows[q]
  BY <1>1, <1>5 DEF Live
<1>7. rows' \in [Live' -> Row]
  BY <1>4, <1>5, <1>6 DEF TypeOK
<1>8. \A q \in Senders : call'[q] = IF q = h THEN [request |-> r, link |-> 0] ELSE call[q]
  BY <1>1, <1>3 DEF TypeOK
<1>9. TypeOK'
  <2>1. [request |-> r, link |-> 0] \in Mail
    BY DEF Mail
  <2>2. call' \in [Senders -> Mail \cup {NoMail}]
    BY <1>1, <2>1 DEF TypeOK
  <2>3. \A w \in Runs : call'[w] = NoMail => todo'[w] = {}
    BY <1>2, <1>3, <1>8 DEF TypeOK, Senders
  <2>4. todo' \in [Runs -> SUBSET (Live' \cup gone')]
    BY <1>2, <1>6 DEF TypeOK
  <2> QED BY <1>1, <1>2, <1>6, <1>7, <2>2, <2>3, <2>4 DEF TypeOK
<1>10. TimesInOrder'
  BY <1>2, <1>4, <1>6 DEF TimesInOrder, TypeOK, Days
<1>11. CooldownHolds'
  <2>1. ASSUME NEW q \in Live, rows[q].customer = c
        PROVE  day - rows[q].created > Cooldown
    <3>1. ~(rows[q].sent >= day - Cooldown)
      BY <1>2, <2>1 DEF Recent
    <3>2. rows[q].created <= rows[q].sent
      BY DEF TimesInOrder
    <3>3. rows[q].created \in Int /\ rows[q].sent \in Int /\ day \in Int
      BY DEF TypeOK, Row, Days
    <3> QED BY <3>1, <3>2, <3>3, RequestAssumption
  <2> QED BY <1>4, <1>6, <2>1 DEF CooldownHolds
<1>12. HeldByOne'
  BY <1>2 DEF HeldByOne
<1>13. UnmarkedIsNew'
  BY <1>1, <1>2, <1>6 DEF UnmarkedIsNew
<1>14. QuietClicked'
  BY <1>1, <1>2, <1>6 DEF QuietClicked, Unread, TypeOK
<1>15. LinkInHand'
  <2> SUFFICES ASSUME faults = 0, NEW q \in Live \cup {r}
               PROVE  \/ rows'[q].held
                      \/ \E s \in Senders :
                             call'[s] = [request |-> q, link |-> rows'[q].link]
    BY <1>2, <1>6 DEF LinkInHand
  <2>1. CASE q = r
    BY <1>3, <1>4, <1>6, <1>8, <2>1
  <2>2. CASE q \in Live /\ rows[q].held
    BY <1>6, <2>2
  <2>3. CASE q \in Live /\ ~rows[q].held
    <3>1. PICK s \in Senders : call[s] = [request |-> q, link |-> rows[q].link]
      BY <2>3 DEF LinkInHand
    <3>2. s # h
      <4>1. call[s].request = q /\ q # Null
        BY <2>3, <3>1, RequestAssumption DEF TypeOK
      <4> QED BY <1>2, <4>1 DEF NoMail
    <3> QED BY <1>6, <1>8, <2>3, <3>1, <3>2
  <2> QED BY <2>1, <2>2, <2>3
<1> QED BY <1>9, <1>10, <1>11, <1>12, <1>13, <1>14, <1>15

LEMMA ResendKeeps ==
    ASSUME IInv, NEW h \in Handlers, NEW r \in Requests, Resend(h, r)
    PROVE  IInv'
<1> USE DEF IInv
<1> DEFINE a == Renew(rows[r])
           b == [a EXCEPT !.sent = day]
           no == FALSE
           c == [b EXCEPT !.clicked = no]
<1>1. /\ UNCHANGED <<day, enabled, gone, todo, followUps, shared, faults>>
      /\ call[h] = NoMail /\ r \in Live /\ quiet' = quiet \ {r}
      /\ resends' = resends + 1
      /\ call' = [call EXCEPT ![h] = [request |-> r, link |-> rows[r].link + 1]]
  BY DEF Resend
<1>2. rows' = [rows EXCEPT ![r] = c]
  BY DEF Resend
<1>3. rows[r] \in Row /\ day \in Days
  BY <1>1 DEF TypeOK
<1>4. /\ a \in Row /\ a.customer = rows[r].customer /\ a.created = rows[r].created
      /\ a.followedUp = rows[r].followedUp /\ a.link = rows[r].link + 1
  BY <1>3, RenewFields
<1> HIDE DEF a
<1>5. /\ b \in Row /\ b.customer = a.customer /\ b.created = a.created
      /\ b.sent = day /\ b.followedUp = a.followedUp /\ b.link = a.link
  BY <1>3, <1>4, SentField
<1>6. no \in BOOLEAN
  OBVIOUS
<1> HIDE DEF b, no
<1>7. /\ c \in Row /\ c.customer = b.customer /\ c.created = b.created
      /\ c.sent = b.sent /\ c.followedUp = b.followedUp /\ c.link = b.link
  BY <1>5, <1>6, ClickedField
<1> HIDE DEF c
<1>8. /\ DOMAIN rows' = Live /\ rows'[r] = c
      /\ \A q \in Live : q # r => rows'[q] = rows[q]
  BY <1>1, <1>2 DEF Live
<1>9. Live' = Live /\ rows' \in [Live -> Row]
  BY <1>1, <1>2, <1>7, <1>8 DEF Live, TypeOK
<1>10. h \in Senders /\ \A w \in Runs : w # h
  BY RequestAssumption DEF Senders
<1>11. \A q \in Senders : call'[q] = IF q = h THEN [request |-> r, link |-> rows[r].link + 1]
                                     ELSE call[q]
  BY <1>1, <1>10 DEF TypeOK
<1>12. TypeOK'
  <2>1. [request |-> r, link |-> rows[r].link + 1] \in Mail
    BY <1>3 DEF Mail, Row
  <2>2. call' \in [Senders -> Mail \cup {NoMail}]
    BY <1>1, <2>1 DEF TypeOK
  <2>3. \A w \in Runs : call'[w] = NoMail => todo'[w] = {}
    BY <1>1, <1>10, <1>11 DEF TypeOK, Senders
  <2> QED BY <1>1, <1>9, <2>2, <2>3 DEF TypeOK
<1>13. TimesInOrder'
  BY <1>1, <1>3, <1>4, <1>5, <1>7, <1>8, <1>9 DEF TimesInOrder, Row, Days
<1>14. CooldownHolds'
  BY <1>4, <1>5, <1>7, <1>8, <1>9 DEF CooldownHolds
<1>15. HeldByOne'
  BY <1>1 DEF HeldByOne
<1>16. UnmarkedIsNew'
  BY <1>1, <1>4, <1>5, <1>7, <1>8, <1>9 DEF UnmarkedIsNew
<1>17. QuietClicked'
  BY <1>1, <1>8, <1>9 DEF QuietClicked, Unread
<1>18. LinkInHand'
  <2> SUFFICES ASSUME faults = 0, NEW q \in Live
               PROVE  \/ rows'[q].held
                      \/ \E s \in Senders :
                             call'[s] = [request |-> q, link |-> rows'[q].link]
    BY <1>1, <1>9 DEF LinkInHand
  <2>1. CASE q = r
    BY <1>4, <1>5, <1>7, <1>8, <1>10, <1>11, <2>1
  <2>2. CASE q # r /\ rows[q].held
    BY <1>8, <2>2
  <2>3. CASE q # r /\ ~rows[q].held
    <3>1. PICK s \in Senders : call[s] = [request |-> q, link |-> rows[q].link]
      BY <2>3 DEF LinkInHand
    <3>2. s # h
      <4>1. call[s].request = q /\ q # Null
        BY <3>1, RequestAssumption DEF TypeOK
      <4> QED BY <1>1, <4>1 DEF NoMail
    <3> QED BY <1>8, <1>11, <2>3, <3>1, <3>2
  <2> QED BY <2>1, <2>2, <2>3
<1> QED BY <1>12, <1>13, <1>14, <1>15, <1>16, <1>17, <1>18

LEMMA DeleteKeeps ==
    ASSUME IInv, NEW r \in Requests, Delete(r)
    PROVE  IInv'
<1> USE DEF IInv
<1>1. Live' = Live \ {r} /\ \A q \in Live \ {r} : rows'[q] = rows[q]
  BY DEF Delete, Live
<1>2. rows' \in [Live' -> Row] /\ Live' \cup gone' = Live \cup gone
  BY <1>1 DEF Delete, TypeOK, Live
<1>3. TypeOK'
  BY <1>1, <1>2 DEF Delete, TypeOK
<1>4. TimesInOrder' /\ CooldownHolds'
  BY <1>1 DEF Delete, TimesInOrder, CooldownHolds
<1>5. HeldByOne' /\ UnmarkedIsNew'
  BY <1>1, <1>2 DEF Delete, HeldByOne, UnmarkedIsNew
<1>6. QuietClicked'
  BY <1>1 DEF Delete, QuietClicked, Unread
<1>7. LinkInHand'
  BY <1>1 DEF Delete, LinkInHand
<1> QED BY <1>3, <1>4, <1>5, <1>6, <1>7

LEMMA ClickKeeps ==
    ASSUME IInv, NEW r \in Requests, Click(r)
    PROVE  IInv'
<1> USE DEF IInv
<1> DEFINE yes == TRUE
           row == rows[r]
           c == [row EXCEPT !.clicked = yes]
<1>1. rows' = [rows EXCEPT ![r] = c] /\ r \in Live
  BY DEF Click
<1>2. yes \in BOOLEAN /\ yes /\ row \in Row
  BY <1>1 DEF TypeOK
<1> HIDE DEF yes, row
<1>3. /\ c \in Row /\ c.customer = row.customer /\ c.created = row.created
      /\ c.sent = row.sent /\ c.followedUp = row.followedUp /\ c.link = row.link
      /\ c.held = row.held /\ c.clicked = yes
  BY <1>2, ClickedField
<1> HIDE DEF c
<1>4. /\ DOMAIN rows' = Live /\ rows'[r] = c
      /\ \A q \in Live : q # r => rows'[q] = rows[q]
  BY <1>1 DEF Live
<1>5. Live' = Live /\ rows' \in [Live -> Row]
  BY <1>1, <1>3, <1>4 DEF Live, TypeOK
<1>6. \A q \in Live : /\ rows'[q].customer = rows[q].customer
                      /\ rows'[q].created = rows[q].created
                      /\ rows'[q].sent = rows[q].sent
                      /\ rows'[q].followedUp = rows[q].followedUp
                      /\ rows'[q].link = rows[q].link
                      /\ rows'[q].held = rows[q].held
                      /\ rows[q].clicked => rows'[q].clicked
  BY <1>2, <1>3, <1>4 DEF row
<1>7. rows'[r].clicked
  BY <1>2, <1>3, <1>4
<1>8. TypeOK'
  BY <1>1, <1>5 DEF Click, TypeOK
<1>9. TimesInOrder' /\ CooldownHolds'
  BY <1>5, <1>6 DEF Click, TimesInOrder, CooldownHolds
<1>10. HeldByOne' /\ UnmarkedIsNew'
  BY <1>5, <1>6 DEF Click, HeldByOne, UnmarkedIsNew
<1>11. QuietClicked'
  BY <1>5, <1>6, <1>7 DEF Click, QuietClicked, Unread
<1>12. LinkInHand'
  BY <1>5, <1>6 DEF Click, LinkInHand
<1> QED BY <1>8, <1>9, <1>10, <1>11, <1>12

LEMMA BeginKeeps ==
    ASSUME IInv, NEW w \in Runs, Begin(w)
    PROVE  IInv'
<1> USE DEF IInv
<1> DEFINE pending == {r \in Live : Due(r)}
<1>1. /\ FollowUp(w, rows, pending) /\ call[w] = NoMail
      /\ shared' = shared \cup (pending \ Unread)
      /\ UNCHANGED <<day, enabled, gone, resends, quiet, faults>>
  BY DEF Begin
<1>2. Same(rows)
  BY DEF Same, TypeOK
<1>3. pending \in SUBSET (Live \cup gone) /\ pending \subseteq Requests
  BY DEF TypeOK
<1>4. \A r \in pending : ~rows[r].clicked /\ ~rows[r].followedUp /\ r \in Live
  BY DEF Due
<1> HIDE DEF pending
<1>5. \A r \in pending : r \notin quiet
  BY <1>4 DEF QuietClicked
<1>6. \A r \in pending \ shared' :
            followUps[r] = 0 /\ \A v \in Runs : r \in todo[v] => v = w
  BY <1>1, <1>3, <1>4 DEF UnmarkedIsNew, Unread
<1>7. /\ enabled' \in BOOLEAN /\ resends' \in Nat /\ faults' \in Nat
      /\ shared \subseteq shared' /\ shared' \subseteq Requests
  BY <1>1, <1>3 DEF TypeOK
<1>8. \A r \in Live : call[w] = [request |-> r, link |-> rows[r].link] => rows[r].held
  <2> SUFFICES ASSUME NEW r \in Live, call[w] = [request |-> r, link |-> rows[r].link]
               PROVE  FALSE
    OBVIOUS
  <2>1. call[w].request = r /\ r # Null
    BY RequestAssumption DEF TypeOK
  <2> QED BY <1>1, <2>1 DEF NoMail
<1>9. LinkInHand'
  BY <1>1, <1>2, <1>3, <1>8, FollowUpLinks
<1>10. /\ TypeOK' /\ TimesInOrder' /\ CooldownHolds' /\ HeldByOne'
       /\ UnmarkedIsNew' /\ QuietClicked'
  BY <1>1, <1>2, <1>3, <1>5, <1>6, <1>7, FollowUpKeeps
<1> QED BY <1>9, <1>10

LEMMA CrashKeeps ==
    ASSUME IInv, Crash
    PROVE  IInv'
<1> USE DEF IInv
<1>1. PICK left \in SUBSET {s \in Senders : call[s] # NoMail} : rows' = Reached(left)
  BY DEF Crash
<1>2. Same(rows')
  BY <1>1, ReachedSame
<1>3. faults' \in Nat /\ faults' # 0
  BY DEF Crash, TypeOK
<1>4. /\ call' \in [Senders -> Mail \cup {NoMail}]
      /\ todo' \in [Runs -> SUBSET (Live \cup gone)]
      /\ \A w \in Runs : todo'[w] = {}
  BY DEF Crash
<1>5. /\ TypeOK' /\ TimesInOrder' /\ CooldownHolds' /\ HeldByOne'
      /\ UnmarkedIsNew' /\ QuietClicked'
  BY <1>2, <1>3, <1>4, MailsKeep DEF Crash
<1>6. LinkInHand'
  BY <1>3 DEF LinkInHand
<1> QED BY <1>5, <1>6

LEMMA ClockKeeps ==
    ASSUME IInv, Toggle \/ Pass \/ UNCHANGED vars
    PROVE  IInv'
<1> USE DEF IInv
<1>0. enabled' \in BOOLEAN
  BY DEF Toggle, Pass, vars, TypeOK
<1>1. /\ UNCHANGED <<rows, gone, call, todo, resends, followUps, shared, quiet, faults>>
      /\ day' \in Days /\ day <= day'
  <2>1. CASE Toggle
    BY <2>1 DEF Toggle, TypeOK, Days
  <2>2. CASE Pass
    BY <2>2, RequestAssumption DEF Pass, TypeOK, Days
  <2>3. CASE UNCHANGED vars
    BY <2>3 DEF vars, TypeOK, Days
  <2> QED BY <2>1, <2>2, <2>3
<1>2. Live' = Live
  BY <1>1 DEF Live
<1>3. TypeOK'
  BY <1>0, <1>1, <1>2 DEF TypeOK
<1>4. TimesInOrder'
  BY <1>1, <1>2 DEF TimesInOrder, TypeOK, Row, Days
<1>5. CooldownHolds' /\ HeldByOne' /\ UnmarkedIsNew' /\ QuietClicked' /\ LinkInHand'
  BY <1>1, <1>2 DEF CooldownHolds, HeldByOne, UnmarkedIsNew, QuietClicked, LinkInHand, Unread
<1> QED BY <1>3, <1>4, <1>5

LEMMA NextKeeps == IInv /\ [Next]_vars => IInv'
<1> SUFFICES ASSUME IInv, [Next]_vars
             PROVE  IInv'
  OBVIOUS
<1>1. CASE \E h \in Handlers, c \in Customers : Send(h, c)
  BY <1>1, SendKeeps
<1>2. CASE \E h \in Handlers, c \in Customers : BulkLine(h, c)
  BY <1>2, SendKeeps DEF BulkLine
<1>3. CASE \E h \in Handlers, r \in Requests : Resend(h, r)
  BY <1>3, ResendKeeps
<1>4. CASE \E r \in Requests : Delete(r)
  BY <1>4, DeleteKeeps
<1>5. CASE \E r \in Requests : Click(r)
  BY <1>5, ClickKeeps
<1>6. CASE \E w \in Runs : Begin(w)
  BY <1>6, BeginKeeps
<1>7. CASE \E s \in Senders : MailArrives(s)
  BY <1>7, MailArrivesKeeps
<1>8. CASE \E s \in Senders : MailFails(s)
  BY <1>8, MailFailsKeeps
<1>9. CASE Crash
  BY <1>9, CrashKeeps
<1>10. CASE Toggle \/ Pass \/ UNCHANGED vars
  BY <1>10, ClockKeeps
<1> QED BY <1>1, <1>2, <1>3, <1>4, <1>5, <1>6, <1>7, <1>8, <1>9, <1>10 DEF Next

\* One round of the job turns to a row of its list.
LEMMA FollowUpCounts ==
    ASSUME TypeOK, NEW w \in Runs, NEW table, Same(table),
           NEW rest \in SUBSET (Live \cup gone), FollowUp(w, table, rest),
           NEW q \in Requests, q \notin rest
    PROVE  followUps'[q] = followUps[q]
BY FollowUpEffect DEF TypeOK

\* Who clicked in quiet is on no list, and not due.
LEMMA QuietStep ==
    IInv /\ [Next]_vars => \A r \in quiet : followUps'[r] = followUps[r]
<1> SUFFICES ASSUME IInv, [Next]_vars, NEW r \in quiet
             PROVE  followUps'[r] = followUps[r]
  OBVIOUS
<1> USE DEF IInv
<1>1. r \in Requests /\ r \in Unread /\ (r \in Live => rows[r].clicked)
  BY DEF QuietClicked, TypeOK
<1>2. ASSUME NEW w \in Runs, Begin(w)
      PROVE  followUps'[r] = followUps[r]
  <2> DEFINE pending == {q \in Live : Due(q)}
  <2>1. FollowUp(w, rows, pending)
    BY <1>2 DEF Begin
  <2>2. pending \in SUBSET (Live \cup gone)
    OBVIOUS
  <2>3. r \notin pending
    BY <1>1 DEF Due
  <2>4. Same(rows)
    BY DEF Same, TypeOK
  <2> HIDE DEF pending
  <2> QED BY <1>1, <2>1, <2>2, <2>3, <2>4, FollowUpCounts
<1>3. ASSUME NEW s \in Senders, NEW table, Same(table), GoOn(s, table)
      PROVE  followUps'[r] = followUps[r]
  <2>1. CASE s \in Runs /\ todo[s] # {} /\ FollowUp(s, table, todo[s])
    <3>1. todo[s] \in SUBSET (Live \cup gone) /\ r \notin todo[s]
      BY <1>1, <2>1 DEF TypeOK, Unread
    <3> QED BY <1>1, <1>3, <2>1, <3>1, FollowUpCounts
  <2>2. CASE UNCHANGED <<todo, followUps>>
    BY <2>2
  <2> QED BY <1>3, <2>1, <2>2 DEF GoOn
<1>4. CASE \E w \in Runs : Begin(w)
  BY <1>2, <1>4
<1>5. CASE \E s \in Senders : MailArrives(s)
  BY <1>3, <1>5, ReachedSame DEF MailArrives
<1>6. CASE \E s \in Senders : MailFails(s)
  BY <1>3, <1>6, ReachedSame DEF MailFails
<1>7. CASE \/ \E h \in Handlers, c \in Customers : Send(h, c)
           \/ \E h \in Handlers, c \in Customers : BulkLine(h, c)
           \/ \E h \in Handlers, q \in Requests : Resend(h, q)
           \/ \E q \in Requests : Delete(q)
           \/ \E q \in Requests : Click(q)
           \/ Toggle \/ Crash \/ Pass \/ UNCHANGED vars
  BY <1>7 DEF Send, BulkLine, Resend, Delete, Click, Toggle, Crash, Pass, vars
<1> QED BY <1>4, <1>5, <1>6, <1>7 DEF Next

-----------------------------------------------------------------------------
(* Theorems.                                                               *)

THEOREM InvariantHolds == Spec => []IInv
BY InitInv, NextKeeps, PTL DEF Spec

\* The types of the request model; no update after an await brings a deleted
\* request back.
THEOREM TypeCorrect == Spec => []TypeOK
BY InvariantHolds, PTL DEF IInv

\* No two requests on file to one customer were made within the cooldown.
THEOREM CooldownIsKept == Spec => []CooldownHolds
BY InvariantHolds, PTL DEF IInv

\* At most one follow-up in the life of a request, but for overlapping runs.
THEOREM OnceUnlessOverlapHolds == Spec => []OnceUnlessOverlap
<1>1. IInv => OnceUnlessOverlap
  BY DEF IInv, HeldByOne, OnceUnlessOverlap, TypeOK
<1> QED BY <1>1, InvariantHolds, PTL

\* Nobody is followed up who clicked before the run read the table.
THEOREM QuietAfterClickHolds == Spec => QuietAfterClick
<1>1. IInv /\ [Next]_vars => [\A r \in quiet : followUps'[r] = followUps[r]]_vars
  BY QuietStep
<1> QED BY <1>1, InvariantHolds, PTL DEF Spec, QuietAfterClick

\* Without a failed mail no request is left with a token nobody was sent.
THEOREM LinkInHandHolds == Spec => []LinkInHand
BY InvariantHolds, PTL DEF IInv

-----------------------------------------------------------------------------
(* The promise: each step is one of RequestPromise, or a stutter.          *)

\* What a run has left to do was old enough when it read the table, and has
\* only become older since; a resend moves "sent", not "created".
TodoAged ==
    \A w \in Runs : \A r \in todo[w] \cap Live :
        day - rows[r].created >= FollowUpAfter

Aged(S) == \A r \in S \cap Live : day - rows[r].created >= FollowUpAfter

\* The requests on file, as the promise sees them.
File == [r \in Live |-> [customer |-> rows[r].customer, at |-> rows[r].created]]

\* A step that leaves whom and when alone.
KeepsFile ==
    /\ Live' = Live
    /\ \A r \in Live : /\ rows'[r].customer = rows[r].customer
                       /\ rows'[r].created = rows[r].created

LEMMA FileKept ==
    ASSUME KeepsFile
    PROVE  File' = File
BY DEF KeepsFile, File

LEMMA SameKeepsFile ==
    ASSUME Same(rows')
    PROVE  KeepsFile
BY DEF Same, KeepsFile, Live

\* A round turns to a row on file or deleted since, that is old enough, that
\* nobody has quietened, and that has had no reminder or is shared.
LEMMA RoundRefines ==
    ASSUME IInv, NEW w \in Runs, NEW table, Same(table),
           NEW rest \in SUBSET (Live \cup gone), FollowUp(w, table, rest),
           UNCHANGED <<day, gone, quiet>>,
           Aged(rest), \A r \in rest : r \notin quiet,
           shared \subseteq shared', shared' \subseteq Live \cup shared,
           \A r \in shared' \ shared : followUps[r] = 0,
           \A r \in rest \ shared' : followUps[r] = 0
    PROVE  Promise!Next
<1>1. TypeOK
  BY DEF IInv
<1>2. PICK r \in rest :
        /\ Live' = Live
        /\ \A q \in Live : /\ rows'[q].customer = rows[q].customer
                           /\ rows'[q].created = rows[q].created
        /\ followUps' = [followUps EXCEPT ![r] = @ + 1]
  BY <1>1, FollowUpEffect
<1>3. KeepsFile
  BY <1>2 DEF KeepsFile
<1>4. File' = File
  BY <1>3, FileKept
<1>5. r \in Requests
  BY <1>1 DEF TypeOK
<1>6. DOMAIN File = Live /\ (r \in Live => File[r].at = rows[r].created)
  BY DEF File
<1>7. r \in Live => day - File[r].at >= FollowUpAfter
  BY <1>6 DEF Aged
<1> HIDE DEF Aged
<1>8. Promise!Remind(r)
  BY <1>2, <1>4, <1>6, <1>7 DEF Promise!Remind, Promise!OnFile, File
<1> QED BY <1>5, <1>8 DEF Promise!Next

LEMMA BeginRefines ==
    ASSUME IInv, NEW w \in Runs, Begin(w)
    PROVE  Promise!Next
<1> USE DEF IInv
<1> DEFINE pending == {r \in Live : Due(r)}
<1>1. /\ FollowUp(w, rows, pending)
      /\ shared' = shared \cup (pending \ Unread)
      /\ UNCHANGED <<day, gone, quiet>>
  BY DEF Begin
<1>2. Same(rows)
  BY DEF Same, TypeOK
<1>3. pending \in SUBSET (Live \cup gone) /\ pending \subseteq Live /\ pending \subseteq Requests
  BY DEF TypeOK
<1>4. \A r \in pending : /\ ~rows[r].clicked /\ ~rows[r].followedUp
                         /\ day - rows[r].sent >= FollowUpAfter
  BY DEF Due
<1> HIDE DEF pending
<1>5. \A r \in pending : r \notin quiet
  BY <1>3, <1>4 DEF QuietClicked
<1>6. \A r \in pending \ shared : followUps[r] = 0
  BY <1>3, <1>4 DEF UnmarkedIsNew
<1>7. Aged(pending)
  <2> SUFFICES ASSUME NEW r \in pending PROVE day - rows[r].created >= FollowUpAfter
    BY DEF Aged
  <2>1. rows[r].created \in Int /\ rows[r].sent \in Int /\ day \in Int
    BY <1>3 DEF TypeOK, Row, Days
  <2>2. rows[r].created <= rows[r].sent
    BY <1>3 DEF TimesInOrder
  <2> QED BY <1>4, <2>1, <2>2, RequestAssumption
<1>8. /\ shared \subseteq shared' /\ shared' \subseteq Live \cup shared
      /\ \A r \in shared' \ shared : followUps[r] = 0
      /\ \A r \in pending \ shared' : followUps[r] = 0
  BY <1>1, <1>3, <1>6
<1> QED BY <1>1, <1>2, <1>3, <1>5, <1>7, <1>8, RoundRefines

LEMMA GoOnRefines ==
    ASSUME IInv, TodoAged, NEW s \in Senders, NEW table, Same(table), GoOn(s, table),
           UNCHANGED <<day, gone, shared, quiet>>
    PROVE  [Promise!Next]_(Promise!promise)
<1> USE DEF IInv
<1>1. CASE s \in Runs /\ todo[s] # {} /\ FollowUp(s, table, todo[s])
  <2>1. todo[s] \in SUBSET (Live \cup gone) /\ todo[s] \subseteq Requests
    BY <1>1 DEF TypeOK
  <2>2. \A r \in todo[s] : r \notin quiet
    BY <1>1 DEF QuietClicked, Unread
  <2>3. \A r \in todo[s] \ shared' : followUps[r] = 0
    BY <1>1, <2>1 DEF HeldByOne
  <2>4. Aged(todo[s])
    BY <1>1 DEF TodoAged, Aged
  <2>5. /\ shared \subseteq shared' /\ shared' \subseteq Live \cup shared
        /\ \A r \in shared' \ shared : followUps[r] = 0
    OBVIOUS
  <2>6. Promise!Next
    BY <1>1, <2>1, <2>2, <2>3, <2>4, <2>5, RoundRefines
  <2> QED BY <2>6
<1>2. CASE rows' = table /\ UNCHANGED followUps
  <2>1. File' = File
    BY <1>2, SameKeepsFile, FileKept
  <2> QED BY <1>2, <2>1 DEF Promise!promise, File
<1> QED BY <1>1, <1>2 DEF GoOn

LEMMA SendRefines ==
    ASSUME IInv, NEW h \in Handlers, NEW c \in Customers, Send(h, c)
    PROVE  Promise!Next
<1> USE DEF IInv
<1> DEFINE new == [customer |-> c, created |-> day, sent |-> day,
                   clicked |-> FALSE, followedUp |-> FALSE,
                   link |-> 0, held |-> FALSE]
<1>1. PICK r \in Requests \ (Live \cup gone) : rows' = With(r, new)
  BY DEF Send
<1>2. UNCHANGED <<day, gone, followUps, shared, quiet>> /\ ~Recent(c)
  BY DEF Send
<1>3. new.customer = c /\ new.created = day
  OBVIOUS
<1> HIDE DEF new
<1>4. Live' = Live \cup {r} /\ rows'[r] = new /\ \A q \in Live : rows'[q] = rows[q]
  BY <1>1 DEF With, Live
<1>5. ASSUME NEW q \in Live, rows[q].customer = c
      PROVE  day - rows[q].created > Cooldown
  <2>1. ~(rows[q].sent >= day - Cooldown)
    BY <1>2, <1>5 DEF Recent
  <2>2. rows[q].created <= rows[q].sent
    BY DEF TimesInOrder
  <2>3. rows[q].created \in Int /\ rows[q].sent \in Int /\ day \in Int
    BY DEF TypeOK, Row, Days
  <2> QED BY <2>1, <2>2, <2>3, RequestAssumption
<1>6. DOMAIN File = Live
  BY DEF File
<1>7. \A q \in Live : File[q].customer = c => day - File[q].at > Cooldown
  BY <1>5 DEF File
<1>8. File' = [q \in Live \cup {r} |->
                  IF q = r THEN [customer |-> c, at |-> day] ELSE File[q]]
  BY <1>3, <1>4 DEF File
<1>9. Promise!Ask(r, c)
  BY <1>1, <1>2, <1>6, <1>7, <1>8 DEF Promise!Ask, Promise!OnFile, File
<1> QED BY <1>1, <1>9 DEF Promise!Next

LEMMA ResendAlters ==
    ASSUME TypeOK, NEW h \in Handlers, NEW r \in Requests, Resend(h, r)
    PROVE  KeepsFile
<1> DEFINE a == Renew(rows[r])
           b == [a EXCEPT !.sent = day]
           no == FALSE
           c == [b EXCEPT !.clicked = no]
<1>1. /\ UNCHANGED <<day, gone, followUps, shared>>
      /\ r \in Live /\ quiet' = quiet \ {r} /\ rows' = [rows EXCEPT ![r] = c]
  BY DEF Resend
<1>2. rows[r] \in Row /\ day \in Days
  BY <1>1 DEF TypeOK
<1>3. a \in Row /\ a.customer = rows[r].customer /\ a.created = rows[r].created
  BY <1>2, RenewFields
<1> HIDE DEF a
<1>4. b \in Row /\ b.customer = a.customer /\ b.created = a.created
  BY <1>2, <1>3, SentField
<1>5. no \in BOOLEAN
  OBVIOUS
<1> HIDE DEF b, no
<1>6. c.customer = b.customer /\ c.created = b.created
  BY <1>4, <1>5, ClickedField
<1> HIDE DEF c
<1> QED BY <1>1, <1>3, <1>4, <1>6 DEF KeepsFile, Live

LEMMA ResendRefines ==
    ASSUME TypeOK, NEW h \in Handlers, NEW r \in Requests, Resend(h, r)
    PROVE  Promise!Next
<1>1. File' = File
  BY ResendAlters, FileKept
<1>2. Promise!AskAgain(r)
  BY <1>1 DEF Resend, Promise!AskAgain, Promise!OnFile, File
<1> QED BY <1>2 DEF Promise!Next

LEMMA DeleteRefines ==
    ASSUME IInv, NEW r \in Requests, Delete(r)
    PROVE  Promise!Next
<1>1. r \in Live /\ Live' = Live \ {r} /\ \A q \in Live \ {r} : rows'[q] = rows[q]
  BY DEF Delete, Live
<1>2. File' = [q \in Live \ {r} |-> File[q]]
  BY <1>1 DEF File
<1>3. DOMAIN File = Live
  BY DEF File
<1>4. Promise!Remove(r)
  BY <1>1, <1>2, <1>3 DEF Delete, Promise!Remove, Promise!OnFile, File
<1> QED BY <1>4 DEF Promise!Next

LEMMA ClickAlters ==
    ASSUME TypeOK, NEW r \in Requests, Click(r)
    PROVE  KeepsFile
<1> DEFINE yes == TRUE
           row == rows[r]
           c == [row EXCEPT !.clicked = yes]
<1>1. rows' = [rows EXCEPT ![r] = c] /\ r \in Live
  BY DEF Click
<1>2. yes \in BOOLEAN /\ row \in Row
  BY <1>1 DEF TypeOK
<1> HIDE DEF yes, row
<1>3. c.customer = row.customer /\ c.created = row.created
  BY <1>2, ClickedField
<1> HIDE DEF c
<1> QED BY <1>1, <1>3 DEF KeepsFile, Live, row

LEMMA ClickRefines ==
    ASSUME TypeOK, NEW r \in Requests, Click(r)
    PROVE  [Promise!Next]_(Promise!promise)
<1>1. File' = File
  BY ClickAlters, FileKept
<1>2. CASE quiet' = quiet \cup {r}
  <2>1. Promise!Quieten(r)
    BY <1>1, <1>2 DEF Click, Promise!Quieten, Promise!OnFile, File
  <2> QED BY <2>1 DEF Promise!Next
<1>3. CASE UNCHANGED quiet
  BY <1>1, <1>3 DEF Click, Promise!promise, File
<1> QED BY <1>2, <1>3 DEF Click

LEMMA StepRefines ==
    IInv /\ TodoAged /\ [Next]_vars => [Promise!Next]_(Promise!promise)
<1> SUFFICES ASSUME IInv, TodoAged, [Next]_vars
             PROVE  [Promise!Next]_(Promise!promise)
  OBVIOUS
<1>0. TypeOK
  BY DEF IInv
<1>1. CASE \E h \in Handlers, c \in Customers : Send(h, c) \/ BulkLine(h, c)
  BY <1>1, SendRefines DEF BulkLine
<1>2. CASE \E h \in Handlers, r \in Requests : Resend(h, r)
  BY <1>0, <1>2, ResendRefines
<1>3. CASE \E r \in Requests : Delete(r)
  BY <1>3, DeleteRefines
<1>4. CASE \E r \in Requests : Click(r)
  BY <1>0, <1>4, ClickRefines
<1>5. CASE \E w \in Runs : Begin(w)
  BY <1>5, BeginRefines
<1>6. ASSUME NEW s \in Senders, MailArrives(s)
      PROVE  [Promise!Next]_(Promise!promise)
  <2>1. GoOn(s, Reached({s})) /\ UNCHANGED <<day, gone, shared, quiet>>
    BY <1>6 DEF MailArrives
  <2>2. Same(Reached({s}))
    BY <1>0, ReachedSame
  <2> QED BY <2>1, <2>2, GoOnRefines
<1>7. ASSUME NEW s \in Senders, MailFails(s)
      PROVE  [Promise!Next]_(Promise!promise)
  <2>1. PICK left \in SUBSET {s} : GoOn(s, Reached(left))
    BY <1>7 DEF MailFails
  <2>2. UNCHANGED <<day, gone, shared, quiet>>
    BY <1>7 DEF MailFails
  <2>3. Same(Reached(left))
    BY <1>0, ReachedSame
  <2> QED BY <2>1, <2>2, <2>3, GoOnRefines
<1>8. CASE Crash
  <2>1. PICK left \in SUBSET {s \in Senders : call[s] # NoMail} : rows' = Reached(left)
    BY <1>8 DEF Crash
  <2>2. Same(rows')
    BY <1>0, <2>1, ReachedSame
  <2>3. File' = File
    BY <2>2, SameKeepsFile, FileKept
  <2> QED BY <1>8, <2>3 DEF Crash, Promise!promise, File
<1>9. CASE Pass
  <2>1. File' = File
    BY <1>9 DEF Pass, File, Live
  <2>2. Promise!Pass
    BY <1>9, <2>1 DEF Pass, Promise!Pass, File
  <2> QED BY <2>2 DEF Promise!Next
<1>10. CASE Toggle \/ UNCHANGED vars
  <2>1. File' = File
    BY <1>10 DEF Toggle, vars, File, Live
  <2> QED BY <1>10, <2>1 DEF Toggle, vars, Promise!promise, File
<1> QED BY <1>1, <1>2, <1>3, <1>4, <1>5, <1>6, <1>7, <1>8, <1>9, <1>10 DEF Next

-----------------------------------------------------------------------------
(* What a run has to do stays old enough.                                  *)

\* Lists that only lose rows, or take on rows that are old enough.
LEMMA AgedKept ==
    ASSUME TypeOK, TypeOK', TodoAged, day <= day',
           \A r \in Live' \cap (Live \cup gone) :
                r \in Live /\ rows'[r].created = rows[r].created,
           \A w \in Runs : todo'[w] \subseteq todo[w] \/
                (todo'[w] \subseteq Live \cup gone /\ Aged(todo'[w]))
    PROVE  TodoAged'
<1> SUFFICES ASSUME NEW w \in Runs, NEW r \in todo'[w], r \in Live'
             PROVE  day' - rows'[r].created >= FollowUpAfter
  BY DEF TodoAged
<1>1. r \in Live \cup gone
  BY DEF TypeOK
<1>2. r \in Live /\ rows'[r].created = rows[r].created
  BY <1>1
<1>3. day - rows[r].created >= FollowUpAfter
  BY <1>2 DEF TodoAged, Aged
<1>4. rows[r].created \in Int /\ day \in Int /\ day' \in Int
  BY <1>2 DEF TypeOK, Row, Days
<1> QED BY <1>2, <1>3, <1>4, RequestAssumption

LEMMA RoundAged ==
    ASSUME TypeOK, TypeOK', TodoAged, NEW w \in Runs, NEW table, Same(table),
           NEW rest \in SUBSET (Live \cup gone), FollowUp(w, table, rest),
           UNCHANGED <<day, gone>>, Aged(rest)
    PROVE  TodoAged'
<1>1. PICK r \in rest :
        /\ Live' = Live
        /\ \A q \in Live : rows'[q].created = rows[q].created
        /\ todo' = [todo EXCEPT ![w] = rest \ {r}]
  BY FollowUpEffect
<1>2. \A v \in Runs : todo'[v] = IF v = w THEN rest \ {r} ELSE todo[v]
  BY <1>1 DEF TypeOK
<1>3. Aged(rest \ {r})
  BY DEF Aged
<1>4. Live' \cap gone = {} /\ day <= day'
  BY <1>1 DEF TypeOK, Days
<1>5. \A q \in Live' \cap (Live \cup gone) :
        q \in Live /\ rows'[q].created = rows[q].created
  BY <1>1, <1>4
<1>6. \A v \in Runs : todo'[v] \subseteq todo[v] \/
        (todo'[v] \subseteq Live \cup gone /\ Aged(todo'[v]))
  <2> HIDE DEF Aged
  <2> SUFFICES ASSUME NEW v \in Runs, v = w
               PROVE  todo'[v] \subseteq Live \cup gone /\ Aged(todo'[v])
    BY <1>2
  <2>1. todo'[v] = rest \ {r}
    BY <1>2
  <2> QED BY <1>3, <2>1
<1> QED BY <1>4, <1>5, <1>6, AgedKept

\* Other steps leave the lists, or empty them.
LEMMA AgedStep ==
    IInv /\ IInv' /\ TodoAged /\ [Next]_vars => TodoAged'
<1> SUFFICES ASSUME IInv, TypeOK, TypeOK', TodoAged, [Next]_vars
             PROVE  TodoAged'
  BY DEF IInv
<1>1. ASSUME NEW w \in Runs, Begin(w)
      PROVE  TodoAged'
  <2> DEFINE pending == {r \in Live : Due(r)}
  <2>1. FollowUp(w, rows, pending) /\ UNCHANGED <<day, gone>>
    BY <1>1 DEF Begin
  <2>2. Same(rows)
    BY DEF Same, TypeOK
  <2>3. pending \in SUBSET (Live \cup gone)
    OBVIOUS
  <2>4. \A r \in pending : r \in Live /\ day - rows[r].sent >= FollowUpAfter
    BY DEF Due
  <2> HIDE DEF pending
  <2>5. Aged(pending)
    <3> SUFFICES ASSUME NEW r \in pending PROVE day - rows[r].created >= FollowUpAfter
      BY DEF Aged
    <3>1. rows[r].created \in Int /\ rows[r].sent \in Int /\ day \in Int
      BY <2>4 DEF TypeOK, Row, Days
    <3>2. rows[r].created <= rows[r].sent
      BY <2>4 DEF IInv, TimesInOrder
    <3> QED BY <2>4, <3>1, <3>2, RequestAssumption
  <2> QED BY <2>1, <2>2, <2>3, <2>5, RoundAged
<1>2. ASSUME NEW s \in Senders, NEW table, Same(table), GoOn(s, table),
             UNCHANGED <<day, gone>>
      PROVE  TodoAged'
  <2>1. CASE s \in Runs /\ FollowUp(s, table, todo[s])
    <3>1. todo[s] \in SUBSET (Live \cup gone) /\ Aged(todo[s])
      BY <2>1 DEF TypeOK, TodoAged, Aged
    <3> QED BY <1>2, <2>1, <3>1, RoundAged
  <2>2. CASE rows' = table /\ UNCHANGED todo
    <3>1. KeepsFile
      BY <1>2, <2>2, SameKeepsFile
    <3>2. Live' \cap gone = {} /\ day <= day'
      BY <1>2, <3>1 DEF TypeOK, Days, KeepsFile
    <3> QED BY <1>2, <2>2, <3>1, <3>2, AgedKept DEF KeepsFile
  <2> QED BY <1>2, <2>1, <2>2 DEF GoOn
<1>3. CASE \E w \in Runs : Begin(w)
  BY <1>1, <1>3
<1>4. ASSUME NEW s \in Senders, MailArrives(s)
      PROVE  TodoAged'
  <2>1. GoOn(s, Reached({s})) /\ UNCHANGED <<day, gone>>
    BY <1>4 DEF MailArrives
  <2> QED BY <1>2, <2>1, ReachedSame
<1>5. ASSUME NEW s \in Senders, MailFails(s)
      PROVE  TodoAged'
  <2>1. PICK left \in SUBSET {s} : GoOn(s, Reached(left))
    BY <1>5 DEF MailFails
  <2>2. UNCHANGED <<day, gone>>
    BY <1>5 DEF MailFails
  <2> QED BY <1>2, <2>1, <2>2, ReachedSame
<1>6. CASE \E r \in Requests : Delete(r)
  <2>1. PICK r \in Requests : Delete(r)
    BY <1>6
  <2>2. Live' = Live \ {r} /\ \A q \in Live \ {r} : rows'[q] = rows[q]
    BY <2>1 DEF Delete, Live
  <2>3. UNCHANGED <<day, todo>> /\ Live \cap gone = {} /\ day <= day'
    BY <2>1 DEF Delete, TypeOK, Days
  <2> QED BY <2>2, <2>3, AgedKept
<1>7. ASSUME NEW h \in Handlers, NEW c \in Customers, Send(h, c)
      PROVE  TodoAged'
  <2>1. PICK r \in Requests \ (Live \cup gone) : \E row : rows' = With(r, row)
    BY <1>7 DEF Send
  <2>2. Live' = Live \cup {r} /\ \A q \in Live : rows'[q] = rows[q]
    BY <2>1 DEF With, Live
  <2>3. UNCHANGED <<day, todo>> /\ Live \cap gone = {} /\ day <= day'
    BY <1>7 DEF Send, TypeOK, Days
  <2> QED BY <2>1, <2>2, <2>3, AgedKept
<1>8. CASE \E h \in Handlers, c \in Customers : Send(h, c) \/ BulkLine(h, c)
  BY <1>7, <1>8 DEF BulkLine
<1>9. CASE \E h \in Handlers, r \in Requests : Resend(h, r)
  <2>1. PICK h \in Handlers, r \in Requests : Resend(h, r)
    BY <1>9
  <2>2. \A q \in Live : rows'[q].created = rows[q].created
    BY <2>1, ResendAlters DEF KeepsFile
  <2>3. Live' = Live /\ UNCHANGED <<day, todo>> /\ Live \cap gone = {} /\ day <= day'
    BY <2>1 DEF Resend, Live, TypeOK, Days
  <2> QED BY <2>2, <2>3, AgedKept
<1>10. CASE \E r \in Requests : Click(r)
  <2>1. PICK r \in Requests : Click(r)
    BY <1>10
  <2>2. \A q \in Live : rows'[q].created = rows[q].created
    BY <2>1, ClickAlters DEF KeepsFile
  <2>3. Live' = Live /\ UNCHANGED <<day, todo>> /\ Live \cap gone = {} /\ day <= day'
    BY <2>1 DEF Click, Live, TypeOK, Days
  <2> QED BY <2>2, <2>3, AgedKept
<1>11. CASE Crash
  <2>1. PICK left \in SUBSET {s \in Senders : call[s] # NoMail} : rows' = Reached(left)
    BY <1>11 DEF Crash
  <2>2. KeepsFile
    BY <2>1, ReachedSame, SameKeepsFile
  <2>3. Live \cap gone = {} /\ day <= day' /\ \A w \in Runs : todo'[w] = {}
    BY <1>11 DEF Crash, TypeOK, Days
  <2> QED BY <2>2, <2>3, AgedKept DEF KeepsFile
<1>12. CASE Toggle \/ Pass \/ UNCHANGED vars
  <2>1. UNCHANGED <<rows, todo>> /\ Live' = Live
    BY <1>12 DEF Toggle, Pass, vars, Live
  <2>2. Live \cap gone = {} /\ day <= day'
    BY <1>12 DEF Toggle, Pass, vars, TypeOK, Days
  <2> QED BY <2>1, <2>2, AgedKept
<1> QED BY <1>3, <1>4, <1>5, <1>6, <1>8, <1>9, <1>10, <1>11, <1>12 DEF Next

LEMMA AgedHolds == Spec => []TodoAged
<1>1. Init => TodoAged
  BY DEF Init, TodoAged
<1> QED BY <1>1, AgedStep, InvariantHolds, PTL DEF Spec

\* Every behaviour of the handlers and of the job keeps the promise: customers
\* are asked no sooner than the cooldown allows, reminded no sooner than the
\* owner set, once, and not after they clicked.
THEOREM ImplementsPromise == Spec => PromiseKept
<1>1. Init => Promise!Init
  BY DEF Init, Live, Promise!Init
<1> QED BY <1>1, StepRefines, InvariantHolds, AgedHolds, PTL
        DEF Spec, PromiseKept, Promise!Spec

-----------------------------------------------------------------------------
(* Runs that do not overlap.                                               *)

\* No two runs of the job await a mail at the same time.
Apart == \A v, w \in Runs : call[v] # NoMail /\ call[w] # NoMail => v = w

ApartSpec == Init /\ [][Next /\ Apart']_vars

\* Apart, a tick reads no row that another run still has to do.
LEMMA BeginAlone ==
    ASSUME IInv, NEW w \in Runs, Begin(w), Apart'
    PROVE  shared' = shared
<1> DEFINE pending == {r \in Live : Due(r)}
<1>1. FollowUp(w, rows, pending) /\ call[w] = NoMail /\ shared' = shared \cup (pending \ Unread)
  BY DEF Begin
<1>2. TypeOK
  BY DEF IInv
<1>3. pending \subseteq Requests
  BY <1>2 DEF TypeOK
<1> HIDE DEF pending
<1>4. PICK r \in pending :
            call' = [call EXCEPT ![w] = [request |-> r,
                                         link |-> IF r \in Live THEN rows[r].link + 1 ELSE 0]]
  BY <1>1 DEF FollowUp, Live
<1>5. call'[w].request = r /\ r # Null
  BY <1>2, <1>3, <1>4, RequestAssumption DEF TypeOK, Senders
<1>6. call'[w] # NoMail
  BY <1>5 DEF NoMail
<1>7. \A v \in Runs \ {w} : call[v] = NoMail
  BY <1>2, <1>4, <1>6 DEF Apart, TypeOK, Senders
<1>8. \A v \in Runs : todo[v] = {}
  BY <1>1, <1>2, <1>7 DEF TypeOK
<1>9. pending \subseteq Unread
  BY <1>3, <1>8 DEF Unread
<1> QED BY <1>1, <1>9

\* An overlap of two runs is all that can remind a customer twice: as long as a
\* run ends before the next one starts, the mark set before each mail is enough,
\* across resends, deletions, mail failures and crashes.
THEOREM OnceWhenApart == ApartSpec => [](\A r \in Requests : followUps[r] <= 1)
<1>1. Init => IInv /\ shared = {}
  BY InitInv DEF Init
<1>2. ASSUME IInv, [Next /\ Apart']_vars
      PROVE  shared' = shared
  <2>1. \/ shared' = shared
        \/ \E w \in Runs : Begin(w) /\ Apart'
    BY <1>2 DEF Next, vars, Send, BulkLine, Resend, Delete, Click, MailArrives, MailFails,
       Toggle, Crash, Pass
  <2> QED BY <1>2, <2>1, BeginAlone
<1>3. IInv /\ shared = {} /\ [Next /\ Apart']_vars => IInv' /\ (shared = {})'
  BY <1>2, NextKeeps
<1>4. IInv /\ shared = {} => \A r \in Requests : followUps[r] <= 1
  BY DEF IInv, HeldByOne
<1> QED BY <1>1, <1>3, <1>4, PTL DEF ApartSpec
=============================================================================
