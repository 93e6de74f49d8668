---------------------------- MODULE Accounts_proofs ----------------------------
(***************************************************************************)
(* Theorems about Accounts, for any number of accounts and requests.  What *)
(* a link proves rests on where it was mailed: the change link of a row    *)
(* only to its pending address, the verification link of an unverified     *)
(* row only to its address.  That links work once rests on every number    *)
(* being in one place.                                                     *)
(***************************************************************************)
EXTENDS Accounts, TLAPS

\* TypeOK in parts.
NamesOK ==
    /\ born \subseteq Users /\ Live \subseteq born
    /\ email \in [Users -> Addresses \cup {None}]
    /\ pending \in [Users -> Addresses \cup {None}]
    /\ google \in [Users -> Googles \cup {None}]
    /\ verified \subseteq Live /\ owned \subseteq Users \X Addresses
    /\ \A u \in Users \ Live : pending[u] = None /\ google[u] = None
    /\ \A u, v \in Live : u # v => email[u] # email[v] /\ (google[u] # google[v] \/ google[u] = None)

PasswordsOK ==
    /\ password \in [Users -> Passwords \cup {None}]
    /\ latest \in [Users -> Passwords \cup {None}]
    /\ oldHash \subseteq Live /\ raced \subseteq Users
    /\ \A u \in Users \ Live : password[u] = None

CodesOK ==
    /\ minted \in Nat
    /\ link \in [Users -> [Kinds -> 0..minted]]
    /\ \A u \in Users \ Live : link[u] = NoLinks
    /\ recovery \in [Users -> SUBSET (1..minted)]
    /\ mfa \subseteq Live
    /\ \A u \in Users \ mfa : recovery[u] = {}
    /\ inbox \subseteq (1..minted) \X Addresses

UsesOK == used \subseteq 1..minted /\ twice \subseteq used /\ shared \subseteq Nat

JobsOK == job \in [Procs -> Jobs] /\ requests \in Nat

\* What a handler needs over its await, it holds.
JobFits ==
    \A p \in Procs :
        /\ job[p].op \in {"register", "email", "enable"} => job[p].addr \in Addresses
        /\ "code" \in job[p].todo => job[p].addr \in Addresses
        /\ job[p].no \in 0..minted
        /\ job[p].op = "reset" => job[p].no # 0

\* Mails are at the address that is, or would be, proved by a click.
VerifyAt ==
    \A u \in Live \ verified, m \in inbox : m[1] = link[u]["verify"] => m[2] = email[u]

ChangeAt ==
    \A u \in Live, m \in inbox : m[1] = link[u]["change"] => m[2] = pending[u]

MailInv == VerifyAt /\ ChangeAt /\ VerifiedMeansOwned

\* A number is on one row, for one purpose, and has not been used.
OnePlace ==
    /\ \A u, v \in Users, k, l \in Kinds :
        link[u][k] = link[v][l] /\ link[u][k] # 0 => u = v /\ k = l
    /\ \A u, v \in Users, k \in Kinds : link[u][k] \notin recovery[v]
    /\ \A u, v \in Users : u # v => recovery[u] \cap recovery[v] = {}

Unused ==
    /\ \A u \in Users, k \in Kinds : link[u][k] \notin used
    /\ \A u \in Users : recovery[u] \cap used = {}

\* Only a reset link is held over an await.
HeldIsReset ==
    \A p \in Procs : job[p].no # 0 =>
        /\ \A v \in Users : job[p].no \notin recovery[v]
        /\ \A v \in Users, k \in Kinds :
            link[v][k] = job[p].no => v = job[p].user /\ k = "reset"
        /\ job[p].no \in used => job[p].no \in shared

HeldTwiceIsShared ==
    \A p, q \in Procs :
        p # q /\ job[p].no = job[q].no /\ job[p].no # 0 => job[p].no \in shared

CodeInv == OnePlace /\ Unused /\ HeldIsReset /\ HeldTwiceIsShared /\ LinkWorksOnce

\* A login that renews a hash has the password that was set last.
RehashInHand ==
    \A p \in Procs : "rehash" \in job[p].todo =>
        /\ job[p].op = "login" /\ job[p].user \in born
        /\ job[p].user \in Live \ raced => job[p].pw = password[job[p].user]

\* A deleted account has no password.
NoneIsLatest == \A u \in Users \ Live : latest[u] = None

PasswordInv == RehashInHand /\ PasswordIsTheLatest /\ NoneIsLatest

IInv == TypeOK /\ JobFits /\ MailInv /\ CodeInv /\ PasswordInv

LEMMA Parts == TypeOK <=> NamesOK /\ PasswordsOK /\ CodesOK /\ UsesOK /\ JobsOK
<1>1. NamesOK /\ PasswordsOK /\ CodesOK /\ UsesOK /\ JobsOK => TypeOK
  BY DEF TypeOK, NamesOK, PasswordsOK, CodesOK, UsesOK, JobsOK
<1>2. TypeOK => NamesOK
  BY DEF TypeOK, NamesOK
<1>3. TypeOK => PasswordsOK
  BY DEF TypeOK, PasswordsOK
<1>4. TypeOK => CodesOK
  BY DEF TypeOK, CodesOK
<1>5. TypeOK => UsesOK /\ JobsOK
  BY DEF TypeOK, UsesOK, JobsOK
<1> QED BY <1>1, <1>2, <1>3, <1>4, <1>5

-----------------------------------------------------------------------------
(* What the helpers do.                                                    *)

\* UPDATE ... WHERE id = ? writes the row if there is one.
LEMMA UpdatedFact ==
    ASSUME NEW S, NEW f \in [Users -> S], NEW u, NEW v, u \in Live => v \in S
    PROVE  /\ Updated(f, u, v) \in [Users -> S]
           /\ \A x \in Users : Updated(f, u, v)[x] = IF u \in Live /\ x = u THEN v ELSE f[x]
BY DEF Updated

\* One link of one row changes.
LinkBecomes(u, k, n) ==
    /\ link' \in [Users -> [Kinds -> 0..minted']]
    /\ \A v \in Users, l \in Kinds :
        link'[v][l] = IF v = u /\ l = k THEN n ELSE link[v][l]

LinksKept ==
    /\ link' \in [Users -> [Kinds -> 0..minted']]
    /\ \A v \in Users, l \in Kinds : link'[v][l] = link[v][l]

LEMMA Stored ==
    ASSUME CodesOK, NEW u, NEW k \in Kinds, NEW n \in 0..minted', minted' \in {minted, New},
           link' = Updated(link, u, [link[u] EXCEPT ![k] = n])
    PROVE  IF u \in Live THEN LinkBecomes(u, k, n) ELSE LinksKept
<1>1. minted \in Nat /\ link \in [Users -> [Kinds -> 0..minted']]
  BY DEF CodesOK, New
<1>2. u \in Live => u \in Users
  BY DEF Live
<1>3. CASE u \in Live
  BY <1>1, <1>2, <1>3 DEF Updated, LinkBecomes
<1>4. CASE u \notin Live
  BY <1>1, <1>4 DEF Updated, LinksKept
<1> QED BY <1>3, <1>4

LEMMA Minted ==
    ASSUME CodesOK, NEW u, NEW k \in Kinds, NEW to \in SUBSET Addresses, Mint(k, u, to)
    PROVE  /\ minted' = minted + 1 /\ minted' \in Nat
           /\ IF u \in Live THEN LinkBecomes(u, k, minted + 1) ELSE LinksKept
           /\ inbox' = inbox \cup ({minted + 1} \X to)
<1>1. minted' = minted + 1 /\ minted \in Nat
  BY DEF Mint, New, CodesOK
<1> QED BY <1>1, Stored DEF Mint, New

LEMMA ClearedFact ==
    ASSUME CodesOK, NEW u \in Users, NEW k \in Kinds, minted' \in {minted, New},
           link' = Cleared(u, k)
    PROVE  LinkBecomes(u, k, 0) /\ (u \notin Live => LinksKept)
<1>1. 0 \in 0..minted'
  BY DEF CodesOK, New
<1>2. IF u \in Live THEN LinkBecomes(u, k, 0) ELSE LinksKept
  BY <1>1, Stored DEF Cleared
<1>3. CASE u \notin Live
  <2>1. link[u] = NoLinks
    BY <1>3 DEF CodesOK
  <2>2. link[u][k] = 0
    BY <2>1 DEF NoLinks
  <2> QED BY <1>2, <1>3, <2>2 DEF LinkBecomes, LinksKept
<1> QED BY <1>2, <1>3

LEMMA InitInv == Init => IInv
<1> SUFFICES ASSUME Init
             PROVE  IInv
  OBVIOUS
<1> USE AccountAssumption
<1>1. PICK u \in Users, a \in Addresses, w \in Passwords :
        /\ born = {u}
        /\ email = [v \in Users |-> IF v = u THEN a ELSE None]
        /\ password = [v \in Users |-> IF v = u THEN w ELSE None]
        /\ verified \in SUBSET {u} /\ oldHash \in SUBSET {u} /\ mfa \in SUBSET {u}
  BY DEF Init
<1>2. /\ link = [v \in Users |-> NoLinks] /\ minted = 1 /\ requests = 0
      /\ pending = [v \in Users |-> None] /\ google = [v \in Users |-> None]
      /\ recovery = [v \in Users |-> IF v \in mfa THEN {1} ELSE {}]
      /\ job = [p \in Procs |-> Idle]
      /\ inbox = {} /\ used = {} /\ twice = {} /\ shared = {} /\ raced = {}
      /\ owned = {<<v, email[v]>> : v \in verified} /\ latest = password
  BY DEF Init
<1>3. Live = {u} /\ email[u] = a
  BY <1>1 DEF Live
<1>4. NamesOK
  <2>1. /\ email \in [Users -> Addresses \cup {None}]
        /\ pending \in [Users -> Addresses \cup {None}]
        /\ google \in [Users -> Googles \cup {None}]
    BY <1>1, <1>2
  <2>2. owned \subseteq Users \X Addresses
    <3>1. \A v \in verified : v \in Users /\ email[v] \in Addresses
      BY <1>1, <1>3
    <3>2. \A v \in verified : <<v, email[v]>> \in Users \X Addresses
      BY <3>1
    <3>3. owned = {<<v, email[v]>> : v \in verified}
      BY <1>2
    <3> QED BY <3>2, <3>3
  <2> QED BY <1>1, <1>2, <1>3, <2>1, <2>2 DEF NamesOK
<1>5. PasswordsOK
  BY <1>1, <1>2, <1>3 DEF PasswordsOK
<1>6. \A k \in Kinds : NoLinks[k] = 0
  BY DEF NoLinks
<1>7. NoLinks \in [Kinds -> 0..minted]
  BY <1>2 DEF NoLinks
<1>8. CodesOK
  <2>1. link \in [Users -> [Kinds -> 0..minted]] /\ recovery \in [Users -> SUBSET (1..minted)]
    BY <1>2, <1>7
  <2>2. \A v \in Users \ mfa : recovery[v] = {}
    BY <1>2
  <2> QED BY <1>1, <1>2, <1>3, <2>1, <2>2 DEF CodesOK
<1>9. Idle \in Jobs /\ Idle.todo = {} /\ Idle.op = "none" /\ Idle.no = 0
  BY DEF Idle, Job, Jobs
<1>10. UsesOK /\ JobsOK
  BY <1>2, <1>9 DEF UsesOK, JobsOK
<1>11. JobFits
  BY <1>2, <1>9 DEF JobFits
<1>12. MailInv
  BY <1>2 DEF MailInv, VerifyAt, ChangeAt, VerifiedMeansOwned
<1>13. CodeInv
  <2>1. \A v \in Users, k \in Kinds : link[v][k] = 0
    BY <1>2, <1>6
  <2>2. \A v \in Users : 0 \notin recovery[v] /\ (v # u => recovery[v] = {})
    <3>1. \A v \in Users : recovery[v] = IF v \in mfa THEN {1} ELSE {}
      BY <1>2
    <3>2. \A v \in mfa : v = u
      BY <1>1
    <3>3. ASSUME NEW v \in Users
          PROVE  0 \notin recovery[v] /\ (v # u => recovery[v] = {})
      <4>1. CASE v \in mfa
        BY <3>1, <3>2, <4>1
      <4>2. CASE v \notin mfa
        BY <3>1, <4>2
      <4> QED BY <4>1, <4>2
    <3> QED BY <3>3
  <2>3. OnePlace
    BY <2>1, <2>2 DEF OnePlace
  <2> QED BY <1>2, <1>9, <2>3 DEF CodeInv, Unused, HeldIsReset, HeldTwiceIsShared, LinkWorksOnce
<1>14. PasswordInv
  <2>1. NoneIsLatest
    BY <1>1, <1>2, <1>3 DEF NoneIsLatest
  <2> QED BY <1>2, <1>9, <2>1 DEF PasswordInv, RehashInHand, PasswordIsTheLatest
<1> QED BY <1>4, <1>5, <1>8, <1>10, <1>11, <1>12, <1>13, <1>14, Parts DEF IInv

-----------------------------------------------------------------------------
(* Rows and addresses.                                                     *)

\* Few actions touch what an account is called by.
LEMMA NamesNext ==
    ASSUME Next
    PROVE  \/ UNCHANGED <<nameVars, owned>>
           \/ \E p \in Procs : FinishRegister(p) \/ FinishEmail(p) \/ FinishDelete(p)
           \/ \E u \in Users : CancelEmail(u) \/ ConfirmEmail(u) \/ VerifyEmail(u)
           \/ \E u \in Users, g \in Googles : GoogleSignIn(g, u)
<1>1. ASSUME NEW p \in Procs, NEW u \in Users, NEW w \in Passwords,
             \/ BeginLogin(p, u, w) \/ BeginReset(p, u, w) \/ BeginEnable(p, u, w)
             \/ BeginDisable(p, u, w) \/ BeginDelete(p, u, w)
             \/ \E next \in Passwords : BeginChange(p, u, w, next)
             \/ \E a \in Addresses : BeginEmail(p, u, w, a)
      PROVE  UNCHANGED <<nameVars, owned>>
  BY <1>1 DEF BeginLogin, BeginReset, BeginEnable, BeginDisable, BeginDelete, BeginChange,
              BeginEmail
<1>2. ASSUME NEW p \in Procs, NEW a \in Addresses, NEW w \in Passwords, BeginRegister(p, a, w)
       PROVE  UNCHANGED <<nameVars, owned>>
  BY <1>2 DEF BeginRegister
<1>3. ASSUME NEW p \in Procs,
              \/ FinishLogin(p) \/ FinishChange(p) \/ FinishReset(p) \/ FinishEnable(p)
              \/ FinishDisable(p)
       PROVE  UNCHANGED <<nameVars, owned>>
  BY <1>3 DEF FinishLogin, FinishChange, FinishReset, FinishEnable, FinishDisable
<1>4. ASSUME NEW u \in Users,
              \/ Forgot(u) \/ ResendConfirm(u) \/ ResendVerification(u) \/ MagicRequest(u)
              \/ MagicConsume(u) \/ ConfirmEnable(u) \/ ResendCode(u) \/ LoginMfa(u)
              \/ LoginRecovery(u) \/ \E k \in Kinds : Expire(u, k)
       PROVE  UNCHANGED <<nameVars, owned>>
  BY <1>4 DEF Forgot, ResendConfirm, ResendVerification, MagicRequest, MagicConsume,
               ConfirmEnable, ResendCode, LoginMfa, LoginRecovery, Expire
<1>5. CASE Refused
  BY <1>5 DEF Refused, vars, nameVars
<1> QED BY <1>1, <1>2, <1>3, <1>4, <1>5 DEF Next

LEMMA NamesStep ==
    ASSUME TypeOK, JobFits, Next
    PROVE  NamesOK'
<1> USE AccountAssumption DEF nameVars
<1>0. NamesOK /\ JobsOK
  BY Parts
<1>1. CASE UNCHANGED <<nameVars, owned>>
  BY <1>0, <1>1 DEF NamesOK, Live
<1>2. ASSUME NEW p \in Procs, FinishRegister(p)
      PROVE  NamesOK'
  <2>1. CASE UNCHANGED nameVars
    BY <1>1, <1>2, <2>1 DEF FinishRegister
  <2>2. CASE ~Registered(job[p].addr)
    <3> DEFINE a == job[p].addr
    <3>1. a \in Addresses /\ a # None
      BY <1>2 DEF FinishRegister, JobFits
    <3>2. CASE born # Users
      <4>1. PICK u \in Users \ born : born' = born \cup {u} /\ email' = [email EXCEPT ![u] = a]
                 /\ UNCHANGED <<verified, pending, google>>
        BY <1>2, <2>2, <3>2 DEF FinishRegister
      <4>2. Live' = Live \cup {u} /\ u \notin Live
        BY <1>0, <3>1, <4>1 DEF Live, NamesOK
      <4>3. pending[u] = None /\ google[u] = None
        BY <1>0, <4>2 DEF NamesOK
      <4>4. \A v \in Live : email[v] # a /\ email'[v] = email[v]
        BY <1>0, <2>2, <4>1, <4>2 DEF Registered, NamesOK, Live
      <4>5. email' \in [Users -> Addresses \cup {None}] /\ email'[u] = a
        BY <1>0, <3>1, <4>1 DEF NamesOK
      <4>6. owned' = owned
        BY <1>2 DEF FinishRegister
      <4> QED BY <1>0, <4>1, <4>2, <4>3, <4>4, <4>5, <4>6 DEF NamesOK
    <3> QED BY <1>2, <2>1, <3>2 DEF FinishRegister
  <2> QED BY <1>2, <2>1, <2>2 DEF FinishRegister
<1>3. ASSUME NEW p \in Procs, FinishEmail(p)
      PROVE  NamesOK'
  <2>1. job[p].addr \in Addresses
    BY <1>3 DEF FinishEmail, JobFits
  <2>2. /\ pending' \in [Users -> Addresses \cup {None}]
        /\ \A x \in Users : pending'[x] = IF job[p].user \in Live /\ x = job[p].user
                                          THEN job[p].addr ELSE pending[x]
    BY <1>0, <1>3, <2>1 DEF FinishEmail, NamesOK, Updated
  <2> QED BY <1>0, <1>3, <2>2 DEF FinishEmail, NamesOK, Live
<1>4. ASSUME NEW u \in Users, CancelEmail(u)
      PROVE  NamesOK'
  BY <1>0, <1>4 DEF CancelEmail, NamesOK, Live
<1>5. ASSUME NEW u \in Users, ConfirmEmail(u)
      PROVE  NamesOK'
  <2> DEFINE a == pending[u]
  <2>1. u \in Live /\ a \in Addresses /\ pending' = [pending EXCEPT ![u] = None]
    BY <1>0, <1>5 DEF ConfirmEmail, Holds, NamesOK
  <2>2. CASE TakenByOther(u, a)
    BY <1>0, <1>5, <2>1, <2>2 DEF ConfirmEmail, NamesOK, Live
  <2>3. CASE ~TakenByOther(u, a)
    <3>1. /\ email' = [email EXCEPT ![u] = a] /\ verified' = verified \cup {u}
          /\ UNCHANGED <<born, google>>
      BY <1>5, <2>3 DEF ConfirmEmail
    <3>2. Live' = Live
      BY <1>0, <2>1, <3>1 DEF Live, NamesOK
    <3>3. \A v \in Live \ {u} : email[v] # a
      BY <2>3 DEF TakenByOther
    <3>4. Owns(u, link[u]["change"])
      BY <1>5, <2>3 DEF ConfirmEmail
    <3>5. owned' \subseteq Users \X Addresses
      BY <1>0, <3>4 DEF Owns, NamesOK, TypeOK
    <3>6. email' \in [Users -> Addresses \cup {None}] /\ pending' \in [Users -> Addresses \cup {None}]
      BY <1>0, <2>1, <3>1 DEF NamesOK
    <3>7. \A v, w \in Live : v # w => email'[v] # email'[w]
      BY <1>0, <2>1, <3>1, <3>3 DEF NamesOK, Live
    <3> QED BY <1>0, <2>1, <3>1, <3>2, <3>5, <3>6, <3>7 DEF NamesOK
  <2> QED BY <2>2, <2>3
<1>6. ASSUME NEW u \in Users, VerifyEmail(u)
      PROVE  NamesOK'
  <2>1. Owns(u, link[u]["verify"]) /\ u \in Live /\ verified' = verified \cup {u}
    BY <1>6 DEF VerifyEmail, Holds
  <2>2. owned' \subseteq Users \X Addresses
    BY <1>0, <2>1 DEF Owns, NamesOK, TypeOK
  <2> QED BY <1>0, <1>6, <2>1, <2>2 DEF VerifyEmail, NamesOK, Live
<1>7. ASSUME NEW u \in Users, NEW g \in Googles, GoogleSignIn(g, u)
      PROVE  NamesOK'
  BY <1>0, <1>7 DEF GoogleSignIn, NamesOK, Live
<1>8. ASSUME NEW p \in Procs, FinishDelete(p)
      PROVE  NamesOK'
  <2>1. Live' = Live \ {job[p].user}
    BY <1>0, <1>8 DEF FinishDelete, Live, NamesOK
  <2> DEFINE u == job[p].user
  <2>6. /\ email' = [email EXCEPT ![u] = None]
        /\ pending' = [pending EXCEPT ![u] = None]
        /\ google' = [google EXCEPT ![u] = None]
    BY <1>8 DEF FinishDelete
  <2> HIDE DEF u
  <2>2. \A x \in Users : /\ email'[x] = (IF x = u THEN None ELSE email[x])
                        /\ pending'[x] = (IF x = u THEN None ELSE pending[x])
                        /\ google'[x] = (IF x = u THEN None ELSE google[x])
    BY <1>0, <2>6 DEF NamesOK
  <2>3. /\ email' \in [Users -> Addresses \cup {None}]
        /\ pending' \in [Users -> Addresses \cup {None}]
        /\ google' \in [Users -> Googles \cup {None}]
    BY <1>0, <1>8 DEF FinishDelete, NamesOK
  <2>4. /\ born' = born /\ owned' = owned /\ verified' = verified \ {job[p].user}
    BY <1>8 DEF FinishDelete
  <2>5. Live \subseteq Users
    BY DEF Live
  <2>7. \A x \in Live' : x \in Live /\ email'[x] = email[x] /\ google'[x] = google[x]
    BY <2>1, <2>2, <2>5 DEF u
  <2>8. \A x \in Users \ Live' : pending'[x] = None /\ google'[x] = None
    BY <1>0, <2>1, <2>2 DEF NamesOK, u
  <2> QED BY <1>0, <2>1, <2>3, <2>4, <2>7, <2>8 DEF NamesOK
<1> HIDE DEF nameVars
<1> QED BY <1>1, <1>2, <1>3, <1>4, <1>5, <1>6, <1>7, <1>8, NamesNext

-----------------------------------------------------------------------------
(* Jobs and passwords.                                                     *)

\* A handler that begins reads nothing it should not hold.
Takes(p, held) ==
    /\ held \in Jobs
    /\ job' = [job EXCEPT ![p] = held]
    /\ held.op \in {"register", "email", "enable"} => held.addr \in Addresses
    /\ "code" \in held.todo => held.addr \in Addresses
    /\ held.no \in 0..minted
    /\ held.op = "reset" => held.no # 0
    /\ "rehash" \in held.todo =>
        /\ held.op = "login" /\ held.user \in Live /\ held.pw = password[held.user]
    /\ requests' \in Nat

LEMMA IdleHolds ==
    Idle \in Jobs /\ Idle.todo = {} /\ Idle.op = "none" /\ Idle.no = 0
BY DEF Idle, Job, Jobs

LEMMA Begun ==
    ASSUME TypeOK, NEW p \in Procs, NEW op \in {"register", "login", "change", "reset", "email", "enable", "disable", "delete"},
           NEW u \in Users \cup {None}, NEW pw \in Passwords \cup {None},
           NEW a \in Addresses \cup {None}, NEW n \in 0..minted, NEW todo \in SUBSET {"rehash", "code"},
           Awaits(p, Job(op, u, pw, a, n, todo)), Ask,
           op \in {"register", "email", "enable"} \/ todo # {} => a \in Addresses,
           op = "reset" => n # 0,
           "rehash" \in todo => op = "login" /\ u \in Live /\ pw = password[u]
    PROVE  Takes(p, Job(op, u, pw, a, n, todo))
BY DEF Takes, Awaits, Job, Jobs, Ask, TypeOK

LEMMA TakenFits ==
    ASSUME TypeOK, JobFits, NEW p \in Procs, NEW held, Takes(p, held),
           minted' \in {minted, minted + 1}
    PROVE  JobsOK' /\ JobFits'
<1>1. /\ JobsOK /\ minted \in Nat
      /\ \A q \in Procs : job'[q] = IF q = p THEN held ELSE job[q]
  BY Parts DEF Takes, JobsOK, TypeOK
<1>2. 0..minted \subseteq 0..minted'
  BY <1>1
<1>3. JobsOK'
  BY <1>1 DEF Takes, JobsOK
<1>4. JobFits'
  BY <1>1, <1>2 DEF Takes, JobFits
<1> QED BY <1>3, <1>4

LEMMA LeftFits ==
    ASSUME TypeOK, JobFits, NEW p \in Procs, Leaves(p), requests' = requests,
           minted' \in {minted, minted + 1}
    PROVE  JobsOK' /\ JobFits'
<1>1. Takes(p, Idle)
  BY IdleHolds DEF Takes, Leaves, TypeOK
<1> QED BY <1>1, TakenFits

\* The steps that begin a handler, of whichever kind.
LEMMA BeginTakes ==
    ASSUME TypeOK, NEW p \in Procs, NEW u \in Users, NEW w \in Passwords,
           \/ BeginLogin(p, u, w) \/ BeginReset(p, u, w) \/ BeginEnable(p, u, w)
           \/ BeginDisable(p, u, w) \/ BeginDelete(p, u, w)
           \/ \E next \in Passwords : BeginChange(p, u, w, next)
           \/ \E a \in Addresses : BeginEmail(p, u, w, a)
    PROVE  /\ job[p] = Idle
           /\ \E held : Takes(p, held) /\ (held.no # 0 => BeginReset(p, u, w) /\ held.no = link[u]["reset"] /\ held.user = u)
           /\ UNCHANGED <<codeVars, nameVars, passVars, useVars, mfa, owned>>
<1>0. /\ minted \in Nat /\ 0 \in 0..minted /\ \A k \in Kinds : link[u][k] \in 0..minted
      /\ u \in Live => email[u] \in Addresses
  BY DEF TypeOK, Live
<1>1. CASE BeginLogin(p, u, w)
  <2> DEFINE todo == {t \in {"rehash", "code"} : IF t = "rehash" THEN u \in oldHash ELSE u \in mfa}
  <2>1. Takes(p, Job("login", u, w, email[u], 0, todo))
    BY <1>0, <1>1, Begun DEF BeginLogin, Matches
  <2> QED BY <1>1, <2>1 DEF BeginLogin, Awaits, Job
<1>2. CASE BeginReset(p, u, w)
  <2>1. Takes(p, Job("reset", u, w, None, link[u]["reset"], {}))
    BY <1>0, <1>2, Begun DEF BeginReset, Kinds, Holds
  <2> QED BY <1>2, <2>1 DEF BeginReset, Awaits, Job
<1>3. CASE BeginEnable(p, u, w)
  <2>1. Takes(p, Job("enable", u, None, email[u], 0, {}))
    BY <1>0, <1>3, Begun DEF BeginEnable
  <2> QED BY <1>3, <2>1 DEF BeginEnable, Awaits, Job
<1>4. CASE BeginDisable(p, u, w)
  <2>1. Takes(p, Job("disable", u, None, None, 0, {}))
    BY <1>0, <1>4, Begun DEF BeginDisable
  <2> QED BY <1>4, <2>1 DEF BeginDisable, Awaits, Job
<1>5. CASE BeginDelete(p, u, w)
  <2>1. Takes(p, Job("delete", u, None, None, 0, {}))
    BY <1>0, <1>5, Begun DEF BeginDelete
  <2> QED BY <1>5, <2>1 DEF BeginDelete, Awaits, Job
<1>6. ASSUME NEW next \in Passwords, BeginChange(p, u, w, next)
      PROVE  /\ job[p] = Idle /\ UNCHANGED <<codeVars, nameVars, passVars, useVars, mfa, owned>>
             /\ \E held : Takes(p, held) /\ held.no = 0
  <2>1. Takes(p, Job("change", u, next, None, 0, {}))
    BY <1>0, <1>6, Begun DEF BeginChange
  <2> QED BY <1>6, <2>1 DEF BeginChange, Awaits, Job
<1>7. ASSUME NEW a \in Addresses, BeginEmail(p, u, w, a)
      PROVE  /\ job[p] = Idle /\ UNCHANGED <<codeVars, nameVars, passVars, useVars, mfa, owned>>
             /\ \E held : Takes(p, held) /\ held.no = 0
  <2>1. Takes(p, Job("email", u, None, a, 0, {}))
    BY <1>0, <1>7, Begun DEF BeginEmail
  <2> QED BY <1>7, <2>1 DEF BeginEmail, Awaits, Job
<1> QED BY <1>1, <1>2, <1>3, <1>4, <1>5, <1>6, <1>7

LEMMA RegisterTakes ==
    ASSUME TypeOK, NEW p \in Procs, NEW a \in Addresses, NEW w \in Passwords, BeginRegister(p, a, w)
    PROVE  /\ job[p] = Idle /\ shared' = shared
           /\ \E held : Takes(p, held) /\ held.no = 0
           /\ UNCHANGED <<codeVars, nameVars, passVars, useVars, mfa, owned>>
<1>1. 0 \in 0..minted
  BY DEF TypeOK
<1>2. Takes(p, Job("register", None, w, a, 0, {}))
  BY <1>1, Begun DEF BeginRegister
<1> QED BY <1>2 DEF BeginRegister, Awaits, Job

\* A handler that comes back has nothing more in hand.
LEMMA FinishLeaves ==
    ASSUME TypeOK, NEW p \in Procs,
           \/ FinishRegister(p) \/ FinishLogin(p) \/ FinishChange(p) \/ FinishReset(p)
           \/ FinishEmail(p) \/ FinishEnable(p) \/ FinishDisable(p) \/ FinishDelete(p)
    PROVE  Leaves(p) /\ requests' = requests /\ minted' \in {minted, minted + 1}
<1>1. CASE FinishRegister(p)
  BY <1>1 DEF FinishRegister, codeVars, New
<1>2. CASE FinishLogin(p)
  BY <1>2 DEF FinishLogin, codeVars, Mint, New
<1>3. CASE FinishChange(p) \/ FinishReset(p)
  BY <1>3 DEF FinishChange, FinishReset, codeVars
<1>4. CASE FinishEmail(p) \/ FinishEnable(p)
  BY <1>4 DEF FinishEmail, FinishEnable, Mint, New
<1>5. CASE FinishDisable(p) \/ FinishDelete(p)
  BY <1>5 DEF FinishDisable, FinishDelete
<1> QED BY <1>1, <1>2, <1>3, <1>4, <1>5

\* The other requests are one step.
LEMMA OneStep ==
    ASSUME TypeOK, NEW u \in Users,
           \/ Forgot(u) \/ ResendConfirm(u) \/ CancelEmail(u) \/ ConfirmEmail(u)
           \/ ResendVerification(u) \/ VerifyEmail(u) \/ MagicRequest(u) \/ MagicConsume(u)
           \/ \E g \in Googles : GoogleSignIn(g, u)
           \/ ConfirmEnable(u) \/ ResendCode(u) \/ LoginMfa(u) \/ LoginRecovery(u)
           \/ \E k \in Kinds : Expire(u, k)
    PROVE  /\ job' = job /\ requests' \in Nat /\ minted' \in {minted, minted + 1}
           /\ UNCHANGED <<passVars, shared>>
<1>0. requests \in Nat
  BY DEF TypeOK
<1>1. CASE Forgot(u) \/ ResendConfirm(u) \/ ResendVerification(u) \/ MagicRequest(u) \/ ResendCode(u)
  BY <1>0, <1>1 DEF Forgot, ResendConfirm, ResendVerification, MagicRequest, ResendCode, Mint, New, Ask
<1>2. CASE CancelEmail(u) \/ ConfirmEmail(u) \/ VerifyEmail(u) \/ MagicConsume(u)
  BY <1>0, <1>2 DEF CancelEmail, ConfirmEmail, VerifyEmail, MagicConsume, Ask, codeVars
<1>3. CASE \E g \in Googles : GoogleSignIn(g, u)
  BY <1>0, <1>3 DEF GoogleSignIn, Ask, codeVars
<1>4. CASE ConfirmEnable(u) \/ LoginMfa(u) \/ LoginRecovery(u)
  BY <1>0, <1>4 DEF ConfirmEnable, LoginMfa, LoginRecovery, Ask, New
<1>5. CASE \E k \in Kinds : Expire(u, k)
  BY <1>0, <1>5 DEF Expire
<1> QED BY <1>1, <1>2, <1>3, <1>4, <1>5

LEMMA JobsStep ==
    ASSUME TypeOK, JobFits, Next
    PROVE  JobsOK' /\ JobFits'
<1>1. ASSUME NEW p \in Procs, NEW held, Takes(p, held), minted' = minted
      PROVE  JobsOK' /\ JobFits'
  BY <1>1, TakenFits
<1>2. ASSUME NEW p \in Procs, NEW a \in Addresses, NEW w \in Passwords, BeginRegister(p, a, w)
      PROVE  JobsOK' /\ JobFits'
  BY <1>1, <1>2, RegisterTakes DEF codeVars
<1>3. ASSUME NEW p \in Procs, NEW u \in Users, NEW w \in Passwords,
             \/ BeginLogin(p, u, w) \/ BeginReset(p, u, w) \/ BeginEnable(p, u, w)
             \/ BeginDisable(p, u, w) \/ BeginDelete(p, u, w)
             \/ \E next \in Passwords : BeginChange(p, u, w, next)
             \/ \E a \in Addresses : BeginEmail(p, u, w, a)
      PROVE  JobsOK' /\ JobFits'
  BY <1>1, <1>3, BeginTakes DEF codeVars
<1>4. ASSUME NEW p \in Procs,
             \/ FinishRegister(p) \/ FinishLogin(p) \/ FinishChange(p) \/ FinishReset(p)
             \/ FinishEmail(p) \/ FinishEnable(p) \/ FinishDisable(p) \/ FinishDelete(p)
      PROVE  JobsOK' /\ JobFits'
  BY <1>4, FinishLeaves, LeftFits
<1>5. ASSUME job' = job, requests' \in Nat, minted' \in {minted, minted + 1}
      PROVE  JobsOK' /\ JobFits'
  <2>1. 0..minted \subseteq 0..minted'
    BY <1>5 DEF TypeOK
  <2> QED BY <1>5, <2>1, Parts DEF JobsOK, JobFits
<1>6. ASSUME NEW u \in Users,
             \/ Forgot(u) \/ ResendConfirm(u) \/ CancelEmail(u) \/ ConfirmEmail(u)
             \/ ResendVerification(u) \/ VerifyEmail(u) \/ MagicRequest(u) \/ MagicConsume(u)
             \/ \E g \in Googles : GoogleSignIn(g, u)
             \/ ConfirmEnable(u) \/ ResendCode(u) \/ LoginMfa(u) \/ LoginRecovery(u)
             \/ \E k \in Kinds : Expire(u, k)
      PROVE  JobsOK' /\ JobFits'
  BY <1>5, <1>6, OneStep
<1>7. CASE Refused
  BY <1>5, <1>7 DEF Refused, vars, codeVars, TypeOK
<1> QED BY <1>2, <1>3, <1>4, <1>6, <1>7 DEF Next

\* Only a handler with a password in hand writes one.
LEMMA PasswordsStep ==
    ASSUME TypeOK, JobFits, PasswordInv, Next
    PROVE  PasswordsOK' /\ PasswordInv'
<1> USE DEF PasswordInv
<1>0. /\ PasswordsOK /\ NamesOK /\ JobsOK /\ Live \subseteq Users
      /\ \A q \in Procs : job[q].pw \in Passwords \cup {None}
  BY Parts DEF Live, JobsOK, Jobs
<1>1. ASSUME NEW p \in Procs, NEW held, Takes(p, held), UNCHANGED <<born, email, passVars>>
      PROVE  PasswordsOK' /\ PasswordInv'
  <2>1. Live' = Live
    BY <1>1 DEF Live
  <2>2. \A q \in Procs : job'[q] = IF q = p THEN held ELSE job[q]
    BY <1>0, <1>1 DEF Takes, JobsOK
  <2>3. PasswordsOK' /\ PasswordIsTheLatest' /\ NoneIsLatest'
    BY <1>0, <1>1, <2>1 DEF passVars, PasswordsOK, PasswordIsTheLatest, NoneIsLatest
  <2>4. RehashInHand'
    BY <1>0, <1>1, <2>1, <2>2 DEF Takes, RehashInHand, passVars, NamesOK
  <2> QED BY <2>3, <2>4
<1>2. ASSUME NEW p \in Procs, Leaves(p), UNCHANGED <<born, email, passVars>>, requests' = requests
      PROVE  PasswordsOK' /\ PasswordInv'
  <2>1. Takes(p, Idle)
    BY <1>2, IdleHolds DEF Takes, Leaves, TypeOK
  <2> QED BY <1>1, <1>2, <2>1
<1>3. ASSUME job' = job, UNCHANGED passVars, Live' = Live, born \subseteq born'
      PROVE  PasswordsOK' /\ PasswordInv'
  BY <1>0, <1>3 DEF passVars, PasswordsOK, PasswordIsTheLatest, NoneIsLatest, RehashInHand
<1>4. ASSUME NEW p \in Procs, Leaves(p)
      PROVE  \A q \in Procs : job'[q] = job[q] \/ job'[q].todo = {}
  BY <1>0, <1>4, IdleHolds DEF Leaves, JobsOK
<1>5. ASSUME NEW p \in Procs, FinishRegister(p)
      PROVE  PasswordsOK' /\ PasswordInv'
  <2> DEFINE a == job[p].addr
  <2>1. CASE UNCHANGED <<nameVars, passVars>>
    BY <1>2, <1>5, <2>1 DEF FinishRegister, nameVars
  <2>2. CASE \E u \in Users \ born :
               /\ born' = born \cup {u} /\ email' = [email EXCEPT ![u] = a]
               /\ password' = [password EXCEPT ![u] = job[p].pw]
               /\ latest' = [latest EXCEPT ![u] = job[p].pw]
               /\ UNCHANGED <<oldHash, raced>>
    <3>1. PICK u \in Users \ born :
               /\ born' = born \cup {u} /\ email' = [email EXCEPT ![u] = a]
               /\ password' = [password EXCEPT ![u] = job[p].pw]
               /\ latest' = [latest EXCEPT ![u] = job[p].pw]
               /\ UNCHANGED <<oldHash, raced>>
      BY <2>2
    <3>2. a # None
      BY <1>5, AccountAssumption DEF FinishRegister, JobFits
    <3>3. Live' = Live \cup {u} /\ u \notin Live
      BY <1>0, <3>1, <3>2 DEF Live, NamesOK
    <3>4. PasswordsOK' /\ PasswordIsTheLatest' /\ NoneIsLatest'
      BY <1>0, <3>1, <3>3 DEF PasswordsOK, PasswordIsTheLatest, NoneIsLatest
    <3>5. \A q \in Procs : job'[q] = job[q] \/ job'[q].todo = {}
      BY <1>4, <1>5 DEF FinishRegister
    <3>6. RehashInHand'
      BY <1>0, <3>1, <3>3, <3>5 DEF RehashInHand, PasswordsOK
    <3> QED BY <3>4, <3>6
  <2> QED BY <1>5, <2>1, <2>2 DEF FinishRegister
<1>6. ASSUME NEW p \in Procs, FinishLogin(p)
      PROVE  PasswordsOK' /\ PasswordInv'
  <2> DEFINE u == job[p].user
  <2>1. CASE "rehash" \notin job[p].todo
    BY <1>2, <1>6, <2>1 DEF FinishLogin, nameVars, passVars
  <2>2. CASE "rehash" \in job[p].todo
    <3>1. /\ password' = Updated(password, u, job[p].pw) /\ oldHash' = oldHash \ {u}
          /\ UNCHANGED <<latest, raced, born, email>>
      BY <1>6, <2>2 DEF FinishLogin, nameVars
    <3>2. Live' = Live
      BY <3>1 DEF Live
    <3>3. \A x \in Users : password'[x] = IF u \in Live /\ x = u THEN job[p].pw ELSE password[x]
      BY <1>0, <3>1 DEF Updated, PasswordsOK
    <3>4. password' \in [Users -> Passwords \cup {None}]
      BY <1>0, <3>1 DEF Updated, PasswordsOK
    <3>5. u \in Live \ raced => job[p].pw = password[u]
      BY <2>2 DEF RehashInHand
    <3>6. PasswordsOK' /\ PasswordIsTheLatest' /\ NoneIsLatest'
      BY <1>0, <3>1, <3>2, <3>3, <3>4, <3>5 DEF PasswordsOK, PasswordIsTheLatest, NoneIsLatest
    <3>7. \A q \in Procs : job'[q] = job[q] \/ job'[q].todo = {}
      BY <1>4, <1>6 DEF FinishLogin
    <3>8. RehashInHand'
      BY <1>0, <3>1, <3>2, <3>3, <3>5, <3>7 DEF RehashInHand
    <3> QED BY <3>6, <3>8
  <2> QED BY <2>1, <2>2
<1>7. ASSUME NEW p \in Procs, FinishChange(p) \/ FinishReset(p)
      PROVE  PasswordsOK' /\ PasswordInv'
  <2> DEFINE u == job[p].user
  <2>1. Leaves(p) /\ Sets(p, u, job[p].pw) /\ UNCHANGED <<born, email>>
    BY <1>7 DEF FinishChange, FinishReset, nameVars
  <2>2. Live' = Live
    BY <2>1 DEF Live
  <2>3. \A x \in Users :
          /\ password'[x] = IF u \in Live /\ x = u THEN job[p].pw ELSE password[x]
          /\ latest'[x] = IF u \in Live /\ x = u THEN job[p].pw ELSE latest[x]
    BY <1>0, <2>1 DEF Sets, Updated, PasswordsOK
  <2>4. /\ password' \in [Users -> Passwords \cup {None}]
        /\ latest' \in [Users -> Passwords \cup {None}]
    BY <1>0, <2>1 DEF Sets, Updated, PasswordsOK
  <2>5. /\ oldHash' \subseteq oldHash
        /\ raced' = IF \E q \in Procs : job[q].user = u /\ "rehash" \in job[q].todo
                    THEN raced \cup {u} ELSE raced \ {u}
    BY <2>1 DEF Sets
  <2>6. raced' \subseteq Users
    BY <1>0, <2>5 DEF RehashInHand, PasswordsOK, NamesOK
  <2>7. PasswordsOK' /\ PasswordIsTheLatest' /\ NoneIsLatest'
    BY <1>0, <2>2, <2>3, <2>4, <2>5, <2>6 DEF PasswordsOK, PasswordIsTheLatest, NoneIsLatest
  <2>8. \A q \in Procs : job'[q] = job[q] \/ job'[q].todo = {}
    BY <1>4, <2>1
  <2>9. RehashInHand'
    BY <1>0, <2>1, <2>2, <2>3, <2>5, <2>8 DEF RehashInHand
  <2> QED BY <2>7, <2>9
<1>8. ASSUME NEW p \in Procs, FinishDelete(p)
      PROVE  PasswordsOK' /\ PasswordInv'
  <2> DEFINE u == job[p].user
  <2>1. /\ Leaves(p) /\ password' = [password EXCEPT ![u] = None]
        /\ latest' = [latest EXCEPT ![u] = None] /\ email' = [email EXCEPT ![u] = None]
        /\ oldHash' = oldHash \ {u} /\ UNCHANGED <<raced, born>>
    BY <1>8 DEF FinishDelete
  <2>2. Live' = Live \ {u}
    BY <1>0, <2>1 DEF Live, NamesOK
  <2>3. PasswordsOK' /\ PasswordIsTheLatest' /\ NoneIsLatest'
    BY <1>0, <2>1, <2>2 DEF PasswordsOK, PasswordIsTheLatest, NoneIsLatest
  <2>4. \A q \in Procs : job'[q] = job[q] \/ job'[q].todo = {}
    BY <1>4, <2>1
  <2>5. RehashInHand'
    BY <1>0, <2>1, <2>2, <2>4 DEF RehashInHand, PasswordsOK
  <2> QED BY <2>3, <2>5
<1>9. ASSUME NEW p \in Procs, FinishEmail(p) \/ FinishEnable(p) \/ FinishDisable(p)
      PROVE  PasswordsOK' /\ PasswordInv'
  BY <1>2, <1>9 DEF FinishEmail, FinishEnable, FinishDisable, nameVars
<1>10. ASSUME NEW p \in Procs, NEW a \in Addresses, NEW w \in Passwords, BeginRegister(p, a, w)
       PROVE  PasswordsOK' /\ PasswordInv'
  BY <1>1, <1>10, RegisterTakes DEF nameVars
<1>11. ASSUME NEW p \in Procs, NEW u \in Users, NEW w \in Passwords,
              \/ BeginLogin(p, u, w) \/ BeginReset(p, u, w) \/ BeginEnable(p, u, w)
              \/ BeginDisable(p, u, w) \/ BeginDelete(p, u, w)
              \/ \E next \in Passwords : BeginChange(p, u, w, next)
              \/ \E a \in Addresses : BeginEmail(p, u, w, a)
       PROVE  PasswordsOK' /\ PasswordInv'
  BY <1>1, <1>11, BeginTakes DEF nameVars
<1>12. ASSUME NEW u \in Users, ConfirmEmail(u)
       PROVE  PasswordsOK' /\ PasswordInv'
  <2>1. u \in Live /\ pending[u] # None /\ email' \in {email, [email EXCEPT ![u] = pending[u]]}
    BY <1>12 DEF ConfirmEmail, Holds
  <2>2. Live' = Live
    BY <1>0, <2>1 DEF Live, NamesOK
  <2> QED BY <1>3, <1>12, <2>2, OneStep DEF ConfirmEmail
<1>13. ASSUME NEW u \in Users,
              \/ Forgot(u) \/ ResendConfirm(u) \/ CancelEmail(u)
              \/ ResendVerification(u) \/ VerifyEmail(u) \/ MagicRequest(u) \/ MagicConsume(u)
              \/ \E g \in Googles : GoogleSignIn(g, u)
              \/ ConfirmEnable(u) \/ ResendCode(u) \/ LoginMfa(u) \/ LoginRecovery(u)
              \/ \E k \in Kinds : Expire(u, k)
       PROVE  PasswordsOK' /\ PasswordInv'
  <2>1. UNCHANGED <<born, email>>
    BY <1>13 DEF Forgot, ResendConfirm, CancelEmail, ResendVerification, VerifyEmail, MagicRequest,
                 MagicConsume, GoogleSignIn, ConfirmEnable, ResendCode, LoginMfa, LoginRecovery,
                 Expire, nameVars
  <2>2. Live' = Live
    BY <2>1 DEF Live
  <2> QED BY <1>3, <1>13, <2>1, <2>2, OneStep
<1>14. CASE Refused
  BY <1>3, <1>14 DEF Refused, vars, nameVars, Live
<1> HIDE DEF PasswordInv
<1> QED BY <1>5, <1>6, <1>7, <1>8, <1>9, <1>10, <1>11, <1>12, <1>13, <1>14 DEF Next

-----------------------------------------------------------------------------
(* Links, codes and mails.                                                 *)

\* Handlers keep the link they hold, or hold none.
HeldFall ==
    \A p \in Procs :
        /\ job'[p].no \in {0, job[p].no}
        /\ job'[p].no # 0 => job'[p].user = job[p].user

\* One link is made, mailed, and perhaps stored.
Mints(u, k, to) ==
    /\ minted' = minted + 1 /\ inbox' = inbox \cup ({minted + 1} \X to)
    /\ k \in Kinds /\ to \subseteq Addresses
    /\ \/ /\ u \in Live' /\ LinkBecomes(u, k, minted + 1)
          /\ k = "verify" => to = {email'[u]}
          /\ k = "change" => to \subseteq {pending'[u]}
       \/ u \notin Live' /\ LinksKept
    /\ Live \subseteq Live' /\ Live' \subseteq Live \cup {u}
    /\ \A v \in Live : email'[v] = email[v]
    /\ \A v \in Live' : pending'[v] = pending[v] \/ (v = u /\ k = "change")
    /\ UNCHANGED <<recovery, useVars, shared, mfa, verified, owned>>

\* Links and recovery codes go, except for the codes that ConfirmEnable makes.
Drops ==
    /\ minted' \in {minted, minted + 1} /\ inbox' = inbox
    /\ link' \in [Users -> [Kinds -> 0..minted']]
    /\ \A v \in Users, l \in Kinds : link'[v][l] \in {0, link[v][l]}
    /\ recovery' \in [Users -> SUBSET (1..minted')]
    /\ \A v \in Users : recovery'[v] \subseteq recovery[v] \cup {minted + 1}
    /\ \A v, w \in Users :
        v # w => minted + 1 \notin recovery'[v] \/ minted + 1 \notin recovery'[w]

LEMMA MintsCodes ==
    ASSUME TypeOK, NEW u, NEW k, NEW to, Mints(u, k, to)
    PROVE  CodesOK' /\ UsesOK'
<1>0. CodesOK /\ UsesOK
  BY Parts
<1>1. minted \in Nat /\ minted' = minted + 1 /\ 1..minted \subseteq 1..minted'
  BY <1>0 DEF CodesOK, Mints
<1>2. link' \in [Users -> [Kinds -> 0..minted']]
  BY DEF Mints, LinkBecomes, LinksKept
<1>3. ASSUME NEW v \in Users \ Live'
      PROVE  link'[v] = NoLinks
  <2>1. v \notin Live /\ \A l \in Kinds : link'[v][l] = link[v][l]
    BY <1>3 DEF Mints, LinkBecomes, LinksKept
  <2>2. \A l \in Kinds : link[v][l] = 0
    BY <1>0, <2>1 DEF CodesOK, NoLinks
  <2> QED BY <1>2, <2>1, <2>2 DEF NoLinks
<1>4. recovery' = recovery /\ mfa' = mfa /\ Live \subseteq Live'
  BY DEF Mints
<1>5. recovery' \in [Users -> SUBSET (1..minted')]
  BY <1>0, <1>1, <1>4 DEF CodesOK
<1>6. inbox' \subseteq (1..minted') \X Addresses
  <2>1. minted + 1 \in 1..minted'
    BY <1>1
  <2> QED BY <1>0, <1>1, <2>1 DEF CodesOK, Mints
<1>7. CodesOK'
  BY <1>0, <1>1, <1>2, <1>3, <1>4, <1>5, <1>6 DEF CodesOK
<1>8. UsesOK'
  BY <1>0, <1>1 DEF UsesOK, Mints, useVars
<1> QED BY <1>7, <1>8

LEMMA MintsMails ==
    ASSUME TypeOK, MailInv, NEW u, NEW k, NEW to, Mints(u, k, to)
    PROVE  MailInv'
<1>0. /\ minted \in Nat /\ inbox \subseteq (1..minted) \X Addresses /\ verified \subseteq Live
      /\ Live' \subseteq Users
      /\ \A v \in Users, l \in Kinds : link[v][l] \in 0..minted
      /\ \A v \in Users \ Live, l \in Kinds : link[v][l] = 0
  BY DEF TypeOK, Live, NoLinks
<1>1. \A m \in inbox : m[1] \in 1..minted
  BY <1>0
<1>2. \A m \in inbox' : m \in inbox \/ (m[1] = minted + 1 /\ m[2] \in to)
  BY DEF Mints
<1>3. \A v \in Users, l \in Kinds :
        link'[v][l] = link[v][l] \/ (v = u /\ l = k /\ link'[v][l] = minted + 1 /\ u \in Live')
  BY DEF Mints, LinkBecomes, LinksKept
<1>4. VerifyAt'
  <2> SUFFICES ASSUME NEW v \in Live', v \notin verified', NEW m \in inbox',
                      m[1] = link'[v]["verify"]
               PROVE  m[2] = email'[v]
    BY DEF VerifyAt
  <2>1. v \in Users /\ "verify" \in Kinds
    BY <1>0 DEF Kinds
  <2>2. CASE m[1] = minted + 1
    <3>1. m[2] \in to
      BY <1>0, <1>1, <1>2, <2>2
    <3>2. link[v]["verify"] # minted + 1
      BY <1>0, <2>1
    <3>3. v = u /\ k = "verify" /\ u \in Live'
      BY <1>3, <2>1, <2>2, <3>2
    <3>4. to = {email'[u]}
      BY <3>3 DEF Mints
    <3> QED BY <3>1, <3>3, <3>4
  <2>3. CASE m[1] # minted + 1
    <3>1. m \in inbox /\ link'[v]["verify"] = link[v]["verify"]
      BY <1>2, <1>3, <2>1, <2>3
    <3>2. v \in Live
      BY <1>0, <1>1, <2>1, <3>1
    <3> QED BY <3>1, <3>2 DEF Mints, MailInv, VerifyAt
  <2> QED BY <2>2, <2>3
<1>5. ChangeAt'
  <2> SUFFICES ASSUME NEW v \in Live', NEW m \in inbox', m[1] = link'[v]["change"]
               PROVE  m[2] = pending'[v]
    BY DEF ChangeAt
  <2>1. v \in Users /\ "change" \in Kinds
    BY <1>0 DEF Kinds
  <2>2. CASE m[1] = minted + 1
    <3>1. m[2] \in to
      BY <1>0, <1>1, <1>2, <2>2
    <3>2. link[v]["change"] # minted + 1
      BY <1>0, <2>1
    <3>3. v = u /\ k = "change" /\ u \in Live'
      BY <1>3, <2>1, <2>2, <3>2
    <3>4. to \subseteq {pending'[u]}
      BY <3>3 DEF Mints
    <3> QED BY <3>1, <3>3, <3>4
  <2>3. CASE m[1] # minted + 1
    <3>1. m \in inbox /\ link'[v]["change"] = link[v]["change"]
      BY <1>2, <1>3, <2>1, <2>3
    <3>2. v \in Live
      BY <1>0, <1>1, <2>1, <3>1
    <3>3. CASE v = u /\ k = "change"
      <4>1. link'[v]["change"] = minted + 1
        BY <2>1, <3>3 DEF Mints, LinkBecomes
      <4> QED BY <2>3, <4>1
    <3> QED BY <3>1, <3>2, <3>3 DEF Mints, MailInv, ChangeAt
  <2> QED BY <2>2, <2>3
<1>6. VerifiedMeansOwned'
  BY <1>0 DEF Mints, MailInv, VerifiedMeansOwned
<1> QED BY <1>4, <1>5, <1>6 DEF MailInv

LEMMA MintsOnce ==
    ASSUME TypeOK, CodeInv, JobFits, NEW u, NEW k, NEW to, Mints(u, k, to), HeldFall
    PROVE  CodeInv'
<1>0. /\ minted \in Nat /\ used \subseteq 1..minted
      /\ \A v \in Users : recovery[v] \subseteq 1..minted
      /\ \A v \in Users, l \in Kinds : link[v][l] \in 0..minted
      /\ \A p \in Procs : job[p].no \in 0..minted
  BY DEF TypeOK, JobFits
<1>1. \A v \in Users, l \in Kinds :
        link'[v][l] = link[v][l] \/ (v = u /\ l = k /\ link'[v][l] = minted + 1)
  BY DEF Mints, LinkBecomes, LinksKept
<1>2. UNCHANGED <<recovery, used, twice, shared>>
  BY DEF Mints, useVars
<1>3. OnePlace'
  BY <1>0, <1>1, <1>2 DEF CodeInv, OnePlace
<1>4. Unused'
  BY <1>0, <1>1, <1>2 DEF CodeInv, Unused
<1>5. HeldIsReset'
  BY <1>0, <1>1, <1>2 DEF CodeInv, HeldIsReset, HeldFall
<1>6. HeldTwiceIsShared'
  BY <1>2 DEF CodeInv, HeldTwiceIsShared, HeldFall
<1> QED BY <1>2, <1>3, <1>4, <1>5, <1>6 DEF CodeInv, LinkWorksOnce

LEMMA DropsCodes ==
    ASSUME TypeOK, Drops,
           \A v \in Users \ Live' : v \notin Live \/ link'[v] = NoLinks,
           mfa' \subseteq Live', \A v \in Users \ mfa' : recovery'[v] = {}
    PROVE  CodesOK'
<1>0. CodesOK
  BY Parts
<1>1. minted \in Nat /\ minted' \in Nat /\ 1..minted \subseteq 1..minted'
  BY <1>0 DEF CodesOK, Drops
<1>2. ASSUME NEW v \in Users \ Live'
      PROVE  link'[v] = NoLinks
  <2>1. CASE v \notin Live
    <3>1. \A l \in Kinds : link[v][l] = 0
      BY <1>0, <2>1 DEF CodesOK, NoLinks
    <3>2. \A l \in Kinds : link'[v][l] = 0
      BY <3>1 DEF Drops
    <3> QED BY <3>2 DEF NoLinks, Drops
  <2> QED BY <2>1
<1>3. inbox' \subseteq (1..minted') \X Addresses
  BY <1>0, <1>1 DEF CodesOK, Drops
<1> QED BY <1>1, <1>2, <1>3 DEF CodesOK, Drops

LEMMA DropsMails ==
    ASSUME TypeOK, MailInv, Drops, Live' \subseteq Live,
           \A v \in Live' \ verified' : v \notin verified /\ email'[v] = email[v],
           \A v \in Live' : pending'[v] = pending[v] \/ link'[v]["change"] = 0
    PROVE  VerifyAt' /\ ChangeAt'
<1>0. /\ minted \in Nat /\ \A m \in inbox : m[1] \in 1..minted
      /\ Live \subseteq Users /\ {"verify", "change"} \subseteq Kinds
  BY DEF TypeOK, Live, Kinds
<1>1. \A v \in Users, l \in Kinds : link'[v][l] \in {0, link[v][l]}
  BY DEF Drops
<1>2. \A m \in inbox' : m \in inbox /\ m[1] # 0
  BY <1>0 DEF Drops
<1>3. VerifyAt'
  BY <1>0, <1>1, <1>2 DEF MailInv, VerifyAt
<1>4. ChangeAt'
  BY <1>0, <1>1, <1>2 DEF MailInv, ChangeAt
<1> QED BY <1>3, <1>4

\* What goes is not used, or used as the only one of its number.
LEMMA DropsOnce ==
    ASSUME TypeOK, CodeInv, JobFits, Drops, HeldFall, shared' = shared,
           \/ UNCHANGED useVars
           \/ \E n \in 1..minted :
                /\ Uses(n) /\ n \notin used
                /\ \A v \in Users, l \in Kinds : link'[v][l] # n
                /\ \A v \in Users : n \notin recovery'[v]
                /\ \A p \in Procs : job[p].no # n
    PROVE  CodeInv' /\ UsesOK'
<1>0. /\ minted \in Nat /\ used \subseteq 1..minted
      /\ \A v \in Users : recovery[v] \subseteq 1..minted
      /\ \A v \in Users, l \in Kinds : link[v][l] \in 0..minted
      /\ \A p \in Procs : job[p].no \in 0..minted
      /\ UsesOK
  BY Parts DEF TypeOK, JobFits
<1>1. \A v \in Users, l \in Kinds : link'[v][l] \in {0, link[v][l]}
  BY DEF Drops
<1>2. /\ \A v \in Users : recovery'[v] \subseteq recovery[v] \cup {minted + 1}
      /\ \A v, w \in Users :
            v # w => minted + 1 \notin recovery'[v] \/ minted + 1 \notin recovery'[w]
      /\ \A v \in Users : recovery'[v] \subseteq 1..minted'
      /\ minted' \in {minted, minted + 1}
  BY DEF Drops
<1>3. OnePlace'
  <2>1. \A v, w \in Users, l \in Kinds : link'[v][l] \notin recovery'[w]
    BY <1>0, <1>1, <1>2 DEF CodeInv, OnePlace
  <2>2. \A v, w \in Users : v # w => recovery'[v] \cap recovery'[w] = {}
    BY <1>0, <1>2 DEF CodeInv, OnePlace
  <2>3. \A v, w \in Users, k, l \in Kinds :
            link'[v][k] = link'[w][l] /\ link'[v][k] # 0 => v = w /\ k = l
    BY <1>1 DEF CodeInv, OnePlace
  <2> QED BY <2>1, <2>2, <2>3 DEF OnePlace
<1>4. \A p \in Procs : job'[p].no # 0 =>
        /\ job'[p].no = job[p].no /\ job'[p].user = job[p].user
        /\ \A v \in Users : job'[p].no \notin recovery'[v]
        /\ \A v \in Users, k \in Kinds :
            link'[v][k] = job'[p].no => v = job'[p].user /\ k = "reset"
  BY <1>0, <1>1, <1>2 DEF CodeInv, HeldIsReset, HeldFall
<1>5. HeldTwiceIsShared'
  BY DEF CodeInv, HeldTwiceIsShared, HeldFall
<1>6. CASE UNCHANGED useVars
  <2>1. used' = used /\ twice' = twice
    BY <1>6 DEF useVars
  <2>2. Unused'
    BY <1>0, <1>1, <1>2, <2>1 DEF CodeInv, Unused
  <2>3. HeldIsReset'
    BY <1>4, <2>1 DEF CodeInv, HeldIsReset
  <2>4. LinkWorksOnce' /\ UsesOK'
    BY <1>0, <1>2, <2>1 DEF CodeInv, LinkWorksOnce, UsesOK
  <2> QED BY <1>3, <1>5, <2>2, <2>3, <2>4 DEF CodeInv
<1>7. ASSUME NEW n \in 1..minted,
             Uses(n), n \notin used,
             \A v \in Users, l \in Kinds : link'[v][l] # n,
             \A v \in Users : n \notin recovery'[v],
             \A p \in Procs : job[p].no # n
      PROVE  CodeInv' /\ UsesOK'
  <2>1. used' = used \cup {n} /\ twice' = twice
    BY <1>7 DEF Uses
  <2>2. Unused'
    BY <1>0, <1>1, <1>2, <1>7, <2>1 DEF CodeInv, Unused
  <2>3. HeldIsReset'
    BY <1>4, <1>7, <2>1 DEF CodeInv, HeldIsReset
  <2>4. LinkWorksOnce' /\ UsesOK'
    BY <1>0, <1>2, <2>1 DEF CodeInv, LinkWorksOnce, UsesOK
  <2> QED BY <1>3, <1>5, <2>2, <2>3, <2>4 DEF CodeInv
<1> QED BY <1>6, <1>7

LEMMA MintMints ==
    ASSUME TypeOK, NEW u, NEW k \in Kinds, NEW to \in SUBSET Addresses, Mint(k, u, to),
           UNCHANGED <<recovery, nameVars, useVars, shared, mfa, owned>>,
           u \in Live /\ k = "verify" => to = {email[u]},
           u \in Live /\ k = "change" => to \subseteq {pending[u]}
    PROVE  Mints(u, k, to)
<1>1. /\ minted' = minted + 1
      /\ IF u \in Live THEN LinkBecomes(u, k, minted + 1) ELSE LinksKept
      /\ inbox' = inbox \cup ({minted + 1} \X to)
  BY Parts, Minted
<1>2. UNCHANGED <<email, pending, verified>> /\ Live' = Live
  BY DEF nameVars, Live
<1> QED BY <1>1, <1>2 DEF Mints, useVars

LEMMA ClearDrops ==
    ASSUME TypeOK, NEW u, NEW k \in Kinds, link' = Cleared(u, k), minted' = minted, inbox' = inbox,
           recovery' \in [Users -> SUBSET (1..minted)],
           \A v \in Users : recovery'[v] \subseteq recovery[v]
    PROVE  Drops /\ (u \in Users => link'[u][k] = 0)
<1>0. CodesOK /\ minted \in Nat /\ \A v \in Users : recovery'[v] \subseteq 1..minted
  BY Parts DEF CodesOK
<1>1. CASE u \in Users
  <2>1. LinkBecomes(u, k, 0)
    BY <1>0, <1>1, ClearedFact
  <2> QED BY <1>0, <1>1, <2>1 DEF LinkBecomes, Drops
<1>2. CASE u \notin Users
  <2>1. link' = link
    BY <1>2 DEF Cleared, Updated, Live
  <2> QED BY <1>0, <1>2, <2>1 DEF Drops, CodesOK
<1> QED BY <1>1, <1>2

LEMMA KeptDrops ==
    ASSUME TypeOK, UNCHANGED codeVars
    PROVE  Drops
<1>1. CodesOK /\ UNCHANGED <<link, recovery, minted, inbox>>
  BY Parts DEF codeVars
<1>2. \A v \in Users : recovery[v] \subseteq 1..minted
  BY <1>1 DEF CodesOK
<1>3. \A v \in Users : minted + 1 \notin recovery[v]
  BY <1>1, <1>2 DEF CodesOK
<1> QED BY <1>1, <1>2, <1>3 DEF Drops, CodesOK

CodeParts == CodesOK /\ UsesOK /\ MailInv /\ CodeInv

LEMMA MintsAll ==
    ASSUME TypeOK, JobFits, MailInv, CodeInv, NEW u, NEW k, NEW to, Mints(u, k, to), HeldFall
    PROVE  CodeParts'
BY MintsCodes, MintsMails, MintsOnce DEF CodeParts

\* Rows and addresses stay, links and codes may go.
LEMMA DropsAll ==
    ASSUME TypeOK, JobFits, MailInv, CodeInv, Drops, HeldFall, shared' = shared,
           UNCHANGED <<email, verified, owned>>,
           \A v \in Live : pending'[v] = pending[v] \/ link'[v]["change"] = 0,
           mfa' \subseteq Live, \A v \in Users \ mfa' : recovery'[v] = {},
           \/ UNCHANGED useVars
           \/ \E n \in 1..minted :
                /\ Uses(n) /\ n \notin used
                /\ \A v \in Users, l \in Kinds : link'[v][l] # n
                /\ \A v \in Users : n \notin recovery'[v]
                /\ \A p \in Procs : job[p].no # n
    PROVE  CodeParts'
<1>1. Live' = Live
  BY DEF Live
<1>2. CodesOK'
  BY <1>1, DropsCodes
<1>3. UsesOK' /\ CodeInv'
  BY DropsOnce
<1>4. VerifyAt' /\ ChangeAt'
  BY <1>1, DropsMails
<1>5. VerifiedMeansOwned'
  BY DEF MailInv, VerifiedMeansOwned
<1> QED BY <1>2, <1>3, <1>4, <1>5 DEF CodeParts, MailInv

LEMMA QuietAll ==
    ASSUME TypeOK, JobFits, MailInv, CodeInv, HeldFall,
           UNCHANGED <<codeVars, email, verified, pending, useVars, mfa, owned, shared>>
    PROVE  CodeParts'
<1>1. Drops
  BY KeptDrops
<1>2. mfa' \subseteq Live /\ \A v \in Users \ mfa' : recovery'[v] = {}
  BY DEF TypeOK, codeVars
<1> QED BY <1>1, <1>2, DropsAll

LEMMA HeldFalls ==
    ASSUME TypeOK
    PROVE  /\ job' = job => HeldFall
           /\ \A p \in Procs : Leaves(p) => HeldFall
           /\ \A p \in Procs : \A held : Takes(p, held) /\ held.no = 0 => HeldFall
<1>1. job' = job => HeldFall
  BY DEF HeldFall
<1>2. ASSUME NEW p \in Procs, NEW held, job' = [job EXCEPT ![p] = held], held.no = 0
      PROVE  HeldFall
  BY <1>2 DEF HeldFall, TypeOK
<1> QED BY <1>1, <1>2, IdleHolds DEF Leaves, Takes

\* The number on a row of which the mail was used, other than of a reset.
LEMMA OnlyThere ==
    ASSUME TypeOK, CodeInv, NEW u \in Users, NEW k \in Kinds \ {"reset"}, link[u][k] # 0
    PROVE  /\ link[u][k] \in 1..minted /\ link[u][k] \notin used
           /\ \A v \in Users, l \in Kinds : link[v][l] = link[u][k] => v = u /\ l = k
           /\ \A v \in Users : link[u][k] \notin recovery[v]
           /\ \A p \in Procs : job[p].no # link[u][k]
<1>1. link[u][k] \in 0..minted /\ minted \in Nat
  BY DEF TypeOK
<1> QED BY <1>1 DEF CodeInv, OnePlace, Unused, HeldIsReset

LEMMA CodesStep ==
    ASSUME TypeOK, JobFits, MailInv, CodeInv, Next
    PROVE  CodeParts'
<1>0. /\ CodesOK /\ JobsOK /\ Live \subseteq Users /\ mfa \subseteq Live
      /\ \A v \in Live : email[v] \in Addresses
      /\ \A v \in Users \ mfa : recovery[v] = {}
      /\ Kinds = {"verify", "change", "reset", "magic", "otp"}
  BY Parts DEF CodesOK, Live, TypeOK, Kinds
<1>1. ASSUME NEW p \in Procs, NEW a \in Addresses, NEW w \in Passwords, BeginRegister(p, a, w)
      PROVE  CodeParts'
  BY <1>1, RegisterTakes, HeldFalls, QuietAll DEF nameVars
<1>2. ASSUME NEW p \in Procs, NEW u \in Users, NEW w \in Passwords, ~BeginReset(p, u, w),
             \/ BeginLogin(p, u, w) \/ BeginEnable(p, u, w)
             \/ BeginDisable(p, u, w) \/ BeginDelete(p, u, w)
             \/ \E next \in Passwords : BeginChange(p, u, w, next)
             \/ \E a \in Addresses : BeginEmail(p, u, w, a)
      PROVE  CodeParts'
  <2>1. shared' = shared
    BY <1>2 DEF BeginLogin, BeginEnable, BeginDisable, BeginDelete, BeginChange, BeginEmail
  <2>2. HeldFall /\ UNCHANGED <<codeVars, nameVars, passVars, useVars, mfa, owned>>
    BY <1>2, BeginTakes, HeldFalls
  <2> QED BY <2>1, <2>2, QuietAll DEF nameVars
<1>3. ASSUME NEW p \in Procs, NEW u \in Users, NEW w \in Passwords, BeginReset(p, u, w)
      PROVE  CodeParts'
  <2> DEFINE n == link[u]["reset"]
  <2>1. PICK held : Takes(p, held) /\ (held.no # 0 => held.no = n /\ held.user = u)
    BY <1>3, BeginTakes
  <2>2. /\ job[p] = Idle /\ UNCHANGED <<codeVars, nameVars, useVars, mfa, owned>>
        /\ shared' = shared \cup ({n} \cap {job[q].no : q \in Procs}) /\ n # 0
    BY <1>3 DEF BeginReset, Awaits, Holds
  <2>3. UNCHANGED <<link, recovery, minted, inbox, used, twice, email, verified, pending, born, google>>
    BY <2>2 DEF codeVars, nameVars, useVars
  <2>4. \A q \in Procs : job'[q] = IF q = p THEN held ELSE job[q]
    BY <2>1 DEF Takes, TypeOK
  <2>5. Live' = Live
    BY <2>3 DEF Live
  <2>6. CodesOK' /\ MailInv'
    BY <1>0, <2>2, <2>3, <2>5 DEF CodesOK, MailInv, VerifyAt, ChangeAt, VerifiedMeansOwned
  <2>7. n \notin used /\ n \in 0..minted /\ minted \in Nat
    BY <1>0 DEF CodeInv, Unused, CodesOK
  <2>8. UsesOK'
    <3>1. shared \subseteq shared' /\ shared' \subseteq shared \cup {n}
      BY <2>2
    <3> QED BY <2>3, <2>7, <3>1, Parts DEF UsesOK
  <2>9. OnePlace' /\ Unused'
    BY <2>3 DEF CodeInv, OnePlace, Unused
  <2>10. HeldIsReset'
    <3>1. /\ \A v \in Users : n \notin recovery[v]
          /\ \A v \in Users, k \in Kinds : link[v][k] = n => v = u /\ k = "reset"
      BY <1>0, <2>2 DEF CodeInv, OnePlace
    <3> QED BY <2>1, <2>2, <2>3, <2>4, <2>7, <3>1 DEF CodeInv, HeldIsReset
  <2>11. HeldTwiceIsShared'
    <3>1. \A q \in Procs : job[q].no = n => n \in shared'
      BY <2>2
    <3>2. shared \subseteq shared'
      BY <2>2
    <3> QED BY <2>1, <2>4, <3>1, <3>2 DEF CodeInv, HeldTwiceIsShared
  <2>12. LinkWorksOnce'
    BY <2>2, <2>3 DEF CodeInv, LinkWorksOnce
  <2> QED BY <2>6, <2>8, <2>9, <2>10, <2>11, <2>12 DEF CodeParts, CodeInv
<1>4. ASSUME NEW p \in Procs, FinishRegister(p)
      PROVE  CodeParts'
  <2> DEFINE a == job[p].addr
  <2>0. HeldFall /\ UNCHANGED <<useVars, mfa, owned, shared>> /\ a \in Addresses
    BY <1>4, HeldFalls DEF FinishRegister, JobFits
  <2>1. CASE UNCHANGED <<codeVars, nameVars, passVars>>
    BY <2>0, <2>1, QuietAll DEF nameVars
  <2>2. ASSUME NEW u \in Users \ born,
               born' = born \cup {u}, email' = [email EXCEPT ![u] = a], minted' = New,
               link' = [link EXCEPT ![u] = [NoLinks EXCEPT !["verify"] = New]],
               inbox' = inbox \cup {<<New, a>>}, UNCHANGED <<verified, pending, google, recovery>>
        PROVE  CodeParts'
    <3>1. u \notin Live /\ a # None /\ email \in [Users -> Addresses \cup {None}]
      BY <2>0, <2>2, AccountAssumption DEF TypeOK
    <3>2. Live' = Live \cup {u} /\ email'[u] = a /\ \A v \in Live : email'[v] = email[v]
      BY <2>2, <3>1 DEF Live
    <3>3. minted \in Nat /\ minted' = minted + 1 /\ 0..minted \subseteq 0..(minted + 1)
      BY <1>0, <2>2 DEF CodesOK, New
    <3>4. \A l \in Kinds : link[u][l] = 0
      BY <1>0, <3>1 DEF CodesOK, NoLinks
    <3>5. [NoLinks EXCEPT !["verify"] = New] = [l \in Kinds |-> IF l = "verify" THEN minted + 1 ELSE 0]
      BY DEF NoLinks, New
    <3>6. link' = [link EXCEPT ![u] = [l \in Kinds |-> IF l = "verify" THEN minted + 1 ELSE 0]]
      BY <2>2, <3>5
    <3>7. link' \in [Users -> [Kinds -> 0..minted']]
      BY <1>0, <3>3, <3>6 DEF CodesOK
    <3>8. LinkBecomes(u, "verify", minted + 1)
      BY <1>0, <3>4, <3>6, <3>7 DEF LinkBecomes, CodesOK
    <3>9. inbox' = inbox \cup ({minted + 1} \X {a})
      BY <2>2, <3>3
    <3>10. Mints(u, "verify", {a})
      BY <1>0, <2>0, <2>2, <3>2, <3>3, <3>8, <3>9 DEF Mints
    <3> QED BY <2>0, <3>10, MintsAll
  <2> QED BY <1>4, <2>1, <2>2 DEF FinishRegister
<1>5. ASSUME NEW p \in Procs, FinishLogin(p)
      PROVE  CodeParts'
  <2>0. HeldFall /\ UNCHANGED <<nameVars, useVars, mfa, owned, shared>>
    BY <1>5, HeldFalls DEF FinishLogin
  <2>1. CASE "code" \notin job[p].todo
    BY <1>5, <2>0, <2>1, QuietAll DEF FinishLogin, nameVars
  <2>2. CASE "code" \in job[p].todo
    <3>1. Mint("otp", job[p].user, {job[p].addr}) /\ recovery' = recovery /\ job[p].addr \in Addresses
      BY <1>5, <2>2 DEF FinishLogin, JobFits
    <3>2. Mints(job[p].user, "otp", {job[p].addr})
      BY <1>0, <2>0, <3>1, MintMints
    <3> QED BY <2>0, <3>2, MintsAll
  <2> QED BY <2>1, <2>2
<1>6. ASSUME NEW p \in Procs, FinishChange(p)
      PROVE  CodeParts'
  BY <1>6, HeldFalls, QuietAll DEF FinishChange, nameVars
<1>7. ASSUME NEW p \in Procs, FinishEmail(p)
      PROVE  CodeParts'
  <2> DEFINE u == job[p].user
             a == job[p].addr
             to == IF TakenByOther(u, a) THEN {} ELSE {a}
  <2>0. /\ HeldFall /\ UNCHANGED <<recovery, email, verified, useVars, mfa, owned, shared>>
        /\ a \in Addresses /\ minted \in Nat
    BY <1>0, <1>7, HeldFalls DEF FinishEmail, JobFits, CodesOK
  <2>1. /\ minted' = New /\ pending' = Updated(pending, u, a)
        /\ link' = Updated(link, u, [link[u] EXCEPT !["change"] = New])
    BY <1>7 DEF FinishEmail, StoredNewLink
  <2>2. minted' = minted + 1 /\ New \in 0..minted' /\ New = minted + 1
    BY <2>0, <2>1 DEF New
  <2>3. IF u \in Live THEN LinkBecomes(u, "change", minted + 1) ELSE LinksKept
    BY <1>0, <2>1, <2>2, Stored
  <2>4. inbox' = inbox \cup ({minted + 1} \X to)
    <3>1. inbox' = IF TakenByOther(u, a) THEN inbox ELSE inbox \cup {<<New, a>>}
      BY <1>7 DEF FinishEmail
    <3> QED BY <2>2, <3>1
  <2>5. Live' = Live
    BY <2>0 DEF Live
  <2>6. \A v \in Live : pending'[v] = IF v = u THEN a ELSE pending[v]
    BY <1>0, <2>1 DEF Updated, TypeOK
  <2>7. to \subseteq Addresses /\ to \subseteq {a}
    BY <2>0
  <2>8. Mints(u, "change", to)
    <3> HIDE DEF to, a, u
    <3> QED BY <1>0, <2>0, <2>2, <2>3, <2>4, <2>5, <2>6, <2>7 DEF Mints
  <2> HIDE DEF to, u
  <2> QED BY <2>0, <2>8, MintsAll
<1>8. ASSUME NEW p \in Procs, FinishEnable(p)
      PROVE  CodeParts'
  <2>0. HeldFall /\ job[p].addr \in Addresses
    BY <1>8, HeldFalls DEF FinishEnable, JobFits
  <2>1. Mints(job[p].user, "otp", {job[p].addr})
    BY <1>0, <1>8, <2>0, MintMints DEF FinishEnable
  <2> QED BY <2>0, <2>1, MintsAll
<1>9. ASSUME NEW p \in Procs, FinishDisable(p)
      PROVE  CodeParts'
  <2> DEFINE u == job[p].user
  <2>0. /\ HeldFall /\ mfa' = mfa \ {u} /\ recovery' = [recovery EXCEPT ![u] = {}]
        /\ UNCHANGED <<minted, inbox, nameVars, useVars, owned, shared>> /\ link' = Cleared(u, "otp")
    BY <1>9, HeldFalls DEF FinishDisable
  <2>1. /\ recovery' \in [Users -> SUBSET (1..minted)]
        /\ \A v \in Users : recovery'[v] = IF v = u THEN {} ELSE recovery[v]
    BY <1>0, <2>0 DEF CodesOK
  <2>2. Drops
    BY <1>0, <2>0, <2>1, ClearDrops
  <2>3. mfa' \subseteq Live /\ \A v \in Users \ mfa' : recovery'[v] = {}
    BY <1>0, <2>0, <2>1
  <2> QED BY <2>0, <2>2, <2>3, DropsAll DEF nameVars
<1>10. ASSUME NEW p \in Procs, FinishDelete(p)
       PROVE  CodeParts'
  <2> DEFINE u == job[p].user
  <2>0. /\ HeldFall /\ mfa' = mfa \ {u} /\ recovery' = [recovery EXCEPT ![u] = {}]
        /\ link' = [link EXCEPT ![u] = NoLinks] /\ email' = [email EXCEPT ![u] = None]
        /\ pending' = [pending EXCEPT ![u] = None]
        /\ verified' = verified \ {u}
        /\ UNCHANGED <<minted, inbox, useVars, owned, shared>>
    BY <1>10, HeldFalls DEF FinishDelete
  <2>1. /\ recovery' \in [Users -> SUBSET (1..minted)]
        /\ \A v \in Users : recovery'[v] = IF v = u THEN {} ELSE recovery[v]
    BY <1>0, <2>0 DEF CodesOK
  <2>2. Live' = Live \ {u} /\ \A v \in Live' : email'[v] = email[v] /\ pending'[v] = pending[v]
    BY <2>0 DEF Live, TypeOK
  <2>3. \A v \in Users : link'[v] = IF v = u THEN NoLinks ELSE link[v]
    BY <1>0, <2>0 DEF CodesOK
  <2>4. NoLinks \in [Kinds -> 0..minted] /\ \A l \in Kinds : NoLinks[l] = 0
    BY <1>0 DEF NoLinks, CodesOK
  <2>5. link' \in [Users -> [Kinds -> 0..minted]]
    BY <1>0, <2>0, <2>4 DEF CodesOK
  <2>6. /\ \A v \in Users, l \in Kinds : link'[v][l] \in {0, link[v][l]}
        /\ \A v \in Users : recovery'[v] \subseteq recovery[v]
        /\ \A v \in Users : minted + 1 \notin recovery[v]
    BY <1>0, <2>1, <2>3, <2>4 DEF CodesOK
  <2>7. Drops
    BY <2>0, <2>1, <2>5, <2>6 DEF Drops
  <2>8. \A v \in Users \ Live' : v \notin Live \/ link'[v] = NoLinks
    BY <2>2, <2>3
  <2>9. mfa' \subseteq Live' /\ \A v \in Users \ mfa' : recovery'[v] = {}
    BY <1>0, <2>0, <2>1, <2>2
  <2>10. CodesOK'
    BY <2>7, <2>8, <2>9, DropsCodes
  <2>11. CodeInv' /\ UsesOK'
    BY <2>0, <2>7, DropsOnce
  <2>12. VerifyAt' /\ ChangeAt'
    BY <2>0, <2>2, <2>7, DropsMails
  <2>13. VerifiedMeansOwned'
    BY <2>0, <2>2 DEF MailInv, VerifiedMeansOwned, TypeOK
  <2> QED BY <2>10, <2>11, <2>12, <2>13 DEF CodeParts, MailInv
<1>11. ASSUME NEW p \in Procs, FinishReset(p)
       PROVE  CodeParts'
  <2> DEFINE u == job[p].user
             n == job[p].no
  <2>0. /\ HeldFall /\ link' = Cleared(u, "reset") /\ Uses(n) /\ n # 0 /\ n \in 1..minted
        /\ UNCHANGED <<minted, inbox, recovery, nameVars, mfa, owned, shared>>
    BY <1>0, <1>11, HeldFalls DEF FinishReset, JobFits, CodesOK
  <2>1. recovery \in [Users -> SUBSET (1..minted)] /\ minted \in Nat
    BY <1>0 DEF CodesOK
  <2>2. Drops /\ (u \in Users => link'[u]["reset"] = 0)
    BY <1>0, <2>0, <2>1, ClearDrops
  <2>3. Live' = Live /\ UNCHANGED <<email, verified, pending>>
    BY <2>0 DEF Live, nameVars
  <2>4. CodesOK'
    BY <1>0, <2>0, <2>2, <2>3, DropsCodes
  <2>5. VerifyAt' /\ ChangeAt'
    BY <2>2, <2>3, DropsMails
  <2>6. VerifiedMeansOwned'
    BY <2>0, <2>3 DEF MailInv, VerifiedMeansOwned
  <2>7. used' = used \cup {n} /\ twice' = twice \cup (used \cap {n})
    BY <2>0 DEF Uses
  <2>8. n \in used => n \in shared
    BY <2>0 DEF CodeInv, HeldIsReset
  <2>9. \A v \in Users : n \notin recovery[v]
    BY <2>0 DEF CodeInv, HeldIsReset
  <2>10. \A v \in Users, k \in Kinds : link[v][k] = n => v = u /\ k = "reset"
    BY <2>0 DEF CodeInv, HeldIsReset
  <2>11. \A v \in Users, k \in Kinds : link'[v][k] # n /\ link'[v][k] \in {0, link[v][k]}
    BY <2>0, <2>2, <2>10 DEF Drops
  <2>12. \A q \in Procs : job'[q].no # 0 =>
            q # p /\ job'[q].no = job[q].no /\ job'[q].user = job[q].user
    <3>1. \A q \in Procs : job'[q] = IF q = p THEN Idle ELSE job[q]
      BY <1>0, <1>11 DEF FinishReset, Leaves, JobsOK
    <3> QED BY <3>1, IdleHolds
  <2>13. UsesOK'
    BY <2>0, <2>7, Parts DEF UsesOK
  <2>14. OnePlace'
    <3>1. \A v \in Users : 0 \notin recovery[v]
      BY <2>1
    <3> QED BY <2>0, <2>11, <3>1 DEF CodeInv, OnePlace
  <2>15. Unused'
    <3>1. 0 \notin used'
      BY <2>1, <2>7, <2>0, Parts DEF UsesOK
    <3> QED BY <2>0, <2>7, <2>9, <2>11, <3>1 DEF CodeInv, Unused
  <2>16. HeldIsReset'
    <3>1. \A q \in Procs : q # p /\ job[q].no = n => n \in shared
      BY <2>0 DEF CodeInv, HeldTwiceIsShared
    <3> QED BY <2>0, <2>7, <2>11, <2>12, <3>1 DEF CodeInv, HeldIsReset
  <2>17. HeldTwiceIsShared'
    BY <2>0, <2>12 DEF CodeInv, HeldTwiceIsShared
  <2>18. LinkWorksOnce'
    BY <2>0, <2>7, <2>8 DEF CodeInv, LinkWorksOnce
  <2> QED BY <2>4, <2>5, <2>6, <2>13, <2>14, <2>15, <2>16, <2>17, <2>18
          DEF CodeParts, MailInv, CodeInv
<1>12. ASSUME NEW u \in Users, Forgot(u) \/ MagicRequest(u) \/ ResendCode(u)
       PROVE  CodeParts'
  <2>1. PICK k \in {"reset", "magic", "otp"} :
            /\ u \in Live /\ Mint(k, u, {email[u]}) /\ job' = job
            /\ UNCHANGED <<recovery, nameVars, useVars, shared, mfa, owned>>
    BY <1>12 DEF Forgot, MagicRequest, ResendCode
  <2>2. Mints(u, k, {email[u]})
    BY <1>0, <2>1, MintMints
  <2> QED BY <2>1, <2>2, HeldFalls, MintsAll
<1>13. ASSUME NEW u \in Users, ResendVerification(u)
       PROVE  CodeParts'
  <2>1. Mints(u, "verify", {email[u]}) /\ job' = job
    BY <1>0, <1>13, MintMints DEF ResendVerification
  <2> QED BY <2>1, HeldFalls, MintsAll
<1>14. ASSUME NEW u \in Users, ResendConfirm(u)
       PROVE  CodeParts'
  <2>1. pending[u] \in Addresses
    BY <1>14 DEF ResendConfirm, TypeOK
  <2>2. Mints(u, "change", {pending[u]}) /\ job' = job
    BY <1>0, <1>14, <2>1, MintMints DEF ResendConfirm
  <2> QED BY <2>2, HeldFalls, MintsAll
<1>15. ASSUME NEW u \in Users, CancelEmail(u)
       PROVE  CodeParts'
  <2>1. /\ HeldFall /\ link' = Cleared(u, "change") /\ pending' = [pending EXCEPT ![u] = None]
        /\ UNCHANGED <<minted, inbox, recovery, email, verified, useVars, mfa, owned, shared>>
    BY <1>15, HeldFalls DEF CancelEmail
  <2>2. recovery \in [Users -> SUBSET (1..minted)]
    BY <1>0 DEF CodesOK
  <2>3. Drops /\ link'[u]["change"] = 0
    BY <1>0, <2>1, <2>2, ClearDrops
  <2>4. \A v \in Live : pending'[v] = pending[v] \/ link'[v]["change"] = 0
    BY <2>1, <2>3 DEF TypeOK
  <2> QED BY <1>0, <2>1, <2>3, <2>4, DropsAll
<1>16. ASSUME NEW u \in Users, ConfirmEmail(u)
       PROVE  CodeParts'
  <2> DEFINE n == link[u]["change"]
             a == pending[u]
  <2>1. /\ HeldFall /\ link' = Cleared(u, "change") /\ pending' = [pending EXCEPT ![u] = None]
        /\ UNCHANGED <<minted, inbox, recovery, mfa, shared>> /\ n # 0 /\ u \in Live /\ Mailed(n)
    BY <1>16, HeldFalls DEF ConfirmEmail, Holds
  <2>2. recovery \in [Users -> SUBSET (1..minted)]
    BY <1>0 DEF CodesOK
  <2>3. Drops /\ link'[u]["change"] = 0
    BY <1>0, <2>1, <2>2, ClearDrops
  <2>4. \A v \in Live : pending'[v] = pending[v] \/ link'[v]["change"] = 0
    BY <2>1, <2>3 DEF TypeOK
  <2>5. CASE TakenByOther(u, a)
    <3>1. UNCHANGED <<email, verified, useVars, owned>>
      BY <1>16, <2>5 DEF ConfirmEmail
    <3> QED BY <1>0, <2>1, <2>3, <2>4, <3>1, DropsAll
  <2>6. CASE ~TakenByOther(u, a)
    <3>1. /\ email' = [email EXCEPT ![u] = a] /\ verified' = verified \cup {u} /\ Uses(n)
          /\ Owns(u, n) /\ a # None
      BY <1>16, <2>6 DEF ConfirmEmail
    <3>2. Live' = Live /\ \A v \in Live : email'[v] = IF v = u THEN a ELSE email[v]
      BY <2>1, <3>1 DEF Live, TypeOK
    <3>3. /\ n \in 1..minted /\ n \notin used
          /\ \A v \in Users, l \in Kinds : link[v][l] = n => v = u /\ l = "change"
          /\ \A v \in Users : n \notin recovery[v]
          /\ \A p \in Procs : job[p].no # n
      BY <1>0, <2>1, OnlyThere
    <3>4. \A v \in Users, l \in Kinds : link'[v][l] # n
      <4>1. \A v \in Users, l \in Kinds : link'[v][l] \in {0, link[v][l]}
        BY <2>3 DEF Drops
      <4> QED BY <2>1, <2>3, <3>3, <4>1
    <3>5. CodeInv' /\ UsesOK'
      <4> HIDE DEF n
      <4> QED BY <2>1, <2>3, <3>1, <3>3, <3>4, DropsOnce
    <3>6. VerifyAt' /\ ChangeAt'
      BY <2>3, <2>4, <3>1, <3>2, DropsMails
    <3>7. CodesOK'
      BY <1>0, <2>1, <2>3, <3>2, DropsCodes
    <3>8. VerifiedMeansOwned'
      <4>1. PICK m \in inbox : m[1] = n
        BY <2>1 DEF Mailed
      <4>2. m[2] = a
        BY <2>1, <4>1 DEF MailInv, ChangeAt
      <4>3. <<u, a>> \in owned' /\ owned \subseteq owned'
        BY <3>1, <4>1, <4>2 DEF Owns
      <4>4. verified \subseteq Live
        BY DEF TypeOK
      <4> QED BY <2>1, <3>1, <3>2, <4>3, <4>4 DEF MailInv, VerifiedMeansOwned
    <3> QED BY <3>5, <3>6, <3>7, <3>8 DEF CodeParts, MailInv
  <2> QED BY <2>5, <2>6
<1>17. ASSUME NEW u \in Users, VerifyEmail(u)
       PROVE  CodeParts'
  <2> DEFINE n == link[u]["verify"]
  <2>1. /\ HeldFall /\ UNCHANGED <<codeVars, email, pending, useVars, mfa, shared>>
        /\ u \in Live \ verified /\ Mailed(n) /\ verified' = verified \cup {u} /\ Owns(u, n)
    BY <1>17, HeldFalls DEF VerifyEmail, Holds
  <2>2. Drops /\ Live' = Live /\ recovery' = recovery
    BY <2>1, KeptDrops DEF Live, codeVars
  <2>3. VerifyAt' /\ ChangeAt'
    BY <2>1, <2>2, DropsMails
  <2>4. CodesOK'
    BY <1>0, <2>1, <2>2, DropsCodes
  <2>5. CodeInv' /\ UsesOK'
    BY <2>1, <2>2, DropsOnce
  <2>6. VerifiedMeansOwned'
    <3>1. PICK m \in inbox : m[1] = n
      BY <2>1 DEF Mailed
    <3>2. m[2] = email[u]
      BY <2>1, <3>1 DEF MailInv, VerifyAt
    <3>3. <<u, email[u]>> \in owned' /\ owned \subseteq owned'
      BY <2>1, <3>1, <3>2 DEF Owns
    <3> QED BY <2>1, <3>3 DEF MailInv, VerifiedMeansOwned
  <2> QED BY <2>3, <2>4, <2>5, <2>6 DEF CodeParts, MailInv
<1>18. ASSUME NEW u \in Users, NEW g \in Googles, GoogleSignIn(g, u)
       PROVE  CodeParts'
  BY <1>18, HeldFalls, QuietAll DEF GoogleSignIn
<1>19. ASSUME NEW u \in Users, NEW k \in {"magic", "otp"},
              link[u][k] # 0, link' = Cleared(u, k), Uses(link[u][k]), job' = job,
              UNCHANGED <<minted, inbox, recovery, nameVars, mfa, owned, shared>>
       PROVE  CodeParts'
  <2> DEFINE n == link[u][k]
  <2>1. recovery \in [Users -> SUBSET (1..minted)]
    BY <1>0 DEF CodesOK
  <2>2. Drops /\ link'[u][k] = 0
    BY <1>0, <1>19, <2>1, ClearDrops
  <2>3. /\ n \in 1..minted /\ n \notin used
        /\ \A v \in Users, l \in Kinds : link[v][l] = n => v = u /\ l = k
        /\ \A v \in Users : n \notin recovery[v]
        /\ \A p \in Procs : job[p].no # n
    BY <1>0, <1>19, OnlyThere
  <2>4. \A v \in Users, l \in Kinds : link'[v][l] # n
    BY <1>19, <2>2, <2>3 DEF Drops
  <2>5. HeldFall /\ UNCHANGED <<email, verified, pending, owned>> /\ shared' = shared
    BY <1>19, HeldFalls DEF nameVars
  <2> HIDE DEF n
  <2>6. Uses(n)
    BY <1>19 DEF n
  <2> QED BY <1>0, <1>19, <2>2, <2>3, <2>4, <2>5, <2>6, DropsAll
<1>20. ASSUME NEW u \in Users, MagicConsume(u) \/ LoginMfa(u)
       PROVE  CodeParts'
  BY <1>19, <1>20 DEF MagicConsume, LoginMfa, Holds
<1>21. ASSUME NEW u \in Users, ConfirmEnable(u)
       PROVE  CodeParts'
  <2> DEFINE n == link[u]["otp"]
  <2>1. /\ HeldFall /\ link' = Cleared(u, "otp") /\ Uses(n) /\ n # 0 /\ u \in Live
        /\ mfa' = mfa \cup {u} /\ minted' = New /\ recovery' = [recovery EXCEPT ![u] = {New}]
        /\ u \notin mfa /\ UNCHANGED <<inbox, nameVars, owned, shared>>
    BY <1>21, HeldFalls DEF ConfirmEnable, Holds
  <2>2. minted \in Nat /\ minted' = minted + 1 /\ 1..minted \subseteq 1..minted'
    BY <1>0, <2>1 DEF CodesOK, New
  <2>3. LinkBecomes(u, "otp", 0)
    BY <1>0, <2>1, ClearedFact
  <2>4. \A v \in Users : recovery'[v] = IF v = u THEN {minted + 1} ELSE recovery[v]
    BY <1>0, <2>1 DEF CodesOK, New
  <2>5. recovery' \in [Users -> SUBSET (1..minted')]
    <3>1. {minted + 1} \in SUBSET (1..minted')
      BY <2>2
    <3> QED BY <1>0, <2>1, <2>2, <3>1 DEF CodesOK, New
  <2>6. \A v \in Users : minted + 1 \notin recovery[v]
    <3>1. \A v \in Users : recovery[v] \subseteq 1..minted
      BY <1>0 DEF CodesOK
    <3>2. minted + 1 \notin 1..minted
      <4>1. minted \in Nat
        BY <2>2
      <4> QED BY <4>1
    <3> QED BY <3>1, <3>2
  <2>7. Drops
    BY <2>1, <2>2, <2>3, <2>4, <2>5, <2>6 DEF Drops, LinkBecomes
  <2>8. /\ n \in 1..minted /\ n \notin used
        /\ \A v \in Users, l \in Kinds : link[v][l] = n => v = u /\ l = "otp"
        /\ \A v \in Users : n \notin recovery[v]
        /\ \A p \in Procs : job[p].no # n
    BY <1>0, <2>1, OnlyThere
  <2>9. \A v \in Users, l \in Kinds : link'[v][l] # n
    <3>1. \A v \in Users, l \in Kinds : link'[v][l] = IF v = u /\ l = "otp" THEN 0 ELSE link[v][l]
      BY <2>3 DEF LinkBecomes
    <3> QED BY <2>1, <2>8, <3>1
  <2>10. \A v \in Users : n \notin recovery'[v]
    BY <2>2, <2>4, <2>8
  <2>11. mfa' \subseteq Live /\ \A v \in Users \ mfa' : recovery'[v] = {}
    BY <1>0, <2>1, <2>4
  <2> HIDE DEF n
  <2> QED BY <2>1, <2>7, <2>8, <2>9, <2>10, <2>11, DropsAll DEF nameVars
<1>22. ASSUME NEW u \in Users, LoginRecovery(u)
       PROVE  CodeParts'
  <2>1. PICK c \in recovery[u] : recovery' = [recovery EXCEPT ![u] = recovery[u] \ {c}] /\ Uses(c)
    BY <1>22 DEF LoginRecovery
  <2>2. /\ HeldFall /\ link' = Cleared(u, "otp")
        /\ UNCHANGED <<minted, inbox, nameVars, mfa, owned, shared>>
    BY <1>22, HeldFalls DEF LoginRecovery
  <2>3. /\ recovery' \in [Users -> SUBSET (1..minted)] /\ c \in 1..minted
        /\ \A v \in Users : recovery'[v] = IF v = u THEN recovery[v] \ {c} ELSE recovery[v]
    BY <1>0, <2>1 DEF CodesOK
  <2>4. Drops
    BY <1>0, <2>2, <2>3, ClearDrops
  <2>5. /\ c \notin used /\ \A v \in Users, l \in Kinds : link[v][l] # c
        /\ \A v \in Users : v # u => c \notin recovery[v]
    BY <2>1 DEF CodeInv, OnePlace, Unused
  <2>6. \A p \in Procs : job[p].no # c
    <3>1. c # 0
      BY <1>0, <2>3 DEF CodesOK
    <3> QED BY <2>1, <3>1 DEF CodeInv, HeldIsReset
  <2>7. \A v \in Users, l \in Kinds : link'[v][l] # c
    <3>1. c # 0
      BY <1>0, <2>3 DEF CodesOK
    <3> QED BY <2>4, <2>5, <3>1 DEF Drops
  <2>8. \A v \in Users : c \notin recovery'[v]
    BY <2>3, <2>5
  <2>9. mfa' \subseteq Live /\ \A v \in Users \ mfa' : recovery'[v] = {}
    BY <1>0, <2>2, <2>3
  <2> QED BY <2>1, <2>2, <2>3, <2>4, <2>5, <2>6, <2>7, <2>8, <2>9, DropsAll DEF nameVars
<1>23. ASSUME NEW u \in Users, NEW k \in Kinds, Expire(u, k)
       PROVE  CodeParts'
  <2>1. /\ HeldFall /\ link' = [link EXCEPT ![u] = [link[u] EXCEPT ![k] = 0]]
        /\ UNCHANGED <<recovery, minted, inbox, nameVars, useVars, mfa, owned, shared>>
    BY <1>0, <1>23, HeldFalls DEF Expire, CodesOK
  <2>2. minted \in Nat /\ 0 \in 0..minted
    BY <1>0 DEF CodesOK
  <2>3. link' \in [Users -> [Kinds -> 0..minted]]
    BY <1>0, <2>1, <2>2 DEF CodesOK
  <2>4. \A v \in Users, l \in Kinds : link'[v][l] = IF v = u /\ l = k THEN 0 ELSE link[v][l]
    BY <1>0, <2>1 DEF CodesOK
  <2>5. \A v \in Users : minted + 1 \notin recovery[v]
    <3>1. \A v \in Users : recovery[v] \subseteq 1..minted
      BY <1>0 DEF CodesOK
    <3>2. minted + 1 \notin 1..minted
      <4>1. minted \in Nat
        BY <2>2
      <4> QED BY <4>1
    <3> QED BY <3>1, <3>2
  <2>6. Drops
    BY <1>0, <2>1, <2>3, <2>4, <2>5 DEF Drops, CodesOK
  <2> QED BY <1>0, <2>1, <2>6, DropsAll DEF nameVars
<1>24. CASE Refused
  BY <1>24, HeldFalls, QuietAll DEF Refused, vars, nameVars
<1>25. ASSUME NEW u \in Users,
             \/ Forgot(u) \/ ResendConfirm(u) \/ CancelEmail(u) \/ ConfirmEmail(u)
             \/ ResendVerification(u) \/ VerifyEmail(u) \/ MagicRequest(u) \/ MagicConsume(u)
             \/ \E g \in Googles : GoogleSignIn(g, u)
             \/ ConfirmEnable(u) \/ ResendCode(u) \/ LoginMfa(u) \/ LoginRecovery(u)
             \/ \E k \in Kinds : Expire(u, k)
       PROVE  CodeParts'
  BY <1>12, <1>13, <1>14, <1>15, <1>16, <1>17, <1>18, <1>20, <1>21, <1>22, <1>23, <1>25
<1>26. ASSUME NEW p \in Procs, NEW u \in Users, NEW w \in Passwords,
             \/ BeginLogin(p, u, w) \/ BeginReset(p, u, w) \/ BeginEnable(p, u, w)
             \/ BeginDisable(p, u, w) \/ BeginDelete(p, u, w)
             \/ \E next \in Passwords : BeginChange(p, u, w, next)
             \/ \E a \in Addresses : BeginEmail(p, u, w, a)
       PROVE  CodeParts'
  BY <1>2, <1>3, <1>26
<1> QED BY <1>1, <1>4, <1>5, <1>6, <1>7, <1>8, <1>9, <1>10, <1>11, <1>24, <1>25, <1>26 DEF Next

-----------------------------------------------------------------------------
(* The theorems.                                                           *)

LEMMA InvNext == IInv /\ [Next]_vars => IInv'
<1> SUFFICES ASSUME IInv, [Next]_vars
             PROVE  IInv'
  OBVIOUS
<1>0. TypeOK /\ JobFits /\ MailInv /\ CodeInv /\ PasswordInv
  BY DEF IInv
<1>1. Next
  BY DEF Next, Refused
<1>2. NamesOK' /\ JobsOK' /\ JobFits' /\ PasswordsOK' /\ PasswordInv'
  BY <1>0, <1>1, NamesStep, JobsStep, PasswordsStep
<1>3. CodesOK' /\ UsesOK' /\ MailInv' /\ CodeInv'
  BY <1>0, <1>1, CodesStep DEF CodeParts
<1>4. TypeOK'
  BY <1>2, <1>3
     DEF TypeOK, NamesOK, PasswordsOK, CodesOK, UsesOK, JobsOK
<1> QED BY <1>2, <1>3, <1>4 DEF IInv

\* The invariant holds of every reachable state.
THEOREM IInvHolds == Spec => []IInv
<1> QED BY InitInv, InvNext, PTL DEF Spec

\* Types, rows of deleted accounts, and unique addresses, for any instance.
THEOREM TypeCorrect == Spec => []TypeOK
<1>1. IInv => TypeOK
  BY DEF IInv
<1> QED BY <1>1, IInvHolds, PTL

\* A verified address was proved by a click on a mail to it.
THEOREM VerifiedMeansOwnedHolds == Spec => []VerifiedMeansOwned
<1>1. IInv => VerifiedMeansOwned
  BY DEF IInv, MailInv
<1> QED BY <1>1, IInvHolds, PTL

\* Links and codes work once, but for a reset link of two requests.
THEOREM LinkWorksOnceHolds == Spec => []LinkWorksOnce
<1>1. IInv => LinkWorksOnce
  BY DEF IInv, CodeInv
<1> QED BY <1>1, IInvHolds, PTL

\* Without a re-hash in between, the last password set is the one that works.
THEOREM PasswordIsTheLatestHolds == Spec => []PasswordIsTheLatest
<1>1. IInv => PasswordIsTheLatest
  BY DEF IInv, PasswordInv
<1> QED BY <1>1, IInvHolds, PTL

-----------------------------------------------------------------------------
(* Refinement of AccountPromise.                                           *)

LEMMA RegisterRefines ==
    ASSUME IInv, NEW p \in Procs, FinishRegister(p)
    PROVE  [Promise!Next]_(Promise!promise)
<1> DEFINE a == job[p].addr
<1>0. NamesOK /\ a \in Addresses /\ a # None
  BY Parts, AccountAssumption DEF IInv, FinishRegister, JobFits
<1>1. CASE UNCHANGED nameVars
  BY <1>1 DEF FinishRegister, nameVars, Promise!promise
<1>2. CASE ~Registered(a) /\ born # Users
  <2>1. PICK u \in Users \ born : /\ born' = born \cup {u} /\ email' = [email EXCEPT ![u] = a]
                                  /\ UNCHANGED <<verified, pending, owned>>
    BY <1>2 DEF FinishRegister
  <2>2. \A v \in Users : email[v] # a
    BY <1>0, <1>2 DEF Registered, Live
  <2>3. Promise!Join(u, a)
    BY <2>1, <2>2 DEF Promise!Join, Promise!Free
  <2> QED BY <1>0, <2>3 DEF Promise!Next
<1> QED BY <1>1, <1>2 DEF FinishRegister

LEMMA WantRefines ==
    ASSUME NamesOK, NEW u, NEW a \in Addresses \cup {None},
           pending' = Updated(pending, u, a), UNCHANGED <<born, email, verified, owned>>
    PROVE  [Promise!Next]_(Promise!promise)
<1>1. CASE u \notin Live
  BY <1>1 DEF Updated, Promise!promise
<1>2. CASE u \in Live
  <2>1. Promise!Want(u, a)
    BY <1>2 DEF Updated, Live, Promise!Want
  <2> QED BY <1>2, <2>1 DEF Promise!Next, Live
<1> QED BY <1>1, <1>2

\* The change link was mailed to the pending address and nowhere else, so
\* that a click proves that address.
LEMMA ConfirmRefines ==
    ASSUME IInv, NEW u \in Users, ConfirmEmail(u)
    PROVE  [Promise!Next]_(Promise!promise)
<1> DEFINE a == pending[u]
           n == link[u]["change"]
<1>0. NamesOK /\ u \in Live /\ a \in Addresses /\ a # None /\ ChangeAt
  BY Parts DEF IInv, MailInv, ConfirmEmail, Holds, NamesOK
<1>1. CASE TakenByOther(u, a)
  <2>1. pending' = Updated(pending, u, None) /\ UNCHANGED <<born, email, verified, owned>>
    BY <1>0, <1>1 DEF ConfirmEmail, Updated
  <2> QED BY <1>0, <2>1, WantRefines
<1>2. CASE ~TakenByOther(u, a)
  <2>1. /\ email' = [email EXCEPT ![u] = a] /\ pending' = [pending EXCEPT ![u] = None]
        /\ verified' = verified \cup {u} /\ born' = born /\ Owns(u, n)
    BY <1>2 DEF ConfirmEmail
  <2>2. \A v \in Users : v # u => email[v] # a
    BY <1>0, <1>2 DEF TakenByOther, Live
  <2>3. \A m \in inbox : m[1] = n => m[2] = a
    BY <1>0 DEF ChangeAt
  <2>4. \E m \in inbox : m[1] = n
    BY DEF ConfirmEmail, Holds, Mailed
  <2>5. owned' = owned \cup {<<u, a>>}
    BY <2>1, <2>3, <2>4 DEF Owns
  <2>6. Promise!Move(u)
    BY <1>0, <2>1, <2>2, <2>5 DEF Promise!Move, Promise!Free, Promise!Click
  <2> QED BY <2>6 DEF Promise!Next
<1> QED BY <1>1, <1>2

LEMMA VerifyRefines ==
    ASSUME IInv, NEW u \in Users, VerifyEmail(u)
    PROVE  [Promise!Next]_(Promise!promise)
<1> DEFINE n == link[u]["verify"]
<1>1. u \in Live \ verified /\ VerifyAt
  BY DEF IInv, MailInv, VerifyEmail, Holds
<1>2. \A m \in inbox : m[1] = n => m[2] = email[u]
  BY <1>1 DEF VerifyAt
<1>3. \E m \in inbox : m[1] = n
  BY DEF VerifyEmail, Holds, Mailed
<1>4. owned' = owned \cup {<<u, email[u]>>}
  BY <1>2, <1>3 DEF VerifyEmail, Owns
<1>5. Promise!Verify(u)
  BY <1>1, <1>4 DEF VerifyEmail, Promise!Verify, Promise!Click, Live
<1> QED BY <1>5 DEF Promise!Next

LEMMA DeleteRefines ==
    ASSUME NamesOK, NEW p \in Procs, FinishDelete(p)
    PROVE  [Promise!Next]_(Promise!promise)
<1> DEFINE u == job[p].user
<1>1. /\ email' = [email EXCEPT ![u] = None] /\ pending' = [pending EXCEPT ![u] = None]
      /\ verified' = verified \ {u} /\ UNCHANGED <<born, owned>>
  BY DEF FinishDelete
<1> HIDE DEF u
<1>2. CASE u \in Users
  <2>1. Promise!Leave(u)
    BY <1>1 DEF Promise!Leave
  <2> QED BY <1>2, <2>1 DEF Promise!Next
<1>3. CASE u \notin Users
  <2>1. UNCHANGED <<email, pending, verified>>
    BY <1>1, <1>3 DEF NamesOK, Live
  <2> QED BY <1>1, <2>1 DEF Promise!promise
<1> QED BY <1>2, <1>3

LEMMA StepRefines == IInv /\ [Next]_vars => [Promise!Next]_(Promise!promise)
<1> SUFFICES ASSUME IInv, [Next]_vars PROVE [Promise!Next]_(Promise!promise)
  OBVIOUS
<1>0. NamesOK /\ JobFits
  BY Parts DEF IInv
<1>1. CASE UNCHANGED <<nameVars, owned>>
  BY <1>1 DEF nameVars, Promise!promise
<1>2. ASSUME NEW p \in Procs, FinishEmail(p)
      PROVE  [Promise!Next]_(Promise!promise)
  <2>1. job[p].addr \in Addresses
    BY <1>0, <1>2 DEF FinishEmail, JobFits
  <2> QED BY <1>0, <1>2, <2>1, WantRefines DEF FinishEmail
<1>3. ASSUME NEW u \in Users, CancelEmail(u)
      PROVE  [Promise!Next]_(Promise!promise)
  <2>1. pending' = Updated(pending, u, None)
    BY <1>3 DEF CancelEmail, Updated
  <2> QED BY <1>0, <1>3, <2>1, WantRefines DEF CancelEmail
<1>4. ASSUME NEW u \in Users, NEW g \in Googles, GoogleSignIn(g, u)
      PROVE  [Promise!Next]_(Promise!promise)
  BY <1>4 DEF GoogleSignIn, Promise!promise
<1>5. Next
  BY DEF Next, Refused
<1> QED BY <1>0, <1>1, <1>2, <1>3, <1>4, <1>5, NamesNext,
           RegisterRefines, ConfirmRefines, VerifyRefines, DeleteRefines

\* Every behaviour of the handlers keeps the promise: an account moves only to
\* an address that its owner asked for, that no other account has, and that a
\* click on a mail to it has proved.
THEOREM ImplementsPromise == Spec => PromiseKept
<1>1. Init => Promise!Init
  <2> SUFFICES ASSUME Init PROVE Promise!Init
    OBVIOUS
  <2>1. PICK u \in Users, a \in Addresses :
            /\ born = {u} /\ email = [v \in Users |-> IF v = u THEN a ELSE None]
            /\ verified \in SUBSET {u}
    BY DEF Init
  <2> QED BY <2>1 DEF Init, Promise!Init
<1> QED BY <1>1, StepRefines, IInvHolds, PTL DEF Spec, PromiseKept, Promise!Spec
=============================================================================
