-------------------------------- MODULE Accounts --------------------------------
(***************************************************************************)
(* Accounts (routes/auth.js): registration, passwords, reset links, change *)
(* and verification of the address, magic links, Google sign-in, the       *)
(* second factor and deletion.  Hashing and comparing passwords is awaited: *)
(* a handler that does goes on, from what it had read, when others have    *)
(* changed the row.  What a handler does after its last read or await, and *)
(* what it does without any, is one step.                                  *)
(*                                                                         *)
(* Sessions are stateless and left out: whoever needs one has one.  Links, *)
(* mailed codes and recovery codes are numbers, never given twice.         *)
(***************************************************************************)
EXTENDS Integers

CONSTANTS
    Users,       \* ids of account rows; none is given twice
    Addresses,
    Passwords,
    Googles,     \* Google accounts
    Procs,       \* requests that can be under way together
    None,        \* NULL
    MaxRequests  \* bound

ASSUME AccountAssumption ==
    /\ None \notin Users \cup Addresses \cup Passwords \cup Googles
    /\ MaxRequests \in Nat

VARIABLES
    born,      \* ids in use, now or before
    email,     \* users.email, None for ids without a row
    verified,  \* email_verified_at is set
    password,  \* what password_hash is the hash of
    oldHash,   \* users whose hash has an older cost
    link,      \* the token hashes of the row, 0 for NULL or expired
    pending,   \* pending_email
    google,    \* google_sub
    mfa,       \* mfa_enabled
    recovery,  \* unused rows of mfa_recovery_codes
    job,       \* what a handler holds over its await
    requests,
    minted,    \* links and codes made so far
    inbox,     \* HISTORY: links and codes that were mailed, and where to
    owned,     \* HISTORY: accounts and addresses, by a clicked mail
    used,      \* HISTORY: links and codes that did what they are for
    twice,     \* HISTORY: those that did it again
    shared,    \* HISTORY: reset links two requests held at a time
    latest,    \* HISTORY: the password set last
    raced      \* HISTORY: users whose password was set during a re-hash

codeVars == <<link, recovery, minted, inbox>>
nameVars == <<born, email, verified, pending, google>>
passVars == <<password, oldHash, latest, raced>>
useVars == <<used, twice>>
vars == <<codeVars, nameVars, passVars, useVars, mfa, job, requests, owned, shared>>

Kinds == {"verify", "change", "reset", "magic", "otp"}
NoLinks == [k \in Kinds |-> 0]
Live == {u \in Users : email[u] # None}
Registered(a) == \E u \in Live : email[u] = a

Job(op, user, pw, addr, no, todo) ==
    [op |-> op, user |-> user, pw |-> pw, addr |-> addr, no |-> no, todo |-> todo]
Idle == Job("none", None, None, None, 0, {})

\* One account of an earlier time, and free ids.
Init ==
    /\ \E u \in Users, a \in Addresses, w \in Passwords :
        /\ born = {u}
        /\ email = [v \in Users |-> IF v = u THEN a ELSE None]
        /\ password = [v \in Users |-> IF v = u THEN w ELSE None]
        /\ verified \in SUBSET {u} /\ oldHash \in SUBSET {u} /\ mfa \in SUBSET {u}
    /\ link = [u \in Users |-> NoLinks]
    /\ pending = [u \in Users |-> None]
    /\ google = [u \in Users |-> None]
    /\ recovery = [u \in Users |-> IF u \in mfa THEN {1} ELSE {}]
    /\ job = [p \in Procs |-> Idle]
    /\ requests = 0 /\ minted = 1
    /\ inbox = {} /\ used = {} /\ twice = {} /\ shared = {} /\ raced = {}
    /\ owned = {<<u, email[u]>> : u \in verified}
    /\ latest = password

Ask == requests < MaxRequests /\ requests' = requests + 1

\* A handler awaits a hash.
Awaits(p, held) == job[p] = Idle /\ job' = [job EXCEPT ![p] = held]
Leaves(p) == job' = [job EXCEPT ![p] = Idle]

\* Mutant: the row is written back whole.
Upserted(f, u, v) == [f EXCEPT ![u] = v]

\* UPDATE ... WHERE id = ?
Updated(f, u, v) == IF u \in Live THEN [f EXCEPT ![u] = v] ELSE f

\* Mutant: comparePassword is not awaited, and a promise is truthy.
MatchesUnawaited(u, w) == w \in Passwords

Matches(u, w) == password[u] = w

New == minted + 1

\* A fresh link of kind k on the row of u, mailed to some addresses.
Mint(k, u, to) ==
    /\ minted' = New
    /\ link' = Updated(link, u, [link[u] EXCEPT ![k] = New])
    /\ inbox' = inbox \cup ({New} \X to)

Mailed(n) == n \in {m[1] : m \in inbox}

\* The link or code of kind k that somebody has in a mail.
Holds(u, k) == u \in Live /\ link[u][k] # 0 /\ Mailed(link[u][k])

\* Mutant: the link stays on the row.
Kept(u, k) == link

Cleared(u, k) == Updated(link, u, [link[u] EXCEPT ![k] = 0])

Uses(n) == used' = used \cup {n} /\ twice' = twice \cup (used \cap {n})

-----------------------------------------------------------------------------
(* Registration and passwords.                                             *)

BeginRegister(p, a, w) ==
    /\ Ask
    /\ ~Registered(a) /\ born # Users
    /\ Awaits(p, Job("register", None, w, a, 0, {}))
    /\ UNCHANGED <<codeVars, nameVars, passVars, useVars, mfa, owned, shared>>

\* The insert throws on its unique index when the address is taken meanwhile.
FinishRegister(p) ==
    LET a == job[p].addr IN
    /\ job[p].op = "register"
    /\ Leaves(p)
    /\ IF Registered(a) \/ born = Users
       THEN UNCHANGED <<codeVars, nameVars, passVars>>
       ELSE \E u \in Users \ born :
            /\ born' = born \cup {u}
            /\ email' = [email EXCEPT ![u] = a]
            /\ password' = [password EXCEPT ![u] = job[p].pw]
            /\ latest' = [latest EXCEPT ![u] = job[p].pw]
            /\ minted' = New
            /\ link' = [link EXCEPT ![u] = [NoLinks EXCEPT !["verify"] = New]]
            /\ inbox' = inbox \cup {<<New, a>>}
            /\ UNCHANGED <<verified, pending, google, recovery, oldHash, raced>>
    /\ UNCHANGED <<useVars, mfa, requests, owned, shared>>

\* The password is compared; a hash of the old cost is renewed and a second
\* factor asked for, as the row was when it was read.
BeginLogin(p, u, w) ==
    /\ Ask
    /\ u \in Live /\ Matches(u, w)
    /\ Awaits(p, Job("login", u, w, email[u], 0,
                     {t \in {"rehash", "code"} : IF t = "rehash" THEN u \in oldHash ELSE u \in mfa}))
    /\ UNCHANGED <<codeVars, nameVars, passVars, useVars, mfa, owned, shared>>

FinishLogin(p) ==
    LET u == job[p].user IN
    /\ job[p].op = "login"
    /\ Leaves(p)
    /\ IF "rehash" \in job[p].todo
       THEN /\ password' = Updated(password, u, job[p].pw)
            /\ oldHash' = oldHash \ {u}
       ELSE UNCHANGED <<password, oldHash>>
    /\ IF "code" \in job[p].todo
       THEN Mint("otp", u, {job[p].addr}) /\ UNCHANGED recovery
       ELSE UNCHANGED codeVars
    /\ UNCHANGED <<nameVars, useVars, latest, raced, mfa, requests, owned, shared>>

\* A password is set; a re-hash under way may overwrite it.
Sets(p, u, w) ==
    /\ password' = Updated(password, u, w)
    /\ latest' = Updated(latest, u, w)
    /\ oldHash' = oldHash \ {u}
    /\ raced' = IF \E q \in Procs : job[q].user = u /\ "rehash" \in job[q].todo
                THEN raced \cup {u} ELSE raced \ {u}

\* PUT /auth/password.
BeginChange(p, u, w, next) ==
    /\ Ask
    /\ u \in Live /\ Matches(u, w) /\ next # w
    /\ Awaits(p, Job("change", u, next, None, 0, {}))
    /\ UNCHANGED <<codeVars, nameVars, passVars, useVars, mfa, owned, shared>>

FinishChange(p) ==
    /\ job[p].op = "change"
    /\ Leaves(p)
    /\ Sets(p, job[p].user, job[p].pw)
    /\ UNCHANGED <<codeVars, nameVars, useVars, mfa, requests, owned, shared>>

\* POST /auth/forgot-password, outside its cooldown.
Forgot(u) ==
    /\ Ask
    /\ u \in Live
    /\ Mint("reset", u, {email[u]})
    /\ UNCHANGED <<recovery, nameVars, passVars, useVars, mfa, job, owned, shared>>

\* The link is looked up before the hash and cleared after it.
BeginReset(p, u, w) ==
    /\ Ask
    /\ Holds(u, "reset")
    /\ Awaits(p, Job("reset", u, w, None, link[u]["reset"], {}))
    /\ shared' = shared \cup ({link[u]["reset"]} \cap {job[q].no : q \in Procs})
    /\ UNCHANGED <<codeVars, nameVars, passVars, useVars, mfa, owned>>

FinishReset(p) ==
    LET u == job[p].user IN
    /\ job[p].op = "reset"
    /\ Leaves(p)
    /\ Sets(p, u, job[p].pw)
    /\ link' = Cleared(u, "reset")
    /\ Uses(job[p].no)
    /\ UNCHANGED <<nameVars, recovery, minted, inbox, mfa, requests, owned, shared>>

-----------------------------------------------------------------------------
(* The address.                                                            *)

BeginEmail(p, u, w, a) ==
    /\ Ask
    /\ u \in Live /\ Matches(u, w) /\ a # email[u]
    /\ Awaits(p, Job("email", u, None, a, 0, {}))
    /\ UNCHANGED <<codeVars, nameVars, passVars, useVars, mfa, owned, shared>>

TakenByOther(u, a) == \E v \in Live \ {u} : email[v] = a

\* Mutant: a new address, but still the link of the one before.
StoredEarlierLink(u) == IF link[u]["change"] # 0 THEN link ELSE Updated(link, u, [link[u] EXCEPT !["change"] = New])

StoredNewLink(u) == Updated(link, u, [link[u] EXCEPT !["change"] = New])

\* Nothing is mailed to an address that another account has.
FinishEmail(p) ==
    LET u == job[p].user  a == job[p].addr IN
    /\ job[p].op = "email"
    /\ Leaves(p)
    /\ pending' = Updated(pending, u, a)
    /\ minted' = New
    /\ link' = StoredNewLink(u)
    /\ inbox' = IF TakenByOther(u, a) THEN inbox ELSE inbox \cup {<<New, a>>}
    /\ UNCHANGED <<born, email, verified, google, recovery, passVars, useVars, mfa, requests,
                   owned, shared>>

\* POST /auth/email/resend-confirm: a new link, to the same address.
ResendConfirm(u) ==
    /\ Ask
    /\ u \in Live /\ pending[u] # None
    /\ Mint("change", u, {pending[u]})
    /\ UNCHANGED <<recovery, nameVars, passVars, useVars, mfa, job, owned, shared>>

\* DELETE /auth/email/pending, and the click on a link that has expired.
CancelEmail(u) ==
    /\ Ask
    /\ u \in Live
    /\ pending' = [pending EXCEPT ![u] = None]
    /\ link' = Cleared(u, "change")
    /\ UNCHANGED <<born, email, verified, google, recovery, minted, inbox, passVars, useVars,
                   mfa, job, owned, shared>>

\* By a mail with link n: whoever clicks reads one of its addresses.
Owns(u, n) == owned' = owned \cup {<<u, m[2]>> : m \in {i \in inbox : i[1] = n}}

\* POST /auth/email/confirm.  If the address was taken meanwhile, the change
\* is dropped.
ConfirmEmail(u) ==
    LET n == link[u]["change"]  a == pending[u] IN
    /\ Ask
    /\ Holds(u, "change") /\ a # None
    /\ link' = Cleared(u, "change")
    /\ pending' = [pending EXCEPT ![u] = None]
    /\ IF TakenByOther(u, a)
       THEN UNCHANGED <<email, verified, useVars, owned>>
       ELSE /\ email' = [email EXCEPT ![u] = a]
            /\ verified' = verified \cup {u}
            /\ Uses(n)
            /\ Owns(u, n)
    /\ UNCHANGED <<born, google, recovery, minted, inbox, passVars, mfa, job, shared>>

\* POST /auth/resend-verification.
ResendVerification(u) ==
    /\ Ask
    /\ u \in Live \ verified
    /\ Mint("verify", u, {email[u]})
    /\ UNCHANGED <<recovery, nameVars, passVars, useVars, mfa, job, owned, shared>>

\* POST /auth/verify-email keeps the link: another click finds the address
\* verified and does nothing.
VerifyEmail(u) ==
    /\ Ask
    /\ Holds(u, "verify") /\ u \notin verified
    /\ verified' = verified \cup {u}
    /\ Owns(u, link[u]["verify"])
    /\ UNCHANGED <<codeVars, born, email, pending, google, passVars, useVars, mfa, job, shared>>

-----------------------------------------------------------------------------
(* Other ways in.                                                          *)

MagicRequest(u) ==
    /\ Ask
    /\ u \in Live
    /\ Mint("magic", u, {email[u]})
    /\ UNCHANGED <<recovery, nameVars, passVars, useVars, mfa, job, owned, shared>>

MagicConsume(u) ==
    /\ Ask
    /\ Holds(u, "magic")
    /\ link' = Cleared(u, "magic")
    /\ Uses(link[u]["magic"])
    /\ UNCHANGED <<recovery, minted, inbox, nameVars, passVars, mfa, job, owned, shared>>

\* A Google account that is not linked yet is linked to the account with its
\* address.  Without one an account is inserted with password_hash NULL, which
\* the column does not take: nothing happens.
GoogleSignIn(g, u) ==
    /\ Ask
    /\ u \in Live /\ \A v \in Live : google[v] # g
    /\ google' = [google EXCEPT ![u] = g]
    /\ UNCHANGED <<codeVars, born, email, verified, pending, passVars, useVars, mfa, job, owned,
                   shared>>

\* POST /auth/mfa/enable mails a code.
BeginEnable(p, u, w) ==
    /\ Ask
    /\ u \in Live \ mfa /\ Matches(u, w)
    /\ Awaits(p, Job("enable", u, None, email[u], 0, {}))
    /\ UNCHANGED <<codeVars, nameVars, passVars, useVars, mfa, owned, shared>>

FinishEnable(p) ==
    /\ job[p].op = "enable"
    /\ Leaves(p)
    /\ Mint("otp", job[p].user, {job[p].addr})
    /\ UNCHANGED <<recovery, nameVars, passVars, useVars, mfa, requests, owned, shared>>

\* The ten recovery codes are one here.
ConfirmEnable(u) ==
    /\ Ask
    /\ Holds(u, "otp") /\ u \notin mfa
    /\ mfa' = mfa \cup {u}
    /\ link' = Cleared(u, "otp")
    /\ minted' = New
    /\ recovery' = [recovery EXCEPT ![u] = {New}]
    /\ Uses(link[u]["otp"])
    /\ UNCHANGED <<inbox, nameVars, passVars, job, owned, shared>>

BeginDisable(p, u, w) ==
    /\ Ask
    /\ u \in Live \cap mfa /\ Matches(u, w)
    /\ Awaits(p, Job("disable", u, None, None, 0, {}))
    /\ UNCHANGED <<codeVars, nameVars, passVars, useVars, mfa, owned, shared>>

FinishDisable(p) ==
    LET u == job[p].user IN
    /\ job[p].op = "disable"
    /\ Leaves(p)
    /\ mfa' = mfa \ {u}
    /\ link' = Cleared(u, "otp")
    /\ recovery' = [recovery EXCEPT ![u] = {}]
    /\ UNCHANGED <<minted, inbox, nameVars, passVars, useVars, requests, owned, shared>>

ResendCode(u) ==
    /\ Ask
    /\ u \in Live \cap mfa
    /\ Mint("otp", u, {email[u]})
    /\ UNCHANGED <<recovery, nameVars, passVars, useVars, mfa, job, owned, shared>>

\* POST /auth/login/mfa.
LoginMfa(u) ==
    /\ Ask
    /\ Holds(u, "otp") /\ u \in mfa
    /\ link' = Cleared(u, "otp")
    /\ Uses(link[u]["otp"])
    /\ UNCHANGED <<recovery, minted, inbox, nameVars, passVars, mfa, job, owned, shared>>

\* POST /auth/login/recovery.
LoginRecovery(u) ==
    /\ Ask
    /\ u \in Live \cap mfa
    /\ \E c \in recovery[u] :
        /\ recovery' = [recovery EXCEPT ![u] = @ \ {c}]
        /\ Uses(c)
    /\ link' = Cleared(u, "otp")
    /\ UNCHANGED <<minted, inbox, nameVars, passVars, mfa, job, owned, shared>>

\* A link or code is outlived: it stays on the row and is good for nothing.
Expire(u, k) ==
    /\ link[u][k] # 0
    /\ link' = [link EXCEPT ![u][k] = 0]
    /\ UNCHANGED <<recovery, minted, inbox, nameVars, passVars, useVars, mfa, job, requests, owned,
                   shared>>

-----------------------------------------------------------------------------
(* DELETE /auth/me.                                                        *)

BeginDelete(p, u, w) ==
    /\ Ask
    /\ u \in Live /\ Matches(u, w)
    /\ Awaits(p, Job("delete", u, None, None, 0, {}))
    /\ UNCHANGED <<codeVars, nameVars, passVars, useVars, mfa, owned, shared>>

FinishDelete(p) ==
    LET u == job[p].user IN
    /\ job[p].op = "delete"
    /\ Leaves(p)
    /\ email' = [email EXCEPT ![u] = None]
    /\ password' = [password EXCEPT ![u] = None]
    /\ latest' = [latest EXCEPT ![u] = None]
    /\ pending' = [pending EXCEPT ![u] = None]
    /\ google' = [google EXCEPT ![u] = None]
    /\ link' = [link EXCEPT ![u] = NoLinks]
    /\ recovery' = [recovery EXCEPT ![u] = {}]
    /\ verified' = verified \ {u} /\ oldHash' = oldHash \ {u} /\ mfa' = mfa \ {u}
    /\ UNCHANGED <<born, raced, minted, inbox, useVars, requests, owned, shared>>

\* A request that is answered with an error.
Refused == UNCHANGED vars

Next ==
    \/ \E p \in Procs, a \in Addresses, w \in Passwords : BeginRegister(p, a, w)
    \/ \E p \in Procs, u \in Users, w \in Passwords :
        \/ BeginLogin(p, u, w)
        \/ \E next \in Passwords : BeginChange(p, u, w, next)
        \/ BeginReset(p, u, w)
        \/ \E a \in Addresses : BeginEmail(p, u, w, a)
        \/ BeginEnable(p, u, w)
        \/ BeginDisable(p, u, w)
        \/ BeginDelete(p, u, w)
    \/ \E p \in Procs :
        \/ FinishRegister(p)
        \/ FinishLogin(p)
        \/ FinishChange(p)
        \/ FinishReset(p)
        \/ FinishEmail(p)
        \/ FinishEnable(p)
        \/ FinishDisable(p)
        \/ FinishDelete(p)
    \/ \E u \in Users :
        \/ Forgot(u)
        \/ ResendConfirm(u)
        \/ CancelEmail(u)
        \/ ConfirmEmail(u)
        \/ ResendVerification(u)
        \/ VerifyEmail(u)
        \/ MagicRequest(u)
        \/ MagicConsume(u)
        \/ \E g \in Googles : GoogleSignIn(g, u)
        \/ ConfirmEnable(u)
        \/ ResendCode(u)
        \/ LoginMfa(u)
        \/ LoginRecovery(u)
        \/ \E k \in Kinds : Expire(u, k)
    \/ Refused

Spec == Init /\ [][Next]_vars

-----------------------------------------------------------------------------
(* Properties.                                                             *)

Jobs == [op : {"none", "register", "login", "change", "reset", "email", "enable", "disable", "delete"},
         user : Users \cup {None}, pw : Passwords \cup {None}, addr : Addresses \cup {None},
         no : Nat, todo : SUBSET {"rehash", "code"}]

\* Types.  No two accounts have an address or a Google account in common; a
\* handler that comes back after its await leaves nothing in the row of a
\* deleted account; and only who has the second factor on has recovery codes.
TypeOK ==
    /\ born \subseteq Users /\ Live \subseteq born
    /\ email \in [Users -> Addresses \cup {None}]
    /\ password \in [Users -> Passwords \cup {None}]
    /\ latest \in [Users -> Passwords \cup {None}]
    /\ link \in [Users -> [Kinds -> 0..minted]]
    /\ pending \in [Users -> Addresses \cup {None}]
    /\ google \in [Users -> Googles \cup {None}]
    /\ recovery \in [Users -> SUBSET (1..minted)]
    /\ verified \subseteq Live /\ oldHash \subseteq Live /\ mfa \subseteq Live
    /\ raced \subseteq Users
    /\ job \in [Procs -> Jobs]
    /\ requests \in Nat /\ minted \in Nat
    /\ inbox \subseteq (1..minted) \X Addresses
    /\ owned \subseteq Users \X Addresses
    /\ used \subseteq 1..minted /\ twice \subseteq used /\ shared \subseteq Nat
    /\ \A u \in Users \ Live :
        password[u] = None /\ pending[u] = None /\ google[u] = None /\ link[u] = NoLinks
    /\ \A u, v \in Live : u # v => email[u] # email[v] /\ (google[u] # google[v] \/ google[u] = None)
    /\ \A u \in Users \ mfa : recovery[u] = {}

\* A verified address is one where somebody clicked a link mailed to it for
\* this account, whatever changes, resends, cancellations and registrations
\* of the same address came in between.
VerifiedMeansOwned == \A u \in verified : <<u, email[u]>> \in owned

\* A link or code does what it is for once; only a reset link that two
\* requests used at a time can do it twice.
LinkWorksOnce == twice \subseteq shared

\* The password that works is the one set last, unless a login was renewing
\* an old hash while it was set.
PasswordIsTheLatest == \A u \in Users \ raced : password[u] = latest[u]

\* The abstract specification (AccountPromise): an address belongs to one
\* account, is the one asked for, and changes by a click on a mail to it.
Promise == INSTANCE AccountPromise WITH
    known <- born, address <- email, wanted <- pending, proved <- owned
PromiseKept == Promise!Spec
=============================================================================
