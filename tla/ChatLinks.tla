------------------------------- MODULE ChatLinks -------------------------------
(***************************************************************************)
(* How an account is bound to a LINE account or a Telegram chat            *)
(* (routes/lineOaLinks.js, lineWebhook.js, telegramLinks.js and            *)
(* telegramWebhook.js).  The owner fetches a code in Settings and sends it *)
(* to the bot from the chat; either end can take the link back.  There is  *)
(* one row per account, but several accounts may be bound to one chat.     *)
(*                                                                         *)
(* Every handler is one step: each writes its row before it awaits the     *)
(* bot's answer.                                                           *)
(***************************************************************************)
EXTENDS Integers

CONSTANTS
    Users,
    Chats,        \* LINE users and Telegram chats
    None,         \* NULL
    Deployments,  \* sets of bots that may be switched on
    MaxCodes,     \* bound: codes fetched for one account and bot
    MaxChanges    \* bound: changes made by users and reviewers

Kinds == {"line", "telegram"}

ASSUME LinkAssumption ==
    /\ None \notin Chats
    /\ Deployments \subseteq SUBSET Kinds
    /\ MaxCodes \in Nat /\ MaxChanges \in Nat

VARIABLES
    bots,      \* LINE_OA_ENABLED, TELEGRAM_BOT_ENABLED
    accounts,  \* users that exist
    link,      \* line_oa_links and telegram_links: the chat, and the code while
               \* it has not expired
    issued,    \* codes handed out so far
    changes,
    hushed,    \* HISTORY: account and chat, after someone took the link back
    doubled,   \* HISTORY: chats that left when several accounts were bound
    dead       \* HISTORY: codes used, replaced, withdrawn or expired

linkVars == <<bots, accounts, link, issued, changes, hushed, doubled, dead>>

Row(chat, code) == [chat |-> chat, code |-> code]

\* No row, or a row that was cleared.
Unlinked == Row(None, 0)

\* Every account has had a code: it is forgotten, on record or has been used.
LinkInit ==
    /\ bots \in Deployments
    /\ accounts = Users
    /\ issued = [k \in Kinds |-> [u \in Users |-> 1]]
    /\ link \in [Kinds -> [Users -> {Unlinked, Row(None, 1)} \cup {Row(c, 0) : c \in Chats}]]
    /\ \A k \in Kinds \ bots, u \in Users : link[k][u] = Unlinked
    /\ changes = 0
    /\ hushed = {}
    /\ doubled = {}
    /\ dead = {<<k, u, 1>> : k \in Kinds, u \in Users} \
                {<<k, u, link[k][u].code>> : k \in Kinds, u \in Users}

Change == changes < MaxChanges /\ changes' = changes + 1

Codes(k, u) == {<<k, u, n>> : n \in 1..issued[k][u]}

\* POST /generate-token.  LINE refuses when there is a link, Telegram keeps it
\* until the new code is used.
GenerateToken(k, u) ==
    /\ Change
    /\ k \in bots /\ u \in accounts
    /\ k = "line" => link[k][u].chat = None
    /\ issued[k][u] < MaxCodes
    /\ issued' = [issued EXCEPT ![k][u] = @ + 1]
    /\ link' = [link EXCEPT ![k][u] = Row(link[k][u].chat, issued[k][u] + 1)]
    /\ dead' = dead \cup Codes(k, u)
    /\ UNCHANGED <<bots, accounts, hushed, doubled>>

\* link_token_expires_at passes: the code stays on the row and is good for
\* nothing, which is as if it were gone.
Expire(k, u) ==
    /\ link[k][u].code # 0
    /\ link' = [link EXCEPT ![k][u] = Row(link[k][u].chat, 0)]
    /\ dead' = dead \cup Codes(k, u)
    /\ UNCHANGED <<bots, accounts, issued, changes, hushed, doubled>>

\* Mutant: the code stays on the row.
BindOnly(row, c) == Row(c, row.code)

\* The chat is stored and the code cleared.
Bind(row, c) == Row(c, 0)

\* /link or /start with a code: the row that has it and has not expired.
SendCode(k, c, u) ==
    /\ Change
    /\ k \in bots
    /\ link[k][u].code # 0
    /\ link' = [link EXCEPT ![k][u] = Bind(link[k][u], c)]
    /\ hushed' = (hushed \cup {<<u, k, d>> : d \in Chats}) \ {<<u, k, c>>}
    /\ dead' = dead \cup Codes(k, u)
    /\ UNCHANGED <<bots, accounts, issued, doubled>>

\* POST /unlink in Settings clears link and code.
UnlinkInSettings(k, u) ==
    /\ Change
    /\ u \in accounts
    /\ link' = [link EXCEPT ![k][u] = Unlinked]
    /\ hushed' = hushed \cup {<<u, k, d>> : d \in Chats}
    /\ dead' = dead \cup Codes(k, u)
    /\ UNCHANGED <<bots, accounts, issued, doubled>>

Bound(k, c) == {u \in Users : link[k][u].chat = c}

\* The rows of some accounts lose their chat and keep their code.
Drop(k, users) ==
    link' = [link EXCEPT ![k] = [u \in Users |->
                IF u \in users THEN Row(None, link[k][u].code) ELSE link[k][u]]]

\* Mutant: as /unlink does it.
UnfollowFirst(c) == \E u \in Bound("line", c) : Drop("line", {u})

\* UPDATE ... WHERE line_user_id = ?: every row.
UnfollowAll(c) == Drop("line", Bound("line", c))

\* The chat leaves.  LINE's unfollow event clears every account bound to it,
\* Telegram's /unlink one of them, and the bot answers that nothing will come
\* here any more.
Leave(k, c) ==
    /\ Change
    /\ k \in bots
    /\ Bound(k, c) # {}
    /\ \/ k = "line" /\ UnfollowAll(c)
       \/ k = "telegram" /\ \E u \in Bound(k, c) : Drop(k, {u})
    /\ hushed' = hushed \cup {<<u, k, c>> : u \in Users}
    /\ doubled' = IF k = "telegram" /\ \E u, v \in Bound(k, c) : u # v
                  THEN doubled \cup {c} ELSE doubled
    /\ UNCHANGED <<bots, accounts, issued, dead>>

\* DELETE /auth/me: the rows go with the account.
DeleteLinks(u) ==
    /\ Change
    /\ u \in accounts
    /\ accounts' = accounts \ {u}
    /\ link' = [k \in Kinds |-> [link[k] EXCEPT ![u] = Unlinked]]
    /\ hushed' = hushed \cup {<<u, k, d>> : k \in Kinds, d \in Chats}
    /\ dead' = dead \cup UNION {Codes(k, u) : k \in Kinds}
    /\ UNCHANGED <<bots, issued, doubled>>

LinkNext ==
    \/ \E k \in Kinds, u \in Users : GenerateToken(k, u)
    \/ \E k \in Kinds, u \in Users : Expire(k, u)
    \/ \E k \in Kinds, c \in Chats, u \in Users : SendCode(k, c, u)
    \/ \E k \in Kinds, u \in Users : UnlinkInSettings(k, u)
    \/ \E k \in Kinds, c \in Chats : Leave(k, c)

LinkRow == [chat : Chats \cup {None}, code : Nat]

\* Types; the code on record is the last one handed out; on
\* LINE a bound account has none, and a deleted account has nothing.
LinkTypeOK ==
    /\ bots \subseteq Kinds
    /\ accounts \subseteq Users
    /\ issued \in [Kinds -> [Users -> Nat]]
    /\ link \in [Kinds -> [Users -> LinkRow]]
    /\ \A k \in Kinds, u \in Users :
        /\ link[k][u].code \in {0, issued[k][u]}
        /\ k = "line" /\ link[k][u].chat # None => link[k][u].code = 0
        /\ u \notin accounts => link[k][u] = Unlinked
    /\ changes \in Nat
    /\ hushed \subseteq Users \X Kinds \X Chats
    /\ doubled \subseteq Chats
    /\ dead \subseteq Kinds \X Users \X Nat
=============================================================================
