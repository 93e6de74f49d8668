---------------------------- MODULE AccountPromise ----------------------------
(***************************************************************************)
(* What registration and the change of address promise about identities:   *)
(* an account has an address that no other has, it changes only to the one *)
(* its owner asked for, by a click on a mail to that address, and it counts *)
(* as verified only after such a click; an id is never given again.  Links, *)
(* passwords, sessions and everything awaited are left out: Accounts is    *)
(* shown to implement this.                                                *)
(***************************************************************************)

CONSTANTS Users, Addresses, None

VARIABLES
    known,     \* ids given, now or before
    address,   \* of each account, None for an id without one
    wanted,    \* the address an account asked to move to, or None
    verified,  \* accounts whose address counts as verified
    proved     \* accounts and addresses, by a click on a mail to the address

promise == <<known, address, wanted, verified, proved>>

\* The accounts of an earlier time have addresses of their own.
Init ==
    /\ known \subseteq Users
    /\ address \in [Users -> Addresses \cup {None}]
    /\ \A u \in Users : address[u] # None => u \in known
    /\ \A u, v \in known : u # v => address[u] # address[v]
    /\ wanted = [u \in Users |-> None]
    /\ verified \subseteq known
    /\ proved = {<<u, address[u]>> : u \in verified}

Free(a) == \A u \in Users : address[u] # a

Join(u, a) ==
    /\ u \notin known /\ Free(a)
    /\ known' = known \cup {u}
    /\ address' = [address EXCEPT ![u] = a]
    /\ UNCHANGED <<wanted, verified, proved>>

\* The owner asks to move, or to stay after all.
Want(u, a) ==
    /\ a # None => address[u] # None
    /\ wanted' = [wanted EXCEPT ![u] = a]
    /\ UNCHANGED <<known, address, verified, proved>>

Click(u, a) ==
    /\ verified' = verified \cup {u}
    /\ proved' = proved \cup {<<u, a>>}

Verify(u) ==
    /\ address[u] # None
    /\ Click(u, address[u])
    /\ UNCHANGED <<known, address, wanted>>

\* The address asked for is free, or the account's own by now.
Move(u) ==
    /\ wanted[u] # None
    /\ Free(wanted[u]) \/ address[u] = wanted[u]
    /\ address' = [address EXCEPT ![u] = wanted[u]]
    /\ wanted' = [wanted EXCEPT ![u] = None]
    /\ Click(u, wanted[u])
    /\ UNCHANGED known

Leave(u) ==
    /\ address' = [address EXCEPT ![u] = None]
    /\ wanted' = [wanted EXCEPT ![u] = None]
    /\ verified' = verified \ {u}
    /\ UNCHANGED <<known, proved>>

Next ==
    \E u \in Users :
        \/ \E a \in Addresses : Join(u, a)
        \/ \E a \in Addresses \cup {None} : Want(u, a)
        \/ Verify(u) \/ Move(u) \/ Leave(u)

Spec == Init /\ [][Next]_promise
=============================================================================
