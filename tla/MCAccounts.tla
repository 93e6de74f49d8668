------------------------------- MODULE MCAccounts -------------------------------
(* Instances of Accounts for TLC.                                            *)
EXTENDS Accounts, TLC

Interchangeable == Permutations(Users) \cup Permutations(Addresses)
                   \cup Permutations(Passwords) \cup Permutations(Procs)
=============================================================================
