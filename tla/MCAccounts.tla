------------------------------ MODULE MCAccounts ------------------------------
(* Values for the constants of Accounts. *)
EXTENDS Accounts, TLC

CONSTANTS s1, s2, a, p1, p2, q1, q2, q3

\* A person with a verified account, and a free slug for another one.
Before == (<<s1, a>> :> "verified") @@ (<<s2, a>> :> "none")

Interchangeable == Permutations(Requests) \cup Permutations(Passwords)
=============================================================================
