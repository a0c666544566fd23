----------------------------- MODULE MCAccounts -----------------------------
(* Accounts on a small instance.                                           *)
EXTENDS Accounts, TLC

\* Every one of these is drawn afresh and never compared.
Symmetry == Permutations(Brands) \cup Permutations(Users)
              \cup Permutations(Challenges) \cup Permutations(Requests)
=============================================================================
