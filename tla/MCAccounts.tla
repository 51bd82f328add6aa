----------------------------- MODULE MCAccounts -----------------------------
(* Small instances of the accounts, with requests and values interchangeable. *)
EXTENDS Accounts, TLC

Symmetry == Permutations(Requests) \cup Permutations(Passwords) \cup Permutations(Cookies)
=============================================================================
