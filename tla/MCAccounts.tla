----------------------------- MODULE MCAccounts -----------------------------
(***************************************************************************)
(* TLC instances of Accounts.                                              *)
(***************************************************************************)
EXTENDS Accounts, TLC

Symmetry == Permutations(Logins) \cup Permutations(Ops) \cup Permutations(Passwords)

=============================================================================
