--------------------------- MODULE MCTokenRefresh ---------------------------
(***************************************************************************)
(* TLC instances of TokenRefresh.                                          *)
(***************************************************************************)
EXTENDS TokenRefresh, TLC

Symmetry == Permutations(Requests) \cup Permutations(Workers)

=============================================================================
