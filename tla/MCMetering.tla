----------------------------- MODULE MCMetering -----------------------------
(***************************************************************************)
(* TLC instances of Metering.                                              *)
(***************************************************************************)
EXTENDS Metering, TLC

Symmetry == Permutations(Requests)

=============================================================================
