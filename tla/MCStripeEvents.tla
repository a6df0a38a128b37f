--------------------------- MODULE MCStripeEvents ---------------------------
(***************************************************************************)
(* TLC instances of StripeEvents.                                          *)
(***************************************************************************)
EXTENDS StripeEvents, TLC

Symmetry == Permutations(Handlers)

=============================================================================
