------------------------------ MODULE MCBilling ------------------------------
(***************************************************************************)
(* TLC instances of Billing.                                               *)
(***************************************************************************)
EXTENDS Billing, TLC

\* PLAN_LIMITS, scaled down.
ScaledLimits ==
    "free"    :> [connections |-> 1, token_retrievals |-> 1] @@
    "starter" :> [connections |-> 1, token_retrievals |-> 2] @@
    "pro"     :> [connections |-> 2, token_retrievals |-> 5]

Symmetry == Permutations(Subscriptions)

=============================================================================
