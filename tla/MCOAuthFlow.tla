---------------------------- MODULE MCOAuthFlow -----------------------------
(***************************************************************************)
(* TLC instances of OAuthFlow.  The runs ask for liveness, so that they    *)
(* use no symmetry.                                                        *)
(***************************************************************************)
EXTENDS OAuthFlow

=============================================================================
