------------------------ MODULE MCProviderConnections ------------------------
(***************************************************************************)
(* TLC instances of ProviderConnections: all the providers.                *)
(***************************************************************************)
EXTENDS ProviderConnections

AllProviders == Seeded

=============================================================================
