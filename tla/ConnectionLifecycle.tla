------------------------ MODULE ConnectionLifecycle ------------------------
(***************************************************************************)
(* What the token vault promises of a connection, with no word about       *)
(* transactions, locks, requests or workers: a connection in service may   *)
(* fail or be revoked, a revoked one stays revoked, and the refresh token  *)
(* that is stored only ever gives way to a newer one its provider issued.  *)
(* TokenRefresh implements it.                                             *)
(***************************************************************************)
EXTENDS Integers

CONSTANT Connections

VARIABLES
    status,   \* "active", "error" or "revoked": what is stored
    stored,   \* the serial number of the stored refresh token
    issued    \* the newest serial number the provider issued

vars == <<status, stored, issued>>

Init ==
    /\ status = [c \in Connections |-> "active"]
    /\ stored = [c \in Connections |-> 0]
    /\ issued = [c \in Connections |-> 0]

\* How the stored row of one connection may change in a step.
Keep(c)   == status'[c] = status[c] /\ stored'[c] = stored[c]
Fail(c)   == status[c] = "active" /\ status'[c] = "error" /\ stored'[c] = stored[c]
Revoke(c) == status'[c] = "revoked" /\ stored'[c] = stored[c]
Renew(c)  == /\ status'[c] = status[c]
             /\ stored[c] < stored'[c] /\ stored'[c] <= issued[c]

\* One transaction commits, of a request (one connection) or of a worker (some).
Store ==
    /\ status' \in [Connections -> {"active", "error", "revoked"}]
    /\ stored' \in [Connections -> Int]
    /\ \A c \in Connections : Keep(c) \/ Fail(c) \/ Revoke(c) \/ Renew(c)
    /\ UNCHANGED issued

\* The provider replaces the refresh token of c.
Issue(c) ==
    /\ issued' = [issued EXCEPT ![c] = @ + 1]
    /\ UNCHANGED <<status, stored>>

Next == Store \/ \E c \in Connections : Issue(c)

Spec == Init /\ [][Next]_vars

=============================================================================
