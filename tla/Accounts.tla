------------------------------ MODULE Accounts ------------------------------
(***************************************************************************)
(* One account of oaupa-server: the row of users with one e-mail address,  *)
(* the requests that write it, and the logins that read it, which the      *)
(* lockout of LoginLockout admits, counts and clears.                      *)
(*                                                                         *)
(* A request selects the row without a lock, changes columns of the object *)
(* in its session, and its flush waits for the row and keeps it locked to  *)
(* the end of the transaction; SQLAlchemy writes the columns that changed. *)
(* Links in mails and sessions are signed tokens: the server stores none,  *)
(* so that a link is good as often as it is followed until it expires.     *)
(***************************************************************************)
EXTENDS LoginLockout

CONSTANTS
    Ops,         \* requests that write the account, in flight at a time
    Passwords,
    Nobody

ASSUME AccountsAssumption == IsFiniteSet(Ops) /\ Nobody \notin Ops \cup Passwords

VARIABLES
    user,      \* the committed row; without a password there is none
    held,      \* the request that locks the row, or has inserted it
    op,        \* the requests that write the account
    links,     \* the kinds of links in mails that have not expired
    session,   \* whether somebody has a JWT that has not expired
    given      \* history: the customers whose ids requests have returned

account == <<user, held, op, links, session, given>>
allVars == <<account, vars>>

Columns == {"password", "verified", "customer"}
NoUser  == [password |-> Nobody, verified |-> FALSE, customer |-> FALSE]
IdleOp  == [phase |-> "idle", kind |-> "none", row |-> NoUser, dirty |-> {}]
Kinds   == {"none", "register", "change", "rename", "reset", "verify", "customer"}
Links   == {"password_reset", "email_verification"}

Registered == user.password # Nobody
SignedIn   == session /\ Registered      \* get_current_user

AccountsInit ==
    /\ Init
    /\ user = NoUser
    /\ held = Nobody
    /\ op = [o \in Ops |-> IdleOp]
    /\ links = {}
    /\ session = FALSE
    /\ given = 0

-----------------------------------------------------------------------------
(***************************************************************************)
(* Requests that write the account, up to the flush.                       *)
(***************************************************************************)
\* o has selected the row and changed columns of the object in its session.
Loads(o, kind, row, dirty) ==
    /\ op[o].phase = "idle"
    /\ op' = [op EXCEPT ![o] = [phase |-> "loaded", kind |-> kind, row |-> row, dirty |-> dirty]]
    /\ UNCHANGED <<user, held, links, session, given, vars>>

\* register_user, of an address that is not registered (else it raises).
Register(o) ==
    /\ ~Registered
    /\ \E p \in Passwords : Loads(o, "register", [NoUser EXCEPT !.password = p], Columns)

\* change_password, by somebody who shows the current password (else it raises).
ChangePassword(o) ==
    /\ SignedIn
    /\ \E p \in Passwords : Loads(o, "change", [user EXCEPT !.password = p], {"password"})

\* update_user: full_name, which is left out here.
UpdateUser(o) == SignedIn /\ Loads(o, "rename", user, {})

\* reset_password, by somebody with a link.
ResetPassword(o) ==
    /\ "password_reset" \in links
    /\ \E p \in Passwords : Loads(o, "reset", [user EXCEPT !.password = p], {"password"})

\* verify_email, by somebody with a link; when it was verified before nothing is done.
VerifyEmail(o) ==
    /\ "email_verification" \in links
    /\ ~user.verified
    /\ Loads(o, "verify", [user EXCEPT !.verified = TRUE], {"verified"})

\* Mutant of EnsureCustomer: the customer is not looked up first.
CreatesCustomer(o) ==
    /\ SignedIn
    /\ Loads(o, "customer", [user EXCEPT !.customer = TRUE], {"customer"})

\* _ensure_stripe_customer: a customer is created at Stripe, unless there is one.
EnsureCustomer(o) ==
    /\ SignedIn
    /\ ~user.customer
    /\ Loads(o, "customer", [user EXCEPT !.customer = TRUE], {"customer"})

-----------------------------------------------------------------------------
(***************************************************************************)
(* The flush and the end of such a request.                                *)
(***************************************************************************)
\* The UPDATE or the INSERT waits for the row.  An INSERT is refused when the
\* address was registered meanwhile (Rollback).
Flush(o) ==
    /\ op[o].phase = "loaded"
    /\ held = Nobody
    /\ op[o].kind = "register" => ~Registered
    /\ held' = o
    /\ op' = [op EXCEPT ![o].phase = "flushed"]
    /\ UNCHANGED <<user, links, session, given, vars>>

\* Mutant of Written: the UPDATE names every column of the object.
WritesWholeRow(o) == op[o].row

\* The row as o leaves it: the columns it changed, and the rest as it is now.
Written(o) == [c \in Columns |-> IF c \in op[o].dirty THEN op[o].row[c] ELSE user[c]]

Ends(o) ==
    /\ held' = IF held = o THEN Nobody ELSE held
    /\ op' = [op EXCEPT ![o] = IdleOp]

\* get_db commits.
Commit(o) ==
    /\ op[o].phase = "flushed"
    /\ user' = Written(o)
    /\ given' = IF op[o].kind = "customer" THEN given + 1 ELSE given
    /\ Ends(o)
    /\ UNCHANGED <<links, session, vars>>

\* Mutant of Rollback: the lockout is lifted with the request.
LiftsLockout(o) ==
    /\ op[o].phase # "idle"
    /\ Ends(o)
    /\ attempts' = 0 /\ ttl' = 0
    /\ UNCHANGED <<user, links, session, given, login>>

\* The request raises or dies, and is rolled back.
Rollback(o) ==
    /\ op[o].phase # "idle"
    /\ Ends(o)
    /\ UNCHANGED <<user, links, session, given, vars>>

-----------------------------------------------------------------------------
(***************************************************************************)
(* Mails and tokens.                                                       *)
(***************************************************************************)
\* request_password_reset, by anybody, and send_verification.
SendLink(x) ==
    /\ \/ x = "password_reset" /\ Registered
       \/ x = "email_verification" /\ SignedIn /\ ~user.verified
    /\ links' = links \cup {x}
    /\ UNCHANGED <<user, held, op, session, given, vars>>

ExpireLink(x) ==
    /\ x \in links
    /\ links' = links \ {x}
    /\ UNCHANGED <<user, held, op, session, given, vars>>

\* The last JWT expires.  (refresh_tokens, which issues a pair for one, comes
\* before that and leaves session as it is.)
ExpireSession ==
    /\ session
    /\ session' = FALSE
    /\ UNCHANGED <<user, held, op, links, given, vars>>

-----------------------------------------------------------------------------
(***************************************************************************)
(* Logins: authenticate_user, which the lockout is part of.                *)
(***************************************************************************)
\* The row is selected and the password compared; users are never deactivated.
Verify(l) ==
    /\ login[l] = "admitted"
    /\ \E p \in Passwords : Goes(l, IF p = user.password THEN "matched" ELSE "failed")
    /\ UNCHANGED <<attempts, ttl, account>>

\* The counter is deleted and the tokens are issued, unless the request fails after.
Grant(l) ==
    /\ ClearAttempts(l)
    /\ session' \in {session, TRUE}
    /\ UNCHANGED <<user, held, op, links, given>>

Login(l) ==
    \/ Verify(l) \/ Grant(l)
    \/ (CheckLockout(l) \/ RecordFailure(l) \/ Abort(l)) /\ UNCHANGED account

Time == Tick /\ UNCHANGED account

AccountsNext ==
    \/ \E o \in Ops :
          \/ Register(o) \/ ChangePassword(o) \/ UpdateUser(o) \/ ResetPassword(o)
          \/ VerifyEmail(o) \/ EnsureCustomer(o)
          \/ Flush(o) \/ Commit(o) \/ Rollback(o)
    \/ \E x \in Links : SendLink(x) \/ ExpireLink(x)
    \/ ExpireSession
    \/ \E l \in Logins : Login(l)
    \/ Time

AccountsSpec == AccountsInit /\ [][AccountsNext]_allVars

-----------------------------------------------------------------------------
(***************************************************************************)
(* Properties.                                                             *)
(***************************************************************************)
Rows == [password: Passwords \cup {Nobody}, verified: BOOLEAN, customer: BOOLEAN]

\* The types of the account, its requests and the lockout.  The row is locked by
\* the request that has flushed.
AccountsTypeOK ==
    /\ TypeOK
    /\ user \in Rows
    /\ op \in [Ops -> [phase: {"idle", "loaded", "flushed"}, kind: Kinds,
                       row: Rows, dirty: SUBSET Columns]]
    /\ \A o \in Ops : op[o].phase = "flushed" <=> held = o
    /\ held \in Ops \cup {Nobody}
    /\ links \subseteq Links
    /\ session \in BOOLEAN
    /\ given \in Nat

\* A request writes what it was asked to and nothing else, however old the row in
\* its session: the address stays registered, verified and a customer, and the
\* password is changed by a registration, a change or a reset only.  No session
\* brings an old password back.
ColumnsAreKept ==
    [][/\ Registered => Registered'
       /\ user.verified => user'.verified
       /\ user.customer => user'.customer
       /\ user'.password # user.password =>
             \E o \in Ops : held = o /\ op[o].kind \in {"register", "change", "reset"}]_user

\* The requests for which a customer was created that is not stored yet.
Creating == {o \in Ops : op[o].kind = "customer"}

\* A user is billed as one customer, or as no more than the requests in flight
\* together when the first was created: each of those is returned a customer of its
\* own, a checkout on which no later request knows of.  Requests one after the
\* other share one.
CustomersAreFew == given + Cardinality(Creating) <= Cardinality(Ops)

\* With accounts, requests and links the logins still obey the lockout alone: no
\* request of an account, a reset of the password neither, counts, lifts or
\* prolongs a lockout.
ImplementsLockout == Spec

=============================================================================
