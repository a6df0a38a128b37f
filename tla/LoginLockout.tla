---------------------------- MODULE LoginLockout ----------------------------
(***************************************************************************)
(* The login lockout of oaupa-server: one account, a counter of failed     *)
(* attempts with a time to live in Redis, and login requests that run      *)
(* concurrently.  A login reads the counter, then checks the password      *)
(* (a query and a hash later), then counts the failure or deletes the      *)
(* counter: the steps of several logins interleave.                        *)
(***************************************************************************)
EXTENDS Integers, FiniteSets

CONSTANTS
    Logins,        \* login requests for the account in flight at a time
    MaxAttempts,   \* _MAX_ATTEMPTS
    Lockout        \* _LOCKOUT_SECONDS, in ticks

ASSUME ConstantsAssumption ==
    /\ IsFiniteSet(Logins)
    /\ MaxAttempts \in Nat \ {0}
    /\ Lockout \in Nat \ {0}

VARIABLES
    attempts,   \* the counter; 0: there is no key
    ttl,        \* what is left of the key's time to live
    login       \* the phase of each login request

vars == <<attempts, ttl, login>>

Phases == {"idle",       \* no request
           "admitted",   \* the counter was read and was below the limit
           "failed",     \* the password was wrong or the user unknown
           "matched"}    \* the password was right and the user active

Init ==
    /\ attempts = 0
    /\ ttl = 0
    /\ login = [l \in Logins |-> "idle"]

Goes(l, phase) == login' = [login EXCEPT ![l] = phase]

\* Mutant of CheckLockout: a refused login counts as a failed one.
CheckCountsRefused(l) ==
    /\ login[l] = "idle"
    /\ IF attempts >= MaxAttempts
       THEN ttl' = Lockout /\ UNCHANGED login
       ELSE Goes(l, "admitted") /\ UNCHANGED ttl
    /\ UNCHANGED attempts

\* Mutant of CheckLockout: > for >=.
CheckOffByOne(l) ==
    /\ login[l] = "idle"
    /\ attempts <= MaxAttempts
    /\ Goes(l, "admitted")
    /\ UNCHANGED <<attempts, ttl>>

\* check_lockout: at the limit the login is refused and nothing is written.
CheckLockout(l) ==
    /\ login[l] = "idle"
    /\ attempts < MaxAttempts
    /\ Goes(l, "admitted")
    /\ UNCHANGED <<attempts, ttl>>

\* authenticate_user looks the user up and verifies the password.  A deactivated
\* user with the right password is turned away: nothing is counted or cleared.
VerifyPassword(l) ==
    /\ login[l] = "admitted"
    /\ \E outcome \in {"failed", "matched", "idle"} : Goes(l, outcome)
    /\ UNCHANGED <<attempts, ttl>>

\* record_failed_attempt: INCR and EXPIRE in one MULTI/EXEC.
RecordFailure(l) ==
    /\ login[l] = "failed"
    /\ Goes(l, "idle")
    /\ attempts' = attempts + 1
    /\ ttl' = Lockout

\* clear_attempts: DEL, also when the account was locked meanwhile.
ClearAttempts(l) ==
    /\ login[l] = "matched"
    /\ Goes(l, "idle")
    /\ attempts' = 0
    /\ ttl' = 0

\* Redis or the database cannot be reached, or the process dies.
Abort(l) ==
    /\ login[l] # "idle"
    /\ Goes(l, "idle")
    /\ UNCHANGED <<attempts, ttl>>

\* Time passes; at the end of its time to live Redis deletes the key.
Tick ==
    /\ ttl > 0
    /\ ttl' = ttl - 1
    /\ attempts' = IF ttl = 1 THEN 0 ELSE attempts
    /\ UNCHANGED login

Next ==
    \/ \E l \in Logins :
          \/ CheckLockout(l) \/ VerifyPassword(l)
          \/ RecordFailure(l) \/ ClearAttempts(l) \/ Abort(l)
    \/ Tick

Spec == Init /\ [][Next]_vars

-----------------------------------------------------------------------------
\* The types of the counter, its time to live and the logins.
TypeOK ==
    /\ attempts \in Nat
    /\ ttl \in 0..Lockout
    /\ login \in [Logins -> Phases]

\* The logins that may still count a failure.
Pending == {l \in Logins : login[l] \in {"admitted", "failed"}}

\* The lockout is checked before the password and counted after it, so the limit
\* is overrun, but by no more than the logins that were in flight together: the
\* failures counted and those still to be counted are bounded.
OverrunIsBounded ==
    attempts + Cardinality(Pending) <= MaxAttempts - 1 + Cardinality(Logins)

\* The counter and its expiry come and go together: a counter without a time to
\* live would lock the account for good.
CounterExpires == attempts > 0 <=> ttl > 0

\* A locked account opens again when its time is over, however often its owner, or
\* anybody, tries: only logins that were admitted before it was locked prolong the
\* lockout, refused ones do not.
LockRunsOut ==
    [][attempts >= MaxAttempts /\ Pending = {} => attempts' <= attempts /\ ttl' <= ttl]_vars

=============================================================================
