--------------------------- MODULE AccountsProofs ---------------------------
(***************************************************************************)
(* Proofs about LoginLockout and Accounts, for any number of logins and    *)
(* requests, any passwords, any limit and any lockout time.  The lockout   *)
(* comes first: its theorems are of its Spec, which Accounts implements.   *)
(***************************************************************************)
EXTENDS Accounts, FiniteSetTheorems, TLAPS

(***************************************************************************)
(* What one step does to the logins that may still count a failure.        *)
(***************************************************************************)
\* The pending logins are some of the logins, and finitely many.
LEMMA PendingFinite ==
    /\ IsFiniteSet(Pending)
    /\ Cardinality(Pending) \in Nat
    /\ Cardinality(Logins) \in Nat
    /\ Cardinality(Pending) <= Cardinality(Logins)
<1>1. Pending \subseteq Logins
  BY DEF Pending
<1>2. IsFiniteSet(Logins)
  BY ConstantsAssumption
<1> QED
  BY <1>1, <1>2, FS_Subset, FS_CardinalityType

\* A login that leaves the pending ones makes them fewer by one, and no other
\* step but an admission makes them more.
LEMMA PendingShrinks ==
    ASSUME TypeOK, NEW l \in Logins, NEW p \in Phases \ {"admitted"},
           login[l] # "idle", Goes(l, p),
           login[l] = "matched" => p = "idle"
    PROVE  /\ Pending' \subseteq Pending
           /\ login[l] = "failed" /\ p = "idle" => Pending' = Pending \ {l} /\ l \in Pending
<1>1. \A k \in Logins : login'[k] = IF k = l THEN p ELSE login[k]
  BY DEF Goes, TypeOK
<1>2. login[l] \in Phases
  BY DEF TypeOK
<1>3. l \in Pending' => l \in Pending
  BY <1>1, <1>2 DEF Pending, Phases
<1>4. Pending' \subseteq Pending
  BY <1>1, <1>3 DEF Pending
<1>5. ASSUME login[l] = "failed", p = "idle"
      PROVE  Pending' = Pending \ {l} /\ l \in Pending
  BY <1>1, <1>5 DEF Pending
<1> QED
  BY <1>4, <1>5

-----------------------------------------------------------------------------
\* One step preserves the types.
LEMMA TypePreserved == ASSUME TypeOK, [Next]_vars PROVE TypeOK'
<1> USE ConstantsAssumption DEF TypeOK
<1>1. ASSUME NEW l \in Logins, CheckLockout(l) PROVE TypeOK'
  BY <1>1 DEF CheckLockout, Goes, Phases
<1>2. ASSUME NEW l \in Logins, VerifyPassword(l) PROVE TypeOK'
  BY <1>2 DEF VerifyPassword, Goes, Phases
<1>3. ASSUME NEW l \in Logins, RecordFailure(l) PROVE TypeOK'
  BY <1>3 DEF RecordFailure, Goes, Phases
<1>4. ASSUME NEW l \in Logins, ClearAttempts(l) PROVE TypeOK'
  BY <1>4 DEF ClearAttempts, Goes, Phases
<1>5. ASSUME NEW l \in Logins, Abort(l) PROVE TypeOK'
  BY <1>5 DEF Abort, Goes, Phases
<1>6. CASE Tick
  BY <1>6 DEF Tick
<1>7. CASE UNCHANGED vars
  BY <1>7 DEF vars
<1> QED
  BY <1>1, <1>2, <1>3, <1>4, <1>5, <1>6, <1>7 DEF Next

\* The types hold in every reachable state.
THEOREM TypeCorrect == Spec => []TypeOK
<1>1. Init => TypeOK
  BY ConstantsAssumption DEF Init, TypeOK, Phases
<1> QED
  BY <1>1, TypePreserved, PTL DEF Spec

\* The counter and its time to live come and go together, so no lockout is for
\* good: INCR and EXPIRE are one transaction of Redis.
THEOREM CounterNeverSticks == Spec => []CounterExpires
<1>1. Init => CounterExpires
  BY DEF Init, CounterExpires
<1>2. TypeOK /\ CounterExpires /\ [Next]_vars => CounterExpires'
  BY ConstantsAssumption
     DEF TypeOK, CounterExpires, Next, vars, CheckLockout, VerifyPassword,
         RecordFailure, ClearAttempts, Abort, Tick
<1> QED
  BY <1>1, <1>2, TypeCorrect, PTL DEF Spec

\* The limit is overrun by no more than the logins in flight together.
THEOREM Overrun == Spec => []OverrunIsBounded
<1>1. Init => OverrunIsBounded
  <2> SUFFICES ASSUME Init PROVE OverrunIsBounded
    OBVIOUS
  <2>1. Pending = {}
    BY DEF Init, Pending
  <2> QED
    BY <2>1, FS_EmptySet, PendingFinite, ConstantsAssumption DEF Init, OverrunIsBounded
<1>2. TypeOK /\ OverrunIsBounded /\ [Next]_vars => OverrunIsBounded'
  <2> SUFFICES ASSUME TypeOK, OverrunIsBounded, [Next]_vars PROVE OverrunIsBounded'
    OBVIOUS
  <2> DEFINE N == Cardinality(Logins)
             P == Cardinality(Pending)
  <2>1. /\ IsFiniteSet(Pending) /\ P \in Nat /\ N \in Nat
        /\ attempts \in Nat /\ MaxAttempts \in Nat
        /\ attempts + P <= MaxAttempts - 1 + N
    BY PendingFinite, ConstantsAssumption DEF TypeOK, OverrunIsBounded
  \* The pending logins of the next state, which are some of the logins.
  <2>2. Pending' \subseteq Logins
    BY DEF Pending
  <2>3. Cardinality(Pending') \in Nat /\ Cardinality(Pending') <= N
    BY <2>2, FS_Subset, FS_CardinalityType, ConstantsAssumption
  \* A step that admits nobody and counts nothing.
  <2>4. ASSUME Pending' \subseteq Pending, attempts' \in Nat, attempts' <= attempts
        PROVE  OverrunIsBounded'
    <3>1. Cardinality(Pending') <= P
      BY <2>1, <2>4, FS_Subset
    <3> QED
      BY <2>1, <2>3, <2>4, <3>1 DEF OverrunIsBounded
  <2>5. ASSUME NEW l \in Logins, CheckLockout(l) PROVE OverrunIsBounded'
    BY <2>1, <2>3, <2>5 DEF CheckLockout, OverrunIsBounded
  <2>6. ASSUME NEW l \in Logins, VerifyPassword(l) PROVE OverrunIsBounded'
    <3>1. PICK p \in {"failed", "matched", "idle"} : Goes(l, p)
      BY <2>6 DEF VerifyPassword
    <3>2. Pending' \subseteq Pending
      BY <2>6, <3>1, PendingShrinks DEF VerifyPassword, Phases
    <3> QED
      BY <2>1, <2>4, <2>6, <3>2 DEF VerifyPassword
  <2>7. ASSUME NEW l \in Logins, RecordFailure(l) PROVE OverrunIsBounded'
    <3>1. Pending' = Pending \ {l} /\ l \in Pending
      BY <2>7, PendingShrinks DEF RecordFailure, Phases
    <3>2. Cardinality(Pending') = P - 1
      BY <2>1, <3>1, FS_RemoveElement
    <3> QED
      BY <2>1, <2>7, <3>2 DEF RecordFailure, OverrunIsBounded
  <2>8. ASSUME NEW l \in Logins, ClearAttempts(l) PROVE OverrunIsBounded'
    <3>1. Pending' \subseteq Pending
      BY <2>8, PendingShrinks DEF ClearAttempts, Phases
    <3> QED
      BY <2>1, <2>4, <2>8, <3>1 DEF ClearAttempts
  <2>9. ASSUME NEW l \in Logins, Abort(l) PROVE OverrunIsBounded'
    <3>1. Pending' \subseteq Pending
      BY <2>9, PendingShrinks DEF Abort, Phases
    <3> QED
      BY <2>1, <2>4, <2>9, <3>1 DEF Abort
  <2>10. CASE Tick
    BY <2>1, <2>4, <2>10 DEF Tick, Pending
  <2>11. CASE UNCHANGED vars
    BY <2>1, <2>4, <2>11 DEF vars, Pending
  <2> QED
    BY <2>5, <2>6, <2>7, <2>8, <2>9, <2>10, <2>11 DEF Next
<1> QED
  BY <1>1, <1>2, TypeCorrect, PTL DEF Spec

\* While an account is locked and no login is on its way, no step adds to the
\* counter or to its time: refused logins change nothing.
THEOREM RunsOut == Spec => LockRunsOut
<1> DEFINE Quiet == attempts >= MaxAttempts /\ Pending = {}
<1>1. TypeOK /\ Quiet /\ [Next]_vars => attempts' <= attempts /\ ttl' <= ttl
  <2> SUFFICES ASSUME TypeOK, Quiet, [Next]_vars
               PROVE  attempts' <= attempts /\ ttl' <= ttl
    OBVIOUS
  <2>1. attempts \in Nat /\ ttl \in Nat /\ MaxAttempts \in Nat
    BY ConstantsAssumption DEF TypeOK
  <2>2. \A l \in Logins : login[l] \notin {"admitted", "failed"}
    BY DEF Pending
  <2>3. ASSUME NEW l \in Logins, CheckLockout(l) PROVE FALSE
    BY <2>1, <2>3 DEF CheckLockout
  <2>4. ASSUME NEW l \in Logins, VerifyPassword(l) \/ RecordFailure(l) PROVE FALSE
    BY <2>2, <2>4 DEF VerifyPassword, RecordFailure
  <2>5. ASSUME NEW l \in Logins, ClearAttempts(l) \/ Abort(l)
        PROVE  attempts' <= attempts /\ ttl' <= ttl
    BY <2>1, <2>5 DEF ClearAttempts, Abort
  <2>6. CASE Tick
    BY <2>1, <2>6 DEF Tick
  <2>7. CASE UNCHANGED vars
    BY <2>1, <2>7 DEF vars
  <2> QED
    BY <2>3, <2>4, <2>5, <2>6, <2>7 DEF Next
<1> QED
  BY <1>1, TypeCorrect, PTL DEF Spec, LockRunsOut

-----------------------------------------------------------------------------
(***************************************************************************)
(* Every step of an account is a step of the lockout or leaves it alone.   *)
(***************************************************************************)
LEMMA StepIsLockoutStep ==
    ASSUME AccountsNext PROVE [Next]_vars
<1>1. ASSUME NEW o \in Ops,
             \/ Register(o) \/ ChangePassword(o) \/ UpdateUser(o) \/ ResetPassword(o)
             \/ VerifyEmail(o) \/ EnsureCustomer(o)
      PROVE  UNCHANGED vars
  BY <1>1 DEF Register, ChangePassword, UpdateUser, ResetPassword, VerifyEmail,
              EnsureCustomer, Loads
<1>2. ASSUME NEW o \in Ops, Flush(o) \/ Commit(o) \/ Rollback(o)
      PROVE  UNCHANGED vars
  BY <1>2 DEF Flush, Commit, Rollback
<1>3. ASSUME NEW x \in Links, SendLink(x) \/ ExpireLink(x)
      PROVE  UNCHANGED vars
  BY <1>3 DEF SendLink, ExpireLink
<1>4. CASE ExpireSession
  BY <1>4 DEF ExpireSession
<1>5. ASSUME NEW l \in Logins, Login(l) PROVE Next
  <2>1. CASE Verify(l)
    <3>1. VerifyPassword(l)
      BY <2>1 DEF Verify, VerifyPassword
    <3> QED
      BY <3>1 DEF Next
  <2>2. CASE Grant(l)
    BY <2>2 DEF Grant, Next
  <2>3. CASE CheckLockout(l) \/ RecordFailure(l) \/ Abort(l)
    BY <2>3 DEF Next
  <2> QED
    BY <1>5, <2>1, <2>2, <2>3 DEF Login
<1>6. CASE Time
  BY <1>6 DEF Time, Next
<1> QED
  BY <1>1, <1>2, <1>3, <1>4, <1>5, <1>6 DEF AccountsNext

\* Accounts implements the lockout: no request of an account counts, lifts or
\* prolongs one.
THEOREM LockoutImplemented == AccountsSpec => ImplementsLockout
<1>1. AccountsInit => Init
  BY DEF AccountsInit
<1>2. [AccountsNext]_allVars => [Next]_vars
  BY StepIsLockoutStep DEF allVars
<1> QED
  BY <1>1, <1>2, PTL DEF AccountsSpec, Spec, ImplementsLockout

\* So the limit of attempts is overrun by less than the logins in flight, and no
\* lockout is for good, whatever becomes of the account meanwhile.
THEOREM LockoutHolds == AccountsSpec => [](OverrunIsBounded /\ CounterExpires)
BY LockoutImplemented, Overrun, CounterNeverSticks, PTL DEF ImplementsLockout

-----------------------------------------------------------------------------
(***************************************************************************)
(* The invariant: what a session may still write, and what it relies on    *)
(* that somebody else might have changed.                                  *)
(***************************************************************************)
\* What o has in its session: a new row, or one column that it may only better.
SessionFits(o) ==
    /\ op[o].phase = "idle" => op[o].kind = "none" /\ op[o].dirty = {}
    /\ op[o].kind = "register" => "password" \in op[o].dirty
    /\ op[o].kind = "customer" => "customer" \in op[o].dirty
    /\ "password" \in op[o].dirty =>
          op[o].row.password # Nobody /\ op[o].kind \in {"register", "change", "reset"}
    /\ "verified" \in op[o].dirty => op[o].kind = "register" \/ op[o].row.verified
    /\ "customer" \in op[o].dirty =>
          op[o].kind = "register" \/ (op[o].kind = "customer" /\ op[o].row.customer)

\* A registration that has its INSERT through is the only one, and all other
\* requests are of an account that is registered.
AccountIsThere(o) ==
    /\ op[o].kind = "register" /\ op[o].phase = "flushed" => ~Registered
    /\ op[o].kind # "register" /\ op[o].phase # "idle" => Registered

RowFits ==
    /\ ~Registered => user = NoUser
    /\ links # {} => Registered
    /\ given > 0 => user.customer

AccountsInv ==
    /\ AccountsTypeOK
    /\ \A o \in Ops : SessionFits(o) /\ AccountIsThere(o)
    /\ RowFits

-----------------------------------------------------------------------------
\* The types of a session that is loaded.
LEMMA LoadsTyped ==
    ASSUME AccountsInv, NEW o \in Ops, NEW kind \in Kinds, NEW row \in Rows,
           NEW dirty \in SUBSET Columns, Loads(o, kind, row, dirty)
    PROVE  AccountsTypeOK'
BY AccountsAssumption
   DEF AccountsInv, AccountsTypeOK, TypeOK, Loads, vars, Columns, Kinds, Links, Pending

\* A session that fits is loaded, of an account that is there, or to register it.
LEMMA LoadsFits ==
    ASSUME AccountsInv, NEW o \in Ops, NEW kind \in Kinds, NEW row \in Rows,
           NEW dirty \in SUBSET Columns, Loads(o, kind, row, dirty),
           kind \notin {"register", "none"} => Registered,
           kind # "none",
           kind = "register" => "password" \in dirty,
           kind = "customer" => "customer" \in dirty,
           "password" \in dirty => row.password # Nobody /\ kind \in {"register", "change", "reset"},
           "verified" \in dirty => kind = "register" \/ row.verified,
           "customer" \in dirty => kind = "register" \/ (kind = "customer" /\ row.customer)
    PROVE  AccountsInv'
<1>1. AccountsTypeOK'
  BY LoadsTyped
<1>2. UNCHANGED <<user, links, given>>
  BY DEF Loads
<1>3. RowFits'
  BY <1>2 DEF RowFits, Registered, AccountsInv
<1>4. ASSUME NEW q \in Ops PROVE SessionFits(q)' /\ AccountIsThere(q)'
  <2>1. op'[q] = IF q = o THEN [phase |-> "loaded", kind |-> kind, row |-> row, dirty |-> dirty]
                 ELSE op[q]
    BY DEF Loads, AccountsInv, AccountsTypeOK
  <2>2. SessionFits(q) /\ AccountIsThere(q)
    BY DEF AccountsInv
  <2>3. CASE q = o
    BY <1>2, <2>1, <2>3 DEF SessionFits, AccountIsThere, Registered
  <2>4. CASE q # o
    BY <1>2, <2>1, <2>2, <2>4 DEF SessionFits, AccountIsThere, Registered
  <2> QED
    BY <2>3, <2>4
<1> QED
  BY <1>1, <1>3, <1>4 DEF AccountsInv

\* What a commit leaves: a registered account, no worse than before.
LEMMA CommitBetters ==
    ASSUME AccountsInv, NEW o \in Ops, Commit(o)
    PROVE  /\ user' \in Rows
           /\ Registered'
           /\ user.verified => user'.verified
           /\ user.customer => user'.customer
           /\ op[o].kind = "customer" => user'.customer
           /\ held = o
           /\ user'.password # user.password => op[o].kind \in {"register", "change", "reset"}
<1> DEFINE sess == op[o]
<1>1. /\ sess.phase = "flushed" /\ held = o
      /\ sess.row \in Rows /\ sess.dirty \in SUBSET Columns /\ user \in Rows
      /\ SessionFits(o) /\ AccountIsThere(o) /\ RowFits
  BY DEF Commit, AccountsInv, AccountsTypeOK
<1>2. /\ user'.password = IF "password" \in sess.dirty THEN sess.row.password ELSE user.password
      /\ user'.verified = IF "verified" \in sess.dirty THEN sess.row.verified ELSE user.verified
      /\ user'.customer = IF "customer" \in sess.dirty THEN sess.row.customer ELSE user.customer
      /\ DOMAIN user' = Columns
      /\ user' = [c \in Columns |-> user'[c]]
  BY DEF Commit, Written, Columns
<1>3. user' \in Rows
  <2>1. user' = [password |-> user'.password, verified |-> user'.verified,
                 customer |-> user'.customer]
    BY <1>2 DEF Columns
  <2> QED
    BY <1>1, <1>2, <2>1 DEF Rows
<1>4. CASE sess.kind = "register"
  <2>1. user = NoUser
    BY <1>1, <1>4 DEF AccountIsThere, RowFits
  <2> QED
    BY <1>1, <1>2, <1>3, <1>4, <2>1 DEF SessionFits, NoUser, Registered
<1>5. CASE sess.kind # "register"
  BY <1>1, <1>2, <1>3, <1>5 DEF SessionFits, AccountIsThere, Registered
<1> QED
  BY <1>4, <1>5

\* One step preserves the invariant.
LEMMA Preserved == ASSUME AccountsInv, [AccountsNext]_allVars PROVE AccountsInv'
<1> USE DEF AccountsInv
<1>1. ASSUME NEW o \in Ops, Register(o) PROVE AccountsInv'
  <2>1. PICK p \in Passwords :
            Loads(o, "register", [NoUser EXCEPT !.password = p], Columns)
    BY <1>1 DEF Register
  <2>2. [NoUser EXCEPT !.password = p] \in Rows /\ p # Nobody
    BY AccountsAssumption DEF NoUser, Rows
  <2> QED
    BY <2>1, <2>2, LoadsFits DEF NoUser, Kinds, Columns
<1>2. ASSUME NEW o \in Ops, ChangePassword(o) PROVE AccountsInv'
  <2>1. PICK p \in Passwords : Loads(o, "change", [user EXCEPT !.password = p], {"password"})
    BY <1>2 DEF ChangePassword
  <2>2. [user EXCEPT !.password = p] \in Rows /\ p # Nobody /\ Registered
    BY <1>2, AccountsAssumption DEF ChangePassword, SignedIn, AccountsTypeOK, Rows
  <2>3. [user EXCEPT !.password = p].password = p
    BY DEF AccountsTypeOK, Rows
  <2> QED
    BY <2>1, <2>2, <2>3, LoadsFits DEF Kinds, Columns
<1>3. ASSUME NEW o \in Ops, UpdateUser(o) PROVE AccountsInv'
  BY <1>3, LoadsFits DEF UpdateUser, SignedIn, AccountsTypeOK, Kinds, Columns
<1>4. ASSUME NEW o \in Ops, ResetPassword(o) PROVE AccountsInv'
  <2>1. PICK p \in Passwords : Loads(o, "reset", [user EXCEPT !.password = p], {"password"})
    BY <1>4 DEF ResetPassword
  <2>2. [user EXCEPT !.password = p] \in Rows /\ p # Nobody /\ Registered
    BY <1>4, AccountsAssumption DEF ResetPassword, RowFits, AccountsTypeOK, Rows
  <2>3. [user EXCEPT !.password = p].password = p
    BY DEF AccountsTypeOK, Rows
  <2> QED
    BY <2>1, <2>2, <2>3, LoadsFits DEF Kinds, Columns
<1>5. ASSUME NEW o \in Ops, VerifyEmail(o) PROVE AccountsInv'
  <2>1. [user EXCEPT !.verified = TRUE] \in Rows /\ [user EXCEPT !.verified = TRUE].verified
    BY DEF AccountsTypeOK, Rows
  <2>2. Registered
    BY <1>5 DEF VerifyEmail, RowFits
  <2> QED
    BY <1>5, <2>1, <2>2, LoadsFits DEF VerifyEmail, Kinds, Columns
<1>6. ASSUME NEW o \in Ops, EnsureCustomer(o) PROVE AccountsInv'
  <2>1. [user EXCEPT !.customer = TRUE] \in Rows /\ [user EXCEPT !.customer = TRUE].customer
    BY DEF AccountsTypeOK, Rows
  <2> QED
    BY <1>6, <2>1, LoadsFits DEF EnsureCustomer, SignedIn, Kinds, Columns
<1>7. ASSUME NEW o \in Ops, Flush(o) PROVE AccountsInv'
  <2>1. /\ op' = [op EXCEPT ![o].phase = "flushed"] /\ held' = o /\ held = Nobody
        /\ op[o].phase = "loaded"
        /\ op[o].kind = "register" => ~Registered
        /\ UNCHANGED <<user, links, session, given, vars>>
    BY <1>7 DEF Flush
  <2>2. AccountsTypeOK'
    BY <2>1, AccountsAssumption DEF AccountsTypeOK, TypeOK, vars
  <2>3. ASSUME NEW q \in Ops PROVE SessionFits(q)' /\ AccountIsThere(q)'
    BY <2>1 DEF SessionFits, AccountIsThere, Registered, AccountsTypeOK
  <2> QED
    BY <2>1, <2>2, <2>3 DEF RowFits, Registered
<1>8. ASSUME NEW o \in Ops, Commit(o) PROVE AccountsInv'
  <2>1. /\ op' = [op EXCEPT ![o] = IdleOp] /\ held' = Nobody
        /\ given' = IF op[o].kind = "customer" THEN given + 1 ELSE given
        /\ UNCHANGED <<links, session, vars>>
    BY <1>8, CommitBetters DEF Commit, Ends
  <2>2. /\ user' \in Rows /\ Registered'
        /\ user.customer => user'.customer
        /\ op[o].kind = "customer" => user'.customer
        /\ held = o
    BY <1>8, CommitBetters
  <2>3. AccountsTypeOK'
    <3>1. IdleOp \in [phase: {"idle", "loaded", "flushed"}, kind: Kinds, row: Rows,
                      dirty: SUBSET Columns]
      BY DEF IdleOp, NoUser, Kinds, Rows
    <3>2. TypeOK'
      BY <2>1 DEF AccountsTypeOK, TypeOK, vars
    <3>3. op' \in [Ops -> [phase: {"idle", "loaded", "flushed"}, kind: Kinds, row: Rows,
                          dirty: SUBSET Columns]]
      BY <2>1, <3>1 DEF AccountsTypeOK
    <3>4. \A q \in Ops : op'[q].phase = "flushed" <=> held' = q
      BY <2>1, <2>2, AccountsAssumption DEF AccountsTypeOK, IdleOp
    <3>5. given' \in Nat
      BY <2>1 DEF AccountsTypeOK
    <3>6. /\ user' \in Rows /\ held' \in Ops \cup {Nobody}
          /\ links' \subseteq Links /\ session' \in BOOLEAN
      BY <2>1, <2>2 DEF AccountsTypeOK
    <3> QED
      BY <3>2, <3>3, <3>4, <3>5, <3>6 DEF AccountsTypeOK
  <2>4. ASSUME NEW q \in Ops PROVE SessionFits(q)' /\ AccountIsThere(q)'
    <3>1. CASE q = o
      BY <2>1, <3>1 DEF SessionFits, AccountIsThere, IdleOp, AccountsTypeOK
    <3>2. CASE q # o
      <4>1. op'[q] = op[q] /\ op[q].phase # "flushed"
        BY <2>1, <2>2, <3>2 DEF AccountsTypeOK
      <4>2. SessionFits(q)'
        BY <4>1 DEF SessionFits
      <4>3. AccountIsThere(q)'
        BY <2>2, <4>1 DEF AccountIsThere, Registered
      <4> QED
        BY <4>2, <4>3
    <3> QED
      BY <3>1, <3>2
  <2>5. RowFits'
    <3>1. given' > 0 => user'.customer
      <4>1. CASE op[o].kind = "customer"
        BY <2>2, <4>1
      <4>2. CASE op[o].kind # "customer"
        BY <2>1, <2>2, <4>2 DEF RowFits
      <4> QED
        BY <4>1, <4>2
    <3> QED
      BY <2>2, <3>1 DEF RowFits, Registered
  <2> QED
    BY <2>3, <2>4, <2>5
<1>9. ASSUME NEW o \in Ops, Rollback(o) PROVE AccountsInv'
  <2>1. /\ op' = [op EXCEPT ![o] = IdleOp] /\ held' = IF held = o THEN Nobody ELSE held
        /\ UNCHANGED <<user, links, session, given, vars>>
    BY <1>9 DEF Rollback, Ends
  <2>2. AccountsTypeOK'
    <3>1. IdleOp \in [phase: {"idle", "loaded", "flushed"}, kind: Kinds, row: Rows,
                      dirty: SUBSET Columns]
      BY DEF IdleOp, NoUser, Kinds, Rows
    <3>2. TypeOK'
      BY <2>1 DEF AccountsTypeOK, TypeOK, vars
    <3> QED
      BY <2>1, <3>1, <3>2, AccountsAssumption DEF AccountsTypeOK, IdleOp
  <2>3. ASSUME NEW q \in Ops PROVE SessionFits(q)' /\ AccountIsThere(q)'
    BY <2>1 DEF SessionFits, AccountIsThere, Registered, IdleOp, AccountsTypeOK
  <2> QED
    BY <2>1, <2>2, <2>3 DEF RowFits, Registered
<1>10. ASSUME NEW x \in Links, SendLink(x) \/ ExpireLink(x) PROVE AccountsInv'
  <2>1. UNCHANGED <<user, held, op, session, given, vars>>
    BY <1>10 DEF SendLink, ExpireLink
  <2>2. links' \subseteq Links /\ (links' # {} => Registered)
    BY <1>10 DEF SendLink, ExpireLink, SignedIn, RowFits, AccountsTypeOK
  <2>3. AccountsTypeOK'
    BY <2>1, <2>2 DEF AccountsTypeOK, TypeOK, vars
  <2> QED
    BY <2>1, <2>2, <2>3 DEF RowFits, Registered, SessionFits, AccountIsThere
<1>11. ASSUME UNCHANGED <<user, held, op, links, given>>, session' \in BOOLEAN, TypeOK'
       PROVE  AccountsInv'
  BY <1>11 DEF AccountsTypeOK, RowFits, Registered, SessionFits, AccountIsThere
<1>12. CASE ExpireSession
  BY <1>11, <1>12 DEF ExpireSession, AccountsTypeOK, TypeOK, vars
<1>13. ASSUME [AccountsNext]_allVars PROVE TypeOK'
  <2>1. [Next]_vars
    BY <1>13, StepIsLockoutStep DEF allVars
  <2> QED
    BY <2>1, TypePreserved DEF AccountsTypeOK
<1>14. ASSUME NEW l \in Logins, Login(l) PROVE AccountsInv'
  BY <1>11, <1>13, <1>14
     DEF Login, Verify, Grant, ClearAttempts, account, AccountsTypeOK
<1>15. CASE Time
  BY <1>11, <1>13, <1>15 DEF Time, account, AccountsTypeOK
<1>16. CASE UNCHANGED allVars
  BY <1>11, <1>13, <1>16 DEF allVars, account, AccountsTypeOK
<1> QED
  BY <1>1, <1>2, <1>3, <1>4, <1>5, <1>6, <1>7, <1>8, <1>9, <1>10, <1>12, <1>14, <1>15, <1>16
     DEF AccountsNext

\* The types and what the sessions rely on hold in every reachable state.
THEOREM AccountsInductive == AccountsSpec => []AccountsInv
<1>1. AccountsInit => AccountsInv
  <2> SUFFICES ASSUME AccountsInit PROVE AccountsInv
    OBVIOUS
  <2>1. TypeOK
    BY ConstantsAssumption DEF AccountsInit, Init, TypeOK, Phases
  <2>2. NoUser \in Rows
    BY DEF NoUser, Rows
  <2>3. IdleOp \in [phase: {"idle", "loaded", "flushed"}, kind: Kinds, row: Rows,
                    dirty: SUBSET Columns]
    BY <2>2 DEF IdleOp, Kinds
  <2>4. AccountsTypeOK
    BY <2>1, <2>2, <2>3, AccountsAssumption DEF AccountsInit, AccountsTypeOK, IdleOp
  <2>5. \A o \in Ops : SessionFits(o) /\ AccountIsThere(o)
    BY DEF AccountsInit, SessionFits, AccountIsThere, IdleOp
  <2>6. RowFits
    BY DEF AccountsInit, RowFits
  <2> QED
    BY <2>4, <2>5, <2>6 DEF AccountsInv
<1> QED
  BY <1>1, Preserved, PTL DEF AccountsSpec

-----------------------------------------------------------------------------
\* No request takes back what another has written, for any number of them and
\* however long each waits for the row.
THEOREM ColumnsKept == AccountsSpec => ColumnsAreKept
<1>1. ASSUME AccountsInv, [AccountsNext]_allVars
      PROVE  [/\ Registered => Registered'
              /\ user.verified => user'.verified
              /\ user.customer => user'.customer
              /\ user'.password # user.password =>
                    \E o \in Ops : held = o /\ op[o].kind \in {"register", "change", "reset"}]_user
  <2>1. ASSUME NEW o \in Ops, Commit(o)
        PROVE  /\ Registered'
               /\ user.verified => user'.verified
               /\ user.customer => user'.customer
               /\ user'.password # user.password =>
                     held = o /\ op[o].kind \in {"register", "change", "reset"}
    BY <1>1, <2>1, CommitBetters
  <2>2. (\E o \in Ops : Commit(o)) \/ UNCHANGED user
    BY <1>1 DEF AccountsNext, allVars, account, Register, ChangePassword, UpdateUser,
                ResetPassword, VerifyEmail, EnsureCustomer, Loads, Flush, Rollback, SendLink,
                ExpireLink, ExpireSession, Login, Verify, Grant, Time
  <2> QED
    BY <2>1, <2>2
<1> QED
  BY <1>1, AccountsInductive, PTL DEF AccountsSpec, ColumnsAreKept

-----------------------------------------------------------------------------
\* The requests that create a customer are finitely many.
LEMMA CreatingFinite ==
    /\ IsFiniteSet(Creating) /\ Cardinality(Creating) \in Nat
    /\ Cardinality(Ops) \in Nat /\ Cardinality(Creating) <= Cardinality(Ops)
BY AccountsAssumption, FS_Subset, FS_CardinalityType DEF Creating

\* A step creates a customer when there is none, turns one that is being created
\* into one that is stored, or does neither.
LEMMA CustomerStep ==
    ASSUME AccountsInv, [AccountsNext]_allVars
    PROVE  \/ given' = given /\ given = 0
           \/ given' = given /\ Creating' \subseteq Creating
           \/ \E o \in Creating : given' = given + 1 /\ Creating' = Creating \ {o}
<1> USE DEF AccountsInv, AccountsTypeOK
<1>1. ASSUME NEW o \in Ops, NEW kind \in Kinds, NEW row, NEW dirty, Loads(o, kind, row, dirty),
             kind # "customer"
      PROVE  given' = given /\ Creating' \subseteq Creating
  BY <1>1 DEF Loads, Creating
<1>2. ASSUME NEW o \in Ops, \/ Register(o) \/ ChangePassword(o) \/ UpdateUser(o)
                            \/ ResetPassword(o) \/ VerifyEmail(o)
      PROVE  given' = given /\ Creating' \subseteq Creating
  BY <1>1, <1>2 DEF Register, ChangePassword, UpdateUser, ResetPassword, VerifyEmail, Kinds
<1>3. ASSUME NEW o \in Ops, EnsureCustomer(o) PROVE given' = given /\ given = 0
  BY <1>3 DEF EnsureCustomer, Loads, RowFits
<1>4. ASSUME NEW o \in Ops, Commit(o)
      PROVE  \/ given' = given /\ Creating' \subseteq Creating
             \/ \E q \in Creating : given' = given + 1 /\ Creating' = Creating \ {q}
  BY <1>4 DEF Commit, Ends, Creating, IdleOp
<1>5. ASSUME NEW o \in Ops, Flush(o) \/ Rollback(o)
      PROVE  given' = given /\ Creating' \subseteq Creating
  BY <1>5 DEF Flush, Rollback, Ends, Creating, IdleOp
<1>6. CASE UNCHANGED <<op, given>>
  BY <1>6 DEF Creating
<1>7. \/ UNCHANGED <<op, given>>
      \/ \E o \in Ops :
            \/ Register(o) \/ ChangePassword(o) \/ UpdateUser(o) \/ ResetPassword(o)
            \/ VerifyEmail(o) \/ EnsureCustomer(o)
            \/ Flush(o) \/ Commit(o) \/ Rollback(o)
  BY DEF AccountsNext, allVars, account, SendLink, ExpireLink, ExpireSession, Login, Verify,
         Grant, Time
<1> QED
  BY <1>2, <1>3, <1>4, <1>5, <1>6, <1>7

\* A user has no more customers than requests were in flight together.
THEOREM CustomersFew == AccountsSpec => []CustomersAreFew
<1>1. AccountsInit => CustomersAreFew
  <2> SUFFICES ASSUME AccountsInit PROVE CustomersAreFew
    OBVIOUS
  <2>1. given = 0
    BY DEF AccountsInit
  <2> QED
    BY <2>1, CreatingFinite DEF CustomersAreFew
<1>2. ASSUME AccountsInv, CustomersAreFew, [AccountsNext]_allVars PROVE CustomersAreFew'
  <2>1. /\ given \in Nat /\ given' \in Nat
    BY <1>2, Preserved DEF AccountsInv, AccountsTypeOK
  <2>2. /\ IsFiniteSet(Creating) /\ Cardinality(Creating) \in Nat
        /\ Cardinality(Creating') \in Nat
        /\ Cardinality(Ops) \in Nat /\ Cardinality(Creating') <= Cardinality(Ops)
    <3>1. Creating' \subseteq Ops
      BY DEF Creating
    <3> QED
      BY <3>1, CreatingFinite, AccountsAssumption, FS_Subset, FS_CardinalityType
  <2>3. CASE given' = given /\ given = 0
    BY <2>2, <2>3 DEF CustomersAreFew
  <2>4. CASE given' = given /\ Creating' \subseteq Creating
    <3>1. Cardinality(Creating') <= Cardinality(Creating)
      BY <2>2, <2>4, FS_Subset
    <3> QED
      BY <1>2, <2>1, <2>2, <2>4, <3>1 DEF CustomersAreFew
  <2>5. ASSUME NEW o \in Creating, given' = given + 1, Creating' = Creating \ {o}
        PROVE  CustomersAreFew'
    <3>1. Cardinality(Creating') = Cardinality(Creating) - 1
      BY <2>2, <2>5, FS_RemoveElement
    <3> QED
      BY <1>2, <2>1, <2>2, <2>5, <3>1 DEF CustomersAreFew
  <2> QED
    BY <1>2, <2>3, <2>4, <2>5, CustomerStep
<1> QED
  BY <1>1, <1>2, AccountsInductive, PTL DEF AccountsSpec

=============================================================================
