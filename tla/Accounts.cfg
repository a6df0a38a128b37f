SPECIFICATION AccountsSpec
CONSTANTS
    Logins = {l1, l2}
    MaxAttempts = 2
    Lockout = 3
    Ops = {o1, o2}
    Passwords = {p1, p2}
    Nobody = Nobody
SYMMETRY Symmetry
INVARIANTS OverrunIsBounded CustomersAreFew
PROPERTIES ColumnsAreKept ImplementsLockout LockRunsOut
