SPECIFICATION FairSpec
CONSTANTS
    Flows = {f1, f2}
    Accounts = {known, other}
    Identified = {known}
    Callbacks = {c1, c2}
    Limit = 1
    MaxCodes = 1
    MaxRows = 2
    Nobody = Nobody
INVARIANTS ConsumedWithConnection OverrunIsBounded ReuseIsBounded
PROPERTIES NoWayBack CallbacksEnd
CHECK_DEADLOCK FALSE
