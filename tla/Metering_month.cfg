SPECIFICATION FairSpec
CONSTANTS
    Projects = {p1, p2}
    TwoKeys = {p2}
    Rotated = {p2}
    Deleted = {p2}
    Requests = {r1, r2}
    Limit = 1
    MaxServed = 3
    Nobody = Nobody
INVARIANTS NeverOvercounted OneKeyIsExact OverrunIsBounded
PROPERTIES EverybodyEnds RevocationTakesHold
CHECK_DEADLOCK FALSE
