SPECIFICATION FairSpec
CONSTANTS
    Connections = {rot, bare}
    Refreshable = {rot}
    Rotating = {rot}
    Untimed = {}
    Requests = {r1}
    Workers = {w1, w2}
    ApiKeys = {k1}
    BatchSize = 1
    MaxRef = 1
    Nobody = Nobody
PROPERTIES ImplementsLifecycle EverybodyEnds
