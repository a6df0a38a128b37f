SPECIFICATION Spec
CONSTANTS
    Connections = {rot}
    Refreshable = {rot}
    Rotating = {rot}
    Untimed = {}
    Requests = {r1}
    Workers = {w1}
    ApiKeys = {k1}
    BatchSize = 1
    MaxRef = 2
    Nobody = Nobody
INVARIANT ErrorMeansUnusable
