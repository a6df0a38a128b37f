SPECIFICATION Spec
CONSTANTS
    Connections = {rot}
    Refreshable = {rot}
    Rotating = {rot}
    Untimed = {}
    Requests = {r1, r2}
    Workers = {w1, w2}
    ApiKeys = {k1, k2}
    BatchSize = 1
    MaxRef = 3
    Nobody = Nobody
SYMMETRY Symmetry
INVARIANTS TypeOK NoPairVanishes LostIsStranded RefusalIsExplained
PROPERTIES RevokedIsTerminal StoredNeverRunsBack
