SPECIFICATION Spec
CONSTANTS
    Connections = {bare}
    Refreshable = {}
    Rotating = {}
    Untimed = {}
    Requests = {r1}
    Workers = {w1}
    ApiKeys = {k1}
    BatchSize = 1
    MaxRef = 1
    Nobody = Nobody
PROPERTY ExpiryIsRecorded
