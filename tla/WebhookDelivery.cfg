SPECIFICATION FairSpec
CONSTANTS
    Hooks = {h1, h2}
    Wildcard = {h2}
    Requests = {r1}
    Queued = {q1}
    Workers = {w1}
    MaxRetries = 2
    MaxCrashes = 1
    Nobody = Nobody
INVARIANTS QueuedTellsWhatHappened DeliveriesAreTrue TestAnswersItsOwnOrLater
PROPERTIES SendersEnd DeliveriesSettle
CHECK_DEADLOCK FALSE
