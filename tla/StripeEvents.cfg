SPECIFICATION FairSpec
CONSTANTS
    Handlers = {h1, h2}
    Prices = {"starter", "pro"}
    MaxEvents = 5
    MaxRepriced = 4
    MaxAborts = 1
    Nobody = Nobody
INVARIANTS InOrderSettles PlanFollowsPrice
PROPERTIES ImplementsLedger EventsProcessed
CHECK_DEADLOCK FALSE
