SPECIFICATION Spec
CONSTANTS
    Handlers = {h1, h2}
    Prices = {"starter"}
    MaxEvents = 2
    MaxRepriced = 2
    MaxAborts = 0
    Nobody = Nobody
SYMMETRY Symmetry
INVARIANT RowSettles
CHECK_DEADLOCK FALSE
