SPECIFICATION Spec
CONSTANTS
    Plans = {"starter", "pro"}
    Limits <- ScaledLimits
    Subscriptions = {s1, s2}
    Period = 2
    MonthLength = 2
    MaxDay = 2
    MaxConns = 2
SYMMETRY Symmetry
INVARIANTS MonthIsExact PlanIsInvoicedLast
PROPERTIES WarnedFirst
