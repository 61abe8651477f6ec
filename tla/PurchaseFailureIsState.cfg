SPECIFICATION Spec
CONSTANTS
    Turn = {t1, t2, t3}
    Product = {p1}
    Quantity <- MCQuantity
    Unstated = Unstated
    None = None
    MaxInFlight = 2
    Faults = {}
INVARIANT
    FailureIsState
CHECK_DEADLOCK FALSE
