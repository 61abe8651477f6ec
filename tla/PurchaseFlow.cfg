SPECIFICATION Spec
CONSTANTS
    Turn = {t1, t2, t3}
    Product = {p1}
    Quantity <- MCQuantity
    Unstated = Unstated
    None = None
    MaxInFlight = 2
    Faults = {"gather", "load", "clear", "stockout", "compose", "persist", "crash"}
INVARIANTS
    TypeOK
    ConfirmationGated
    SingleDeductionPerTurn
    TruthfulReply
    SerialResolvedOnce
    SerialOneMarker
PROPERTIES
    PendingSurvives
    KeepsLedger
    TurnEnds
CHECK_DEADLOCK FALSE
