CONSTANTS
    Host = {h1}
    Ttl = 3
    MaxAge = 6
    Absent = Absent
    Faults = {"disk"}
SPECIFICATION Spec
INVARIANTS
    TypeOK
    OutageTolerated
    StaleOnlyWhileLoading
