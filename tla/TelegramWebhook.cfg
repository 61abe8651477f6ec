CONSTANTS
    u1 = u1
    u2 = u2
    u3 = u3
    Update = {u1, u2, u3}
    Ignored = {u3}
    Slot = {s1, s2}
    NoUpdate = NoUpdate
    MaxPosts <- MCMaxPosts
    MaxRetries = 1
    Faults = {"ack", "identity", "turn", "persist", "send", "crash"}
SPECIFICATION Spec
CHECK_DEADLOCK FALSE
INVARIANTS
    TypeOK
    HandledExactlyOnce
    RerunHasCause
    RecordedOnce
    RepliesBounded
PROPERTIES
    EveryTaskEnds
