CONSTANTS
    Timeout = 2
    MaxRetries = 2
    Backoff = 1
SPECIFICATION Spec
CHECK_DEADLOCK FALSE
INVARIANTS
    TypeOK
    ReplyIsBounded
    HonestAttribution
PROPERTIES
    ComposeEnds
