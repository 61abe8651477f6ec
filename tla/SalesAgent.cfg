SPECIFICATION Spec
CONSTANTS
    orders = orders
    confirms = confirms
    Update = {orders, confirms}
    Says <- MCSays
    Slot = {s1, s2}
    NoUpdate = NoUpdate
    MaxPosts <- MCMaxPosts
    MaxRetries = 0
    ChannelFaults = {"ack","turn","crash"}
    Product = {p1}
    Quantity = {2}
    Unstated = Unstated
    None = None
    TurnFaults = {"persist", "crash"}
INVARIANTS
    TypeOK
    BoughtOnce
    OfferStands
PROPERTIES
    WebhookKeepsItsWord
CHECK_DEADLOCK FALSE
