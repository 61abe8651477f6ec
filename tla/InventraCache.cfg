SPECIFICATION Spec
CONSTANTS
    Key = {detail, inventory, list}
    DetailKey = detail
    InventoryKey = {inventory}
    Reader = {r1}
    Buyer = {b1, b2}
    LastVersion = 2
    EmptyVersion = {0}
    Ttl = 2
    NegativeTtl = 1
    MaxLag = 1
    Faults = {"redis", "lost", "external"}
INVARIANTS
    TypeOK
    BoundedStaleness
    FreshUnlessMishap
