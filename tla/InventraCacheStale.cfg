SPECIFICATION Spec
CONSTANTS
    Key = {detail, inventory, list}
    DetailKey = detail
    InventoryKey = {inventory}
    Reader = {r1}
    Buyer = {b1}
    LastVersion = 1
    EmptyVersion = {}
    Ttl = 2
    NegativeTtl = 1
    MaxLag = 1
    Faults = {}
INVARIANT
    NoLaterReadStale
