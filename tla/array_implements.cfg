SPECIFICATION Spec
CONSTANTS
    t1 = t1
    t2 = t2
    k1 = k1
    k2 = k2
    k3 = k3
    Thread = {t1, t2}
    Key = {k1, k2}
    Data = {d1, d2}
    None = None
    NoOwner = NoOwner
    TableSize = 1
    Hash <- MCHash
    CollEngs = {"ARRAY"}
    ArraySize = 1
    Ops = {"insert", "get", "remove"}
    InsertKeys <- MCDisjointKeys
    KeyMayFail = FALSE
    GrowMayFail = FALSE
    MaxCalls = 3
INVARIANTS
    UniqueKeys
    FreeSlotFound
PROPERTIES
    NoKeyMeansAbsent
    ImplementsDictionary
    EveryCallReturns
