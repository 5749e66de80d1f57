SPECIFICATION Spec
CONSTANTS
    t1 = t1
    t2 = t2
    k1 = k1
    k2 = k2
    k3 = k3
    Thread = {t1, t2}
    Key = {k1, k2, k3}
    Data = {d1}
    None = None
    NoOwner = NoOwner
    TableSize = 2
    Hash <- MCHash
    CollEngs = {"ARRAY", "ARRAY_HASH"}
    ArraySize = 1
    Ops = {"insert", "get", "remove", "to_array"}
    InsertKeys <- MCSharedKeys
    KeyMayFail = TRUE
    GrowMayFail = TRUE
    MaxCalls = 3
INVARIANTS
    CountersAgree
    NoSilentLoss
    WalkMissesTail
CHECK_DEADLOCK FALSE
