SPECIFICATION Spec
CONSTANTS
    t1 = t1
    t2 = t2
    t3 = t3
    k1 = k1
    k2 = k2
    k3 = k3
    Thread = {t1, t2}
    Key = {k1, k2}
    Data = {d1}
    None = None
    NoOwner = NoOwner
    TableSize = 2
    Hash <- MCHash
    HashVal = {0}
    Hash2 <- MCHash2Flat
    CollEng = "LIST"
    InsertKeys <- MCSharedKeys
    MallocMayFail = FALSE
    MaxCalls = 2
INVARIANTS
    UniqueKeys
