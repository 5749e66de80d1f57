SPECIFICATION Spec
CONSTANTS
    t1 = t1
    t2 = t2
    Thread = {t1, t2}
    Key = {0, 1, 2, 3, 4, 5}
    Half = 8
    NULL = NULL
    NoOwner = NoOwner
    KeyCmp <- MCKeyCmp
    TableSize = 1
    Hash <- MCHash
    InsertKeys <- MCWriter
    RemoveKeys <- MCRemoves
    GetKeys <- MCReader
    WalkBuckets <- MCReaderBuckets
    MallocMayFail = TRUE
INVARIANTS
    Balanced
    SearchOrder
    CountersAgree
    LockExcludes
PROPERTIES
    WrongOnlyIfRootMoved
    RebalancingEnds
