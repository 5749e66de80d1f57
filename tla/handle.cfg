SPECIFICATION Spec
CONSTANTS
    k1 = k1
    k2 = k2
    k3 = k3
    NULL = NULL
    FREE = FREE
    JUNK = JUNK
    LOST = LOST
    HashFunc = {f, g}
    KeyCmpFunc = {cmp}
    Key = {k1, k2, k3}
    Hash <- MCHash
    Engines = {"LIST_MTF", "LIST_HASH", "ARRAY", "ARRAY_DYN_HASH", "RBTREE"}
    TableSizes = {1}
    RehashSizes = {0, 4}
    ArraySizes = {1}
    MaxObjects = 3
SYMMETRY Symmetry
CHECK_DEADLOCK FALSE
INVARIANTS
    
    
    IteratorExact
    CrashesOnlyThere
    StuckOnlyInArrays
PROPERTIES
    RehashKeepsEntries
    RehashAdvances
