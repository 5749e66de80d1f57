SPECIFICATION Spec
CONSTANTS
    a = a
    b = b
    c = c
    Null = Null
    NoOwner = NoOwner
    Thread = {t1, t2}
    Key = {a, b, c}
    Obj = {o1, o2, o3}
    Preloaded <- MCPreloaded
    OpsOf <- MCOps
    MaxCalls = 3
INVARIANTS
    ChainIntact
    WrongOnlyWhenOvertaken
    CounterExact
PROPERTIES
    CallsReturn
