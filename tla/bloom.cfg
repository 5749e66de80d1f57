SPECIFICATION Spec
CONSTANTS
    k1 = k1
    k2 = k2
    k3 = k3
    k4 = k4
    Key = {k1, k2, k3, k4}
    HashCount = 2
    Hash <- MCHash
    Sizes = {0, 8, 12, 16}
    Counts = {0, 2, 3}
    MallocMayFail = TRUE
    None = None
    MaxAdds = 3
INVARIANTS
    CollisionsExact
    PositiveIsCovered
PROPERTIES
    NoFalseNegative
