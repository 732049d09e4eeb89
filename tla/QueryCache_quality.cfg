CONSTANTS
    None = None
    Readers = {r1, r2}
    Limit = 2
    MaxOps = 1
    MaxRequests = 2
SPECIFICATION Spec
SYMMETRY ReaderSymmetry
INVARIANTS
    QualityIsFresh
CHECK_DEADLOCK FALSE
