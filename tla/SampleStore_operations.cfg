CONSTANTS
    None = None
    Initializer = initializer
    Sessions = {s1, s2}
    MsgIds = {1, 2}
    Revisions = {"r1", "r2"}
    Exports <- Batches
    MaxSamples = 3
    MaxTracked = 2
    Loaders = {l1}
    MaxOps = 3
    MaxCrashes = 1
    MaxAborts = 1
SPECIFICATION Spec
SYMMETRY SessionSymmetry
INVARIANTS
    TypeOK
    IndexMatches
    CapKeepsTheNewest
    UncrossedMerges
    ImportSettles
CHECK_DEADLOCK FALSE
