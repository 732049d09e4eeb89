CONSTANTS
    f0 = f0
    f1 = f1
    None = None
    Initializer = initializer
    NoSamples = f0
    Fingerprints = {f0, f1}
    Handlers = {h1}
    Viewers = {v1}
    BootGate = TRUE
    LegacyRows <- Leftovers
    MaxVersion = 2
    PolicyCap = 2
    MaxBatch = 1
    MaxOps = 3
    MaxWaiters = 0
    MaxCrashes = 0
    MaxAborts = 0
SPECIFICATION Spec
INVARIANTS
    ThreeKeysAgree
CHECK_DEADLOCK FALSE
