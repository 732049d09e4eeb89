CONSTANTS
    f0 = f0
    f1 = f1
    None = None
    Initializer = initializer
    NoSamples = f0
    Fingerprints = {f0, f1}
    Handlers = {h1}
    Viewers = {}
    BootGate = FALSE
    LegacyRows <- Leftovers
    MaxVersion = 2
    PolicyCap = 2
    MaxBatch = 1
    MaxOps = 1
    MaxWaiters = 0
    MaxCrashes = 0
    MaxAborts = 0
SPECIFICATION Spec
INVARIANTS
    OffersAreBacked
CHECK_DEADLOCK FALSE
