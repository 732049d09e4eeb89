CONSTANTS
    f0 = f0
    f1 = f1
    None = None
    Initializer = initializer
    NoSamples = f0
    Fingerprints = {f0, f1}
    Handlers = {h1, h2}
    Viewers = {}
    BootGate = TRUE
    LegacyRows <- Leftovers
    MaxVersion = 3
    PolicyCap = 2
    MaxBatch = 2
    MaxOps = 3
    MaxWaiters = 0
    MaxCrashes = 1
    MaxAborts = 0
SPECIFICATION Spec
SYMMETRY HandlerSymmetry
INVARIANTS
    TypeOK
    ThreeKeysAgree
    FreshMeansCurrent
    OffersAreBacked
PROPERTIES
    NoBlindOverwrite
    ImplementsRegister
CHECK_DEADLOCK FALSE
