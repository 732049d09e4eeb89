CONSTANTS
    f0 = f0
    f1 = f1
    None = None
    Initializer = initializer
    NoSamples = f0
    Fingerprints = {f0, f1}
    Handlers = {h1, h2}
    Viewers = {v1}
    BootGate = TRUE
    LegacyRows <- FreshOrUsed
    MaxVersion = 2
    PolicyCap = 2
    MaxBatch = 1
    MaxOps = 2
    MaxWaiters = 1
    MaxCrashes = 1
    MaxAborts = 1
SPECIFICATION FairSpec
PROPERTIES
    IntentIsCompleted
    RequestsEnd
CHECK_DEADLOCK FALSE
