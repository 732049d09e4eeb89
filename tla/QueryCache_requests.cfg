CONSTANTS
    None = None
    Readers = {r1, r2}
    Limit = 2
    MaxOps = 1
    MaxRequests = 2
SPECIFICATION FairSpec
INVARIANTS
    TypeOK
    SingleFlight
    TablesAreFresh
PROPERTIES
    RequestsEnd
CHECK_DEADLOCK FALSE
