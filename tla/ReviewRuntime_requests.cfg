CONSTANTS
    None = None
    Requests = {q1, q2}
    Kinds = {"contract", "reply"}
    Refreshes <- OneMayRefresh
    Providers = {p1}
    Configs <- OnOff
    Slots = 2
    MaxOps = 1
    MaxResets = 1
    MaxSwitches = 1
    MaxFailures = 1
    MaxEvents = 1
SPECIFICATION FairSpec
INVARIANTS
    TypeOK
    SlotsAddUp
    EpochFencesSaves
    OneAskPerReview
    TerminatedIsQuiet
PROPERTIES
    HandedOutIsCurrent
    EverythingEnds
CHECK_DEADLOCK FALSE
