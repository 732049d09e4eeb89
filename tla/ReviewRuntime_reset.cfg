CONSTANTS
    None = None
    Requests = {q1, q2}
    Kinds = {"contract"}
    Refreshes <- OneMayRefresh
    Providers = {p1}
    Configs <- OnOff
    Slots = 2
    MaxOps = 1
    MaxResets = 1
    MaxSwitches = 0
    MaxFailures = 0
    MaxEvents = 2
SPECIFICATION Spec
INVARIANTS
    ReviewIsOfTheSamples
CHECK_DEADLOCK FALSE
