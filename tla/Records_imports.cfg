SPECIFICATION RecordsSpec
CONSTANTS
    SessionOf <- MCSessionOf
    Turns <- MCTurns
    Labels <- MCLabels
    Endings <- MCEndings
    Policies <- MCPolicies
    Least4 <- MCLeast4
    Most4 <- MCMost4
    Gap = 500
    MinSupport = 10
    MinGain = 100
    MaxLoss = 100
    MinCapability = 2
    MinGateSamples = 4
    MinGateSessions = 2
    MaxLabelAge = 0
    MinPositive = 10
    MaxDegraded = 30
    Rules <- MCRules
    MaxEdits = 1
    MaxNow = 2
INVARIANTS
    RecordsTypeOK
    ReplayIsOfTheTurn
    OnlyEligibleMove
    LastImportStands
    PlanesAgree
    BlameIsTrue
    SchemaIsTheHosts
    GateNeedsRecentLabels
    ActivationIsEarned
