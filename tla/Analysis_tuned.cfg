SPECIFICATION Spec
CONSTANTS
    Least4 <- MCLeast4
    Most4 <- MCMost4
    Gap = 500
    MinSupport = 40
    MinGain = 200
    MaxLoss = 100
    StepPercent = 5
    DriftPercent = 15
    MaxSteps = 3
    Floor = 20
    AdvanceGain = 50
    AdvanceError = 500
    PromoteGain = 100
    PromoteError = 1000
    StrongGain = 200
    StallGain = 20
    Patience = 2
    GuardLoss = 100
    HoldoutPercent = 30
    Situations <- MCSituations
    Default <- MCDefault
    FuturePercent = 25
    MinAdvice = 20
    LowConfidence = 40
INVARIANTS
    AnalysisTypeOK
    HoldoutsUnseen
    DriftBounded
    CandidateIsEarned
    ValidatedBeatsHost
    ActionableIsSupported
PROPERTIES
    AnalysisEnds
