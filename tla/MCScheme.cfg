CONSTANTS
    W = 11
    MinBits = 7
    MaxBits = 9
    Headroom = 7
    Degrees = {8, 12}
    PlaintextModuli = {1, 3, 17, 2053}
    SizeLists <- MCSizeLists
    ModuliLists <- MCModuliLists
    VarianceChoices = {0, 1}
    DefaultSets <- MCDefaultSets
    DefaultBits = {7, 8, 9}
    NoParameters = None
    MaxVariance = 16
    MaxCalls = 3
    MaxMultiplied = 449
SPECIFICATION Spec
INVARIANTS
    ModuliAsAsked
    LevelsComplete
    
    NoiseWithinBound
    DecryptsWithinBudget
    NoiseMeasured
CHECK_DEADLOCK FALSE
