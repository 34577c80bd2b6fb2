CONSTANTS
    W = 7
    Primes <- MCPrimes
    NoEntry = None
    TransformPrime = 17
    LogN = 3
    Coefficients <- MCCoefficients
    Factors <- MCFactors
    Exponents = {3, 15}
    Shifts = {3}
    MaxOperations = 2
    NoRow = None
    Vectors <- MCVectors
    Others <- MCOthers
    MaxSlotSteps = 3
    NoSlots = None
    WordBits = 64
    ByteBits = 8
    Widths = {1, 3, 8, 13, 50, 62, 64}
    Lengths = {0, 1, 3, 8}
    Variances = {1, 3, 10, 16, 17}
    MaxSamples = 5
    NoStream = None
    Scalers <- MCScalers
    NoScaling = None
    Chain <- MCChain
    Integers64 <- MCIntegers64
    Numbers <- MCNumbers
    NoPoly = None
    DotModuli <- MCDotModuli
    Counts = {0, 1, 16, 17, 18, 20, 66}
    Factors2 <- MCFactors2
    NoDot = None
    SwitchModuli <- MCSwitchModuli
    SwitchSecrets <- MCSecrets
    SwitchErrors <- MCErrors
    MaxError = 1
    Expand <- MCExpand
    RgswMessages = {1, 3}
    Inputs <- MCInputs
    NoSwitch = None
SPECIFICATION Spec
INVARIANTS
    EntryExact
    CenteredExact
    TransformExact
    EntriesBounded
    SlotsExact
    TranscodesExactly
    SamplesIndependent
    ScalesToNearest
    PolyExact
    DotExact
    SwitchExact
    ExternalProductExact
PROPERTIES
    TranscodingEnds
CHECK_DEADLOCK FALSE
