CONSTANTS
    LogN = 3
    T = 17
    Zeta = 3
    MaxLevel = 1
    LogModulus = 5
    MinSize = 1
    Inputs <- MCInputs
    Sizes <- MCSizes
    NoKey = NoKey
    Idle = Idle
    Pending = Pending
SPECIFICATION Spec
INVARIANTS TypeOK BuildSucceeds BuilderDelivers StepIsDefined KeyRoundTrip
PROPERTIES ImplementsPromises EveryCallReturns
