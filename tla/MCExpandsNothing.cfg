CONSTANTS
    LogN = 3
    T = 17
    Zeta = 3
    MaxLevel = 1
    LogModulus = 5
    MinSize = 0
    Inputs <- MCInputs
    Sizes <- MCSizes
    NoKey = NoKey
    Idle = Idle
    Pending = Pending
SPECIFICATION Spec
INVARIANT ExpandsToSize
