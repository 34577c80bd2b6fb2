SPECIFICATION Spec
CONSTANTS
    p1 = p1
    p2 = p2
    p3 = p3
    q0 = q0
    q1 = q1
    q2 = q2
    large = large
    small = small
    Params <- MCParams
    Value <- MCValue
    Modulus = {q0, q1, q2}
    Moduli <- MCModuli
    s1 = s1
    s2 = s2
    r1 = r1
    r2 = r2
    Seeds <- MCSeeds
    NoSeed = NoSeed
    Derived = Derived
    Mixed = Mixed
    NoKey = NoKey
    Regs <- MCRegs
    MaxParts = 4
    Mistakes = {"emptyFactor"}
SYMMETRY Symmetry
INVARIANT
    AtLeastTwoParts
CHECK_DEADLOCK FALSE
