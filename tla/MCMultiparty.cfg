CONSTANTS
    p1 = p1
    p2 = p2
    Party = {p1, p2}
    Moduli <- MCModuli
    T = 2
    Secret <- MCSecret
    Mask <- MCMask
    Noise = {1}
    NoiseRow <- MCNoiseRow
    NoiseBound = 1
    SecretBound = 2
    MaskBound = 1
    RecipientBound = 1
    RecipientNoise = 1
    Crp <- MCCrp
    CrpVector <- MCCrpVector
    Recipient <- MCRecipient
    OutSecret <- MCOutSecret
    ThirdPart <- MCThirdPart
    MaxBoard = 2
    MaxAbsorbed = 2
    MaxRounds = 2
    None = None
SPECIFICATION Spec
INVARIANTS TypeOK CollectiveKey CollectiveRelinKey DecryptsTogether SwitchedToOutputKeys SwitchedToPublicKey
PROPERTIES LoopEnds
CHECK_DEADLOCK FALSE
