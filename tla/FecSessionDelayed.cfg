SPECIFICATION Spec
CONSTANTS
    Modulus = 32
    MaxMediaPackets = 4
    Mask1Bits = 1
    Mask2Bits = 1
    Mask3Bits = 1
    FirstFecSn = 31
    None = None
    DecoderMedia = 4
    DecoderFEC = 2
    RecoveredLimit = 6
    NumMediaPackets = 3
    NumFecPackets = 1
    FirstSn = 29
    Jump = 0
    MaxDelay = 2
    MaxPackets = 6
INVARIANT RecoveredRight
CHECK_DEADLOCK FALSE
