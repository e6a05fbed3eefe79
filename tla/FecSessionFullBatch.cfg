SPECIFICATION Spec
CONSTANTS
    Modulus = 32
    MaxMediaPackets = 5
    Mask1Bits = 1
    Mask2Bits = 1
    Mask3Bits = 2
    FirstFecSn = 31
    None = None
    DecoderMedia = 4
    DecoderFEC = 2
    RecoveredLimit = 6
    NumMediaPackets = 5
    NumFecPackets = 2
    FirstSn = 29
    Jump = 0
    MaxDelay = 0
    MaxPackets = 5
INVARIANT RecoveredRight
CHECK_DEADLOCK FALSE
