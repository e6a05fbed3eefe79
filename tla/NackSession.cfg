SPECIFICATION MCSpec
CONSTANTS
    Half = 8
    Size = 4
    MaxLate = 3
    BufferSize = 4
    FirstSeq = 13
    MaxSend = 7
    MaxLoss = 3
    MaxNacks = 1
    NoPacket = NoPacket
INVARIANTS LogInvariant MissingFits LogIsTruthful
PROPERTIES ImplementsGaps LossesRecovered
CHECK_DEADLOCK FALSE
