SPECIFICATION MCSpec
CONSTANTS
    MinCapacity = 1
    MaxPackets = 4
    Half = 8
    PacketWindow = 6
    MaxMissing = 2
    DeltaScale = 2
    RefScale = 4
    MaxSmallDelta = 1
    MaxDelta = 2
    TwoBitCap = 2
    OneBitCap = 4
    RunLengthCap = 5
    None = None
    HistorySize = 3
    AtoScale = 2
    AtoModulus = 6
    AtoTooOld = 3
    AtoFuture = 4
    NtpModulus = 15
    MaxReportSize = 12
    HeaderSize = 0
    BlockSize = 2
    w1 = w1
    w2 = w2
    Settings <- MCSettings
    Ssrc <- MCSsrc
    Steps <- MCSteps
    MaxTime = 15
    MaxFeedback = 1
SYMMETRY Symmetry
CHECK_DEADLOCK FALSE
INVARIANTS ArrivalsRight LossesRight NothingSkipped
INVARIANTS LossFiguresRight RoundTripRight ReportTimesRight
