\* Five interceptors, two loops, two callers of Close and of the readers; both
\* pacers, with a packet of 3, which is more than an interval allows and less than
\* any burst; two readers of feedback.
SPECIFICATION MCSpec
CONSTANTS
    Kinds = {"twcc", "rfc8888", "reports", "pli", "dump"}
    Binds = {1, 2}
    Closers = {1, 2}
    Callers = {1, 2}
    Intervals = {TRUE, FALSE}
    Pacers = {"pacing", "leaky"}
    Sizes = {1, 3}
    Rates = {1, 2}
    InitialRate = 2
    BurstFactor = 4
    QueueSize = 2
    MaxPackets = 3
    MaxRates = 1
    MaxIdle = 2
    Readers = {1, 2}
    ReceivedRates = {2, 4}
    InitialBitrate = 4
    MinBitrate = 3
    MaxBitrate = 4
    LossMin = 2
    LossMax = 5
    MaxFeedback = 2
INVARIANTS
    PacketsKept
    RateKept
    PipesOpen
    TargetBounded
PROPERTIES
    QuietAfterClose
    PacingQuietAfterClose
    EstimatorQuiet
    AllReturn
    CallersReturn
    NewStreamsGetPLI
    AcceptedLeave
\* Everything may come to rest once it is closed.
CHECK_DEADLOCK FALSE
