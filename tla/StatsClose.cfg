\* Two streams, and Close while their recorders start.
SPECIFICATION Spec
CONSTANTS
    Streams = {s1, s2}
    MaxCounted = 2
INVARIANT RecordersClosed
CHECK_DEADLOCK FALSE
