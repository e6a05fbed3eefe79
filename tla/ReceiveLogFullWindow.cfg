CONSTANTS
    Half = 4
    Size = 4
    MaxLate = 3
SPECIFICATION Spec
INVARIANT GapsAreReported
