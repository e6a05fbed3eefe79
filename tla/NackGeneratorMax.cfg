SPECIFICATION Spec
CONSTANTS
    Half = 6
    Size = 4
    SSRCs = {s1}
    Loops = {l1}
    Closers = {}
    MaxNacksChoices = {2}
    SkipLastNChoices = {0}
    CountModulus = 4
    CountCeiling = 4
    MaxLate = 3
    MaxTravel = 5
    s1 = s1
    l1 = l1
INVARIANT AtMostMaxNacks
