SPECIFICATION MCSpec
CONSTANTS
    Half = 6
    Size = 4
    SSRCs = {s1}
    Loops = {l1, l2}
    Closers = {c1, c2}
    MaxNacksChoices = {0, 1, 2}
    SkipLastNChoices = {0, 1}
    CountModulus = 4
    CountCeiling = 3
    MaxLate = 3
    MaxTravel = 4
    FirstLoop = l1
    s1 = s1
    l1 = l1
    l2 = l2
    c1 = c1
    c2 = c2
INVARIANTS TypeOK CountsExact CountsOnlyForBound
PROPERTIES QuietAfterClose CloseReturns
