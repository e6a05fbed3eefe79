SPECIFICATION Spec
CONSTANTS
    Half = 2
    Nodes = {n1,n2,n3}
    Nil = Nil
    FrameLen = 2
    StartCounts = {1, 2}
    DefaultStart = 3
    MayRepeatFront = TRUE
    n1 = n1
    n2 = n2
    n3 = n3
SYMMETRY NodeSymmetry
INVARIANT QueueInOrder
