SPECIFICATION MCSpec
CONSTANTS
    PacketBufferSize = 4
    SeqModulus = 16
    NoPkt = NoPkt
    PicModulus = 16
    TL0Modulus = 8
    Layers = 2
    MaxTL0History = 1
    MaxPictureAge = 3
    MaxStashedFrames = 3
    Absent = Absent
    Scripts <- MCScripts
    Kinds <- MCKinds
    FirstSeq = 15
    FirstPic <- MCFirstPic
    FirstTL0 = 7
    MaxReorder = 2
    MaxRepeats = 1
    MaxBinds = 2
    Nodes = {n1, n2, n3}
    n1 = n1
    n2 = n2
    n3 = n3
SYMMETRY NodeSymmetry
CHECK_DEADLOCK FALSE
INVARIANTS FramesAreWhole IdsAgree ReferencesResolved StreamPlays
INVARIANTS QueueInOrder NothingLost PlaysOn
INVARIANTS RecoveredRight LossesRepaired
