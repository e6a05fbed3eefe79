SPECIFICATION MCSpec
CONSTANTS
    Half = 3
    BufferSize = 2
    NoPacket = NoPacket
    Streams = {1, 2}
    Packets = {p1, p2, p3, p4}
    Writers = {w1, w2}
    Resenders = {r1, r2}
    MaxNacked = 2
    MaxLate = 1
    SecondWriter = w2
    SecondResender = r2
    p1 = p1
    p2 = p2
    p3 = p3
    p4 = p4
    w1 = w1
    w2 = w2
    r1 = r1
    r2 = r2
SYMMETRY PacketSymmetry
INVARIANTS TypeOK RefCountExact ResendIntact
PROPERTY ImplementsWindow
