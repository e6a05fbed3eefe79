---------------------------- MODULE TwccRecorder ----------------------------
(***************************************************************************)
(* The recorder of transport wide congestion control (pkg/twcc/twcc.go):   *)
(* it records when packets arrive and builds feedback packets, each a      *)
(* reference time, chunks of packet status symbols, and the arrival times  *)
(* as rounded differences.  Times are microseconds cut down to small       *)
(* numbers; DeltaScale and RefScale keep the order of the code's 250 us    *)
(* and 64 ms.  SSRCs, the feedback count, packetsHeld and the RTCP length  *)
(* and padding are left out.                                               *)
(***************************************************************************)
EXTENDS ArrivalTimeMap, Unwrapper, Sequences, SequencesExt

CONSTANTS
    PacketWindow,       \* packetWindowMicroseconds: 500000
    MaxMissing,         \* maxMissingSequenceNumbers: 0x7FFE
    DeltaScale,         \* rtcp.TypeTCCDeltaScaleFactor: 250
    RefScale,           \* unit of the reference time: 64000
    MaxSmallDelta,      \* largest delta of one byte: 0xff
    MaxDelta,           \* largest delta of two bytes: math.MaxInt16
    TwoBitCap,          \* maxTwoBitCap: 7
    OneBitCap,          \* maxOneBitCap: 14
    RunLengthCap,       \* maxRunLengthCap: 0x1fff
    None                \* nil

ASSUME RecorderAssumption ==
    /\ MaxMissing < Half
    /\ RefScale \div DeltaScale <= MaxDelta
    /\ OneBitCap = 2 * TwoBitCap /\ OneBitCap <= RunLengthCap

-----------------------------------------------------------------------------
NewRecorder == [map |-> NewMap, unwrapper |-> NewUnwrapper, start |-> None]

\* Old packets are dropped only when everything recorded has been reported.
maybeCullOldPackets(r, sn, arrivalTime) ==
    IF /\ r.start # None
       /\ r.start >= r.map.end
       /\ arrivalTime >= PacketWindow
    THEN [r EXCEPT !.map = RemoveOldPackets(@, sn, arrivalTime - PacketWindow)]
    ELSE r

\* Fault: a packet behind the start of the next feedback does not move it.
RecordForward(rec, sequenceNumber, arrivalTime) ==
    With([rec EXCEPT !.unwrapper = Unwrap(@, sequenceNumber)], LAMBDA r :
        IF HasReceived(r.map, r.unwrapper.last)
        THEN r
        ELSE [r EXCEPT !.map = AddPacket(@, r.unwrapper.last, arrivalTime),
                       !.start = IF @ = None THEN r.unwrapper.last ELSE @])

\* A packet behind the start of the next feedback moves the start back; only
\* the first arrival counts; the start never lies before the map.
Record(rec, sequenceNumber, arrivalTime) ==
    LET unwrapped == [rec EXCEPT !.unwrapper = Unwrap(@, sequenceNumber)]
        sn        == unwrapped.unwrapper.last
        started(r) == [r EXCEPT !.start = IF @ = None \/ sn < @ THEN sn ELSE @]
        added(r, m) == [r EXCEPT !.map = m, !.start = Max({@, m.begin})]
    IN  With(started(maybeCullOldPackets(unwrapped, sn, arrivalTime)), LAMBDA r :
            IF HasReceived(r.map, sn)
            THEN r
            ELSE added(r, AddPacket(r.map, sn, arrivalTime)))
-----------------------------------------------------------------------------
\* A chunk under construction is the sequence of its symbols; the two flags of
\* the code are functions of it.

hasLargeDelta(c) == "large" \in ToSet(c)
hasDifferentTypes(c) == \E i \in DOMAIN c : c[i] # c[1]

canAdd(c, symbol) ==
    \/ Len(c) < TwoBitCap
    \/ Len(c) < OneBitCap /\ ~hasLargeDelta(c) /\ symbol # "large"
    \/ Len(c) < RunLengthCap /\ ~hasDifferentTypes(c) /\ symbol = c[1]

\* The RTCP chunk for the first symbols of c, and the symbols that remain.
encode(c) ==
    IF ~hasDifferentTypes(c)
    THEN [chunk |-> [type |-> "run", symbol |-> c[1], length |-> Len(c)],
          rest |-> <<>>]
    ELSE IF Len(c) = OneBitCap
    THEN [chunk |-> [type |-> "vector", bits |-> 1, symbols |-> c], rest |-> <<>>]
    ELSE LET n == Min({TwoBitCap, Len(c)})
         IN  [chunk |-> [type |-> "vector", bits |-> 2, symbols |-> SubSeq(c, 1, n)],
              rest |-> SubSeq(c, n + 1, Len(c))]

EncodeChunk(fb) ==
    With(encode(fb.lastChunk), LAMBDA e :
        [fb EXCEPT !.chunks = Append(@, e.chunk), !.lastChunk = e.rest])

AddSymbol(fb, symbol) ==
    With(IF canAdd(fb.lastChunk, symbol) THEN fb ELSE EncodeChunk(fb), LAMBDA f :
        [f EXCEPT !.lastChunk = Append(@, symbol), !.count = @ + 1,
                  !.next = (@ + 1) % Modulus])

\* newFeedback and setBase
NewFeedback(base, timeUS) ==
    [base |-> base % Modulus, next |-> base % Modulus, count |-> 0,
     ref |-> timeUS \div RefScale, last |-> (timeUS \div RefScale) * RefScale,
     lastChunk |-> <<>>, chunks |-> <<>>, deltas |-> <<>>]

\* A difference in units of 250 us, rounded to the nearest.
Scaled(deltaUS) ==
    IF deltaUS >= 0
    THEN (deltaUS + DeltaScale \div 2) \div DeltaScale
    ELSE -((-deltaUS + DeltaScale \div 2) \div DeltaScale)

Fits(fb, arrivalTime) ==
    Scaled(arrivalTime - fb.last) \in -MaxDelta - 1 .. MaxDelta

\* addReceived, for a time that fits: symbols for the numbers skipped, the
\* symbol of the packet, and its difference.
addReceived(fb, sn, arrivalTime) ==
    LET delta   == Scaled(arrivalTime - fb.last)
        symbol  == IF delta \in 0..MaxSmallDelta THEN "small" ELSE "large"
        skipped == [i \in 1..((sn - fb.next) % Modulus) |-> "none"]
    IN  [FoldOnce(AddSymbol, fb, Append(skipped, symbol)) EXCEPT
            !.deltas = Append(@, delta * DeltaScale),
            !.last = @ + delta * DeltaScale]

\* The feedback from number begin on: packets are added in the order of their
\* numbers until one does not fit.  next is where the next feedback starts.
\* The first packet always fits (RecorderAssumption): the return of nil the
\* code has for one that does not is never taken.
maybeBuildFeedbackPacket(map, begin) ==
    LET add(b, sn) ==
            IF b.full THEN b
            ELSE With(IF b.fb = None
                      THEN NewFeedback(Max({begin, sn - MaxMissing}), get(map, sn))
                      ELSE b.fb,
                      LAMBDA f :
                          IF Fits(f, get(map, sn))
                          THEN [fb |-> addReceived(f, sn, get(map, sn)),
                                next |-> sn + 1, full |-> FALSE]
                          ELSE [b EXCEPT !.full = TRUE])
    IN  FoldOnce(add, [fb |-> None, next |-> begin, full |-> FALSE],
                 SetToSortSeq(ReceivedFrom(map, begin), <))

\* The symbols still in the last chunk are encoded.
getRTCP(feedback) ==
    With(FoldOnce(LAMBDA f, i : IF f.lastChunk = <<>> THEN f ELSE EncodeChunk(f),
                  feedback, feedback.lastChunk), LAMBDA f :
        [base |-> f.base, count |-> f.count, ref |-> f.ref,
         chunks |-> f.chunks, deltas |-> f.deltas])

\* One feedback packet after the other until the map is covered.
BuildFeedbackPacket(rec) ==
    LET next(b, i) ==
            IF b.rec.start >= b.rec.map.end
            THEN b
            ELSE With(maybeBuildFeedbackPacket(b.rec.map, b.rec.start), LAMBDA m :
                     IF m.fb = None
                     THEN b
                     ELSE [rec |-> [b.rec EXCEPT !.start = m.next],
                           packets |-> Append(b.packets, getRTCP(m.fb))])
        none == [rec |-> rec, packets |-> <<>>]
    IN  IF rec.start = None
        THEN none
        ELSE FoldOnce(next, none, [i \in 1..rec.map.end - rec.start |-> i])
=============================================================================
