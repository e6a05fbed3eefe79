--------------------------- MODULE ArrivalTimeMap ---------------------------
(***************************************************************************)
(* packetArrivalTimeMap of pkg/twcc/arrival_time_map.go: the arrival times *)
(* of a range of unwrapped sequence numbers in a circular buffer whose     *)
(* capacity, a power of two, follows the length of the range.  A map is a  *)
(* record [times, begin, end]; times has no slots before the first packet. *)
(***************************************************************************)
EXTENDS Integers, FiniteSets, FiniteSetsExt, Evaluation

CONSTANTS
    MinCapacity,    \* minCapacity: 128
    MaxPackets      \* maxNumberOfPackets: 2^15

ASSUME CapacityAssumption ==
    /\ MinCapacity \in {2^k : k \in 0..15}
    /\ MaxPackets \in Nat \ {0}

NotReceived == -1

NewMap == [times |-> <<>>, begin |-> 0, end |-> 0]

capacity(m) == Cardinality(DOMAIN m.times)

index(m, sn) == sn % capacity(m)

get(m, sn) ==
    IF sn \in m.begin..m.end - 1 THEN m.times[index(m, sn)] ELSE NotReceived

HasReceived(m, sn) == get(m, sn) >= 0

Clamp(m, sn) == IF sn < m.begin THEN m.begin ELSE IF m.end < sn THEN m.end ELSE sn

\* The numbers FindNextAtOrAfter visits from a number on.
ReceivedFrom(m, sn) == {n \in Clamp(m, sn)..m.end - 1 : get(m, n) >= 0}

\* Fault: the times keep their slots when the buffer is resized.
reallocateInPlace(m, newCapacity) ==
    [m EXCEPT !.times =
        [i \in 0..newCapacity - 1 |-> IF i \in DOMAIN m.times THEN m.times[i] ELSE 0]]

\* A new buffer has zeros where no number of the range belongs.
reallocate(m, newCapacity) ==
    [m EXCEPT !.times =
        [i \in 0..newCapacity - 1 |->
            LET here == {sn \in m.begin..m.end - 1 : sn % newCapacity = i}
            IN  IF here = {} THEN 0 ELSE get(m, Max(here))]]

\* Double until the range fits; halve while it fills less than a quarter.
adjustToSize(m, newSize) ==
    LET larger  == {capacity(m) * 2^k : k \in 0..15}
        smaller == {capacity(m) \div 2^k : k \in 0..15}
        need    == Max({newSize, MinCapacity})
    IN  IF newSize > capacity(m)
        THEN reallocate(m, Min({c \in larger : c >= newSize}))
        ELSE IF capacity(m) > Max({MinCapacity, newSize * 4})
        THEN reallocate(m, Max({c \in smaller : c < 2 * need}))
        ELSE m

setNotReceived(m, from, to) ==
    [m EXCEPT !.times =
        [i \in DOMAIN @ |-> IF \E sn \in from..to - 1 : index(m, sn) = i
                            THEN NotReceived ELSE @[i]]]

Store(m, sn, arrivalTime) == [m EXCEPT !.times[index(m, sn)] = arrivalTime]

AddFirst(m, sn, arrivalTime) ==
    Store([reallocate(m, MinCapacity) EXCEPT !.begin = sn, !.end = sn + 1],
          sn, arrivalTime)

\* Before the range: only if the range, extended back, is not too long.
AddBefore(m, sn, arrivalTime) ==
    IF m.end - sn > MaxPackets
    THEN m
    ELSE With(adjustToSize(m, m.end - sn), LAMBDA a :
             [setNotReceived(Store(a, sn, arrivalTime), sn + 1, a.begin) EXCEPT
                 !.begin = sn])

\* After the range: the oldest numbers make room, all of them if need be, and
\* the numbers in between are marked as not received.
AddAfter(m, sn, arrivalTime) ==
    IF sn + 1 >= m.end + MaxPackets
    THEN Store([m EXCEPT !.begin = sn, !.end = sn + 1], sn, arrivalTime)
    ELSE LET kept == [m EXCEPT !.begin = Max({@, sn + 1 - MaxPackets})]
         IN  With(adjustToSize(kept, sn + 1 - kept.begin), LAMBDA a :
                 Store([setNotReceived(a, a.end, sn) EXCEPT !.end = sn + 1],
                       sn, arrivalTime))

AddPacket(m, sn, arrivalTime) ==
    IF capacity(m) = 0 THEN AddFirst(m, sn, arrivalTime)
    ELSE IF sn < m.begin THEN AddBefore(m, sn, arrivalTime)
    ELSE IF sn >= m.end THEN AddAfter(m, sn, arrivalTime)
    ELSE Store(m, sn, arrivalTime)

\* The range gives up its first numbers below sn that are missing or older
\* than the limit.
RemoveOldPackets(m, sn, arrivalTimeLimit) ==
    LET to == {n \in m.begin..m.end :
                  /\ n <= Max({m.begin, Min({sn, m.end})})
                  /\ \A k \in m.begin..n - 1 : get(m, k) <= arrivalTimeLimit}
    IN  With([m EXCEPT !.begin = Max(to)], LAMBDA a : adjustToSize(a, a.end - a.begin))
=============================================================================
