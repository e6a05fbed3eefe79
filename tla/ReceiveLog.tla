----------------------------- MODULE ReceiveLog -----------------------------
(***************************************************************************)
(* pkg/nack/receive_log.go: the bitmap a NACK generator keeps per remote   *)
(* stream.  A log is a record with the fields of the Go struct; the bit    *)
(* array packets is a function from slots to BOOLEAN.  The methods hold    *)
(* the log's mutex throughout, so each is one operator on the record.      *)
(***************************************************************************)
EXTENDS SeqNum, FiniteSetsExt

CONSTANT Size

\* The sizes newReceiveLog accepts are powers of two up to 2^15: each
\* divides 2^16 and none exceeds half of it.
ASSUME SizeAssumption ==
    /\ Size \in Nat \ {0}
    /\ Size <= Half
    /\ \E k \in 1 .. Modulus : Modulus = k * Size

Slots == 0 .. Size - 1

Slot(seq) == seq % Size

Log == [packets         : [Slots -> BOOLEAN],
        end             : SeqNums,
        started         : BOOLEAN,
        lastConsecutive : SeqNums]

newReceiveLog ==
    [packets         |-> [pos \in Slots |-> FALSE],
     end             |-> 0,
     started         |-> FALSE,
     lastConsecutive |-> 0]

setReceived(s, seq) == [s EXCEPT !.packets[Slot(seq)] = TRUE]

getReceived(s, seq) == s.packets[Slot(seq)]

\* Fault: the loop of delReceived stops one number short.
clearBetweenShort(s, seq) ==
    LET cleared == {Slot(Plus(s.end, k)) : k \in 1 .. Minus(seq, s.end) - 2}
    IN  [s EXCEPT !.packets =
            [pos \in Slots |-> pos \notin cleared /\ s.packets[pos]]]

\* delReceived for every number strictly between s.end and seq.
clearBetween(s, seq) ==
    LET cleared == {Slot(Plus(s.end, k)) : k \in 1 .. Minus(seq, s.end) - 1}
    IN  [s EXCEPT !.packets =
            [pos \in Slots |-> pos \notin cleared /\ s.packets[pos]]]

\* The loop walks from lastConsecutive + 1 towards end and stops in front of
\* the first number whose bit is not set.
fixLastConsecutive(s) ==
    LET span == Minus(s.end, s.lastConsecutive)
        gaps == {k \in 1 .. span : ~getReceived(s, Plus(s.lastConsecutive, k))}
        run  == IF gaps = {} THEN span ELSE Min(gaps) - 1
    IN  [s EXCEPT !.lastConsecutive = Plus(s.lastConsecutive, run)]

\* add, first packet of the stream.
addFirst(s, seq) ==
    [setReceived(s, seq) EXCEPT !.end             = seq,
                                !.started         = TRUE,
                                !.lastConsecutive = seq]

\* Fault: numbers that fall out of the window are not given up.
addAheadKeepingAll(s, seq) ==
    LET slid == [clearBetween(s, seq) EXCEPT !.end = seq]
        kept == IF Plus(s.lastConsecutive, 1) = seq
                  THEN [slid EXCEPT !.lastConsecutive = seq]
                  ELSE slid
    IN  setReceived(kept, seq)

\* add, seq ahead of end: the window slides, and what falls out of it is
\* given up by moving lastConsecutive to its edge.
addAhead(s, seq) ==
    LET slid == [clearBetween(s, seq) EXCEPT !.end = seq]
        kept == IF Plus(s.lastConsecutive, 1) = seq
                  THEN [slid EXCEPT !.lastConsecutive = seq]
                ELSE IF Minus(seq, s.lastConsecutive) > Size
                  THEN fixLastConsecutive(
                         [slid EXCEPT !.lastConsecutive = Minus(seq, Size)])
                ELSE slid
    IN  setReceived(kept, seq)

\* add, seq behind end: a late or retransmitted packet.
addLate(s, seq) ==
    LET kept == IF Plus(s.lastConsecutive, 1) = seq
                  THEN fixLastConsecutive([s EXCEPT !.lastConsecutive = seq])
                  ELSE s
    IN  setReceived(kept, seq)

add(s, seq) ==
    IF ~s.started THEN addFirst(s, seq)
    ELSE IF seq = s.end THEN s
    ELSE IF IsAhead(seq, s.end) THEN addAhead(s, seq)
    ELSE addLate(s, seq)

get(s, seq) ==
    LET diff == Minus(s.end, seq)
    IN  diff < Uint16SizeHalf /\ diff < Size /\ getReceived(s, seq)

\* Fault: no early return when until is not ahead of lastConsecutive.
missingSeqNumbersUnguarded(s, skipLastN) ==
    LET until == Minus(s.end, skipLastN)
        span  == Minus(until, s.lastConsecutive)
    IN  {seq \in {Plus(s.lastConsecutive, k) : k \in 1 .. span} :
            ~getReceived(s, seq)}

\* The numbers the method writes into the caller's slice of length Size.
\* Their order, ascending from lastConsecutive, is left out.
missingSeqNumbers(s, skipLastN) ==
    LET until == Minus(s.end, skipLastN)
        span  == Minus(until, s.lastConsecutive)
    IN  IF span >= Uint16SizeHalf
          THEN {}
          ELSE {seq \in {Plus(s.lastConsecutive, k) : k \in 1 .. span} :
                    ~getReceived(s, seq)}
=============================================================================
