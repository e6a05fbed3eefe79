--------------------------- MODULE FlexFecDecoder ---------------------------
(***************************************************************************)
(* pkg/flexfec/flexfec_decoder_03.go.                                      *)
(*                                                                         *)
(* recoveredPackets is a Go slice: cells holds its backing array as far as *)
(* it is used and first is where the slice begins in it.  A protected      *)
(* packet of a repair packet is nil, a pointer to a cell of that array     *)
(* (slot), or a packet of its own.  Sorting moves packets between the      *)
(* cells the pointers lead to.  Once append has moved the slice to a new   *)
(* array the old one does not change any more, so that pointers to it      *)
(* become packets of their own.                                            *)
(*                                                                         *)
(* Left out: packets of other streams, and headers that do not parse,      *)
(* which the encoder does not produce.  The lists span less than half the  *)
(* number space.                                                           *)
(***************************************************************************)
EXTENDS FlexFecEncoder, TLC

CONSTANTS
    DecoderMedia,   \* maxMediaPackets of the decoder, 100
    DecoderFEC,     \* maxFECPackets, 100
    RecoveredLimit  \* 192

newFECDecoder == [cells |-> <<>>, first |-> 1, capacity |-> 0, fecs |-> <<>>]

recoveredPackets(d) == SubSeq(d.cells, d.first, Len(d.cells))

isNewerSeq(prevValue, value) ==
    LET ahead == (value - prevValue) % Modulus IN
    IF ahead = Modulus \div 2 THEN value > prevValue
    ELSE ahead # 0 /\ ahead < Modulus \div 2

seqDiff(a, b) == IF (a - b) % Modulus < (b - a) % Modulus
                 THEN (a - b) % Modulus ELSE (b - a) % Modulus

abs(x) == IF x >= 0 THEN x ELSE -x
-----------------------------------------------------------------------------
\* The packet a protected entry leads to.
Pointed(d, entry) == IF entry.slot # 0 THEN d.cells[entry.slot] ELSE entry.packet

IsNil(entry) == entry.slot = 0 /\ entry.packet = None

\* append and sort.Slice.  A full array is copied to one twice as large.
AppendSorted(d, p) ==
    LET bySeq(a, b) == isNewerSeq(a.seq, b.seq)
        frozen(entry) == IF entry.slot = 0 THEN entry
                         ELSE [entry EXCEPT !.slot = 0, !.packet = d.cells[entry.slot]]
        sorted == SortSeq(Append(recoveredPackets(d), p), bySeq)
    IN  IF Len(d.cells) < d.capacity
        THEN [d EXCEPT !.cells = SubSeq(@, 1, d.first - 1) \o sorted]
        ELSE [cells |-> sorted, first |-> 1,
              capacity |-> IF d.capacity = 0 THEN 1 ELSE 2 * (d.capacity - d.first + 1),
              fecs |-> [i \in DOMAIN d.fecs |->
                  [d.fecs[i] EXCEPT !.protected =
                      [k \in DOMAIN @ |-> frozen(@[k])]]]]

updateCoveringFecPackets(d, p) ==
    [d EXCEPT !.fecs = [i \in DOMAIN @ |->
        [@[i] EXCEPT !.protected = [k \in DOMAIN @ |->
            IF @[k].seq = p.seq THEN [@[k] EXCEPT !.slot = 0, !.packet = p] ELSE @[k]]]]]

discardOldRecoveredPackets(d) ==
    IF Len(recoveredPackets(d)) > RecoveredLimit
    THEN [d EXCEPT !.first = Len(d.cells) - RecoveredLimit + 1] ELSE d

insertMediaPacket(d, p) ==
    IF \E i \in d.first..Len(d.cells) : d.cells[i].seq = p.seq THEN d
    ELSE With(AppendSorted(d, p), LAMBDA e : updateCoveringFecPackets(e, p))
-----------------------------------------------------------------------------
\* Fault: the second part of a mask is taken to start one number later.
decodeMaskLate(p) ==
    LET part(i) == SelectSeq([k \in 1..MaskBits[i] |-> k - 1],
                             LAMBDA k : k \in p.masks[i])
        seqs(i) == [k \in DOMAIN part(i) |->
                       (p.base + PartBase(i) + i - 1 + part(i)[k]) % Modulus]
    IN  FoldOnce(LAMBDA acc, i : acc \o seqs(i), <<>>, [i \in DOMAIN p.masks |-> i])

\* The masks of a repair packet as numbers, in order.
decodeMask(p) ==
    LET part(i) == SelectSeq([k \in 1..MaskBits[i] |-> k - 1],
                             LAMBDA k : k \in p.masks[i])
        seqs(i) == [k \in DOMAIN part(i) |-> (p.base + PartBase(i) + part(i)[k]) % Modulus]
    IN  FoldOnce(LAMBDA acc, i : acc \o seqs(i), <<>>, [i \in DOMAIN p.masks |-> i])

\* Each protected number with a pointer to its cell, or nil: the merge of two
\* sorted lists.
Protected(d, seqs) ==
    [k \in DOMAIN seqs |->
        LET at == {i \in d.first..Len(d.cells) : d.cells[i].seq = seqs[k]}
        IN  [seq |-> seqs[k], packet |-> None,
             slot |-> IF at = {} THEN 0 ELSE CHOOSE i \in at : TRUE]]

insertFECPacket(d, p) ==
    LET bySeq(a, b) == isNewerSeq(a.seq, b.seq)
        seqs == decodeMask(p)
        fec  == [seq |-> p.seq, bits |-> p.bits, protected |-> Protected(d, seqs)]
        fecs == SortSeq(Append(d.fecs, fec), bySeq)
    IN  IF seqs = <<>> \/ \E i \in DOMAIN d.fecs : d.fecs[i].seq = p.seq THEN d
        ELSE [d EXCEPT !.fecs = IF Len(fecs) > DecoderFEC THEN Tail(fecs) ELSE fecs]

\* The repair packets in front that are far from a new one are dropped.  Far is
\* told without regard to the wrap.
dropFarFECPackets(d, seq) ==
    LET near == {i \in DOMAIN d.fecs : abs(seq - d.fecs[i].seq) <= (Modulus \div 4) - 1}
        keep == IF near = {} THEN Len(d.fecs) + 1
                ELSE CHOOSE i \in near : \A k \in near : i <= k
    IN  [d EXCEPT !.fecs = SubSeq(@, keep, Len(@))]

insertPacket(d, p) ==
    discardOldRecoveredPackets(
        IF p.fec THEN insertFECPacket(dropFarFECPackets(d, p.seq), p)
        ELSE insertMediaPacket(d, p))
-----------------------------------------------------------------------------
\* Headers and payloads of the packets that are there are taken out of the bits
\* of the repair packet; the number comes from the mask.
recoverPacket(d, fec) ==
    LET missing == CHOOSE k \in DOMAIN fec.protected : IsNil(fec.protected[k])
        without(acc, entry) ==
            IF IsNil(entry) THEN acc ELSE Xor(acc, Pointed(d, entry).bits)
    IN  [fec |-> FALSE, seq |-> fec.protected[missing].seq,
         bits |-> FoldOnce(without, fec.bits, fec.protected)]

packetsMissing(fec) == Cardinality({k \in DOMAIN fec.protected : IsNil(fec.protected[k])})

\* One repair packet of a pass.
attemptOne(r, i) ==
    IF packetsMissing(r.d.fecs[i]) # 1 THEN r
    ELSE With(recoverPacket(r.d, r.d.fecs[i]), LAMBDA p :
            [d |-> With(AppendSorted(r.d, p), LAMBDA e :
                       discardOldRecoveredPackets(updateCoveringFecPackets(e, p))),
             out |-> Append(r.out, p)])

\* Fault: a single pass, in which every repair packet but the first is tried.
attemptRecoveryOfRest(d) ==
    FoldOnce(attemptOne, [d |-> d, out |-> <<>>], [i \in 1..Len(d.fecs) - 1 |-> i + 1])

\* Passes over the repair packets until one recovers nothing: a pass that recovers
\* something completes a repair packet, so there are not more of them.
attemptRecovery(d) ==
    LET all == [i \in DOMAIN d.fecs |-> i]
    IN  FoldOnce(LAMBDA r, pass : FoldOnce(attemptOne, r, all),
                 [d |-> d, out |-> <<>>], all)

\* The decoder and the packets it returns.
DecodeFec(d, p) ==
    LET back  == d.cells[Len(d.cells)]
        reset == /\ Len(recoveredPackets(d)) = DecoderMedia
                 /\ ~p.fec
                 /\ seqDiff(p.seq, back.seq) > DecoderMedia
    IN  With(insertPacket(IF reset THEN newFECDecoder ELSE d, p), attemptRecovery)
=============================================================================
