--------------------------- MODULE FlexFecEncoder ---------------------------
(***************************************************************************)
(* pkg/flexfec: flexfec_coverage.go and flexfec_encoder_03.go.             *)
(*                                                                         *)
(* The bits of a packet, of its header and payload alike, are a set of     *)
(* identities and xor is the symmetric difference of two such sets: a      *)
(* media packet is its own identity, a repair packet the set of those it   *)
(* was made from.  A bit mask is a set of indexes.  The header carries it  *)
(* in up to three parts, of which the last one has its K bit set.          *)
(***************************************************************************)
EXTENDS Integers, Sequences, FiniteSets, Evaluation

CONSTANTS
    Modulus,            \* 2^16
    MaxMediaPackets,    \* 110
    Mask1Bits, Mask2Bits, Mask3Bits,    \* 15, 31 and 63, the parts of the mask
    FirstFecSn,         \* 1000, the number of the first repair packet
    None

MaskBits == <<Mask1Bits, Mask2Bits, Mask3Bits>>

Xor(S, T) == (S \ T) \cup (T \ S)

PartBase(p) == IF p = 1 THEN 0 ELSE IF p = 2 THEN MaskBits[1] ELSE MaskBits[1] + MaskBits[2]
-----------------------------------------------------------------------------
\* flexfec_coverage.go

\* Interleaved: media packet X is covered by FEC packet X % N.
Masks(numMedia, numFec) ==
    [f \in 0..numFec - 1 |-> {j \in f..numMedia - 1 : (j - f) % numFec = 0}]

\* Masks are kept while the numbers of packets stay the same.
UpdateCoverage(coverage, media, numFec) ==
    IF Len(media) = 0 \/ Len(media) > MaxMediaPackets THEN coverage
    ELSE IF coverage.numFecPackets = numFec /\ coverage.numMediaPackets = Len(media)
    THEN [coverage EXCEPT !.mediaPackets = media]
    ELSE [packetMasks |-> Masks(Len(media), numFec), mediaPackets |-> media,
          numFecPackets |-> numFec, numMediaPackets |-> Len(media)]

NewCoverage(media, numFec) ==
    IF Len(media) = 0 \/ Len(media) > MaxMediaPackets THEN None
    ELSE UpdateCoverage([packetMasks |-> <<>>, mediaPackets |-> <<>>,
                         numFecPackets |-> 0, numMediaPackets |-> 0], media, numFec)

GetCoveredBy(coverage, f) ==
    {j \in coverage.packetMasks[f] : j < coverage.numMediaPackets}

ExtractMask(coverage, f, p) ==
    {j - PartBase(p) : j \in {k \in coverage.packetMasks[f] :
                                 k - PartBase(p) \in 0..MaskBits[p] - 1}}
-----------------------------------------------------------------------------
\* flexfec_encoder_03.go

NewFlexEncoder03 == [fecBaseSn |-> FirstFecSn, coverage |-> None]

\* An optional part is written when it or a later one is not empty.
MaskParts(coverage, f) ==
    LET last == IF ExtractMask(coverage, f, 3) # {} THEN 3
                ELSE IF ExtractMask(coverage, f, 2) # {} THEN 2 ELSE 1
    IN  [p \in 1..last |-> ExtractMask(coverage, f, p)]

XorOfCovered(coverage, f) ==
    LET covered(acc, j) ==
            IF j - 1 \in GetCoveredBy(coverage, f)
            THEN Xor(acc, coverage.mediaPackets[j].bits) ELSE acc
    IN  FoldOnce(covered, {}, [j \in 1..coverage.numMediaPackets |-> j])

encodeFlexFecPacket(coverage, f, mediaBaseSn, sn) ==
    [fec |-> TRUE, seq |-> sn, base |-> mediaBaseSn,
     masks |-> MaskParts(coverage, f), bits |-> XorOfCovered(coverage, f)]

InOrder(media) ==
    \A i \in 2..Len(media) : media[i].seq = (media[i - 1].seq + 1) % Modulus

\* The encoder and the repair packets it returns: none for a batch with a gap,
\* and none for a FEC packet that covers nothing.
EncodeFec(enc, media, numFec) ==
    IF Len(media) = 0 \/ ~InOrder(media) THEN [enc |-> enc, packets |-> <<>>]
    ELSE With(IF enc.coverage = None THEN NewCoverage(media, numFec)
              ELSE UpdateCoverage(enc.coverage, media, numFec),
              LAMBDA coverage :
        IF coverage = None THEN [enc |-> enc, packets |-> <<>>]
        ELSE LET some == SelectSeq([f \in 1..numFec |-> f - 1],
                                   LAMBDA f : GetCoveredBy(coverage, f) # {})
             IN  [enc |-> [fecBaseSn |-> (enc.fecBaseSn + Len(some)) % Modulus,
                           coverage |-> coverage],
                  packets |-> [i \in DOMAIN some |->
                      encodeFlexFecPacket(coverage, some[i], media[1].seq,
                                          (enc.fecBaseSn + i - 1) % Modulus)]])
=============================================================================
