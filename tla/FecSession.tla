----------------------------- MODULE FecSession -----------------------------
(***************************************************************************)
(* Forward error correction end to end: FecInterceptor                     *)
(* (pkg/flexfec/encoder_interceptor.go) sends media and repair packets, a  *)
(* network loses and delays some of them, and a decoder gets the rest.     *)
(* The decoder stands alone in the repository, for the tests; the other    *)
(* side of a session uses it as they do.                                   *)
(*                                                                         *)
(* One stream is bound and written by one goroutine, so that a call of the *)
(* writer is one step.                                                     *)
(***************************************************************************)
EXTENDS FlexFecDecoder

CONSTANTS
    NumMediaPackets,    \* the options of the interceptor
    NumFecPackets,
    FirstSn,            \* the number of the first media packet
    Jump,               \* how far the application's numbers may jump, once
    MaxDelay,           \* bound: packets that may overtake a packet
    MaxPackets          \* bound: media packets written

VARIABLES
    sent,           \* the numbers of the media packets written, before the cut to 16 bits
    packetBuffer, encoder,  \* streamState
    wire,           \* packets on the way
    decoder,
    hung,           \* the decoder got bits that are no packet and goes on for ever
    arrived,        \* history: the packets the decoder got
    recovered       \* history: the packets the decoder returned

vars == <<sent, packetBuffer, encoder, wire, decoder, hung, arrived, recovered>>

Media(n) == [fec |-> FALSE, seq |-> n % Modulus, bits |-> {n}]

Init ==
    /\ sent = <<>>
    /\ packetBuffer = <<>>
    /\ encoder = NewFlexEncoder03
    /\ wire = <<>>
    /\ decoder = newFECDecoder
    /\ hung = FALSE
    /\ arrived = {}
    /\ recovered = {}

\* The application's next number: the next one, or one jump.
Numbers ==
    IF sent = <<>> THEN {FirstSn}
    ELSE LET last == sent[Len(sent)] IN
         {last + 1} \cup IF Jump > 0 /\ last = FirstSn + Len(sent) - 1
                         THEN {last + Jump} ELSE {}

\* The media packet is written first, then the repair packets of its batch.
Write(n) ==
    LET batch == Append(packetBuffer, Media(n)) IN
    /\ wire = <<>> \/ Len(wire) <= MaxDelay
    /\ Len(sent) < MaxPackets
    /\ sent' = Append(sent, n)
    /\ \E r \in {IF Len(batch) = NumMediaPackets THEN EncodeFec(encoder, batch, NumFecPackets)
                 ELSE [enc |-> encoder, packets |-> <<>>]} :
          /\ encoder' = r.enc
          /\ wire' = Append(wire, Media(n)) \o r.packets
    /\ packetBuffer' = IF Len(batch) = NumMediaPackets THEN <<>> ELSE batch
    /\ UNCHANGED <<decoder, hung, arrived, recovered>>

\* Bits that are those of no packet may parse all the same.  If not, the decoder
\* takes an empty packet for recovered, the missing one stays missing, and
\* attemptRecovery does not end.
Deliver(i) ==
    /\ ~hung
    /\ i \in DOMAIN wire /\ i <= MaxDelay + 1
    /\ \E r \in {DecodeFec(decoder, wire[i])} :
          /\ decoder' = r.d
          /\ recovered' = recovered \cup {r.out[k] : k \in DOMAIN r.out}
          /\ hung' \in {FALSE} \cup
                {\E k \in DOMAIN r.out : Cardinality(r.out[k].bits) # 1}
    /\ arrived' = arrived \cup {wire[i]}
    /\ wire' = SubSeq(wire, 1, i - 1) \o SubSeq(wire, i + 1, Len(wire))
    /\ UNCHANGED <<sent, packetBuffer, encoder>>

Lose ==
    /\ wire # <<>>
    /\ wire' = Tail(wire)
    /\ UNCHANGED <<sent, packetBuffer, encoder, decoder, hung, arrived, recovered>>

Next ==
    \/ \E n \in Numbers : Write(n)
    \/ \E i \in 1..MaxDelay + 1 : Deliver(i)
    \/ Lose

Spec == Init /\ [][Next]_vars
-----------------------------------------------------------------------------
\* What is recovered is what was sent: every packet the decoder returns is a
\* media packet of the sender, with the number it was sent with, and the decoder
\* comes back from every call (EncodeFec, DecodeFec, recoverPacket).  It takes
\* packets that arrive in order and batches that the bits of a mask can name:
\* MaxMediaPackets is one more than those.
RecoveredRight ==
    /\ ~hung
    /\ \A p \in recovered : \E k \in DOMAIN sent : p = Media(sent[k])

\* Losses are repaired: once a repair packet has arrived, behind the media packets
\* it was made from, all of these have arrived or are recovered unless two or more
\* of them are lost, also across a wrap of both numbers, a jump of the numbers and
\* in a decoder that is full (attemptRecovery, insertFECPacket).
LossesRepaired ==
    \A f \in {p \in arrived : p.fec} :
        LET lost == {n \in f.bits : Media(n) \notin arrived}
        IN  Cardinality(lost) = 1 => \A n \in lost : Media(n) \in recovered
=============================================================================
