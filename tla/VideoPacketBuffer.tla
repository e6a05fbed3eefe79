------------------------- MODULE VideoPacketBuffer -------------------------
(***************************************************************************)
(* The buffer of pkg/videoframe that collects RTP packets and hands out    *)
(* complete frames (packet_buffer.go), and the assembler that turns the    *)
(* packets of a frame into an EncodedFrame (frame_assembler.go).  Packets  *)
(* are records                                                             *)
(*   [seq, ts, payload, header, continuous]                                *)
(* where seq is the unwrapped number and header an RTPVideoHeader          *)
(* (VideoReceiver).  The marker bit of the packet is header.last.          *)
(***************************************************************************)
EXTENDS Integers, Sequences, SequencesExt, Evaluation

CONSTANTS
    PacketBufferSize,   \* slots of the buffer
    SeqModulus,         \* RTP sequence numbers are uint16: 2^16
    NoPkt               \* an empty slot

\* NewVideoPacketBuffer refuses a size that is not a power of two.
ASSUME BufferSizeAssumption == PacketBufferSize \in {2^k : k \in 1..11}

EmptyBuffer == [i \in 0..PacketBufferSize - 1 |-> NoPkt]

seqNumToIndex(seqNum) == seqNum % PacketBufferSize

Holds(buffer, seqNum) ==
    /\ buffer[seqNumToIndex(seqNum)] # NoPkt
    /\ buffer[seqNumToIndex(seqNum)].seq = seqNum

At(buffer, seqNum) == buffer[seqNumToIndex(seqNum)]

potentialNewFrame(buffer, seqNum) ==
    /\ Holds(buffer, seqNum)
    /\ \/ At(buffer, seqNum).header.first
       \/ /\ Holds(buffer, seqNum - 1)
          /\ At(buffer, seqNum - 1).ts = At(buffer, seqNum).ts
          /\ At(buffer, seqNum - 1).continuous

\* The packets from the nearest first packet of a frame up to endSeqNum, or
\* nothing when one of them is missing or not continuous.
extractFrame(buffer, endSeqNum) ==
    LET starts == {s \in endSeqNum - PacketBufferSize .. endSeqNum :
                       /\ \A k \in s..endSeqNum : Holds(buffer, k)
                       /\ At(buffer, s).header.first
                       /\ \A k \in s + 1 .. endSeqNum :
                              ~At(buffer, k).header.first}
    IN  IF \E s \in starts : \A k \in s..endSeqNum : At(buffer, k).continuous
        THEN LET s == CHOOSE s \in starts : TRUE
             IN  [i \in 1..endSeqNum - s + 1 |-> At(buffer, s + i - 1)]
        ELSE <<>>

Without(buffer, frame) ==
    [i \in DOMAIN buffer |->
        IF \E j \in DOMAIN frame : seqNumToIndex(frame[j].seq) = i
        THEN NoPkt
        ELSE buffer[i]]

\* The scan of the numbers around seqNum, from half the buffer below it to
\* half the buffer above: found.buffer is the buffer and found.frames the
\* frames completed so far.
findFrames(buffer, seqNum) ==
    LET visit(found, k) ==
            IF ~potentialNewFrame(found.buffer, k)
            THEN found
            ELSE LET marked == [found.buffer EXCEPT
                                    ![seqNumToIndex(k)].continuous = TRUE]
                     frame  == IF At(marked, k).header.last
                               THEN extractFrame(marked, k)
                               ELSE <<>>
                 IN  IF frame = <<>>
                     THEN [found EXCEPT !.buffer = marked]
                     ELSE [buffer |-> Without(marked, frame),
                           frames |-> Append(found.frames, frame)]
        around == [i \in 1..PacketBufferSize |->
                      seqNum - PacketBufferSize \div 2 + i - 1]
    IN  FoldOnce(visit, [buffer |-> buffer, frames |-> <<>>], around)

\* A packet that is already there is ignored; another one in its slot is
\* overwritten.
InsertPacket(buffer, pkt) ==
    IF Holds(buffer, pkt.seq)
    THEN [buffer |-> buffer, frames |-> <<>>]
    ELSE findFrames([buffer EXCEPT ![seqNumToIndex(pkt.seq)] =
                         [pkt EXCEPT !.continuous = FALSE]],
                    pkt.seq)

\* The frame's type, timestamp and first number come from its first packet.
AssembleFrame(packets, id) ==
    [id |-> id,
     firstSeqNum |-> Head(packets).seq % SeqModulus,
     lastSeqNum  |-> Last(packets).seq % SeqModulus,
     first |-> Head(packets).seq,
     last  |-> Last(packets).seq,
     ts    |-> Head(packets).ts,
     key   |-> Head(packets).header.key,
     data  |-> FlattenSeq([i \in DOMAIN packets |-> packets[i].payload]),
     refs  |-> <<>>]
=============================================================================
