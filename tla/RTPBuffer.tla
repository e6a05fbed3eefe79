----------------------------- MODULE RTPBuffer -----------------------------
(***************************************************************************)
(* internal/rtpbuffer/rtpbuffer.go: the ring of packets a sender keeps for *)
(* retransmission.  A buffer is a record with the fields of the Go struct; *)
(* a slot holds a packet or NoPacket.  The sequence number of a packet is  *)
(* looked up in the function number.  What Add releases and what Get       *)
(* retains is returned separately: the counts belong to the packets.       *)
(***************************************************************************)
EXTENDS SeqNum, FiniteSets

CONSTANTS BufferSize, NoPacket

\* NewRTPBuffer accepts the powers of two up to 2^15.
ASSUME BufferSizeAssumption ==
    /\ BufferSize \in Nat \ {0}
    /\ BufferSize <= Half
    /\ \E k \in 1 .. Modulus : Modulus = k * BufferSize

Indexes == 0 .. BufferSize - 1

Index(seq) == seq % BufferSize

NewRTPBuffer ==
    [packets      |-> [idx \in Indexes |-> NoPacket],
     highestAdded |-> 0,
     started      |-> FALSE]

\* The slots Add empties or overwrites.
Cleared(r, seq) ==
    IF r.started /\ IsAhead(seq, r.highestAdded)
      THEN {Index(Plus(r.highestAdded, k)) : k \in 1 .. Minus(seq, r.highestAdded)}
      ELSE {Index(seq)}

\* A packet with the number highestAdded is not stored a second time.
Ignored(r, seq) == r.started /\ seq = r.highestAdded

\* Fault: a late packet moves highestAdded back.
AddMovingBack(r, packet, seq) ==
    IF Ignored(r, seq)
      THEN r
      ELSE [packets      |-> [idx \in Indexes |->
                                IF idx = Index(seq) THEN packet
                                ELSE IF idx \in Cleared(r, seq) THEN NoPacket
                                ELSE r.packets[idx]],
            highestAdded |-> seq,
            started      |-> TRUE]

Add(r, packet, seq) ==
    IF Ignored(r, seq)
      THEN r
      ELSE [packets      |-> [idx \in Indexes |->
                                IF idx = Index(seq) THEN packet
                                ELSE IF idx \in Cleared(r, seq) THEN NoPacket
                                ELSE r.packets[idx]],
            highestAdded |-> IF ~r.started \/ IsAhead(seq, r.highestAdded)
                               THEN seq ELSE r.highestAdded,
            started      |-> TRUE]

\* Fault: the packets of skipped numbers are dropped without a Release.
EvictedFromOwnSlot(r, seq) ==
    IF Ignored(r, seq) THEN {} ELSE {r.packets[Index(seq)]} \ {NoPacket}

\* The packets Add calls Release on, each once.
Evicted(r, seq) ==
    IF Ignored(r, seq)
      THEN {}
      ELSE {r.packets[idx] : idx \in Cleared(r, seq)} \ {NoPacket}

\* Fault: the oldest packet of the ring is not found.
GetOneShort(r, seq, number) ==
    LET packet == r.packets[Index(seq)]
    IN  IF /\ Minus(r.highestAdded, seq) < BufferSize - 1
           /\ packet # NoPacket
           /\ number[packet] = seq
          THEN packet
          ELSE NoPacket

\* The packet Get answers with, before it is retained.
Get(r, seq, number) ==
    LET diff   == Minus(r.highestAdded, seq)
        packet == r.packets[Index(seq)]
    IN  IF /\ diff < Uint16SizeHalf
           /\ diff < BufferSize
           /\ packet # NoPacket
           /\ number[packet] = seq
          THEN packet
          ELSE NoPacket
=============================================================================
