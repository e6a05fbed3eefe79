--------------------------- MODULE NackResponder ---------------------------
(***************************************************************************)
(* pkg/nack/responder_interceptor.go with the reference counted packets of *)
(* internal/rtpbuffer (retainable_packet.go, packet_factory.go): writers   *)
(* store copies of what they send, and every NACK is answered by its own   *)
(* goroutine, which writes from the stored copies without holding a lock.  *)
(*                                                                         *)
(* One SSRC is modelled; binding it again makes a new stream object, and   *)
(* writers and resends that hold the old object keep using it.  A packet   *)
(* and the pooled header and payload buffer it owns are one entry of heap: *)
(* count 0 means that both are back in the pools (or that nothing refers   *)
(* to them any more), for any stream to take.                              *)
(* streamsMu and rtpBufferMutex are held for a map access, an Add or a Get *)
(* only, so each of these is one action.                                   *)
(***************************************************************************)
EXTENDS RTPBuffer

CONSTANTS Streams,      \* the localStream objects, in the order of binding
          Packets,      \* the packet objects
          Writers,      \* goroutines writing RTP packets
          Resenders,    \* goroutines answering a NACK
          MaxNacked,    \* bound on the numbers in one NACK
          MaxLate       \* bound on how far a write is overtaken

ASSUME StreamsAssumption == IsFiniteSet(Streams) /\ Streams = 1 .. Cardinality(Streams)

ASSUME ActorsAssumption ==
    /\ IsFiniteSet(Writers) /\ IsFiniteSet(Resenders)
    /\ NoPacket \notin Packets
    /\ MaxLate \in Nat

NoStream == 0

VARIABLES
    heap,       \* packet -> [seq, stream, count]
    buffers,    \* stream -> its rtpBuffer
    streams,    \* the stream the SSRC is bound to, or NoStream
    created,    \* how many stream objects exist
    writers,    \* writer -> [pc, stream, packet]
    resenders   \* resender -> [pc, stream, todo, packet, seq]

vars == <<heap, buffers, streams, created, writers, resenders>>

Number == [p \in Packets |-> heap[p].seq]

\* The references to a packet that its count stands for.
SlotsOf(p) == {slot \in Streams \X Indexes : buffers[slot[1]].packets[slot[2]] = p}
WritersOf(p) == {w \in Writers : writers[w].packet = p}
ResendersOf(p) == {r \in Resenders : resenders[r].packet = p}
Refs(p) ==
    Cardinality(SlotsOf(p)) + Cardinality(WritersOf(p)) + Cardinality(ResendersOf(p))

IdleWriter == [pc |-> "idle", stream |-> NoStream, packet |-> NoPacket]

IdleResender == [pc |-> "idle", stream |-> NoStream, todo |-> {},
                 packet |-> NoPacket, seq |-> 0]

FreePacket == [seq |-> 0, stream |-> NoStream, count |-> 0]
-----------------------------------------------------------------------------
Init ==
    /\ heap = [p \in Packets |-> FreePacket]
    /\ buffers = [s \in Streams |-> NewRTPBuffer]
    /\ streams = NoStream
    /\ created = 0
    /\ writers = [w \in Writers |-> IdleWriter]
    /\ resenders = [r \in Resenders |-> IdleResender]

BindLocalStream ==
    /\ streams = NoStream
    /\ created + 1 \in Streams
    /\ created' = created + 1
    /\ streams' = created + 1
    /\ UNCHANGED <<heap, buffers, writers, resenders>>

UnbindLocalStream ==
    /\ streams # NoStream
    /\ streams' = NoStream
    /\ UNCHANGED <<heap, buffers, created, writers, resenders>>
-----------------------------------------------------------------------------
\* What an application writes: numbers ahead, or behind by at most MaxLate,
\* also with respect to the writes in progress on the same stream.
CanWrite(s, seq) ==
    LET highest == buffers[s].highestAdded
        pending == {heap[writers[w].packet].seq :
                        w \in {v \in Writers : writers[v].stream = s}}
    IN  /\ buffers[s].started =>
              IsAhead(seq, highest) \/ Minus(highest, seq) <= MaxLate
        /\ \A q \in pending : Minus(seq, q) <= MaxLate \/ Minus(q, seq) <= MaxLate

\* A header and a buffer from the pools, or new ones, and a count of one.
NewPacket(w, s, seq) ==
    /\ writers[w].pc = "idle"
    /\ s <= created
    /\ CanWrite(s, seq)
    /\ \E p \in Packets :
          /\ heap[p].count = 0
          /\ heap' = [heap EXCEPT ![p] = [seq |-> seq, stream |-> s, count |-> 1]]
          /\ writers' = [writers EXCEPT ![w] =
                            [pc |-> "add", stream |-> s, packet |-> p]]
    /\ UNCHANGED <<buffers, streams, created, resenders>>

\* Release of every packet of S; the last release drops its contents.
Release(S) ==
    [p \in Packets |->
        IF p \notin S THEN heap[p]
        ELSE IF heap[p].count = 1 THEN FreePacket
        ELSE [heap[p] EXCEPT !.count = @ - 1]]

\* rtpBuffer.Add under the lock; the write of the caller's own packet that
\* follows touches no state of the responder.  A packet Add ignores is not
\* released: it is left to the garbage collector.
AddPacket(w) ==
    /\ writers[w].pc = "add"
    /\ LET s   == writers[w].stream
           p   == writers[w].packet
           seq == heap[p].seq
       IN  /\ heap' = IF Ignored(buffers[s], seq)
                        THEN [heap EXCEPT ![p] = FreePacket]
                        ELSE Release(Evicted(buffers[s], seq))
           /\ buffers' = [buffers EXCEPT ![s] = Add(@, p, seq)]
    /\ writers' = [writers EXCEPT ![w] = IdleWriter]
    /\ UNCHANGED <<streams, created, resenders>>
-----------------------------------------------------------------------------
\* The RTCP reader meets a NACK and starts a goroutine for it.
ReadNack(r, seqs) ==
    /\ resenders[r].pc = "idle"
    /\ resenders' = [resenders EXCEPT ![r] =
                        [IdleResender EXCEPT !.pc = "lookup", !.todo = seqs]]
    /\ UNCHANGED <<heap, buffers, streams, created, writers>>

Lookup(r) ==
    /\ resenders[r].pc = "lookup"
    /\ resenders' = [resenders EXCEPT ![r] =
                        IF streams = NoStream
                          THEN IdleResender
                          ELSE [@ EXCEPT !.pc = "get", !.stream = streams]]
    /\ UNCHANGED <<heap, buffers, streams, created, writers>>

\* The resend goes on with its next number, or ends after the last.
Continue(resend, seqs) ==
    IF seqs = {} THEN IdleResender
    ELSE [resend EXCEPT !.pc = "get", !.todo = seqs, !.packet = NoPacket, !.seq = 0]

\* Fault: the packet is used without being retained.
GetPacketUnretained(r) ==
    /\ resenders[r].pc = "get"
    /\ \E seq \in resenders[r].todo :
          LET p    == Get(buffers[resenders[r].stream], seq, Number)
              rest == resenders[r].todo \ {seq}
          IN  resenders' = [resenders EXCEPT ![r] =
                  IF p = NoPacket
                    THEN Continue(@, rest)
                    ELSE [@ EXCEPT !.pc = "write", !.todo = rest,
                                   !.packet = p, !.seq = seq]]
    /\ UNCHANGED <<heap, buffers, streams, created, writers>>

\* Get under the lock.  The order of the numbers in a NACK is left open.
GetPacket(r) ==
    /\ resenders[r].pc = "get"
    /\ \E seq \in resenders[r].todo :
          LET p    == Get(buffers[resenders[r].stream], seq, Number)
              rest == resenders[r].todo \ {seq}
          IN  IF p = NoPacket \/ heap[p].count = 0
                THEN /\ resenders' = [resenders EXCEPT ![r] = Continue(@, rest)]
                     /\ UNCHANGED heap
                ELSE /\ resenders' = [resenders EXCEPT ![r] =
                            [@ EXCEPT !.pc = "write", !.todo = rest,
                                      !.packet = p, !.seq = seq]]
                     /\ heap' = [heap EXCEPT ![p].count = @ + 1]
    /\ UNCHANGED <<buffers, streams, created, writers>>

\* The write, which reads the packet without a lock, is over: Release.
Resent(r) ==
    /\ resenders[r].pc = "write"
    /\ heap' = Release({resenders[r].packet})
    /\ resenders' = [resenders EXCEPT ![r] = Continue(@, @.todo)]
    /\ UNCHANGED <<buffers, streams, created, writers>>
-----------------------------------------------------------------------------
Nacks == {seqs \in SUBSET SeqNums : Cardinality(seqs) \in 1 .. MaxNacked}

Next ==
    \/ BindLocalStream \/ UnbindLocalStream
    \/ \E w \in Writers, s \in Streams, seq \in SeqNums : NewPacket(w, s, seq)
    \/ \E w \in Writers : AddPacket(w)
    \/ \E r \in Resenders, seqs \in Nacks : ReadNack(r, seqs)
    \/ \E r \in Resenders : Lookup(r) \/ GetPacket(r) \/ Resent(r)

Spec == Init /\ [][Next]_vars
-----------------------------------------------------------------------------
TypeOK ==
    /\ heap \in [Packets -> [seq    : SeqNums,
                             stream : Streams \cup {NoStream},
                             count  : 0 .. 1 + Cardinality(Resenders)]]
    /\ buffers \in [Streams -> [packets      : [Indexes -> Packets \cup {NoPacket}],
                                highestAdded : SeqNums,
                                started      : BOOLEAN]]
    /\ streams \in Streams \cup {NoStream}
    /\ created \in {NoStream} \cup Streams
    /\ writers \in [Writers -> [pc     : {"idle", "add"},
                                stream : Streams \cup {NoStream},
                                packet : Packets \cup {NoPacket}]]
    /\ resenders \in [Resenders -> [pc     : {"idle", "lookup", "get", "write"},
                                    stream : Streams \cup {NoStream},
                                    todo   : SUBSET SeqNums,
                                    packet : Packets \cup {NoPacket},
                                    seq    : SeqNums]]

(***************************************************************************)
(* A packet's count is the number of places that can still reach it: ring  *)
(* slots, a write that has not stored it yet, and resends.  So eviction by *)
(* a writer and release by a resend can come in any order and the header   *)
(* and buffer go back to their pools exactly once, after the last use      *)
(* (retainable_packet.go, Retain and Release; rtpbuffer.go, Add and Get).  *)
(***************************************************************************)
RefCountExact ==
    \A p \in Packets : heap[p].count = Refs(p)

(***************************************************************************)
(* While a resend writes, the packet it reads is live and still carries    *)
(* the number the NACK asked for, of the stream it asked about: neither    *)
(* eviction nor a new packet of any stream recycles it under the write     *)
(* (responder_interceptor.go, resendPackets: "send without holding         *)
(* rtpBufferMutex").                                                       *)
(***************************************************************************)
ResendIntact ==
    \A r \in Resenders : resenders[r].pc = "write" =>
        LET held == heap[resenders[r].packet]
        IN  /\ held.count > 0
            /\ held.seq = resenders[r].seq
            /\ held.stream = resenders[r].stream

(***************************************************************************)
(* The refinement mapping: what Get can answer with is the window of the   *)
(* newest packets written to the stream, across wrap-around, jumps that    *)
(* clear slots, duplicates, late writes and the recycling of packets by    *)
(* other streams (rtpbuffer.go, Add and Get).                              *)
(***************************************************************************)
Held(s) == {seq \in SeqNums : Get(buffers[s], seq, Number) # NoPacket}

Window(s) == INSTANCE PacketWindow WITH
                 started <- buffers[s].started,
                 newest  <- buffers[s].highestAdded,
                 held    <- Held(s)

\* Every stream object implements the window of the newest packets: this is
\* Window(s)!Spec for every s, in the form that TLC can check.
ImplementsWindow ==
    /\ \A s \in Streams : Window(s)!Init
    /\ [][\A s \in Streams : Window(s)!Next \/ UNCHANGED Window(s)!vars]_vars
=============================================================================
