--------------------------- MODULE VideoReceiver ---------------------------
(***************************************************************************)
(* The video frame receiver of pkg/videoframe (receiver_interceptor.go)    *)
(* reading one VP8 stream from a network that loses, repeats and reorders  *)
(* packets.  Every packet read is parsed, its number unwrapped, and put in *)
(* the packet buffer; the frames it completes go through the reference     *)
(* finder their header selects, and the frames that finder hands out are   *)
(* the ones the application finds in the attributes of that packet.        *)
(*                                                                         *)
(* The sender is external: a script is the sequence of frames it sends,    *)
(*   [n |-> packets, key |-> BOOLEAN, tid |-> temporal layer]              *)
(* and kind says what its payload descriptors carry: "seq" nothing, "pid"  *)
(* the picture ID, "vp8" picture ID, temporal layer and TL0PICIDX.         *)
(***************************************************************************)
EXTENDS VideoPacketBuffer, FiniteSets

CONSTANTS
    PicModulus, TL0Modulus, Layers, MaxTL0History, MaxPictureAge,
    MaxStashedFrames,
    Absent,         \* NoPictureID, NoTemporalIdx, NoTL0PicIdx
    Scripts,        \* the frame sequences the sender may send
    Kinds,          \* the descriptors it may use
    FirstSeq,       \* RTP number of the first packet
    FirstPic,       \* picture ID of the first frame, for each kind
    FirstTL0,       \* TL0PICIDX of the first frame
    MaxReorder,     \* bound: a packet overtakes fewer than this many packets
    MaxRepeats,     \* bound: packets the network repeats
    MaxBinds        \* bound: times the stream is bound

SF == INSTANCE SeqNumOnlyRefFinder
VF == INSTANCE VP8RefFinder

VARIABLES
    script, kind,   \* what the sender sends
    streams,        \* is the stream's state in the map of the interceptor?
    state,          \* the streamState the bound reader holds, or Absent
    binds,          \* times the stream was bound
    pending,        \* packets the network has yet to deliver, by index
    repeats,        \* packets repeated so far
    disturbed,      \* has a packet been lost or repeated, or the state dropped?
    began,          \* history: the first frame this state completed, or Absent
    out             \* every frame handed out by this state, in order

vars == <<script, kind, streams, state, binds, pending, repeats, disturbed, began, out>>
-----------------------------------------------------------------------------
\* The sender (external).  Packet k of the script is on the wire as a record
\* of the RTP header fields and the fields of the VP8 descriptor; payload is
\* the byte with the P bit of the frame, then the packet's identity.

PacketsBefore(j) == SumFunctionOnSet([i \in DOMAIN script |-> script[i].n], 1..j - 1)

PacketsOf(j) == PacketsBefore(j) + 1 .. PacketsBefore(j) + script[j].n

FrameOf(k) == CHOOSE j \in DOMAIN script : k \in PacketsOf(j)

NumPackets == PacketsBefore(Len(script) + 1)

\* Base layer frames up to frame j: the sender's TL0PICIDX.
BaseIndex(j) == Cardinality({i \in 1..j : script[i].tid = 0})

Payload(k) == <<IF script[FrameOf(k)].key THEN 0 ELSE 1, k>>

OnWire(k) ==
    LET j    == FrameOf(k)
        head == k - 1 \notin PacketsOf(j)
    IN  [seq |-> (FirstSeq + k - 1) % SeqModulus, ts |-> j,
         marker |-> k + 1 \notin PacketsOf(j),
         s |-> 1, partition |-> IF head THEN 0 ELSE 1,
         payload |-> Payload(k),
         pictureID |-> IF kind = "seq" THEN Absent ELSE (FirstPic[kind] + j - 1) % PicModulus,
         tid |-> IF kind = "vp8" THEN script[j].tid ELSE Absent,
         tl0 |-> IF kind = "vp8" THEN (FirstTL0 + BaseIndex(j) - 1) % TL0Modulus
                 ELSE Absent]
-----------------------------------------------------------------------------
\* video_header.go

\* P is bit 0 of the first byte; an empty payload is a delta frame.
DetectVP8FrameType(payload) == payload # <<>> /\ payload[1] = 0

\* Fault: every start of a partition is taken for the start of a frame.
HeaderOfAnyPartition(pkt) ==
    [first |-> pkt.s = 1, last |-> pkt.marker,
     key |-> DetectVP8FrameType(pkt.payload),
     pictureID |-> pkt.pictureID, tid |-> pkt.tid, tl0 |-> pkt.tl0]

\* Only the first packet of a frame says whether it is a key frame; the field
\* keeps its zero value, key frame, in the others.
NewRTPVideoHeaderFromVP8(pkt) ==
    LET first == pkt.s = 1 /\ pkt.partition = 0
    IN  [first |-> first, last |-> pkt.marker,
         key |-> first => DetectVP8FrameType(pkt.payload),
         pictureID |-> pkt.pictureID, tid |-> pkt.tid, tl0 |-> pkt.tl0]

\* ref_finder.go
SelectRefFinderType(header) ==
    IF Absent \notin {header.tid, header.tl0, header.pictureID} THEN "vp8"
    ELSE IF header.pictureID # Absent THEN "pid"
    ELSE "seq"
-----------------------------------------------------------------------------
\* The state of a stream.  The finders are made when first selected; a finder
\* that was not selected yet is a new one.
NewStreamState ==
    [buffer |-> EmptyBuffer, unwrapper |-> VF!NewUnwrapper, nextFrameID |-> 0,
     seqNumOnly |-> SF!NewSeqNumOnlyRefFinder,
     frameIdOnly |-> VF!NewUnwrapper, vp8 |-> VF!NewVP8RefFinder]

unwrap(u, seq) == VF!Unwrap(u, seq, SeqModulus)

Init ==
    /\ script \in Scripts
    /\ kind \in Kinds
    /\ streams = FALSE
    /\ state = Absent
    /\ binds = 0
    /\ pending = 1..NumPackets
    /\ repeats = 0
    /\ disturbed = FALSE
    /\ began = Absent
    /\ out = <<>>

\* getOrCreateStreamState: a reader bound again shares the state in the map.
BindRemoteStream ==
    /\ binds < MaxBinds
    /\ binds' = binds + 1
    /\ streams' = TRUE
    /\ IF streams
       THEN UNCHANGED <<state, began, out, disturbed>>
       ELSE /\ state' = NewStreamState
            /\ began' = Absent
            /\ out' = <<>>
            /\ disturbed' = (disturbed \/ state # Absent)
    /\ UNCHANGED <<script, kind, pending, repeats>>

\* Unbinding, like closing, takes the state out of the map and leaves it to
\* the reader that holds it.
UnbindRemoteStream ==
    /\ streams
    /\ streams' = FALSE
    /\ UNCHANGED <<script, kind, state, binds, pending, repeats, disturbed, began, out>>

Close ==
    /\ streams' = FALSE
    /\ UNCHANGED <<script, kind, state, binds, pending, repeats, disturbed, began, out>>

\* The set of outcomes of one completed frame: assembled, then given to the
\* finder its first packet selects.
Manage(st, packets) ==
    LET frame  == AssembleFrame(packets, st.nextFrameID)
        header == Head(packets).header
        next   == [st EXCEPT !.nextFrameID = @ + 1]
        type   == SelectRefFinderType(header)
    IN  IF type = "vp8"
        THEN {[st |-> [next EXCEPT !.vp8 = r.finder], out |-> r.out] :
                  r \in VF!ManageVP8Frame(st.vp8, frame, header)}
        ELSE IF type = "pid"
        THEN LET r == VF!ManageFrameIdOnly(st.frameIdOnly, frame, header)
             IN  {[st |-> [next EXCEPT !.frameIdOnly = r.finder], out |-> r.out]}
        ELSE LET r == SF!ManageFrame(st.seqNumOnly, frame)
             IN  {[st |-> [next EXCEPT !.seqNumOnly = r.finder], out |-> r.out]}

\* The reader's handler of packet k.
ReadPacket(k) ==
    LET buffered(wire, seq) ==
            [seq |-> seq, ts |-> wire.ts, payload |-> wire.payload,
             header |-> NewRTPVideoHeaderFromVP8(wire), continuous |-> FALSE]
        manage(R, packets) ==
            UNION {{[m EXCEPT !.out = r.out \o @] : m \in Manage(r.st, packets)} : r \in R}
    IN  \E wire \in {OnWire(k)} : \E u \in {unwrap(state.unwrapper, wire.seq)} :
        \E ins \in {InsertPacket(state.buffer, buffered(wire, u.last))} :
        \E r \in FoldOnce(manage,
                    {[st |-> [state EXCEPT !.unwrapper = u, !.buffer = ins.buffer],
                      out |-> <<>>]},
                    ins.frames) :
            /\ state' = r.st
            /\ began' = IF began = Absent /\ ins.frames # <<>>
                        THEN Head(Head(ins.frames)).ts ELSE began
            /\ out' = out \o r.out

\* The network delivers packet k next only while it overtakes few packets.
InReach(k) == \A i \in pending : i > k - MaxReorder

Read(k) ==
    /\ k \in pending
    /\ InReach(k)
    /\ state # Absent
    /\ ReadPacket(k)
    /\ pending' = pending \ {k}
    /\ UNCHANGED <<script, kind, streams, binds, repeats, disturbed>>

ReadAgain(k) ==
    /\ k \in 1..NumPackets \ pending
    /\ \A i \in 1..NumPackets \ pending : i < k + MaxReorder
    /\ state # Absent
    /\ repeats < MaxRepeats
    /\ ReadPacket(k)
    /\ repeats' = repeats + 1
    /\ disturbed' = TRUE
    /\ UNCHANGED <<script, kind, streams, binds, pending>>

\* A packet lost, arriving before the stream is bound, or not parsed.
Lose(k) ==
    /\ k \in pending
    /\ InReach(k)
    /\ pending' = pending \ {k}
    /\ disturbed' = TRUE
    /\ UNCHANGED <<script, kind, streams, state, binds, repeats, began, out>>

Next ==
    \/ BindRemoteStream
    \/ UnbindRemoteStream
    \/ Close
    \/ \E k \in 1..NumPackets : Read(k) \/ ReadAgain(k) \/ Lose(k)

Spec == Init /\ [][Next]_vars
-----------------------------------------------------------------------------
\* Frames are whole: a frame handed out consists of all packets of one frame of
\* the sender, in order, with that frame's type and first and last number,
\* whatever the network lost, repeated or reordered and however often slots of
\* the packet buffer were reused (findFrames, extractFrame, AssembleFrame).
FramesAreWhole ==
    \A i \in DOMAIN out :
        LET j == out[i].ts IN
        /\ out[i].data = FlattenSeq([m \in 1..script[j].n |->
                                        Payload(Min(PacketsOf(j)) + m - 1)])
        /\ out[i].key = script[j].key
        /\ out[i].firstSeqNum = OnWire(Min(PacketsOf(j))).seq
        /\ out[i].lastSeqNum = OnWire(Max(PacketsOf(j))).seq

\* The number the sender gave the frame, in the space its finder uses.
TrueId(f) == IF kind = "seq" THEN Min(PacketsOf(f.ts)) ELSE f.ts

\* Identities agree: the ids of two frames handed out differ by as much as the
\* numbers the sender gave them before those were cut to their width, so frames
\* and references keep the sender's order across a wrap of the RTP number, the
\* picture ID and TL0PICIDX (unwrap, pictureIDUnwrapper, tl0PicIdxUnwrapper).
IdsAgree ==
    \A i, j \in DOMAIN out :
        out[i].id - out[j].id = TrueId(out[i]) - TrueId(out[j])

\* References are resolved: a delta frame that a stashing finder hands out refers
\* to a frame handed out before it.  Without temporal layers that is the frame
\* the sender sent just before; in the base layer it is the previous base layer
\* frame (ManageFrame: "frames that are ready for decoding").
ReferencesResolved ==
    kind # "pid" =>
        \A i \in DOMAIN out :
            LET f == out[i] IN
            /\ f.key <=> f.refs = <<>>
            /\ \A r \in ToSet(f.refs) : \E j \in 1..i - 1 :
                  /\ out[j].id = r
                  /\ kind = "seq" => out[j].ts = f.ts - 1
                  /\ kind = "vp8" /\ script[f.ts].tid = 0 =>
                        /\ script[out[j].ts].tid = 0
                        /\ BaseIndex(out[j].ts) = BaseIndex(f.ts) - 1

\* Frame j goes before the first frame this state completed, and before the number
\* zero of its picture ID or its TL0PICIDX: both finders that use them drop it.
BelowZero(j) ==
    /\ began # Absent
    /\ \/ kind # "seq" /\ OnWire(Min(PacketsOf(began))).pictureID + j - began < 0
       \/ /\ kind = "vp8"
          /\ OnWire(Min(PacketsOf(began))).tl0 + BaseIndex(j) - BaseIndex(began) < 0

\* The key frames up to frame j.
KeysUpTo(j) == {i \in 1..j : script[i].key}

\* The stream plays on: while the network loses and repeats nothing and the state
\* is not dropped, a frame is handed out as soon as all packets from its key frame
\* up to it have been read, in whatever order they came (stash,
\* tryResolveStashedFrames).  Two kinds of frames do not come out: one overtaken by
\* a later key frame (handleKeyframe of both finders that stash), and one that
\* depends on a frame whose number unwraps below zero, which is dropped although
\* nothing was lost (ManageFrame of the finders for the picture ID and for VP8).
StreamPlays ==
    disturbed \/
        \A j \in DOMAIN script : KeysUpTo(j) # {} =>
            LET group == Max(KeysUpTo(j))..j IN
            pending \cap UNION {PacketsOf(i) : i \in group} = {} =>
                \/ \E i \in DOMAIN out : out[i].ts = j
                \/ kind # "pid" /\ \E i \in DOMAIN out : out[i].key /\ out[i].ts > j
                \/ \E i \in group : BelowZero(i)
=============================================================================
