------------------------ MODULE NackResponderProofs -------------------------
(***************************************************************************)
(* Proofs about NackResponder for any number of streams, packets, writers  *)
(* and resends, every width of the sequence numbers and every size of the  *)
(* ring: the reference counts are exact, and a resend reads an intact      *)
(* packet.                                                                 *)
(***************************************************************************)
EXTENDS NackResponder, SeqNumProofs, FiniteSetTheorems, TLAPS

\* The types of the state, with counts that are not bounded yet.
Packet == [seq : SeqNums, stream : Streams \cup {NoStream}, count : Nat]
Buffer == [packets      : [Indexes -> Packets \cup {NoPacket}],
           highestAdded : SeqNums,
           started      : BOOLEAN]
Writer == [pc     : {"idle", "add"},
           stream : Streams \cup {NoStream},
           packet : Packets \cup {NoPacket}]
Resender == [pc     : {"idle", "lookup", "get", "write"},
             stream : Streams \cup {NoStream},
             todo   : SUBSET SeqNums,
             packet : Packets \cup {NoPacket},
             seq    : SeqNums]

StateType ==
    /\ heap \in [Packets -> Packet]
    /\ buffers \in [Streams -> Buffer]
    /\ streams \in Streams \cup {NoStream}
    /\ created \in {NoStream} \cup Streams
    /\ writers \in [Writers -> Writer]
    /\ resenders \in [Resenders -> Resender]

\* What a goroutine holds where it is.
WritersRight ==
    \A w \in Writers :
        /\ writers[w].pc = "idle" => writers[w].packet = NoPacket /\ writers[w].stream = NoStream
        /\ writers[w].pc = "add" => /\ writers[w].packet \in Packets
                                    /\ writers[w].stream \in Streams
                                    /\ heap[writers[w].packet].stream = writers[w].stream
ResendersRight ==
    \A r \in Resenders :
        /\ resenders[r].pc # "write" => resenders[r].packet = NoPacket
        /\ resenders[r].pc = "write" => resenders[r].packet \in Packets
        /\ resenders[r].pc \in {"get", "write"} => resenders[r].stream \in Streams

\* A packet has one owner at most, a slot of a ring or a writer that has not stored
\* it yet; no resend has a packet that is not stored yet.
SlotsUnique ==
    \A s \in Streams, t \in Streams, i \in Indexes, j \in Indexes :
        buffers[s].packets[i] = buffers[t].packets[j] =>
            buffers[s].packets[i] = NoPacket \/ (s = t /\ i = j)
WritersUnique ==
    \A v \in Writers, w \in Writers :
        writers[v].packet = writers[w].packet => writers[v].packet = NoPacket \/ v = w
WritersApart ==
    \A w \in Writers : writers[w].packet # NoPacket =>
        /\ \A s \in Streams, i \in Indexes : buffers[s].packets[i] # writers[w].packet
        /\ \A r \in Resenders : resenders[r].packet # writers[w].packet

\* A packet is in the slot of its number, in the ring of its stream.
SlotsRight ==
    \A s \in Streams, i \in Indexes :
        LET p == buffers[s].packets[i]
        IN  p # NoPacket => heap[p].stream = s /\ Index(heap[p].seq) = i

InSlot(p) == \E s \in Streams, i \in Indexes : buffers[s].packets[i] = p
InWriter(p) == \E w \in Writers : writers[w].packet = p
Owned(p) == InSlot(p) \/ InWriter(p)

\* A count is one for the owner and one for each resend.
CountsRight ==
    \A p \in Packets :
        heap[p].count = (IF Owned(p) THEN 1 ELSE 0) + Cardinality(ResendersOf(p))

\* What a resend writes is what was asked for.
ResendsRight ==
    \A r \in Resenders : resenders[r].pc = "write" =>
        /\ heap[resenders[r].packet].seq = resenders[r].seq
        /\ heap[resenders[r].packet].stream = resenders[r].stream

RefInv ==
    /\ StateType
    /\ WritersRight /\ ResendersRight
    /\ SlotsUnique /\ WritersUnique /\ WritersApart
    /\ SlotsRight
    /\ CountsRight
    /\ ResendsRight

-----------------------------------------------------------------------------
\* Streams are numbers and NoStream is none of them.
LEMMA StreamNumbers ==
    /\ NoStream \notin Streams
    /\ Streams \subseteq Nat
BY StreamsAssumption, FS_CardinalityType DEF NoStream

\* Every number has its slot.
LEMMA IndexType ==
    ASSUME NEW seq \in SeqNums
    PROVE  Index(seq) \in Indexes
BY BufferSizeAssumption, HalfAssumption DEF Index, Indexes, SeqNums, Modulus

\* The resends that hold a packet are finitely many.
LEMMA ResendersFinite ==
    ASSUME NEW p
    PROVE  /\ IsFiniteSet(ResendersOf(p))
           /\ Cardinality(ResendersOf(p)) \in Nat
           /\ Cardinality(ResendersOf(p)) <= Cardinality(Resenders)
           /\ Cardinality(ResendersOf(p)) = 0 <=> ResendersOf(p) = {}
<1>1. ResendersOf(p) \in SUBSET Resenders
  BY DEF ResendersOf
<1>2. IsFiniteSet(ResendersOf(p)) /\ Cardinality(ResendersOf(p)) <= Cardinality(Resenders)
  BY <1>1, ActorsAssumption, FS_Subset
<1>. QED
  BY <1>2, FS_CardinalityType, FS_EmptySet

\* Nothing holds a packet whose count is zero.
LEMMA FreeIsUnused ==
    ASSUME CountsRight, NEW p \in Packets, heap[p].count = 0
    PROVE  ~Owned(p) /\ ResendersOf(p) = {}
<1>1. Cardinality(ResendersOf(p)) \in Nat
  BY ResendersFinite
<1>2. ~Owned(p) /\ Cardinality(ResendersOf(p)) = 0
  BY <1>1 DEF CountsRight
<1>. QED
  BY <1>2, ResendersFinite

\* What Release leaves of a packet.
LEMMA ReleaseIs ==
    ASSUME StateType, NEW S, \A q \in Packets \cap S : heap[q].count > 0
    PROVE  /\ Release(S) \in [Packets -> Packet]
           /\ \A p \in Packets \ S : Release(S)[p] = heap[p]
           /\ \A p \in Packets \cap S :
                 /\ Release(S)[p].count = heap[p].count - 1
                 /\ heap[p].count # 1 => /\ Release(S)[p].seq = heap[p].seq
                                         /\ Release(S)[p].stream = heap[p].stream
<1>1. FreePacket \in Packet /\ FreePacket.count = 0
  BY HalfAssumption DEF FreePacket, Packet, SeqNums, Modulus
<1>2. ASSUME NEW p \in Packets
      PROVE  Release(S)[p] = IF p \notin S THEN heap[p]
                             ELSE IF heap[p].count = 1 THEN FreePacket
                             ELSE [heap[p] EXCEPT !.count = @ - 1]
  BY DEF Release
<1>3. ASSUME NEW p \in Packets
      PROVE  heap[p] \in Packet
  BY DEF StateType
<1>4. ASSUME NEW p \in Packets \cap S
      PROVE  /\ Release(S)[p] \in Packet
             /\ Release(S)[p].count = heap[p].count - 1
             /\ heap[p].count # 1 => /\ Release(S)[p].seq = heap[p].seq
                                     /\ Release(S)[p].stream = heap[p].stream
  <2>1. heap[p].count \in Nat \ {0} /\ heap[p] \in Packet
    BY <1>3 DEF Packet
  <2>2. CASE heap[p].count = 1
    <3>1. Release(S)[p] = FreePacket
      BY <2>2, <1>2, Zenon
    <3>. QED
      BY <2>2, <3>1, <1>1
  <2>3. CASE heap[p].count # 1
    <3>1. Release(S)[p] = [heap[p] EXCEPT !.count = @ - 1]
      BY <2>3, <1>2
    <3>. QED
      BY <2>1, <2>3, <3>1 DEF Packet
  <2>. QED
    BY <2>2, <2>3
<1>5. \A p \in Packets : Release(S)[p] \in Packet
  BY <1>2, <1>3, <1>4, Zenon
<1>6. Release(S) \in [Packets -> Packet]
  BY <1>5 DEF Release
<1>. QED
  BY <1>2, <1>4, <1>6
\* The states that goroutines, packets and buffers begin with.
LEMMA IdleTypes ==
    /\ FreePacket \in Packet /\ NewRTPBuffer \in Buffer
    /\ IdleWriter \in Writer /\ IdleResender \in Resender
<1>1. 0 \in SeqNums /\ 0 \in Nat
  BY HalfAssumption DEF SeqNums, Modulus
<1>2. FreePacket \in Packet
  BY <1>1 DEF FreePacket, Packet
<1>3. NewRTPBuffer \in Buffer
  BY <1>1 DEF NewRTPBuffer, Buffer
<1>4. IdleWriter \in Writer
  BY DEF IdleWriter, Writer
<1>5. IdleResender \in Resender
  BY <1>1 DEF IdleResender, Resender
<1>. QED
  BY <1>2, <1>3, <1>4, <1>5

-----------------------------------------------------------------------------
\* Nothing is held at first.
LEMMA RefInit == Init => RefInv
<1> SUFFICES ASSUME Init PROVE RefInv
  OBVIOUS
<1>2. StateType
  <2>1. heap \in [Packets -> Packet] /\ buffers \in [Streams -> Buffer]
    BY IdleTypes DEF Init
  <2>2. writers \in [Writers -> Writer] /\ resenders \in [Resenders -> Resender]
    BY IdleTypes DEF Init
  <2>3. streams = NoStream /\ created = NoStream
    BY DEF Init, NoStream
  <2>. QED
    BY <2>1, <2>2, <2>3 DEF StateType
<1>3. /\ \A s \in Streams, i \in Indexes : buffers[s].packets[i] = NoPacket
      /\ \A w \in Writers : writers[w] = IdleWriter
      /\ \A r \in Resenders : resenders[r] = IdleResender
      /\ \A p \in Packets : heap[p].count = 0
  BY DEF Init, NewRTPBuffer, FreePacket
<1>4. WritersRight /\ ResendersRight /\ WritersUnique /\ WritersApart /\ ResendsRight
  BY <1>3 DEF WritersRight, ResendersRight, WritersUnique, WritersApart, ResendsRight,
     IdleWriter, IdleResender
<1>5. SlotsUnique /\ SlotsRight
  BY <1>3 DEF SlotsUnique, SlotsRight
<1>6. CountsRight
  <2> SUFFICES ASSUME NEW p \in Packets
               PROVE  heap[p].count = (IF Owned(p) THEN 1 ELSE 0) + Cardinality(ResendersOf(p))
    BY DEF CountsRight
  <2>1. ~Owned(p)
    BY <1>3, ActorsAssumption DEF Owned, InSlot, InWriter, IdleWriter
  <2>2. ResendersOf(p) = {}
    BY <1>3, ActorsAssumption DEF ResendersOf, IdleResender
  <2>. QED
    BY <1>3, <2>1, <2>2, FS_EmptySet
<1>. QED
  BY <1>2, <1>4, <1>5, <1>6 DEF RefInv

\* A step that leaves the packets, their owners and the packets of the resends alone
\* keeps the invariant.
LEMMA NoPacketMoves ==
    ASSUME RefInv, StateType', UNCHANGED <<heap, buffers, writers>>,
           \A r \in Resenders :
               /\ resenders'[r].packet = resenders[r].packet
               /\ resenders'[r].pc = "write" <=> resenders[r].pc = "write"
               /\ resenders'[r].pc = "write" => resenders'[r] = resenders[r]
               /\ resenders'[r].pc = "get" => resenders'[r].stream \in Streams
    PROVE  RefInv'
<1>1. WritersRight' /\ SlotsUnique' /\ WritersUnique' /\ SlotsRight'
  BY DEF RefInv, WritersRight, SlotsUnique, WritersUnique, SlotsRight
<1>2. WritersApart'
  BY DEF RefInv, WritersApart
<1>3. ResendersRight' /\ ResendsRight'
  BY DEF RefInv, ResendersRight, ResendsRight
<1>4. ASSUME NEW p \in Packets
      PROVE  Owned(p)' = Owned(p) /\ ResendersOf(p)' = ResendersOf(p)
  BY DEF Owned, InSlot, InWriter, ResendersOf
<1>5. CountsRight'
  BY <1>4 DEF RefInv, CountsRight
<1>. QED
  BY <1>1, <1>2, <1>3, <1>5 DEF RefInv

\* Binding and unbinding.
LEMMA BindKeeps ==
    ASSUME RefInv, BindLocalStream \/ UnbindLocalStream
    PROVE  RefInv'
<1>1. StateType'
  BY DEF RefInv, StateType, BindLocalStream, UnbindLocalStream
<1>2. UNCHANGED <<heap, buffers, writers, resenders>>
  BY DEF BindLocalStream, UnbindLocalStream
<1>. QED
  BY <1>1, <1>2, NoPacketMoves DEF RefInv, ResendersRight

\* A NACK is read, and its stream looked up.
LEMMA ReadNackKeeps ==
    ASSUME RefInv, NEW r \in Resenders, NEW seqs \in Nacks, ReadNack(r, seqs)
    PROVE  RefInv'
<1> DEFINE new == [IdleResender EXCEPT !.pc = "lookup", !.todo = seqs]
<1>1. /\ new \in Resender /\ new.pc = "lookup" /\ new.packet = NoPacket
  <2>1. seqs \in SUBSET SeqNums
    BY DEF Nacks
  <2>2. IdleResender \in Resender /\ IdleResender.packet = NoPacket
    BY IdleTypes DEF IdleResender
  <2>. QED
    BY <2>1, <2>2, Zenon DEF Resender
<1>2. resenders' = [resenders EXCEPT ![r] = new] /\ resenders[r].pc = "idle"
  BY DEF ReadNack
<1>3. UNCHANGED <<heap, buffers, streams, created, writers>>
  BY DEF ReadNack
<1> HIDE DEF new
<1>4. resenders \in [Resenders -> Resender]
  BY DEF RefInv, StateType
<1>5. StateType'
  BY <1>1, <1>2, <1>3, <1>4 DEF RefInv, StateType
<1>6. resenders[r].packet = NoPacket
  BY <1>2 DEF RefInv, ResendersRight
<1>. QED
  BY <1>1, <1>2, <1>3, <1>4, <1>5, <1>6, NoPacketMoves DEF RefInv, ResendersRight

\* The lookup of the stream touches no packet, and the resend holds none.
LEMMA LookupKeeps ==
    ASSUME RefInv, NEW r \in Resenders, Lookup(r)
    PROVE  RefInv'
<1> DEFINE old == resenders[r]
           new == IF streams = NoStream THEN IdleResender
                  ELSE [old EXCEPT !.pc = "get", !.stream = streams]
<1>0. old \in Resender /\ streams \in Streams \cup {NoStream}
  BY DEF RefInv, StateType
<1>1. /\ new \in Resender /\ new.pc \in {"idle", "get"} /\ new.packet \in {NoPacket, old.packet}
      /\ new.pc = "get" => new.stream \in Streams
  <2>1. IdleResender \in Resender /\ IdleResender.packet = NoPacket /\ IdleResender.pc = "idle"
    BY IdleTypes DEF IdleResender
  <2>2. CASE streams = NoStream
    BY <2>1, <2>2
  <2>3. CASE streams # NoStream
    <3>1. new = [old EXCEPT !.pc = "get", !.stream = streams] /\ streams \in Streams
      BY <2>3, <1>0
    <3> HIDE DEF new, old
    <3>. QED
      BY <1>0, <3>1, Zenon DEF Resender
  <2>. QED
    BY <2>2, <2>3
<1>2. resenders' = [resenders EXCEPT ![r] = new] /\ old.pc = "lookup"
  BY DEF Lookup
<1>3. UNCHANGED <<heap, buffers, streams, created, writers>>
  BY DEF Lookup
<1>4. resenders \in [Resenders -> Resender]
  BY DEF RefInv, StateType
<1>6. old.packet = NoPacket
  BY <1>2 DEF RefInv, ResendersRight
<1> HIDE DEF new
<1>5. StateType'
  BY <1>1, <1>2, <1>3, <1>4 DEF RefInv, StateType
<1>. QED
  BY <1>1, <1>2, <1>3, <1>4, <1>5, <1>6, NoPacketMoves DEF RefInv, ResendersRight

\* A packet that is taken from the pools is held by nobody, and is its writer's then.
LEMMA NewPacketKeeps ==
    ASSUME RefInv, NEW w \in Writers, NEW s \in Streams, NEW seq \in SeqNums,
           NewPacket(w, s, seq)
    PROVE  RefInv'
<1>1. PICK p \in Packets :
          /\ heap[p].count = 0
          /\ heap' = [heap EXCEPT ![p] = [seq |-> seq, stream |-> s, count |-> 1]]
          /\ writers' = [writers EXCEPT ![w] = [pc |-> "add", stream |-> s, packet |-> p]]
  BY Zenon DEF NewPacket
<1>2. UNCHANGED <<buffers, streams, created, resenders>> /\ writers[w].pc = "idle"
  BY DEF NewPacket
<1>3. ~Owned(p) /\ ResendersOf(p) = {}
  BY <1>1, FreeIsUnused DEF RefInv
<1>4. StateType
  BY DEF RefInv
<1>5. /\ heap'[p] = [seq |-> seq, stream |-> s, count |-> 1]
      /\ \A q \in Packets : q # p => heap'[q] = heap[q]
      /\ writers'[w] = [pc |-> "add", stream |-> s, packet |-> p]
      /\ \A v \in Writers : v # w => writers'[v] = writers[v]
  BY <1>1, <1>4 DEF StateType
<1>6. /\ \A t \in Streams, i \in Indexes : buffers[t].packets[i] # p
      /\ \A v \in Writers : writers[v].packet # p
      /\ \A r \in Resenders : resenders[r].packet # p
      /\ writers[w].packet = NoPacket /\ p # NoPacket
  BY <1>2, <1>3, ActorsAssumption
     DEF Owned, InSlot, InWriter, ResendersOf, RefInv, WritersRight
<1>7. StateType'
  <2>1. heap' \in [Packets -> Packet]
    BY <1>1, <1>4 DEF StateType, Packet
  <2>2. writers' \in [Writers -> Writer]
    BY <1>1, <1>4 DEF StateType, Writer
  <2>. QED
    BY <1>2, <1>4, <2>1, <2>2 DEF StateType
<1>8. WritersRight'
  BY <1>5, <1>6 DEF RefInv, WritersRight
<1>9. ResendersRight' /\ SlotsUnique'
  BY <1>2 DEF RefInv, ResendersRight, SlotsUnique
<1>10. WritersUnique'
  BY <1>5, <1>6 DEF RefInv, WritersUnique
<1>11. WritersApart'
  BY <1>2, <1>5, <1>6 DEF RefInv, WritersApart
<1>12. SlotsRight'
  <2> SUFFICES ASSUME NEW t \in Streams, NEW i \in Indexes, buffers[t].packets[i] # NoPacket
               PROVE  /\ heap'[buffers[t].packets[i]].stream = t
                      /\ Index(heap'[buffers[t].packets[i]].seq) = i
    BY <1>2 DEF SlotsRight
  <2>1. buffers[t].packets[i] \in Packets
    BY <1>4 DEF StateType, Buffer
  <2>2. heap'[buffers[t].packets[i]] = heap[buffers[t].packets[i]]
    BY <1>5, <1>6, <2>1
  <2>. QED
    BY <2>2 DEF RefInv, SlotsRight
<1>13. CountsRight'
  <2> SUFFICES ASSUME NEW q \in Packets
               PROVE  heap'[q].count = (IF Owned(q)' THEN 1 ELSE 0) + Cardinality(ResendersOf(q)')
    BY DEF CountsRight
  <2>1. ResendersOf(q)' = ResendersOf(q)
    BY <1>2 DEF ResendersOf
  <2>2. CASE q = p
    <3>1. Owned(p)'
      BY <1>5 DEF Owned, InWriter
    <3>. QED
      BY <1>3, <1>5, <2>1, <2>2, <3>1, FS_EmptySet
  <2>3. CASE q # p
    <3>1. InSlot(q)' = InSlot(q)
      BY <1>2 DEF InSlot
    <3>2. InWriter(q)' = InWriter(q)
      <4>1. q # NoPacket
        BY ActorsAssumption
      <4>2. \A v \in Writers : writers'[v].packet = q <=> writers[v].packet = q
        BY <1>5, <1>6, <2>3, <4>1
      <4>. QED
        BY <4>2 DEF InWriter
    <3>. QED
      BY <1>5, <2>1, <2>3, <3>1, <3>2 DEF RefInv, CountsRight, Owned
  <2>. QED
    BY <2>2, <2>3
<1>14. ResendsRight'
  <2> SUFFICES ASSUME NEW r \in Resenders, resenders[r].pc = "write"
               PROVE  /\ heap'[resenders[r].packet].seq = resenders[r].seq
                      /\ heap'[resenders[r].packet].stream = resenders[r].stream
    BY <1>2 DEF ResendsRight
  <2>1. heap'[resenders[r].packet] = heap[resenders[r].packet]
    BY <1>5, <1>6 DEF RefInv, ResendersRight
  <2>. QED
    BY <2>1 DEF RefInv, ResendsRight
<1>. QED
  BY <1>7, <1>8, <1>9, <1>10, <1>11, <1>12, <1>13, <1>14 DEF RefInv

\* Add clears slots of the ring, the packet's own among them.
LEMMA ClearedType ==
    ASSUME NEW b \in Buffer, NEW seq \in SeqNums
    PROVE  Cleared(b, seq) \subseteq Indexes /\ Index(seq) \in Cleared(b, seq)
<1>1. b.highestAdded \in SeqNums
  BY DEF Buffer
<1>2. CASE b.started /\ IsAhead(seq, b.highestAdded)
  <2> DEFINE d == Minus(seq, b.highestAdded)
  <2>1. d \in 1 .. Half /\ \A k \in 1 .. d : Plus(b.highestAdded, k) \in SeqNums
    BY <1>1, <1>2, HalfAssumption DEF IsAhead, Uint16SizeHalf, Minus, Plus, SeqNums, Modulus
  <2>2. Plus(b.highestAdded, d) = seq /\ d \in 1 .. d
    BY <1>1, <2>1, HalfAssumption, PlusMinusType
  <2>3. Cleared(b, seq) = {Index(Plus(b.highestAdded, k)) : k \in 1 .. d}
    BY <1>2 DEF Cleared
  <2> HIDE DEF d
  <2>4. Index(seq) \in {Index(Plus(b.highestAdded, k)) : k \in 1 .. d}
    BY <2>2
  <2>. QED
    BY <2>1, <2>3, <2>4, IndexType
<1>3. CASE ~(b.started /\ IsAhead(seq, b.highestAdded))
  BY <1>3, IndexType DEF Cleared
<1>. QED
  BY <1>2, <1>3

\* A packet that Add ignores was its writer's alone.
LEMMA IgnoredKeeps ==
    ASSUME RefInv, NEW w \in Writers, AddPacket(w),
           Ignored(buffers[writers[w].stream], heap[writers[w].packet].seq)
    PROVE  RefInv'
<1> DEFINE s == writers[w].stream
           p == writers[w].packet
<1>0. writers[w].pc = "add"
  BY DEF AddPacket
<1>1. /\ heap' = [heap EXCEPT ![p] = FreePacket]
      /\ buffers' = [buffers EXCEPT ![s] = Add(buffers[s], p, heap[p].seq)]
      /\ writers' = [writers EXCEPT ![w] = IdleWriter]
      /\ UNCHANGED <<streams, created, resenders>>
  BY DEF AddPacket
<1>2. StateType
  BY DEF RefInv
<1>3. p \in Packets /\ p # NoPacket /\ s \in Streams
  BY <1>0, ActorsAssumption DEF RefInv, WritersRight
<1>4. Add(buffers[s], p, heap[p].seq) = buffers[s]
  BY DEF Add
<1>5. buffers' = buffers
  BY <1>1, <1>2, <1>4 DEF StateType
<1> HIDE DEF s, p
<1>6. /\ heap'[p] = FreePacket
      /\ \A q \in Packets : q # p => heap'[q] = heap[q]
      /\ writers'[w] = IdleWriter
      /\ \A v \in Writers : v # w => writers'[v] = writers[v]
  BY <1>1, <1>2, <1>3 DEF StateType
<1>7. /\ \A t \in Streams, i \in Indexes : buffers[t].packets[i] # p
      /\ \A v \in Writers : v # w => writers[v].packet # p
      /\ \A r \in Resenders : resenders[r].packet # p
  BY <1>3 DEF RefInv, WritersApart, WritersUnique, p
<1>8. StateType'
  <2>1. heap' \in [Packets -> Packet] /\ writers' \in [Writers -> Writer]
    BY <1>1, <1>2, IdleTypes, Zenon DEF StateType
  <2>. QED
    BY <1>1, <1>2, <1>5, <2>1, Zenon DEF StateType
<1>9. WritersRight'
  <2> SUFFICES ASSUME NEW v \in Writers
               PROVE  /\ writers'[v].pc = "idle" => /\ writers'[v].packet = NoPacket
                                                    /\ writers'[v].stream = NoStream
                      /\ writers'[v].pc = "add" =>
                            /\ writers'[v].packet \in Packets
                            /\ writers'[v].stream \in Streams
                            /\ heap'[writers'[v].packet].stream = writers'[v].stream
    BY DEF WritersRight
  <2>1. CASE v = w
    BY <1>6, <2>1 DEF IdleWriter
  <2>2. CASE v # w
    BY <1>6, <1>7, <2>2 DEF RefInv, WritersRight
  <2>. QED
    BY <2>1, <2>2
<1>10. ResendersRight' /\ SlotsUnique'
  BY <1>1, <1>5 DEF RefInv, ResendersRight, SlotsUnique
<1>11. WritersUnique' /\ WritersApart'
  <2>1. writers'[w].packet = NoPacket
    BY <1>6 DEF IdleWriter
  <2>. QED
    BY <1>1, <1>5, <1>6, <2>1 DEF RefInv, WritersUnique, WritersApart
<1>12. SlotsRight'
  <2> SUFFICES ASSUME NEW t \in Streams, NEW i \in Indexes, buffers[t].packets[i] # NoPacket
               PROVE  /\ heap'[buffers[t].packets[i]].stream = t
                      /\ Index(heap'[buffers[t].packets[i]].seq) = i
    BY <1>5 DEF SlotsRight
  <2>1. buffers[t].packets[i] \in Packets
    BY <1>2 DEF StateType, Buffer
  <2>2. heap'[buffers[t].packets[i]] = heap[buffers[t].packets[i]]
    BY <1>6, <1>7, <2>1
  <2>. QED
    BY <2>2 DEF RefInv, SlotsRight
<1>13. CountsRight'
  <2> SUFFICES ASSUME NEW q \in Packets
               PROVE  heap'[q].count = (IF Owned(q)' THEN 1 ELSE 0) + Cardinality(ResendersOf(q)')
    BY DEF CountsRight
  <2>1. ResendersOf(q)' = ResendersOf(q) /\ InSlot(q)' = InSlot(q) /\ q # NoPacket
    BY <1>1, <1>5, ActorsAssumption DEF ResendersOf, InSlot
  <2>2. CASE q = p
    <3>1. ~Owned(q)'
      BY <1>6, <1>7, <2>1, <2>2 DEF Owned, InSlot, InWriter, IdleWriter
    <3>2. ResendersOf(q) = {}
      BY <1>7, <2>2 DEF ResendersOf
    <3>3. heap'[q].count = 0
      BY <1>6, <2>2 DEF FreePacket
    <3>. QED
      BY <2>1, <3>1, <3>2, <3>3, FS_EmptySet
  <2>3. CASE q # p
    <3>1. \A v \in Writers : writers'[v].packet = q <=> writers[v].packet = q
      BY <1>6, <2>1, <2>3 DEF IdleWriter, p
    <3>2. Owned(q)' = Owned(q)
      BY <2>1, <3>1 DEF Owned, InWriter
    <3>. QED
      BY <1>6, <2>1, <2>3, <3>2 DEF RefInv, CountsRight
  <2>. QED
    BY <2>2, <2>3
<1>14. ResendsRight'
  <2> SUFFICES ASSUME NEW r \in Resenders, resenders[r].pc = "write"
               PROVE  /\ heap'[resenders[r].packet].seq = resenders[r].seq
                      /\ heap'[resenders[r].packet].stream = resenders[r].stream
    BY <1>1 DEF ResendsRight
  <2>1. heap'[resenders[r].packet] = heap[resenders[r].packet]
    BY <1>6, <1>7 DEF RefInv, ResendersRight
  <2>. QED
    BY <2>1 DEF RefInv, ResendsRight
<1>. QED
  BY <1>8, <1>9, <1>10, <1>11, <1>12, <1>13, <1>14 DEF RefInv

\* What Add does to the ring when it stores a packet.
LEMMA StoredIs ==
    ASSUME RefInv, NEW w \in Writers, AddPacket(w),
           ~Ignored(buffers[writers[w].stream], heap[writers[w].packet].seq)
    PROVE  LET s   == writers[w].stream
               p   == writers[w].packet
               seq == heap[p].seq
               c   == Cleared(buffers[s], seq)
           IN  /\ s \in Streams /\ p \in Packets /\ p # NoPacket /\ seq \in SeqNums
               /\ heap[p].stream = s
               /\ heap' = Release({buffers[s].packets[idx] : idx \in c} \ {NoPacket})
               /\ buffers' \in [Streams -> Buffer]
               /\ \A t \in Streams : t # s => buffers'[t] = buffers[t]
               /\ buffers'[s].started
               /\ buffers'[s].highestAdded =
                     IF ~buffers[s].started \/ IsAhead(seq, buffers[s].highestAdded)
                       THEN seq ELSE buffers[s].highestAdded
               /\ \A idx \in Indexes : buffers'[s].packets[idx] =
                     IF idx = Index(seq) THEN p
                     ELSE IF idx \in c THEN NoPacket ELSE buffers[s].packets[idx]
               /\ writers' = [writers EXCEPT ![w] = IdleWriter]
               /\ UNCHANGED <<streams, created, resenders>>
<1> DEFINE s   == writers[w].stream
           p   == writers[w].packet
           seq == heap[p].seq
           c   == Cleared(buffers[s], seq)
           b   == Add(buffers[s], p, seq)
<1>1. s \in Streams /\ p \in Packets /\ p # NoPacket /\ heap[p].stream = s
  BY ActorsAssumption DEF AddPacket, RefInv, WritersRight
<1>2. StateType
  BY DEF RefInv
<1>3. seq \in SeqNums /\ buffers[s] \in Buffer
  BY <1>1, <1>2 DEF StateType, Packet
<1>4. b = [packets      |-> [idx \in Indexes |->
                               IF idx = Index(seq) THEN p
                               ELSE IF idx \in c THEN NoPacket
                               ELSE buffers[s].packets[idx]],
           highestAdded |-> IF ~buffers[s].started \/ IsAhead(seq, buffers[s].highestAdded)
                              THEN seq ELSE buffers[s].highestAdded,
           started      |-> TRUE]
  BY DEF Add
<1>5. Evicted(buffers[s], seq) = {buffers[s].packets[idx] : idx \in c} \ {NoPacket}
  BY DEF Evicted
<1>6. /\ heap' = Release(Evicted(buffers[s], seq))
      /\ buffers' = [buffers EXCEPT ![s] = b]
      /\ writers' = [writers EXCEPT ![w] = IdleWriter]
      /\ UNCHANGED <<streams, created, resenders>>
  BY DEF AddPacket
<1> HIDE DEF s, p, seq, c, b
<1>7. b \in Buffer
  BY <1>1, <1>3, <1>4 DEF Buffer
<1>8. buffers' \in [Streams -> Buffer] /\ buffers'[s] = b
      /\ \A t \in Streams : t # s => buffers'[t] = buffers[t]
  BY <1>1, <1>2, <1>6, <1>7 DEF StateType
<1>9. /\ b.started
      /\ b.highestAdded =
            IF ~buffers[s].started \/ IsAhead(seq, buffers[s].highestAdded)
              THEN seq ELSE buffers[s].highestAdded
      /\ \A idx \in Indexes : b.packets[idx] =
            IF idx = Index(seq) THEN p
            ELSE IF idx \in c THEN NoPacket ELSE buffers[s].packets[idx]
  BY <1>4
<1>. QED
  BY <1>1, <1>3, <1>5, <1>6, <1>8, <1>9, Zenon DEF s, p, seq, c

\* A packet that Add stores passes from its writer to a slot; the packets of the slots
\* it clears lose their owner, and their contents only if no resend has them.
LEMMA StoredKeeps ==
    ASSUME RefInv, NEW w \in Writers, AddPacket(w),
           ~Ignored(buffers[writers[w].stream], heap[writers[w].packet].seq)
    PROVE  RefInv'
<1> DEFINE s   == writers[w].stream
           p   == writers[w].packet
           seq == heap[p].seq
           c   == Cleared(buffers[s], seq)
           E   == {buffers[s].packets[idx] : idx \in c} \ {NoPacket}
           x   == Index(seq)
<1>1. /\ s \in Streams /\ p \in Packets /\ p # NoPacket /\ seq \in SeqNums
      /\ heap[p].stream = s
      /\ heap' = Release(E)
      /\ buffers' \in [Streams -> Buffer]
      /\ \A t \in Streams : t # s => buffers'[t] = buffers[t]
      /\ \A idx \in Indexes : buffers'[s].packets[idx] =
            IF idx = x THEN p
            ELSE IF idx \in c THEN NoPacket ELSE buffers[s].packets[idx]
      /\ writers' = [writers EXCEPT ![w] = IdleWriter]
      /\ UNCHANGED <<streams, created, resenders>>
  BY StoredIs, Zenon
<1>2. StateType
  BY DEF RefInv
<1>3. c \subseteq Indexes /\ x \in c
  BY <1>1, <1>2, ClearedType, Zenon DEF StateType
<1>4. /\ \A t \in Streams, i \in Indexes : buffers[t].packets[i] # p
      /\ \A v \in Writers : v # w => writers[v].packet # p
      /\ \A r \in Resenders : resenders[r].packet # p
  BY <1>1 DEF RefInv, WritersApart, WritersUnique
<1> HIDE DEF s, p, seq, c, x
<1>5. ASSUME NEW q \in Packets, q \in E
      PROVE  InSlot(q) /\ \A v \in Writers : writers[v].packet # q
  <2>1. PICK idx \in c : buffers[s].packets[idx] = q
    BY <1>5
  <2>. QED
    BY <1>1, <1>3, <2>1, ActorsAssumption DEF InSlot, RefInv, WritersApart
<1>6. ASSUME NEW q \in Packets, q \in E
      PROVE  heap[q].count = 1 + Cardinality(ResendersOf(q)) /\ heap[q].count > 0
  BY <1>5, <1>6, ResendersFinite DEF RefInv, CountsRight, Owned
<1> HIDE DEF E
<1>7. /\ heap' \in [Packets -> Packet]
      /\ \A q \in Packets \ E : heap'[q] = heap[q]
      /\ \A q \in Packets \cap E :
            /\ heap'[q].count = heap[q].count - 1
            /\ heap[q].count # 1 => heap'[q].seq = heap[q].seq /\ heap'[q].stream = heap[q].stream
  BY <1>1, <1>2, <1>6, ReleaseIs
<1>8. p \notin E
  BY <1>1, <1>3, <1>4 DEF E
<1>9. /\ writers'[w] = IdleWriter
      /\ \A v \in Writers : v # w => writers'[v] = writers[v]
  BY <1>1, <1>2 DEF StateType
<1>10. StateType'
  <2>1. writers' \in [Writers -> Writer]
    BY <1>1, <1>2, IdleTypes DEF StateType
  <2>. QED
    BY <1>1, <1>2, <1>7, <2>1 DEF StateType
\* Where a slot's packet was before.
<1>11. ASSUME NEW t \in Streams, NEW i \in Indexes, buffers'[t].packets[i] # NoPacket
       PROVE  \/ t = s /\ i = x /\ buffers'[t].packets[i] = p
              \/ /\ buffers'[t].packets[i] = buffers[t].packets[i]
                 /\ buffers[t].packets[i] \in Packets \ E
  <2>1. buffers[t].packets[i] \in Packets \cup {NoPacket}
    BY <1>2 DEF StateType, Buffer
  <2>2. CASE t = s /\ i = x
    BY <1>1, <2>2
  <2>3. CASE t # s \/ (i # x /\ i \notin c)
    <3>1. buffers'[t].packets[i] = buffers[t].packets[i]
      BY <1>1, <1>3, <2>3
    <3>2. buffers[t].packets[i] \notin E
      <4> SUFFICES ASSUME buffers[t].packets[i] \in E PROVE FALSE
        OBVIOUS
      <4>1. PICK idx \in c : buffers[s].packets[idx] = buffers[t].packets[i]
        BY DEF E
      <4>2. s = t /\ idx = i
        BY <1>1, <1>3, <1>11, <3>1, <4>1 DEF RefInv, SlotsUnique
      <4>. QED
        BY <2>3, <4>2
    <3>. QED
      BY <1>11, <2>1, <3>1, <3>2
  <2>4. CASE t = s /\ i # x /\ i \in c
    BY <1>1, <1>11, <2>4
  <2>. QED
    BY <2>2, <2>3, <2>4
<1>12. WritersRight'
  <2> SUFFICES ASSUME NEW v \in Writers
               PROVE  /\ writers'[v].pc = "idle" => /\ writers'[v].packet = NoPacket
                                                    /\ writers'[v].stream = NoStream
                      /\ writers'[v].pc = "add" =>
                            /\ writers'[v].packet \in Packets
                            /\ writers'[v].stream \in Streams
                            /\ heap'[writers'[v].packet].stream = writers'[v].stream
    BY DEF WritersRight
  <2>1. CASE v = w
    BY <1>9, <2>1 DEF IdleWriter
  <2>2. CASE v # w
    BY <1>5, <1>7, <1>9, <2>2 DEF RefInv, WritersRight
  <2>. QED
    BY <2>1, <2>2
<1>13. ResendersRight'
  BY <1>1 DEF RefInv, ResendersRight
<1>14. SlotsUnique'
  <2> SUFFICES ASSUME NEW t \in Streams, NEW u \in Streams, NEW i \in Indexes, NEW j \in Indexes,
                      buffers'[t].packets[i] = buffers'[u].packets[j],
                      buffers'[t].packets[i] # NoPacket
               PROVE  t = u /\ i = j
    BY DEF SlotsUnique
  <2>. QED
    BY <1>4, <1>11, ActorsAssumption DEF RefInv, SlotsUnique
<1>15. WritersUnique'
  BY <1>9 DEF RefInv, WritersUnique, IdleWriter
<1>16. WritersApart'
  <2> SUFFICES ASSUME NEW v \in Writers, writers'[v].packet # NoPacket
               PROVE  /\ \A t \in Streams, i \in Indexes :
                            buffers'[t].packets[i] # writers'[v].packet
                      /\ \A r \in Resenders : resenders'[r].packet # writers'[v].packet
    BY DEF WritersApart
  <2>1. v # w /\ writers'[v] = writers[v]
    BY <1>9 DEF IdleWriter
  <2>. QED
    BY <1>1, <1>4, <1>11, <2>1 DEF RefInv, WritersApart
<1>17. SlotsRight'
  <2> SUFFICES ASSUME NEW t \in Streams, NEW i \in Indexes, buffers'[t].packets[i] # NoPacket
               PROVE  /\ heap'[buffers'[t].packets[i]].stream = t
                      /\ Index(heap'[buffers'[t].packets[i]].seq) = i
    BY DEF SlotsRight
  <2>1. CASE t = s /\ i = x /\ buffers'[t].packets[i] = p
    BY <1>1, <1>7, <1>8, <2>1 DEF x, seq
  <2>2. CASE /\ buffers'[t].packets[i] = buffers[t].packets[i]
             /\ buffers[t].packets[i] \in Packets \ E
    BY <1>7, <2>2 DEF RefInv, SlotsRight
  <2>. QED
    BY <1>11, <2>1, <2>2
<1>18. CountsRight'
  <2> SUFFICES ASSUME NEW q \in Packets
               PROVE  heap'[q].count = (IF Owned(q)' THEN 1 ELSE 0) + Cardinality(ResendersOf(q)')
    BY DEF CountsRight
  <2>0. ResendersOf(q)' = ResendersOf(q) /\ q # NoPacket
    BY <1>1, ActorsAssumption DEF ResendersOf
  <2>1. CASE q \in E
    <3>1. ~Owned(q)'
      <4>1. \A v \in Writers : writers'[v].packet # q
        BY <1>5, <1>9, <2>0, <2>1 DEF IdleWriter
      <4>2. \A t \in Streams, i \in Indexes : buffers'[t].packets[i] # q
        BY <1>8, <1>11, <2>0, <2>1
      <4>. QED
        BY <4>1, <4>2 DEF Owned, InSlot, InWriter
    <3>. QED
      BY <1>6, <1>7, <2>0, <2>1, <3>1, ResendersFinite
  <2>2. CASE q \notin E
    <3>1. heap'[q] = heap[q]
      BY <1>7, <2>2
    <3>2. Owned(q)' = Owned(q)
      <4>1. CASE q = p
        <5>1. InSlot(q)'
          BY <1>1, <1>3, <4>1 DEF InSlot
        <5>2. InWriter(q)
          BY <4>1 DEF InWriter, p
        <5>. QED
          BY <5>1, <5>2 DEF Owned
      <4>2. CASE q # p
        <5>1. \A v \in Writers : writers'[v].packet = q <=> writers[v].packet = q
          BY <1>9, <2>0, <4>2 DEF IdleWriter, p
        <5>2. \A t \in Streams, i \in Indexes :
                 buffers'[t].packets[i] = q <=> buffers[t].packets[i] = q
          <6> TAKE t \in Streams, i \in Indexes
          <6>1. buffers'[t].packets[i] = q => buffers[t].packets[i] = q
            BY <1>11, <2>0, <4>2
          <6>2. buffers[t].packets[i] = q => t # s \/ i \notin c
            BY <2>0, <2>2 DEF E
          <6>. QED
            BY <1>1, <1>3, <6>1, <6>2
        <5>. QED
          BY <5>1, <5>2 DEF Owned, InSlot, InWriter
      <4>. QED
        BY <4>1, <4>2
    <3>. QED
      BY <2>0, <3>1, <3>2 DEF RefInv, CountsRight
  <2>. QED
    BY <2>1, <2>2
<1>19. ResendsRight'
  <2> SUFFICES ASSUME NEW r \in Resenders, resenders[r].pc = "write"
               PROVE  /\ heap'[resenders[r].packet].seq = resenders[r].seq
                      /\ heap'[resenders[r].packet].stream = resenders[r].stream
    BY <1>1 DEF ResendsRight
  <2> DEFINE q == resenders[r].packet
  <2>1. q \in Packets /\ r \in ResendersOf(q)
    BY DEF RefInv, ResendersRight, ResendersOf
  <2>2. heap'[q].seq = heap[q].seq /\ heap'[q].stream = heap[q].stream
    <3>1. CASE q \in E
      <4>1. Cardinality(ResendersOf(q)) \in Nat /\ Cardinality(ResendersOf(q)) # 0
        BY <2>1, ResendersFinite
      <4>2. heap[q].count # 1
        BY <1>6, <2>1, <3>1, <4>1
      <4>. QED
        BY <1>7, <2>1, <3>1, <4>2
    <3>2. CASE q \notin E
      BY <1>7, <2>1, <3>2
    <3>. QED
      BY <3>1, <3>2
  <2>. QED
    BY <2>2 DEF RefInv, ResendsRight
<1>. QED
  BY <1>10, <1>12, <1>13, <1>14, <1>15, <1>16, <1>17, <1>18, <1>19 DEF RefInv

\* A resend that goes on holds no packet.
LEMMA ContinueIs ==
    ASSUME NEW old \in Resender, NEW seqs \in SUBSET SeqNums, old.stream \in Streams
    PROVE  LET new == Continue(old, seqs)
           IN  /\ new \in Resender
               /\ new.packet = NoPacket
               /\ new.pc \in {"idle", "get"}
               /\ new.pc = "get" => new.stream \in Streams
<1> DEFINE new == Continue(old, seqs)
<1>1. CASE seqs = {}
  <2>1. new = IdleResender
    BY <1>1 DEF Continue
  <2>. QED
    BY <2>1, IdleTypes DEF IdleResender
<1>2. CASE seqs # {}
  <2>1. new = [old EXCEPT !.pc = "get", !.todo = seqs, !.packet = NoPacket, !.seq = 0]
    BY <1>2 DEF Continue
  <2>2. 0 \in SeqNums
    BY HalfAssumption DEF SeqNums, Modulus
  <2> HIDE DEF new
  <2>3. new \in Resender /\ new.packet = NoPacket /\ new.pc = "get" /\ new.stream = old.stream
    BY <2>1, <2>2, Zenon DEF Resender
  <2>. QED
    BY <2>3 DEF new
<1>. QED
  BY <1>1, <1>2

\* What Get answers with is a packet of the ring with the number asked for.
LEMMA GetIs ==
    ASSUME StateType, NEW s \in Streams, NEW seq \in SeqNums,
           Get(buffers[s], seq, Number) # NoPacket
    PROVE  LET p == Get(buffers[s], seq, Number)
           IN  p \in Packets /\ buffers[s].packets[Index(seq)] = p /\ heap[p].seq = seq
<1> DEFINE p == buffers[s].packets[Index(seq)]
<1>1. Get(buffers[s], seq, Number) = p /\ p # NoPacket /\ Number[p] = seq
  BY DEF Get
<1>2. p \in Packets
  BY <1>1, IndexType DEF StateType, Buffer
<1>. QED
  BY <1>1, <1>2 DEF Number

\* A packet found is retained while it is in a slot, and becomes the resend's too.
LEMMA GetPacketKeeps ==
    ASSUME RefInv, NEW r \in Resenders, GetPacket(r)
    PROVE  RefInv'
<1> DEFINE old == resenders[r]
<1>0. /\ old \in Resender /\ old.pc = "get" /\ old.packet = NoPacket /\ old.stream \in Streams
      /\ StateType
      /\ UNCHANGED <<buffers, streams, created, writers>>
  BY DEF RefInv, StateType, ResendersRight, GetPacket
<1>1. PICK seq \in old.todo :
          LET p    == Get(buffers[old.stream], seq, Number)
              rest == old.todo \ {seq}
          IN  IF p = NoPacket \/ heap[p].count = 0
                THEN /\ resenders' = [resenders EXCEPT ![r] = Continue(@, rest)]
                     /\ UNCHANGED heap
                ELSE /\ resenders' = [resenders EXCEPT ![r] =
                            [@ EXCEPT !.pc = "write", !.todo = rest,
                                      !.packet = p, !.seq = seq]]
                     /\ heap' = [heap EXCEPT ![p].count = @ + 1]
  BY Zenon DEF GetPacket
<1> DEFINE p    == Get(buffers[old.stream], seq, Number)
           rest == old.todo \ {seq}
<1>2. seq \in SeqNums /\ rest \in SUBSET SeqNums
  BY <1>0 DEF Resender
<1>3. resenders \in [Resenders -> Resender]
  BY <1>0 DEF StateType
<1>4. CASE p = NoPacket \/ heap[p].count = 0
  <2> DEFINE new == Continue(old, rest)
  <2>1. resenders' = [resenders EXCEPT ![r] = new] /\ UNCHANGED heap
    BY <1>1, <1>4
  <2>2. /\ new \in Resender /\ new.packet = NoPacket /\ new.pc \in {"idle", "get"}
        /\ new.pc = "get" => new.stream \in Streams
    BY <1>0, <1>2, ContinueIs
  <2> HIDE DEF new
  <2>3. StateType'
    BY <1>0, <1>3, <2>1, <2>2 DEF StateType
  <2>. QED
    BY <1>0, <1>3, <2>1, <2>2, <2>3, NoPacketMoves DEF RefInv, ResendersRight
<1>5. CASE p # NoPacket /\ heap[p].count # 0
  <2> DEFINE new == [old EXCEPT !.pc = "write", !.todo = rest, !.packet = p, !.seq = seq]
  <2>1. resenders' = [resenders EXCEPT ![r] = new] /\ heap' = [heap EXCEPT ![p].count = @ + 1]
    BY <1>1, <1>5
  <2>2. /\ p \in Packets /\ buffers[old.stream].packets[Index(seq)] = p
        /\ heap[p].seq = seq
    BY <1>0, <1>2, <1>5, GetIs
  <2>3. heap[p].stream = old.stream /\ InSlot(p)
    BY <1>0, <1>2, <1>5, <2>2, IndexType, Zenon DEF RefInv, SlotsRight, InSlot
  <2> HIDE DEF p, rest
  <2>4. /\ new \in Resender /\ new.packet = p /\ new.pc = "write" /\ new.seq = seq
        /\ new.stream = old.stream
    BY <1>0, <1>2, <2>2, Zenon DEF Resender
  <2> HIDE DEF new
  <2>5. /\ resenders'[r] = new
        /\ \A o \in Resenders : o # r => resenders'[o] = resenders[o]
    BY <1>3, <2>1
  <2>6. /\ heap' \in [Packets -> Packet]
        /\ \A q \in Packets : /\ heap'[q].seq = heap[q].seq
                              /\ heap'[q].stream = heap[q].stream
        /\ \A q \in Packets : q # p => heap'[q].count = heap[q].count
        /\ heap'[p].count = heap[p].count + 1
    BY <1>0, <2>1, <2>2 DEF StateType, Packet
  <2>7. StateType'
    BY <1>0, <1>3, <2>1, <2>4, <2>6 DEF StateType
  <2>8. WritersRight' /\ SlotsUnique' /\ WritersUnique'
    BY <1>0, <2>6 DEF RefInv, WritersRight, SlotsUnique, WritersUnique
  <2>9. ResendersRight'
    BY <1>0, <2>2, <2>4, <2>5, Zenon DEF RefInv, ResendersRight
  <2>10. WritersApart'
    <3>1. \A w \in Writers : writers[w].packet # p
      BY <1>0, <1>2, <1>5, <2>2, IndexType DEF RefInv, WritersApart
    <3>. QED
      BY <1>0, <2>4, <2>5, <3>1 DEF RefInv, WritersApart
  <2>11. SlotsRight'
    <3> SUFFICES ASSUME NEW t \in Streams, NEW i \in Indexes, buffers[t].packets[i] # NoPacket
                 PROVE  /\ heap'[buffers[t].packets[i]].stream = t
                        /\ Index(heap'[buffers[t].packets[i]].seq) = i
      BY <1>0 DEF SlotsRight
    <3>1. buffers[t].packets[i] \in Packets
      BY <1>0 DEF StateType, Buffer
    <3>. QED
      BY <2>6, <3>1 DEF RefInv, SlotsRight
  <2>12. CountsRight'
    <3> SUFFICES ASSUME NEW q \in Packets
                 PROVE  heap'[q].count =
                           (IF Owned(q)' THEN 1 ELSE 0) + Cardinality(ResendersOf(q)')
      BY DEF CountsRight
    <3>1. Owned(q)' = Owned(q) /\ q # NoPacket
      BY <1>0, ActorsAssumption DEF Owned, InSlot, InWriter
    <3>2. CASE q = p
      <4>1. ResendersOf(q)' = ResendersOf(q) \cup {r} /\ r \notin ResendersOf(q)
        BY <1>0, <2>4, <2>5, <3>1, <3>2 DEF ResendersOf
      <4>2. Cardinality(ResendersOf(q)') = Cardinality(ResendersOf(q)) + 1
        BY <4>1, ResendersFinite, FS_AddElement, Zenon
      <4>. QED
        BY <2>6, <3>1, <3>2, <4>2, ResendersFinite DEF RefInv, CountsRight
    <3>3. CASE q # p
      <4>1. ResendersOf(q)' = ResendersOf(q)
        BY <1>0, <2>4, <2>5, <3>1, <3>3 DEF ResendersOf
      <4>. QED
        BY <2>6, <3>1, <3>3, <4>1 DEF RefInv, CountsRight
    <3>. QED
      BY <3>2, <3>3
  <2>13. ResendsRight'
    <3> SUFFICES ASSUME NEW o \in Resenders, resenders'[o].pc = "write"
                 PROVE  /\ heap'[resenders'[o].packet].seq = resenders'[o].seq
                        /\ heap'[resenders'[o].packet].stream = resenders'[o].stream
      BY DEF ResendsRight
    <3>1. CASE o = r
      BY <2>2, <2>3, <2>4, <2>5, <2>6, <3>1
    <3>2. CASE o # r
      BY <2>5, <2>6, <3>2 DEF RefInv, ResendsRight, ResendersRight
    <3>. QED
      BY <3>1, <3>2
  <2>. QED
    BY <2>7, <2>8, <2>9, <2>10, <2>11, <2>12, <2>13 DEF RefInv
<1>. QED
  BY <1>4, <1>5

\* A resend that is over gives its reference back; the packet keeps its contents as
\* long as there is another.
LEMMA ResentKeeps ==
    ASSUME RefInv, NEW r \in Resenders, Resent(r)
    PROVE  RefInv'
<1> DEFINE old == resenders[r]
           p   == old.packet
           new == Continue(old, old.todo)
<1>1. /\ old \in Resender /\ old.pc = "write" /\ p \in Packets /\ old.stream \in Streams
      /\ StateType
      /\ UNCHANGED <<buffers, streams, created, writers>>
      /\ heap' = Release({p})
      /\ resenders' = [resenders EXCEPT ![r] = new]
  BY DEF RefInv, StateType, ResendersRight, Resent
<1>2. /\ new \in Resender /\ new.packet = NoPacket /\ new.pc \in {"idle", "get"}
      /\ new.pc = "get" => new.stream \in Streams
  BY <1>1, ContinueIs DEF Resender
<1>3. resenders \in [Resenders -> Resender] /\ p # NoPacket /\ r \in ResendersOf(p)
  BY <1>1, ActorsAssumption DEF StateType, ResendersOf
<1>4. ASSUME NEW q \in Packets
      PROVE  heap[q].count = (IF Owned(q) THEN 1 ELSE 0) + Cardinality(ResendersOf(q))
  BY DEF RefInv, CountsRight
<1>5. heap[p].count > 0
  BY <1>1, <1>3, <1>4, ResendersFinite
<1> HIDE DEF new, p
<1>6. /\ resenders'[r] = new
      /\ \A o \in Resenders : o # r => resenders'[o] = resenders[o]
  BY <1>1, <1>3
<1>7. /\ heap' \in [Packets -> Packet]
      /\ \A q \in Packets : q # p => heap'[q] = heap[q]
      /\ heap'[p].count = heap[p].count - 1
      /\ heap[p].count # 1 => heap'[p].seq = heap[p].seq /\ heap'[p].stream = heap[p].stream
  <2>1. /\ Release({p}) \in [Packets -> Packet]
        /\ \A q \in Packets \ {p} : Release({p})[q] = heap[q]
        /\ \A q \in Packets \cap {p} :
              /\ Release({p})[q].count = heap[q].count - 1
              /\ heap[q].count # 1 => /\ Release({p})[q].seq = heap[q].seq
                                      /\ Release({p})[q].stream = heap[q].stream
    BY <1>1, <1>5, ReleaseIs
  <2>. QED
    BY <1>1, <2>1, Zenon
<1>8. StateType'
  BY <1>1, <1>2, <1>3, <1>7, Zenon DEF StateType
\* With another reference to p its contents stay.
<1>9. ASSUME Owned(p) \/ \E o \in Resenders : o # r /\ resenders[o].packet = p
      PROVE  heap'[p].seq = heap[p].seq /\ heap'[p].stream = heap[p].stream
  <2>1. IsFiniteSet(ResendersOf(p)) /\ Cardinality(ResendersOf(p)) \in Nat \ {0}
    BY <1>3, ResendersFinite
  <2>2. CASE Owned(p)
    BY <1>1, <1>4, <1>7, <2>1, <2>2
  <2>3. CASE \E o \in Resenders : o # r /\ resenders[o].packet = p
    <3>1. Cardinality(ResendersOf(p) \ {r}) = Cardinality(ResendersOf(p)) - 1
          /\ IsFiniteSet(ResendersOf(p) \ {r})
      BY <1>3, <2>1, FS_RemoveElement
    <3>2. ResendersOf(p) \ {r} # {}
      BY <2>3 DEF ResendersOf
    <3>3. Cardinality(ResendersOf(p) \ {r}) # 0
      BY <3>1, <3>2, FS_EmptySet
    <3>. QED
      BY <1>1, <1>4, <1>7, <2>1, <3>1, <3>3
  <2>. QED
    BY <1>9, <2>2, <2>3
<1>10. WritersRight'
  <2>1. \A w \in Writers : writers[w].packet # p
    BY <1>1, <1>3 DEF RefInv, WritersApart, p
  <2>. QED
    BY <1>1, <1>7, <2>1, Zenon DEF RefInv, WritersRight
<1>11. SlotsUnique' /\ WritersUnique'
  BY <1>1 DEF RefInv, SlotsUnique, WritersUnique
<1>12. ResendersRight'
  BY <1>1, <1>2, <1>6 DEF RefInv, ResendersRight
<1>13. WritersApart'
  BY <1>1, <1>2, <1>6 DEF RefInv, WritersApart
<1>14. SlotsRight'
  <2> SUFFICES ASSUME NEW t \in Streams, NEW i \in Indexes, buffers[t].packets[i] # NoPacket
               PROVE  /\ heap'[buffers[t].packets[i]].stream = t
                      /\ Index(heap'[buffers[t].packets[i]].seq) = i
    BY <1>1 DEF SlotsRight
  <2> DEFINE q == buffers[t].packets[i]
  <2>1. q \in Packets /\ Owned(q)
    BY <1>1 DEF StateType, Buffer, Owned, InSlot
  <2>2. heap'[q].seq = heap[q].seq /\ heap'[q].stream = heap[q].stream
    BY <1>7, <1>9, <2>1
  <2>. QED
    BY <2>2 DEF RefInv, SlotsRight
<1>15. CountsRight'
  <2> SUFFICES ASSUME NEW q \in Packets
               PROVE  heap'[q].count = (IF Owned(q)' THEN 1 ELSE 0) + Cardinality(ResendersOf(q)')
    BY DEF CountsRight
  <2>1. Owned(q)' = Owned(q) /\ q # NoPacket
    BY <1>1, ActorsAssumption DEF Owned, InSlot, InWriter
  <2>2. CASE q = p
    <3>1. ResendersOf(q)' = ResendersOf(q) \ {r} /\ r \in ResendersOf(q)
      BY <1>2, <1>3, <1>6, <2>1, <2>2 DEF ResendersOf
    <3>2. Cardinality(ResendersOf(q)') = Cardinality(ResendersOf(q)) - 1
      BY <3>1, ResendersFinite, FS_RemoveElement, Zenon
    <3>. QED
      BY <1>4, <1>7, <2>1, <2>2, <3>2, ResendersFinite
  <2>3. CASE q # p
    <3>1. ResendersOf(q)' = ResendersOf(q)
      BY <1>2, <1>6, <2>1, <2>3 DEF ResendersOf, p
    <3>. QED
      BY <1>4, <1>7, <2>1, <2>3, <3>1
  <2>. QED
    BY <2>2, <2>3
<1>16. ResendsRight'
  <2> SUFFICES ASSUME NEW o \in Resenders, resenders'[o].pc = "write"
               PROVE  /\ heap'[resenders'[o].packet].seq = resenders'[o].seq
                      /\ heap'[resenders'[o].packet].stream = resenders'[o].stream
    BY DEF ResendsRight
  <2>1. o # r /\ resenders'[o] = resenders[o]
    BY <1>2, <1>6
  <2>2. resenders[o].packet \in Packets
    BY <2>1 DEF RefInv, ResendersRight
  <2>3. /\ heap'[resenders[o].packet].seq = heap[resenders[o].packet].seq
        /\ heap'[resenders[o].packet].stream = heap[resenders[o].packet].stream
    BY <1>7, <1>9, <2>1, <2>2
  <2>. QED
    BY <2>1, <2>3 DEF RefInv, ResendsRight
<1>. QED
  BY <1>8, <1>10, <1>11, <1>12, <1>13, <1>14, <1>15, <1>16 DEF RefInv

\* Every step keeps the invariant.
LEMMA RefNext ==
    ASSUME RefInv, [Next]_vars
    PROVE  RefInv'
<1>1. ASSUME NEW w \in Writers, AddPacket(w)
      PROVE  RefInv'
  BY <1>1, IgnoredKeeps, StoredKeeps
<1>2. CASE UNCHANGED vars
  <2>1. UNCHANGED <<heap, buffers, streams, created, writers, resenders>>
    BY <1>2 DEF vars
  <2>2. StateType'
    BY <2>1 DEF RefInv, StateType
  <2>. QED
    BY <2>1, <2>2, NoPacketMoves DEF RefInv, ResendersRight
<1>. QED
  BY <1>1, <1>2, BindKeeps, NewPacketKeeps, ReadNackKeeps, LookupKeeps, GetPacketKeeps,
     ResentKeeps DEF Next

\* The invariant holds of every behaviour.
LEMMA RefInvHolds == Spec => []RefInv
<1>1. RefInv /\ [Next]_vars => RefInv'
  BY RefNext
<1>. QED
  BY <1>1, RefInit, PTL DEF Spec

\* For any number of actors the state keeps its type, and no count exceeds one more
\* than there are resends.
THEOREM ResponderTypes == Spec => []TypeOK
<1>1. RefInv => TypeOK
  <2> SUFFICES ASSUME RefInv PROVE TypeOK
    OBVIOUS
  <2>1. StateType
    BY DEF RefInv
  <2>2. ASSUME NEW p \in Packets
        PROVE  heap[p].count \in 0 .. 1 + Cardinality(Resenders)
    <3>1. Cardinality(Resenders) \in Nat
      BY ActorsAssumption, FS_CardinalityType
    <3>. QED
      BY <3>1, ResendersFinite DEF RefInv, CountsRight
  <2>3. heap \in [Packets -> [seq    : SeqNums,
                              stream : Streams \cup {NoStream},
                              count  : 0 .. 1 + Cardinality(Resenders)]]
    BY <2>1, <2>2 DEF StateType, Packet
  <2>. QED
    BY <2>1, <2>3 DEF StateType, TypeOK, Buffer, Writer, Resender
<1>. QED
  BY <1>1, RefInvHolds, PTL

\* A packet with an owner is in one slot or with one writer.
LEMMA OwnersCounted ==
    ASSUME RefInv, NEW p \in Packets
    PROVE  Cardinality(SlotsOf(p)) + Cardinality(WritersOf(p)) = IF Owned(p) THEN 1 ELSE 0
<1>0. p # NoPacket
  BY ActorsAssumption
<1>1. CASE InSlot(p)
  <2>1. PICK s \in Streams, i \in Indexes : buffers[s].packets[i] = p
    BY <1>1 DEF InSlot
  <2>2. SlotsOf(p) = {<<s, i>>}
    <3>1. <<s, i>> \in SlotsOf(p)
      BY <2>1 DEF SlotsOf
    <3>2. ASSUME NEW slot \in SlotsOf(p)
          PROVE  slot = <<s, i>>
      <4>1. slot \in Streams \X Indexes /\ buffers[slot[1]].packets[slot[2]] = p
        BY DEF SlotsOf
      <4>2. slot[1] = s /\ slot[2] = i
        BY <1>0, <2>1, <4>1 DEF RefInv, SlotsUnique
      <4>. QED
        BY <4>1, <4>2
    <3>. QED
      BY <3>1, <3>2
  <2>3. WritersOf(p) = {}
    BY <1>0, <2>1 DEF WritersOf, RefInv, WritersApart
  <2>4. Cardinality(SlotsOf(p)) = 1 /\ Cardinality(WritersOf(p)) = 0
    BY <2>2, <2>3, FS_Singleton, FS_EmptySet, Zenon
  <2>. QED
    BY <1>1, <2>4 DEF Owned
<1>2. CASE InWriter(p)
  <2>1. PICK w \in Writers : writers[w].packet = p
    BY <1>2 DEF InWriter
  <2>2. WritersOf(p) = {w}
    BY <1>0, <2>1 DEF WritersOf, RefInv, WritersUnique
  <2>3. SlotsOf(p) = {}
    <3>1. \A s \in Streams, i \in Indexes : buffers[s].packets[i] # p
      BY <1>0, <2>1 DEF RefInv, WritersApart
    <3>. QED
      BY <3>1 DEF SlotsOf
  <2>4. Cardinality(SlotsOf(p)) = 0 /\ Cardinality(WritersOf(p)) = 1
    BY <2>2, <2>3, FS_Singleton, FS_EmptySet, Zenon
  <2>. QED
    BY <1>2, <2>4 DEF Owned
<1>3. CASE ~Owned(p)
  <2>1. SlotsOf(p) = {} /\ WritersOf(p) = {}
    BY <1>3 DEF Owned, InSlot, InWriter, SlotsOf, WritersOf
  <2>. QED
    BY <1>3, <2>1, FS_EmptySet
<1>. QED
  BY <1>1, <1>2, <1>3 DEF Owned

\* However writers, evictions and resends interleave, the count of every packet is the
\* number of references to it: it goes back to the pools once, after the last use.
THEOREM RefCountExactHolds == Spec => []RefCountExact
<1>1. RefInv => RefCountExact
  <2> SUFFICES ASSUME RefInv, NEW p \in Packets
               PROVE  heap[p].count = Refs(p)
    BY DEF RefCountExact
  <2>1. heap[p].count = (IF Owned(p) THEN 1 ELSE 0) + Cardinality(ResendersOf(p))
    BY DEF RefInv, CountsRight
  <2>. QED
    BY <2>1, OwnersCounted DEF Refs
<1>. QED
  BY <1>1, RefInvHolds, PTL

\* The packet a resend writes from is live, and the one asked for, until the write is
\* over, though no lock is held.
THEOREM ResendIntactHolds == Spec => []ResendIntact
<1>1. RefInv => ResendIntact
  <2> SUFFICES ASSUME RefInv, NEW r \in Resenders, resenders[r].pc = "write"
               PROVE  LET held == heap[resenders[r].packet]
                      IN  /\ held.count > 0
                          /\ held.seq = resenders[r].seq
                          /\ held.stream = resenders[r].stream
    BY DEF ResendIntact
  <2> DEFINE p == resenders[r].packet
  <2>1. p \in Packets /\ r \in ResendersOf(p)
    BY DEF RefInv, ResendersRight, ResendersOf
  <2>2. heap[p].count = (IF Owned(p) THEN 1 ELSE 0) + Cardinality(ResendersOf(p))
    BY <2>1 DEF RefInv, CountsRight
  <2>3. heap[p].count > 0
    BY <2>1, <2>2, ResendersFinite
  <2>. QED
    BY <2>3 DEF RefInv, ResendsRight
<1>. QED
  BY <1>1, RefInvHolds, PTL
=============================================================================
