-------------------------- MODULE NackWindowProofs --------------------------
(***************************************************************************)
(* Every stream of a NackResponder implements PacketWindow, the window of  *)
(* the newest packets, for any number of streams, packets, writers and     *)
(* resends, every width of the sequence numbers and every size of the      *)
(* ring.                                                                   *)
(***************************************************************************)
EXTENDS NackResponderProofs

\* As long as a packet has an owner, no step gives it another number.
LEMMA OwnedKeeps ==
    ASSUME RefInv, RefInv', [Next]_vars, NEW p \in Packets, Owned(p), Owned(p)'
    PROVE  heap'[p].seq = heap[p].seq
<1>0. StateType /\ heap[p].count = 1 + Cardinality(ResendersOf(p)) /\ heap[p].count > 0
  BY ResendersFinite DEF RefInv, CountsRight
<1>1. ASSUME UNCHANGED heap
      PROVE  heap'[p].seq = heap[p].seq
  BY <1>1
<1>2. ASSUME UNCHANGED resenders, heap'[p].count < heap[p].count
      PROVE  FALSE
  <2>1. ResendersOf(p)' = ResendersOf(p)
    BY <1>2 DEF ResendersOf
  <2>2. heap'[p].count = 1 + Cardinality(ResendersOf(p)')
    BY DEF RefInv, CountsRight
  <2>. QED
    BY <1>0, <1>2, <2>1, <2>2, ResendersFinite
<1>3. ASSUME NEW w \in Writers, NEW s \in Streams, NEW seq \in SeqNums, NewPacket(w, s, seq)
      PROVE  heap'[p].seq = heap[p].seq
  <2>1. PICK q \in Packets :
            /\ heap[q].count = 0
            /\ heap' = [heap EXCEPT ![q] = [seq |-> seq, stream |-> s, count |-> 1]]
    BY <1>3, Zenon DEF NewPacket
  <2>. QED
    BY <1>0, <2>1 DEF StateType
<1>4. ASSUME NEW w \in Writers, AddPacket(w)
      PROVE  heap'[p].seq = heap[p].seq
  <2> DEFINE s   == writers[w].stream
             q   == writers[w].packet
             E   == {buffers[s].packets[idx] : idx \in Cleared(buffers[s], heap[q].seq)}
                        \ {NoPacket}
  <2>1. CASE Ignored(buffers[s], heap[q].seq)
    <3>1. heap' = [heap EXCEPT ![q] = FreePacket] /\ UNCHANGED resenders
      BY <1>4, <2>1 DEF AddPacket
    <3>2. CASE p = q
      <4>1. heap'[p].count = 0
        BY <1>0, <3>1, <3>2 DEF StateType, FreePacket
      <4>. QED
        BY <1>0, <1>2, <3>1, <4>1
    <3>3. CASE p # q
      BY <1>0, <3>1, <3>3 DEF StateType
    <3>. QED
      BY <3>2, <3>3
  <2>2. CASE ~Ignored(buffers[s], heap[q].seq)
    <3>1. /\ s \in Streams /\ heap[q].seq \in SeqNums
          /\ heap' = Release(E) /\ UNCHANGED resenders
      BY <1>4, <2>2, StoredIs
    <3>2. ASSUME NEW e \in Packets, e \in E
          PROVE  heap[e].count > 0
      <4>1. PICK idx \in Cleared(buffers[s], heap[q].seq) : buffers[s].packets[idx] = e
        BY <3>2
      <4>2. idx \in Indexes
        BY <1>0, <3>1, <4>1, ClearedType DEF StateType
      <4>3. Owned(e)
        BY <3>1, <4>1, <4>2 DEF Owned, InSlot
      <4>. QED
        BY <4>3, ResendersFinite DEF RefInv, CountsRight
    <3> HIDE DEF E
    <3>3. /\ p \notin E => heap'[p] = heap[p]
          /\ p \in E => heap'[p].count = heap[p].count - 1
      BY <1>0, <3>1, <3>2, ReleaseIs
    <3>4. heap[p].count \in Nat
      BY <1>0 DEF StateType, Packet
    <3>. QED
      BY <1>2, <3>1, <3>3, <3>4, SMTT(30)
  <2>. QED
    BY <2>1, <2>2
<1>5. ASSUME NEW r \in Resenders, GetPacket(r)
      PROVE  heap'[p].seq = heap[p].seq
  <2>1. CASE UNCHANGED heap
    BY <1>1, <2>1
  <2>2. CASE ~UNCHANGED heap
    <3>1. \E q : heap' = [heap EXCEPT ![q].count = @ + 1]
      BY <1>5, <2>2 DEF GetPacket
    <3>2. PICK q : heap' = [heap EXCEPT ![q].count = @ + 1]
      BY <3>1, Zenon
    <3>. QED
      BY <1>0, <3>2 DEF StateType, Packet
  <2>. QED
    BY <2>1, <2>2
<1>6. ASSUME NEW r \in Resenders, Resent(r)
      PROVE  heap'[p].seq = heap[p].seq
  <2> DEFINE q == resenders[r].packet
  <2>1. q \in Packets /\ r \in ResendersOf(q) /\ heap' = Release({q})
    BY <1>6 DEF Resent, RefInv, ResendersRight, ResendersOf
  <2>2. /\ Cardinality(ResendersOf(q)) \in Nat \ {0}
        /\ heap[q].count = (IF Owned(q) THEN 1 ELSE 0) + Cardinality(ResendersOf(q))
    BY <2>1, ResendersFinite DEF RefInv, CountsRight
  <2> HIDE DEF q
  <2>3. \A e \in Packets \cap {q} : heap[e].count > 0
    BY <2>1, <2>2
  <2>4. p = q => heap[p].count # 1
    BY <2>2
  <2>. QED
    BY <1>0, <2>1, <2>3, <2>4, ReleaseIs
<1>7. CASE UNCHANGED vars
  BY <1>1, <1>7 DEF vars
<1>8. CASE BindLocalStream \/ UnbindLocalStream
  BY <1>1, <1>8 DEF BindLocalStream, UnbindLocalStream
<1>9. ASSUME NEW r \in Resenders, NEW seqs \in Nacks, ReadNack(r, seqs)
      PROVE  heap'[p].seq = heap[p].seq
  BY <1>1, <1>9 DEF ReadNack
<1>10. ASSUME NEW r \in Resenders, Lookup(r)
       PROVE  heap'[p].seq = heap[p].seq
  BY <1>1, <1>10 DEF Lookup
<1>. QED
  BY <1>3, <1>4, <1>5, <1>6, <1>7, <1>8, <1>9, <1>10 DEF Next
-----------------------------------------------------------------------------
\* The numbers in the slots of a ring b, with what the packets contain.
RingOf(b, contents) ==
    [i \in Indexes |-> IF b.packets[i] = NoPacket THEN Vacant
                       ELSE contents[b.packets[i]].seq]
Ring(s) == RingOf(buffers[s], heap)

\* The ring has a whole number of turns in the sequence numbers.
LEMMA RingDivides ==
    /\ Divides(BufferSize) /\ BufferSize <= Half /\ BufferSize \in Nat \ {0}
    /\ Indexes = 0 .. BufferSize - 1
BY BufferSizeAssumption, HalfAssumption DEF Divides, Modulus, Indexes

\* What Get finds: the packet of the number's slot, if it has that number and is among
\* the newest.
LEMMA FoundIs ==
    ASSUME NEW b \in Buffer, NEW contents \in [Packets -> Packet], NEW y \in SeqNums
    PROVE  Get(b, y, [p \in Packets |-> contents[p].seq]) # NoPacket <=>
               Minus(b.highestAdded, y) < BufferSize /\ RingOf(b, contents)[y % BufferSize] = y
<1> DEFINE number == [p \in Packets |-> contents[p].seq]
           i == Index(y)
           q == b.packets[i]
           d == Minus(b.highestAdded, y)
<1>1. d \in Nat /\ i \in Indexes /\ q \in Packets \cup {NoPacket} /\ i = y % BufferSize
  BY IndexType, PlusMinusType DEF Buffer, Index
<1>2. d < BufferSize => d < Uint16SizeHalf
  BY <1>1, BufferSizeAssumption, HalfAssumption DEF Uint16SizeHalf
<1>3. q # NoPacket => number[q] = contents[q].seq
  BY <1>1
<1>4. Get(b, y, number) =
          IF d < Uint16SizeHalf /\ d < BufferSize /\ q # NoPacket /\ number[q] = y
            THEN q ELSE NoPacket
  BY DEF Get
<1>5. RingOf(b, contents)[i] = IF q = NoPacket THEN Vacant ELSE contents[q].seq
  BY <1>1 DEF RingOf
<1>6. y # Vacant
  BY HalfAssumption DEF SeqNums, Modulus, Vacant
<1> HIDE DEF i, q, d, number
<1>7. Get(b, y, number) # NoPacket <=> d < BufferSize /\ RingOf(b, contents)[i] = y
  BY <1>2, <1>3, <1>4, <1>5, <1>6
<1>. QED
  BY <1>1, <1>7 DEF d, number

\* What is held, before and after a step, is the window of the ring.
LEMMA HeldIs ==
    ASSUME StateType, StateType', NEW s \in Streams
    PROVE  /\ Held(s) = RingWindow(BufferSize, buffers[s].highestAdded, Ring(s))
           /\ Held(s)' = RingWindow(BufferSize, buffers'[s].highestAdded, Ring(s)')
<1>1. /\ buffers[s] \in Buffer /\ buffers'[s] \in Buffer
      /\ heap \in [Packets -> Packet] /\ heap' \in [Packets -> Packet]
  BY DEF StateType
<1>2. ASSUME NEW b \in Buffer, NEW contents \in [Packets -> Packet]
      PROVE  {y \in SeqNums : Get(b, y, [p \in Packets |-> contents[p].seq]) # NoPacket}
                = RingWindow(BufferSize, b.highestAdded, RingOf(b, contents))
  BY FoundIs DEF RingWindow
<1>3. Held(s) = {y \in SeqNums :
                    Get(buffers[s], y, [p \in Packets |-> heap[p].seq]) # NoPacket}
  BY DEF Held, Number
<1>4. Held(s)' = {y \in SeqNums :
                    Get(buffers'[s], y, [p \in Packets |-> heap'[p].seq]) # NoPacket}
  BY DEF Held, Number
<1>5. Held(s) = RingWindow(BufferSize, buffers[s].highestAdded, Ring(s))
  BY <1>1, <1>2, <1>3, Zenon DEF Ring
<1>6. Held(s)' = RingWindow(BufferSize, buffers'[s].highestAdded, Ring(s)')
  BY <1>1, <1>2, <1>4, Zenon DEF Ring
<1>. QED
  BY <1>5, <1>6

\* A slot that a step leaves alone keeps its number.
LEMMA SlotKeeps ==
    ASSUME RefInv, RefInv', [Next]_vars, NEW s \in Streams, NEW i \in Indexes,
           buffers'[s].packets[i] = buffers[s].packets[i]
    PROVE  Ring(s)'[i] = Ring(s)[i]
<1>1. buffers[s].packets[i] \in Packets \cup {NoPacket}
  BY DEF RefInv, StateType, Buffer
<1>2. ASSUME NEW p \in Packets, p = buffers[s].packets[i]
      PROVE  heap'[p].seq = heap[p].seq
  <2>1. Owned(p) /\ Owned(p)'
    BY <1>2 DEF Owned, InSlot
  <2>. QED
    BY <2>1, OwnedKeeps
<1>. QED
  BY <1>1, <1>2 DEF Ring, RingOf

\* A ring that a step leaves alone keeps its numbers, and the window of its stream.
LEMMA RingKeeps ==
    ASSUME RefInv, RefInv', [Next]_vars, NEW s \in Streams, buffers'[s] = buffers[s]
    PROVE  Ring(s)' = Ring(s) /\ UNCHANGED Window(s)!vars
<1>1. \A i \in Indexes : Ring(s)'[i] = Ring(s)[i]
  BY SlotKeeps
<1>2. Ring(s)' = Ring(s)
  BY <1>1 DEF Ring, RingOf
<1>3. Held(s)' = Held(s)
  BY <1>2, HeldIs DEF RefInv
<1>. QED
  BY <1>2, <1>3 DEF Window!vars

-----------------------------------------------------------------------------
\* The numbers of a ring are in its window; a ring that nothing was written to is empty.
RingsRight ==
    \A s \in Streams :
        /\ RingRight(BufferSize, buffers[s].highestAdded, Ring(s))
        /\ ~buffers[s].started => \A i \in Indexes : Ring(s)[i] = Vacant

\* The number of a packet that is not stored yet is not too old for the ring, and
\* close to those of the other writes in progress on the stream: so it still is not
\* when another write stores first.
Pending(w) == heap[writers[w].packet].seq

Near(seq, h) == IsAhead(seq, h) \/ Minus(h, seq) <= MaxLate
WritesNear ==
    \A w \in Writers : writers[w].pc = "add" =>
        LET b == buffers[writers[w].stream]
        IN  b.started => Near(Pending(w), b.highestAdded)

Close(y, z) == Minus(y, z) <= MaxLate \/ Minus(z, y) <= MaxLate
WritesClose ==
    \A v \in Writers, w \in Writers :
        /\ writers[v].pc = "add" /\ writers[w].pc = "add"
        /\ writers[v].stream = writers[w].stream
        => Close(Pending(v), Pending(w))

WindowInv == RefInv /\ RingsRight /\ WritesNear /\ WritesClose

\* A number close to the new newest number is ahead of it, or late by at most MaxLate.
LEMMA CloseIsNear ==
    ASSUME MaxLate < BufferSize, NEW y \in SeqNums, NEW h \in SeqNums, Close(y, h)
    PROVE  Near(y, h)
BY ActorsAssumption, BufferSizeAssumption, HalfAssumption
   DEF Near, Close, IsAhead, Uint16SizeHalf, Minus, SeqNums, Modulus

\* A number is close to itself, and closeness goes both ways.
LEMMA CloseBothWays ==
    /\ \A y \in SeqNums : Close(y, y)
    /\ \A y, z : Close(y, z) => Close(z, y)
BY MinusZero, ActorsAssumption DEF Close

\* A write in progress that a step leaves alone keeps its number.
LEMMA WriteKeeps ==
    ASSUME RefInv, RefInv', [Next]_vars, NEW w \in Writers, writers[w].pc = "add",
           writers'[w] = writers[w]
    PROVE  Pending(w)' = Pending(w)
<1>1. PICK p \in Packets : p = writers[w].packet
  BY DEF RefInv, WritersRight
<1>2. Owned(p) /\ Owned(p)'
  BY <1>1 DEF Owned, InWriter
<1>3. heap'[p].seq = heap[p].seq
  BY <1>2, OwnedKeeps
<1>. QED
  BY <1>1, <1>3 DEF Pending

\* Most steps change neither a ring nor a write in progress.
LEMMA QuietKeeps ==
    ASSUME WindowInv, RefInv', [Next]_vars, UNCHANGED buffers,
           \A v \in Writers : writers'[v].pc = "add" => writers'[v] = writers[v]
    PROVE  WindowInv'
<1>0. RefInv
  BY DEF WindowInv
<1>1. \A s \in Streams : Ring(s)' = Ring(s)
  BY <1>0, RingKeeps
<1>2. RingsRight'
  BY <1>1 DEF WindowInv, RingsRight
<1>3. ASSUME NEW v \in Writers, writers'[v].pc = "add"
      PROVE  writers'[v] = writers[v] /\ writers[v].pc = "add" /\ Pending(v)' = Pending(v)
  BY <1>0, <1>3, WriteKeeps
<1>4. WritesNear'
  BY <1>3 DEF WindowInv, WritesNear
<1>5. WritesClose'
  BY <1>3 DEF WindowInv, WritesClose
<1>. QED
  BY <1>2, <1>4, <1>5 DEF WindowInv

\* A new write has a number that the application may use.
LEMMA NewPacketWindow ==
    ASSUME WindowInv, RefInv', NEW w \in Writers, NEW s \in Streams, NEW seq \in SeqNums,
           NewPacket(w, s, seq)
    PROVE  WindowInv'
<1>1. RefInv /\ StateType /\ UNCHANGED buffers
  BY DEF WindowInv, RefInv, NewPacket
<1>2. [Next]_vars
  BY DEF Next
<1>3. RingsRight'
  <2>1. \A t \in Streams : Ring(t)' = Ring(t)
    BY <1>1, <1>2, RingKeeps
  <2>. QED
    BY <1>1, <2>1 DEF WindowInv, RingsRight
<1>4. PICK p \in Packets :
          /\ heap' = [heap EXCEPT ![p] = [seq |-> seq, stream |-> s, count |-> 1]]
          /\ writers' = [writers EXCEPT ![w] = [pc |-> "add", stream |-> s, packet |-> p]]
  BY Zenon DEF NewPacket
<1>5. /\ writers'[w].stream = s /\ Pending(w)' = seq
      /\ \A v \in Writers : v # w => writers'[v] = writers[v]
  BY <1>1, <1>4 DEF StateType, Pending
<1>6. ASSUME NEW v \in Writers, v # w, writers'[v].pc = "add"
      PROVE  /\ writers[v].pc = "add" /\ writers'[v].stream = writers[v].stream
             /\ Pending(v)' = Pending(v)
  <2>1. writers'[v] = writers[v]
    BY <1>5, <1>6
  <2>. QED
    BY <1>1, <1>2, <1>6, <2>1, WriteKeeps
<1>7. /\ buffers[s].started => Near(seq, buffers[s].highestAdded)
      /\ \A v \in Writers : writers[v].stream = s => Close(seq, Pending(v))
  BY DEF NewPacket, CanWrite, Near, Close, Pending
<1>8. ASSUME NEW v \in Writers, writers'[v].pc = "add",
             buffers[writers'[v].stream].started
      PROVE  Near(Pending(v)', buffers[writers'[v].stream].highestAdded)
  <2>1. CASE v = w
    BY <1>5, <1>7, <1>8, <2>1
  <2>2. CASE v # w
    BY <1>6, <1>8, <2>2 DEF WindowInv, WritesNear
  <2>. QED
    BY <2>1, <2>2
<1>9. ASSUME NEW u \in Writers, NEW v \in Writers,
             writers'[u].pc = "add", writers'[v].pc = "add",
             writers'[u].stream = writers'[v].stream
      PROVE  Close(Pending(u)', Pending(v)')
  <2>1. CASE u = w /\ v = w
    BY <1>5, <2>1, CloseBothWays
  <2>2. CASE u = w /\ v # w
    BY <1>5, <1>6, <1>7, <1>9, <2>2
  <2>3. CASE u # w /\ v = w
    <3>1. Close(seq, Pending(u))
      BY <1>5, <1>6, <1>7, <1>9, <2>3
    <3>2. Close(Pending(u), seq)
      BY <3>1, CloseBothWays, Zenon
    <3>. QED
      BY <1>5, <1>6, <1>9, <2>3, <3>2
  <2>4. CASE u # w /\ v # w
    BY <1>6, <1>9, <2>4 DEF WindowInv, WritesClose
  <2>. QED
    BY <2>1, <2>2, <2>3, <2>4
<1>10. WritesNear'
  BY <1>1, <1>8 DEF WritesNear, Near
<1>11. WritesClose'
  BY <1>9 DEF WritesClose, Close
<1>. QED
  BY <1>3, <1>10, <1>11 DEF WindowInv

-----------------------------------------------------------------------------
\* A packet that is stored puts its number into its slot, vacates the slots that Add
\* clears, and leaves the other slots their numbers.
LEMMA StoredRing ==
    ASSUME RefInv, RefInv', NEW w \in Writers, AddPacket(w),
           NEW s \in Streams, s = writers[w].stream, ~Ignored(buffers[s], Pending(w))
    PROVE  RingStores(BufferSize, Pending(w), Cleared(buffers[s], Pending(w)),
                      Ring(s), Ring(s)')
<1> DEFINE p   == writers[w].packet
           seq == Pending(w)
           c   == Cleared(buffers[s], seq)
<1>1. /\ p \in Packets /\ p # NoPacket /\ seq \in SeqNums
      /\ \A idx \in Indexes : buffers'[s].packets[idx] =
            IF idx = Index(seq) THEN p
            ELSE IF idx \in c THEN NoPacket ELSE buffers[s].packets[idx]
  BY StoredIs, Zenon DEF Pending
<1>2. Index(seq) \in Indexes /\ Index(seq) = seq % BufferSize
  BY <1>1, IndexType DEF Index
<1>3. [Next]_vars
  BY DEF Next
<1>4. heap'[p].seq = seq
  <2>1. PICK q \in Packets : q = p
    BY <1>1
  <2>2. Owned(q)
    BY <2>1 DEF Owned, InWriter
  <2>3. Owned(q)'
    BY <1>1, <1>2, <2>1 DEF Owned, InSlot
  <2>. QED
    BY <1>3, <2>1, <2>2, <2>3, OwnedKeeps DEF Pending
<1> HIDE DEF p, seq, c
<1>5. ASSUME NEW i \in Indexes
      PROVE  Ring(s)'[i] = IF i = Index(seq) THEN seq
                           ELSE IF i \in c THEN Vacant ELSE Ring(s)[i]
  <2>1. Ring(s)'[i] = IF buffers'[s].packets[i] = NoPacket THEN Vacant
                      ELSE heap'[buffers'[s].packets[i]].seq
    BY DEF Ring, RingOf
  <2>2. CASE i = Index(seq)
    <3>1. buffers'[s].packets[i] = p /\ p # NoPacket
      BY <1>1, <2>2, Zenon
    <3>. QED
      BY <1>4, <2>1, <2>2, <3>1, Zenon
  <2>3. CASE i # Index(seq) /\ i \in c
    <3>1. buffers'[s].packets[i] = NoPacket
      BY <1>1, <2>3, Zenon
    <3>. QED
      BY <2>1, <2>3, <3>1, Zenon
  <2>4. CASE i # Index(seq) /\ i \notin c
    <3>1. buffers'[s].packets[i] = buffers[s].packets[i]
      BY <1>1, <2>4, Zenon
    <3>. QED
      BY <1>3, <2>4, <3>1, SlotKeeps
  <2>. QED
    BY <2>2, <2>3, <2>4
<1>. QED
  BY <1>2, <1>5, RingDivides DEF RingStores, seq, c

\* The writes that are still in progress stay close to each other, and to the newest
\* number.
LEMMA StoredWrites ==
    ASSUME MaxLate < BufferSize, WindowInv, RefInv', NEW w \in Writers, AddPacket(w),
           NEW s \in Streams, s = writers[w].stream, ~Ignored(buffers[s], Pending(w))
    PROVE  WritesNear' /\ WritesClose'
<1> DEFINE seq == Pending(w)
           h   == buffers[s].highestAdded
<1>1. RefInv /\ StateType /\ [Next]_vars
  BY DEF WindowInv, RefInv, Next
<1>2. /\ seq \in SeqNums /\ writers[w].pc = "add"
      /\ \A t \in Streams : t # s => buffers'[t] = buffers[t]
      /\ buffers'[s].highestAdded = IF ~buffers[s].started \/ IsAhead(seq, h) THEN seq ELSE h
      /\ writers' = [writers EXCEPT ![w] = IdleWriter]
  BY <1>1, StoredIs, Zenon DEF Pending, AddPacket
<1>3. ASSUME NEW v \in Writers, writers'[v].pc = "add"
      PROVE  /\ writers[v].pc = "add" /\ writers'[v].stream = writers[v].stream
             /\ Pending(v)' = Pending(v)
  <2>1. writers'[v] = writers[v]
    BY <1>1, <1>2, <1>3 DEF StateType, IdleWriter
  <2>. QED
    BY <1>1, <1>3, <2>1, WriteKeeps
<1>4. ASSUME NEW v \in Writers, writers[v].pc = "add"
      PROVE  writers[v].stream \in Streams /\ Pending(v) \in SeqNums
  <2>1. writers[v].stream \in Streams /\ writers[v].packet \in Packets
    BY <1>1, <1>4 DEF RefInv, WritersRight
  <2>. QED
    BY <1>1, <2>1 DEF StateType, Packet, Pending
<1>5. WritesClose'
  BY <1>3 DEF WindowInv, WritesClose
<1>6. ASSUME NEW v \in Writers, writers'[v].pc = "add",
             buffers'[writers[v].stream].started
      PROVE  Near(Pending(v), buffers'[writers[v].stream].highestAdded)
  <2>1. writers[v].pc = "add"
    BY <1>3, <1>6
  <2>2. writers[v].stream \in Streams /\ Pending(v) \in SeqNums
    BY <1>4, <2>1
  <2>3. buffers[writers[v].stream].started =>
            Near(Pending(v), buffers[writers[v].stream].highestAdded)
    BY <2>1 DEF WindowInv, WritesNear
  <2>4. CASE writers[v].stream # s
    BY <1>2, <1>6, <2>2, <2>3, <2>4
  <2>5. CASE writers[v].stream = s
    <3>1. Close(Pending(v), seq)
      BY <1>2, <2>1, <2>5 DEF WindowInv, WritesClose
    <3> HIDE DEF seq, h
    <3>2. Near(Pending(v), seq)
      BY <1>2, <2>2, <3>1, CloseIsNear
    <3>3. buffers[s].started => Near(Pending(v), h)
      BY <2>3, <2>5 DEF h
    <3>. QED
      BY <1>2, <2>5, <3>2, <3>3
  <2>. QED
    BY <2>4, <2>5
<1>7. WritesNear'
  BY <1>3, <1>6 DEF WritesNear, Near
<1>. QED
  BY <1>5, <1>7

\* The steps of a stream's window, in the terms of the responder.
LEMMA WindowActions ==
    ASSUME NEW s \in Streams, NEW seq \in SeqNums, buffers'[s].started = TRUE
    PROVE  /\ /\ buffers[s].started = FALSE
              /\ buffers'[s].highestAdded = seq
              /\ Held(s)' = {seq}
              => Window(s)!Next
           /\ /\ buffers[s].started = TRUE
              /\ IsAhead(seq, buffers[s].highestAdded)
              /\ buffers'[s].highestAdded = seq
              /\ Held(s)' = {y \in Held(s) \cup {seq} : Minus(seq, y) < BufferSize}
              => Window(s)!Next
           /\ /\ buffers[s].started = TRUE
              /\ Minus(buffers[s].highestAdded, seq) <= MaxLate
              /\ buffers'[s].highestAdded = buffers[s].highestAdded
              /\ Held(s)' = Held(s) \cup {seq}
              => Window(s)!Next
<1>1. Window(s)!First(seq) \/ Window(s)!Advance(seq) \/ Window(s)!Late(seq) => Window(s)!Next
  BY DEF Window!Next, Window!SeqNums, Window!Modulus, SeqNums, Modulus
<1>2. /\ buffers[s].started = FALSE
      /\ buffers'[s].highestAdded = seq
      /\ Held(s)' = {seq}
      => Window(s)!First(seq)
  BY DEF Window!First
<1>3. /\ buffers[s].started = TRUE
      /\ IsAhead(seq, buffers[s].highestAdded)
      /\ buffers'[s].highestAdded = seq
      /\ Held(s)' = {y \in Held(s) \cup {seq} : Minus(seq, y) < BufferSize}
      => Window(s)!Advance(seq)
  BY Zenon
     DEF Window!Advance, Window!IsAhead, Window!Minus, Window!Modulus,
         Window!Uint16SizeHalf, IsAhead, Minus, Modulus, Uint16SizeHalf
<1>4. /\ buffers[s].started = TRUE
      /\ Minus(buffers[s].highestAdded, seq) <= MaxLate
      /\ buffers'[s].highestAdded = buffers[s].highestAdded
      /\ Held(s)' = Held(s) \cup {seq}
      => Window(s)!Late(seq)
  BY Zenon DEF Window!Late, Window!Minus, Window!Modulus, Minus, Modulus
<1>. QED
  BY <1>1, <1>2, <1>3, <1>4

\* Storing a packet makes a step of its stream's window, and keeps everything in it.
LEMMA StoredStep ==
    ASSUME WindowInv, RefInv', NEW w \in Writers, AddPacket(w), MaxLate < BufferSize,
           NEW s \in Streams, s = writers[w].stream, ~Ignored(buffers[s], Pending(w))
    PROVE  RingRight(BufferSize, buffers'[s].highestAdded, Ring(s)') /\ Window(s)!Next
<1> DEFINE seq == Pending(w)
           h   == buffers[s].highestAdded
           h1  == buffers'[s].highestAdded
           old == Ring(s)
           new == Ring(s)'
<1>1. RefInv
  BY DEF WindowInv
<1>2. /\ seq \in SeqNums
      /\ buffers'[s].started
      /\ h1 = IF ~buffers[s].started \/ IsAhead(seq, h) THEN seq ELSE h
  BY <1>1, StoredIs, Zenon DEF Pending
<1>3. StateType /\ StateType'
  BY <1>1 DEF RefInv
<1>4. buffers[s].started \in BOOLEAN /\ buffers'[s].started \in BOOLEAN /\ h \in SeqNums
  BY <1>3 DEF StateType, Buffer
<1>5. /\ RingRight(BufferSize, h, old)
      /\ ~buffers[s].started => \A i \in 0 .. BufferSize - 1 : old[i] = Vacant
  BY RingDivides DEF WindowInv, RingsRight
<1>6. RingStores(BufferSize, seq, Cleared(buffers[s], seq), old, new)
  BY <1>1, StoredRing
<1>7. buffers[s].started => Near(seq, h)
  BY SMTT(30) DEF WindowInv, WritesNear, AddPacket
<1>8. RingStores(BufferSize, seq,
          IF buffers[s].started /\ IsAhead(seq, h)
            THEN {Plus(h, k) % BufferSize : k \in 1 .. Minus(seq, h)}
            ELSE {seq % BufferSize}, old, new)
  BY <1>6 DEF Cleared, Index
<1>9. /\ Held(s) = RingWindow(BufferSize, h, old)
      /\ Held(s)' = RingWindow(BufferSize, h1, new)
  BY <1>3, HeldIs
<1> HIDE DEF seq, h, h1, old, new
<1>10. CASE ~buffers[s].started
  <2>1. h1 = seq
    BY <1>2, <1>10
  <2>2. RingRight(BufferSize, seq, new) /\ RingWindow(BufferSize, seq, new) = {seq}
    <3>1. RingStores(BufferSize, seq, {seq % BufferSize}, old, new)
      BY <1>8, <1>10, Zenon
    <3>2. Divides(BufferSize) /\ seq \in SeqNums
      BY <1>2, RingDivides
    <3>3. \A i \in 0 .. BufferSize - 1 : old[i] = Vacant
      BY <1>5, <1>10
    <3>. QED
      BY <3>1, <3>2, <3>3, RingFirst
  <2>3. Held(s)' = {seq}
    BY <1>9, <2>1, <2>2
  <2>4. Window(s)!Next
    BY <1>2, <1>4, <1>10, <2>1, <2>3, WindowActions, Zenon DEF h1
  <2>. QED
    BY <2>1, <2>2, <2>4 DEF h1, new
<1>11. CASE buffers[s].started /\ IsAhead(seq, h)
  <2>1. h1 = seq
    BY <1>2, <1>11
  <2>2. /\ RingRight(BufferSize, seq, new)
        /\ RingWindow(BufferSize, seq, new) =
              {y \in RingWindow(BufferSize, h, old) \cup {seq} : Minus(seq, y) < BufferSize}
    <3>1. RingStores(BufferSize, seq,
                     {Plus(h, k) % BufferSize : k \in 1 .. Minus(seq, h)}, old, new)
      BY <1>8, <1>11, Zenon
    <3>2. Divides(BufferSize) /\ BufferSize <= Half /\ seq \in SeqNums /\ h \in SeqNums
      BY <1>2, <1>4, RingDivides
    <3>3. RingRight(BufferSize, h, old) /\ IsAhead(seq, h)
      BY <1>5, <1>11
    <3>. QED
      BY <3>1, <3>2, <3>3, RingAdvances
  <2>3. Held(s)' = {y \in Held(s) \cup {seq} : Minus(seq, y) < BufferSize}
    BY <1>9, <2>1, <2>2
  <2>4. Window(s)!Next
    BY <1>2, <1>4, <1>11, <2>1, <2>3, WindowActions, Zenon DEF h, h1
  <2>. QED
    BY <2>1, <2>2, <2>4 DEF h1, new
<1>12. CASE buffers[s].started /\ ~IsAhead(seq, h)
  <2>1. h1 = h /\ Minus(h, seq) <= MaxLate
    BY <1>2, <1>7, <1>12 DEF Near
  <2>2. Minus(h, seq) < BufferSize
    <3>1. Minus(h, seq) \in Nat
      BY <1>2, <1>4, PlusMinusType, Zenon
    <3>. QED
      BY <2>1, <3>1, ActorsAssumption, BufferSizeAssumption
  <2>3. /\ RingRight(BufferSize, h, new)
        /\ RingWindow(BufferSize, h, new) = RingWindow(BufferSize, h, old) \cup {seq}
    <3>1. RingStores(BufferSize, seq, {seq % BufferSize}, old, new)
      BY <1>8, <1>12, Zenon
    <3>2. Divides(BufferSize) /\ BufferSize <= Half /\ seq \in SeqNums /\ h \in SeqNums
      BY <1>2, <1>4, RingDivides
    <3>3. RingRight(BufferSize, h, old)
      BY <1>5
    <3>. QED
      BY <2>2, <3>1, <3>2, <3>3, RingLate
  <2>4. Held(s)' = Held(s) \cup {seq}
    BY <1>9, <2>1, <2>3
  <2>5. Window(s)!Next
    BY <1>2, <1>4, <1>12, <2>1, <2>4, WindowActions, Zenon DEF h, h1
  <2>. QED
    BY <2>1, <2>3, <2>5 DEF h1, new
<1>. QED
  BY <1>10, <1>11, <1>12

\* A packet that is stored keeps the window invariant, and changes one window.
LEMMA StoredWindow ==
    ASSUME MaxLate < BufferSize, WindowInv, RefInv', NEW w \in Writers, AddPacket(w),
           NEW s \in Streams, s = writers[w].stream, ~Ignored(buffers[s], Pending(w))
    PROVE  /\ WindowInv'
           /\ \A t \in Streams : Window(t)!Next \/ UNCHANGED Window(t)!vars
<1>1. RefInv
  BY DEF WindowInv
<1>2. [Next]_vars
  BY DEF Next
<1>3. buffers'[s].started /\ \A t \in Streams : t # s => buffers'[t] = buffers[t]
  BY <1>1, StoredIs, Zenon DEF Pending
<1>4. \A t \in Streams : t # s => Ring(t)' = Ring(t) /\ UNCHANGED Window(t)!vars
  BY <1>1, <1>2, <1>3, RingKeeps
<1>5. RingRight(BufferSize, buffers'[s].highestAdded, Ring(s)') /\ Window(s)!Next
  BY StoredStep
<1>6. ASSUME NEW t \in Streams
      PROVE  /\ RingRight(BufferSize, buffers'[t].highestAdded, Ring(t)')
             /\ ~buffers'[t].started => \A i \in Indexes : Ring(t)'[i] = Vacant
  <2>1. CASE t = s
    BY <1>3, <1>5, <2>1
  <2>2. CASE t # s
    BY <1>3, <1>4, <2>2 DEF WindowInv, RingsRight
  <2>. QED
    BY <2>1, <2>2
<1>7. RingsRight'
  BY <1>6 DEF RingsRight, RingRight
<1>8. WritesNear' /\ WritesClose'
  BY StoredWrites
<1>9. \A t \in Streams : Window(t)!Next \/ UNCHANGED Window(t)!vars
  BY <1>4, <1>5
<1>. QED
  BY <1>7, <1>8, <1>9 DEF WindowInv

-----------------------------------------------------------------------------
\* The window invariant holds at the start, and every window is empty.
LEMMA WindowInit ==
    ASSUME Init
    PROVE  WindowInv /\ \A s \in Streams : Window(s)!Init
<1>1. RefInv
  BY RefInit
<1>2. WritesNear /\ WritesClose
  BY DEF Init, IdleWriter, WritesNear, WritesClose
<1>3. ASSUME NEW s \in Streams
      PROVE  /\ buffers[s].started = FALSE /\ buffers[s].highestAdded = 0
             /\ \A i \in Indexes : buffers[s].packets[i] = NoPacket
  BY DEF Init, NewRTPBuffer
<1>4. RingsRight
  <2>1. \A s \in Streams, i \in Indexes : Ring(s)[i] = Vacant
    BY <1>3, Zenon DEF Ring, RingOf
  <2>. QED
    BY <2>1, RingDivides DEF RingsRight, RingRight
<1>5. \A s \in Streams : Held(s) = {}
  BY <1>3, IndexType, Zenon DEF Held, Get
<1>6. \A s \in Streams : Window(s)!Init
  BY <1>3, <1>5, Zenon DEF Window!Init
<1>. QED
  BY <1>1, <1>2, <1>4, <1>6 DEF WindowInv

\* Every step keeps the window invariant and is, for each stream, a step of its window
\* or none.
LEMMA WindowNext ==
    ASSUME MaxLate < BufferSize, WindowInv, [Next]_vars
    PROVE  /\ WindowInv'
           /\ \A s \in Streams : Window(s)!Next \/ UNCHANGED Window(s)!vars
<1>1. RefInv /\ RefInv' /\ StateType
  BY RefNext DEF WindowInv, RefInv
<1>2. ASSUME UNCHANGED buffers
      PROVE  \A s \in Streams : Window(s)!Next \/ UNCHANGED Window(s)!vars
  BY <1>1, <1>2, RingKeeps
<1>3. ASSUME NEW w \in Writers, AddPacket(w)
      PROVE  /\ WindowInv'
             /\ \A s \in Streams : Window(s)!Next \/ UNCHANGED Window(s)!vars
  <2>1. PICK s \in Streams : s = writers[w].stream
    BY <1>1, <1>3, Zenon DEF AddPacket, RefInv, WritersRight
  <2>2. CASE Ignored(buffers[s], Pending(w))
    <3>1. /\ buffers' = [buffers EXCEPT ![s] = buffers[s]]
          /\ writers' = [writers EXCEPT ![w] = IdleWriter]
      BY <1>3, <2>1, <2>2 DEF AddPacket, Add, Pending
    <3>2. UNCHANGED buffers
      BY <1>1, <3>1 DEF StateType
    <3>3. \A v \in Writers : writers'[v].pc = "add" => writers'[v] = writers[v]
      BY <1>1, <3>1 DEF StateType, IdleWriter
    <3>. QED
      BY <1>1, <1>2, <3>2, <3>3, QuietKeeps
  <2>3. CASE ~Ignored(buffers[s], Pending(w))
    BY <1>1, <1>3, <2>1, <2>3, StoredWindow
  <2>. QED
    BY <2>2, <2>3, SMTT(30)
<1>4. ASSUME NEW w \in Writers, NEW s \in Streams, NEW seq \in SeqNums, NewPacket(w, s, seq)
      PROVE  WindowInv' /\ UNCHANGED buffers
  <2>1. UNCHANGED buffers
    BY <1>4 DEF NewPacket
  <2>. QED
    BY <1>1, <1>4, <2>1, NewPacketWindow
<1>5. ASSUME UNCHANGED <<buffers, writers>>
      PROVE  WindowInv'
  BY <1>1, <1>5, QuietKeeps
<1>6. CASE UNCHANGED vars
  BY <1>2, <1>5, <1>6 DEF vars
<1>7. CASE BindLocalStream \/ UnbindLocalStream
  BY <1>2, <1>5, <1>7 DEF BindLocalStream, UnbindLocalStream
<1>8. ASSUME NEW r \in Resenders, NEW seqs \in Nacks, ReadNack(r, seqs)
      PROVE  UNCHANGED <<buffers, writers>>
  BY <1>8, SMTT(30) DEF ReadNack
<1>9. ASSUME NEW r \in Resenders, Lookup(r) \/ GetPacket(r) \/ Resent(r)
      PROVE  UNCHANGED <<buffers, writers>>
  BY <1>9, Zenon DEF Lookup, GetPacket, Resent
<1>. QED
  BY <1>2, <1>3, <1>4, <1>5, <1>6, <1>7, <1>8, <1>9 DEF Next

\* Every stream holds for retransmission exactly the packets of the abstract window:
\* those written among the BufferSize newest numbers, through wrap-around, jumps,
\* duplicates, writes overtaken by others, and the recycling of packets by other
\* streams (rtpbuffer.go, Add and Get; responder_interceptor.go, BindLocalStream).
\* A write is overtaken by less than the ring, as the model's writers assume.
THEOREM ResponderImplementsWindow ==
    ASSUME MaxLate < BufferSize
    PROVE  Spec => ImplementsWindow
<1>1. Init => WindowInv /\ \A s \in Streams : Window(s)!Init
  BY WindowInit
<1>2. WindowInv /\ [Next]_vars =>
          /\ WindowInv'
          /\ \A s \in Streams : Window(s)!Next \/ UNCHANGED Window(s)!vars
  BY WindowNext
<1>. QED
  BY <1>1, <1>2, PTL DEF Spec, ImplementsWindow
=============================================================================
