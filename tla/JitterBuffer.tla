---------------------------- MODULE JitterBuffer ----------------------------
(***************************************************************************)
(* pkg/jitterbuffer/jitter_buffer.go, and the receiver interceptor that    *)
(* keeps one buffer for the streams bound to it.                           *)
(*                                                                         *)
(* The buffer's mutex is held for every call, and the interceptor's for    *)
(* every packet read, so each is one action.  The counters of stats, the   *)
(* events and lastSequence, on which no other state depends, are left out, *)
(* and so are calls that change nothing: Peek, PeekAtSequence, a Pop while *)
(* buffering or one that finds nothing.                                    *)
(***************************************************************************)
EXTENDS PriorityQueue

CONSTANTS StartCounts,      \* values of WithMinimumPacketCount
          DefaultStart,     \* the 50 that Clear goes back to
          MayRepeatFront    \* whether the front's number may arrive again

VARIABLES
    packets,        \* the PriorityQueue
    minStartCount,
    playoutHead,
    playoutReady,
    state,
    due,            \* history: number -> packets pushed and not popped, since Clear
    dropped,        \* history: Clear was called on a list that was not empty
    played          \* history: the number Pop has to return next, or Nil

vars == <<packets, minStartCount, playoutHead, playoutReady, state,
          due, dropped, played>>

\* The buffer as a value, for the operations that are made of others.
JB == [packets |-> packets, minStartCount |-> minStartCount,
       playoutHead |-> playoutHead, playoutReady |-> playoutReady, state |-> state]

Becomes(jb) ==
    /\ packets' = jb.packets
    /\ minStartCount' = jb.minStartCount
    /\ playoutHead' = jb.playoutHead
    /\ playoutReady' = jb.playoutReady
    /\ state' = jb.state
-----------------------------------------------------------------------------
updateState(jb) ==
    IF jb.packets.length >= jb.minStartCount /\ jb.state = "Buffering"
      THEN [jb EXCEPT !.state = "Emitting", !.playoutReady = TRUE]
      ELSE jb

\* Fault: the playout head follows the first packet of every empty buffer.
PushedMovingHead(jb, seq, new) ==
    updateState([jb EXCEPT
        !.playoutHead = IF jb.packets.length = 0 THEN seq ELSE @,
        !.packets = Push(@, seq, new)])

Pushed(jb, seq, new) ==
    updateState([jb EXCEPT
        !.playoutHead = IF ~jb.playoutReady /\ jb.packets.length = 0 THEN seq ELSE @,
        !.packets = Push(@, seq, new)])

\* Pop and PopAtSequence both move the head by one.
PoppedAt(jb, sq) ==
    updateState([jb EXCEPT
        !.packets = PopFirst(@, AtSequence(@, sq)),
        !.playoutHead = Plus(@, 1)])

\* A search that finds nothing returns only when the list has an end.
Missed(jb, K) == K = {} /\ Ends(jb.packets)

\* A number the network delivers: any, but that of the front unless repeats
\* of it are let in.
CanArrive(seq) ==
    packets.next # Nil /\ seq = Priority(packets, 0) => MayRepeatFront
-----------------------------------------------------------------------------
Init ==
    /\ packets = NewQueue
    /\ minStartCount \in StartCounts
    /\ playoutHead = 0
    /\ playoutReady = FALSE
    /\ state = "Buffering"
    /\ due = [seq \in SeqNums |-> 0]
    /\ dropped = FALSE
    /\ played = Nil

\* Push by a user of the buffer.
PushPacket(seq, new) ==
    /\ CanArrive(seq)
    /\ new \notin Linked(packets)
    /\ Becomes(Pushed(JB, seq, new))
    /\ due' = [due EXCEPT ![seq] = @ + 1]
    /\ UNCHANGED <<dropped, played>>

\* One packet less is due, unless Clear already wrote it off.
Settled(owed, seq) == [owed EXCEPT ![seq] = IF @ = 0 THEN 0 ELSE @ - 1]

Pop ==
    /\ state = "Emitting"
    /\ AtSequence(packets, playoutHead) # {}
    /\ Becomes(PoppedAt(JB, playoutHead))
    /\ due' = Settled(due, playoutHead)
    /\ played' = Plus(playoutHead, 1)
    /\ UNCHANGED dropped

PopAtSequence(sq) ==
    /\ state = "Emitting"
    /\ AtSequence(packets, sq) # {}
    /\ Becomes(PoppedAt(JB, sq))
    /\ due' = Settled(due, sq)
    /\ played' = Nil
    /\ UNCHANGED dropped

\* A packet the search meets must not have been popped: its timestamp is read.
PopAtTimestamp(stamp) ==
    LET K == AtTimestamp(packets, stamp)
    IN  /\ state = "Emitting"
        /\ K # {}
        /\ Becomes(updateState([JB EXCEPT !.packets = PopFirst(@, K)]))
        /\ due' = Settled(due, Priority(packets, Min(K)))
        /\ UNCHANGED <<dropped, played>>

SetPlayoutHead(seq) ==
    /\ playoutHead' = seq
    /\ played' = Nil
    /\ UNCHANGED <<packets, minStartCount, playoutReady, state, due, dropped>>

\* Clear, with a reset also from UnbindRemoteStream and Close.
ClearBuffer(resetState) ==
    /\ packets' = Clear(packets)
    /\ minStartCount' = IF resetState THEN DefaultStart ELSE minStartCount
    /\ state' = IF resetState THEN "Buffering" ELSE state
    /\ due' = [seq \in SeqNums |-> 0]
    /\ dropped' = (dropped \/ packets.next # Nil)
    /\ played' = IF resetState THEN Nil ELSE played
    /\ UNCHANGED <<playoutHead, playoutReady>>

\* The interceptor's reader: a push, and a pop when that made it play.
Read(seq, new) ==
    LET jb   == Pushed(JB, seq, new)
        hit  == AtSequence(jb.packets, jb.playoutHead) # {}
        owed == [due EXCEPT ![seq] = @ + 1]
    IN  /\ CanArrive(seq)
        /\ new \notin Linked(packets)
        /\ \/ /\ jb.state = "Emitting" /\ hit
              /\ Becomes(PoppedAt(jb, jb.playoutHead))
              /\ due' = Settled(owed, jb.playoutHead)
              /\ played' = Plus(jb.playoutHead, 1)
           \/ /\ jb.state = "Buffering" \/ Missed(jb, AtSequence(jb.packets, jb.playoutHead))
              /\ Becomes(jb)
              /\ due' = owed
              /\ UNCHANGED played
        /\ UNCHANGED dropped

Next ==
    \/ \E seq \in SeqNums, new \in Nodes : PushPacket(seq, new) \/ Read(seq, new)
    \/ Pop
    \/ \E seq \in SeqNums : PopAtSequence(seq) \/ SetPlayoutHead(seq)
    \/ \E stamp \in {Timestamp(seq) : seq \in SeqNums} : PopAtTimestamp(stamp)
    \/ \E resetState \in BOOLEAN : ClearBuffer(resetState)

Spec == Init /\ [][Next]_vars
-----------------------------------------------------------------------------
(***************************************************************************)
(* The queue is a list: it has an end, its numbers never decrease, and     *)
(* every node on it still has its packet.  A list that runs in a circle    *)
(* keeps Find, Push and PopAt searching for ever with the mutex held, and  *)
(* a node without a packet is a nil packet for the caller                  *)
(* (priority_queue.go, Push: "will insert a packet in to the queue in      *)
(* order of sequence number").                                             *)
(***************************************************************************)
QueueInOrder ==
    /\ Ends(packets)
    /\ \A k \in Steps(packets) :
          /\ packets.nodes[Walk(packets)[k]].has
          /\ k > 0 => Priority(packets, k - 1) <= Priority(packets, k)

(***************************************************************************)
(* Nothing is lost: a packet pushed since the last Clear and not popped is *)
(* found, as often as it was pushed, whatever was popped from the middle   *)
(* of the list; and until a Clear comes in between, length, which decides  *)
(* when playback begins, is the number of packets in the list              *)
(* (priority_queue.go, Push, PopAt and PopAtTimestamp).                    *)
(***************************************************************************)
NothingLost ==
    /\ \A seq \in SeqNums :
          /\ due[seq] <= Copies(packets, seq)
          /\ due[seq] > 0 => Find(packets, seq)
    /\ ~dropped => packets.length = Cardinality(Linked(packets))

(***************************************************************************)
(* Playback has no holes and no repeats: from one Pop to the next the      *)
(* playout head stays where the first one left it, on the following        *)
(* number, though the buffer runs empty and fills again in between         *)
(* (jitter_buffer.go, Push and Pop; jitter_buffer_test.go, "Assert that    *)
(* PlayoutHead isn't modified with pushing/popping again").                *)
(***************************************************************************)
PlaysOn == played # Nil => playoutHead = played
=============================================================================
