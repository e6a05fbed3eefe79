--------------------------- MODULE PriorityQueue ---------------------------
(***************************************************************************)
(* pkg/jitterbuffer/priority_queue.go: packets in a linked list, in the    *)
(* order of their sequence numbers as plain integers.                      *)
(*                                                                         *)
(* A packet is its sequence number.  A node is an object with a priority,  *)
(* a packet that Pop takes out (has), and a pointer to the next node.  The *)
(* pointer prev is left out: the code writes it, and reads it only in      *)
(* PopAt and PopAtTimestamp, where the loop replaces it before its use.    *)
(* The pointers are kept as pointers, and not as a sequence, because what  *)
(* can go wrong with a list is that it is none.                            *)
(***************************************************************************)
EXTENDS SeqNum, FiniteSetsExt

CONSTANTS Nodes,    \* the node objects
          Nil,      \* the nil pointer
          FrameLen  \* how many consecutive packets share a timestamp

Timestamp(seq) == seq \div FrameLen

FreeNode == [priority |-> 0, has |-> FALSE, next |-> Nil]

NewQueue == [next |-> Nil, length |-> 0, nodes |-> [n \in Nodes |-> FreeNode]]

\* The node reached from the front in k steps of next.
Walk(q) ==
    LET node[k \in 0 .. Cardinality(Nodes)] ==
            IF k = 0 THEN q.next
            ELSE IF node[k - 1] = Nil THEN Nil
            ELSE q.nodes[node[k - 1]].next
    IN  node

\* The steps that lead to a node.
Steps(q) == {k \in DOMAIN Walk(q) : Walk(q)[k] # Nil}

Linked(q) == {Walk(q)[k] : k \in Steps(q)}

\* The list has an end.
Ends(q) == Walk(q)[Cardinality(Nodes)] = Nil

Priority(q, k) == q.nodes[Walk(q)[k]].priority

\* How many nodes of the list carry the number.
Copies(q, seq) ==
    Cardinality({n \in Linked(q) : q.nodes[n].priority = seq /\ q.nodes[n].has})

Find(q, sqNum) == \E k \in Steps(q) : Priority(q, k) = sqNum

\* Fault: the new node goes behind the first one that is larger.
PushBehind(q, seq, new) ==
    LET larger == {k \in Steps(q) : seq <= Priority(q, k)}
        prev   == Walk(q)[IF larger = {} THEN Cardinality(Steps(q)) - 1 ELSE Min(larger)]
        node   == [priority |-> seq, has |-> TRUE, next |-> q.nodes[prev].next]
    IN  IF q.next = Nil
          THEN [q EXCEPT !.next = new, !.length = Plus(@, 1),
                         !.nodes[new] = [priority |-> seq, has |-> TRUE, next |-> Nil]]
          ELSE [q EXCEPT !.length = Plus(@, 1),
                         !.nodes[new] = node, !.nodes[prev].next = new]

\* Node new goes before the first one that is not smaller, or to the end.
\* The loop starts with prev at the front, so for a number equal to the
\* front's, new is linked both before and after the front.
Push(q, seq, new) ==
    LET larger == {k \in Steps(q) : seq <= Priority(q, k)}
        at     == IF larger = {} THEN Cardinality(Steps(q)) ELSE Min(larger)
        prev   == Walk(q)[IF at = 0 THEN 0 ELSE at - 1]
        node   == [priority |-> seq, has |-> TRUE, next |-> Walk(q)[at]]
        first  == q.next = Nil \/ seq < Priority(q, 0)
    IN  [next   |-> IF first THEN new ELSE q.next,
         length |-> Plus(q.length, 1),
         nodes  |-> IF first THEN [q.nodes EXCEPT ![new] = node]
                    ELSE [q.nodes EXCEPT ![new] = node, ![prev].next = new]]

\* Nodes no pointer leads to are for the garbage collector, and for use again.
Collected(q) ==
    [q EXCEPT !.nodes = [n \in Nodes |-> IF n \in Linked(q) THEN @[n] ELSE FreeNode]]

\* Fault: what follows a node popped from the middle is cut off.
PopFirstCutting(q, K) ==
    LET k == Min(K)
    IN  Collected(
          [next   |-> IF k = 0 THEN q.nodes[Walk(q)[k]].next ELSE q.next,
           length |-> Minus(q.length, 1),
           nodes  |-> IF k = 0 THEN q.nodes
                      ELSE [q.nodes EXCEPT ![Walk(q)[k - 1]].next = Nil]])

\* The first node of the steps K, a set that is not empty, is unlinked and
\* gives up its packet.
PopFirst(q, K) ==
    LET k     == Min(K)
        pos   == Walk(q)[k]
        after == q.nodes[pos].next
        taken == [q.nodes EXCEPT ![pos].has = FALSE]
    IN  Collected(
          [next   |-> IF k = 0 THEN after ELSE q.next,
           length |-> Minus(q.length, 1),
           nodes  |-> IF k = 0 THEN taken
                      ELSE [taken EXCEPT ![Walk(q)[k - 1]].next = after]])

\* The steps at which PopAt and PopAtTimestamp stop.
AtSequence(q, sqNum) == {k \in Steps(q) : Priority(q, k) = sqNum}

AtTimestamp(q, stamp) == {k \in Steps(q) : Timestamp(Priority(q, k)) = stamp}

\* Clear resets length and the prev pointers, and leaves next alone.
Clear(q) == [q EXCEPT !.length = 0]
=============================================================================
