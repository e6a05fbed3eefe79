---------------------------- MODULE PacketWindow ----------------------------
(***************************************************************************)
(* What a sender promises about retransmission: the packets it still holds *)
(* are those it was given among the BufferSize newest numbers.  The ring   *)
(* of RTPBuffer implements this for every stream of a NackResponder.       *)
(***************************************************************************)
EXTENDS SeqNum

CONSTANTS BufferSize,  \* how many of the newest numbers are held
          MaxLate      \* how far behind the newest number a packet is written

VARIABLES started, newest, held

vars == <<started, newest, held>>

Init ==
    /\ started = FALSE
    /\ newest = 0
    /\ held = {}

First(seq) ==
    /\ ~started
    /\ started' = TRUE
    /\ newest' = seq
    /\ held' = {seq}

Advance(seq) ==
    /\ started
    /\ IsAhead(seq, newest)
    /\ newest' = seq
    /\ held' = {s \in held \cup {seq} : Minus(seq, s) < BufferSize}
    /\ UNCHANGED started

Late(seq) ==
    /\ started
    /\ Minus(newest, seq) <= MaxLate
    /\ held' = held \cup {seq}
    /\ UNCHANGED <<started, newest>>

Next == \E seq \in SeqNums : First(seq) \/ Advance(seq) \/ Late(seq)

Spec == Init /\ [][Next]_vars
=============================================================================
