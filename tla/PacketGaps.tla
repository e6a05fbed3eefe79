----------------------------- MODULE PacketGaps -----------------------------
(***************************************************************************)
(* What a NACK generator needs to know about a stream, without bitmaps,    *)
(* slots or a consecutive mark: the newest number seen, which of the Size  *)
(* newest numbers arrived, and which of them were skipped and are still    *)
(* missing.  Numbers older than Size are forgotten.  ReceiveLogStream      *)
(* implements this specification.                                          *)
(***************************************************************************)
EXTENDS SeqNum

CONSTANTS Size,     \* how many of the newest numbers are remembered
          MaxLate   \* how far behind the newest number a packet may arrive

VARIABLES started, newest, received, missing

vars == <<started, newest, received, missing>>

\* The numbers of S that are still remembered when n is the newest.
Remembered(S, n) == {s \in S : Minus(n, s) < Size}

\* The numbers strictly between a and b.
Between(a, b) == {s \in SeqNums : s # a /\ Minus(s, a) < Minus(b, a)}

Init ==
    /\ started = FALSE
    /\ newest = 0
    /\ received = {}
    /\ missing = {}

First(seq) ==
    /\ ~started
    /\ started' = TRUE
    /\ newest' = seq
    /\ received' = {seq}
    /\ missing' = {}

\* A packet ahead of the newest: everything in between becomes missing.
Advance(seq) ==
    /\ started
    /\ IsAhead(seq, newest)
    /\ newest' = seq
    /\ received' = Remembered(received \cup {seq}, seq)
    /\ missing' = Remembered(missing \cup Between(newest, seq), seq)
    /\ UNCHANGED started

\* A late packet fills its gap.
Fill(seq) ==
    /\ started
    /\ Minus(newest, seq) <= MaxLate
    /\ received' = received \cup {seq}
    /\ missing' = missing \ {seq}
    /\ UNCHANGED <<started, newest>>

Next == \E seq \in SeqNums : First(seq) \/ Advance(seq) \/ Fill(seq)

Spec == Init /\ [][Next]_vars
=============================================================================
