-------------------------- MODULE ReceiveLogStream --------------------------
(***************************************************************************)
(* One remote stream's receive log, fed by the network: packets arrive     *)
(* ahead of the newest one by any jump below half the number space, or     *)
(* behind it by at most MaxLate (reordering and retransmission).           *)
(***************************************************************************)
EXTENDS ReceiveLog

CONSTANT MaxLate        \* bound on how late a packet arrives

ASSUME StreamAssumption ==
    /\ MaxLate \in Nat
    /\ MaxLate < Half

VARIABLE log

Init == log = newReceiveLog

\* A packet the network can deliver in this state.
CanArrive(seq) ==
    \/ ~log.started
    \/ IsAhead(seq, log.end)
    \/ Minus(log.end, seq) <= MaxLate

Receive(seq) == CanArrive(seq) /\ log' = add(log, seq)

Next == \E seq \in SeqNums : Receive(seq)

Spec == Init /\ [][Next]_log
-----------------------------------------------------------------------------
TypeOK == log \in Log

(***************************************************************************)
(* The consecutive mark stays within Size of the newest number.  It is     *)
(* what keeps missingSeqNumbers inside its caller's slice: the slice has   *)
(* Size elements, and the loop writes at most one for each number above    *)
(* lastConsecutive (receive_log.go, add and missingSeqNumbers).            *)
(***************************************************************************)
WindowBounded == Minus(log.end, log.lastConsecutive) <= Size

(***************************************************************************)
(* The inductive invariant of the log: its type, the bound on its window,  *)
(* and that a log nothing was added to still is what newReceiveLog made.   *)
(***************************************************************************)
LogInvariant ==
    /\ TypeOK
    /\ WindowBounded
    /\ ~log.started => log = newReceiveLog

(***************************************************************************)
(* missingSeqNumbers never writes past the end of the slice of length      *)
(* n.size that loop allocates, and asks only for numbers of the window     *)
(* that are at least skipLastN behind the newest.  The option takes any    *)
(* uint16 (generator_option.go, GeneratorSkipLastN), and this is true of   *)
(* exactly those up to half the number space beyond the window: for a      *)
(* larger one until lies ahead of end, the early return is not taken, and  *)
(* the loop walks over numbers that were never sent.                       *)
(***************************************************************************)
MissingFits ==
    \A skip \in SeqNums :
        skip <= Half + Minus(log.end, log.lastConsecutive) =>
            LET missing == missingSeqNumbers(log, skip)
            IN  /\ Cardinality(missing) <= Size
                /\ \A seq \in missing : Minus(log.end, seq) \in skip .. Size - 1

(***************************************************************************)
(* Refinement: the log with its aliased bit slots, its lagging             *)
(* lastConsecutive and its wrap-around reports exactly the gaps of the     *)
(* abstract stream, and get answers exactly for the packets of the window. *)
(***************************************************************************)
Gaps == INSTANCE PacketGaps WITH
            started  <- log.started,
            newest   <- log.end,
            received <- {seq \in SeqNums : get(log, seq)},
            missing  <- missingSeqNumbers(log, 0)

ImplementsGaps == Gaps!Spec

(***************************************************************************)
(* A number skipped over inside the window is reported: when a bit between *)
(* lastConsecutive and end is clear, missingSeqNumbers(0) is not empty     *)
(* (receive_log_test.go, "only the latest (rl.size - 1) entries are        *)
(* considered for NACKs").                                                 *)
(***************************************************************************)
GapsAreReported ==
    LET span == Minus(log.end, log.lastConsecutive)
    IN  (\E k \in 1 .. span : ~getReceived(log, Plus(log.lastConsecutive, k)))
            => missingSeqNumbers(log, 0) # {}
=============================================================================
