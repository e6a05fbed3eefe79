-------------------------- MODULE FeedbackAdapter --------------------------
(***************************************************************************)
(* internal/cc/feedback_adapter.go: the sender's history of the packets it *)
(* sent, and the translation of feedback into acknowledgments.  An         *)
(* acknowledgment is a record [ssrc, seq, departure, arrival]; the history *)
(* is the list of them, the one used last in front, at most HistorySize    *)
(* long.  departure stands for the identity of the packet sent.            *)
(***************************************************************************)
EXTENDS Integers, Sequences, SequencesExt, Evaluation

CONSTANTS
    HistorySize,    \* NewFeedbackAdapter: 250
    SeqModulus,     \* sequence numbers are uint16: 2^16
    TwccRefScale,   \* unit of the TWCC reference time: 64 ms
    AtoScale,       \* unit of RFC 8888 arrival time offsets: 1/1024 s
    None            \* no acknowledgment, no arrival

IndexOf(history, ssrc, seq) ==
    SelectInSeq(history, LAMBDA a : a.ssrc = ssrc /\ a.seq = seq)

\* feedbackHistory.get
get(history, ssrc, seq) ==
    LET i == IndexOf(history, ssrc, seq) IN IF i = 0 THEN None ELSE history[i]

\* feedbackHistory.add: a number used again moves to the front with its new
\* packet; a new number may push out the last one (removeOldest).
add(history, ack) ==
    LET i == IndexOf(history, ack.ssrc, ack.seq)
    IN  IF i # 0
        THEN <<ack>> \o RemoveAt(history, i)
        ELSE SubSeq(<<ack>> \o history, 1, Min({Len(history) + 1, HistorySize}))

\* onSentTWCC: transport wide numbers are kept under SSRC 0.
OnSentTWCC(history, seq, departure) ==
    add(history, [ssrc |-> 0, seq |-> seq, departure |-> departure, arrival |-> None])

OnSentRFC8888(history, ssrc, seq, departure) ==
    add(history, [ssrc |-> ssrc, seq |-> seq, departure |-> departure, arrival |-> None])
-----------------------------------------------------------------------------
\* OnTransportCCFeedback.  u is the translation so far: the number of the next
\* symbol, the time of the last arrival, the differences not used yet, and the
\* acknowledgments, None where the history no longer has the packet.

\* A difference is used up only by a packet the history still has.
unpackSymbol(history, u, symbol) ==
    LET ack == get(history, 0, u.seq)
        n   == [u EXCEPT !.seq = (@ + 1) % SeqModulus]
    IN  IF u.invalid THEN u
        ELSE IF ack = None THEN [n EXCEPT !.acks = Append(@, None)]
        ELSE IF symbol = "none" THEN [n EXCEPT !.acks = Append(@, ack)]
        ELSE IF u.deltas = <<>> THEN [u EXCEPT !.invalid = TRUE]
        ELSE [n EXCEPT !.time = @ + Head(u.deltas), !.deltas = Tail(@),
                       !.acks = Append(@, [ack EXCEPT !.arrival = u.time + Head(u.deltas)])]

unpackRunLengthChunk(history, u, chunk) ==
    FoldOnce(LAMBDA a, s : unpackSymbol(history, a, s), u,
             [i \in 1..chunk.length |-> chunk.symbol])

unpackStatusVectorChunk(history, u, chunk) ==
    FoldOnce(LAMBDA a, s : unpackSymbol(history, a, s), u, chunk.symbols)

\* errInvalidFeedback is no acknowledgments at all.
OnTransportCCFeedback(history, fb) ==
    LET unpack(u, chunk) ==
            IF chunk.type = "run"
            THEN unpackRunLengthChunk(history, u, chunk)
            ELSE unpackStatusVectorChunk(history, u, chunk)
        r == FoldOnce(unpack, [seq |-> fb.base, time |-> fb.ref * TwccRefScale,
                               deltas |-> fb.deltas, acks |-> <<>>, invalid |-> FALSE],
                      fb.chunks)
    IN  With(r, LAMBDA u : IF u.invalid THEN <<>> ELSE u.acks)
-----------------------------------------------------------------------------
\* OnRFC8888Feedback: report blocks [begin, metrics] by SSRC, a metric None for
\* a packet that was not received, else the offset of its arrival.  The order of
\* the acknowledgments of different streams is left open.
OnRFC8888Feedback(history, report) ==
    LET ack(ssrc, i) ==
            LET rb == report.blocks[ssrc]
            IN  With(get(history, ssrc, (rb.begin + i - 1) % SeqModulus), LAMBDA a :
                    IF a = None \/ rb.metrics[i] = None
                    THEN a
                    ELSE [a EXCEPT !.arrival = report.time - rb.metrics[i] * AtoScale])
    IN  UNION {{ack(ssrc, i) : i \in DOMAIN report.blocks[ssrc].metrics} :
               ssrc \in DOMAIN report.blocks} \ {None}
=============================================================================
