---------------------------- MODULE NackSession ----------------------------
(***************************************************************************)
(* Both ends of one stream: a sender with the responder's ring buffer, a   *)
(* receiver with the generator's receive log, and a network between them   *)
(* that loses, reorders and delays packets and NACKs.  The generator runs  *)
(* with its defaults skipLastN = 0 and maxNacksPerPacket = 0.  The log and *)
(* what may arrive at it are those of ReceiveLogStream.                    *)
(*                                                                         *)
(* Each end is the composition of its calls as seen from the network: a    *)
(* write stores and sends, a read adds to the log, a tick sends what       *)
(* missingSeqNumbers reports, and a resend looks up one number at a time.  *)
(***************************************************************************)
EXTENDS ReceiveLogStream, RTPBuffer

CONSTANTS FirstSeq,     \* the stream's first sequence number
          MaxSend,      \* bound: packets the sender writes, at most Half
          MaxLoss,      \* bound: how many packets and NACKs the network loses
          MaxNacks      \* bound: NACKs under way at a time

ASSUME SessionAssumption ==
    /\ FirstSeq \in SeqNums
    /\ MaxSend \in 0 .. Half

VARIABLES
    sent,       \* packets written so far
    buffer,     \* the sender's rtpBuffer, a packet being its own number
    net,        \* numbers of the packets under way
    nackNet,    \* NACKs under way, each the set of numbers not yet handled
    got,        \* history: the numbers that arrived
    first,      \* history: the number that arrived first
    losses

sessionVars == <<sent, buffer, net, nackNet, log, got, first, losses>>

Number == [seq \in SeqNums |-> seq]

SeqOf(k) == Plus(FirstSeq, k - 1)

SessionInit ==
    /\ Init
    /\ sent = 0
    /\ buffer = NewRTPBuffer
    /\ net = {}
    /\ nackNet = {}
    /\ got = {}
    /\ first = 0
    /\ losses = 0

\* The writer of BindLocalStream: store, then send.
Write ==
    /\ sent < MaxSend
    /\ sent' = sent + 1
    /\ buffer' = Add(buffer, SeqOf(sent + 1), SeqOf(sent + 1))
    /\ net' = net \cup {SeqOf(sent + 1)}
    /\ UNCHANGED <<nackNet, log, got, first, losses>>

\* The reader of BindRemoteStream.
Read(seq) ==
    /\ seq \in net
    /\ Receive(seq)
    /\ net' = net \ {seq}
    /\ got' = got \cup {seq}
    /\ first' = IF log.started THEN first ELSE seq
    /\ UNCHANGED <<sent, buffer, nackNet, losses>>

Tick ==
    /\ Cardinality(nackNet) < MaxNacks
    /\ LET missing == missingSeqNumbers(log, 0)
       IN  /\ missing # {}
           /\ nackNet' = nackNet \cup {missing}
    /\ UNCHANGED <<sent, buffer, net, log, got, first, losses>>

\* One number of a NACK in resendPackets.
Resend(nack, seq) ==
    /\ nackNet' = (nackNet \ {nack}) \cup ({nack \ {seq}} \ {{}})
    /\ net' = IF Get(buffer, seq, Number) = NoPacket THEN net ELSE net \cup {seq}
    /\ UNCHANGED <<sent, buffer, log, got, first, losses>>

Lose(seq) ==
    /\ seq \in net
    /\ losses < MaxLoss
    /\ net' = net \ {seq}
    /\ losses' = losses + 1
    /\ UNCHANGED <<sent, buffer, nackNet, log, got, first>>

LoseNack(nack) ==
    /\ losses < MaxLoss
    /\ nackNet' = nackNet \ {nack}
    /\ losses' = losses + 1
    /\ UNCHANGED <<sent, buffer, net, log, got, first>>

\* A packet too late for the log is lost.
Expire(seq) ==
    /\ seq \in net
    /\ ~CanArrive(seq)
    /\ net' = net \ {seq}
    /\ UNCHANGED <<sent, buffer, nackNet, log, got, first, losses>>

SessionNext ==
    \/ Write \/ Tick
    \/ \E seq \in SeqNums : Read(seq) \/ Lose(seq) \/ Expire(seq)
    \/ \E nack \in nackNet : LoseNack(nack)
    \/ \E nack \in nackNet : \E seq \in nack : Resend(nack, seq)

\* The ticker ticks, the network delivers what it does not lose, and the
\* goroutine of a NACK runs.
Fairness ==
    /\ WF_sessionVars(Tick)
    /\ \A seq \in SeqNums : WF_sessionVars(Read(seq))
    /\ WF_sessionVars(\E nack \in nackNet : \E seq \in nack : Resend(nack, seq))

SessionSpec == SessionInit /\ [][SessionNext]_sessionVars /\ Fairness
-----------------------------------------------------------------------------
(***************************************************************************)
(* The log never takes a packet for received that did not arrive, and      *)
(* never reports as missing one that did, so no NACK asks for a packet the *)
(* receiver has (receive_log.go, add, get and missingSeqNumbers).          *)
(***************************************************************************)
LogIsTruthful ==
    /\ missingSeqNumbers(log, 0) \cap got = {}
    /\ \A seq \in SeqNums : log.started /\ get(log, seq) => seq \in got

\* Every packet was written, and the last one arrived.
TailSeen == sent = MaxSend /\ log.started /\ log.end = SeqOf(MaxSend)

\* The numbers of the log's window, after the first that arrived, that did not.
Lost ==
    {seq \in SeqNums :
        /\ Minus(log.end, seq) < Size
        /\ seq \notin got
        /\ Minus(log.end, seq) < Minus(log.end, first)}

(***************************************************************************)
(* Loss recovery: once the newest packet has arrived, every number lost    *)
(* inside the receive log's window arrives in the end, though NACKs and    *)
(* retransmissions are lost too, provided the sender's ring is no smaller  *)
(* than the log (generator_interceptor.go, loop; responder_interceptor.go, *)
(* resendPackets).                                                         *)
(***************************************************************************)
LossesRecovered == TailSeen ~> Lost = {}
=============================================================================
