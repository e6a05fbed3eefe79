------------------------------ MODULE Reports ------------------------------
(***************************************************************************)
(* Sender and receiver reports (pkg/report) and the statistics drawn from  *)
(* them (pkg/stats), for one stream from one peer to another.  The sending *)
(* peer writes packets and sends sender reports; the receiving peer counts *)
(* them and sends receiver reports; the statistics of the sending peer     *)
(* turn these into round trip times.  The network loses, repeats and       *)
(* reorders all three.  Both peers read one clock, now.                    *)
(*                                                                         *)
(* Left out: SSRCs, octet counts and jitter; the fraction lost, and the    *)
(* statistics of PLI, FIR, NACK and of extended reports.                   *)
(***************************************************************************)
EXTENDS Unwrapper, Sequences, SequencesExt, FiniteSets, FiniteSetsExt

CONSTANTS
    Ring,               \* size * packetsPerHistoryEntry: 8192
    NtpModulus,         \* range of the middle 32 bits of an NTP time, and of a
                        \* delay: 2^16 s
    Tick,               \* RTP clock ticks between frames, more than MaxTime
    MaxTotalLost,       \* largest number of lost packets, 24 bits: 0xFFFFFF
    MaxLastReports,     \* maxLastSenderReports: 5
    UseLatestPacket,    \* useLatestPacket: false unless set
    FirstNumber,        \* first sequence number
    FirstTimestamp,     \* timestamp of the first frame
    NumPackets,         \* bound: packets written
    PerFrame,           \* packets with the same timestamp
    MaxAhead,           \* bound: packets a packet is written ahead of
    MaxReorder,         \* bound: how far a packet comes after later ones
    MaxGap,             \* bound: how far a packet is ahead of all others
    MaxRepeats,         \* bound: packets that arrive again
    MaxTime,            \* bound: time
    MaxSenderReports,   \* bound: sender reports
    MaxReceiverReports, \* bound: receiver reports
    None

Numbers == FirstNumber..FirstNumber + NumPackets - 1
Timestamp(n) == FirstTimestamp + Tick * ((n - FirstNumber) \div PerFrame)

VARIABLES
    now,
    sender,         \* senderStream
    senderTick,     \* the time the sender's loop has read, or None
    sent,           \* sender reports sent
    outgoing,       \* the sending peer's recorder of statistics
    firstAt,        \* firstAt[f]: when the first packet of a frame was written
    written,        \* packets written
    receiver,       \* receiverStream
    arrived,        \* packets that have arrived
    arriving,       \* the sender report being processed, with the time read
    receiverTick,   \* the time the receiver's loop has read, or None
    incoming,       \* the receiving peer's recorder of statistics
    reports,        \* receiver reports sent
    history         \* first packet to arrive, highest when last reported, packets
                    \* that came again, packets missing at a report, and the last
                    \* sender report processed

sendingVars == <<sender, senderTick, sent, outgoing, firstAt, written>>
receivingVars == <<receiver, arrived, arriving, receiverTick, incoming, reports, history>>
vars == <<now, sendingVars, receivingVars>>

newSenderStream == [timestamp |-> 0, time |-> None, sn |-> 0, count |-> 0]

newReceiverStream ==
    [started |-> FALSE, packets |-> [i \in 0..Ring - 1 |-> FALSE], cycles |-> 0,
     last |-> 0, lastReport |-> 0, lsr |-> 0, lsrTime |-> None, totalLost |-> 0]

newOutgoing == [first |-> None, reports |-> <<>>, received |-> 0, rtt |-> None]

newIncoming == [unwrapper |-> NewUnwrapper, first |-> None, highest |-> 0,
                received |-> 0, lost |-> 0]

Init ==
    /\ now = 1
    /\ sender = newSenderStream
    /\ senderTick = None
    /\ sent = {}
    /\ outgoing = newOutgoing
    /\ firstAt = [f \in {Timestamp(n) : n \in Numbers} |-> None]
    /\ written = {}
    /\ receiver = newReceiverStream
    /\ arrived = {}
    /\ arriving = None
    /\ receiverTick = None
    /\ incoming = newIncoming
    /\ reports = {}
    /\ history = [first |-> None, reported |-> None, repeats |-> 0, counted |-> {},
                  answered |-> None]

Pass ==
    /\ now < MaxTime
    /\ now' = now + 1
    /\ UNCHANGED <<sendingVars, receivingVars>>
-----------------------------------------------------------------------------
\* The sending peer.

\* Fault: every packet of a frame moves the time of the report.
processSentAlways(s, time, n) ==
    LET newer == s.count = 0 \/ (n - s.sn) % Modulus \in 1..Half - 1
    IN  [s EXCEPT !.count = @ + 1,
                  !.sn = IF newer THEN n % Modulus ELSE @,
                  !.timestamp = IF newer THEN Timestamp(n) ELSE @,
                  !.time = IF newer THEN time ELSE @]

\* senderStream.processRTP: only the first packet of a frame, of those in order,
\* moves the time.
processSent(s, time, n) ==
    LET newer == \/ UseLatestPacket
                 \/ s.count = 0
                 \/ (n - s.sn) % Modulus \in 1..Half - 1
        frame == newer /\ Timestamp(n) # s.timestamp
    IN  [s EXCEPT !.count = @ + 1,
                  !.sn = IF newer THEN n % Modulus ELSE @,
                  !.timestamp = IF frame THEN Timestamp(n) ELSE @,
                  !.time = IF frame THEN time ELSE @]

\* The writer of the local stream, with recordOutgoingRTP; packets may be written
\* out of order.
WritePacket(n) ==
    /\ n \notin written
    /\ Cardinality({m \in Numbers \ written : m < n}) <= MaxAhead
    /\ written' = written \cup {n}
    /\ sender' = processSent(sender, now, n)
    /\ outgoing' = [outgoing EXCEPT !.first = IF @ = None THEN n % Modulus ELSE @]
    /\ firstAt' = [firstAt EXCEPT ![Timestamp(n)] = IF @ = None THEN now ELSE @]
    /\ UNCHANGED <<now, senderTick, sent, receivingVars>>

\* loop of the SenderInterceptor: the time is read, then the stream is locked.
SenderTick ==
    /\ senderTick = None
    /\ Cardinality(sent) < MaxSenderReports
    /\ senderTick' = now
    /\ UNCHANGED <<now, sender, sent, outgoing, firstAt, written, receivingVars>>

\* The RTP times senderStream.generateReport may give.  Without a frame that moved
\* the time it is that since the zero time, and has no meaning.  A frame may begin
\* after the time is read and before the stream is locked: what the conversion of
\* the negative difference gives depends on the machine, zero or the difference
\* modulo the range of RTP times, in which the sum is right.
RTPTimes(s, time) ==
    IF s.time = None THEN {None}
    ELSE {s.timestamp + (time - s.time)} \cup
         (IF time < s.time THEN {s.timestamp} ELSE {})

\* began, whether a frame with a timestamp other than zero had begun, is history.
generateSenderReport(rtp, time) ==
    [ntp |-> time, rtp |-> rtp,
     began |-> \E f \in DOMAIN firstAt \ {0} : firstAt[f] # None]

\* recordOutgoingRTCP.
recordOutgoingRTCP(stats, report) ==
    LET all == Append(stats.reports, report.ntp)
    IN  [stats EXCEPT !.reports =
            SubSeq(all, Max({1, (Len(all) - MaxLastReports) + 1}), Len(all))]

\* The report is recorded on its way out.
SendSenderReport ==
    /\ senderTick # None
    /\ \E rtp \in RTPTimes(sender, senderTick) :
       LET report == generateSenderReport(rtp, senderTick) IN
       /\ sent' = sent \cup {report}
       /\ outgoing' = recordOutgoingRTCP(outgoing, report)
    /\ senderTick' = None
    /\ UNCHANGED <<now, sender, firstAt, written, receivingVars>>

ntp32(time) == time % NtpModulus

\* Fault: any report sent is taken for the one the receiver means.
recordIncomingRRAny(stats, report, time) ==
    IF report.delay # 0 /\ report.lsr # 0 /\ stats.reports # <<>>
    THEN [stats EXCEPT !.rtt = [value |-> (time - report.delay) - stats.reports[Len(stats.reports)],
                                report |-> report, at |-> time]]
    ELSE stats

\* recordIncomingRR.  The round trip time is counted from the newest report sent
\* that has the time the receiver names.  rtt.report and rtt.at are history.
recordIncomingRR(stats, report, time) ==
    LET matches == {i \in DOMAIN stats.reports : ntp32(stats.reports[i]) = report.lsr}
        counts  == [stats EXCEPT !.received = IF stats.first = None THEN @ ELSE
                       Max({((report.highest - stats.first) + 1) - report.lost, 0})]
    IN  IF report.delay # 0 /\ report.lsr # 0 /\ matches # {}
        THEN [counts EXCEPT !.rtt = [value |-> (time - report.delay) - stats.reports[Max(matches)],
                                     report |-> report, at |-> time]]
        ELSE counts

ReadReceiverReport(report) ==
    /\ outgoing' = recordIncomingRR(outgoing, report, now)
    /\ UNCHANGED <<now, sender, senderTick, sent, firstAt, written, receivingVars>>
-----------------------------------------------------------------------------
\* The receiving peer.

setReceived(packets, seq) == [packets EXCEPT ![seq % Ring] = TRUE]

\* Fault: the numbers skipped keep what earlier numbers left in their places.
delReceivedNothing(packets, seqs) == packets

delReceived(packets, seqs) ==
    [i \in DOMAIN packets |-> packets[i] /\ i \notin {q % Ring : q \in seqs}]

\* receiverStream.processRTP.  The numbers between the last and seq are marked
\* missing after seq is marked received.
processReceived(r, seq) ==
    LET diff == (seq - r.last) % Modulus
        set  == [r EXCEPT !.packets = setReceived(@, seq)]
    IN  IF ~r.started
        THEN [set EXCEPT !.started = TRUE, !.last = seq,
                         !.lastReport = (seq - 1) % Modulus]
        ELSE IF diff \in 1..Half - 1
        THEN [set EXCEPT !.cycles = IF seq < r.last THEN @ + 1 ELSE @,
                         !.packets = delReceived(@, {(r.last + i) % Modulus : i \in 1..diff - 1}),
                         !.last = seq]
        ELSE set

\* recordIncomingRTP.
recordIncomingRTP(stats, seq) ==
    LET u       == Unwrap(stats.unwrapper, seq)
        first   == IF stats.first = None THEN u.last ELSE stats.first
        highest == Max({stats.highest, u.last})
    IN  [unwrapper |-> u, first |-> first, highest |-> highest,
         received |-> stats.received + 1,
         lost |-> ((highest - first) + 1) - (stats.received + 1)]

Highest == Max(arrived \cup {FirstNumber})

\* The reader of the remote stream.  Bound: no more packets than the ring holds
\* between two reports.
ReadPacket(n) ==
    /\ n \in written
    /\ n \in Highest - MaxReorder..Highest + MaxGap
    /\ n \in arrived => history.repeats < MaxRepeats
    /\ history.first # None => n - history.reported <= Ring
    /\ arrived' = arrived \cup {n}
    /\ receiver' = processReceived(receiver, n % Modulus)
    /\ incoming' = recordIncomingRTP(incoming, n % Modulus)
    /\ history' = [history EXCEPT !.first = IF @ = None THEN n ELSE @,
                                  !.reported = IF @ = None THEN n - 1 ELSE @,
                                  !.repeats = IF n \in arrived THEN @ + 1 ELSE @]
    /\ UNCHANGED <<now, sendingVars, arriving, receiverTick, reports>>

\* The RTCP reader reads the time, then locks the stream.
ReadSenderReport(report) ==
    /\ arriving = None
    /\ arriving' = [ntp |-> report.ntp, at |-> now]
    /\ UNCHANGED <<now, sendingVars, receiver, arrived, receiverTick, incoming, reports,
                   history>>

processSenderReport(r, time, ntpTime) ==
    [r EXCEPT !.lsr = ntp32(ntpTime), !.lsrTime = time]

ProcessSenderReport ==
    /\ arriving # None
    /\ receiver' = processSenderReport(receiver, arriving.at, arriving.ntp)
    /\ history' = [history EXCEPT !.answered = arriving]
    /\ arriving' = None
    /\ UNCHANGED <<now, sendingVars, arrived, receiverTick, incoming, reports>>

\* loop of the ReceiverInterceptor: the time is read, then the stream is locked.
ReceiverTick ==
    /\ receiverTick = None
    /\ Cardinality(reports) < MaxReceiverReports
    /\ receiverTick' = now
    /\ UNCHANGED <<now, sendingVars, receiver, arrived, arriving, incoming, reports,
                   history>>

\* The numbers after the last report and before the last packet that are missing.
lostSinceReport(r) ==
    IF r.last = r.lastReport
    THEN {}
    ELSE {i \in 1..((r.last - r.lastReport) % Modulus) - 1 :
             ~r.packets[((r.lastReport + i) % Modulus) % Ring]}

\* The delay since the last sender report.  A report may be processed after the
\* time is read and before the stream is locked: what the conversion of the
\* negative difference gives depends on the machine.
Delays(r, time) ==
    IF r.lsrTime = None THEN {0}
    ELSE IF time >= r.lsrTime THEN {time - r.lsrTime}
    ELSE {0, (time - r.lsrTime) % NtpModulus}

\* receiverStream.generateReport.  about and at are history.
SendReceiverReport ==
    /\ receiverTick # None
    /\ \E delay \in Delays(receiver, receiverTick) :
       LET lost == Min({receiver.totalLost + Cardinality(lostSinceReport(receiver)),
                        MaxTotalLost})
       IN
       /\ receiver' = [receiver EXCEPT !.totalLost = lost, !.lastReport = receiver.last]
       /\ reports' = reports \cup
              {[highest |-> receiver.cycles * Modulus + receiver.last, lost |-> lost,
                lsr |-> receiver.lsr, delay |-> delay,
                about |-> history.answered, at |-> receiverTick]}
    /\ history' = IF arrived = {} THEN history
                  ELSE [history EXCEPT !.reported = Highest,
                                       !.counted = @ \cup ((history.first..Highest) \ arrived)]
    /\ receiverTick' = None
    /\ UNCHANGED <<now, sendingVars, arrived, arriving, incoming>>

Next ==
    \/ Pass
    \/ \E n \in Numbers : WritePacket(n) \/ ReadPacket(n)
    \/ SenderTick \/ SendSenderReport
    \/ \E r \in reports : ReadReceiverReport(r)
    \/ \E r \in sent : ReadSenderReport(r)
    \/ ProcessSenderReport
    \/ ReceiverTick \/ SendReceiverReport
-----------------------------------------------------------------------------
\* The packet numbered zero in the cycle of the first packet to arrive.
Zero == history.first - (history.first % Modulus)

\* The figures drawn from the sequence numbers are right, across the wrap of the
\* numbers, with packets lost, late and repeated: the report names the highest
\* number that arrived and counts as lost exactly the packets that were missing
\* when a report first covered them, up to the 24 bits it has for them; the
\* statistics of the receiving peer count the packets missing now, less those that
\* came again or before the first, as long as no packet from before the wrap comes
\* after a first packet from behind it (Unwrap does not go below zero).
LossFiguresRight ==
    arrived # {} =>
        /\ receiver.cycles * Modulus + receiver.last = Highest - Zero
        /\ receiver.totalLost = Min({Cardinality(history.counted), MaxTotalLost})
        /\ \/ \E n \in arrived : n < Zero
           \/ incoming.lost = (Cardinality((history.first..Highest) \ arrived)
                                  - history.repeats)
                               - Cardinality({n \in arrived : n < history.first})

\* The round trip time the sending peer derives from a receiver report is the
\* time the sender report took to arrive plus the time the receiver report took,
\* whichever reports were lost, repeated or overtaken, provided that the
\* receiver's loop read its time after the sender report arrived.
RoundTripRight ==
    LET m == outgoing.rtt IN
    (m # None /\ m.report.at >= m.report.about.at) =>
        m.value = (m.at - m.report.at) + (m.report.about.at - m.report.about.ntp)

\* The RTP time of a sender report is what a clock shows that had the timestamp
\* of a frame when the first packet of that frame was written: the packets of
\* the frame that follow, and packets written out of order, do not shift it.  When
\* the frame began after the loop had read the time it may be the timestamp
\* itself.  It has no meaning only before the first frame whose timestamp is not 0.
ReportTimesRight ==
    \A report \in sent :
        IF report.rtp = None
        THEN ~report.began
        ELSE \E f \in DOMAIN firstAt :
                /\ firstAt[f] # None
                /\ \/ report.rtp = f + (report.ntp - firstAt[f])
                   \/ report.ntp < firstAt[f] /\ report.rtp = f
=============================================================================
