-------------------------- MODULE Rfc8888Recorder --------------------------
(***************************************************************************)
(* The recorder of RFC 8888 feedback (pkg/rfc8888/recorder.go and          *)
(* stream_log.go): a log of arrivals per SSRC, and reports with one block  *)
(* [begin, metrics] per log.  A metric is None for a packet that was not   *)
(* received, else its arrival time offset.  ECN marks, which are always    *)
(* zero, are left out.                                                     *)
(***************************************************************************)
EXTENDS Unwrapper, FiniteSets, FiniteSetsExt, Functions, TLC, Evaluation

CONSTANTS
    AtoScale,       \* unit of arrival time offsets: 1/1024 s
    AtoModulus,     \* arrival time offsets are cut to 16 bits: 2^16
    AtoTooOld,      \* 0x1FFE
    AtoFuture,      \* 0x1FFF
    NtpModulus,     \* range of a 32 bit NTP timestamp: 2^16 s
    MaxReportSize,  \* maxReportSize: 1200
    HeaderSize,     \* 12
    BlockSize,      \* 8
    None            \* not received, no number yet

newStreamLog ==
    [sequence |-> NewUnwrapper, next |-> None, last |-> 0, log |-> <<>>]

\* add: a later arrival of the same number replaces an earlier one.
LogAdd(l, ts, sequenceNumber) ==
    With(Unwrap(l.sequence, sequenceNumber), LAMBDA u :
        [sequence |-> u,
         next |-> IF l.next = None THEN u.last ELSE l.next,
         last |-> Max({l.last, u.last}),
         log |-> (u.last :> ts) @@ l.log])

getArrivalTimeOffset(base, arrival) ==
    IF base < arrival
    THEN AtoFuture
    ELSE LET ato == ((base - arrival) \div AtoScale) % AtoModulus
         IN  IF ato >= AtoTooOld THEN AtoTooOld ELSE ato

\* Packets are taken out of the log until the first loss.
ReportedPrefix(l, begin) ==
    CHOOSE n \in begin..l.last + 1 :
        /\ \A i \in begin..n - 1 : i \in DOMAIN l.log
        /\ n \notin DOMAIN l.log

\* Fault: packets behind the first loss are reported as lost.
metricsAfterUntilLoss(l, reference, maxReportBlocks) ==
    LET begin == Max({l.next, l.last - maxReportBlocks + 1})
        next  == ReportedPrefix(l, begin)
    IN  [log |-> [l EXCEPT !.next = next,
                           !.log = Restrict(@, DOMAIN @ \ (begin..next - 1))],
         begin |-> begin,
         block |-> [begin |-> begin % Modulus,
                    metrics |-> [i \in 1..l.last - begin + 1 |->
                        IF begin + i - 1 < next
                        THEN getArrivalTimeOffset(reference, l.log[begin + i - 1])
                        ELSE None]]]

\* metricsAfter: the block, and the log that remains.  A log that spans more
\* numbers than fit is cut from below; what is cut stays in the log.
metricsAfter(l, reference, maxReportBlocks) ==
    LET begin == Max({l.next, l.last - maxReportBlocks + 1})
        next  == ReportedPrefix(l, begin)
    IN  IF l.log = <<>>
        THEN [log |-> l, begin |-> l.next, block |-> [begin |-> l.next % Modulus, metrics |-> <<>>]]
        ELSE [log |-> [l EXCEPT !.next = next,
                                !.log = Restrict(@, DOMAIN @ \ (begin..next - 1))],
              begin |-> begin,
              block |-> [begin |-> begin % Modulus,
                         metrics |-> [i \in 1..l.last - begin + 1 |->
                             IF begin + i - 1 \in DOMAIN l.log
                             THEN getArrivalTimeOffset(reference, l.log[begin + i - 1])
                             ELSE None]]]

\* Recorder.AddPacket; streams is a function on the SSRCs seen.
AddToStream(streams, ts, ssrc, seq) ==
    (ssrc :> LogAdd(IF ssrc \in DOMAIN streams THEN streams[ssrc] ELSE newStreamLog,
                    ts, seq)) @@ streams

\* BuildReport; the streams come in any order, in which nothing depends.
BuildReport(streams, now) ==
    LET count == Cardinality(DOMAIN streams)
        perStream == ((MaxReportSize - HeaderSize - BlockSize * count) \div 2) \div count
    IN  With([s \in DOMAIN streams |-> metricsAfter(streams[s], now, perStream)],
             LAMBDA m :
                [streams |-> [s \in DOMAIN m |-> m[s].log],
                 begin |-> [s \in DOMAIN m |-> m[s].begin],
                 report |-> [time |-> now % NtpModulus,
                             blocks |-> [s \in DOMAIN m |-> m[s].block]]])
=============================================================================
