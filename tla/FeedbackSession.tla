-------------------------- MODULE FeedbackSession --------------------------
(***************************************************************************)
(* Congestion control feedback from end to end, in either format: TWCC or  *)
(* RFC 8888.  Writers of local streams number their packets                *)
(* (HeaderExtensionInterceptor) and send them; the sender's FeedbackAdapter*)
(* remembers them; a network loses, repeats and reorders them; readers of  *)
(* remote streams stamp them and pass them to the goroutine that records   *)
(* them (the SenderInterceptor of pkg/twcc or pkg/rfc8888), which sends    *)
(* feedback when its ticker fires; and the adapter turns feedback into     *)
(* acknowledgments.  Packets are named by the number nextSequenceNr gave   *)
(* them before it was cut to 16 bits; with RFC 8888 the same numbers are   *)
(* the RTP sequence numbers of the streams in Ssrc.                        *)
(***************************************************************************)
EXTENDS TwccRecorder

CONSTANTS
    HistorySize, AtoScale, AtoModulus, AtoTooOld, AtoFuture, NtpModulus,
    MaxReportSize, HeaderSize, BlockSize,
    Settings,       \* what to check: records of a format, the first packet, and
                    \* the bounds of the setting
    Ssrc,           \* Ssrc[n]: the stream of packet n
    Steps,          \* what may pass between two arrivals
    MaxTime,        \* bound: time
    MaxFeedback     \* bound: feedback on its way when more is built

FA == INSTANCE FeedbackAdapter WITH SeqModulus <- Modulus, TwccRefScale <- RefScale

RR == INSTANCE Rfc8888Recorder

VARIABLES
    setting,        \* the setting that is checked
    nextSequenceNr, \* of the header extension interceptor
    numbered,       \* numbered[w]: the packet a writer has numbered and not sent
    history,        \* of the feedback adapter
    network,        \* packets on their way
    repeats,        \* packets repeated so far
    now,            \* microseconds since startTime
    stamped,        \* packets with their times, on their way to the recorder
    recorder,       \* of TWCC, or the streams of the one of RFC 8888
    arrivals,       \* arrivals[n]: the times at which packet n was stamped
    placed,         \* placed[n]: the number packet n was last recorded under
    floor,          \* floor[s]: where the reports of RFC 8888 on stream s begin
    reported,       \* packets some feedback reported as received
    feedback        \* feedback packets on their way

vars == <<setting, nextSequenceNr, numbered, history, network, repeats, now,
          stamped, recorder, arrivals, placed, floor, reported, feedback>>

format == setting.format            \* "twcc" or "rfc8888"
Writers == setting.writers          \* goroutines that write to local streams
Readers == setting.readers          \* number of goroutines that read remote streams
MaxReorder == setting.maxReorder    \* bound: no packet is recorded this far ahead
                                    \* of an older one
MaxLost == setting.maxLost          \* bound: packets the network loses
MaxRepeats == setting.maxRepeats    \* bound: packets the network repeats

Packets == setting.first..setting.last   \* bound: packets sent

Init ==
    /\ setting \in Settings
    /\ nextSequenceNr = setting.first
    /\ numbered = [w \in Writers |-> None]
    /\ history = <<>>
    /\ network = {}
    /\ repeats = 0
    /\ now = 0
    /\ stamped = {}
    /\ recorder = IF format = "twcc" THEN NewRecorder ELSE <<>>
    /\ arrivals = [n \in Packets |-> {}]
    /\ placed = [n \in Packets |-> None]
    /\ floor = <<>>
    /\ reported = {}
    /\ feedback = <<>>
-----------------------------------------------------------------------------
\* The writer bound by HeaderExtensionInterceptor takes a number ...
Number(w) ==
    /\ numbered[w] = None
    /\ nextSequenceNr \in Packets
    /\ numbered' = [numbered EXCEPT ![w] = nextSequenceNr]
    /\ nextSequenceNr' = nextSequenceNr + 1
    /\ UNCHANGED <<setting, history, network, repeats, now, stamped, recorder,
                   arrivals, placed, floor, reported, feedback>>

\* ... and calls the next writer, which records the packet and sends it.
Send(w) ==
    /\ numbered[w] # None
    /\ LET n == numbered[w]
       IN  history' = IF format = "twcc"
                      THEN FA!OnSentTWCC(history, n % Modulus, n)
                      ELSE FA!OnSentRFC8888(history, Ssrc[n], n % Modulus, n)
    /\ network' = network \cup {numbered[w]}
    /\ numbered' = [numbered EXCEPT ![w] = None]
    /\ UNCHANGED <<setting, nextSequenceNr, repeats, now, stamped, recorder,
                   arrivals, placed, floor, reported, feedback>>

Sending == {numbered[w] : w \in Writers} \ {None}

\* The network (external) delivers or loses n unless older packets that are not
\* recorded yet are too far behind it.
InReach(n) ==
    \A p \in network \cup Sending \cup {q.number : q \in stamped} : p > n - MaxReorder

\* A reader stamps the packet with the time and waits for the goroutine.
Arrive(n, step) ==
    /\ n \in network
    /\ InReach(n)
    /\ Cardinality(stamped) < Readers
    /\ now + step <= MaxTime
    /\ now' = now + step
    /\ stamped' = stamped \cup {[number |-> n, time |-> now']}
    /\ arrivals' = [arrivals EXCEPT ![n] = @ \cup {now'}]
    /\ \/ network' = network \ {n} /\ UNCHANGED repeats
       \/ repeats < MaxRepeats /\ repeats' = repeats + 1 /\ UNCHANGED network
    /\ UNCHANGED <<setting, nextSequenceNr, numbered, history, recorder, placed,
                   floor, reported, feedback>>

Lost == {n \in setting.first..nextSequenceNr - 1 :
            n \notin network \cup Sending /\ arrivals[n] = {}}

Lose(n) ==
    /\ n \in network
    /\ InReach(n)
    /\ arrivals[n] = {} => Cardinality(Lost) < MaxLost
    /\ network' = network \ {n}
    /\ UNCHANGED <<setting, nextSequenceNr, numbered, history, repeats, now, stamped,
                   recorder, arrivals, placed, floor, reported, feedback>>

\* loop: a packet from the channel ...
RecordPacket(p) ==
    /\ p \in stamped
    /\ stamped' = stamped \ {p}
    /\ recorder' = IF format = "twcc"
                   THEN Record(recorder, p.number % Modulus, p.time)
                   ELSE RR!AddToStream(recorder, p.time, Ssrc[p.number], p.number % Modulus)
    /\ LET s == Ssrc[p.number]
           number == IF format = "twcc" THEN recorder'.unwrapper.last
                     ELSE recorder'[s].sequence.last
       IN  /\ placed' = [placed EXCEPT ![p.number] = number]
           /\ floor' = IF format = "rfc8888" THEN floor @@ (s :> number) ELSE floor
    /\ UNCHANGED <<setting, nextSequenceNr, numbered, history, network, repeats, now,
                   arrivals, reported, feedback>>

\* The packets a feedback reports as received: the wrapped numbers of its
\* symbols, in the range of numbers that fits the recorder.
Symbols(fb) ==
    FlattenSeq([i \in DOMAIN fb.chunks |->
        IF fb.chunks[i].type = "run"
        THEN [j \in 1..fb.chunks[i].length |-> fb.chunks[i].symbol]
        ELSE fb.chunks[i].symbols])

Received(fb) ==
    LET symbols == Symbols(fb)
    IN  {n \in Packets : \E i \in 1..fb.count :
            symbols[i] # "none" /\ n % Modulus = (fb.base + i - 1) % Modulus}

\* On the wire a status vector has all its symbols; those that are not used
\* say "not received" (external: RTCP encoding).
Padded(fb) ==
    [fb EXCEPT !.chunks = [i \in DOMAIN @ |->
        IF @[i].type = "run" THEN @[i]
        ELSE [@[i] EXCEPT !.symbols =
                 @ \o [j \in 1..(IF fb.chunks[i].bits = 1 THEN OneBitCap ELSE TwoBitCap)
                                - Len(@) |-> "none"]]]]

\* The unwrapper does not go below zero: a late packet with a number from before
\* the first wrap is placed a cycle ahead, and so is what follows.  The packets
\* recorded before it are left behind.
LeftBehind ==
    {n \in Packets : placed[n] # None /\ \E m \in Packets :
        m < n /\ placed[m] # None /\ placed[m] > placed[n]}

\* Packets that had not been recorded, or had been reported before.
Missing ==
    {n \in Packets : arrivals[n] = {}} \cup reported \cup {p.number : p \in stamped}

\* What is known when a feedback packet is built.
Sent(packet) ==
    [packet |-> packet, at |-> now, missing |-> Missing, leftBehind |-> LeftBehind]

\* ... or a tick, at which all feedback there is goes out.
TickTWCC ==
    /\ format = "twcc"
    /\ Len(feedback) < MaxFeedback
    /\ \E b \in {BuildFeedbackPacket(recorder)} :
        /\ b.packets # <<>>
        /\ recorder' = b.rec
        /\ feedback' = feedback \o [i \in DOMAIN b.packets |-> Sent(Padded(b.packets[i]))]
        /\ reported' = reported \cup UNION {Received(b.packets[i]) : i \in DOMAIN b.packets}
    /\ UNCHANGED <<setting, nextSequenceNr, numbered, history, network, repeats, now,
                   stamped, arrivals, placed, floor>>

\* The ticker of the RFC 8888 goroutine starts with the first packet.  A report
\* that has no room for the packets to report begins later than it should.
TickRFC8888 ==
    /\ format = "rfc8888"
    /\ recorder # <<>>
    /\ Len(feedback) < MaxFeedback
    /\ \E b \in {RR!BuildReport(recorder, now)} :
        /\ recorder' = b.streams
        /\ feedback' = Append(feedback, Sent(b.report))
        /\ reported' = reported \cup
               {n \in Packets : Ssrc[n] \in DOMAIN recorder
                                /\ placed[n] \in DOMAIN recorder[Ssrc[n]].log
                                /\ placed[n] \in b.begin[Ssrc[n]]..recorder[Ssrc[n]].last}
        /\ floor' = [s \in DOMAIN floor |->
                        IF b.begin[s] > recorder[s].next THEN b.begin[s] ELSE floor[s]]
    /\ UNCHANGED <<setting, nextSequenceNr, numbered, history, network, repeats, now,
                   stamped, arrivals, placed>>

\* Feedback reaches the sender or is lost.  Translating it only reads the
\* history: the properties say what the translation would be at any time.
DropFeedback ==
    /\ feedback # <<>>
    /\ feedback' = Tail(feedback)
    /\ UNCHANGED <<setting, nextSequenceNr, numbered, history, network, repeats, now,
                   stamped, recorder, arrivals, placed, floor, reported>>

Next ==
    \/ \E w \in Writers : Number(w) \/ Send(w)
    \/ \E n \in Packets, step \in Steps : Arrive(n, step)
    \/ \E n \in Packets : Lose(n)
    \/ \E p \in stamped : RecordPacket(p)
    \/ TickTWCC
    \/ TickRFC8888
    \/ DropFeedback

Spec == Init /\ [][Next]_vars
-----------------------------------------------------------------------------
\* The acknowledgments of a feedback for the packets it is about.  TWCC uses up
\* a difference only for a packet the history still has, so they are of use only
\* while it has every packet reported as received.
Acks(fb) ==
    IF format = "rfc8888"
    THEN FA!OnRFC8888Feedback(history, fb)
    ELSE IF \E n \in Received(fb) : \A i \in DOMAIN history : history[i].departure # n
    THEN {}
    ELSE With(FA!OnTransportCCFeedback(history, fb), LAMBDA acks :
             {acks[i] : i \in 1..fb.count} \ {None})

\* An arrival as precise as the format allows: half a unit of the differences of
\* TWCC; a unit of the offsets of RFC 8888, modulo the range of 32 bit NTP time, or
\* the offset that says the packet is too old, when it is.
Precise(arrival, time, fb) ==
    LET age == fb.at - time IN
    IF format = "twcc"
    THEN 2 * arrival \in 2 * time - DeltaScale .. 2 * time + DeltaScale
    ELSE IF age < AtoTooOld * AtoScale
    THEN (arrival - time) % NtpModulus < AtoScale
    ELSE arrival = fb.packet.time - AtoTooOld * AtoScale

\* The offset of a packet reported more than 64 s after it arrived is cut to 16
\* bits before it is compared with the largest one: it looks like a new arrival.
Outlived(time, fb) == format = "rfc8888" /\ fb.at - time >= AtoModulus * AtoScale

\* Acknowledged arrivals are right: each acknowledgment with an arrival is for a
\* packet that arrived then, however packets were reordered or repeated, numbers
\* wrapped, buffers resized, feedback split, symbols packed and times rounded
\* (AddPacket, addReceived, encode, unpackStatusVectorChunk; add, metricsAfter),
\* except for a packet that outlived the offsets of RFC 8888.
ArrivalsRight ==
    \A k \in DOMAIN feedback : \A a \in Acks(feedback[k].packet) :
        a.arrival # None =>
            \E t \in arrivals[a.departure] :
                Precise(a.arrival, t, feedback[k]) \/ Outlived(t, feedback[k])

\* Reported losses are right: a packet acknowledged without an arrival had not
\* been recorded when the feedback was built, or had been reported before, unless
\* a number below zero left it behind (Unwrap).
LossesRight ==
    \A k \in DOMAIN feedback : \A a \in Acks(feedback[k].packet) :
        a.arrival = None => a.departure \in feedback[k].missing \cup feedback[k].leftBehind

\* Nothing is skipped: a packet that was recorded and not reported is held, at or
\* after the number the next feedback starts from, so that the next feedback
\* reports it, however the start was moved by late packets, by feedback that was
\* split, and by packets dropped from the map (startSequenceNumber,
\* nextSequenceNumberToReport).  The only ones given up are, with TWCC, those
\* MaxPackets behind the newest; with RFC 8888, those before the first of their
\* stream and those for which a report had no room.
NothingSkipped ==
    \A n \in Packets : placed[n] # None /\ n \notin reported =>
        IF format = "twcc"
        THEN \/ HasReceived(recorder.map, placed[n]) /\ placed[n] >= recorder.start
             \/ placed[n] <= recorder.map.end - 1 - MaxPackets
        ELSE LET l == recorder[Ssrc[n]] IN
             \/ placed[n] \in DOMAIN l.log /\ placed[n] >= l.next
             \/ placed[n] < floor[Ssrc[n]]
=============================================================================
