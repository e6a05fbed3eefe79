------------------------------- MODULE Pacers -------------------------------
(***************************************************************************)
(* The two pacers: the pacing interceptor (pkg/pacing/interceptor.go and   *)
(* rate_limit_pacer.go), a token bucket behind a channel, and the leaky    *)
(* bucket of pkg/gcc/leaky_bucket_pacer.go.  Each has a goroutine that     *)
(* sends what the writers of the bound streams leave with it.              *)
(*                                                                         *)
(* Time is counted in pacing intervals and a rate is the bits it allows in *)
(* one.  A packet is its size in bits.  The limiter                        *)
(* (golang.org/x/time/rate) is external: tokens up to the burst, which     *)
(* come with time, and AllowN, which takes what is there or nothing.  Left *)
(* out: the contents of packets, and payloads above the 1460 bytes of the  *)
(* leaky bucket's buffers, which Write cuts and the loop cannot send.      *)
(***************************************************************************)
EXTENDS Integers, Sequences, FiniteSets

CONSTANTS
    Pacers,         \* "pacing", "leaky"
    Sizes,          \* sizes of packets
    Rates,          \* rates the pacer may be set to
    InitialRate,
    BurstFactor,    \* 8
    QueueSize,      \* of the channel
    MaxPackets,     \* bound: packets written
    MaxRates,       \* bound: changes of the rate
    MaxIdle         \* bound: intervals without a packet that count

VARIABLES
    pacer,
    channel,        \* pacing: the channel of the interceptor
    queue,          \* the packets the loop has yet to send
    rate,
    budget,         \* pacing: the limiter's tokens; leaky: what is left of a tick
    idle,           \* leaky: intervals since lastSent
    loop,           \* where the goroutine is
    pacerClosed, returned,
    accepted,       \* history: the packets taken from the writers
    sent,           \* history: the number of packets given to the writer below, or dropped
    unpaid,         \* history: packets sent without tokens
    changes         \* history: changes of the rate

pacerVars == <<pacer, channel, queue, rate, budget, idle, loop, pacerClosed, returned,
               accepted, sent, unpaid, changes>>

Least(a, b) == IF a < b THEN a ELSE b

\* Fault: the burst is what one interval allows.
burstOfOne(r) == r

burst(r) == BurstFactor * r

PacersInit ==
    /\ pacer \in Pacers
    /\ channel = <<>> /\ queue = <<>>
    /\ rate = InitialRate
    /\ budget = IF pacer = "pacing" THEN burst(InitialRate) ELSE 0
    /\ idle = 0
    /\ loop = "select"
    /\ pacerClosed = FALSE /\ returned = FALSE
    /\ accepted = <<>> /\ sent = 0
    /\ unpaid = 0 /\ changes = 0
-----------------------------------------------------------------------------
\* The writers.

\* pacing: a select with a default.  A packet is taken when there is room, also
\* after Close; otherwise it is refused, as it may be once closed.
WriteQueued(size) ==
    /\ pacer = "pacing"
    /\ Len(channel) < QueueSize
    /\ Len(accepted) < MaxPackets
    /\ channel' = Append(channel, size)
    /\ accepted' = Append(accepted, size)
    /\ UNCHANGED <<pacer, queue, rate, budget, idle, loop, pacerClosed, returned, sent, unpaid,
                   changes>>

\* leaky: the queue has no limit.
WriteListed(size) ==
    /\ pacer = "leaky"
    /\ Len(accepted) < MaxPackets
    /\ queue' = Append(queue, size)
    /\ accepted' = Append(accepted, size)
    /\ UNCHANGED <<pacer, channel, rate, budget, idle, loop, pacerClosed, returned, sent,
                   unpaid, changes>>

\* SetRate, SetTargetBitrate.  Tokens beyond a smaller burst are gone.
SetRate(r) ==
    /\ changes < MaxRates
    /\ r # rate
    /\ rate' = r
    /\ budget' = IF pacer = "pacing" THEN Least(budget, burst(r)) ELSE budget
    /\ changes' = changes + 1
    /\ UNCHANGED <<pacer, channel, queue, idle, loop, pacerClosed, returned, accepted, sent,
                   unpaid>>

ClosePacer ==
    /\ ~pacerClosed
    /\ pacerClosed' = TRUE
    /\ UNCHANGED <<pacer, channel, queue, rate, budget, idle, loop, returned, accepted,
                   sent, unpaid, changes>>

\* Fault: the loop is not waited for.
ClosePacerReturnEarly ==
    /\ pacerClosed /\ ~returned
    /\ returned' = TRUE
    /\ UNCHANGED <<pacer, channel, queue, rate, budget, idle, loop, pacerClosed, accepted,
                   sent, unpaid, changes>>

\* pacing waits for the loop; leaky does not.
ClosePacerReturn ==
    /\ pacerClosed /\ ~returned
    /\ pacer = "pacing" => loop = "done"
    /\ returned' = TRUE
    /\ UNCHANGED <<pacer, channel, queue, rate, budget, idle, loop, pacerClosed, accepted,
                   sent, unpaid, changes>>
-----------------------------------------------------------------------------
\* The loop.

StopPacer ==
    /\ loop = "select" /\ pacerClosed
    /\ loop' = "done"
    /\ UNCHANGED <<pacer, channel, queue, rate, budget, idle, pacerClosed, returned, accepted,
                   sent, unpaid, changes>>

\* Fault: the packet goes before those that wait.
ReceiveAhead ==
    /\ pacer = "pacing"
    /\ loop = "select" /\ channel # <<>>
    /\ queue' = <<Head(channel)>> \o queue
    /\ channel' = Tail(channel)
    /\ UNCHANGED <<pacer, rate, budget, idle, loop, pacerClosed, returned, accepted, sent,
                   unpaid, changes>>

\* pacing: a packet is taken off the channel.
Receive ==
    /\ pacer = "pacing"
    /\ loop = "select" /\ channel # <<>>
    /\ queue' = Append(queue, Head(channel))
    /\ channel' = Tail(channel)
    /\ UNCHANGED <<pacer, rate, budget, idle, loop, pacerClosed, returned, accepted, sent,
                   unpaid, changes>>

\* An interval has passed.
TickTokens ==
    /\ pacer = "pacing"
    /\ loop = "select"
    /\ loop' = "sending"
    /\ budget' = Least(budget + rate, burst(rate))
    /\ UNCHANGED <<pacer, channel, queue, rate, idle, pacerClosed, returned, accepted, sent,
                   unpaid, changes>>

TickBudget ==
    /\ pacer = "leaky"
    /\ loop = "select"
    /\ loop' = "sending"
    /\ idle' = Least(idle + 1, MaxIdle)
    /\ budget' = (idle + 1) * rate
    /\ UNCHANGED <<pacer, channel, queue, rate, pacerClosed, returned, accepted, sent, unpaid,
                   changes>>

\* Fault: the tokens are not compared with the size of the packet.
EnoughForAny == queue # <<>> /\ budget > 0

\* pacing: i.limit.Budget(now) > 8*float64(queue[0].len())
Enough == queue # <<>> /\ budget > Head(queue)

\* pacing: the budget is read, and the packet taken, in two steps that a change of
\* the rate may come between.
CheckBudget ==
    /\ pacer = "pacing"
    /\ loop = "sending" /\ Enough
    /\ loop' = "checked"
    /\ UNCHANGED <<pacer, channel, queue, rate, budget, idle, pacerClosed, returned, accepted,
                   sent, unpaid, changes>>

\* The packet is sent whether or not AllowN takes the tokens.
SendPaced ==
    /\ loop = "checked"
    /\ LET pays == Head(queue) <= budget /\ Head(queue) <= burst(rate) IN
          /\ budget' = IF pays THEN budget - Head(queue) ELSE budget
          /\ unpaid' = IF pays THEN unpaid ELSE unpaid + 1
    /\ queue' = Tail(queue)
    /\ sent' = sent + 1
    /\ loop' = "sending"
    /\ UNCHANGED <<pacer, channel, rate, idle, pacerClosed, returned, accepted, changes>>

\* leaky: while there is any budget.  Without a writer for its SSRC the packet is
\* dropped; when the writer fails, nothing is taken off the budget.
SendLeaky ==
    /\ pacer = "leaky"
    /\ loop = "sending"
    /\ queue # <<>> /\ budget > 0
    /\ \/ budget' = budget - Head(queue) /\ idle' = 0
       \/ budget' = budget /\ idle' = 0
       \/ budget' = budget /\ idle' = idle
    /\ queue' = Tail(queue)
    /\ sent' = sent + 1
    /\ UNCHANGED <<pacer, channel, rate, loop, pacerClosed, returned, accepted, unpaid, changes>>

\* The tick is over.
TickEnds ==
    /\ loop = "sending"
    /\ ~(IF pacer = "pacing" THEN Enough ELSE queue # <<>> /\ budget > 0)
    /\ loop' = "select"
    /\ budget' = IF pacer = "pacing" THEN budget ELSE 0
    /\ UNCHANGED <<pacer, channel, queue, rate, idle, pacerClosed, returned, accepted, sent,
                   unpaid, changes>>

TickPacer == TickTokens \/ TickBudget
Sending == CheckBudget \/ SendPaced \/ SendLeaky \/ TickEnds

PacersNext ==
    \/ \E size \in Sizes : WriteQueued(size) \/ WriteListed(size)
    \/ \E r \in Rates : SetRate(r)
    \/ ClosePacer \/ ClosePacerReturn
    \/ StopPacer \/ Receive \/ TickPacer \/ Sending

\* The ticker fires again and again, a select passes over nothing that is ready
\* again and again, and the downstream writer returns.
PacersFairness ==
    /\ SF_pacerVars(StopPacer) /\ SF_pacerVars(Receive) /\ SF_pacerVars(TickPacer)
    /\ WF_pacerVars(Sending) /\ WF_pacerVars(ClosePacerReturn)

PacersSpec == PacersInit /\ [][PacersNext]_pacerVars /\ PacersFairness
-----------------------------------------------------------------------------
\* A pacer neither loses nor reorders: the packets it has accepted and not sent
\* are those it holds, in the order of the writers' calls, through the channel,
\* the queue and any number of ticks (BindLocalStream, Write, loop, Run).
PacketsKept == SubSeq(accepted, sent + 1, Len(accepted)) = queue \o channel

\* The pacing rate is kept: a packet is sent without tokens only when the rate was
\* changed between the look at the budget and AllowN, whose answer the loop
\* ignores, at most once for each change; the budget is never overdrawn.
RateKept == pacer = "pacing" => unpaid <= changes /\ budget >= 0

\* Once the Close of the pacing interceptor has returned nothing is sent, though
\* writers may still leave packets with it and the rate may still be changed
\* (Close, loop).
PacingQuietAfterClose ==
    [][pacer = "pacing" /\ returned => UNCHANGED <<sent, queue, unpaid>>]_pacerVars

\* Close returns.
PacerCloseReturns == pacerClosed ~> returned

\* What is accepted leaves: when every packet is smaller than the burst of every
\* rate, the pacer gets empty again, unless it is closed, whatever the rate is
\* changed to.
AcceptedLeave == (sent < Len(accepted)) ~> (sent = Len(accepted) \/ pacerClosed)
=============================================================================
