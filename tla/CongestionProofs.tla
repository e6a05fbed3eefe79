-------------------------- MODULE CongestionProofs --------------------------
(***************************************************************************)
(* Proofs about Pacers, for every choice of sizes, rates and bounds: the   *)
(* pacers keep the packets they accept, in order, and the pacing           *)
(* interceptor sends no more packets without tokens than the rate has      *)
(* changed.  And about BandwidthEstimator, for every number of readers and *)
(* every choice of rates and limits: acknowledgments are sent on open      *)
(* pipes, and the target bit rate stays within its limits.  Neither does   *)
(* anything more once its Close has returned.                              *)
(***************************************************************************)
EXTENDS Pacers, BandwidthEstimator, SequenceTheorems, TLAPS

-----------------------------------------------------------------------------
\* The pacers.

\* What the code guarantees of the options and of packets.
PacerConstants ==
    /\ Pacers \subseteq {"pacing", "leaky"}
    /\ Sizes \subseteq Nat /\ Rates \subseteq Nat
    /\ InitialRate \in Nat /\ BurstFactor \in Nat
    /\ MaxIdle \in Nat

\* Queues of packets; the leaky bucket has no channel; what was checked is there.
QueuesOK ==
    /\ pacer \in {"pacing", "leaky"}
    /\ channel \in Seq(Sizes) /\ queue \in Seq(Sizes) /\ accepted \in Seq(Sizes)
    /\ sent \in Nat
    /\ sent <= Len(accepted)
    /\ pacer = "leaky" => channel = <<>>
    /\ loop = "checked" => queue # <<>>

-----------------------------------------------------------------------------
\* Appending to a sequence appends to each of its ends.
LEMMA EndOfAppend ==
    ASSUME NEW S, NEW s \in Seq(S), NEW x \in S, NEW n \in Nat, n <= Len(s)
    PROVE  SubSeq(Append(s, x), n + 1, Len(Append(s, x)))
              = Append(SubSeq(s, n + 1, Len(s)), x)
  <1> DEFINE a == Append(s, x)
             l == SubSeq(a, n + 1, Len(a))
             r == Append(SubSeq(s, n + 1, Len(s)), x)
  <1>1. a \in Seq(S) /\ Len(a) = Len(s) + 1
    OBVIOUS
  <1>2. /\ l \in Seq(S) /\ Len(l) = Len(s) + 1 - n
        /\ \A i \in 1..Len(l) : l[i] = a[n + i]
    BY <1>1
  <1>3. /\ r \in Seq(S) /\ Len(r) = Len(s) - n + 1
        /\ \A i \in 1..Len(r) : r[i] = IF i <= Len(s) - n THEN s[n + i] ELSE x
    OBVIOUS
  <1>4. \A i \in 1..Len(l) : a[n + i] = IF i <= Len(s) - n THEN s[n + i] ELSE x
    BY <1>1, <1>2
  <1>5. l = r
    <2> HIDE DEF a, l, r
    <2>1. Len(l) = Len(r)  BY <1>2, <1>3
    <2>2. \A i \in 1..Len(l) : l[i] = r[i]  BY <2>1, <1>2, <1>3, <1>4
    <2>3. l \in Seq(S) /\ r \in Seq(S)  BY <1>2, <1>3
    <2> QED  BY <2>1, <2>2, <2>3, SeqEqual, Zenon
  <1> QED  BY <1>5

\* Taking one element more leaves the tail of the end.
LEMMA EndOfNext ==
    ASSUME NEW S, NEW s \in Seq(S), NEW n \in Nat, n < Len(s)
    PROVE  SubSeq(s, n + 2, Len(s)) = Tail(SubSeq(s, n + 1, Len(s)))
  BY SMTT(30)

\* Appending to the second of two sequences appends to the two put together.
LEMMA AppendBehind ==
    ASSUME NEW S, NEW s \in Seq(S), NEW t \in Seq(S), NEW x \in S
    PROVE  s \o Append(t, x) = Append(s \o t, x)
  BY SMTT(30)

\* Moving the head of the second sequence behind the first changes nothing of both.
LEMMA HeadMoves ==
    ASSUME NEW S, NEW s \in Seq(S), NEW t \in Seq(S), t # <<>>
    PROVE  Append(s, Head(t)) \o Tail(t) = s \o t
  BY SMTT(30)

\* The tail of two sequences put together is that of the first, then the second.
LEMMA TailOfBoth ==
    ASSUME NEW S, NEW s \in Seq(S), NEW t \in Seq(S), s # <<>>
    PROVE  Tail(s \o t) = Tail(s) \o t
  BY SMTT(30)
-----------------------------------------------------------------------------
\* What a pacer has accepted and not sent is what it holds: the invariant that is
\* inductive, PacketsKept with the types of the queues.
PacketsInv == QueuesOK /\ PacketsKept

\* Nothing is queued at first.
LEMMA PacketsInit ==
    ASSUME PacerConstants, PacersInit
    PROVE  PacketsInv
  BY DEF PacerConstants, PacersInit, PacketsInv, QueuesOK, PacketsKept

\* Each step keeps it: a write appends to both sides, a packet that moves from the
\* channel to the queue changes neither, and one that is sent is the first of both.
LEMMA PacketsNext ==
    ASSUME PacerConstants, PacketsInv, [PacersNext]_pacerVars
    PROVE  PacketsInv'
  <1> DEFINE waiting == SubSeq(accepted, sent + 1, Len(accepted))
  <1>a. QueuesOK /\ waiting = queue \o channel
    BY DEF PacketsInv, PacketsKept
  <1>b. Sizes \subseteq Nat
    BY DEF PacerConstants
  <1>1. ASSUME NEW size \in Sizes, WriteQueued(size)
        PROVE  PacketsInv'
    <2>1. QueuesOK'
      BY <1>1, <1>a DEF WriteQueued, QueuesOK
    <2>2. SubSeq(accepted', sent + 1, Len(accepted')) = Append(waiting, size)
      BY <1>1, <1>a, EndOfAppend DEF WriteQueued, QueuesOK
    <2>3. queue \o Append(channel, size) = Append(queue \o channel, size)
      BY <1>1, <1>a, AppendBehind DEF QueuesOK
    <2>4. sent' = sent /\ queue' = queue /\ channel' = Append(channel, size)
      BY <1>1 DEF WriteQueued
    <2> QED  BY <1>a, <2>1, <2>2, <2>3, <2>4, Zenon DEF PacketsInv, PacketsKept
  <1>2. ASSUME NEW size \in Sizes, WriteListed(size)
        PROVE  PacketsInv'
    <2>1. QueuesOK'
      BY <1>2, <1>a DEF WriteListed, QueuesOK
    <2>2. SubSeq(accepted', sent + 1, Len(accepted')) = Append(waiting, size)
      BY <1>2, <1>a, EndOfAppend DEF WriteListed, QueuesOK
    <2>3. queue \o channel = queue /\ queue' \o channel = queue'
      BY <1>2, <1>a DEF WriteListed, QueuesOK
    <2>4. sent' = sent /\ channel' = channel /\ queue' = Append(queue, size)
      BY <1>2 DEF WriteListed
    <2> QED  BY <1>a, <2>1, <2>2, <2>3, <2>4, Zenon DEF PacketsInv, PacketsKept
  <1>3. CASE Receive
    <2>1. QueuesOK'
      BY <1>3, <1>a DEF Receive, QueuesOK
    <2>2. queue' \o channel' = queue \o channel
      BY <1>3, <1>a, HeadMoves DEF Receive, QueuesOK
    <2>3. sent' = sent /\ accepted' = accepted
      BY <1>3 DEF Receive
    <2> QED  BY <1>a, <2>1, <2>2, <2>3, Zenon DEF PacketsInv, PacketsKept
  <1>4. ASSUME queue # <<>>, queue' = Tail(queue), sent' = sent + 1,
               loop' # "checked", UNCHANGED <<pacer, channel, accepted>>
        PROVE  PacketsInv'
    <2>1. sent < Len(accepted)
      <3>1. Len(waiting) = Len(accepted) - sent
        BY <1>a DEF QueuesOK
      <3>2. Len(queue \o channel) = Len(queue) + Len(channel) /\ Len(queue) > 0
        BY <1>a, <1>4 DEF QueuesOK
      <3> QED  BY <1>a, <3>1, <3>2 DEF QueuesOK
    <2>2. QueuesOK'
      BY <1>4, <1>a, <2>1 DEF QueuesOK
    <2>3. SubSeq(accepted, sent + 2, Len(accepted)) = Tail(waiting)
      BY <1>a, <2>1, EndOfNext DEF QueuesOK
    <2>4. Tail(queue \o channel) = Tail(queue) \o channel
      BY <1>4, <1>a, TailOfBoth DEF QueuesOK
    <2>5. sent' + 1 = sent + 2
      BY <1>4, <1>a DEF QueuesOK
    <2> QED  BY <1>4, <1>a, <2>2, <2>3, <2>4, <2>5, Zenon DEF PacketsInv, PacketsKept
  <1>5. CASE SendLeaky
    BY <1>4, <1>5 DEF SendLeaky
  <1>6. CASE SendPaced
    BY <1>4, <1>6, <1>a DEF SendPaced, QueuesOK
  <1>7. ASSUME UNCHANGED <<pacer, channel, queue, accepted, sent>>,
               loop' = "checked" => queue # <<>>
        PROVE  PacketsInv'
    BY <1>7, <1>a DEF PacketsInv, QueuesOK, PacketsKept
  <1>8. CASE CheckBudget
    BY <1>7, <1>8 DEF CheckBudget, Enough
  <1>9. ASSUME NEW r \in Rates, SetRate(r)
        PROVE  PacketsInv'
    BY <1>7, <1>9, <1>a DEF SetRate, QueuesOK
  <1>10. CASE ClosePacer \/ ClosePacerReturn \/ StopPacer \/ TickPacer \/ TickEnds
    BY <1>7, <1>10, <1>a DEF ClosePacer, ClosePacerReturn, StopPacer, TickPacer,
                             TickTokens, TickBudget, TickEnds, QueuesOK
  <1>11. CASE UNCHANGED pacerVars
    BY <1>7, <1>11, <1>a DEF pacerVars, QueuesOK
  <1> QED
    BY <1>1, <1>2, <1>3, <1>5, <1>6, <1>8, <1>9, <1>10, <1>11 DEF PacersNext, Sending

\* For every size, rate and bound, a pacer neither loses nor reorders the packets
\* it has accepted.
THEOREM PacketsKeptHolds ==
    ASSUME PacerConstants
    PROVE  PacersSpec => []PacketsKept
  <1>1. PacersInit => PacketsInv
    BY PacketsInit
  <1>2. PacketsInv /\ [PacersNext]_pacerVars => PacketsInv'
    BY PacketsNext
  <1>3. PacketsInv => PacketsKept
    BY DEF PacketsInv
  <1> QED
    BY <1>1, <1>2, <1>3, PTL DEF PacersSpec
-----------------------------------------------------------------------------
\* The bucket holds a number of bytes at any rate.
LEMMA BurstIsNat ==
    ASSUME PacerConstants, NEW r \in Nat
    PROVE  burst(r) \in Nat
  BY DEF PacerConstants, burst

\* Least is one of the two and not above either.
LEMMA LeastIsLeast ==
    ASSUME NEW a \in Nat, NEW b \in Nat
    PROVE  Least(a, b) \in Nat /\ Least(a, b) <= a /\ Least(a, b) <= b
  BY DEF Least

\* AllowN takes the tokens for the first packet.
Pays == Head(queue) <= budget /\ Head(queue) <= burst(rate)

\* Of the pacing interceptor: there are never more tokens than the burst; what was
\* sent without tokens, and the packet that was checked if its tokens are gone,
\* are no more than the changes of the rate.
RateInv ==
    /\ rate \in Nat /\ unpaid \in Nat /\ changes \in Nat
    /\ pacer = "pacing" => budget \in Nat /\ budget <= burst(rate)
    /\ pacer = "pacing" => unpaid <= changes
    /\ pacer = "pacing" /\ loop = "checked" /\ ~Pays => unpaid < changes

\* The bucket is full at first and nothing is paid for.
LEMMA RateInit ==
    ASSUME PacerConstants, PacersInit
    PROVE  RateInv
  BY BurstIsNat DEF PacerConstants, PacersInit, RateInv

\* Tokens are compared with the packet before they are taken; only a change of the
\* rate in between can take them away.
LEMMA RateNext ==
    ASSUME PacerConstants, PacketsInv, RateInv, [PacersNext]_pacerVars
    PROVE  RateInv'
  <1>a. queue # <<>> => Head(queue) \in Nat
    <2>1. queue \in Seq(Sizes) /\ Sizes \subseteq Nat
      BY DEF PacketsInv, QueuesOK, PacerConstants
    <2>2. queue # <<>> => Head(queue) \in Sizes
      BY <2>1
    <2> QED  BY <2>1, <2>2
  <1>b. burst(rate) \in Nat
    BY BurstIsNat DEF RateInv
  <1> USE DEF RateInv, Pays
  <1>1. CASE loop' # "checked" /\ UNCHANGED <<pacer, rate, budget, unpaid, changes>>
    BY <1>1
  <1>2. CASE UNCHANGED <<pacer, rate, budget, unpaid, changes, loop>>
             /\ (loop = "checked" => Head(queue') = Head(queue))
    BY <1>2
  <1>3. ASSUME NEW size \in Sizes, WriteQueued(size) \/ WriteListed(size)
        PROVE  RateInv'
    <2>1. CASE WriteQueued(size)
      BY <1>2, <2>1 DEF WriteQueued
    <2>2. CASE WriteListed(size)
      BY <2>2 DEF WriteListed
    <2> QED  BY <1>3, <2>1, <2>2
  <1>4. ASSUME NEW r \in Rates, SetRate(r)
        PROVE  RateInv'
    <2>1. r \in Nat /\ burst(r) \in Nat
      BY BurstIsNat DEF PacerConstants
    <2>2. pacer = "pacing" => budget' \in Nat /\ budget' <= burst(r)
      BY <1>4, <2>1, LeastIsLeast DEF SetRate
    <2> QED  BY <1>4, <2>1, <2>2 DEF SetRate
  <1>5. CASE Receive
    BY <1>1, <1>5 DEF Receive
  <1>6. CASE ClosePacer \/ ClosePacerReturn
    BY <1>2, <1>6 DEF ClosePacer, ClosePacerReturn
  <1>7. CASE StopPacer
    BY <1>1, <1>7 DEF StopPacer
  <1>8. CASE TickTokens
    <2>1. Least(budget + rate, burst(rate)) \in Nat
          /\ Least(budget + rate, burst(rate)) <= burst(rate)
      BY <1>8, <1>b, LeastIsLeast DEF TickTokens
    <2> QED  BY <1>8, <2>1 DEF TickTokens
  <1>9. CASE TickBudget
    BY <1>9 DEF TickBudget
  <1>10. CASE CheckBudget
    BY <1>10, <1>a, <1>b DEF CheckBudget, Enough
  <1>11. CASE SendPaced
    BY <1>11, <1>a, <1>b DEF SendPaced, PacketsInv, QueuesOK
  <1>12. CASE SendLeaky
    BY <1>12 DEF SendLeaky
  <1>13. CASE TickEnds
    BY <1>13, <1>b DEF TickEnds
  <1>14. CASE UNCHANGED pacerVars
    BY <1>2, <1>14 DEF pacerVars
  <1> QED
    BY <1>3, <1>4, <1>5, <1>6, <1>7, <1>8, <1>9, <1>10, <1>11, <1>12, <1>13, <1>14
       DEF PacersNext, TickPacer, Sending

\* For every size, rate and burst factor, the pacing interceptor sends no more
\* packets without tokens than the rate has been changed, and its budget is never
\* overdrawn.
THEOREM RateKeptHolds ==
    ASSUME PacerConstants
    PROVE  PacersSpec => []RateKept
  <1>1. PacersInit => PacketsInv /\ RateInv
    BY PacketsInit, RateInit
  <1>2. PacketsInv /\ RateInv /\ [PacersNext]_pacerVars => PacketsInv' /\ RateInv'
    BY PacketsNext, RateNext
  <1>3. RateInv => RateKept
    BY DEF RateInv, RateKept
  <1> QED
    BY <1>1, <1>2, <1>3, PTL DEF PacersSpec
-----------------------------------------------------------------------------
\* The Close of the pacing interceptor returns after its loop has ended.
LoopEnded == pacer = "pacing" /\ returned => loop = "done"

\* A loop that has ended does nothing more.
LEMMA LoopEndedNext ==
    ASSUME LoopEnded, [PacersNext]_pacerVars
    PROVE  LoopEnded'
  <1> USE DEF LoopEnded
  <1>1. ASSUME NEW size \in Sizes, WriteQueued(size) \/ WriteListed(size)
        PROVE  LoopEnded'
    BY <1>1 DEF WriteQueued, WriteListed
  <1>2. ASSUME NEW r \in Rates, SetRate(r)
        PROVE  LoopEnded'
    BY <1>2 DEF SetRate
  <1>3. CASE ClosePacer \/ ClosePacerReturn \/ StopPacer \/ Receive
    BY <1>3 DEF ClosePacer, ClosePacerReturn, StopPacer, Receive
  <1>4. CASE TickPacer \/ Sending
    BY <1>4 DEF TickPacer, TickTokens, TickBudget, Sending, CheckBudget, SendPaced, SendLeaky,
       TickEnds
  <1>5. CASE UNCHANGED pacerVars
    BY <1>5 DEF pacerVars
  <1> QED
    BY <1>1, <1>2, <1>3, <1>4, <1>5 DEF PacersNext

\* Of a pacing interceptor whose loop has ended only the writers, SetRate and Close
\* take steps.
LEMMA PacingQuietStep ==
    ASSUME LoopEnded, PacersNext, pacer = "pacing", returned
    PROVE  UNCHANGED <<sent, queue, unpaid>>
  <1>1. loop = "done"
    BY DEF LoopEnded
  <1>2. ASSUME NEW size \in Sizes, WriteQueued(size) \/ WriteListed(size)
        PROVE  UNCHANGED <<sent, queue, unpaid>>
    BY <1>2 DEF WriteQueued, WriteListed
  <1>3. ASSUME NEW r \in Rates, SetRate(r)
        PROVE  UNCHANGED <<sent, queue, unpaid>>
    BY <1>3 DEF SetRate
  <1>4. CASE ClosePacer \/ ClosePacerReturn
    BY <1>4 DEF ClosePacer, ClosePacerReturn
  <1>5. ~StopPacer /\ ~Receive /\ ~TickPacer /\ ~Sending
    BY <1>1 DEF StopPacer, Receive, TickPacer, TickTokens, TickBudget, Sending, CheckBudget,
       SendPaced, SendLeaky, TickEnds
  <1> QED
    BY <1>2, <1>3, <1>4, <1>5 DEF PacersNext

\* Whatever the writers do and whoever sets the rate, nothing is sent once the Close
\* of the pacing interceptor has returned.
THEOREM PacingQuietHolds == PacersSpec => PacingQuietAfterClose
  <1>1. PacersInit => LoopEnded
    BY DEF PacersInit, LoopEnded
  <1>2. LoopEnded /\ [PacersNext]_pacerVars => LoopEnded'
    BY LoopEndedNext
  <1>3. LoopEnded /\ [PacersNext]_pacerVars
          => [pacer = "pacing" /\ returned => UNCHANGED <<sent, queue, unpaid>>]_pacerVars
    BY PacingQuietStep
  <1> QED
    BY <1>1, <1>2, <1>3, PTL DEF PacersSpec, PacingQuietAfterClose

-----------------------------------------------------------------------------
\* The estimator.

\* What the options are expected to be: limits in order, and a first rate within
\* those of the delay based controller and above that of the loss based one.
BWEConstants ==
    /\ ReceivedRates \subseteq Nat
    /\ MinBitrate \in Nat /\ MaxBitrate \in Nat /\ InitialBitrate \in Nat
    /\ LossMin \in Nat /\ LossMax \in Nat
    /\ MinBitrate <= InitialBitrate /\ InitialBitrate <= MaxBitrate
    /\ LossMin <= LossMax

\* The pipes are open as long as the estimator is, and it is as long as a reader is
\* in WriteRTCP.
PipesInv ==
    /\ readers \in [Readers -> {"idle", "loss", "acks", "rate"}]
    /\ pipes = (estimator = "open")
    /\ \A r \in Readers : readers[r] # "idle" => pipes

\* The steps that move a reader on, with the estimator as it is.
LEMMA ReaderMoves ==
    ASSUME PipesInv, NEW r \in Readers, NEW where \in {"idle", "loss", "acks", "rate"},
           readers' = [readers EXCEPT ![r] = where],
           readers[r] # "idle" \/ estimator = "open",
           UNCHANGED <<pipes, estimator>>
    PROVE  PipesInv'
  BY DEF PipesInv

\* Readers hold the read lock from the check until they are done, and Close the
\* write lock.
LEMMA PipesNext ==
    ASSUME PipesInv, [BWENext]_bweVars
    PROVE  PipesInv'
  <1>1. ASSUME NEW r \in Readers, WriteRTCP(r)
        PROVE  PipesInv'
    BY <1>1, ReaderMoves DEF WriteRTCP
  <1>2. ASSUME NEW r \in Readers, updateLossEstimate(r)
        PROVE  PipesInv'
    BY <1>2, ReaderMoves DEF updateLossEstimate
  <1>3. ASSUME NEW r \in Readers, SendAcks(r)
        PROVE  PipesInv'
    BY <1>3, ReaderMoves DEF SendAcks
  <1>4. ASSUME NEW r \in Readers, SendAcksForRate(r)
        PROVE  PipesInv'
    BY <1>4, ReaderMoves DEF SendAcksForRate
  <1>5. CASE CloseEstimator
    BY <1>5 DEF CloseEstimator, PipesInv
  <1>6. CASE CloseEstimatorReturn
    BY <1>6 DEF CloseEstimatorReturn, PipesInv
  <1>7. CASE UNCHANGED <<readers, pipes, estimator>>
    BY <1>7 DEF PipesInv
  <1>8. ASSUME NEW threshold, onDelayStats(threshold)
        PROVE  UNCHANGED <<readers, pipes, estimator>>
    BY <1>8 DEF onDelayStats
  <1>9. CASE onReceivedRate \/ RatesDone \/ NoGroup \/ onDelayUpdate
             \/ StopAccumulator \/ StopCalculator \/ UNCHANGED bweVars
    BY <1>7, <1>9 DEF onReceivedRate, RatesDone, NoGroup, onDelayUpdate, StopAccumulator,
       StopCalculator, bweVars
  <1> QED
    BY <1>1, <1>2, <1>3, <1>4, <1>5, <1>6, <1>7, <1>8, <1>9 DEF BWENext

\* For any number of readers, no call of WriteRTCP has acknowledgments to send on
\* closed pipes.
THEOREM PipesOpenHolds == BWESpec => []PipesOpen
  <1>1. BWEInit => PipesInv
    BY DEF BWEInit, PipesInv
  <1>2. PipesInv /\ [BWENext]_bweVars => PipesInv'
    BY PipesNext
  <1>3. PipesInv => PipesOpen
    BY DEF PipesInv, PipesOpen
  <1> QED
    BY <1>1, <1>2, <1>3, PTL DEF BWESpec
-----------------------------------------------------------------------------
\* clampInt answers within its limits.
LEMMA ClampIsWithin ==
    ASSUME NEW x \in Int, NEW low \in Nat, NEW high \in Nat, low <= high
    PROVE  clampInt(x, low, high) \in Nat
           /\ low <= clampInt(x, low, high) /\ clampInt(x, low, high) <= high
  BY DEF clampInt

\* The delay based rate is within its limits and the loss based one not below the
\* lesser of the two minima; the target is one of them, and the pacer is not slower.
RatesInv ==
    /\ rates \in [init : BOOLEAN, target : Nat, received : Nat, decreased : BOOLEAN]
    /\ MinBitrate <= rates.target /\ rates.target <= MaxBitrate
    /\ lossBitrate \in Nat /\ Lesser(MinBitrate, LossMin) <= lossBitrate
    /\ latestBitrate \in Nat /\ pacerBitrate \in Nat
    /\ TargetBounded

\* The estimator starts at the initial rate.
LEMMA RatesInit ==
    ASSUME BWEConstants, BWEInit
    PROVE  RatesInv
  BY DEF BWEConstants, BWEInit, RatesInv, TargetBounded, Lesser

\* What the delay based controller aims at is clamped, whatever it is.
LEMMA DelayRate ==
    ASSUME BWEConstants, RatesInv, NEW threshold, onDelayStats(threshold)
    PROVE  RatesInv'
  <1> DEFINE R == [init : BOOLEAN, target : Nat, received : Nat, decreased : BOOLEAN]
  <1>a. MinBitrate \in Nat /\ MaxBitrate \in Nat /\ MinBitrate <= MaxBitrate
    BY DEF BWEConstants
  <1>b. rates \in R
    BY DEF RatesInv
  <1>1. \/ rates' = [rates EXCEPT !.init = TRUE]
        \/ rates' = rates
        \/ \E x \in increase(rates) :
              rates' = [rates EXCEPT !.target = clampInt(x, MinBitrate, MaxBitrate)]
        \/ rates' = [rates EXCEPT
              !.target = clampInt(decrease(rates), MinBitrate, MaxBitrate),
              !.decreased = @ \/ rates.received > 0]
    BY DEF onDelayStats
  <1>2. increase(rates) \subseteq Int
    <2>1. SUFFICES ASSUME NEW x \in increase(rates)
                   PROVE  x \in Int
      OBVIOUS
    <2>2. rates.target \in Nat /\ rates.received \in Nat
      BY <1>b
    <2>3. \/ x = Lesser(rates.target + 1, (3 * rates.received) \div 2)
          \/ x = (3 * rates.received) \div 2
          \/ x \in {rates.target, rates.target + 1}
      BY <2>1, Zenon DEF increase
    <2> QED  BY <2>2, <2>3 DEF Lesser
  <1>3. decrease(rates) \in Int
    BY <1>b DEF decrease
  <1>4. rates' \in R /\ MinBitrate <= rates'.target /\ rates'.target <= MaxBitrate
    <2>1. CASE rates' = [rates EXCEPT !.init = TRUE] \/ rates' = rates
      BY <1>b, <2>1 DEF RatesInv
    <2>2. ASSUME NEW x \in increase(rates),
                 rates' = [rates EXCEPT !.target = clampInt(x, MinBitrate, MaxBitrate)]
          PROVE  <1>4!:
      BY <1>a, <1>b, <1>2, <2>2, ClampIsWithin
    <2>3. CASE rates' = [rates EXCEPT
                !.target = clampInt(decrease(rates), MinBitrate, MaxBitrate),
                !.decreased = @ \/ rates.received > 0]
      BY <1>a, <1>b, <1>3, <2>3, ClampIsWithin
    <2> QED  BY <1>1, <2>1, <2>2, <2>3
  <1>5. UNCHANGED <<lossBitrate, latestBitrate, pacerBitrate>>
    BY DEF onDelayStats
  <1> QED  BY <1>4, <1>5 DEF RatesInv, TargetBounded

\* A loss based rate that changes is clamped.
LEMMA LossRate ==
    ASSUME BWEConstants, RatesInv, NEW r, updateLossEstimate(r)
    PROVE  RatesInv'
  <1>1. PICK bitrate \in {lossBitrate, lossBitrate + 1} \cup lossBitrate \div 2..lossBitrate :
           lossBitrate' = IF bitrate = lossBitrate THEN lossBitrate
                          ELSE clampInt(bitrate, LossMin, LossMax)
    BY DEF updateLossEstimate
  <1>2. lossBitrate \in Nat /\ bitrate \in Int
    BY <1>1 DEF RatesInv
  <1>3. clampInt(bitrate, LossMin, LossMax) \in Nat
        /\ LossMin <= clampInt(bitrate, LossMin, LossMax)
    BY <1>2, ClampIsWithin DEF BWEConstants
  <1>4. lossBitrate' \in Nat /\ Lesser(MinBitrate, LossMin) <= lossBitrate'
    BY <1>1, <1>2, <1>3 DEF RatesInv, BWEConstants, Lesser
  <1>5. UNCHANGED <<rates, latestBitrate, pacerBitrate>>
    BY DEF updateLossEstimate
  <1> QED  BY <1>4, <1>5 DEF RatesInv, TargetBounded

\* The lesser of the two rates is within the limits of both, also when the loss based
\* one starts again, and the pacer's rate follows it.
LEMMA AgreedRate ==
    ASSUME BWEConstants, RatesInv, onDelayUpdate
    PROVE  RatesInv'
  <1>1. rates.target \in Nat /\ MinBitrate <= rates.target /\ rates.target <= MaxBitrate
    BY DEF RatesInv
  <1>2. lossBitrate' \in Nat /\ Lesser(MinBitrate, LossMin) <= lossBitrate'
        /\ lossBitrate' <= MaxBitrate
    <2>1. clampInt(rates.target, LossMin, LossMax) \in Nat
          /\ LossMin <= clampInt(rates.target, LossMin, LossMax)
      BY <1>1 DEF BWEConstants, clampInt
    <2>2. lossBitrate \in Nat /\ Lesser(MinBitrate, LossMin) <= lossBitrate
      BY DEF RatesInv
    <2>3. lossBitrate' = getEstimate(lossBitrate, rates.target)
      BY DEF onDelayUpdate
    <2> QED  BY <1>1, <2>1, <2>2, <2>3 DEF BWEConstants, getEstimate, Lesser
  <1>3. latestBitrate' = lossBitrate' /\ rates' = rates
    BY DEF onDelayUpdate
  <1>4. pacerBitrate' \in Nat /\ latestBitrate' <= pacerBitrate'
    BY <1>2, <1>3 DEF RatesInv, TargetBounded, onDelayUpdate
  <1> QED  BY <1>2, <1>3, <1>4 DEF RatesInv, TargetBounded

\* What is measured is a number.
LEMMA MeasuredRate ==
    ASSUME BWEConstants, RatesInv, onReceivedRate
    PROVE  RatesInv'
  <1>1. PICK received \in ReceivedRates : rates' = [rates EXCEPT !.received = received]
    BY DEF onReceivedRate
  <1>2. UNCHANGED <<lossBitrate, latestBitrate, pacerBitrate>>
    BY DEF onReceivedRate
  <1> QED  BY <1>1, <1>2 DEF RatesInv, TargetBounded, BWEConstants

\* Every other step leaves the rates alone.
LEMMA RatesNext ==
    ASSUME BWEConstants, RatesInv, [BWENext]_bweVars
    PROVE  RatesInv'
  <1>1. ASSUME NEW r \in Readers, WriteRTCP(r) \/ SendAcks(r) \/ SendAcksForRate(r)
        PROVE  UNCHANGED <<rates, lossBitrate, latestBitrate, pacerBitrate>>
    BY <1>1 DEF WriteRTCP, SendAcks, SendAcksForRate
  <1>2. CASE RatesDone \/ NoGroup \/ StopAccumulator \/ StopCalculator \/ CloseEstimator
             \/ CloseEstimatorReturn \/ UNCHANGED bweVars
    <2>1. UNCHANGED <<rates, lossBitrate, latestBitrate, pacerBitrate>>
      BY <1>2 DEF RatesDone, NoGroup, StopAccumulator, StopCalculator, CloseEstimator,
                  CloseEstimatorReturn, bweVars
    <2> QED  BY <2>1 DEF RatesInv, TargetBounded
  <1>3. CASE UNCHANGED <<rates, lossBitrate, latestBitrate, pacerBitrate>>
    BY <1>3 DEF RatesInv, TargetBounded
  <1> QED
    BY <1>1, <1>2, <1>3, DelayRate, LossRate, AgreedRate, MeasuredRate DEF BWENext

\* For every choice of rates and of limits in order, the target stays within them
\* and below what the pacer may send.
THEOREM TargetBoundedHolds ==
    ASSUME BWEConstants
    PROVE  BWESpec => []TargetBounded
  <1>1. BWEInit => RatesInv
    BY RatesInit
  <1>2. RatesInv /\ [BWENext]_bweVars => RatesInv'
    BY RatesNext
  <1>3. RatesInv => TargetBounded
    BY DEF RatesInv
  <1> QED
    BY <1>1, <1>2, <1>3, PTL DEF BWESpec
-----------------------------------------------------------------------------
\* Close returns after both goroutines have ended.
GoroutinesEnded == estimator = "closed" => accumulator = "done" /\ calculator = "done"

\* A goroutine that has ended does nothing more.
LEMMA GoroutinesNext ==
    ASSUME GoroutinesEnded, [BWENext]_bweVars
    PROVE  GoroutinesEnded'
  <1> USE DEF GoroutinesEnded
  <1>1. ASSUME NEW r \in Readers,
               WriteRTCP(r) \/ updateLossEstimate(r) \/ SendAcks(r) \/ SendAcksForRate(r)
        PROVE  GoroutinesEnded'
    BY <1>1 DEF WriteRTCP, updateLossEstimate, SendAcks, SendAcksForRate
  <1>2. CASE onReceivedRate \/ RatesDone \/ NoGroup \/ onDelayUpdate
    BY <1>2 DEF onReceivedRate, RatesDone, NoGroup, onDelayUpdate
  <1>3. ASSUME NEW threshold, onDelayStats(threshold)
        PROVE  GoroutinesEnded'
    BY <1>3 DEF onDelayStats
  <1>4. CASE CloseEstimator \/ StopAccumulator \/ StopCalculator \/ CloseEstimatorReturn
    BY <1>4 DEF CloseEstimator, StopAccumulator, StopCalculator, CloseEstimatorReturn
  <1>5. CASE UNCHANGED bweVars
    BY <1>5 DEF bweVars
  <1> QED
    BY <1>1, <1>2, <1>3, <1>4, <1>5 DEF BWENext

\* When the estimator is closed no reader is in WriteRTCP, since the pipes are not
\* open, and no goroutine is left: nothing changes a rate.
LEMMA EstimatorQuietStep ==
    ASSUME PipesInv, GoroutinesEnded, BWENext, estimator = "closed"
    PROVE  UNCHANGED <<rates, lossBitrate, latestBitrate, pacerBitrate>>
  <1>1. accumulator = "done" /\ calculator = "done"
        /\ \A r \in Readers : readers[r] = "idle"
    BY DEF PipesInv, GoroutinesEnded
  <1>2. ASSUME NEW r \in Readers
        PROVE  ~WriteRTCP(r) /\ ~updateLossEstimate(r) /\ ~SendAcks(r) /\ ~SendAcksForRate(r)
    BY <1>1 DEF WriteRTCP, updateLossEstimate, SendAcks, SendAcksForRate
  <1>3. ~onReceivedRate /\ ~RatesDone /\ ~NoGroup /\ ~onDelayUpdate
        /\ \A threshold : ~onDelayStats(threshold)
    BY <1>1 DEF onReceivedRate, RatesDone, NoGroup, onDelayUpdate, onDelayStats
  <1>4. CASE CloseEstimator \/ StopAccumulator \/ StopCalculator \/ CloseEstimatorReturn
    BY <1>4 DEF CloseEstimator, StopAccumulator, StopCalculator, CloseEstimatorReturn
  <1> QED
    BY <1>2, <1>3, <1>4 DEF BWENext

\* For any number of readers, no rate changes once Close has returned.
THEOREM EstimatorQuietHolds == BWESpec => EstimatorQuiet
  <1>1. BWEInit => PipesInv /\ GoroutinesEnded
    BY DEF BWEInit, PipesInv, GoroutinesEnded
  <1>2. PipesInv /\ GoroutinesEnded /\ [BWENext]_bweVars => PipesInv' /\ GoroutinesEnded'
    BY PipesNext, GoroutinesNext
  <1>3. PipesInv /\ GoroutinesEnded /\ [BWENext]_bweVars
          => [estimator = "closed" =>
                UNCHANGED <<rates, lossBitrate, latestBitrate, pacerBitrate>>]_bweVars
    BY EstimatorQuietStep
  <1> QED
    BY <1>1, <1>2, <1>3, PTL DEF BWESpec, EstimatorQuiet
=============================================================================
