------------------------- MODULE BandwidthEstimator -------------------------
(***************************************************************************)
(* The send side bandwidth estimator of pkg/gcc: WriteRTCP, called for     *)
(* every RTCP packet read, the two goroutines of the delay controller it   *)
(* hands acknowledgments to, the loss and delay based controllers and the  *)
(* target bit rate they agree on, and Close.                               *)
(*                                                                         *)
(* The filters (arrival groups, Kalman filter, adaptive threshold, moving  *)
(* averages) are floating point arithmetic on times: what they may answer  *)
(* is a choice.  Rates are small numbers, and growth by a few per cent is  *)
(* growth by none or by one.                                               *)
(***************************************************************************)
EXTENDS Integers, FiniteSets

CONSTANTS
    Readers,            \* goroutines that call WriteRTCP
    ReceivedRates,      \* what the rate calculator may measure
    InitialBitrate, MinBitrate, MaxBitrate,     \* the options
    LossMin, LossMax,   \* limits of the loss based controller
    MaxFeedback         \* bound: feedback packets

VARIABLES
    readers,        \* reader -> where it is in WriteRTCP
    feedback,       \* feedback packets so far
    pipes,          \* are ackPipe and ackRatePipe open?
    accumulator,    \* where the goroutine of arrivalGroupAccumulator.run is
    calculator,     \* and that of rateCalculator.run
    estimator,      \* "open", "closing" (closeLock held), "closed"
    increasingCounter,      \* overuseDetector
    rates,          \* rateController: init, target, received, decreased
    lossBitrate,    \* lossBasedBandwidthEstimator.bitrate
    latestBitrate, pacerBitrate

bweVars == <<readers, feedback, pipes, accumulator, calculator, estimator,
             increasingCounter, rates, lossBitrate, latestBitrate, pacerBitrate>>

Lesser(a, b) == IF a < b THEN a ELSE b

\* Fault: the upper limit is forgotten.
clampIntBelow(x, low, high) == IF x < low THEN low ELSE x

clampInt(x, low, high) == IF x < low THEN low ELSE IF x > high THEN high ELSE x

BWEInit ==
    /\ readers = [r \in Readers |-> "idle"]
    /\ feedback = 0
    /\ pipes = TRUE
    /\ accumulator = "receive" /\ calculator = "receive"
    /\ estimator = "open"
    /\ increasingCounter = 0
    /\ rates = [init |-> FALSE, target |-> InitialBitrate, received |-> 0,
                decreased |-> FALSE]
    /\ lossBitrate = InitialBitrate
    /\ latestBitrate = InitialBitrate
    /\ pacerBitrate = InitialBitrate
-----------------------------------------------------------------------------
\* WriteRTCP.

\* Fault: the estimator is not asked whether it is closed.
WriteRTCPUnchecked(r) ==
    /\ readers[r] = "idle"
    /\ estimator # "closing"
    /\ feedback < MaxFeedback
    /\ feedback' = feedback + 1
    /\ readers' = [readers EXCEPT ![r] = "loss"]
    /\ UNCHANGED <<pipes, accumulator, calculator, estimator, increasingCounter, rates,
                   lossBitrate, latestBitrate, pacerBitrate>>

\* With the read lock, and not when closed.  The acknowledgments are unpacked.
WriteRTCP(r) ==
    /\ readers[r] = "idle"
    /\ estimator = "open"
    /\ feedback < MaxFeedback
    /\ feedback' = feedback + 1
    /\ readers' = [readers EXCEPT ![r] = "loss"]
    /\ UNCHANGED <<pipes, accumulator, calculator, estimator, increasingCounter, rates,
                   lossBitrate, latestBitrate, pacerBitrate>>

\* Little loss raises the rate, much loss lowers it by up to a half, and the times
\* of the last changes may forbid both.
updateLossEstimate(r) ==
    /\ readers[r] = "loss"
    /\ \E bitrate \in {lossBitrate, lossBitrate + 1} \cup lossBitrate \div 2..lossBitrate :
          lossBitrate' = IF bitrate = lossBitrate THEN lossBitrate
                         ELSE clampInt(bitrate, LossMin, LossMax)
    /\ readers' = [readers EXCEPT ![r] = "acks"]
    /\ UNCHANGED <<feedback, pipes, accumulator, calculator, estimator,
                   increasingCounter, rates, latestBitrate, pacerBitrate>>

\* updateDelayEstimate: the acknowledgments go to one goroutine, then to the other,
\* over channels without a buffer.  Then comes the next feedback packet of the call,
\* or the lock is given back.
SendAcks(r) ==
    /\ readers[r] = "acks"
    /\ accumulator = "receive"
    /\ accumulator' = "groups"
    /\ readers' = [readers EXCEPT ![r] = "rate"]
    /\ UNCHANGED <<feedback, pipes, calculator, estimator, increasingCounter, rates,
                   lossBitrate, latestBitrate, pacerBitrate>>

SendAcksForRate(r) ==
    /\ readers[r] = "rate"
    /\ calculator = "receive"
    /\ calculator' = "measure"
    /\ \/ readers' = [readers EXCEPT ![r] = "idle"] /\ UNCHANGED feedback
       \/ /\ feedback < MaxFeedback
          /\ feedback' = feedback + 1
          /\ readers' = [readers EXCEPT ![r] = "loss"]
    /\ UNCHANGED <<pipes, accumulator, estimator, increasingCounter, rates,
                   lossBitrate, latestBitrate, pacerBitrate>>
-----------------------------------------------------------------------------
\* The goroutine of the rate calculator: every acknowledgment may give a new rate,
\* until there are no more of them.
onReceivedRate ==
    /\ calculator = "measure"
    /\ \E received \in ReceivedRates :
          rates' = [rates EXCEPT !.received = received]
    /\ UNCHANGED <<readers, feedback, pipes, accumulator, calculator, estimator,
                   increasingCounter, lossBitrate, latestBitrate, pacerBitrate>>

RatesDone ==
    /\ calculator = "measure"
    /\ calculator' = "receive"
    /\ UNCHANGED <<readers, feedback, pipes, accumulator, estimator, increasingCounter,
                   rates, lossBitrate, latestBitrate, pacerBitrate>>
-----------------------------------------------------------------------------
\* The goroutine of the arrival groups.

\* state.go
transition(state, use) ==
    IF use = "over" THEN "decrease"
    ELSE IF use = "under" \/ state = "decrease" THEN "hold" ELSE "increase"

\* overuseDetector.onDelayStats: overuse only when it goes on, long enough and with
\* a growing estimate.
Uses(threshold, counter) ==
    IF threshold = "over" THEN IF counter > 1 THEN {"over", "normal"} ELSE {"normal"}
    ELSE {threshold}

\* Near the rate of the last decreases growth is additive, and never beyond one and a
\* half times the received rate; else it is that much only when this is growth.
increase(rc) ==
    LET most == (3 * rc.received) \div 2
        near == IF rc.decreased THEN {Lesser(rc.target + 1, most)} ELSE {}
        far  == {IF rate > most /\ most > rc.target THEN most ELSE rate :
                    rate \in {rc.target, rc.target + 1}}
    IN  near \cup far

decrease(rc) == (17 * rc.received) \div 20

\* A group is complete: the detector and the rate controller are called.  The state
\* that comes with the statistics is that of the detector, always increase.
onDelayStats(threshold) ==
    /\ accumulator = "groups"
    /\ increasingCounter' =
          IF threshold = "over" THEN Lesser(increasingCounter + 1, 2) ELSE 0
    /\ \E use \in Uses(threshold, increasingCounter') :
          LET state == transition("increase", use) IN
          \/ /\ ~rates.init
             /\ rates' = [rates EXCEPT !.init = TRUE]
             /\ accumulator' = "groups"
          \/ /\ rates.init /\ state = "hold"
             /\ rates' = rates
             /\ accumulator' = "groups"
          \/ /\ rates.init /\ state = "increase"
             /\ \E rate \in increase(rates) :
                   rates' = [rates EXCEPT !.target = clampInt(rate, MinBitrate, MaxBitrate)]
             /\ accumulator' = "update"
          \/ /\ rates.init /\ state = "decrease"
             /\ rates' = [rates EXCEPT
                   !.target = clampInt(decrease(rates), MinBitrate, MaxBitrate),
                   !.decreased = @ \/ rates.received > 0]
             /\ accumulator' = "update"
    /\ UNCHANGED <<readers, feedback, pipes, calculator, estimator, lossBitrate,
                   latestBitrate, pacerBitrate>>

\* No further group is complete.
NoGroup ==
    /\ accumulator = "groups"
    /\ accumulator' = "receive"
    /\ UNCHANGED <<readers, feedback, pipes, calculator, estimator, increasingCounter,
                   rates, lossBitrate, latestBitrate, pacerBitrate>>

\* The smaller of the two rates; a loss based controller whose rate is down to zero,
\* where no growth by a factor would raise it, starts again from the wanted one.
getEstimate(bitrate, wantedRate) ==
    Lesser(wantedRate, IF bitrate <= 0 THEN clampInt(wantedRate, LossMin, LossMax) ELSE bitrate)

\* onDelayUpdate: the loss based controller takes the estimate over as its own rate.
\* The pacer may send half as much again.
onDelayUpdate ==
    /\ accumulator = "update"
    /\ lossBitrate' = getEstimate(lossBitrate, rates.target)
    /\ latestBitrate' = lossBitrate'
    /\ pacerBitrate' = IF latestBitrate' # latestBitrate THEN (3 * latestBitrate') \div 2
                       ELSE pacerBitrate
    /\ accumulator' = "groups"
    /\ UNCHANGED <<readers, feedback, pipes, calculator, estimator, increasingCounter,
                   rates>>
-----------------------------------------------------------------------------
\* Close takes the write lock, closes the pipes, and waits for the goroutines.
CloseEstimator ==
    /\ estimator = "open"
    /\ \A r \in Readers : readers[r] = "idle"
    /\ estimator' = "closing"
    /\ pipes' = FALSE
    /\ UNCHANGED <<readers, feedback, accumulator, calculator, increasingCounter, rates,
                   lossBitrate, latestBitrate, pacerBitrate>>

\* A goroutine that receives from a closed pipe ends.
StopAccumulator ==
    /\ ~pipes /\ accumulator = "receive"
    /\ accumulator' = "done"
    /\ UNCHANGED <<readers, feedback, pipes, calculator, estimator, increasingCounter,
                   rates, lossBitrate, latestBitrate, pacerBitrate>>

StopCalculator ==
    /\ ~pipes /\ calculator = "receive"
    /\ calculator' = "done"
    /\ UNCHANGED <<readers, feedback, pipes, accumulator, estimator, increasingCounter,
                   rates, lossBitrate, latestBitrate, pacerBitrate>>

\* Fault: Close does not wait for the goroutine that sets the target.
CloseEstimatorReturnEarly ==
    /\ estimator = "closing"
    /\ calculator = "done"
    /\ estimator' = "closed"
    /\ UNCHANGED <<readers, feedback, pipes, accumulator, calculator, increasingCounter,
                   rates, lossBitrate, latestBitrate, pacerBitrate>>

CloseEstimatorReturn ==
    /\ estimator = "closing"
    /\ accumulator = "done" /\ calculator = "done"
    /\ estimator' = "closed"
    /\ UNCHANGED <<readers, feedback, pipes, accumulator, calculator, increasingCounter,
                   rates, lossBitrate, latestBitrate, pacerBitrate>>

BWENext ==
    \/ \E r \in Readers : \/ WriteRTCP(r) \/ updateLossEstimate(r)
                          \/ SendAcks(r) \/ SendAcksForRate(r)
    \/ onReceivedRate \/ RatesDone
    \/ \E threshold \in {"over", "normal", "under"} : onDelayStats(threshold)
    \/ NoGroup \/ onDelayUpdate
    \/ CloseEstimator \/ StopAccumulator \/ StopCalculator \/ CloseEstimatorReturn

\* The goroutines run, of readers that wait for the same channel each gets its turn,
\* and the acknowledgments of a feedback packet come to an end.
BWEFairness ==
    /\ \A r \in Readers : /\ WF_bweVars(updateLossEstimate(r))
                          /\ SF_bweVars(SendAcks(r)) /\ SF_bweVars(SendAcksForRate(r))
    /\ WF_bweVars(RatesDone \/ StopCalculator)
    /\ SF_bweVars(NoGroup) /\ WF_bweVars(onDelayUpdate \/ StopAccumulator)
    /\ WF_bweVars(CloseEstimatorReturn)

BWESpec == BWEInit /\ [][BWENext]_bweVars /\ BWEFairness
-----------------------------------------------------------------------------
\* No reader is in WriteRTCP with acknowledgments to send when the pipes are closed:
\* a send would panic (WriteRTCP, updateDelayEstimate, Close).
PipesOpen == \A r \in Readers : readers[r] # "idle" => pipes

\* Whatever the order in which the controllers answer, the target is never above
\* the configured maximum nor above what the pacer may send, and below the
\* configured minimum only when loss took it there, never below the limit of the
\* loss based controller (onDelayStats, getEstimate, updateLossEstimate).
TargetBounded ==
    /\ latestBitrate <= MaxBitrate
    /\ latestBitrate >= Lesser(MinBitrate, LossMin)
    /\ latestBitrate <= pacerBitrate

\* Once Close has returned nothing changes the target, the rate of the pacer or
\* what either controller aims at: no reader and no goroutine is left that could
\* (WriteRTCP, Close, the runs of the delay controller).
EstimatorQuiet ==
    [][estimator = "closed" =>
          UNCHANGED <<rates, lossBitrate, latestBitrate, pacerBitrate>>]_bweVars

\* Close returns, and so does every call of WriteRTCP.
EstimatorReturns ==
    /\ (estimator = "closing") ~> (estimator = "closed")
    /\ \A r \in Readers : (readers[r] # "idle") ~> (readers[r] = "idle")
=============================================================================
