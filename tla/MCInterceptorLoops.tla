------------------------- MODULE MCInterceptorLoops -------------------------
(***************************************************************************)
(* The goroutines of the library for model checking, side by side in one   *)
(* run: in scenario "loops" those that send RTCP or dump packets           *)
(* (InterceptorLoops), in "pacers" those that send the packets of writers  *)
(* (Pacers), in "estimator" those of the bandwidth estimator               *)
(* (BandwidthEstimator).                                                   *)
(***************************************************************************)
EXTENDS InterceptorLoops, Pacers, BandwidthEstimator

VARIABLE scenario

mcVars == <<scenario, loopVars, pacerVars, bweVars>>

\* The components a scenario is not about stay where they begin.
MCInit ==
    /\ LoopsInit /\ PacersInit /\ BWEInit
    /\ \/ scenario = "loops" /\ pacer = "pacing"
       \/ scenario = "pacers" /\ kind = "twcc"
       \/ scenario = "estimator" /\ kind = "twcc" /\ pacer = "pacing"

LoopsStep(A) == scenario = "loops" /\ A /\ UNCHANGED <<scenario, pacerVars, bweVars>>
PacersStep(A) == scenario = "pacers" /\ A /\ UNCHANGED <<scenario, loopVars, bweVars>>
EstimatorStep(A) == scenario = "estimator" /\ A /\ UNCHANGED <<scenario, loopVars, pacerVars>>

MCNext ==
    \/ LoopsStep(LoopsNext)
    \/ PacersStep(PacersNext)
    \/ EstimatorStep(BWENext)

\* The fairness of the three modules.  The scenario never changes, so a condition
\* on a step of one or a step of another is a condition on each.
MCFairness ==
    /\ \A n \in {1, 2} :
          /\ SF_mcVars(LoopsStep(Stop(n)) \/ EstimatorStep(SendAcks(n)))
          /\ SF_mcVars(LoopsStep(TakeRequest(n))
                       \/ EstimatorStep(SendAcksForRate(n)))
          /\ SF_mcVars(LoopsStep(Leave(n))
                       \/ PacersStep(IF n = 1 THEN StopPacer ELSE Receive))
          /\ WF_mcVars(LoopsStep(Written(n) \/ BindRTCPWriterStart(n))
                       \/ EstimatorStep(updateLossEstimate(n)))
          /\ WF_mcVars(LoopsStep(CloseReturn(n))
                       \/ PacersStep(IF n = 1 THEN Sending ELSE ClosePacerReturn)
                       \/ EstimatorStep(IF n = 1
                             THEN RatesDone \/ StopCalculator
                             ELSE onDelayUpdate \/ StopAccumulator))
    /\ SF_mcVars(PacersStep(TickPacer) \/ EstimatorStep(NoGroup))
    /\ WF_mcVars(EstimatorStep(CloseEstimatorReturn))

MCSpec == MCInit /\ [][MCNext]_mcVars /\ MCFairness
-----------------------------------------------------------------------------
\* A call of Close or of WriteRTCP that has not returned.
Calling(n) ==
    \/ closers[n] = "waiting"
    \/ n = 1 /\ pacerClosed /\ ~returned
    \/ n = 1 /\ estimator = "closing"
    \/ readers[n] # "idle"

\* Every call of Close, and of the estimator's WriteRTCP, returns, whatever the
\* loops, the callers and each other are doing: CloseReturns, PacerCloseReturns and
\* EstimatorReturns of the three modules, of which a scenario is about one.
AllReturn == \A n \in {1, 2} : Calling(n) ~> ~Calling(n)
=============================================================================
