------------------------- MODULE MCFeedbackSession -------------------------
(***************************************************************************)
(* FeedbackSession and Reports for model checking, explored side by side   *)
(* by one run.  In scenario "congestion" numbers wrap on the way,          *)
(* and the longer step between arrivals is too long for one TWCC packet;   *)
(* the settings share out what makes the run large: two writers,           *)
(* losses, a repeat, and every order of arrival, in which a number may     *)
(* unwrap below zero.  The other scenarios are about reports: "loss" has a *)
(* stream that wraps, with losses, late packets and a repeated one;        *)
(* "delay" has sender and receiver reports only, and statistics that       *)
(* remember one sender report; "frames" has the sending peer only.         *)
(***************************************************************************)
EXTENDS FeedbackSession

CONSTANTS w1, w2

\* Two writers and a loss; a repeat; every order of arrival: each with TWCC, the
\* last two with RFC 8888.
MCSettings ==
    {[format |-> "twcc", first |-> 13, last |-> 16, writers |-> {w1, w2}, readers |-> 2,
      maxReorder |-> 2, maxLost |-> 1, maxRepeats |-> 0],
     [format |-> "twcc", first |-> 13, last |-> 16, writers |-> {w1}, readers |-> 2,
      maxReorder |-> 2, maxLost |-> 0, maxRepeats |-> 1],
     [format |-> "twcc", first |-> 13, last |-> 17, writers |-> {w1}, readers |-> 1,
      maxReorder |-> 5, maxLost |-> 1, maxRepeats |-> 0],
     [format |-> "rfc8888", first |-> 13, last |-> 16, writers |-> {w1}, readers |-> 2,
      maxReorder |-> 2, maxLost |-> 0, maxRepeats |-> 1],
     [format |-> "rfc8888", first |-> 14, last |-> 17, writers |-> {w1}, readers |-> 1,
      maxReorder |-> 4, maxLost |-> 1, maxRepeats |-> 0]}
MCSsrc == [n \in 13..17 |-> IF n = 13 THEN 2 ELSE 1]
MCSteps == {1, 7}

VARIABLES
    scenario, time, sender, senderTick, sent, outgoing, firstAt, written, receiver,
    arrived, arriving, receiverTick, incoming, reports, seen

reportVars == <<time, sender, senderTick, sent, outgoing, firstAt, written, receiver,
                arrived, arriving, receiverTick, incoming, reports, seen>>

LossReports == INSTANCE Reports WITH
    now <- time, history <- seen, Ring <- 4, NtpModulus <- 64, Tick <- 100,
    MaxTotalLost <- 2, MaxLastReports <- 1, UseLatestPacket <- FALSE, FirstNumber <- 14,
    FirstTimestamp <- 0, NumPackets <- 7, PerFrame <- 2, MaxAhead <- 0,
    MaxReorder <- 2, MaxGap <- 2, MaxRepeats <- 1, MaxTime <- 1,
    MaxSenderReports <- 0, MaxReceiverReports <- 2

DelayReports == INSTANCE Reports WITH
    now <- time, history <- seen, Ring <- 4, NtpModulus <- 64, Tick <- 100,
    MaxTotalLost <- 2, MaxLastReports <- 1, UseLatestPacket <- FALSE, FirstNumber <- 14,
    FirstTimestamp <- 0, NumPackets <- 0, PerFrame <- 2, MaxAhead <- 0,
    MaxReorder <- 0, MaxGap <- 0, MaxRepeats <- 0, MaxTime <- 4,
    MaxSenderReports <- 2, MaxReceiverReports <- 2

FrameReports == INSTANCE Reports WITH
    now <- time, history <- seen, Ring <- 4, NtpModulus <- 64, Tick <- 100,
    MaxTotalLost <- 2, MaxLastReports <- 1, UseLatestPacket <- FALSE, FirstNumber <- 14,
    FirstTimestamp <- 0, NumPackets <- 6, PerFrame <- 2, MaxAhead <- 1,
    MaxReorder <- 0, MaxGap <- 0, MaxRepeats <- 0, MaxTime <- 4,
    MaxSenderReports <- 1, MaxReceiverReports <- 0

\* The reports do not depend on the setting.
AnySetting == setting = CHOOSE c \in MCSettings : TRUE

MCInit ==
    /\ Init
    /\ \/ scenario = "congestion" /\ DelayReports!Init
       \/ AnySetting /\ scenario = "loss" /\ LossReports!Init
       \/ AnySetting /\ scenario = "delay" /\ DelayReports!Init
       \/ AnySetting /\ scenario = "frames" /\ FrameReports!Init

MCNext ==
    /\ UNCHANGED scenario
    /\ \/ scenario = "congestion" /\ Next /\ UNCHANGED reportVars
       \/ scenario = "loss" /\ LossReports!Next /\ UNCHANGED vars
       \/ scenario = "delay" /\ DelayReports!Next /\ UNCHANGED vars
       \/ scenario = "frames" /\ FrameReports!Next /\ UNCHANGED vars

MCSpec == MCInit /\ [][MCNext]_<<scenario, vars, reportVars>>

Symmetry == Permutations({w1, w2})

\* The figures of lost packets, of the receiver reports and of the statistics,
\* are exact (Reports, LossFiguresRight; receiver_stream.go, stats_recorder.go).
LossFiguresRight == scenario = "loss" => LossReports!LossFiguresRight

\* The round trip time of the statistics is the time two reports travelled
\* (Reports, RoundTripRight; stats_recorder.go, recordIncomingRR).
RoundTripRight == scenario = "delay" => DelayReports!RoundTripRight

\* Sender reports map RTP to wall clock time as the first packet of a frame does
\* (Reports, ReportTimesRight; sender_stream.go).
ReportTimesRight == scenario = "frames" => FrameReports!ReportTimesRight
=============================================================================
