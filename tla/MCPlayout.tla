------------------------------ MODULE MCPlayout ------------------------------
(***************************************************************************)
(* What happens to packets on the way to the player, for model checking:   *)
(* frame assembly, the jitter buffer and forward error correction,         *)
(* explored side by side by one run.  Scenario "frames" has small senders, *)
(* "jitter" every call on a buffer of up to three packets, and "fec" a     *)
(* network that loses packets and keeps their order.                       *)
(***************************************************************************)
EXTENDS VideoReceiver, TLC

CONSTANT Nodes      \* of the jitter buffer, interchangeable

VARIABLES
    scenario,
    packets, minStartCount, playoutHead, playoutReady, jitterState, due, dropped, played,
    sent, packetBuffer, encoder, wire, decoder, hung, arrived, recovered

jitterVars == <<packets, minStartCount, playoutHead, playoutReady, jitterState, due,
                dropped, played>>
fecVars == <<sent, packetBuffer, encoder, wire, decoder, hung, arrived, recovered>>

Jitter == INSTANCE JitterBuffer WITH
    state <- jitterState, Half <- 3, Nil <- Absent, FrameLen <- 2,
    StartCounts <- {1, 2}, DefaultStart <- 3, MayRepeatFront <- FALSE

\* A batch has as many packets as the three parts of a mask have bits, one less than
\* MaxMediaPackets; both numbers wrap; the decoder is full after one batch, and a
\* jump of the numbers resets it.
Fec == INSTANCE FecSession WITH
    Modulus <- 32, MaxMediaPackets <- 5, Mask1Bits <- 1, Mask2Bits <- 1, Mask3Bits <- 2,
    FirstFecSn <- 31, None <- Absent, DecoderMedia <- 4, DecoderFEC <- 2,
    RecoveredLimit <- 6, NumMediaPackets <- 4, NumFecPackets <- 2, FirstSn <- 29,
    Jump <- 6, MaxDelay <- 0, MaxPackets <- 8

Key(n) == [n |-> n, key |-> TRUE, tid |-> 0]
Delta(n, tid) == [n |-> n, key |-> FALSE, tid |-> tid]

\* A stream with two key frames, one joined before its key frame, and one
\* with an enhancement layer.
MCScripts ==
    {<<Key(2), Delta(1, 0), Key(1), Delta(1, 0)>>,
     <<Delta(1, 2), Key(1), Delta(2, 0), Delta(1, 0)>>,
     <<Key(1), Delta(1, 1), Delta(1, 0), Delta(2, 1), Delta(1, 0)>>}

MCKinds == {"seq", "pid", "vp8"}

\* The picture ID wraps behind the first frame, or, where TL0PICIDX does, later.
MCFirstPic == [seq |-> 0, pid |-> 15, vp8 |-> 14]

NodeSymmetry == Permutations(Nodes)

\* One sender, for the scenarios that are not about frames.
AnySender == kind = "seq" /\ script[1] = Key(2)

MCInit ==
    /\ Init /\ Jitter!Init /\ Fec!Init
    /\ \/ scenario = "frames" /\ minStartCount = 1
       \/ scenario = "jitter" /\ AnySender
       \/ scenario = "fec" /\ minStartCount = 1 /\ AnySender

MCNext ==
    /\ UNCHANGED scenario
    /\ \/ scenario = "frames" /\ Next /\ UNCHANGED <<jitterVars, fecVars>>
       \/ scenario = "jitter" /\ Jitter!Next /\ UNCHANGED <<vars, fecVars>>
       \/ scenario = "fec" /\ Fec!Next /\ UNCHANGED <<vars, jitterVars>>

MCSpec == MCInit /\ [][MCNext]_<<scenario, vars, jitterVars, fecVars>>
-----------------------------------------------------------------------------
\* The linked list of the jitter buffer stays a sorted list
\* (JitterBuffer, QueueInOrder; priority_queue.go, Push and PopAt).
QueueInOrder == Jitter!QueueInOrder

\* No packet is lost from the list or found in it after it was taken
\* (JitterBuffer, NothingLost; priority_queue.go, PopAt).
NothingLost == Jitter!NothingLost

\* Playback goes on where it stopped (JitterBuffer, PlaysOn; jitter_buffer.go,
\* Push and Pop).
PlaysOn == Jitter!PlaysOn

\* A packet the decoder recovers is one that was sent (FecSession, RecoveredRight;
\* flexfec_decoder_03.go, recoverPacket).
RecoveredRight == Fec!RecoveredRight

\* A single loss under a repair packet is repaired when it arrives (FecSession,
\* LossesRepaired; flexfec_decoder_03.go, attemptRecovery).
LossesRepaired == Fec!LossesRepaired
=============================================================================
