--------------------------- MODULE MCNackSession ---------------------------
(***************************************************************************)
(* NackSession for model checking, in two scenarios that one run explores  *)
(* side by side.  "session" has both ends, a stream that starts close to   *)
(* the largest sequence number and wraps, and losses.  "log" feeds the     *)
(* receive log alone, with every jump, every lateness and no end, so that  *)
(* only the arrivals of the last turn are kept; the fairness of the        *)
(* session's steps says nothing about it.                                  *)
(***************************************************************************)
EXTENDS NackSession

VARIABLE scenario

MCInit == SessionInit /\ scenario \in {"log", "session"}

Arrive(seq) ==
    /\ Receive(seq)
    /\ got' = {x \in got \cup {seq} : Minus(log'.end, x) < Size}
    /\ UNCHANGED <<scenario, sent, buffer, net, nackNet, first, losses>>

MCNext ==
    \/ scenario = "log" /\ \E seq \in SeqNums : Arrive(seq)
    \/ scenario = "session" /\ SessionNext /\ UNCHANGED scenario

MCSpec == MCInit /\ [][MCNext]_<<scenario, sessionVars>> /\ Fairness
=============================================================================
