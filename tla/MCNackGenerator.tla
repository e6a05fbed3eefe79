-------------------------- MODULE MCNackGenerator --------------------------
(***************************************************************************)
(* NackGenerator for model checking, in two scenarios that one run         *)
(* explores side by side: "counts" has a maximum, one loop, a whole stream *)
(* and no Close; "closing" has no maximum, two loops, two callers of Close *)
(* and a stream of few numbers.                                            *)
(***************************************************************************)
EXTENDS NackGenerator

CONSTANT FirstLoop

VARIABLE scenario

MCInit ==
    /\ Init
    /\ scenario = IF options.maxNacksPerPacket > 0 THEN "counts" ELSE "closing"
    /\ scenario = "closing" => options.skipLastN = 0

Counts ==
    /\ \A l \in Loops \ {FirstLoop} : loops'[l].pc = "none"
    /\ ~closed'

Closing ==
    \A ssrc \in DOMAIN receiveLogs' : receiveLogs'[ssrc].end \in 0 .. 3

MCNext ==
    /\ Next
    /\ scenario = "counts" => Counts
    /\ scenario = "closing" => Closing
    /\ UNCHANGED scenario

MCSpec == MCInit /\ [][MCNext]_<<vars, scenario>> /\ Fairness
=============================================================================
