-------------------------- MODULE MCNackResponder --------------------------
(***************************************************************************)
(* NackResponder for model checking, in two parts of its behaviour that    *)
(* one run explores side by side: scenario "ring" has one stream and one   *)
(* resend, with two writers; scenario "rebind" has one writer, two streams *)
(* bound one after the other that both use one slot of their rings, and    *)
(* two resends of one number each.  Packet objects are interchangeable.    *)
(***************************************************************************)
EXTENDS NackResponder, TLC

CONSTANTS SecondWriter, SecondResender

VARIABLE scenario

PacketSymmetry == Permutations(Packets)

MCInit == Init /\ scenario \in {"ring", "rebind"}

\* The numbers of the first slot.
OneSlot == {seq \in SeqNums : Index(seq) = 0}

Ring ==
    /\ created' <= 1
    /\ resenders'[SecondResender] = IdleResender

Rebind ==
    /\ writers'[SecondWriter] = IdleWriter
    /\ \A p \in Packets : heap'[p].seq \in OneSlot
    /\ \A r \in Resenders :
          resenders'[r].todo \subseteq OneSlot /\ Cardinality(resenders'[r].todo) <= 1

MCNext ==
    /\ Next
    /\ IF scenario = "ring" THEN Ring ELSE Rebind
    /\ UNCHANGED scenario

MCSpec == MCInit /\ [][MCNext]_<<vars, scenario>>
=============================================================================
