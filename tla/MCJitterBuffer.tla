--------------------------- MODULE MCJitterBuffer ---------------------------
(***************************************************************************)
(* JitterBuffer for model checking.  Node objects are interchangeable.     *)
(***************************************************************************)
EXTENDS JitterBuffer, TLC

NodeSymmetry == Permutations(Nodes)
=============================================================================
