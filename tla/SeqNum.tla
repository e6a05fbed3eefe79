------------------------------- MODULE SeqNum -------------------------------
(***************************************************************************)
(* RTP sequence numbers are uint16: every sum and difference in the code   *)
(* wraps.  The model keeps the wrap-around and shrinks the width: sequence *)
(* numbers live in 0 .. Modulus-1, where Modulus = 2 * Half stands for     *)
(* 2^16 and Half for rtpbuffer.Uint16SizeHalf = 2^15.                      *)
(*                                                                         *)
(* Plus and Minus are written with a conditional instead of % so that they *)
(* stay linear in Modulus.                                                 *)
(***************************************************************************)
EXTENDS Integers

CONSTANT Half

ASSUME HalfAssumption == Half \in Nat \ {0, 1}

Uint16SizeHalf == Half

Modulus == 2 * Half

SeqNums == 0 .. Modulus - 1

\* a + n of two uint16 values.
Plus(a, n) == IF a + n < Modulus THEN a + n ELSE a + n - Modulus

\* a - b of two uint16 values.
Minus(a, b) == IF a >= b THEN a - b ELSE a - b + Modulus

\* The code's "seq > end (with counting for rollovers)": a is ahead of b.
IsAhead(a, b) == a # b /\ Minus(a, b) < Uint16SizeHalf
=============================================================================
