----------------------------- MODULE Evaluation -----------------------------
(***************************************************************************)
(* Folds and local values for the algorithms the models translate.  TLC    *)
(* evaluates the argument of an operator again wherever the operator uses  *)
(* it; an element of a set is evaluated once.  These operators mean what   *)
(* FoldLeft and LET mean and evaluate every intermediate result once.      *)
(***************************************************************************)
EXTENDS Integers, Sequences

\* LET v == x IN Op(v)
With(x, Op(_)) == CHOOSE r \in {Op(v) : v \in {x}} : TRUE

\* FoldLeft(op, base, seq)
FoldOnce(op(_, _), base, seq) ==
    LET fold(s, b) ==
            LET upTo[i \in 0..Len(s)] ==
                    IF i = 0
                    THEN b
                    ELSE CHOOSE r \in {op(acc, s[i]) : acc \in {upTo[i - 1]}} : TRUE
            IN  upTo[Len(s)]
    IN  CHOOSE r \in {fold(s, b) : s \in {seq}, b \in {base}} : TRUE
=============================================================================
