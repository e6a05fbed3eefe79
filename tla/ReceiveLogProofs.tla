-------------------------- MODULE ReceiveLogProofs --------------------------
(***************************************************************************)
(* What the methods of the receive log do, for every width of the sequence *)
(* numbers and every log size: lemmas about the operators of ReceiveLog.   *)
(***************************************************************************)
EXTENDS ReceiveLog, SeqNumProofs, FiniteSetTheorems, WellFoundedInduction, TLAPS

(***************************************************************************)
(* A non-empty set of naturals has a minimum, so that Min, which           *)
(* fixLastConsecutive uses for "the first clear bit", is well defined.     *)
(***************************************************************************)
LEMMA MinIsLeast ==
    ASSUME NEW S \in SUBSET Nat, S # {}
    PROVE  Min(S) \in S /\ \A y \in S : Min(S) <= y
<1> DEFINE R == {ss \in Nat \X Nat : ss[1] < ss[2]}
<1>1. OpToRel(<, Nat) = R
  BY Zenon DEF OpToRel
<1>2. \E x \in S : \A y \in S : ~(<<y, x>> \in OpToRel(<, Nat))
  BY NatLessThanWellFounded, WFMin
<1>3. \E x \in S : \A y \in S : ~(<<y, x>> \in R)
  BY <1>1, <1>2, Zenon
<1>4. \E x \in S : \A y \in S : x <= y
  <2>1. PICK x \in S : \A y \in S : ~(<<y, x>> \in R)
    BY <1>3
  <2>2. ASSUME NEW y \in S PROVE ~(y < x)
    <3>1. <<y, x>> \in Nat \X Nat /\ <<y, x>>[1] = y /\ <<y, x>>[2] = x
      OBVIOUS
    <3>. QED
      BY <2>1, <3>1, Zenon
  <2>. QED
    BY <2>1, <2>2
<1>. QED
  BY <1>4 DEF Min

(***************************************************************************)
(* Slots: a number falls into a slot of the bit array, and numbers less    *)
(* than Size apart fall into different ones, across the wrap-around too.   *)
(***************************************************************************)
LEMMA SlotType ==
    ASSUME NEW a \in SeqNums
    PROVE  Slot(a) \in Slots
BY SizeAssumption, HalfAssumption DEF Slot, Slots, SeqNums, Modulus

\* Numbers less than Size apart have different slots.
LEMMA SlotsDiffer ==
    ASSUME NEW a \in SeqNums, NEW b \in SeqNums, Minus(a, b) \in 1 .. Size - 1
    PROVE  Slot(a) # Slot(b)
<1>1. Divides(Size)
  BY SizeAssumption, Zenon DEF Divides
<1>. QED
  BY <1>1, SlotsApart DEF Slot

-----------------------------------------------------------------------------
(***************************************************************************)
(* What each helper of receive_log.go does to a log, field by field.       *)
(***************************************************************************)
LEMMA SetReceived ==
    ASSUME NEW s \in Log, NEW seq \in SeqNums
    PROVE  LET t == setReceived(s, seq)
           IN  /\ t \in Log
               /\ t.end = s.end
               /\ t.started = s.started
               /\ t.lastConsecutive = s.lastConsecutive
               /\ \A x \in SeqNums :
                     getReceived(t, x) <=> Slot(x) = Slot(seq) \/ getReceived(s, x)
BY SlotType DEF Log, setReceived, getReceived

\* The same for clearBetween.
LEMMA ClearBetween ==
    ASSUME NEW s \in Log, NEW seq \in SeqNums
    PROVE  LET t == clearBetween(s, seq)
           IN  /\ t \in Log
               /\ t.end = s.end
               /\ t.started = s.started
               /\ t.lastConsecutive = s.lastConsecutive
               /\ \A x \in SeqNums :
                     getReceived(t, x) <=>
                         /\ getReceived(s, x)
                         /\ \A k \in 1 .. Minus(seq, s.end) - 1 :
                               Slot(x) # Slot(Plus(s.end, k))
BY SlotType DEF Log, clearBetween, getReceived

(***************************************************************************)
(* fixLastConsecutive moves the mark over set bits only, and never past    *)
(* end.                                                                    *)
(***************************************************************************)
LEMMA FixLastConsecutive ==
    ASSUME NEW s \in Log
    PROVE  LET t == fixLastConsecutive(s)
           IN  \E run \in 0 .. Minus(s.end, s.lastConsecutive) :
                  /\ t \in Log
                  /\ t = [s EXCEPT !.lastConsecutive = Plus(s.lastConsecutive, run)]
                  /\ \A k \in 1 .. run : getReceived(s, Plus(s.lastConsecutive, k))
<1> DEFINE span == Minus(s.end, s.lastConsecutive)
           gaps == {k \in 1 .. span : ~getReceived(s, Plus(s.lastConsecutive, k))}
           run  == IF gaps = {} THEN span ELSE Min(gaps) - 1
<1>1. span \in SeqNums /\ span \in Nat /\ SeqNums \subseteq Nat
  BY PlusMinusType DEF Log
<1>2. run \in 0 .. span /\ \A k \in 1 .. run : k \notin gaps
  <2>1. CASE gaps = {}
    BY <2>1, <1>1
  <2>2. CASE gaps # {}
    <3>1. gaps \in SUBSET Nat
      BY <1>1
    <3>2. Min(gaps) \in gaps /\ \A y \in gaps : Min(gaps) <= y
      BY <2>2, <3>1, MinIsLeast
    <3>3. Min(gaps) \in 1 .. span
      BY <3>2
    <3>4. run = Min(gaps) - 1
      BY <2>2
    <3> HIDE DEF gaps, run
    <3>. QED
      BY <1>1, <3>1, <3>2, <3>3, <3>4
  <2>. QED
    BY <2>1, <2>2
<1>3. \A k \in 1 .. run : getReceived(s, Plus(s.lastConsecutive, k))
  <2>1. \A k \in 1 .. run : k \in 1 .. span
    <3> HIDE DEF run, span
    <3>. QED
      BY <1>1, <1>2
  <2>. QED
    BY <1>2, <2>1
<1>4. fixLastConsecutive(s) = [s EXCEPT !.lastConsecutive = Plus(s.lastConsecutive, run)]
  BY DEF fixLastConsecutive
<1>5. run \in SeqNums
  <2> HIDE DEF run
  <2>. QED
    BY <1>1, <1>2, HalfAssumption DEF SeqNums, Modulus
<1>6. Plus(s.lastConsecutive, run) \in SeqNums
  BY <1>5, PlusMinusType DEF Log
<1>7. fixLastConsecutive(s) \in Log
  <2> HIDE DEF run
  <2>. QED
    BY <1>4, <1>6 DEF Log
<1> HIDE DEF run
<1>. QED
  BY <1>2, <1>3, <1>4, <1>7

-----------------------------------------------------------------------------
(***************************************************************************)
(* add, first packet: the only bit set is the packet's own.                *)
(***************************************************************************)
LEMMA AddFirst ==
    ASSUME NEW seq \in SeqNums
    PROVE  LET t == addFirst(newReceiveLog, seq)
           IN  /\ t \in Log
               /\ t.end = seq
               /\ t.started
               /\ t.lastConsecutive = seq
               /\ \A x \in SeqNums : Minus(seq, x) < Size =>
                     (getReceived(t, x) <=> x = seq)
<1>1. newReceiveLog \in Log /\ \A x \in SeqNums : ~getReceived(newReceiveLog, x)
  BY SlotType, HalfAssumption
     DEF newReceiveLog, getReceived, Log, SeqNums, Modulus
<1> DEFINE u == setReceived(newReceiveLog, seq)
           t == addFirst(newReceiveLog, seq)
<1>2. u \in Log /\ \A x \in SeqNums : getReceived(u, x) <=> Slot(x) = Slot(seq)
  BY <1>1, SetReceived
<1>3. /\ t = [u EXCEPT !.end = seq, !.started = TRUE, !.lastConsecutive = seq]
      /\ \A x \in SeqNums : getReceived(t, x) <=> getReceived(u, x)
  BY <1>2 DEF addFirst, getReceived, Log
<1>4. \A x \in SeqNums : x # seq /\ Minus(seq, x) < Size => Slot(x) # Slot(seq)
  <2> TAKE x \in SeqNums
  <2> HAVE x # seq /\ Minus(seq, x) < Size
  <2>1. Minus(seq, x) \in 1 .. Size - 1
    BY HalfAssumption, SizeAssumption DEF Minus, SeqNums, Modulus
  <2>. QED
    BY <2>1, SlotsDiffer
<1> HIDE DEF u
<1>. QED
  BY <1>2, <1>3, <1>4 DEF Log

(***************************************************************************)
(* add, packet ahead of end.  The new window ends at seq; inside it a bit  *)
(* is set for seq and for what was received before, never for a skipped    *)
(* number; the mark stays within Size and passed over set bits only.       *)
(***************************************************************************)
LEMMA AddAhead ==
    ASSUME NEW s \in Log, NEW seq \in SeqNums,
           IsAhead(seq, s.end), Minus(s.end, s.lastConsecutive) <= Size
    PROVE  LET t == addAhead(s, seq)
           IN  /\ t \in Log
               /\ t.end = seq
               /\ t.started = s.started
               /\ Minus(seq, t.lastConsecutive) <= Size
               /\ Minus(seq, t.lastConsecutive) <= Minus(seq, s.lastConsecutive)
               /\ \A x \in SeqNums : Minus(seq, x) < Size =>
                     /\ getReceived(t, x) <=>
                           \/ x = seq
                           \/ /\ getReceived(s, x)
                              /\ ~(x # s.end /\ Minus(x, s.end) < Minus(seq, s.end))
                     /\ /\ Minus(seq, t.lastConsecutive) <= Minus(seq, x)
                        /\ Minus(seq, x) < Minus(seq, s.lastConsecutive)
                        => getReceived(t, x)
<1> DEFINE c    == clearBetween(s, seq)
           slid == [c EXCEPT !.end = seq]
           base == [slid EXCEPT !.lastConsecutive = Minus(seq, Size)]
           kept == IF Plus(s.lastConsecutive, 1) = seq
                     THEN [slid EXCEPT !.lastConsecutive = seq]
                   ELSE IF Minus(seq, s.lastConsecutive) > Size
                     THEN fixLastConsecutive(base)
                   ELSE slid
           t    == addAhead(s, seq)
           Skipped(x) == x # s.end /\ Minus(x, s.end) < Minus(seq, s.end)
<1>0. s.end \in SeqNums /\ s.lastConsecutive \in SeqNums
  BY DEF Log
<1>a. Size \in SeqNums /\ Minus(seq, Size) \in SeqNums
  <2>1. Size \in SeqNums
    BY SizeAssumption, HalfAssumption DEF SeqNums, Modulus
  <2>. QED
    BY <2>1, PlusMinusType
<1>1. /\ c \in Log /\ c.started = s.started /\ c.lastConsecutive = s.lastConsecutive
      /\ \A x \in SeqNums :
            getReceived(c, x) <=>
                /\ getReceived(s, x)
                /\ \A k \in 1 .. Minus(seq, s.end) - 1 : Slot(x) # Slot(Plus(s.end, k))
  BY ClearBetween
<1>2. \A x \in SeqNums : x # seq /\ Minus(seq, x) < Size =>
         (getReceived(c, x) <=> getReceived(s, x) /\ ~Skipped(x))
  <2> SUFFICES ASSUME NEW x \in SeqNums, x # seq, Minus(seq, x) < Size
               PROVE  getReceived(c, x) <=> getReceived(s, x) /\ ~Skipped(x)
    OBVIOUS
  <2>1. CASE Skipped(x)
    <3>1. /\ Minus(x, s.end) \in 1 .. Minus(seq, s.end) - 1
          /\ Plus(s.end, Minus(x, s.end)) = x
      BY <2>1, <1>0, HalfAssumption DEF Minus, Plus, SeqNums, Modulus
    <3>. QED
      BY <2>1, <3>1, <1>1
  <2>2. CASE ~Skipped(x)
    <3>1. ASSUME NEW k \in 1 .. Minus(seq, s.end) - 1
          PROVE  Slot(x) # Slot(Plus(s.end, k))
      <4>1. Plus(s.end, k) \in SeqNums
        BY <1>0, HalfAssumption DEF Minus, Plus, SeqNums, Modulus
      <4>2. Minus(Plus(s.end, k), x) \in 1 .. Size - 1
        BY <2>2, <1>0, HalfAssumption, SizeAssumption
           DEF Minus, Plus, SeqNums, Modulus, IsAhead, Uint16SizeHalf
      <4>. QED
        BY <4>1, <4>2, SlotsDiffer
    <3>. QED
      BY <2>2, <3>1, <1>1
  <2>. QED
    BY <2>1, <2>2
<1>3. /\ slid \in Log /\ slid.end = seq /\ slid.started = s.started
      /\ slid.lastConsecutive = s.lastConsecutive
      /\ \A x \in SeqNums : getReceived(slid, x) <=> getReceived(c, x)
  BY <1>1 DEF Log, getReceived
<1> HIDE DEF c
<1>4. /\ kept \in Log /\ kept.end = seq /\ kept.started = s.started
      /\ Minus(seq, kept.lastConsecutive) <= Size
      /\ Minus(seq, kept.lastConsecutive) <= Minus(seq, s.lastConsecutive)
      /\ \A x \in SeqNums :
            /\ getReceived(kept, x) <=> getReceived(slid, x)
            /\ /\ x # seq /\ Minus(seq, x) < Size
               /\ Minus(seq, kept.lastConsecutive) <= Minus(seq, x)
               /\ Minus(seq, x) < Minus(seq, s.lastConsecutive)
               => getReceived(slid, x)
  <2> HIDE DEF slid
  <2>1. CASE Plus(s.lastConsecutive, 1) = seq
    <3>1. kept = [slid EXCEPT !.lastConsecutive = seq]
      BY <2>1
    <3>2. /\ kept \in Log /\ kept.end = seq /\ kept.started = s.started
          /\ kept.lastConsecutive = seq
          /\ \A x \in SeqNums : getReceived(kept, x) <=> getReceived(slid, x)
      BY <3>1, <1>3 DEF Log, getReceived
    <3>3. \A x \in SeqNums : Minus(seq, x) < Minus(seq, s.lastConsecutive) => x = seq
      BY <2>1, <1>0, HalfAssumption DEF Minus, Plus, SeqNums, Modulus
    <3>4. Minus(seq, seq) = 0 /\ 0 <= Size /\ 0 <= Minus(seq, s.lastConsecutive)
      BY <1>0, HalfAssumption, SizeAssumption DEF Minus, SeqNums, Modulus
    <3>. QED
      BY <3>2, <3>3, <3>4
  <2>2. CASE Plus(s.lastConsecutive, 1) # seq /\ Minus(seq, s.lastConsecutive) > Size
    <3>1. kept = fixLastConsecutive(base)
      BY <2>2
    <3>2. /\ base \in Log /\ base.end = seq /\ base.started = s.started
          /\ base.lastConsecutive = Minus(seq, Size)
          /\ \A x \in SeqNums : getReceived(base, x) <=> getReceived(slid, x)
      BY <1>3, <1>a DEF Log, getReceived
    <3> HIDE DEF base, kept
    <3>3. PICK run \in 0 .. Minus(seq, Minus(seq, Size)) :
             /\ kept \in Log
             /\ kept = [base EXCEPT !.lastConsecutive = Plus(Minus(seq, Size), run)]
             /\ \A k \in 1 .. run : getReceived(base, Plus(Minus(seq, Size), k))
      BY <3>1, <3>2, FixLastConsecutive
    <3>4. /\ kept.end = seq /\ kept.started = s.started
          /\ kept.lastConsecutive = Plus(Minus(seq, Size), run)
          /\ \A x \in SeqNums : getReceived(kept, x) <=> getReceived(slid, x)
      BY <3>2, <3>3 DEF Log, getReceived
    <3>5. run \in 0 .. Size /\ Minus(seq, kept.lastConsecutive) = Size - run
      BY <3>3, <3>4, <1>a, SizeAssumption, HalfAssumption
         DEF Minus, Plus, SeqNums, Modulus
    <3>6. ASSUME NEW x \in SeqNums, Minus(seq, x) < Size, Size - run <= Minus(seq, x)
          PROVE  getReceived(slid, x)
      <4>1. /\ Size - Minus(seq, x) \in 1 .. run
            /\ Plus(Minus(seq, Size), Size - Minus(seq, x)) = x
        BY <3>5, <3>6, <1>a, SizeAssumption, HalfAssumption
           DEF Minus, Plus, SeqNums, Modulus
      <4>. QED
        BY <4>1, <3>2, <3>3
    <3>7. Size - run <= Size /\ Size - run <= Minus(seq, s.lastConsecutive)
      BY <2>2, <3>5, <1>0, PlusMinusType, SizeAssumption
    <3>. QED
      BY <3>3, <3>4, <3>5, <3>6, <3>7
  <2>3. CASE Plus(s.lastConsecutive, 1) # seq /\ ~(Minus(seq, s.lastConsecutive) > Size)
    <3>1. kept = slid
      BY <2>3
    <3>2. Minus(seq, s.lastConsecutive) \in Nat /\ Size \in Nat
      BY <1>0, PlusMinusType, SizeAssumption
    <3>3. \A x \in SeqNums : Minus(seq, x) \in Nat
      BY PlusMinusType
    <3> HIDE DEF kept
    <3>. QED
      BY <2>3, <3>1, <3>2, <3>3, <1>3
  <2>. QED
    BY <2>1, <2>2, <2>3
<1>5. t = setReceived(kept, seq)
  BY DEF addAhead, c
<1> HIDE DEF slid, base, kept, t
<1>6. /\ t \in Log /\ t.end = seq /\ t.started = s.started
      /\ t.lastConsecutive = kept.lastConsecutive
      /\ \A x \in SeqNums :
            getReceived(t, x) <=> Slot(x) = Slot(seq) \/ getReceived(kept, x)
  BY <1>4, <1>5, SetReceived
<1>7. ASSUME NEW x \in SeqNums, x # seq, Minus(seq, x) < Size
      PROVE  Slot(x) # Slot(seq)
  <2>1. Minus(seq, x) \in 1 .. Size - 1
    BY <1>7, HalfAssumption, SizeAssumption DEF Minus, SeqNums, Modulus
  <2>. QED
    BY <2>1, SlotsDiffer
<1>8. ASSUME NEW x \in SeqNums, Minus(seq, x) < Size
      PROVE  /\ getReceived(t, x) <=> x = seq \/ (getReceived(s, x) /\ ~Skipped(x))
             /\ /\ Minus(seq, t.lastConsecutive) <= Minus(seq, x)
                /\ Minus(seq, x) < Minus(seq, s.lastConsecutive)
                => getReceived(t, x)
  <2>1. CASE x = seq
    BY <2>1, <1>6
  <2>2. CASE x # seq
    BY <2>2, <1>2, <1>3, <1>4, <1>6, <1>7, <1>8
  <2>. QED
    BY <2>1, <2>2
<1>. QED
  BY <1>4, <1>6, <1>8 DEF t

(***************************************************************************)
(* add, packet behind end.  The mark never moves back and passes over set  *)
(* bits only.  What the bits say needs the packet to be inside the window: *)
(* an older one would set the bit of a newer number.                       *)
(***************************************************************************)
LEMMA AddLate ==
    ASSUME NEW s \in Log, NEW seq \in SeqNums,
           seq # s.end, ~IsAhead(seq, s.end)
    PROVE  LET t == addLate(s, seq)
           IN  /\ t \in Log
               /\ t.end = s.end
               /\ t.started = s.started
               /\ Minus(s.end, t.lastConsecutive) <= Minus(s.end, s.lastConsecutive)
               /\ \A x \in SeqNums :
                     /\ Minus(s.end, x) < Size /\ Minus(s.end, seq) < Size =>
                           (getReceived(t, x) <=> x = seq \/ getReceived(s, x))
                     /\ /\ Minus(s.end, t.lastConsecutive) <= Minus(s.end, x)
                        /\ Minus(s.end, x) < Minus(s.end, s.lastConsecutive)
                        => getReceived(t, x)
<1> DEFINE base == [s EXCEPT !.lastConsecutive = seq]
           kept == IF Plus(s.lastConsecutive, 1) = seq
                     THEN fixLastConsecutive(base)
                     ELSE s
           t    == addLate(s, seq)
<1>0. s.end \in SeqNums /\ s.lastConsecutive \in SeqNums
  BY DEF Log
<1>1. /\ kept \in Log /\ kept.end = s.end /\ kept.started = s.started
      /\ Minus(s.end, kept.lastConsecutive) <= Minus(s.end, s.lastConsecutive)
      /\ \A x \in SeqNums :
            /\ getReceived(kept, x) <=> getReceived(s, x)
            /\ /\ Minus(s.end, kept.lastConsecutive) <= Minus(s.end, x)
               /\ Minus(s.end, x) < Minus(s.end, s.lastConsecutive)
               => x = seq \/ getReceived(s, x)
  <2>1. CASE Plus(s.lastConsecutive, 1) = seq
    <3>1. /\ base \in Log /\ base.end = s.end /\ base.started = s.started
          /\ base.lastConsecutive = seq
          /\ \A x \in SeqNums : getReceived(base, x) <=> getReceived(s, x)
      BY DEF Log, getReceived
    <3>2. kept = fixLastConsecutive(base)
      BY <2>1
    <3> HIDE DEF base, kept
    <3>3. PICK run \in 0 .. Minus(s.end, seq) :
             /\ kept \in Log
             /\ kept = [base EXCEPT !.lastConsecutive = Plus(seq, run)]
             /\ \A k \in 1 .. run : getReceived(base, Plus(seq, k))
      BY <3>1, <3>2, FixLastConsecutive
    <3>4. /\ kept.end = s.end /\ kept.started = s.started
          /\ kept.lastConsecutive = Plus(seq, run)
          /\ \A x \in SeqNums : getReceived(kept, x) <=> getReceived(s, x)
      BY <3>1, <3>3 DEF Log, getReceived
    <3>5. /\ Minus(s.end, kept.lastConsecutive) = Minus(s.end, seq) - run
          /\ Minus(s.end, seq) = Minus(s.end, s.lastConsecutive) - 1
          /\ Minus(s.end, seq) \in Nat /\ Minus(s.end, s.lastConsecutive) \in Nat
      BY <2>1, <3>3, <3>4, <1>0, HalfAssumption
         DEF Minus, Plus, SeqNums, Modulus, IsAhead, Uint16SizeHalf
    <3>6. ASSUME NEW x \in SeqNums, x # seq,
                 Minus(s.end, kept.lastConsecutive) <= Minus(s.end, x),
                 Minus(s.end, x) < Minus(s.end, s.lastConsecutive)
          PROVE  getReceived(s, x)
      <4>0. /\ Minus(s.end, seq) - run <= Minus(s.end, x)
            /\ Minus(s.end, x) < Minus(s.end, seq) + 1
        BY <3>5, <3>6
      <4>1. /\ Minus(s.end, seq) - Minus(s.end, x) \in 1 .. run
            /\ Plus(seq, Minus(s.end, seq) - Minus(s.end, x)) = x
        BY <3>3, <3>6, <4>0, <1>0, HalfAssumption DEF Minus, Plus, SeqNums, Modulus
      <4>. QED
        BY <4>1, <3>1, <3>3
    <3>7. Minus(s.end, kept.lastConsecutive) <= Minus(s.end, s.lastConsecutive)
      BY <3>3, <3>5
    <3>. QED
      BY <3>3, <3>4, <3>6, <3>7
  <2>2. CASE Plus(s.lastConsecutive, 1) # seq
    <3>1. kept = s
      BY <2>2
    <3>2. \A x \in SeqNums : Minus(s.end, x) \in Nat
      BY <1>0, PlusMinusType
    <3> HIDE DEF kept
    <3>. QED
      BY <1>0, <3>1, <3>2
  <2>. QED
    BY <2>1, <2>2
<1>2. t = setReceived(kept, seq)
  BY DEF addLate
<1> HIDE DEF base, kept, t
<1>3. /\ t \in Log /\ t.end = s.end /\ t.started = s.started
      /\ t.lastConsecutive = kept.lastConsecutive
      /\ \A x \in SeqNums :
            getReceived(t, x) <=> Slot(x) = Slot(seq) \/ getReceived(kept, x)
  BY <1>1, <1>2, SetReceived
<1>4. ASSUME NEW x \in SeqNums, x # seq,
             Minus(s.end, x) < Size, Minus(s.end, seq) < Size
      PROVE  Slot(x) # Slot(seq)
  <2>1. Minus(x, seq) \in 1 .. Size - 1 \/ Minus(seq, x) \in 1 .. Size - 1
    BY <1>4, <1>0, HalfAssumption, SizeAssumption DEF Minus, SeqNums, Modulus
  <2>. QED
    BY <2>1, SlotsDiffer
<1>. QED
  BY <1>1, <1>3, <1>4 DEF t

-----------------------------------------------------------------------------
(***************************************************************************)
(* missingSeqNumbers(0), read as a set: the numbers above the mark and not *)
(* above end whose bit is clear.  Needs Size below half the number space:  *)
(* at exactly half the method gives up and returns nothing.                *)
(***************************************************************************)
LEMMA MissingIs ==
    ASSUME NEW s \in Log, Minus(s.end, s.lastConsecutive) < Half
    PROVE  missingSeqNumbers(s, 0) =
             {x \in SeqNums : /\ Minus(s.end, x) < Minus(s.end, s.lastConsecutive)
                              /\ ~getReceived(s, x)}
<1> DEFINE span == Minus(s.end, s.lastConsecutive)
           run  == {Plus(s.lastConsecutive, k) : k \in 1 .. span}
<1>0. s.end \in SeqNums /\ s.lastConsecutive \in SeqNums
  BY DEF Log
<1>1. Minus(s.end, 0) = s.end
  BY <1>0, HalfAssumption DEF Minus, SeqNums, Modulus
<1>2. missingSeqNumbers(s, 0) = {x \in run : ~getReceived(s, x)}
  <2>1. ~(span >= Uint16SizeHalf)
    BY <1>0, HalfAssumption DEF Uint16SizeHalf, SeqNums, Modulus, Minus
  <2>. QED
    BY <1>1, <2>1 DEF missingSeqNumbers
<1>3. run = {x \in SeqNums : Minus(s.end, x) < span}
  <2>1. ASSUME NEW k \in 1 .. span
        PROVE  /\ Plus(s.lastConsecutive, k) \in SeqNums
               /\ Minus(s.end, Plus(s.lastConsecutive, k)) < span
    BY <1>0, HalfAssumption DEF Minus, Plus, SeqNums, Modulus
  <2>2. ASSUME NEW x \in SeqNums, Minus(s.end, x) < span
        PROVE  \E k \in 1 .. span : x = Plus(s.lastConsecutive, k)
    <3>1. /\ span - Minus(s.end, x) \in 1 .. span
          /\ x = Plus(s.lastConsecutive, span - Minus(s.end, x))
      BY <2>2, <1>0, HalfAssumption DEF Minus, Plus, SeqNums, Modulus
    <3>. QED
      BY <3>1
  <2> HIDE DEF span
  <2>. QED
    BY <2>1, <2>2
<1> HIDE DEF run, span
<1>. QED
  BY <1>2, <1>3 DEF span

-----------------------------------------------------------------------------
\* A log as the methods leave it: its type, its bounded window, and a log nothing was
\* added to still is what newReceiveLog made.
GoodLog(s) ==
    /\ s \in Log
    /\ Minus(s.end, s.lastConsecutive) <= Size
    /\ ~s.started => s = newReceiveLog

\* A new log is good, and misses nothing.
LEMMA NewLog ==
    /\ GoodLog(newReceiveLog)
    /\ newReceiveLog.end = 0 /\ newReceiveLog.lastConsecutive = 0
    /\ newReceiveLog.started = FALSE
    /\ \A x \in SeqNums : ~getReceived(newReceiveLog, x)
<1>1. newReceiveLog \in Log /\ \A x \in SeqNums : ~getReceived(newReceiveLog, x)
  BY SlotType, HalfAssumption DEF newReceiveLog, getReceived, Log, SeqNums, Modulus
<1>2. Minus(newReceiveLog.end, newReceiveLog.lastConsecutive) <= Size
  BY SizeAssumption DEF newReceiveLog, Minus
<1>. QED
  BY <1>1, <1>2 DEF GoodLog, newReceiveLog

(***************************************************************************)
(* One call of add keeps the type of the log, the bound on its window, and *)
(* marks the log as started (receive_log.go, add).                         *)
(***************************************************************************)
LEMMA AddKeeps ==
    ASSUME NEW s, GoodLog(s), NEW seq \in SeqNums
    PROVE  GoodLog(add(s, seq)) /\ add(s, seq).started
<1> DEFINE t == add(s, seq)
<1>0. /\ s \in Log /\ Minus(s.end, s.lastConsecutive) <= Size
      /\ s.end \in SeqNums /\ s.lastConsecutive \in SeqNums
  BY DEF GoodLog, Log
<1>1. CASE ~s.started
  <2>1. s = newReceiveLog /\ t = addFirst(newReceiveLog, seq)
    BY <1>1 DEF GoodLog, add
  <2>2. Minus(seq, seq) <= Size
    BY HalfAssumption, SizeAssumption DEF Minus, SeqNums, Modulus
  <2>. QED
    BY <2>1, <2>2, AddFirst DEF GoodLog
<1>2. CASE s.started /\ seq = s.end
  BY <1>2 DEF add
<1>3. CASE s.started /\ IsAhead(seq, s.end)
  <2>1. t = addAhead(s, seq)
    BY <1>3 DEF add, IsAhead
  <2>. QED
    BY <1>0, <1>3, <2>1, AddAhead DEF GoodLog
<1>4. CASE s.started /\ seq # s.end /\ ~IsAhead(seq, s.end)
  <2>1. t = addLate(s, seq)
    BY <1>4 DEF add
  <2>2. /\ t \in Log /\ t.end = s.end /\ t.started
        /\ Minus(s.end, t.lastConsecutive) <= Minus(s.end, s.lastConsecutive)
    BY <1>0, <1>4, <2>1, AddLate
  <2>3. /\ Minus(s.end, t.lastConsecutive) \in Nat
        /\ Minus(s.end, s.lastConsecutive) \in Nat
        /\ Size \in Nat
    BY <1>0, <2>2, PlusMinusType, SizeAssumption DEF Log
  <2> HIDE DEF t
  <2>4. Minus(t.end, t.lastConsecutive) <= Size
    BY <1>0, <2>2, <2>3
  <2>. QED
    BY <2>2, <2>4 DEF GoodLog, t
<1>. QED
  BY <1>1, <1>2, <1>3, <1>4 DEF GoodLog

(***************************************************************************)
(* What missingSeqNumbers writes into its caller's slice, for every        *)
(* skipLastN that does not carry until past end, all the way round the     *)
(* number space: at most Size numbers, all of them in the window and at    *)
(* least skipLastN old (receive_log.go, missingSeqNumbers).                *)
(***************************************************************************)
LEMMA MissingBounded ==
    ASSUME NEW s, GoodLog(s), NEW skip \in SeqNums,
           skip <= Half + Minus(s.end, s.lastConsecutive)
    PROVE  /\ Cardinality(missingSeqNumbers(s, skip)) <= Size
           /\ \A x \in missingSeqNumbers(s, skip) :
                 x \in SeqNums /\ Minus(s.end, x) \in skip .. Size - 1
<1> DEFINE lc      == s.lastConsecutive
           until   == Minus(s.end, skip)
           span    == Minus(until, lc)
           missing == missingSeqNumbers(s, skip)
           rank    == [x \in missing |-> Minus(x, lc)]
<1>0. /\ s \in Log /\ Minus(s.end, lc) <= Size
      /\ s.end \in SeqNums /\ lc \in SeqNums
  BY DEF GoodLog, Log
<1>1. ASSUME NEW x \in missing
      PROVE  /\ x \in SeqNums
             /\ Minus(s.end, x) \in skip .. Size - 1
             /\ Minus(x, lc) \in 1 .. Size
  <2>1. ~(span >= Uint16SizeHalf) /\ \E k \in 1 .. span : x = Plus(lc, k)
    BY <1>1 DEF missingSeqNumbers
  <2>2. PICK k \in 1 .. span : x = Plus(lc, k)
    BY <2>1
  <2>3. Size \in Nat /\ Size <= Half /\ Half \in Nat /\ Half > 0
    BY SizeAssumption, HalfAssumption
  <2>4. skip <= Minus(s.end, lc) /\ span = Minus(s.end, lc) - skip
    BY <1>0, <2>1, <2>3 DEF Minus, SeqNums, Modulus, Uint16SizeHalf
  <2>5. Minus(s.end, lc) \in 0 .. Size /\ k \in 1 .. Minus(s.end, lc) - skip /\ skip \in Nat
    BY <1>0, <2>2, <2>3, <2>4 DEF Minus, SeqNums, Modulus
  <2>6. x \in SeqNums /\ Minus(x, lc) = k /\ Minus(s.end, x) = Minus(s.end, lc) - k
    <3> HIDE DEF span
    <3> QED  BY <1>0, <2>2, <2>3, <2>5 DEF Minus, Plus, SeqNums, Modulus
  <2> HIDE DEF span
  <2>. QED
    BY <2>3, <2>5, <2>6
<1>2. ASSUME NEW x \in SeqNums, NEW y \in SeqNums, Minus(x, lc) = Minus(y, lc)
      PROVE  x = y
  BY <1>0, <1>2, HalfAssumption DEF Minus, SeqNums, Modulus
<1> HIDE DEF missing
<1>3. rank \in Injection(missing, 1 .. Size)
  BY <1>1, <1>2 DEF Injection, IsInjective
<1>4. IsFiniteSet(1 .. Size) /\ Cardinality(1 .. Size) = Size
  BY FS_Interval, SizeAssumption
<1>5. Cardinality(missing) <= Size
  BY <1>3, <1>4, FS_Injection
<1>. QED
  BY <1>1, <1>5 DEF missing

\* So it is for every skipLastN up to half the number space.
LEMMA MissingInWindow ==
    ASSUME NEW s, GoodLog(s), NEW skip \in 0 .. Half
    PROVE  /\ Cardinality(missingSeqNumbers(s, skip)) <= Size
           /\ \A x \in missingSeqNumbers(s, skip) :
                 x \in SeqNums /\ Minus(s.end, x) < Size
<1>1. Minus(s.end, s.lastConsecutive) \in Nat
  BY PlusMinusType DEF GoodLog, Log
<1>2. skip \in SeqNums /\ skip \in Nat /\ skip <= Half + Minus(s.end, s.lastConsecutive)
  BY <1>1, HalfAssumption DEF SeqNums, Modulus
<1>3. /\ Cardinality(missingSeqNumbers(s, skip)) <= Size
      /\ \A x \in missingSeqNumbers(s, skip) :
            x \in SeqNums /\ Minus(s.end, x) \in skip .. Size - 1
  BY <1>2, MissingBounded
<1>. QED
  BY <1>2, <1>3, SizeAssumption

\* With skipLastN, what is missing among the newest skipLastN numbers is left out.
LEMMA MissingSkips ==
    ASSUME Size < Half, NEW s, GoodLog(s), NEW skip \in 0 .. Half
    PROVE  missingSeqNumbers(s, skip) =
               {x \in missingSeqNumbers(s, 0) : Minus(s.end, x) >= skip}
<1> DEFINE lc   == s.lastConsecutive
           e    == s.end
           span == Minus(Minus(e, skip), lc)
           run  == {Plus(lc, k) : k \in 1 .. span}
<1>0. /\ s \in Log /\ e \in SeqNums /\ lc \in SeqNums /\ Minus(e, lc) <= Size
      /\ Minus(e, lc) < Half /\ Minus(e, lc) \in Nat
  BY SizeAssumption, HalfAssumption, PlusMinusType DEF GoodLog, Log
<1>1. missingSeqNumbers(s, 0) =
          {x \in SeqNums : Minus(e, x) < Minus(e, lc) /\ ~getReceived(s, x)}
  BY <1>0, MissingIs
<1>2. missingSeqNumbers(s, skip) =
          IF span >= Uint16SizeHalf THEN {} ELSE {x \in run : ~getReceived(s, x)}
  BY DEF missingSeqNumbers
<1> HIDE DEF lc, e
<1>3. CASE Minus(e, lc) < skip
  <2>1. span >= Uint16SizeHalf
    BY <1>0, <1>3, HalfAssumption DEF Minus, SeqNums, Modulus, Uint16SizeHalf
  <2>2. ASSUME NEW x \in SeqNums, Minus(e, x) < Minus(e, lc)
        PROVE  ~(Minus(e, x) >= skip)
    BY <1>0, <1>3, <2>2, PlusMinusType
  <2>. QED
    BY <1>1, <1>2, <2>1, <2>2 DEF e
<1>4. CASE Minus(e, lc) >= skip
  <2>1. span = Minus(e, lc) - skip /\ ~(span >= Uint16SizeHalf) /\ span \in Nat
    BY <1>0, <1>4, HalfAssumption DEF Minus, SeqNums, Modulus, Uint16SizeHalf
  <2>2. ASSUME NEW k \in 1 .. span
        PROVE  /\ Plus(lc, k) \in SeqNums
               /\ Minus(e, Plus(lc, k)) < Minus(e, lc)
               /\ Minus(e, Plus(lc, k)) >= skip
    BY <1>0, <1>4, <2>1, HalfAssumption DEF Minus, Plus, SeqNums, Modulus
  <2>3. ASSUME NEW x \in SeqNums, Minus(e, x) < Minus(e, lc), Minus(e, x) >= skip
        PROVE  x \in run
    <3>1. Minus(x, lc) \in 1 .. span
      BY <1>0, <1>4, <2>1, <2>3, HalfAssumption DEF Minus, SeqNums, Modulus
    <3>2. Plus(lc, Minus(x, lc)) = x
      BY <1>0, PlusMinusType
    <3>. QED
      BY <3>1, <3>2
  <2> HIDE DEF span
  <2>4. \A x : x \in run <=> x \in SeqNums /\ Minus(e, x) < Minus(e, lc) /\ Minus(e, x) >= skip
    BY <2>2, <2>3
  <2> HIDE DEF run
  <2>. QED
    BY <1>1, <1>2, <2>1, <2>4 DEF e
<1>. QED
  BY <1>0, <1>3, <1>4

-----------------------------------------------------------------------------
\* The packets get answers for, the packets the log has.
Received(s) == {x \in SeqNums : get(s, x)}

(***************************************************************************)
(* The packets get answers for, read as a set: size <= 2^15 makes its      *)
(* first early return redundant.                                           *)
(***************************************************************************)
LEMMA ReceivedIs ==
    ASSUME NEW s \in Log
    PROVE  Received(s) =
             {x \in SeqNums : Minus(s.end, x) < Size /\ getReceived(s, x)}
<1>1. ASSUME NEW x \in SeqNums, Minus(s.end, x) < Size
      PROVE  Minus(s.end, x) < Uint16SizeHalf
  <2>1. /\ s.end \in SeqNums /\ Minus(s.end, x) \in Int
        /\ Size \in Int /\ Half \in Int /\ Size <= Half
    BY PlusMinusType, SizeAssumption, HalfAssumption DEF Log
  <2>. QED
    BY <1>1, <2>1 DEF Uint16SizeHalf
<1>. QED
  BY <1>1 DEF get, Received

(***************************************************************************)
(* A packet ahead of end: what is in between becomes missing, and what     *)
(* falls out of the window is forgotten.                                   *)
(***************************************************************************)
LEMMA AheadGaps ==
    ASSUME Size < Half, NEW s, GoodLog(s), s.started,
           NEW seq \in SeqNums, IsAhead(seq, s.end)
    PROVE  LET t == addAhead(s, seq)
           IN  /\ t.end = seq /\ t.started
               /\ Received(t) = {x \in Received(s) \cup {seq} : Minus(seq, x) < Size}
               /\ missingSeqNumbers(t, 0) =
                     {x \in missingSeqNumbers(s, 0)
                              \cup {x \in SeqNums : /\ x # s.end
                                                    /\ Minus(x, s.end) < Minus(seq, s.end)} :
                          Minus(seq, x) < Size}
<1> DEFINE t  == addAhead(s, seq)
           e  == s.end
           D  == Minus(seq, s.lastConsecutive)
           D1 == Minus(seq, t.lastConsecutive)
           E  == Minus(e, s.lastConsecutive)
<1>0. /\ s \in Log /\ e \in SeqNums /\ s.lastConsecutive \in SeqNums
      /\ E <= Size
      /\ Size \in Nat /\ Half \in Nat
  BY SizeAssumption, HalfAssumption
     DEF GoodLog, Log
<1>1. /\ t \in Log /\ t.end = seq /\ t.started = s.started
      /\ D1 <= Size /\ D1 <= D
      /\ \A x \in SeqNums : Minus(seq, x) < Size =>
            /\ getReceived(t, x) <=>
                  \/ x = seq
                  \/ getReceived(s, x) /\ ~(x # e /\ Minus(x, e) < Minus(seq, e))
            /\ D1 <= Minus(seq, x) /\ Minus(seq, x) < D => getReceived(t, x)
  BY <1>0, AddAhead
<1>2. /\ E \in Nat /\ D \in Nat /\ D1 \in Nat
      /\ \A x \in SeqNums : Minus(seq, x) \in Nat /\ Minus(e, x) \in Nat
  BY <1>0, <1>1, PlusMinusType DEF Log
<1>3. /\ missingSeqNumbers(s, 0) =
           {x \in SeqNums : Minus(e, x) < E /\ ~getReceived(s, x)}
      /\ missingSeqNumbers(t, 0) =
           {x \in SeqNums : Minus(seq, x) < D1 /\ ~getReceived(t, x)}
  <2>1. E < Half /\ D1 < Half
    BY <1>0, <1>1, <1>2
  <2>. QED
    BY <1>0, <1>1, <2>1, MissingIs
<1>4. /\ Received(s) =
           {x \in SeqNums : Minus(e, x) < Size /\ getReceived(s, x)}
      /\ Received(t) =
           {x \in SeqNums : Minus(seq, x) < Size /\ getReceived(t, x)}
  BY <1>0, <1>1, ReceivedIs
\* How a number's distance to the newest one changes with the slide.
<1>5. ASSUME NEW x \in SeqNums, Minus(seq, x) < Size
      PROVE  LET skipped == x # e /\ Minus(x, e) < Minus(seq, e)
             IN  /\ x # seq /\ ~skipped => /\ Minus(e, x) < Size
                                           /\ Minus(seq, x) < D => Minus(e, x) < E
                 /\ skipped => x # seq /\ Minus(seq, x) < D /\ ~(Minus(e, x) < Size)
                 /\ Minus(e, x) < E => x # seq /\ ~skipped /\ Minus(seq, x) < D
                 /\ Minus(e, x) < Size => ~skipped
  BY <1>0, <1>5 DEF Minus, SeqNums, Modulus, IsAhead, Uint16SizeHalf
<1> HIDE DEF E, D, D1, e, t
<1>6. Received(t) =
        {x \in Received(s) \cup {seq} : Minus(seq, x) < Size}
  BY <1>1, <1>4, <1>5
<1>7. missingSeqNumbers(t, 0) =
        {x \in missingSeqNumbers(s, 0)
                 \cup {x \in SeqNums : x # e /\ Minus(x, e) < Minus(seq, e)} :
             Minus(seq, x) < Size}
  <2>1. ASSUME NEW x \in SeqNums, Minus(seq, x) < Size
        PROVE  x \in missingSeqNumbers(t, 0) <=>
                  \/ x \in missingSeqNumbers(s, 0)
                  \/ x # e /\ Minus(x, e) < Minus(seq, e)
    <3>1. Minus(seq, x) < D1 => Minus(seq, x) < D
      BY <1>1, <1>2
    <3>2. Minus(seq, x) < D1 \/ D1 <= Minus(seq, x)
      BY <1>2
    <3>. QED
      BY <2>1, <1>1, <1>3, <1>5, <3>1, <3>2
  <2>2. \A x \in SeqNums : Minus(seq, x) < D1 => Minus(seq, x) < Size
    BY <1>0, <1>1, <1>2
  <2>. QED
    BY <2>1, <2>2, <1>3
<1>. QED
  BY <1>1, <1>6, <1>7 DEF e, t

(***************************************************************************)
(* A late packet fills its gap and disturbs no other, provided it is not   *)
(* older than the window.                                                  *)
(***************************************************************************)
LEMMA LateGaps ==
    ASSUME Size < Half, NEW s, GoodLog(s), s.started, NEW seq \in SeqNums,
           seq # s.end, ~IsAhead(seq, s.end), Minus(s.end, seq) < Size
    PROVE  LET t == addLate(s, seq)
           IN  /\ t.end = s.end /\ t.started
               /\ Received(t) = Received(s) \cup {seq}
               /\ missingSeqNumbers(t, 0) = missingSeqNumbers(s, 0) \ {seq}
<1> DEFINE t  == addLate(s, seq)
           e  == s.end
           E  == Minus(e, s.lastConsecutive)
           E1 == Minus(e, t.lastConsecutive)
<1>0. /\ s \in Log /\ e \in SeqNums /\ s.lastConsecutive \in SeqNums
      /\ E <= Size
      /\ Size \in Nat /\ Half \in Nat
  BY SizeAssumption, HalfAssumption
     DEF GoodLog, Log
<1>1. Minus(e, seq) < Size
  OBVIOUS
<1>2. /\ t \in Log /\ t.end = e /\ t.started = s.started
      /\ E1 <= E
      /\ \A x \in SeqNums :
            /\ Minus(e, x) < Size =>
                  (getReceived(t, x) <=> x = seq \/ getReceived(s, x))
            /\ E1 <= Minus(e, x) /\ Minus(e, x) < E => getReceived(t, x)
  BY <1>0, <1>1, AddLate
<1>3. /\ E \in Nat /\ E1 \in Nat
      /\ \A x \in SeqNums : Minus(e, x) \in Nat
  BY <1>0, <1>2, PlusMinusType DEF Log
<1>4. /\ missingSeqNumbers(s, 0) =
           {x \in SeqNums : Minus(e, x) < E /\ ~getReceived(s, x)}
      /\ missingSeqNumbers(t, 0) =
           {x \in SeqNums : Minus(e, x) < E1 /\ ~getReceived(t, x)}
  <2>1. E < Half /\ E1 < Half
    BY <1>0, <1>2, <1>3
  <2>. QED
    BY <1>0, <1>2, <2>1, MissingIs
<1>5. /\ Received(s) =
           {x \in SeqNums : Minus(e, x) < Size /\ getReceived(s, x)}
      /\ Received(t) =
           {x \in SeqNums : Minus(e, x) < Size /\ getReceived(t, x)}
  BY <1>0, <1>2, ReceivedIs
<1> HIDE DEF E, E1, e, t
<1>6. Received(t) = Received(s) \cup {seq}
  BY <1>1, <1>2, <1>5
<1>7. missingSeqNumbers(t, 0) = missingSeqNumbers(s, 0) \ {seq}
  <2>1. ASSUME NEW x \in SeqNums
        PROVE  x \in missingSeqNumbers(t, 0) <=>
                  x \in missingSeqNumbers(s, 0) /\ x # seq
    <3>1. Minus(e, x) < E1 => Minus(e, x) < E
      BY <1>2, <1>3
    <3>2. Minus(e, x) < E => Minus(e, x) < Size
      BY <1>0, <1>3
    <3>3. Minus(e, x) < E1 \/ E1 <= Minus(e, x)
      BY <1>3
    <3>. QED
      BY <1>2, <1>4, <3>1, <3>2, <3>3
  <2>. QED
    BY <2>1, <1>4
<1>. QED
  BY <1>2, <1>6, <1>7 DEF e, t

\* The first packet of a stream is its newest and all it has.
LEMMA FirstGaps ==
    ASSUME NEW seq \in SeqNums
    PROVE  LET t == addFirst(newReceiveLog, seq)
           IN  /\ t.end = seq /\ t.started
               /\ Received(t) = {seq}
               /\ missingSeqNumbers(t, 0) = {}
<1> DEFINE t == addFirst(newReceiveLog, seq)
<1>1. /\ t \in Log /\ t.end = seq /\ t.started
      /\ t.lastConsecutive = seq
      /\ \A x \in SeqNums : Minus(seq, x) < Size => (getReceived(t, x) <=> x = seq)
  BY AddFirst
<1> HIDE DEF t
<1>2. /\ Minus(seq, seq) = 0 /\ 0 < Half /\ 0 < Size
      /\ \A x \in SeqNums : ~(Minus(seq, x) < 0)
  BY HalfAssumption, SizeAssumption DEF Minus, SeqNums, Modulus
<1>3. missingSeqNumbers(t, 0) = {}
  BY <1>1, <1>2, MissingIs
<1>4. Received(t) = {seq}
  BY <1>1, <1>2, ReceivedIs
<1>. QED
  BY <1>1, <1>3, <1>4 DEF t
=============================================================================
