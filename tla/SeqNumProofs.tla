---------------------------- MODULE SeqNumProofs ----------------------------
(***************************************************************************)
(* Arithmetic of wrapping sequence numbers, and of rings whose size        *)
(* divides the number space, for every width: what the proofs about the    *)
(* receive log and the retransmission buffer rest on.                      *)
(***************************************************************************)
EXTENDS SeqNum, TLAPS

\* Sums and differences are sequence numbers, and undo each other.
LEMMA PlusMinusType ==
    ASSUME NEW a \in SeqNums, NEW b \in SeqNums
    PROVE  /\ Minus(a, b) \in SeqNums
           /\ Plus(a, b) \in SeqNums
           /\ SeqNums \subseteq Nat
           /\ Minus(Plus(a, b), a) = b
           /\ Plus(a, Minus(b, a)) = b
BY HalfAssumption DEF Minus, Plus, SeqNums, Modulus

\* Only a number itself is at distance zero.
LEMMA MinusZero ==
    ASSUME NEW a \in SeqNums, NEW b \in SeqNums
    PROVE  Minus(a, b) = 0 <=> a = b
BY HalfAssumption DEF Minus, SeqNums, Modulus

\* Distances add up as long as they stay below a full turn.
LEMMA MinusSum ==
    ASSUME NEW a \in SeqNums, NEW b \in SeqNums, NEW c \in SeqNums,
           Minus(a, b) + Minus(b, c) < Modulus
    PROVE  Minus(a, c) = Minus(a, b) + Minus(b, c)
BY HalfAssumption DEF Minus, SeqNums, Modulus

-----------------------------------------------------------------------------
\* B is the size of a ring that the numbers fill a whole number of times.
Divides(B) == B \in Nat \ {0} /\ \E k \in 1 .. Modulus : Modulus = k * B

\* A number is a multiple of the ring's size and a slot.
LEMMA SlotQuotient ==
    ASSUME NEW B, Divides(B), NEW a \in SeqNums
    PROVE  a % B \in 0 .. B - 1 /\ \E q \in Int : a = B * q + (a % B)
<1>1. a = B * (a \div B) + (a % B) /\ a \div B \in Int /\ a % B \in 0 .. B - 1
  BY HalfAssumption DEF Divides, SeqNums, Modulus
<1>. QED
  BY <1>1, Zenon

\* Multiples of the size are at least the size, or not positive.
LEMMA ScaleSize ==
    ASSUME NEW B \in Nat \ {0}, NEW q \in Int
    PROVE  (q >= 1 => B * q >= B) /\ (q <= 0 => B * q <= 0)
OBVIOUS

\* Numbers less than the size apart fall into different slots, across the
\* wrap-around too.
LEMMA SlotsApart ==
    ASSUME NEW B, Divides(B), NEW a \in SeqNums, NEW b \in SeqNums,
           Minus(a, b) \in 1 .. B - 1
    PROVE  a % B # b % B
<1> SUFFICES ASSUME a % B = b % B PROVE FALSE
  OBVIOUS
<1>1. PICK qa \in Int : a = B * qa + (a % B)
  BY SlotQuotient
<1>2. PICK qb \in Int : b = B * qb + (b % B)
  BY SlotQuotient
<1>3. PICK k \in 1 .. Modulus : Modulus = k * B
  BY DEF Divides
<1>4. B \in Nat \ {0} /\ a \in Int /\ b \in Int /\ a % B \in Int /\ k \in Int /\ Modulus \in Int
  BY SlotQuotient, HalfAssumption DEF Divides, SeqNums, Modulus
<1>5. CASE a >= b
  <2>1. a - b = B * (qa - qb)
    BY <1>1, <1>2, <1>4
  <2>. QED
    BY <2>1, <1>4, <1>5, ScaleSize DEF Minus
<1>6. CASE a < b
  <2>1. B * (qa - qb + k) = B * qa - B * qb + k * B
    BY <1>4
  <2>2. a - b + Modulus = B * (qa - qb + k)
    BY <1>1, <1>2, <1>3, <1>4, <2>1
  <2>. QED
    BY <2>2, <1>4, <1>6, ScaleSize DEF Minus
<1>. QED
  BY <1>4, <1>5, <1>6

\* Slots that differ by a multiple of the size are the same.
LEMMA SlotsEqual ==
    ASSUME NEW B \in Nat \ {0}, NEW r \in 0 .. B - 1, NEW t \in 0 .. B - 1, NEW q \in Int,
           r - t = B * q
    PROVE  r = t
<1>1. (q >= 1 => B * q >= B) /\ (-q >= 1 => B * (-q) >= B) /\ B * (-q) = -(B * q)
  BY ScaleSize
<1>2. q = 0
  BY <1>1
<1>. QED
  BY <1>2

\* The number one size newer falls into the same slot.
LEMMA SlotsRepeat ==
    ASSUME NEW B, Divides(B), B < Modulus, NEW a \in SeqNums
    PROVE  Plus(a, B) % B = a % B
<1> DEFINE b == Plus(a, B)
<1>1. PICK k \in 1 .. Modulus : Modulus = k * B
  BY DEF Divides
<1>2. B \in Nat \ {0} /\ a \in Int /\ Modulus \in Int /\ b \in SeqNums /\ b \in Int /\ k \in Int
  BY HalfAssumption, <1>1 DEF Divides, SeqNums, Modulus, Plus
<1>3. PICK ra \in 0 .. B - 1, qa \in Int : ra = a % B /\ a = B * qa + ra
  BY SlotQuotient
<1>4. PICK rb \in 0 .. B - 1, qb \in Int : rb = b % B /\ b = B * qb + rb
  BY SlotQuotient, <1>2, Zenon
<1>5. \E q \in Int : b - a = B * q
  <2>1. b - a = B \/ b - a = B - k * B
    BY <1>1, <1>2 DEF Plus
  <2>2. B * 1 = B /\ B * (1 - k) = B - k * B /\ 1 \in Int /\ 1 - k \in Int
    BY <1>2
  <2>3. b - a = B * 1 \/ b - a = B * (1 - k)
    BY <2>1, <2>2
  <2> HIDE DEF b
  <2>. QED
    BY <2>2, <2>3, Zenon
<1>6. PICK q \in Int : b - a = B * q
  BY <1>5
<1>7. rb - ra = B * (q - qb + qa) /\ q - qb + qa \in Int
  <2>1. a = B * qa + ra /\ b = B * qb + rb /\ a \in Int /\ b \in Int
    BY <1>2, <1>3, <1>4
  <2>2. B * (q - qb + qa) = B * q - B * qb + B * qa
    BY <1>2
  <2>3. B * q \in Int /\ B * qb \in Int /\ B * qa \in Int
    BY <1>2
  <2> HIDE DEF b
  <2>. QED
    BY <2>1, <2>2, <2>3, <1>6
<1>8. ra = rb
  BY <1>2, <1>7, SlotsEqual
<1>. QED
  BY <1>3, <1>4, <1>8

\* When the newest number moves from h to seq, the slots passed on the way are exactly
\* those of the numbers that leave the window of the B newest.
LEMMA PassedSlots ==
    ASSUME NEW B, Divides(B), B <= Half,
           NEW h \in SeqNums, NEW seq \in SeqNums, IsAhead(seq, h),
           NEW y \in SeqNums, Minus(h, y) < B
    PROVE  y % B \in {Plus(h, k) % B : k \in 1 .. Minus(seq, h)} <=> Minus(seq, y) >= B
<1> DEFINE d == Minus(seq, h)
           a == Minus(h, y)
<1>0. B \in Nat \ {0} /\ B < Modulus
  BY HalfAssumption DEF Divides, Modulus
<1>1. d \in Nat /\ a \in Nat /\ d < Half /\ d >= 1 /\ a < B
  <2>1. d \in SeqNums /\ a \in SeqNums /\ SeqNums \subseteq Nat /\ d # 0
    BY PlusMinusType, MinusZero DEF IsAhead
  <2>2. d \in Nat /\ a \in Nat /\ d # 0
    BY <2>1, Zenon
  <2>. QED
    BY <2>2 DEF IsAhead, Uint16SizeHalf
<1>2. Minus(seq, y) = d + a
  BY <1>0, <1>1, MinusSum, HalfAssumption DEF Modulus
<1>3. ASSUME NEW k \in 1 .. d
      PROVE  Plus(h, k) \in SeqNums /\ Minus(Plus(h, k), h) = k
  <2>1. k \in SeqNums
    BY <1>1, HalfAssumption DEF SeqNums, Modulus
  <2>. QED
    BY <2>1, PlusMinusType
<1>4. ASSUME NEW k \in 1 .. d, d + a < B
      PROVE  y % B # Plus(h, k) % B
  <2>1. Minus(Plus(h, k), y) = k + a
    <3>1. Minus(Plus(h, k), h) + Minus(h, y) < Modulus
      BY <1>0, <1>1, <1>3, <1>4, HalfAssumption DEF Modulus
    <3>. QED
      BY <1>3, <3>1, MinusSum
  <2>2. Minus(Plus(h, k), y) \in 1 .. B - 1
    BY <1>0, <1>1, <1>4, <2>1
  <2>. QED
    BY <1>3, <2>2, SlotsApart
<1>5. ASSUME d + a >= B
      PROVE  \E k \in 1 .. d : y % B = Plus(h, k) % B
  <2> DEFINE k == B - a
  <2>1. k \in 1 .. d /\ k + a = B
    BY <1>0, <1>1, <1>5
  <2> HIDE DEF k
  <2>2. Minus(Plus(h, k), y) = B
    BY <1>0, <1>1, <1>3, <2>1, MinusSum
  <2>3. Plus(y, B) = Plus(h, k)
    BY <1>3, <2>1, <2>2, PlusMinusType
  <2>4. Plus(h, k) % B = y % B
    BY <1>0, <2>3, SlotsRepeat
  <2>. QED
    BY <2>1, <2>4
<1> HIDE DEF d, a
<1>6. d + a < B \/ d + a >= B
  BY <1>0, <1>1
<1>7. y % B \in {Plus(h, k) % B : k \in 1 .. d} <=> d + a >= B
  BY <1>0, <1>1, <1>4, <1>5, <1>6
<1>. QED
  BY <1>2, <1>7 DEF d

\* Two numbers of the window with the same slot are the same number.
LEMMA OneNumberPerSlot ==
    ASSUME NEW B, Divides(B), B <= Half,
           NEW h \in SeqNums, NEW y \in SeqNums, NEW z \in SeqNums,
           Minus(h, y) < B, Minus(h, z) < B, y % B = z % B
    PROVE  y = z
<1> SUFFICES ASSUME y # z PROVE FALSE
  OBVIOUS
<1>1. B \in Nat \ {0}
  BY DEF Divides
<1>2. Minus(y, z) \in 1 .. B - 1 \/ Minus(z, y) \in 1 .. B - 1
  BY <1>1, HalfAssumption DEF Minus, SeqNums, Modulus
<1>. QED
  BY <1>2, SlotsApart

-----------------------------------------------------------------------------
\* A ring holds a number, or Vacant, in each of its slots.  Its window is the numbers
\* found in their slots among the B newest, h being the newest.
Vacant == -1
RingWindow(B, h, ring) == {y \in SeqNums : Minus(h, y) < B /\ ring[y % B] = y}

\* The numbers of a ring are in their slots and in its window.
RingRight(B, h, ring) ==
    \A i \in 0 .. B - 1 : ring[i] # Vacant =>
        ring[i] \in SeqNums /\ ring[i] % B = i /\ Minus(h, ring[i]) < B

\* Storing seq, with the slots in c vacated first.
RingStores(B, seq, c, old, new) ==
    \A i \in 0 .. B - 1 :
        new[i] = IF i = seq % B THEN seq ELSE IF i \in c THEN Vacant ELSE old[i]

\* What holds of a slot's number in the window.
LEMMA InRingWindow ==
    ASSUME NEW B, Divides(B), NEW h \in SeqNums, NEW ring, NEW y
    PROVE  y \in RingWindow(B, h, ring) <=>
               /\ y \in SeqNums /\ y % B \in 0 .. B - 1
               /\ Minus(h, y) < B /\ ring[y % B] = y
BY SlotQuotient DEF RingWindow

\* The first number stored is all there is.
LEMMA RingFirst ==
    ASSUME NEW B, Divides(B), NEW seq \in SeqNums, NEW old, NEW new,
           \A i \in 0 .. B - 1 : old[i] = Vacant,
           RingStores(B, seq, {seq % B}, old, new)
    PROVE  RingRight(B, seq, new) /\ RingWindow(B, seq, new) = {seq}
<1>1. B \in Nat \ {0} /\ Minus(seq, seq) = 0 /\ seq % B \in 0 .. B - 1
  BY MinusZero, SlotQuotient, Zenon DEF Divides
<1>2. \A i \in 0 .. B - 1 : new[i] = IF i = seq % B THEN seq ELSE Vacant
  BY DEF RingStores
<1>3. ASSUME NEW y \in RingWindow(B, seq, new)
      PROVE  y = seq
  <2>1. y \in SeqNums /\ y % B \in 0 .. B - 1 /\ new[y % B] = y
    BY <1>3, InRingWindow
  <2>2. y # Vacant
    BY <2>1, HalfAssumption DEF SeqNums, Modulus, Vacant
  <2>. QED
    BY <1>2, <2>1, <2>2
<1>4. seq \in RingWindow(B, seq, new)
  BY <1>1, <1>2, InRingWindow
<1>5. RingRight(B, seq, new)
  BY <1>1, <1>2 DEF RingRight
<1>. QED
  BY <1>3, <1>4, <1>5, Zenon

\* A number ahead of the newest moves the window up to it, and the slots it passes lose
\* exactly the numbers that leave the window.
LEMMA RingAdvances ==
    ASSUME NEW B, Divides(B), B <= Half, NEW h \in SeqNums, NEW seq \in SeqNums,
           IsAhead(seq, h), NEW old, NEW new, RingRight(B, h, old),
           RingStores(B, seq, {Plus(h, k) % B : k \in 1 .. Minus(seq, h)}, old, new)
    PROVE  /\ RingRight(B, seq, new)
           /\ RingWindow(B, seq, new) =
                  {y \in RingWindow(B, h, old) \cup {seq} : Minus(seq, y) < B}
<1> DEFINE c == {Plus(h, k) % B : k \in 1 .. Minus(seq, h)}
<1>1. B \in Nat \ {0} /\ Minus(seq, seq) = 0 /\ seq % B \in 0 .. B - 1
  BY MinusZero, SlotQuotient, Zenon DEF Divides
<1>2. new[seq % B] = seq
  BY <1>1 DEF RingStores
<1>3. ASSUME NEW i \in 0 .. B - 1, i # seq % B
      PROVE  new[i] = IF i \in c THEN Vacant ELSE old[i]
  BY <1>3 DEF RingStores
<1>4. ASSUME NEW y \in SeqNums, Minus(h, y) < B
      PROVE  y % B \notin c <=> Minus(seq, y) < B
  <2>1. y % B \in c <=> Minus(seq, y) >= B
    BY <1>4, PassedSlots
  <2>2. Minus(seq, y) \in Nat
    BY PlusMinusType, Zenon
  <2>. QED
    BY <1>1, <2>1, <2>2
<1> HIDE DEF c
<1>5. ASSUME NEW i \in 0 .. B - 1, i # seq % B, new[i] # Vacant
      PROVE  /\ i \notin c /\ new[i] = old[i]
             /\ new[i] \in SeqNums /\ new[i] % B = i
             /\ Minus(h, new[i]) < B /\ Minus(seq, new[i]) < B
  <2>1. i \notin c /\ new[i] = old[i]
    BY <1>3, <1>5
  <2>2. new[i] \in SeqNums /\ new[i] % B = i /\ Minus(h, new[i]) < B
    BY <1>5, <2>1 DEF RingRight
  <2>. QED
    BY <1>4, <2>1, <2>2
<1>6. RingRight(B, seq, new)
  BY <1>1, <1>2, <1>5 DEF RingRight
<1>7. ASSUME NEW y \in RingWindow(B, seq, new)
      PROVE  y \in RingWindow(B, h, old) \cup {seq} /\ Minus(seq, y) < B
  <2>1. y \in SeqNums /\ y % B \in 0 .. B - 1 /\ Minus(seq, y) < B /\ new[y % B] = y
    BY <1>7, InRingWindow
  <2>2. y # Vacant
    BY <2>1, HalfAssumption DEF SeqNums, Modulus, Vacant
  <2>3. CASE y % B = seq % B
    BY <1>2, <2>1, <2>3
  <2>4. CASE y % B # seq % B
    BY <1>5, <2>1, <2>2, <2>4, InRingWindow
  <2>. QED
    BY <2>3, <2>4
<1>8. ASSUME NEW y \in RingWindow(B, h, old), Minus(seq, y) < B
      PROVE  y \in RingWindow(B, seq, new)
  <2>1. y \in SeqNums /\ y % B \in 0 .. B - 1 /\ Minus(h, y) < B /\ old[y % B] = y
    BY <1>8, InRingWindow
  <2>2. y % B \notin c
    BY <1>4, <1>8, <2>1
  <2>3. CASE y % B = seq % B
    <3>1. y = seq
      BY <1>1, <1>8, <2>1, <2>3, OneNumberPerSlot
    <3>. QED
      BY <1>1, <1>2, <3>1, InRingWindow
  <2>4. CASE y % B # seq % B
    BY <1>3, <1>8, <2>1, <2>2, <2>4, InRingWindow
  <2>. QED
    BY <2>3, <2>4
<1>9. seq \in RingWindow(B, seq, new)
  BY <1>1, <1>2, InRingWindow
<1>. QED
  BY <1>6, <1>7, <1>8, <1>9, Zenon

\* A late number of the window takes its slot, which no other number of the window has.
LEMMA RingLate ==
    ASSUME NEW B, Divides(B), B <= Half, NEW h \in SeqNums, NEW seq \in SeqNums,
           Minus(h, seq) < B, NEW old, NEW new, RingRight(B, h, old),
           RingStores(B, seq, {seq % B}, old, new)
    PROVE  /\ RingRight(B, h, new)
           /\ RingWindow(B, h, new) = RingWindow(B, h, old) \cup {seq}
<1>1. seq % B \in 0 .. B - 1
  BY SlotQuotient
<1>2. \A i \in 0 .. B - 1 : new[i] = IF i = seq % B THEN seq ELSE old[i]
  BY DEF RingStores
<1>3. RingRight(B, h, new)
  BY <1>1, <1>2 DEF RingRight
<1>4. ASSUME NEW y \in RingWindow(B, h, new)
      PROVE  y \in RingWindow(B, h, old) \cup {seq}
  BY <1>2, <1>4, InRingWindow
<1>5. ASSUME NEW y \in RingWindow(B, h, old)
      PROVE  y \in RingWindow(B, h, new)
  <2>1. y \in SeqNums /\ y % B \in 0 .. B - 1 /\ Minus(h, y) < B /\ old[y % B] = y
    BY <1>5, InRingWindow
  <2>2. y % B = seq % B => y = seq
    BY <2>1, OneNumberPerSlot
  <2>. QED
    BY <1>2, <2>1, <2>2, InRingWindow
<1>6. seq \in RingWindow(B, h, new)
  BY <1>1, <1>2, InRingWindow
<1>. QED
  BY <1>3, <1>4, <1>5, <1>6, Zenon
=============================================================================
