----------------------------- MODULE Unwrapper -----------------------------
(* internal/sequencenumber: 16 bit sequence numbers to numbers that grow.   *)
EXTENDS Integers

CONSTANT Half       \* half of the range of sequence numbers: 2^15

ASSUME HalfAssumption == Half \in Nat \ {0}

Modulus == 2 * Half

NewUnwrapper == [init |-> FALSE, last |-> 0]

isNewer(value, previous) ==
    LET ahead == (value - previous) % Modulus
    IN  IF ahead = Half THEN value > previous ELSE ahead # 0 /\ ahead < Half

\* An older number is placed behind the last one, unless that is negative: then it
\* is placed a cycle ahead.
Unwrap(u, i) ==
    IF ~u.init
    THEN [init |-> TRUE, last |-> i]
    ELSE LET delta == (i - u.last) % Modulus
         IN  [u EXCEPT !.last = @ +
                 (IF ~isNewer(i, @ % Modulus) /\ delta > 0 /\ @ + delta - Modulus >= 0
                  THEN delta - Modulus
                  ELSE delta)]
=============================================================================
