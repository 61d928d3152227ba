---------------------------- MODULE SerialNumber ----------------------------
(***************************************************************************)
(* The arithmetic of IUINT32 in src/protocols/ikcp.c.  Sequence numbers    *)
(* and time stamps are words of 2 * Half values that wrap around, and are  *)
(* compared by their signed difference.                                    *)
(***************************************************************************)
EXTENDS Integers

CONSTANT Half       \* 2^31

ASSUME HalfAssumption == Half \in Nat \ {0}

Modulus == 2 * Half
Word == 0..(Modulus - 1)

\* An addition of IUINT32.
Plus(a, k) == (a + k) % Modulus

\* Fault: the words are compared as they are.
PlainDiff(later, earlier) == later - earlier

\* _itimediff: the difference, cast to a signed 32-bit integer.
TimeDiff(later, earlier) ==
    LET d == (later - earlier) % Modulus IN IF d < Half THEN d ELSE d - Modulus
=============================================================================
