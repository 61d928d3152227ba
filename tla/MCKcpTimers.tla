---------------------------- MODULE MCKcpTimers -----------------------------
(* The values of KcpTimers' constants that the TLC run Timers uses. *)
EXTENDS KcpTimers

\* The clock wraps around in the third millisecond.
Begin == {Modulus - 3}

\* An answer within the least timeout, and one after it.
Rtt == {1, 5}

\* A pause of more than the interval, and one that is taken for a
\* jump of the clock.
Pauses == {3, 6}

\* The run is an instance of the theorems about the clock.
ASSUME RunIsInstance == Lifetime
=============================================================================
