------------------------------- MODULE MCIkcp -------------------------------
(* The values of Ikcp's function-valued constant for the TLC runs. *)
EXTENDS Ikcp

\* The client sends two messages.
TwoMessages == [n \in Node |-> IF n = "client" THEN 2 ELSE 0]

\* The client sends three messages.
ThreeMessages == [n \in Node |-> IF n = "client" THEN 3 ELSE 0]
=============================================================================
