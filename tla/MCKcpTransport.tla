--------------------------- MODULE MCKcpTransport ---------------------------
(* The values of KcpTransport's constants for the TLC runs. *)
EXTENDS KcpTransport

\* Each program sends one message.
OneEach == [n \in Node |-> 1]

\* The client sends two messages.
TwoMessages == [n \in Node |-> IF n = "client" THEN 2 ELSE 0]

\* Both programs call omni_recv over and over.
BothPoll == Node

\* The client's end is the tx_ctx of a relay, which only sends.
OnlyServerPolls == {"server"}
=============================================================================
