--------------------------- MODULE ReliableChannel ---------------------------
(***************************************************************************)
(* What a message transport of OmniSocket promises the two programs at its *)
(* ends: each end submits messages, and the other end is handed exactly    *)
(* those messages, whole, in order and once each.  Nothing is said about   *)
(* how.  A message is cut into fragments; the last one carries frg = 0.    *)
(***************************************************************************)
EXTENDS Integers, Sequences

CONSTANT MaxCount   \* the largest number of fragments one message is cut into

VARIABLES
    sent,   \* sent[n]: every fragment node n's program has submitted, in order
    got     \* got[n]: every fragment handed to node n's program, in order

Node == {"client", "server"}
Peer(n) == IF n = "client" THEN "server" ELSE "client"

\* The fragments of message number m, numbered down to 0.
Fragments(m, count) == [i \in 1..count |-> [msg |-> m, frg |-> count - i]]

\* The number of the next message in a history of fragments.
NextMsg(history) ==
    IF history = <<>> THEN 1 ELSE history[Len(history)].msg + 1

Init ==
    /\ sent = [n \in Node |-> <<>>]
    /\ got  = [n \in Node |-> <<>>]

Submit(n) ==
    /\ \E count \in 1..MaxCount :
          sent' = [sent EXCEPT ![n] = @ \o Fragments(NextMsg(@), count)]
    /\ UNCHANGED got

\* The program at n is handed the next whole message of its peer.
Deliver(n) ==
    /\ \E k \in (Len(got[n]) + 1)..Len(sent[Peer(n)]) :
          /\ sent[Peer(n)][k].frg = 0
          /\ \A i \in (Len(got[n]) + 1)..(k - 1) : sent[Peer(n)][i].frg # 0
          /\ got' = [got EXCEPT ![n] = SubSeq(sent[Peer(n)], 1, k)]
    /\ UNCHANGED sent

Next == \E n \in Node : Submit(n) \/ Deliver(n)

vars == <<sent, got>>

Spec == Init /\ [][Next]_vars
=============================================================================
