---------------------------- MODULE KcpTransport ----------------------------
(***************************************************************************)
(* The KCP transport (src/protocols/kcp_impl.c) at both ends: the engine   *)
(* of module Ikcp has no thread of its own, and runs only while a program  *)
(* is inside omni_send or omni_recv.  A call is several steps, one for     *)
(* each call of the engine it makes.                                       *)
(*                                                                         *)
(* The calls on one context are taken one at a time; what happens when two *)
(* threads make them together is the matter of module KcpRace.  As in      *)
(* Ikcp, time is a free choice.                                            *)
(***************************************************************************)
EXTENDS Ikcp

CONSTANT Polled     \* the nodes whose program calls omni_recv again and again

ASSUME PolledAssumption == Polled \subseteq Node

VARIABLES
    at,         \* where in kcp_send or kcp_recv the program is
    updated,    \* kcp->updated: was there an ikcp_update
    peer_addr   \* does the context know where to send to

transportVars == <<vars, at, updated, peer_addr>>

\* kcp_init: a client is given the address of its peer, a server is not.
TransportInit ==
    /\ Init
    /\ at = [n \in Node |-> "out"]
    /\ updated = [n \in Node |-> FALSE]
    /\ peer_addr = [n \in Node |-> n = "client"]

Goes(n, from, to) == at[n] = from /\ at' = [at EXCEPT ![n] = to]

\* kcp_send queues the message.  One that ikcp_send refuses is an error, and
\* changes nothing.
KcpSend(n, count) ==
    /\ Goes(n, "out", "s_update")
    /\ IkcpSend(n, count)
    /\ UNCHANGED <<updated, peer_addr>>

\* Where kcp_update_loop begins: after ikcp_send, or with the call of kcp_recv.
EntersLoop(n) ==
    \/ Goes(n, "s_update", "s_input")
    \/ n \in Polled /\ Goes(n, "out", "r_input")

\* ikcp_update in kcp_update_loop: it flushes the first time, and then if the
\* interval has passed.  Without an address sendto fails, and nobody looks at its
\* result.
Update(n) ==
    /\ EntersLoop(n)
    /\ updated' = [updated EXCEPT ![n] = TRUE]
    /\ \/ peer_addr[n] /\ Flush(n)
       \/ ~peer_addr[n] /\ \E expired \in BOOLEAN : IkcpFlush(n, expired, {})
       \/ updated[n] /\ UNCHANGED vars
    /\ UNCHANGED peer_addr

\* Fault: the sender's address is not taken over.
ReadDatagramOnly(n) ==
    /\ at[n] \in {"s_input", "r_input"}
    /\ Input(n)
    /\ UNCHANGED <<at, updated, peer_addr>>

\* recvfrom and ikcp_input in kcp_update_loop, for one segment of the datagram;
\* its sender becomes the peer.
ReadDatagram(n) ==
    /\ at[n] \in {"s_input", "r_input"}
    /\ Input(n)
    /\ peer_addr' = [peer_addr EXCEPT ![n] = TRUE]
    /\ UNCHANGED <<at, updated>>

\* The datagram has no more segments, or there is none: kcp_send returns.
LeavesLoop(n) ==
    /\ Goes(n, "s_input", "out") \/ Goes(n, "r_input", "r_take")
    /\ UNCHANGED <<vars, updated, peer_addr>>

\* The end of kcp_recv: a message, or 0 at once when there is none.
TakeMessage(n) ==
    /\ Goes(n, "r_take", "out")
    /\ \/ IkcpRecv(n)
       \/ /\ \A k \in 1..RecvCap : ~WholeMessage(rcv_queue[n], k)
          /\ UNCHANGED vars
    /\ UNCHANGED <<updated, peer_addr>>

TransportNext ==
    \E n \in Node :
        \/ \E count \in 1..MaxFrags : KcpSend(n, count)
        \/ Update(n) \/ ReadDatagram(n) \/ LeavesLoop(n) \/ TakeMessage(n)

TransportSpec == TransportInit /\ [][TransportNext]_transportVars

\* Threads go on, datagrams end, timers run out, and the network does not lose
\* one kind of segment for ever nor repeat one for ever.  Nobody need send.
TransportFairness ==
    \A n \in Node :
        /\ WF_transportVars(Update(n))
        /\ WF_transportVars(LeavesLoop(n))
        /\ WF_transportVars(TakeMessage(n))
        /\ \A cmd \in {"PUSH", "ACK", "WASK", "WINS"} :
              SF_transportVars(Update(n) /\ FlushThrough(n, cmd))
        /\ SF_transportVars(ReadDatagram(n) /\ InputOnce(n))

FairTransport == TransportSpec /\ TransportFairness
-----------------------------------------------------------------------------
\* What omni_send has accepted reaches the program at the other end, in the
\* server's direction once the client has sent anything: lost and overtaken
\* segments and lost acknowledgements are repaired with no other clock than
\* the calls themselves.
Delivers ==
    <>[](\A n \in Node : n = "client" \/ sent["client"] # <<>> =>
            Len(got[Peer(n)]) = Len(sent[n]))
=============================================================================
