------------------------- MODULE KcpTransportProofs -------------------------
(***************************************************************************)
(* The KCP transport, whose calls are cut into several steps, takes only   *)
(* steps of module Ikcp: what is proved of the engine holds of             *)
(* messages sent with omni_send and received with omni_recv, whoever calls *)
(* how often.                                                              *)
(***************************************************************************)
EXTENDS KcpTransport, IkcpQueueProofs

LEMMA StepUsesEngine == TransportNext => Next \/ UNCHANGED vars
<1> SUFFICES ASSUME TransportNext
             PROVE  Next \/ UNCHANGED vars
  OBVIOUS
<1>1. PICK n \in Node :
        \/ \E count \in 1..MaxFrags : KcpSend(n, count)
        \/ Update(n) \/ ReadDatagram(n) \/ LeavesLoop(n) \/ TakeMessage(n)
  BY DEF TransportNext
<1>2. CASE \E count \in 1..MaxFrags : KcpSend(n, count)
  BY <1>2 DEF KcpSend, Next
<1>3. CASE Update(n)
  <2>1. CASE Flush(n)
    BY <2>1 DEF Next
  <2>2. CASE \E expired \in BOOLEAN : IkcpFlush(n, expired, {})
    BY <2>2 DEF Next, Flush
  <2> QED
    BY <1>3, <2>1, <2>2 DEF Update
<1>4. CASE ReadDatagram(n)
  BY <1>4 DEF ReadDatagram, Next
<1>5. CASE LeavesLoop(n)
  BY <1>5 DEF LeavesLoop
<1>6. CASE TakeMessage(n)
  BY <1>6 DEF TakeMessage, Next
<1> QED
  BY <1>1, <1>2, <1>3, <1>4, <1>5, <1>6

LEMMA TransportUsesEngine == TransportSpec => Spec
<1>1. TransportInit => Init
  BY DEF TransportInit
<1>2. [TransportNext]_transportVars => [Next]_vars
  BY StepUsesEngine DEF transportVars
<1> QED
  BY <1>1, <1>2, PTL DEF TransportSpec, Spec

\* What kcp_recv hands over is a prefix of what kcp_send accepted at the other
\* end, whichever programs poll and however the two interleave.
THEOREM TransportDelivery == TransportSpec => []InOrder
  BY TransportUsesEngine, Delivery, PTL

\* So omni_send and omni_recv over KCP are a reliable channel of whole messages
\* in each direction.
THEOREM TransportImplementsChannel == TransportSpec => ImplementsChannel
  BY TransportUsesEngine, EngineImplementsChannel, PTL
=============================================================================
