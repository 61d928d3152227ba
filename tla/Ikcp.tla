-------------------------------- MODULE Ikcp --------------------------------
(***************************************************************************)
(* The KCP ARQ engine (src/protocols/ikcp.c) at both ends of one           *)
(* conversation, joined by a UDP network that loses, duplicates and        *)
(* reorders datagrams.  The program above calls ikcp_send, ikcp_update,    *)
(* ikcp_input and ikcp_recv in any order; each call is one action.         *)
(*                                                                         *)
(* Configured as kcp_init does: message mode (stream = 0), no congestion   *)
(* window (nocwnd = 1).                                                    *)
(*                                                                         *)
(* Abstractions:                                                           *)
(*  - time: whether a retransmission timer, the fast-resend count, the     *)
(*    probe timer or the flush interval has run out is a free choice;      *)
(*  - a payload is its message number and fragment number, and a length is *)
(*    a number of fragments;                                               *)
(*  - snd_buf and rcv_buf, lists the code keeps sorted by sn, are sets     *)
(*    whose members are found by sn;                                       *)
(*  - a datagram carries one segment: ikcp_input handles the segments of a *)
(*    datagram one after the other, so a datagram of several is their      *)
(*    delivery in a row;                                                   *)
(*  - sequence numbers do not wrap: a conversation has fewer than 2^31     *)
(*    segments (module SerialNumber).                                      *)
(***************************************************************************)
EXTENDS Integers, Sequences, FiniteSets

CONSTANTS
    SndWnd,     \* kcp->snd_wnd (128)
    RcvWnd,     \* kcp->rcv_wnd (128)
    WndRcv,     \* IKCP_WND_RCV, the bound on a message's fragments (128)
    RecvCap,    \* the caller's receive buffer, in fragments
    MaxFrags,   \* bound: fragments of the longest message a program tries to send
    MaxMsgs,    \* bound: MaxMsgs[n] messages are submitted at node n
    NetCap,     \* bound: segments in flight towards one node
    NetTotal    \* bound: segments in flight in both directions

Node == {"client", "server"}
Peer(n) == IF n = "client" THEN "server" ELSE "client"

ASSUME WindowAssumption ==
    /\ SndWnd \in Nat \ {0}
    /\ WndRcv \in Nat \ {0}
    /\ RcvWnd \in Nat /\ RcvWnd >= WndRcv    \* ikcp_wndsize takes the larger

ASSUME BoundAssumption ==
    /\ RecvCap \in Nat
    /\ MaxFrags \in Nat
    /\ MaxMsgs \in [Node -> Nat]
    /\ NetCap \in Nat /\ NetTotal \in Nat

VARIABLES
    snd_una, snd_nxt,       \* first unacknowledged sn, next sn to assign
    rcv_nxt,                \* next sn expected
    rmt_wnd,                \* the window the peer last advertised
    snd_queue, snd_buf,     \* fragments without an sn yet; segments in flight
    rcv_buf, rcv_queue,     \* segments ahead of rcv_nxt or waiting for room; in-order fragments
    acklist,                \* sns to acknowledge at the next flush
    probe, probe_wait,      \* ASK_SEND / ASK_TELL flags; is the probe timer armed
    net,                    \* net[n]: segments in flight towards n
    sent, got               \* history: fragments submitted and handed over

sndVars  == <<snd_una, snd_nxt, snd_queue, snd_buf>>
rcvVars  == <<rcv_nxt, rcv_buf, rcv_queue>>
ctlVars  == <<rmt_wnd, acklist, probe, probe_wait>>
histVars == <<sent, got>>
vars == <<sndVars, rcvVars, ctlVars, net, histVars>>

Fragment == [msg : Nat, frg : Nat]
NoData   == [msg |-> 0, frg |-> 0]

\* A segment as it sits in snd_buf or rcv_buf.
Seg == [sn : Nat, frag : Fragment]

\* A segment on the wire (the fields of ikcp_encode_seg that are read back).
Packet == [cmd : {"PUSH", "ACK", "WASK", "WINS"}, sn : Nat, una : Nat,
           wnd : Nat, frag : Fragment]

Sns(segs) == {s.sn : s \in segs}
SegAt(segs, sn) == CHOOSE s \in segs : s.sn = sn

Fragments(m, count) == [i \in 1..count |-> [msg |-> m, frg |-> count - i]]

NextMsg(history) ==
    IF history = <<>> THEN 1 ELSE history[Len(history)].msg + 1

-----------------------------------------------------------------------------
\* ikcp_create, called for both ends before any datagram is exchanged.
Init ==
    /\ snd_una    = [n \in Node |-> 0]
    /\ snd_nxt    = [n \in Node |-> 0]
    /\ rcv_nxt    = [n \in Node |-> 0]
    /\ rmt_wnd    = [n \in Node |-> WndRcv]
    /\ snd_queue  = [n \in Node |-> <<>>]
    /\ snd_buf    = [n \in Node |-> {}]
    /\ rcv_buf    = [n \in Node |-> {}]
    /\ rcv_queue  = [n \in Node |-> <<>>]
    /\ acklist    = [n \in Node |-> {}]
    /\ probe      = [n \in Node |-> {}]
    /\ probe_wait = [n \in Node |-> FALSE]
    /\ net        = [n \in Node |-> {}]
    /\ sent       = [n \in Node |-> <<>>]
    /\ got        = [n \in Node |-> <<>>]

-----------------------------------------------------------------------------
\* Fault: no limit on the number of fragments.
AcceptAnyCount(count) == TRUE

\* ikcp_send: a message of WndRcv fragments or more is refused (-2) and
\* leaves no trace; any other is queued whole.
AcceptCount(count) == count < WndRcv

IkcpSend(n, count) ==
    /\ NextMsg(sent[n]) <= MaxMsgs[n]
    /\ AcceptCount(count)
    /\ LET fs == Fragments(NextMsg(sent[n]), count) IN
          /\ snd_queue' = [snd_queue EXCEPT ![n] = @ \o fs]
          /\ sent' = [sent EXCEPT ![n] = @ \o fs]
    /\ UNCHANGED <<snd_una, snd_nxt, snd_buf, rcvVars, ctlVars, net, got>>

-----------------------------------------------------------------------------
\* Fault: the out-of-order segments count against the window too.
WndUnusedOfBoth(n) == RcvWnd - Len(rcv_queue[n]) - Cardinality(rcv_buf[n])

\* ikcp_wnd_unused: the room advertised to the peer.
WndUnused(n) ==
    IF Len(rcv_queue[n]) < RcvWnd THEN RcvWnd - Len(rcv_queue[n]) ELSE 0

Packets(n, cmd, sns) ==
    {[cmd |-> cmd, sn |-> sn, una |-> rcv_nxt[n], wnd |-> WndUnused(n),
      frag |-> NoData] : sn \in sns}

\* The window ikcp_flush sends within (nocwnd = 1).
SendWindow(n) == IF SndWnd <= rmt_wnd[n] THEN SndWnd ELSE rmt_wnd[n]

\* Fault: the segments already in flight are not counted.
MoveCountAfresh(n) ==
    IF SendWindow(n) <= Len(snd_queue[n]) THEN SendWindow(n) ELSE Len(snd_queue[n])

\* How many fragments ikcp_flush moves from snd_queue to snd_buf.
MoveCount(n) ==
    LET room == snd_una[n] + SendWindow(n) - snd_nxt[n] IN
    IF room <= 0 THEN 0
    ELSE IF room <= Len(snd_queue[n]) THEN room ELSE Len(snd_queue[n])

\* Fault: segments are taken from the tail of snd_queue.
NewSegsFromTail(n) ==
    {[sn |-> snd_nxt[n] + i - 1, frag |-> snd_queue[n][Len(snd_queue[n]) + 1 - i]] :
        i \in 1..MoveCount(n)}

\* The segments ikcp_flush makes of them.
NewSegs(n) ==
    {[sn |-> snd_nxt[n] + i - 1, frag |-> snd_queue[n][i]] : i \in 1..MoveCount(n)}

\* Fault: the probe timer never runs out.
ProbeFlagsNever(n, expired) == probe[n]

\* The probe flags ikcp_flush acts on: with a closed remote window the timer
\* is armed first and asks for a WASK when it runs out.
ProbeFlags(n, expired) ==
    IF rmt_wnd[n] = 0 /\ probe_wait[n] /\ expired
    THEN probe[n] \cup {"ASK_SEND"} ELSE probe[n]

\* Everything this flush can put on the wire.  A segment that was in snd_buf
\* before goes out only if its timer or its fastack count says so.
Output(n, flags) ==
    Packets(n, "ACK", acklist[n])
    \cup (IF "ASK_SEND" \in flags THEN Packets(n, "WASK", {0}) ELSE {})
    \cup (IF "ASK_TELL" \in flags THEN Packets(n, "WINS", {0}) ELSE {})
    \cup {[cmd |-> "PUSH", sn |-> s.sn, una |-> rcv_nxt[n],
           wnd |-> WndUnused(n), frag |-> s.frag] : s \in snd_buf[n] \cup NewSegs(n)}

\* ikcp_update when a flush is due, with ikcp_flush.  Of what it can put on
\* the wire, `through` is what the timers release and the network carries.
IkcpFlush(n, expired, through) ==
    /\ through \subseteq Output(n, ProbeFlags(n, expired))
    /\ net' = [net EXCEPT ![Peer(n)] = @ \cup through]
    /\ Cardinality(net'[Peer(n)]) <= NetCap
    /\ Cardinality(net'["client"]) + Cardinality(net'["server"]) <= NetTotal
    /\ snd_buf' = [snd_buf EXCEPT ![n] = @ \cup NewSegs(n)]
    /\ snd_nxt' = [snd_nxt EXCEPT ![n] = @ + MoveCount(n)]
    /\ snd_queue' = [snd_queue EXCEPT ![n] =
                        SubSeq(@, MoveCount(n) + 1, Len(@))]
    /\ acklist' = [acklist EXCEPT ![n] = {}]
    /\ probe' = [probe EXCEPT ![n] = {}]
    /\ probe_wait' = [probe_wait EXCEPT ![n] = (rmt_wnd[n] = 0)]
    /\ UNCHANGED <<snd_una, rmt_wnd, rcvVars, histVars>>

-----------------------------------------------------------------------------
\* The datagram read by recvfrom leaves the network, unless it is one of two
\* copies.
Take(n, p) == net' = [net EXCEPT ![n] = @ \ {p}] \/ UNCHANGED net

\* Fault: una itself is taken as received.
ParseUnaPast(n, una) == {s \in snd_buf[n] : s.sn > una}

\* ikcp_parse_una: everything before una has arrived.
ParseUna(n, una) == {s \in snd_buf[n] : s.sn >= una}

\* Fault: an ACK of sn acknowledges everything before sn too.
ParseAckCumulative(segs, sn) == {s \in segs : s.sn > sn}

\* ikcp_parse_ack: the one segment acknowledged by sn, if still there.
ParseAck(segs, sn) == {s \in segs : s.sn # sn}

\* Fault: snd_una is read from the tail of snd_buf.
ShrinkBufToTail(n, segs) ==
    \E una \in IF segs = {} THEN {snd_nxt[n]} ELSE Sns(segs) :
        /\ \A sn \in Sns(segs) : una >= sn
        /\ snd_una' = [snd_una EXCEPT ![n] = una]

\* ikcp_shrink_buf: snd_una is the sn at the head of snd_buf.
ShrinkBuf(n, segs) ==
    \E una \in Sns(segs) \cup {snd_nxt[n]} :
        /\ \A sn \in Sns(segs) \cup {snd_nxt[n]} : una <= sn
        /\ snd_una' = [snd_una EXCEPT ![n] = una]

\* What ikcp_input does with the header of every segment.
InputHeader(n, p, segs) ==
    /\ Take(n, p)
    /\ rmt_wnd' = [rmt_wnd EXCEPT ![n] = p.wnd]
    /\ snd_buf' = [snd_buf EXCEPT ![n] = segs]
    /\ ShrinkBuf(n, segs)
    /\ UNCHANGED <<snd_nxt, snd_queue, probe_wait, histVars>>

\* ikcp_input, IKCP_CMD_ACK.
IkcpInputAck(n, p) ==
    /\ p.cmd = "ACK"
    /\ InputHeader(n, p, ParseAck(ParseUna(n, p.una), p.sn))
    /\ UNCHANGED <<rcvVars, acklist, probe>>

\* The loop at the end of ikcp_parse_data and ikcp_recv: the segments that
\* follow rcv_nxt without a gap move to `queue` while it has room.
MoveReady(n, buf, queue) ==
    \E k \in 0..(RcvWnd - Len(queue)) :
        /\ \A i \in 0..(k - 1) : rcv_nxt[n] + i \in Sns(buf)
        /\ k = RcvWnd - Len(queue) \/ rcv_nxt[n] + k \notin Sns(buf)
        /\ rcv_nxt' = [rcv_nxt EXCEPT ![n] = @ + k]
        /\ rcv_buf' = [rcv_buf EXCEPT ![n] = {s \in buf : s.sn >= rcv_nxt[n] + k}]
        /\ rcv_queue' = [rcv_queue EXCEPT ![n] =
                queue \o [i \in 1..k |-> SegAt(buf, rcv_nxt[n] + i - 1).frag]]

InWindow(n, sn) == sn < rcv_nxt[n] + RcvWnd

\* ikcp_parse_data: a segment not yet in rcv_buf is added.
ParseData(n, p) ==
    LET seg == [sn |-> p.sn, frag |-> p.frag] IN
    MoveReady(n, IF p.sn \in Sns(rcv_buf[n]) THEN rcv_buf[n] ELSE rcv_buf[n] \cup {seg},
              rcv_queue[n])

\* ikcp_input, IKCP_CMD_PUSH: inside or before the window it is acknowledged,
\* inside the window it is also stored, after the window it is ignored.
IkcpInputPush(n, p) ==
    /\ p.cmd = "PUSH"
    /\ InputHeader(n, p, ParseUna(n, p.una))
    /\ acklist' = [acklist EXCEPT ![n] = IF InWindow(n, p.sn) THEN @ \cup {p.sn} ELSE @]
    /\ IF InWindow(n, p.sn) /\ p.sn >= rcv_nxt[n]
       THEN ParseData(n, p)
       ELSE UNCHANGED rcvVars
    /\ UNCHANGED probe

\* ikcp_input, IKCP_CMD_WASK and IKCP_CMD_WINS.
IkcpInputProbe(n, p) ==
    /\ p.cmd \in {"WASK", "WINS"}
    /\ InputHeader(n, p, ParseUna(n, p.una))
    /\ probe' = [probe EXCEPT ![n] = IF p.cmd = "WASK" THEN @ \cup {"ASK_TELL"} ELSE @]
    /\ UNCHANGED <<rcvVars, acklist>>

-----------------------------------------------------------------------------
\* Fault: the number of fragments in the queue is not compared with frg.
WholeMessageUncounted(queue, k) ==
    /\ k \in 1..Len(queue)
    /\ queue[k].frg = 0 \/ k = Len(queue)
    /\ \A i \in 1..(k - 1) : queue[i].frg # 0

\* ikcp_peeksize finds a whole message at the head of the queue, and the merge
\* loop of ikcp_recv stops after its first k fragments.
WholeMessage(queue, k) ==
    /\ k \in 1..Len(queue)
    /\ Len(queue) >= queue[1].frg + 1
    /\ queue[k].frg = 0 \/ k = Len(queue)
    /\ \A i \in 1..(k - 1) : queue[i].frg # 0

\* Fault: the message is handed over and stays in the queue.
IkcpRecvPeek(n) ==
    /\ \E k \in 1..RecvCap :
          /\ WholeMessage(rcv_queue[n], k)
          /\ got' = [got EXCEPT ![n] = @ \o SubSeq(rcv_queue[n], 1, k)]
    /\ UNCHANGED <<sndVars, rcvVars, ctlVars, net, sent>>

\* ikcp_recv: hand over the message at the head of rcv_queue; if the queue
\* was full, tell the peer at the next flush that it has room again.
IkcpRecv(n) ==
    \E k \in 1..RecvCap :
        LET queue == SubSeq(rcv_queue[n], k + 1, Len(rcv_queue[n])) IN
        /\ WholeMessage(rcv_queue[n], k)
        /\ got' = [got EXCEPT ![n] = @ \o SubSeq(rcv_queue[n], 1, k)]
        /\ MoveReady(n, rcv_buf[n], queue)
        /\ probe' = [probe EXCEPT ![n] =
                        IF Len(rcv_queue[n]) >= RcvWnd /\ Len(rcv_queue'[n]) < RcvWnd
                        THEN @ \cup {"ASK_TELL"} ELSE @]
        /\ UNCHANGED <<sndVars, rmt_wnd, acklist, probe_wait, net, sent>>

-----------------------------------------------------------------------------
Flush(n) ==
    \E expired \in BOOLEAN :
        \E through \in SUBSET Output(n, ProbeFlags(n, expired)) :
            IkcpFlush(n, expired, through)

Input(n) ==
    \E p \in net[n] : IkcpInputAck(n, p) \/ IkcpInputPush(n, p) \/ IkcpInputProbe(n, p)

Next ==
    \E n \in Node :
        \/ \E count \in 1..MaxFrags : IkcpSend(n, count)
        \/ Flush(n)
        \/ Input(n)
        \/ IkcpRecv(n)

Spec == Init /\ [][Next]_vars

\* A flush that gets through with a segment of this command; for PUSH, with
\* the segment the peer misses first.
FlushThrough(n, cmd) ==
    \E expired \in BOOLEAN :
        \E through \in SUBSET Output(n, ProbeFlags(n, expired)) :
            /\ \E p \in through : p.cmd = cmd /\ (cmd = "PUSH" => p.sn = snd_una[n])
            /\ IkcpFlush(n, expired, through)

\* One segment of the network is read and does not come a second time.
InputOnce(n) ==
    \E p \in net[n] :
        /\ IkcpInputAck(n, p) \/ IkcpInputPush(n, p) \/ IkcpInputProbe(n, p)
        /\ p \notin net'[n]

\* The programs call ikcp_update and ikcp_recv over and over (every 2 ms in the
\* receive threads), every timer is finite, and the network does not lose
\* one kind of segment for ever nor repeat one for ever.
Fairness ==
    \A n \in Node :
        /\ WF_vars(Flush(n))
        /\ WF_vars(IkcpRecv(n))
        /\ \A cmd \in {"PUSH", "ACK", "WASK", "WINS"} : SF_vars(FlushThrough(n, cmd))
        /\ SF_vars(InputOnce(n))

FairSpec == Spec /\ Fairness
-----------------------------------------------------------------------------
TypeOK ==
    /\ snd_una    \in [Node -> Nat]
    /\ snd_nxt    \in [Node -> Nat]
    /\ rcv_nxt    \in [Node -> Nat]
    /\ rmt_wnd    \in [Node -> Nat]
    /\ snd_queue  \in [Node -> Seq(Fragment)]
    /\ snd_buf    \in [Node -> SUBSET Seg]
    /\ rcv_buf    \in [Node -> SUBSET Seg]
    /\ rcv_queue  \in [Node -> Seq(Fragment)]
    /\ acklist    \in [Node -> SUBSET Nat]
    /\ probe      \in [Node -> SUBSET {"ASK_SEND", "ASK_TELL"}]
    /\ probe_wait \in [Node -> BOOLEAN]
    /\ net        \in [Node -> SUBSET Packet]
    /\ sent       \in [Node -> Seq(Fragment)]
    /\ got        \in [Node -> Seq(Fragment)]

\* What ikcp_recv has handed over at one end is a prefix of what ikcp_send
\* accepted at the other: nothing is lost, repeated, reordered or altered,
\* whatever the network does to the datagrams.
InOrder ==
    \A n \in Node :
        /\ Len(got[n]) <= Len(sent[Peer(n)])
        /\ \A i \in 1..Len(got[n]) : got[n][i] = sent[Peer(n)][i]

\* A segment may leave snd_buf (ikcp_parse_ack, ikcp_parse_una) only when the
\* peer holds it: every sn ever assigned is still buffered at its sender, or
\* is in order at the receiver, or waits in its rcv_buf.
AckedIsHeld ==
    \A n \in Node : \A sn \in 0..(snd_nxt[n] - 1) :
        \/ sn \in Sns(snd_buf[n])
        \/ sn < rcv_nxt[Peer(n)]
        \/ sn \in Sns(rcv_buf[Peer(n)])

\* A program is never handed part of a message: what it got ends with a last
\* fragment.
WholeMessages ==
    \A n \in Node : got[n] # <<>> => got[n][Len(got[n])].frg = 0

\* A full rcv_queue always has a whole message at its head, so the program can
\* make room: the limit ikcp_send puts on a message (IKCP_WND_RCV) and the
\* window of the receiver (rcv_wnd) fit each other.
FullQueueReadable ==
    \A n \in Node : Len(rcv_queue[n]) >= RcvWnd =>
        \E k \in 1..Len(rcv_queue[n]) : WholeMessage(rcv_queue[n], k)

\* The receiver never holds more than two windows, nor a segment outside its
\* window, and the sender never has more than snd_wnd segments in flight,
\* even when stale datagrams move rmt_wnd back and forth.
BufferBounds ==
    \A n \in Node :
        /\ Len(rcv_queue[n]) <= RcvWnd
        /\ \A s \in rcv_buf[n] : s.sn \in rcv_nxt[n]..(rcv_nxt[n] + RcvWnd - 1)
        /\ snd_nxt[n] - snd_una[n] \in 0..SndWnd

\* A stale acknowledgement, a duplicate or a reordered datagram never moves
\* snd_una or rcv_nxt back, and a segment that left snd_buf stays out of it.
NeverBack ==
    [][\A n \in Node :
          /\ snd_una'[n] >= snd_una[n]
          /\ rcv_nxt'[n] >= rcv_nxt[n]
          /\ \A sn \in Sns(snd_buf'[n]) : sn \in Sns(snd_buf[n]) \/ sn >= snd_nxt[n]]_vars

\* Every fragment ikcp_send accepted is handed over at the other end, also when
\* the receiver's window closed in between and the datagram that reopens it
\* (IKCP_CMD_WINS) was lost: the window probe asks again.
AllDelivered ==
    \A n \in Node : \A k \in 1..(MaxMsgs[n] * MaxFrags) :
        (Len(sent[n]) >= k) ~> (Len(got[Peer(n)]) >= k)

\* Both conversations together are a reliable channel in each direction.
Channel == INSTANCE ReliableChannel WITH MaxCount <- WndRcv - 1
ImplementsChannel == Channel!Spec

=============================================================================
