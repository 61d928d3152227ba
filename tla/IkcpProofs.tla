----------------------------- MODULE IkcpProofs -----------------------------
(***************************************************************************)
(* Proofs about Ikcp, for every window, message size, number of messages   *)
(* and network capacity: type correctness, in-order delivery (InOrder) and *)
(* that no segment is forgotten before it is held (AckedIsHeld).           *)
(*                                                                         *)
(* The argument.  Every copy of a fragment, wherever it is - snd_queue,    *)
(* snd_buf, the network, rcv_buf, rcv_queue, got - sits at the position of *)
(* `sent` its sn or its index says (the Is... parts below).  So what       *)
(* MoveReady appends to rcv_queue is what comes next in `sent`.  And una   *)
(* and ACK values, however old, name only what the receiver still holds.   *)
(***************************************************************************)
EXTENDS Ikcp, SequenceTheorems, TLAPS

\* Node n has received segment sn: in order, or ahead of rcv_nxt.
Held(n, sn) == sn < rcv_nxt[n] \/ sn \in Sns(rcv_buf[n])

\* snd_queue is the part of `sent` that has no sequence number yet.
QueueIsSent ==
    \A n \in Node :
        /\ Len(sent[n]) = snd_nxt[n] + Len(snd_queue[n])
        /\ \A i \in 1..Len(snd_queue[n]) : snd_queue[n][i] = sent[n][snd_nxt[n] + i]

\* Segment sn of sender n, with its fragment.
IsSent(n, sn, frag) == sn < snd_nxt[n] /\ frag = sent[n][sn + 1]

SndBufIsSent == \A n \in Node : \A s \in snd_buf[n] : IsSent(n, s.sn, s.frag)

RcvBufIsSent == \A n \in Node : \A s \in rcv_buf[n] : IsSent(Peer(n), s.sn, s.frag)

\* rcv_nxt counts what was received in order, read or not, and that is `sent`.
ReceivedIsSent ==
    \A n \in Node :
        /\ rcv_nxt[n] = Len(got[n]) + Len(rcv_queue[n])
        /\ rcv_nxt[n] <= snd_nxt[Peer(n)]
        /\ \A i \in 1..Len(got[n]) : got[n][i] = sent[Peer(n)][i]
        /\ \A i \in 1..Len(rcv_queue[n]) :
              rcv_queue[n][i] = sent[Peer(n)][Len(got[n]) + i]

\* What a datagram towards n says was true when it was sent and stays true.
PacketIsTrue(n, p) ==
    /\ p.una <= rcv_nxt[Peer(n)]
    /\ p.cmd = "PUSH" => IsSent(Peer(n), p.sn, p.frag)
    /\ p.cmd = "ACK" => Held(Peer(n), p.sn)

NetIsTrue == \A n \in Node : \A p \in net[n] : PacketIsTrue(n, p)

AcklistIsHeld == \A n \in Node : \A sn \in acklist[n] : Held(n, sn)

IInv ==
    /\ TypeOK
    /\ QueueIsSent
    /\ SndBufIsSent
    /\ RcvBufIsSent
    /\ ReceivedIsSent
    /\ NetIsTrue
    /\ AcklistIsHeld
    /\ AckedIsHeld

-----------------------------------------------------------------------------
LEMMA PeerType == \A n \in Node : Peer(n) \in Node /\ Peer(n) # n /\ Peer(Peer(n)) = n
BY DEF Node, Peer

LEMMA PacketType ==
    ASSUME TypeOK, NEW n \in Node, NEW p \in net[n]
    PROVE  /\ p \in Packet
           /\ p.sn \in Nat /\ p.una \in Nat /\ p.wnd \in Nat /\ p.frag \in Fragment
<1>1. p \in Packet
  BY DEF TypeOK
<1> QED
  BY <1>1 DEF Packet

\* ConcatProperties of SequenceTheorems, for sequences of fragments.
LEMMA ConcatFragments ==
    ASSUME NEW s \in Seq(Fragment), NEW t \in Seq(Fragment)
    PROVE  /\ s \o t \in Seq(Fragment)
           /\ Len(s \o t) = Len(s) + Len(t)
           /\ \A i \in 1..(Len(s) + Len(t)) :
                 (s \o t)[i] = IF i <= Len(s) THEN s[i] ELSE t[i - Len(s)]
BY ConcatProperties

LEMMA SegAtType ==
    ASSUME NEW segs, NEW sn \in Sns(segs)
    PROVE  SegAt(segs, sn) \in segs /\ SegAt(segs, sn).sn = sn
<1>1. PICK s \in segs : s.sn = sn
  BY DEF Sns
<1> QED
  BY <1>1 DEF SegAt

LEMMA FragmentsType ==
    ASSUME NEW m \in Nat, NEW count \in Nat
    PROVE  /\ Fragments(m, count) \in Seq(Fragment)
           /\ Len(Fragments(m, count)) = count
<1>1. \A i \in 1..count : [msg |-> m, frg |-> count - i] \in Fragment
  BY DEF Fragment
<1>2. Fragments(m, count) \in [1..count -> Fragment]
  BY <1>1 DEF Fragments
<1> QED
  BY <1>2, SeqDef

\* ikcp_flush moves at most what snd_queue holds.
LEMMA MoveCountType ==
    ASSUME TypeOK, NEW n \in Node
    PROVE  MoveCount(n) \in 0..Len(snd_queue[n])
<1>1. SendWindow(n) \in Nat /\ snd_una[n] \in Nat /\ snd_nxt[n] \in Nat
  BY WindowAssumption DEF TypeOK, SendWindow
<1>2. Len(snd_queue[n]) \in Nat
  BY LenProperties DEF TypeOK
<1> QED
  BY <1>1, <1>2 DEF MoveCount

LEMMA WndUnusedType ==
    ASSUME TypeOK, NEW n \in Node
    PROVE  WndUnused(n) \in Nat
<1>1. Len(rcv_queue[n]) \in Nat
  BY LenProperties DEF TypeOK
<1> QED
  BY <1>1, WindowAssumption DEF WndUnused

LEMMA NewSegsType ==
    ASSUME TypeOK, NEW n \in Node
    PROVE  NewSegs(n) \subseteq Seg
<1> SUFFICES ASSUME NEW i \in 1..MoveCount(n)
             PROVE  [sn |-> snd_nxt[n] + i - 1, frag |-> snd_queue[n][i]] \in Seg
  BY DEF NewSegs
<1>1. MoveCount(n) \in 0..Len(snd_queue[n]) /\ Len(snd_queue[n]) \in Nat
  BY MoveCountType, LenProperties DEF TypeOK
<1>2. snd_queue[n][i] \in Fragment
  BY <1>1, ElementOfSeq DEF TypeOK
<1> QED
  BY <1>1, <1>2 DEF TypeOK, Seg

LEMMA OutputType ==
    ASSUME TypeOK, NEW n \in Node, NEW flags
    PROVE  Output(n, flags) \subseteq Packet
<1>1. NoData \in Fragment /\ rcv_nxt[n] \in Nat /\ WndUnused(n) \in Nat
  BY WndUnusedType DEF TypeOK, NoData, Fragment
<1>2. \A sns \in SUBSET Nat : \A cmd \in {"ACK", "WASK", "WINS"} :
          Packets(n, cmd, sns) \subseteq Packet
  <2> SUFFICES ASSUME NEW cmd \in {"ACK", "WASK", "WINS"}, NEW sn \in Nat
               PROVE  [cmd |-> cmd, sn |-> sn, una |-> rcv_nxt[n],
                       wnd |-> WndUnused(n), frag |-> NoData] \in Packet
    BY DEF Packets
  <2> QED
    BY <1>1 DEF Packet
<1>3. snd_buf[n] \cup NewSegs(n) \subseteq Seg /\ acklist[n] \subseteq Nat
  BY NewSegsType DEF TypeOK
<1>4. \A s \in snd_buf[n] \cup NewSegs(n) :
          [cmd |-> "PUSH", sn |-> s.sn, una |-> rcv_nxt[n],
           wnd |-> WndUnused(n), frag |-> s.frag] \in Packet
  BY <1>1, <1>3 DEF Packet, Seg
<1> QED
  BY <1>2, <1>3, <1>4 DEF Output

\* MoveReady with the k fragments `new` it moves: the next k of buf, in order.
Moved(n, buf, queue, k, new) ==
    /\ Len(new) = k
    /\ \A i \in 1..k : [sn |-> rcv_nxt[n] + i - 1, frag |-> new[i]] \in buf
    /\ rcv_nxt' = [rcv_nxt EXCEPT ![n] = rcv_nxt[n] + k]
    /\ rcv_buf' = [rcv_buf EXCEPT ![n] = {s \in buf : s.sn >= rcv_nxt[n] + k}]
    /\ rcv_queue' = [rcv_queue EXCEPT ![n] = queue \o new]

LEMMA MoveReadyEffect ==
    ASSUME TypeOK, NEW n \in Node, NEW buf \in SUBSET Seg,
           NEW queue \in Seq(Fragment), MoveReady(n, buf, queue)
    PROVE  \E k \in Nat, new \in Seq(Fragment) : Moved(n, buf, queue, k, new)
<1> DEFINE New(k) == [i \in 1..k |-> SegAt(buf, rcv_nxt[n] + i - 1).frag]
<1>1. PICK k \in 0..(RcvWnd - Len(queue)) :
         /\ \A i \in 0..(k - 1) : rcv_nxt[n] + i \in Sns(buf)
         /\ rcv_nxt' = [rcv_nxt EXCEPT ![n] = rcv_nxt[n] + k]
         /\ rcv_buf' = [rcv_buf EXCEPT ![n] = {s \in buf : s.sn >= rcv_nxt[n] + k}]
         /\ rcv_queue' = [rcv_queue EXCEPT ![n] = queue \o New(k)]
  BY DEF MoveReady, TypeOK
<1>2. k \in Nat /\ rcv_nxt[n] \in Nat
  BY WindowAssumption, LenProperties DEF TypeOK
<1>3. \A i \in 1..k : SegAt(buf, rcv_nxt[n] + i - 1) \in buf
                      /\ SegAt(buf, rcv_nxt[n] + i - 1).sn = rcv_nxt[n] + i - 1
  <2> SUFFICES ASSUME NEW i \in 1..k PROVE rcv_nxt[n] + i - 1 \in Sns(buf)
    BY SegAtType
  <2>1. i - 1 \in 0..(k - 1) /\ rcv_nxt[n] + (i - 1) = rcv_nxt[n] + i - 1
    BY <1>2
  <2> QED
    BY <1>1, <2>1
<1>4. \A i \in 1..k : New(k)[i] = SegAt(buf, rcv_nxt[n] + i - 1).frag
  OBVIOUS
<1>5. \A s \in buf : s = [sn |-> s.sn, frag |-> s.frag] /\ s.frag \in Fragment
  BY DEF Seg
<1>6. \A i \in 1..k : [sn |-> rcv_nxt[n] + i - 1, frag |-> New(k)[i]] \in buf
                      /\ New(k)[i] \in Fragment
  BY <1>3, <1>4, <1>5
<1>7. New(k) \in Seq(Fragment) /\ Len(New(k)) = k
  <2>1. New(k) \in [1..k -> Fragment]
    BY <1>6
  <2> QED
    BY <2>1, <1>2, SeqDef
<1> HIDE DEF New
<1>8. Moved(n, buf, queue, k, New(k))
  BY <1>1, <1>6, <1>7 DEF Moved
<1> QED
  BY <1>2, <1>7, <1>8

\* If q is what s holds after position p, it stays so when both grow by fs.
LEMMA AppendBoth ==
    ASSUME NEW q \in Seq(Fragment), NEW s \in Seq(Fragment), NEW fs \in Seq(Fragment),
           NEW p \in Nat, Len(s) = p + Len(q),
           \A i \in 1..Len(q) : q[i] = s[p + i]
    PROVE  /\ Len(s \o fs) = p + Len(q \o fs)
           /\ \A i \in 1..Len(q \o fs) : (q \o fs)[i] = (s \o fs)[p + i]
<1>1. Len(q) \in Nat /\ Len(s) \in Nat /\ Len(fs) \in Nat
  BY LenProperties
<1>2. /\ Len(s \o fs) = Len(s) + Len(fs)
      /\ \A i \in 1..(Len(s) + Len(fs)) :
            (s \o fs)[i] = IF i <= Len(s) THEN s[i] ELSE fs[i - Len(s)]
  BY ConcatFragments
<1>3. /\ Len(q \o fs) = Len(q) + Len(fs)
      /\ \A i \in 1..(Len(q) + Len(fs)) :
            (q \o fs)[i] = IF i <= Len(q) THEN q[i] ELSE fs[i - Len(q)]
  BY ConcatFragments
<1>4. Len(s \o fs) = p + Len(q \o fs)
  BY <1>1, <1>2, <1>3
<1>5. ASSUME NEW i \in 1..(Len(q) + Len(fs))
      PROVE  (q \o fs)[i] = (s \o fs)[p + i]
  <2>1. (q \o fs)[i] = IF i <= Len(q) THEN q[i] ELSE fs[i - Len(q)]
    BY <1>3
  <2>2. p + i \in 1..(Len(s) + Len(fs))
    BY <1>1
  <2>3. (s \o fs)[p + i] = IF p + i <= Len(s) THEN s[p + i] ELSE fs[p + i - Len(s)]
    BY <1>2, <2>2
  <2>4. (p + i <= Len(s)) = (i <= Len(q)) /\ p + i - Len(s) = i - Len(q)
    BY <1>1
  <2>5. CASE i <= Len(q)
    <3>1. i \in 1..Len(q)
      BY <1>1, <2>5
    <3> QED
      BY <2>1, <2>3, <2>4, <2>5, <3>1
  <2>6. CASE ~(i <= Len(q))
    BY <2>1, <2>3, <2>4, <2>6
  <2> QED
    BY <2>5, <2>6
<1> QED
  BY <1>4, <1>5, <1>3

\* What is left of q without its first k members.
LEMMA SubSeqTail ==
    ASSUME NEW q \in Seq(Fragment), NEW k \in Nat, k <= Len(q)
    PROVE  /\ SubSeq(q, k + 1, Len(q)) \in Seq(Fragment)
           /\ Len(SubSeq(q, k + 1, Len(q))) = Len(q) - k
           /\ \A i \in 1..(Len(q) - k) : SubSeq(q, k + 1, Len(q))[i] = q[k + i]
<1> DEFINE t == SubSeq(q, k + 1, Len(q))
<1>1. Len(q) \in Nat
  BY LenProperties
<1>2. \A i \in (k + 1)..Len(q) : q[i] \in Fragment
  BY <1>1, ElementOfSeq
<1>3. /\ t \in Seq(Fragment)
      /\ Len(t) = IF k + 1 <= Len(q) THEN Len(q) - (k + 1) + 1 ELSE 0
      /\ \A i \in 1..(Len(q) - (k + 1) + 1) : t[i] = q[k + 1 + i - 1]
  BY <1>1, <1>2, SubSeqProperties
<1> HIDE DEF t
<1>4. Len(t) = Len(q) - k
  BY <1>1, <1>3
<1>5. ASSUME NEW i \in 1..(Len(q) - k) PROVE t[i] = q[k + i]
  <2>1. i \in 1..(Len(q) - (k + 1) + 1) /\ k + 1 + i - 1 = k + i
    BY <1>1
  <2> QED
    BY <1>3, <2>1
<1> QED
  BY <1>3, <1>4, <1>5 DEF t

-----------------------------------------------------------------------------
\* Type correctness: no step leaves the types, whatever the network delivers.

\* ikcp_send appends the same fragments to snd_queue and to the history.
LEMMA SendFragments ==
    ASSUME TypeOK, NEW n \in Node, NEW count \in 1..MaxFrags, IkcpSend(n, count)
    PROVE  \E fs \in Seq(Fragment) :
              /\ snd_queue' = [snd_queue EXCEPT ![n] = snd_queue[n] \o fs]
              /\ sent' = [sent EXCEPT ![n] = sent[n] \o fs]
<1>1. NextMsg(sent[n]) \in Nat
  <2>1. CASE sent[n] = <<>>
    BY <2>1 DEF NextMsg
  <2>2. CASE sent[n] # <<>>
    <3>1. sent[n] \in Seq(Fragment) /\ Len(sent[n]) \in 1..Len(sent[n])
      BY <2>2, EmptySeq DEF TypeOK
    <3>2. sent[n][Len(sent[n])] \in Fragment
      BY <3>1, ElementOfSeq
    <3> QED
      BY <2>2, <3>2 DEF NextMsg, Fragment
  <2> QED
    BY <2>1, <2>2
<1>2. Fragments(NextMsg(sent[n]), count) \in Seq(Fragment)
  BY <1>1, FragmentsType, BoundAssumption
<1> QED
  BY <1>2 DEF IkcpSend, TypeOK

LEMMA SendType ==
    ASSUME TypeOK, NEW n \in Node, NEW count \in 1..MaxFrags, IkcpSend(n, count)
    PROVE  TypeOK'
<1>1. PICK fs \in Seq(Fragment) :
         /\ snd_queue' = [snd_queue EXCEPT ![n] = snd_queue[n] \o fs]
         /\ sent' = [sent EXCEPT ![n] = sent[n] \o fs]
  BY SendFragments
<1>2. snd_queue[n] \o fs \in Seq(Fragment) /\ sent[n] \o fs \in Seq(Fragment)
  BY ConcatFragments DEF TypeOK
<1>3. snd_queue' \in [Node -> Seq(Fragment)] /\ sent' \in [Node -> Seq(Fragment)]
  BY <1>1, <1>2 DEF TypeOK
<1>4. UNCHANGED <<snd_una, snd_nxt, snd_buf, rcvVars, ctlVars, net, got>>
  BY DEF IkcpSend
<1> QED
  BY <1>3, <1>4 DEF TypeOK, rcvVars, ctlVars

LEMMA FlushType ==
    ASSUME TypeOK, NEW n \in Node, NEW expired \in BOOLEAN, NEW through,
           IkcpFlush(n, expired, through)
    PROVE  TypeOK'
<1>1. MoveCount(n) \in 0..Len(snd_queue[n]) /\ Len(snd_queue[n]) \in Nat
  BY MoveCountType, LenProperties DEF TypeOK
<1>2. SubSeq(snd_queue[n], MoveCount(n) + 1, Len(snd_queue[n])) \in Seq(Fragment)
  <2>1. \A i \in (MoveCount(n) + 1)..Len(snd_queue[n]) : snd_queue[n][i] \in Fragment
    BY <1>1, ElementOfSeq DEF TypeOK
  <2> QED
    BY <1>1, <2>1, SubSeqProperties
<1>3. snd_queue' \in [Node -> Seq(Fragment)]
  BY <1>2 DEF IkcpFlush, TypeOK
<1>4. snd_buf' \in [Node -> SUBSET Seg]
  BY NewSegsType DEF IkcpFlush, TypeOK
<1>5. net' \in [Node -> SUBSET Packet]
  BY OutputType, PeerType DEF IkcpFlush, TypeOK
<1>6. snd_nxt' \in [Node -> Nat]
  <2>1. snd_nxt' = [snd_nxt EXCEPT ![n] = @ + MoveCount(n)] /\ snd_nxt \in [Node -> Nat]
    BY DEF IkcpFlush, TypeOK
  <2> QED
    BY <1>1, <2>1
<1>7. /\ acklist' \in [Node -> SUBSET Nat]
      /\ probe' \in [Node -> SUBSET {"ASK_SEND", "ASK_TELL"}]
      /\ probe_wait' \in [Node -> BOOLEAN]
  BY DEF IkcpFlush, TypeOK
<1> QED
  BY <1>3, <1>4, <1>5, <1>6, <1>7 DEF TypeOK, IkcpFlush, rcvVars, histVars

\* The header of a segment changes the sending side only.
LEMMA InputHeaderType ==
    ASSUME TypeOK, NEW n \in Node, NEW p \in net[n],
           NEW segs \in SUBSET Seg, InputHeader(n, p, segs)
    PROVE  /\ snd_una' \in [Node -> Nat]
           /\ snd_buf' \in [Node -> SUBSET Seg]
           /\ rmt_wnd' \in [Node -> Nat]
           /\ net' \in [Node -> SUBSET Packet]
           /\ UNCHANGED <<snd_nxt, snd_queue, probe_wait, sent, got>>
<1>1. p \in Packet
  BY DEF TypeOK
<1>2. p.wnd \in Nat
  BY <1>1 DEF Packet
<1>3. Sns(segs) \cup {snd_nxt[n]} \subseteq Nat
  BY DEF TypeOK, Sns, Seg
<1>4. snd_una' \in [Node -> Nat]
  BY <1>3 DEF InputHeader, ShrinkBuf, TypeOK
<1>5. net' \in [Node -> SUBSET Packet]
  BY DEF InputHeader, Take, TypeOK
<1>6. rmt_wnd' \in [Node -> Nat] /\ snd_buf' \in [Node -> SUBSET Seg]
  BY <1>2 DEF InputHeader, TypeOK
<1> QED
  BY <1>4, <1>5, <1>6 DEF InputHeader, histVars

LEMMA MoveReadyType ==
    ASSUME TypeOK, NEW n \in Node, NEW buf \in SUBSET Seg,
           NEW queue \in Seq(Fragment), MoveReady(n, buf, queue)
    PROVE  /\ rcv_nxt' \in [Node -> Nat]
           /\ rcv_buf' \in [Node -> SUBSET Seg]
           /\ rcv_queue' \in [Node -> Seq(Fragment)]
<1>1. PICK k \in Nat, new \in Seq(Fragment) : Moved(n, buf, queue, k, new)
  BY MoveReadyEffect
<1>2. queue \o new \in Seq(Fragment)
  BY ConcatFragments
<1> QED
  BY <1>1, <1>2 DEF TypeOK, Moved

LEMMA InputType ==
    ASSUME TypeOK, NEW n \in Node, NEW p \in net[n],
           IkcpInputAck(n, p) \/ IkcpInputPush(n, p) \/ IkcpInputProbe(n, p)
    PROVE  TypeOK'
<1>1. p \in Packet
  BY DEF TypeOK
<1>2. p.una \in Nat /\ p.sn \in Nat /\ p.frag \in Fragment
  BY <1>1 DEF Packet
<1>3. ParseUna(n, p.una) \in SUBSET Seg /\ ParseAck(ParseUna(n, p.una), p.sn) \in SUBSET Seg
  BY DEF ParseUna, ParseAck, TypeOK
<1>4. CASE IkcpInputAck(n, p)
  BY <1>3, <1>4, InputHeaderType DEF IkcpInputAck, rcvVars, TypeOK
<1>5. CASE IkcpInputPush(n, p)
  <2>1. acklist' \in [Node -> SUBSET Nat] /\ UNCHANGED probe
    BY <1>2, <1>5 DEF IkcpInputPush, TypeOK
  <2>2. /\ rcv_nxt' \in [Node -> Nat]
        /\ rcv_buf' \in [Node -> SUBSET Seg]
        /\ rcv_queue' \in [Node -> Seq(Fragment)]
    <3>1. CASE ParseData(n, p)
      <4> DEFINE seg == [sn |-> p.sn, frag |-> p.frag]
      <4>1. seg \in Seg /\ rcv_buf[n] \in SUBSET Seg /\ rcv_queue[n] \in Seq(Fragment)
        BY <1>2 DEF Seg, TypeOK
      <4> QED
        BY <3>1, <4>1, MoveReadyType DEF ParseData
    <3>2. CASE UNCHANGED rcvVars
      BY <3>2 DEF rcvVars, TypeOK
    <3> QED
      BY <1>5, <3>1, <3>2 DEF IkcpInputPush
  <2> QED
    BY <1>3, <1>5, <2>1, <2>2, InputHeaderType DEF IkcpInputPush, TypeOK
<1>6. CASE IkcpInputProbe(n, p)
  <2>1. probe' \in [Node -> SUBSET {"ASK_SEND", "ASK_TELL"}]
    BY <1>6 DEF IkcpInputProbe, TypeOK
  <2> QED
    BY <1>3, <1>6, <2>1, InputHeaderType DEF IkcpInputProbe, rcvVars, TypeOK
<1> QED
  BY <1>4, <1>5, <1>6

LEMMA RecvType ==
    ASSUME TypeOK, NEW n \in Node, IkcpRecv(n)
    PROVE  TypeOK'
<1>1. PICK k \in 1..RecvCap :
         /\ WholeMessage(rcv_queue[n], k)
         /\ got' = [got EXCEPT ![n] = @ \o SubSeq(rcv_queue[n], 1, k)]
         /\ MoveReady(n, rcv_buf[n], SubSeq(rcv_queue[n], k + 1, Len(rcv_queue[n])))
         /\ probe' = [probe EXCEPT ![n] =
                         IF Len(rcv_queue[n]) >= RcvWnd /\ Len(rcv_queue'[n]) < RcvWnd
                         THEN @ \cup {"ASK_TELL"} ELSE @]
         /\ UNCHANGED <<sndVars, rmt_wnd, acklist, probe_wait, net, sent>>
  BY DEF IkcpRecv
<1>2. rcv_queue[n] \in Seq(Fragment) /\ Len(rcv_queue[n]) \in Nat /\ k \in 1..Len(rcv_queue[n])
  BY <1>1, LenProperties DEF TypeOK, WholeMessage
<1>3. \A i \in 1..Len(rcv_queue[n]) : rcv_queue[n][i] \in Fragment
  BY <1>2, ElementOfSeq
<1>4. /\ SubSeq(rcv_queue[n], 1, k) \in Seq(Fragment)
      /\ SubSeq(rcv_queue[n], k + 1, Len(rcv_queue[n])) \in Seq(Fragment)
  <2>1. \A i \in 1..k : rcv_queue[n][i] \in Fragment
    BY <1>2, <1>3
  <2>2. \A i \in (k + 1)..Len(rcv_queue[n]) : rcv_queue[n][i] \in Fragment
    BY <1>2, <1>3
  <2> QED
    BY <1>2, <2>1, <2>2, SubSeqProperties
<1>5. got[n] \o SubSeq(rcv_queue[n], 1, k) \in Seq(Fragment)
  BY <1>4, ConcatFragments DEF TypeOK
<1>6. got' \in [Node -> Seq(Fragment)]
  BY <1>1, <1>5 DEF TypeOK
<1>7. /\ rcv_nxt' \in [Node -> Nat]
      /\ rcv_buf' \in [Node -> SUBSET Seg]
      /\ rcv_queue' \in [Node -> Seq(Fragment)]
  BY <1>1, <1>4, MoveReadyType DEF TypeOK
<1>8. probe' \in [Node -> SUBSET {"ASK_SEND", "ASK_TELL"}]
  BY <1>1 DEF TypeOK
<1> QED
  BY <1>1, <1>6, <1>7, <1>8 DEF TypeOK, sndVars

LEMMA InitType == Init => TypeOK
BY EmptySeq, WindowAssumption DEF Init, TypeOK

\* Every call of either program and every datagram keeps the types.
THEOREM TypeCorrect == Spec => []TypeOK
<1>1. TypeOK /\ [Next]_vars => TypeOK'
  <2> SUFFICES ASSUME TypeOK, [Next]_vars PROVE TypeOK'
    OBVIOUS
  <2>1. ASSUME NEW n \in Node, NEW count \in 1..MaxFrags, IkcpSend(n, count)
        PROVE  TypeOK'
    BY <2>1, SendType
  <2>2. ASSUME NEW n \in Node, Flush(n) PROVE TypeOK'
    BY <2>2, FlushType DEF Flush
  <2>3. ASSUME NEW n \in Node, Input(n) PROVE TypeOK'
    BY <2>3, InputType DEF Input
  <2>4. ASSUME NEW n \in Node, IkcpRecv(n) PROVE TypeOK'
    BY <2>4, RecvType
  <2>5. CASE UNCHANGED vars
    BY <2>5 DEF vars, sndVars, rcvVars, ctlVars, histVars, TypeOK
  <2> QED
    BY <2>1, <2>2, <2>3, <2>4, <2>5 DEF Next
<1> QED
  BY <1>1, InitType, PTL DEF Spec

-----------------------------------------------------------------------------
\* The inductive invariant.

LEMMA InitIInv == Init => IInv
<1> SUFFICES ASSUME Init PROVE IInv
  OBVIOUS
<1>1. \A n \in Node : Len(sent[n]) = 0 /\ Len(snd_queue[n]) = 0 /\ Len(got[n]) = 0
                      /\ Len(rcv_queue[n]) = 0 /\ snd_nxt[n] = 0 /\ rcv_nxt[n] = 0
  BY DEF Init
<1>2. QueueIsSent
  BY <1>1 DEF QueueIsSent
<1>3. ReceivedIsSent
  <2> SUFFICES ASSUME NEW n \in Node
               PROVE  /\ rcv_nxt[n] = Len(got[n]) + Len(rcv_queue[n])
                      /\ rcv_nxt[n] <= snd_nxt[Peer(n)]
                      /\ Len(got[n]) = 0 /\ Len(rcv_queue[n]) = 0
    BY DEF ReceivedIsSent, Init
  <2>1. Peer(n) \in Node
    BY PeerType
  <2> QED
    BY <1>1, <2>1 DEF Init
<1>4. AckedIsHeld
  BY <1>1 DEF AckedIsHeld
<1>5. SndBufIsSent /\ RcvBufIsSent /\ NetIsTrue /\ AcklistIsHeld
  BY DEF Init, SndBufIsSent, RcvBufIsSent, NetIsTrue, AcklistIsHeld
<1> QED
  BY <1>2, <1>3, <1>4, <1>5, InitType DEF IInv

\* Lengths and positions the steps below need at every node.
LEMMA Bounds ==
    ASSUME IInv, NEW n \in Node
    PROVE  /\ Peer(n) \in Node /\ Peer(Peer(n)) = n
           /\ snd_nxt[n] \in Nat /\ rcv_nxt[n] \in Nat
           /\ Len(sent[n]) \in Nat /\ Len(got[n]) \in Nat
           /\ Len(snd_queue[n]) \in Nat /\ Len(rcv_queue[n]) \in Nat
           /\ Len(sent[n]) = snd_nxt[n] + Len(snd_queue[n])
           /\ rcv_nxt[n] = Len(got[n]) + Len(rcv_queue[n])
           /\ rcv_nxt[n] <= snd_nxt[Peer(n)]
           /\ snd_nxt[n] <= Len(sent[n])
           /\ Len(got[n]) <= rcv_nxt[n]
<1>1. Peer(n) \in Node /\ Peer(Peer(n)) = n /\ snd_nxt[n] \in Nat /\ rcv_nxt[n] \in Nat
  BY PeerType DEF IInv, TypeOK
<1>2. /\ Len(sent[n]) \in Nat /\ Len(got[n]) \in Nat
      /\ Len(snd_queue[n]) \in Nat /\ Len(rcv_queue[n]) \in Nat
  BY LenProperties DEF IInv, TypeOK
<1>3. Len(sent[n]) = snd_nxt[n] + Len(snd_queue[n])
  BY DEF IInv, QueueIsSent
<1>4. rcv_nxt[n] <= snd_nxt[Peer(n)] /\ rcv_nxt[n] = Len(got[n]) + Len(rcv_queue[n])
  BY DEF IInv, ReceivedIsSent
<1>5. \A a, b, c \in Nat : a = b + c => b <= a
  OBVIOUS
<1>6. snd_nxt[n] <= Len(sent[n]) /\ Len(got[n]) <= rcv_nxt[n]
  BY <1>1, <1>2, <1>3, <1>4, <1>5
<1> QED
  BY <1>1, <1>2, <1>3, <1>4, <1>6

\* What a sender has numbered keeps its place in `sent`.
LEMMA IsSentStable ==
    ASSUME IInv, NEW n \in Node,
           snd_nxt'[n] \in Nat, snd_nxt'[n] >= snd_nxt[n],
           \A i \in 1..Len(sent[n]) : sent'[n][i] = sent[n][i]
    PROVE  \A sn \in Nat : \A frag : IsSent(n, sn, frag) => IsSent(n, sn, frag)'
<1> SUFFICES ASSUME NEW sn \in Nat, sn < snd_nxt[n]
             PROVE  sn < snd_nxt'[n] /\ sent'[n][sn + 1] = sent[n][sn + 1]
  BY DEF IsSent
<1>1. snd_nxt[n] \in Nat /\ Len(sent[n]) \in Nat /\ snd_nxt[n] <= Len(sent[n])
  BY Bounds
<1>2. sn + 1 \in 1..Len(sent[n]) /\ sn < snd_nxt'[n]
  BY <1>1
<1> QED
  BY <1>2

\* Nothing a step does not touch on the way from a sender to its peer is
\* disturbed by more fragments being submitted or numbered.
LEMMA DownstreamStable ==
    ASSUME IInv, TypeOK',
           \A n \in Node :
              /\ snd_nxt'[n] >= snd_nxt[n]
              /\ \A i \in 1..Len(sent[n]) : sent'[n][i] = sent[n][i],
           UNCHANGED <<rcvVars, got>>
    PROVE  /\ \A n \in Node : \A s \in snd_buf[n] : IsSent(n, s.sn, s.frag)'
           /\ RcvBufIsSent'
           /\ ReceivedIsSent'
           /\ \A n \in Node : \A p \in net[n] : PacketIsTrue(n, p)'
           /\ \A n \in Node : \A sn \in acklist[n] : Held(n, sn)'
<1>1. /\ \A n \in Node : snd_nxt'[n] \in Nat
      /\ snd_nxt \in [Node -> Nat] /\ rcv_nxt \in [Node -> Nat]
      /\ sent \in [Node -> Seq(Fragment)] /\ got \in [Node -> Seq(Fragment)]
      /\ rcv_queue \in [Node -> Seq(Fragment)]
  BY DEF IInv, TypeOK
<1>2. ASSUME NEW n \in Node, NEW sn \in Nat, NEW frag, IsSent(n, sn, frag)
      PROVE  IsSent(n, sn, frag)'
  BY <1>1, <1>2, IsSentStable
<1>3. \A n \in Node : \A sn : Held(n, sn) => Held(n, sn)'
  BY DEF Held, rcvVars
<1>4. \A n \in Node : \A s \in snd_buf[n] : IsSent(n, s.sn, s.frag)'
  <2> SUFFICES ASSUME NEW n \in Node, NEW s \in snd_buf[n] PROVE IsSent(n, s.sn, s.frag)'
    OBVIOUS
  <2>1. s.sn \in Nat /\ IsSent(n, s.sn, s.frag)
    BY DEF IInv, TypeOK, Seg, SndBufIsSent
  <2> QED
    BY <2>1, <1>2
<1>5. RcvBufIsSent'
  <2> SUFFICES ASSUME NEW n \in Node, NEW s \in rcv_buf[n] PROVE IsSent(Peer(n), s.sn, s.frag)'
    BY DEF RcvBufIsSent, rcvVars
  <2>1. s.sn \in Nat /\ IsSent(Peer(n), s.sn, s.frag) /\ Peer(n) \in Node
    BY PeerType DEF IInv, TypeOK, Seg, RcvBufIsSent
  <2> QED
    BY <2>1, <1>2
<1>6. ReceivedIsSent'
  <2> SUFFICES ASSUME NEW n \in Node
               PROVE  /\ rcv_nxt[n] = Len(got[n]) + Len(rcv_queue[n])
                      /\ rcv_nxt[n] <= snd_nxt'[Peer(n)]
                      /\ \A i \in 1..Len(got[n]) : got[n][i] = sent'[Peer(n)][i]
                      /\ \A i \in 1..Len(rcv_queue[n]) :
                            rcv_queue[n][i] = sent'[Peer(n)][Len(got[n]) + i]
    BY DEF ReceivedIsSent, rcvVars
  <2>1. /\ rcv_nxt[n] = Len(got[n]) + Len(rcv_queue[n])
        /\ \A i \in 1..Len(got[n]) : got[n][i] = sent[Peer(n)][i]
        /\ \A i \in 1..Len(rcv_queue[n]) :
              rcv_queue[n][i] = sent[Peer(n)][Len(got[n]) + i]
    BY DEF IInv, ReceivedIsSent
  <2>2. Peer(n) \in Node
    BY PeerType
  <2>3. /\ Len(got[n]) \in Nat /\ Len(rcv_queue[n]) \in Nat /\ rcv_nxt[n] \in Nat
        /\ rcv_nxt[n] = Len(got[n]) + Len(rcv_queue[n])
        /\ rcv_nxt[n] <= snd_nxt[Peer(n)]
    BY Bounds
  <2>4. /\ snd_nxt[Peer(n)] \in Nat /\ Len(sent[Peer(n)]) \in Nat
        /\ snd_nxt[Peer(n)] <= Len(sent[Peer(n)])
    BY <2>2, Bounds
  <2>5. rcv_nxt[n] <= snd_nxt'[Peer(n)]
    <3>1. snd_nxt'[Peer(n)] \in Nat /\ snd_nxt'[Peer(n)] >= snd_nxt[Peer(n)]
      BY <1>1, <2>2
    <3> QED
      BY <1>1, <2>2, <2>3, <2>4, <3>1
  <2>6. ASSUME NEW i \in 1..Len(got[n]) PROVE got[n][i] = sent'[Peer(n)][i]
    <3>1. i \in 1..Len(sent[Peer(n)])
      BY <1>1, <2>2, <2>3, <2>4
    <3> QED
      BY <2>1, <2>2, <3>1
  <2>7. ASSUME NEW i \in 1..Len(rcv_queue[n])
        PROVE  rcv_queue[n][i] = sent'[Peer(n)][Len(got[n]) + i]
    <3>1. Len(got[n]) + i \in 1..Len(sent[Peer(n)])
      BY <1>1, <2>2, <2>3, <2>4
    <3> QED
      BY <2>1, <2>2, <3>1
  <2> QED
    BY <2>1, <2>5, <2>6, <2>7
<1>7. ASSUME NEW n \in Node, NEW p \in net[n] PROVE PacketIsTrue(n, p)'
  <2>1. /\ p.una <= rcv_nxt[Peer(n)]
        /\ p.cmd = "PUSH" => IsSent(Peer(n), p.sn, p.frag)
        /\ p.cmd = "ACK" => Held(Peer(n), p.sn)
    BY DEF IInv, NetIsTrue, PacketIsTrue
  <2>2. p.sn \in Nat /\ Peer(n) \in Node
    BY PeerType, PacketType DEF IInv
  <2>3. p.cmd = "PUSH" => IsSent(Peer(n), p.sn, p.frag)'
    BY <2>1, <2>2, <1>2
  <2>4. p.cmd = "ACK" => Held(Peer(n), p.sn)'
    BY <2>1, <2>2, <1>3
  <2>5. p.una <= rcv_nxt'[Peer(n)]
    BY <2>1 DEF rcvVars
  <2> QED
    BY <2>3, <2>4, <2>5 DEF PacketIsTrue
<1>8. \A n \in Node : \A sn \in acklist[n] : Held(n, sn)'
  BY <1>3 DEF IInv, AcklistIsHeld
<1> QED
  BY <1>4, <1>5, <1>6, <1>7, <1>8

LEMMA SendIInv ==
    ASSUME IInv, NEW n \in Node, NEW count \in 1..MaxFrags, IkcpSend(n, count)
    PROVE  IInv'
<1>1. TypeOK'
  BY SendType DEF IInv
<1>2. PICK fs \in Seq(Fragment) :
         /\ snd_queue' = [snd_queue EXCEPT ![n] = snd_queue[n] \o fs]
         /\ sent' = [sent EXCEPT ![n] = sent[n] \o fs]
  BY SendFragments DEF IInv
<1>3. UNCHANGED <<snd_una, snd_nxt, snd_buf, rcvVars, ctlVars, net, got>>
  BY DEF IkcpSend
<1>4. /\ Len(sent[n] \o fs) = Len(sent[n]) + Len(fs)
      /\ \A i \in 1..(Len(sent[n]) + Len(fs)) :
            (sent[n] \o fs)[i] = IF i <= Len(sent[n]) THEN sent[n][i] ELSE fs[i - Len(sent[n])]
  BY ConcatFragments DEF IInv, TypeOK
<1>5. Len(fs) \in Nat
  BY LenProperties
<1>6. \A m \in Node : /\ snd_nxt'[m] >= snd_nxt[m]
                      /\ \A i \in 1..Len(sent[m]) : sent'[m][i] = sent[m][i]
  <2> SUFFICES ASSUME NEW m \in Node
               PROVE  /\ snd_nxt'[m] >= snd_nxt[m]
                      /\ \A i \in 1..Len(sent[m]) : sent'[m][i] = sent[m][i]
    OBVIOUS
  <2>1. CASE m = n
    BY <2>1, <1>2, <1>3, <1>4, <1>5, Bounds DEF IInv, TypeOK
  <2>2. CASE m # n
    BY <2>2, <1>2, <1>3, Bounds DEF IInv, TypeOK
  <2> QED
    BY <2>1, <2>2
<1>7. QueueIsSent'
  <2> SUFFICES ASSUME NEW m \in Node
               PROVE  /\ Len(sent'[m]) = snd_nxt[m] + Len(snd_queue'[m])
                      /\ \A i \in 1..Len(snd_queue'[m]) :
                            snd_queue'[m][i] = sent'[m][snd_nxt[m] + i]
    BY <1>3 DEF QueueIsSent
  <2>1. CASE m = n
    <3> DEFINE q == snd_queue[n]  t == sent[n]  p == snd_nxt[n]
    <3>1. snd_queue'[n] = q \o fs /\ sent'[n] = t \o fs
      BY <1>2 DEF IInv, TypeOK
    <3>2. q \in Seq(Fragment) /\ t \in Seq(Fragment) /\ p \in Nat
      BY DEF IInv, TypeOK
    <3>5. Len(t) = p + Len(q)
      BY Bounds
    <3>6. \A i \in 1..Len(q) : q[i] = t[p + i]
      BY DEF IInv, QueueIsSent
    <3> HIDE DEF q, t, p
    <3>3. /\ Len(t \o fs) = p + Len(q \o fs)
          /\ \A i \in 1..Len(q \o fs) : (q \o fs)[i] = (t \o fs)[p + i]
      BY <3>2, <3>5, <3>6, AppendBoth, SMTT(40)
    <3>4. p = snd_nxt[m]
      BY <2>1 DEF p
    <3> QED
      BY <2>1, <3>1, <3>3, <3>4
  <2>2. CASE m # n
    BY <2>2, <1>2 DEF IInv, TypeOK, QueueIsSent
  <2> QED
    BY <2>1, <2>2
<1>8. AckedIsHeld'
  BY <1>3, PeerType DEF IInv, AckedIsHeld, rcvVars
<1> QED
  BY <1>1, <1>3, <1>6, <1>7, <1>8, DownstreamStable
  DEF IInv, SndBufIsSent, NetIsTrue, AcklistIsHeld, rcvVars, ctlVars

\* What ikcp_flush numbers and what it sends is what was submitted.
LEMMA NewSegsAreSent ==
    ASSUME IInv, NEW n \in Node, NEW s \in NewSegs(n)
    PROVE  /\ s.sn \in snd_nxt[n]..(snd_nxt[n] + MoveCount(n) - 1)
           /\ s.frag = sent[n][s.sn + 1]
<1>1. PICK i \in 1..MoveCount(n) : s = [sn |-> snd_nxt[n] + i - 1, frag |-> snd_queue[n][i]]
  BY DEF NewSegs
<1>2. MoveCount(n) \in 0..Len(snd_queue[n])
  BY MoveCountType DEF IInv
<1>3. Len(snd_queue[n]) \in Nat /\ snd_nxt[n] \in Nat
  BY Bounds
<1>4. i \in 1..Len(snd_queue[n]) /\ MoveCount(n) \in Nat
  BY <1>2, <1>3
<1>5. snd_queue[n][i] = sent[n][snd_nxt[n] + i]
  BY <1>4 DEF IInv, QueueIsSent
<1>6. s.sn = snd_nxt[n] + i - 1 /\ s.sn + 1 = snd_nxt[n] + i /\ s.frag = snd_queue[n][i]
  BY <1>1, <1>3
<1> QED
  BY <1>3, <1>4, <1>5, <1>6

LEMMA FlushIInv ==
    ASSUME IInv, NEW n \in Node, NEW expired \in BOOLEAN, NEW through,
           IkcpFlush(n, expired, through)
    PROVE  IInv'
<1> DEFINE k == MoveCount(n)
<1>1. TypeOK'
  BY FlushType DEF IInv
<1>2. k \in 0..Len(snd_queue[n]) /\ k \in Nat
  <2>1. MoveCount(n) \in 0..Len(snd_queue[n]) /\ Len(snd_queue[n]) \in Nat
    BY MoveCountType, Bounds DEF IInv
  <2> QED
    BY <2>1
<1>3. /\ snd_nxt' = [snd_nxt EXCEPT ![n] = snd_nxt[n] + k]
      /\ snd_queue' = [snd_queue EXCEPT ![n] = SubSeq(snd_queue[n], k + 1, Len(snd_queue[n]))]
      /\ snd_buf' = [snd_buf EXCEPT ![n] = snd_buf[n] \cup NewSegs(n)]
      /\ net' = [net EXCEPT ![Peer(n)] = net[Peer(n)] \cup through]
      /\ acklist' = [acklist EXCEPT ![n] = {}]
      /\ UNCHANGED <<snd_una, rmt_wnd, rcvVars, histVars>>
      /\ through \subseteq Output(n, ProbeFlags(n, expired))
  BY PeerType DEF IkcpFlush, IInv, TypeOK
<1> HIDE DEF k
<1>4. /\ snd_nxt \in [Node -> Nat] /\ snd_queue \in [Node -> Seq(Fragment)]
      /\ sent \in [Node -> Seq(Fragment)] /\ snd_buf \in [Node -> SUBSET Seg]
      /\ net \in [Node -> SUBSET Packet] /\ acklist \in [Node -> SUBSET Nat]
  BY DEF IInv, TypeOK
<1>5. \A m \in Node : /\ snd_nxt'[m] >= snd_nxt[m]
                      /\ \A i \in 1..Len(sent[m]) : sent'[m][i] = sent[m][i]
  BY <1>2, <1>3, <1>4 DEF histVars
<1>6. /\ \A m \in Node : \A s \in snd_buf[m] : IsSent(m, s.sn, s.frag)'
      /\ RcvBufIsSent'
      /\ ReceivedIsSent'
      /\ \A m \in Node : \A p \in net[m] : PacketIsTrue(m, p)'
      /\ \A m \in Node : \A sn \in acklist[m] : Held(m, sn)'
  BY <1>1, <1>3, <1>5, DownstreamStable DEF histVars
<1>7. QueueIsSent'
  <2> SUFFICES ASSUME NEW m \in Node
               PROVE  /\ Len(sent[m]) = snd_nxt'[m] + Len(snd_queue'[m])
                      /\ \A i \in 1..Len(snd_queue'[m]) :
                            snd_queue'[m][i] = sent[m][snd_nxt'[m] + i]
    <3>1. snd_nxt' \in [Node -> Nat] /\ snd_queue' \in [Node -> Seq(Fragment)]
          /\ sent' = sent
      BY <1>1, <1>3 DEF TypeOK, histVars
    <3> QED
      BY <1>4, <3>1 DEF QueueIsSent
  <2>1. CASE m = n
    <3>2. Len(snd_queue[n]) \in Nat /\ Len(sent[n]) \in Nat /\ snd_nxt[n] \in Nat
          /\ Len(sent[n]) = snd_nxt[n] + Len(snd_queue[n])
      BY Bounds
    <3> DEFINE q == SubSeq(snd_queue[n], k + 1, Len(snd_queue[n]))
    <3>3. /\ Len(q) = Len(snd_queue[n]) - k
          /\ \A i \in 1..(Len(snd_queue[n]) - k) : q[i] = snd_queue[n][k + i]
      BY <1>2, <1>4, <3>2, SubSeqTail
    <3>4. snd_queue'[m] = q /\ snd_nxt'[m] = snd_nxt[n] + k
      BY <1>3, <1>4, <2>1
    <3>5. \A i \in 1..Len(snd_queue[n]) : snd_queue[n][i] = sent[n][snd_nxt[n] + i]
      BY DEF IInv, QueueIsSent
    <3> HIDE DEF q
    <3>6. Len(sent[m]) = snd_nxt'[m] + Len(snd_queue'[m])
      BY <1>2, <1>4, <2>1, <3>2, <3>3, <3>4
    <3>7. ASSUME NEW i \in 1..Len(q) PROVE q[i] = sent[n][snd_nxt[n] + k + i]
      <4>1. i \in 1..(Len(snd_queue[n]) - k) /\ k + i \in 1..Len(snd_queue[n])
            /\ snd_nxt[n] + (k + i) = snd_nxt[n] + k + i
        BY <1>2, <1>4, <3>2, <3>3
      <4> QED
        BY <3>3, <3>5, <4>1
    <3> QED
      BY <2>1, <3>4, <3>6, <3>7
  <2>2. CASE m # n
    BY <1>3, <1>4, <2>2 DEF IInv, QueueIsSent
  <2> QED
    BY <2>1, <2>2
<1>8. SndBufIsSent'
  <2> SUFFICES ASSUME NEW m \in Node, NEW s \in snd_buf'[m] PROVE IsSent(m, s.sn, s.frag)'
    BY DEF SndBufIsSent
  <2>1. CASE s \in snd_buf[m]
    BY <1>6, <2>1
  <2>2. CASE m = n /\ s \in NewSegs(n)
    <3>1. /\ s.sn \in snd_nxt[n]..(snd_nxt[n] + k - 1)
          /\ s.frag = sent[n][s.sn + 1]
      BY <2>2, NewSegsAreSent DEF k
    <3>2. snd_nxt'[n] = snd_nxt[n] + k /\ snd_nxt[n] \in Nat
      BY <1>3, <1>4
    <3>3. s.sn < snd_nxt'[n]
      BY <1>2, <3>1, <3>2
    <3> QED
      BY <1>3, <2>2, <3>1, <3>3 DEF IsSent, histVars
  <2> QED
    BY <1>3, <1>4, <2>1, <2>2
<1>9. NetIsTrue'
  <2> SUFFICES ASSUME NEW m \in Node, NEW p \in net'[m] PROVE PacketIsTrue(m, p)'
    BY DEF NetIsTrue
  <2>1. CASE p \in net[m]
    BY <1>6, <2>1
  <2>2. CASE m = Peer(n) /\ p \in through
    <3>1. Peer(m) = n
      BY <2>2, PeerType
    <3>2. \/ p.cmd = "ACK" /\ p.sn \in acklist[n]
          \/ p.cmd \in {"WASK", "WINS"}
          \/ p.cmd = "PUSH" /\ \E s \in snd_buf[n] \cup NewSegs(n) : p.sn = s.sn /\ p.frag = s.frag
      BY <1>3, <2>2 DEF Output, Packets
    <3>3. p.una = rcv_nxt[n]
      BY <1>3, <2>2 DEF Output, Packets
    <3>4. p.una <= rcv_nxt'[n]
      <4>1. rcv_nxt[n] \in Nat /\ rcv_nxt'[n] = rcv_nxt[n]
        BY <1>3, Bounds DEF rcvVars
      <4> QED
        BY <3>3, <4>1
    <3>5. ASSUME p.cmd = "ACK" PROVE Held(n, p.sn)'
      BY <1>6, <3>2, <3>5
    <3>6. ASSUME p.cmd = "PUSH" PROVE IsSent(n, p.sn, p.frag)'
      <4>1. PICK s \in snd_buf[n] \cup NewSegs(n) : p.sn = s.sn /\ p.frag = s.frag
        BY <3>2, <3>6
      <4>2. s \in snd_buf'[n]
        BY <1>3, <1>4
      <4>3. IsSent(n, s.sn, s.frag)'
        BY <1>8, <4>2 DEF SndBufIsSent
      <4> QED
        BY <4>1, <4>3
    <3> QED
      BY <3>1, <3>4, <3>5, <3>6 DEF PacketIsTrue
  <2> QED
    BY <1>3, <1>4, <2>1, <2>2, PeerType
<1>10. AcklistIsHeld'
  BY <1>3, <1>4, <1>6 DEF AcklistIsHeld
<1>11. AckedIsHeld'
  <2> SUFFICES ASSUME NEW m \in Node, NEW sn \in 0..(snd_nxt'[m] - 1)
               PROVE  \/ sn \in Sns(snd_buf'[m])
                      \/ sn < rcv_nxt[Peer(m)]
                      \/ sn \in Sns(rcv_buf[Peer(m)])
    BY <1>3 DEF AckedIsHeld, rcvVars
  <2>1. CASE sn < snd_nxt[m]
    <3>1. sn \in 0..(snd_nxt[m] - 1)
      BY <1>4, <2>1
    <3>2. Sns(snd_buf[m]) \subseteq Sns(snd_buf'[m])
      BY <1>3, <1>4 DEF Sns
    <3> QED
      BY <3>1, <3>2 DEF IInv, AckedIsHeld
  <2>2. CASE ~(sn < snd_nxt[m])
    <3>1. m = n /\ snd_nxt[n] \in Nat /\ snd_nxt'[n] = snd_nxt[n] + k
      BY <1>2, <1>3, <1>4, <2>2
    <3>2. sn - snd_nxt[n] + 1 \in 1..k /\ snd_nxt[n] + (sn - snd_nxt[n] + 1) - 1 = sn
      BY <1>2, <2>2, <3>1
    <3>3. [sn |-> sn, frag |-> snd_queue[n][sn - snd_nxt[n] + 1]] \in NewSegs(n)
      BY <3>2 DEF NewSegs, k
    <3> QED
      BY <1>3, <1>4, <3>1, <3>3 DEF Sns
  <2> QED
    BY <2>1, <2>2
<1> QED
  BY <1>1, <1>6, <1>7, <1>8, <1>9, <1>10, <1>11 DEF IInv

\* What every step that reads or moves received segments keeps: the segments
\* moved come next in `sent`, and nothing held is let go.
LEMMA MovedKeeps ==
    ASSUME IInv, NEW n \in Node, NEW buf \in SUBSET Seg, NEW queue \in Seq(Fragment),
           NEW k \in Nat, NEW new \in Seq(Fragment), Moved(n, buf, queue, k, new),
           rcv_buf[n] \subseteq buf,
           \A s \in buf : IsSent(Peer(n), s.sn, s.frag),
           UNCHANGED <<snd_nxt, sent>>,
           got' \in [Node -> Seq(Fragment)],
           \A m \in Node : m # n => got'[m] = got[m],
           rcv_nxt[n] = Len(got'[n]) + Len(queue),
           \A i \in 1..Len(got'[n]) : got'[n][i] = sent[Peer(n)][i],
           \A i \in 1..Len(queue) : queue[i] = sent[Peer(n)][Len(got'[n]) + i]
    PROVE  /\ RcvBufIsSent'
           /\ ReceivedIsSent'
           /\ \A m \in Node : rcv_nxt'[m] >= rcv_nxt[m]
           /\ \A m \in Node : \A sn \in Nat : Held(m, sn) => Held(m, sn)'
           /\ \A s \in buf : Held(n, s.sn)'
<1>1. /\ rcv_nxt \in [Node -> Nat] /\ rcv_buf \in [Node -> SUBSET Seg]
      /\ rcv_queue \in [Node -> Seq(Fragment)] /\ snd_nxt \in [Node -> Nat]
      /\ sent \in [Node -> Seq(Fragment)]
  BY DEF IInv, TypeOK
<1>2. /\ Len(new) = k
      /\ \A i \in 1..k : [sn |-> rcv_nxt[n] + i - 1, frag |-> new[i]] \in buf
      /\ rcv_nxt' = [rcv_nxt EXCEPT ![n] = rcv_nxt[n] + k]
      /\ rcv_buf' = [rcv_buf EXCEPT ![n] = {s \in buf : s.sn >= rcv_nxt[n] + k}]
      /\ rcv_queue' = [rcv_queue EXCEPT ![n] = queue \o new]
  BY DEF Moved
<1>3. Peer(n) \in Node /\ Len(queue) \in Nat /\ Len(got'[n]) \in Nat
      /\ rcv_nxt[n] \in Nat /\ snd_nxt[Peer(n)] \in Nat
  BY <1>1, PeerType, LenProperties
<1>4. \A i \in 1..k : rcv_nxt[n] + i - 1 < snd_nxt[Peer(n)]
                      /\ new[i] = sent[Peer(n)][rcv_nxt[n] + i]
  <2> SUFFICES ASSUME NEW i \in 1..k
               PROVE  rcv_nxt[n] + i - 1 < snd_nxt[Peer(n)]
                      /\ new[i] = sent[Peer(n)][rcv_nxt[n] + i]
    OBVIOUS
  <2> DEFINE s == [sn |-> rcv_nxt[n] + i - 1, frag |-> new[i]]
  <2>1. s \in buf
    BY <1>2
  <2>2. IsSent(Peer(n), s.sn, s.frag)
    BY <2>1
  <2>3. s.sn = rcv_nxt[n] + i - 1 /\ s.frag = new[i] /\ s.sn + 1 = rcv_nxt[n] + i
    BY <1>3
  <2> HIDE DEF s
  <2> QED
    BY <2>2, <2>3 DEF IsSent
<1>5. RcvBufIsSent'
  <2> SUFFICES ASSUME NEW m \in Node, NEW s \in rcv_buf'[m] PROVE IsSent(Peer(m), s.sn, s.frag)
    BY DEF RcvBufIsSent, IsSent
  <2>1. CASE m = n
    BY <1>1, <1>2, <2>1
  <2>2. CASE m # n
    BY <1>1, <1>2, <2>2 DEF IInv, RcvBufIsSent
  <2> QED
    BY <2>1, <2>2
<1>6. rcv_nxt[n] + k <= snd_nxt[Peer(n)]
  <2>1. CASE k = 0
    <3>1. rcv_nxt[n] <= snd_nxt[Peer(n)]
      BY Bounds
    <3> QED
      BY <1>3, <2>1, <3>1
  <2>2. CASE k # 0
    <3>1. k \in 1..k
      BY <2>2
    <3> QED
      BY <1>3, <1>4, <3>1
  <2> QED
    BY <2>1, <2>2
<1>7. ReceivedIsSent'
  <2> SUFFICES ASSUME NEW m \in Node
               PROVE  /\ rcv_nxt'[m] = Len(got'[m]) + Len(rcv_queue'[m])
                      /\ rcv_nxt'[m] <= snd_nxt[Peer(m)]
                      /\ \A i \in 1..Len(got'[m]) : got'[m][i] = sent[Peer(m)][i]
                      /\ \A i \in 1..Len(rcv_queue'[m]) :
                            rcv_queue'[m][i] = sent[Peer(m)][Len(got'[m]) + i]
    <3>1. rcv_nxt' \in [Node -> Nat] /\ rcv_queue' \in [Node -> Seq(Fragment)]
      BY <1>1, <1>2, ConcatFragments
    <3> QED
      BY <1>1, <3>1 DEF ReceivedIsSent
  <2>1. CASE m = n
    <3>1. /\ Len(queue \o new) = Len(queue) + k
          /\ \A i \in 1..(Len(queue) + k) :
                (queue \o new)[i] = IF i <= Len(queue) THEN queue[i] ELSE new[i - Len(queue)]
      BY <1>2, ConcatFragments
    <3>2. rcv_queue'[m] = queue \o new /\ rcv_nxt'[m] = rcv_nxt[n] + k
      BY <1>1, <1>2, <2>1
    <3>3. ASSUME NEW i \in 1..(Len(queue) + k)
          PROVE  (queue \o new)[i] = sent[Peer(n)][Len(got'[n]) + i]
      <4>1. CASE i <= Len(queue)
        <5>1. i \in 1..Len(queue)
          BY <1>3, <4>1
        <5> QED
          BY <3>1, <4>1, <5>1
      <4>2. CASE ~(i <= Len(queue))
        <5>1. i - Len(queue) \in 1..k
              /\ rcv_nxt[n] + (i - Len(queue)) = Len(got'[n]) + i
          BY <1>3, <4>2
        <5> QED
          BY <1>4, <3>1, <4>2, <5>1
      <4> QED
        BY <4>1, <4>2
    <3>4. rcv_nxt[n] + k = Len(got'[n]) + (Len(queue) + k)
      BY <1>3
    <3> QED
      BY <1>6, <2>1, <3>1, <3>2, <3>3, <3>4
  <2>2. CASE m # n
    <3>1. rcv_queue'[m] = rcv_queue[m] /\ rcv_nxt'[m] = rcv_nxt[m] /\ got'[m] = got[m]
      BY <1>1, <1>2, <2>2
    <3>2. /\ rcv_nxt[m] = Len(got[m]) + Len(rcv_queue[m])
          /\ rcv_nxt[m] <= snd_nxt[Peer(m)]
          /\ \A i \in 1..Len(got[m]) : got[m][i] = sent[Peer(m)][i]
          /\ \A i \in 1..Len(rcv_queue[m]) :
                rcv_queue[m][i] = sent[Peer(m)][Len(got[m]) + i]
      BY DEF IInv, ReceivedIsSent
    <3> QED
      BY <3>1, <3>2, Zenon
  <2> QED
    BY <2>1, <2>2
<1>8. \A m \in Node : rcv_nxt'[m] >= rcv_nxt[m]
  <2> SUFFICES ASSUME NEW m \in Node PROVE rcv_nxt'[m] >= rcv_nxt[m]
    OBVIOUS
  <2>1. rcv_nxt[m] \in Nat
    BY DEF IInv, TypeOK
  <2>2. CASE m = n
    BY <1>1, <1>2, <2>1, <2>2
  <2>3. CASE m # n
    <3>1. rcv_nxt'[m] = rcv_nxt[m]
      BY <1>1, <1>2, <2>3
    <3> QED
      BY <2>1, <3>1
  <2> QED
    BY <2>2, <2>3
<1>9. \A s \in buf : Held(n, s.sn)'
  <2> SUFFICES ASSUME NEW s \in buf, ~(s.sn < rcv_nxt'[n])
               PROVE  s.sn \in Sns(rcv_buf'[n])
    BY DEF Held
  <2>1. s.sn \in Nat
    BY DEF Seg
  <2>2. s.sn >= rcv_nxt[n] + k
    BY <1>1, <1>2, <2>1
  <2> QED
    BY <1>1, <1>2, <2>2 DEF Sns
<1>10. \A m \in Node : \A sn \in Nat : Held(m, sn) => Held(m, sn)'
  <2> SUFFICES ASSUME NEW m \in Node, NEW sn \in Nat, Held(m, sn) PROVE Held(m, sn)'
    OBVIOUS
  <2>1. CASE sn < rcv_nxt[m]
    <3>1. sn < rcv_nxt'[m]
      BY <1>1, <1>2, <2>1
    <3> QED
      BY <3>1 DEF Held
  <2>2. CASE m # n /\ sn \in Sns(rcv_buf[m])
    BY <1>1, <1>2, <2>2 DEF Held
  <2>3. CASE m = n /\ sn \in Sns(rcv_buf[n])
    <3>1. PICK s \in buf : s.sn = sn
      BY <2>3 DEF Sns
    <3>2. Held(n, s.sn)'
      BY <1>9
    <3> QED
      BY <2>3, <3>1, <3>2
  <2> QED
    BY <2>1, <2>2, <2>3 DEF Held
<1> QED
  BY <1>5, <1>7, <1>8, <1>9, <1>10

\* What a datagram does to the sending side of its receiver is justified by
\* what the datagram says; its receiving side is the caller's business.
LEMMA InputKeeps ==
    ASSUME IInv, TypeOK', NEW n \in Node, NEW p \in net[n], NEW segs \in SUBSET snd_buf[n],
           InputHeader(n, p, segs),
           \A s \in snd_buf[n] \ segs : s.sn < p.una \/ (p.cmd = "ACK" /\ s.sn = p.sn),
           RcvBufIsSent', ReceivedIsSent',
           \A m \in Node : rcv_nxt'[m] >= rcv_nxt[m],
           \A m \in Node : \A sn \in Nat : Held(m, sn) => Held(m, sn)',
           \A m \in Node : \A sn \in acklist'[m] : sn \in acklist[m] \/ Held(m, sn)'
    PROVE  IInv'
<1>1. /\ rcv_nxt \in [Node -> Nat] /\ snd_buf \in [Node -> SUBSET Seg]
      /\ net \in [Node -> SUBSET Packet] /\ acklist \in [Node -> SUBSET Nat]
      /\ rcv_nxt' \in [Node -> Nat] /\ snd_nxt \in [Node -> Nat]
  BY DEF IInv, TypeOK
<1>2. /\ snd_buf' = [snd_buf EXCEPT ![n] = segs]
      /\ \A m \in Node : net'[m] \subseteq net[m]
      /\ UNCHANGED <<snd_nxt, snd_queue, sent, got>>
  BY <1>1 DEF InputHeader, Take, histVars
<1>3. \A m \in Node : snd_buf'[m] \subseteq snd_buf[m]
  BY <1>1, <1>2
<1>4. QueueIsSent'
  BY <1>2 DEF IInv, QueueIsSent
<1>5. SndBufIsSent'
  BY <1>2, <1>3 DEF IInv, SndBufIsSent, IsSent
<1>6. NetIsTrue'
  <2> SUFFICES ASSUME NEW m \in Node, NEW q \in net'[m] PROVE PacketIsTrue(m, q)'
    BY DEF NetIsTrue
  <2>1. /\ q.una <= rcv_nxt[Peer(m)]
        /\ q.cmd = "PUSH" => IsSent(Peer(m), q.sn, q.frag)
        /\ q.cmd = "ACK" => Held(Peer(m), q.sn)
    BY <1>2 DEF IInv, NetIsTrue, PacketIsTrue
  <2>2. Peer(m) \in Node /\ q.sn \in Nat /\ q.una \in Nat
    BY <1>1, <1>2, PeerType DEF Packet
  <2>3. q.una <= rcv_nxt'[Peer(m)]
    <3>1. rcv_nxt'[Peer(m)] \in Nat /\ rcv_nxt[Peer(m)] \in Nat
          /\ rcv_nxt'[Peer(m)] >= rcv_nxt[Peer(m)]
      BY <1>1, <2>2
    <3> QED
      BY <2>1, <2>2, <3>1
  <2>4. q.cmd = "PUSH" => IsSent(Peer(m), q.sn, q.frag)'
    BY <1>2, <2>1 DEF IsSent
  <2>5. q.cmd = "ACK" => Held(Peer(m), q.sn)'
    BY <2>1, <2>2
  <2> QED
    BY <2>3, <2>4, <2>5 DEF PacketIsTrue
<1>7. AcklistIsHeld'
  <2> SUFFICES ASSUME NEW m \in Node, NEW sn \in acklist[m] PROVE Held(m, sn)'
    BY DEF AcklistIsHeld
  <2>1. sn \in Nat /\ Held(m, sn)
    BY <1>1 DEF IInv, AcklistIsHeld
  <2> QED
    BY <2>1
<1>8. AckedIsHeld'
  <2> SUFFICES ASSUME NEW m \in Node, NEW sn \in 0..(snd_nxt[m] - 1),
                      sn \notin Sns(snd_buf'[m])
               PROVE  Held(Peer(m), sn)'
    BY <1>2 DEF AckedIsHeld, Held
  <2>1. Peer(m) \in Node /\ sn \in Nat
    BY <1>1, PeerType
  <2>2. CASE sn \notin Sns(snd_buf[m])
    <3>1. Held(Peer(m), sn)
      BY <2>2 DEF IInv, AckedIsHeld, Held
    <3> QED
      BY <2>1, <3>1
  <2>3. CASE sn \in Sns(snd_buf[m])
    <3>1. m = n
      BY <1>1, <1>2, <2>3
    <3>2. PICK s \in snd_buf[n] : s.sn = sn
      BY <2>3, <3>1 DEF Sns
    <3>3. s \notin segs
      BY <1>1, <1>2, <3>1, <3>2 DEF Sns
    <3>4. PacketIsTrue(n, p)
      BY DEF IInv, NetIsTrue
    <3>5. Held(Peer(n), sn)
      <4>1. CASE s.sn < p.una
        <5>1. p.una <= rcv_nxt[Peer(n)] /\ p.una \in Nat /\ rcv_nxt[Peer(n)] \in Nat
          BY <1>1, <3>4, PeerType DEF PacketIsTrue, Packet
        <5>2. sn < rcv_nxt[Peer(n)]
          BY <2>1, <3>2, <4>1, <5>1
        <5> QED
          BY <5>2 DEF Held
      <4>2. CASE p.cmd = "ACK" /\ s.sn = p.sn
        BY <3>2, <3>4, <4>2 DEF PacketIsTrue
      <4> QED
        BY <3>3, <4>1, <4>2
    <3> QED
      BY <2>1, <3>1, <3>5
  <2> QED
    BY <2>2, <2>3
<1> QED
  BY <1>4, <1>5, <1>6, <1>7, <1>8 DEF IInv

\* The facts about the receiving side that InputKeeps asks for, when a datagram
\* leaves the receiving side alone.
LEMMA UntouchedKeeps ==
    ASSUME IInv, UNCHANGED <<rcvVars, snd_nxt, sent, got>>
    PROVE  /\ RcvBufIsSent' /\ ReceivedIsSent'
           /\ \A m \in Node : rcv_nxt'[m] >= rcv_nxt[m]
           /\ \A m \in Node : \A sn \in Nat : Held(m, sn) => Held(m, sn)'
<1>1. RcvBufIsSent'
  BY DEF IInv, RcvBufIsSent, IsSent, rcvVars
<1>2. ReceivedIsSent'
  BY DEF IInv, ReceivedIsSent, rcvVars
<1>3. \A m \in Node : rcv_nxt'[m] >= rcv_nxt[m]
  BY DEF IInv, TypeOK, rcvVars
<1>4. \A m \in Node : \A sn \in Nat : Held(m, sn) => Held(m, sn)'
  BY DEF Held, rcvVars
<1> QED
  BY <1>1, <1>2, <1>3, <1>4

LEMMA InputIInv ==
    ASSUME IInv, NEW n \in Node, NEW p \in net[n],
           IkcpInputAck(n, p) \/ IkcpInputPush(n, p) \/ IkcpInputProbe(n, p)
    PROVE  IInv'
<1>1. TypeOK'
  BY InputType DEF IInv
<1>2. p \in Packet /\ p.sn \in Nat /\ p.una \in Nat /\ p.frag \in Fragment
  BY PacketType DEF IInv
<1>3. snd_buf[n] \in SUBSET Seg /\ \A s \in snd_buf[n] : s.sn \in Nat
  BY DEF IInv, TypeOK, Seg
<1>4. /\ ParseUna(n, p.una) \in SUBSET snd_buf[n]
      /\ \A s \in snd_buf[n] \ ParseUna(n, p.una) : s.sn < p.una
  BY <1>2, <1>3 DEF ParseUna
<1>5. CASE IkcpInputAck(n, p)
  <2> DEFINE segs == ParseAck(ParseUna(n, p.una), p.sn)
  <2>1. /\ segs \in SUBSET snd_buf[n]
        /\ \A s \in snd_buf[n] \ segs : s.sn < p.una \/ (p.cmd = "ACK" /\ s.sn = p.sn)
    BY <1>4, <1>5 DEF ParseAck, IkcpInputAck
  <2>2. InputHeader(n, p, segs) /\ UNCHANGED <<rcvVars, snd_nxt, sent, got, acklist>>
    BY <1>5 DEF IkcpInputAck, InputHeader, histVars
  <2> HIDE DEF segs
  <2> QED
    BY <1>1, <2>1, <2>2, UntouchedKeeps, InputKeeps
<1>6. CASE IkcpInputProbe(n, p)
  <2>1. /\ InputHeader(n, p, ParseUna(n, p.una))
        /\ UNCHANGED <<rcvVars, snd_nxt, sent, got, acklist>>
    BY <1>6 DEF IkcpInputProbe, InputHeader, histVars
  <2> QED
    BY <1>1, <1>4, <2>1, UntouchedKeeps, InputKeeps
<1>7. CASE IkcpInputPush(n, p)
  <2>1. InputHeader(n, p, ParseUna(n, p.una)) /\ UNCHANGED <<snd_nxt, sent, got>>
    BY <1>7 DEF IkcpInputPush, InputHeader, histVars
  <2>2. acklist' = [acklist EXCEPT ![n] = IF InWindow(n, p.sn) THEN @ \cup {p.sn} ELSE @]
    BY <1>7 DEF IkcpInputPush
  <2>3. acklist \in [Node -> SUBSET Nat]
    BY DEF IInv, TypeOK
  <2>4. CASE InWindow(n, p.sn) /\ p.sn >= rcv_nxt[n]
    <3> DEFINE seg == [sn |-> p.sn, frag |-> p.frag]
               buf == IF p.sn \in Sns(rcv_buf[n]) THEN rcv_buf[n] ELSE rcv_buf[n] \cup {seg}
    <3>1. MoveReady(n, buf, rcv_queue[n])
      BY <1>7, <2>4 DEF IkcpInputPush, ParseData
    <3>2. rcv_buf[n] \in SUBSET Seg /\ rcv_queue[n] \in Seq(Fragment) /\ seg \in Seg
      BY <1>2 DEF IInv, TypeOK, Seg
    <3>3. IsSent(Peer(n), p.sn, p.frag)
      BY <1>7 DEF IInv, NetIsTrue, PacketIsTrue, IkcpInputPush
    <3>4. \A s \in buf : IsSent(Peer(n), s.sn, s.frag)
      BY <3>3 DEF IInv, RcvBufIsSent
    <3>5. buf \in SUBSET Seg /\ rcv_buf[n] \subseteq buf /\ \E s \in buf : s.sn = p.sn
      BY <3>2 DEF Sns
    <3> HIDE DEF buf
    <3>6. PICK k \in Nat, new \in Seq(Fragment) : Moved(n, buf, rcv_queue[n], k, new)
      BY <3>1, <3>2, <3>5, MoveReadyEffect DEF IInv
    <3>7. got' \in [Node -> Seq(Fragment)] /\ got' = got
      BY <1>1, <2>1 DEF TypeOK
    <3>8. /\ rcv_nxt[n] = Len(got[n]) + Len(rcv_queue[n])
          /\ \A i \in 1..Len(got[n]) : got[n][i] = sent[Peer(n)][i]
          /\ \A i \in 1..Len(rcv_queue[n]) :
                rcv_queue[n][i] = sent[Peer(n)][Len(got[n]) + i]
      BY DEF IInv, ReceivedIsSent
    <3>9. /\ RcvBufIsSent' /\ ReceivedIsSent'
          /\ \A m \in Node : rcv_nxt'[m] >= rcv_nxt[m]
          /\ \A m \in Node : \A sn \in Nat : Held(m, sn) => Held(m, sn)'
          /\ \A s \in buf : Held(n, s.sn)'
      BY <2>1, <3>2, <3>4, <3>5, <3>6, <3>7, <3>8, MovedKeeps
    <3>10. Held(n, p.sn)'
      BY <3>5, <3>9
    <3>11. \A m \in Node : \A sn \in acklist'[m] : sn \in acklist[m] \/ Held(m, sn)'
      BY <2>2, <2>3, <3>10
    <3> QED
      BY <1>1, <1>4, <2>1, <3>9, <3>11, InputKeeps
  <2>5. CASE ~(InWindow(n, p.sn) /\ p.sn >= rcv_nxt[n])
    <3>1. UNCHANGED rcvVars
      BY <1>7, <2>5 DEF IkcpInputPush
    <3>2. rcv_nxt[n] \in Nat
      BY Bounds
    <3>3. InWindow(n, p.sn) => Held(n, p.sn)'
      <4> SUFFICES ASSUME InWindow(n, p.sn) PROVE p.sn < rcv_nxt'[n]
        BY DEF Held
      <4>1. p.sn < rcv_nxt[n] /\ rcv_nxt' = rcv_nxt
        BY <1>2, <2>5, <3>1, <3>2 DEF rcvVars
      <4> QED
        BY <4>1
    <3>4. \A m \in Node : \A sn \in acklist'[m] : sn \in acklist[m] \/ Held(m, sn)'
      BY <2>2, <2>3, <3>3
    <3> QED
      BY <1>1, <1>4, <2>1, <3>1, <3>4, UntouchedKeeps, InputKeeps
  <2> QED
    BY <2>4, <2>5
<1> QED
  BY <1>5, <1>6, <1>7

LEMMA RecvIInv ==
    ASSUME IInv, NEW n \in Node, IkcpRecv(n)
    PROVE  IInv'
<1>1. TypeOK'
  BY RecvType DEF IInv
<1> DEFINE head(j) == SubSeq(rcv_queue[n], 1, j)
           tail(j) == SubSeq(rcv_queue[n], j + 1, Len(rcv_queue[n]))
<1>2. PICK j \in 1..RecvCap :
         /\ j \in 1..Len(rcv_queue[n])
         /\ got' = [got EXCEPT ![n] = got[n] \o head(j)]
         /\ MoveReady(n, rcv_buf[n], tail(j))
         /\ UNCHANGED <<sndVars, rmt_wnd, acklist, probe_wait, net, sent>>
  BY DEF IkcpRecv, WholeMessage, IInv, TypeOK
<1>3. /\ rcv_queue[n] \in Seq(Fragment) /\ got[n] \in Seq(Fragment)
      /\ rcv_buf[n] \in SUBSET Seg /\ got \in [Node -> Seq(Fragment)]
      /\ rcv_queue \in [Node -> Seq(Fragment)] /\ got' \in [Node -> Seq(Fragment)]
  BY <1>1 DEF IInv, TypeOK
<1>4. /\ Len(got[n]) \in Nat /\ Len(rcv_queue[n]) \in Nat /\ rcv_nxt[n] \in Nat
      /\ rcv_nxt[n] = Len(got[n]) + Len(rcv_queue[n])
  BY Bounds
<1>5. j \in Nat /\ j <= Len(rcv_queue[n])
  BY <1>2, <1>4
<1>6. /\ head(j) \in Seq(Fragment) /\ Len(head(j)) = j
      /\ \A i \in 1..j : head(j)[i] = rcv_queue[n][i]
  <2>1. \A i \in 1..j : rcv_queue[n][i] \in Fragment
    BY <1>3, <1>4, <1>5, ElementOfSeq
  <2>2. /\ head(j) \in Seq(Fragment)
        /\ Len(head(j)) = IF 1 <= j THEN j - 1 + 1 ELSE 0
        /\ \A i \in 1..(j - 1 + 1) : head(j)[i] = rcv_queue[n][1 + i - 1]
    BY <1>5, <2>1, SubSeqProperties
  <2>3. j - 1 + 1 = j /\ \A i \in Nat : 1 + i - 1 = i
    BY <1>5
  <2> HIDE DEF head
  <2> QED
    BY <1>2, <1>5, <2>2, <2>3
<1>7. /\ tail(j) \in Seq(Fragment) /\ Len(tail(j)) = Len(rcv_queue[n]) - j
      /\ \A i \in 1..(Len(rcv_queue[n]) - j) : tail(j)[i] = rcv_queue[n][j + i]
  BY <1>3, <1>5, SubSeqTail
<1> HIDE DEF head, tail
<1>8. PICK k \in Nat, new \in Seq(Fragment) : Moved(n, rcv_buf[n], tail(j), k, new)
  BY <1>2, <1>3, <1>7, MoveReadyEffect DEF IInv
<1>9. /\ got'[n] = got[n] \o head(j) /\ Len(got'[n]) = Len(got[n]) + j
      /\ \A i \in 1..(Len(got[n]) + j) :
            got'[n][i] = IF i <= Len(got[n]) THEN got[n][i] ELSE head(j)[i - Len(got[n])]
  <2>1. /\ Len(got[n] \o head(j)) = Len(got[n]) + j
        /\ \A i \in 1..(Len(got[n]) + j) :
              (got[n] \o head(j))[i] =
                  IF i <= Len(got[n]) THEN got[n][i] ELSE head(j)[i - Len(got[n])]
    <3>1. /\ Len(got[n] \o head(j)) = Len(got[n]) + Len(head(j))
          /\ \A i \in 1..(Len(got[n]) + Len(head(j))) :
                (got[n] \o head(j))[i] =
                    IF i <= Len(got[n]) THEN got[n][i] ELSE head(j)[i - Len(got[n])]
      BY <1>3, <1>6, ConcatFragments
    <3>2. Len(head(j)) = j
      BY <1>6
    <3> QED
      BY <3>1, <3>2, Zenon
  <2> QED
    BY <1>2, <1>3, <2>1
<1>10. /\ \A i \in 1..Len(got[n]) : got[n][i] = sent[Peer(n)][i]
       /\ \A i \in 1..Len(rcv_queue[n]) : rcv_queue[n][i] = sent[Peer(n)][Len(got[n]) + i]
  BY DEF IInv, ReceivedIsSent
<1>11. rcv_nxt[n] = Len(got'[n]) + Len(tail(j))
  <2>1. \A a, b, c \in Nat : c <= b => a + b = (a + c) + (b - c)
    OBVIOUS
  <2> QED
    BY <1>3, <1>4, <1>5, <1>7, <1>9, <2>1
<1>12. ASSUME NEW i \in 1..Len(got'[n]) PROVE got'[n][i] = sent[Peer(n)][i]
  <2>1. i \in 1..(Len(got[n]) + j)
    BY <1>9
  <2>2. CASE i <= Len(got[n])
    <3>1. i \in 1..Len(got[n])
      BY <1>4, <2>1, <2>2
    <3> QED
      BY <1>9, <1>10, <2>1, <2>2, <3>1
  <2>3. CASE ~(i <= Len(got[n]))
    <3>1. /\ i - Len(got[n]) \in 1..j /\ i - Len(got[n]) \in 1..Len(rcv_queue[n])
          /\ Len(got[n]) + (i - Len(got[n])) = i
      BY <1>4, <1>5, <2>1, <2>3
    <3>2. got'[n][i] = rcv_queue[n][i - Len(got[n])]
      BY <1>6, <1>9, <2>1, <2>3, <3>1
    <3> QED
      BY <1>10, <3>1, <3>2
  <2> QED
    BY <2>2, <2>3
<1>13. ASSUME NEW i \in 1..Len(tail(j)) PROVE tail(j)[i] = sent[Peer(n)][Len(got'[n]) + i]
  <2>1. i \in 1..(Len(rcv_queue[n]) - j)
    BY <1>7
  <2>2. /\ j + i \in 1..Len(rcv_queue[n])
        /\ Len(got[n]) + (j + i) = (Len(got[n]) + j) + i
    BY <1>3, <1>4, <1>5, <2>1
  <2> QED
    BY <1>7, <1>9, <1>10, <2>1, <2>2
<1>14. /\ got' \in [Node -> Seq(Fragment)]
       /\ \A m \in Node : m # n => got'[m] = got[m]
       /\ \A s \in rcv_buf[n] : IsSent(Peer(n), s.sn, s.frag)
       /\ UNCHANGED <<snd_nxt, sent, snd_buf, snd_queue, net, acklist>>
  BY <1>1, <1>2, <1>3 DEF TypeOK, IInv, RcvBufIsSent, sndVars
<1>15. /\ RcvBufIsSent' /\ ReceivedIsSent'
       /\ \A m \in Node : rcv_nxt'[m] >= rcv_nxt[m]
       /\ \A m \in Node : \A sn \in Nat : Held(m, sn) => Held(m, sn)'
  BY <1>3, <1>7, <1>8, <1>11, <1>12, <1>13, <1>14, MovedKeeps
<1>16. QueueIsSent' /\ SndBufIsSent'
  BY <1>14 DEF IInv, QueueIsSent, SndBufIsSent, IsSent
<1>17. NetIsTrue'
  <2> SUFFICES ASSUME NEW m \in Node, NEW q \in net[m] PROVE PacketIsTrue(m, q)'
    BY <1>14 DEF NetIsTrue
  <2>1. /\ q.una <= rcv_nxt[Peer(m)]
        /\ q.cmd = "PUSH" => IsSent(Peer(m), q.sn, q.frag)
        /\ q.cmd = "ACK" => Held(Peer(m), q.sn)
    BY DEF IInv, NetIsTrue, PacketIsTrue
  <2>2. Peer(m) \in Node /\ q.sn \in Nat /\ q.una \in Nat
    BY PeerType, PacketType DEF IInv
  <2>3. q.una <= rcv_nxt'[Peer(m)]
    <3>1. rcv_nxt'[Peer(m)] \in Nat /\ rcv_nxt[Peer(m)] \in Nat
          /\ rcv_nxt'[Peer(m)] >= rcv_nxt[Peer(m)]
      BY <1>1, <1>15, <2>2 DEF IInv, TypeOK
    <3> QED
      BY <2>1, <2>2, <3>1
  <2>4. q.cmd = "PUSH" => IsSent(Peer(m), q.sn, q.frag)'
    BY <1>14, <2>1 DEF IsSent
  <2>5. q.cmd = "ACK" => Held(Peer(m), q.sn)'
    BY <1>15, <2>1, <2>2
  <2> QED
    BY <2>3, <2>4, <2>5 DEF PacketIsTrue
<1>18. AcklistIsHeld'
  <2> SUFFICES ASSUME NEW m \in Node, NEW sn \in acklist[m] PROVE Held(m, sn)'
    BY <1>14 DEF AcklistIsHeld
  <2>1. sn \in Nat /\ Held(m, sn)
    BY DEF IInv, TypeOK, AcklistIsHeld
  <2> QED
    BY <1>15, <2>1
<1>19. AckedIsHeld'
  <2> SUFFICES ASSUME NEW m \in Node, NEW sn \in 0..(snd_nxt[m] - 1),
                      sn \notin Sns(snd_buf[m])
               PROVE  Held(Peer(m), sn)'
    BY <1>14 DEF AckedIsHeld, Held
  <2>1. Peer(m) \in Node
    BY PeerType
  <2>2. sn \in Nat
    BY Bounds
  <2>3. Held(Peer(m), sn)
    BY DEF IInv, AckedIsHeld, Held
  <2> QED
    BY <1>15, <2>1, <2>2, <2>3
<1> QED
  BY <1>1, <1>15, <1>16, <1>17, <1>18, <1>19 DEF IInv

\* The inductive invariant holds always.
THEOREM Inductive == Spec => []IInv
<1>1. IInv /\ [Next]_vars => IInv'
  <2> SUFFICES ASSUME IInv, [Next]_vars PROVE IInv'
    OBVIOUS
  <2>1. ASSUME NEW n \in Node, NEW count \in 1..MaxFrags, IkcpSend(n, count)
        PROVE  IInv'
    BY <2>1, SendIInv
  <2>2. ASSUME NEW n \in Node, Flush(n) PROVE IInv'
    BY <2>2, FlushIInv DEF Flush
  <2>3. ASSUME NEW n \in Node, Input(n) PROVE IInv'
    BY <2>3, InputIInv DEF Input
  <2>4. ASSUME NEW n \in Node, IkcpRecv(n) PROVE IInv'
    BY <2>4, RecvIInv
  <2>5. CASE UNCHANGED vars
    <3>1. UNCHANGED <<snd_una, snd_nxt, snd_queue, snd_buf, rcv_nxt, rcv_buf, rcv_queue,
                      rmt_wnd, acklist, probe, probe_wait, net, sent, got>>
      BY <2>5 DEF vars, sndVars, rcvVars, ctlVars, histVars
    <3>2. TypeOK'
      BY <3>1 DEF IInv, TypeOK
    <3>3. QueueIsSent' /\ SndBufIsSent' /\ RcvBufIsSent' /\ ReceivedIsSent'
      BY <3>1 DEF IInv, QueueIsSent, SndBufIsSent, RcvBufIsSent, ReceivedIsSent, IsSent
    <3>4. NetIsTrue' /\ AcklistIsHeld' /\ AckedIsHeld'
      BY <3>1 DEF IInv, NetIsTrue, PacketIsTrue, AcklistIsHeld, AckedIsHeld, IsSent, Held
    <3> QED
      BY <3>2, <3>3, <3>4 DEF IInv
  <2> QED
    BY <2>1, <2>2, <2>3, <2>4, <2>5 DEF Next
<1> QED
  BY <1>1, InitIInv, PTL DEF Spec

\* Whatever the network loses, repeats or reorders, ikcp_recv hands over a
\* prefix of what ikcp_send accepted at the other end.
THEOREM Delivery == Spec => []InOrder
<1>1. IInv => InOrder
  <2> SUFFICES ASSUME IInv, NEW n \in Node
               PROVE  /\ Len(got[n]) <= Len(sent[Peer(n)])
                      /\ \A i \in 1..Len(got[n]) : got[n][i] = sent[Peer(n)][i]
    BY DEF InOrder
  <2>1. /\ Peer(n) \in Node /\ Len(got[n]) \in Nat /\ rcv_nxt[n] \in Nat
        /\ Len(got[n]) <= rcv_nxt[n] /\ rcv_nxt[n] <= snd_nxt[Peer(n)]
    BY Bounds
  <2>2. /\ snd_nxt[Peer(n)] \in Nat /\ Len(sent[Peer(n)]) \in Nat
        /\ snd_nxt[Peer(n)] <= Len(sent[Peer(n)])
    BY <2>1, Bounds
  <2>3. Len(got[n]) <= Len(sent[Peer(n)])
    <3>1. \A a, b, c, d \in Nat : a <= b /\ b <= c /\ c <= d => a <= d
      OBVIOUS
    <3> QED
      BY <2>1, <2>2, <3>1
  <2> QED
    BY <2>3 DEF IInv, ReceivedIsSent
<1> QED
  BY <1>1, Inductive, PTL

\* No acknowledgement, however late or repeated, makes a sender forget a segment
\* its peer does not hold (ikcp_parse_ack, ikcp_parse_una).
THEOREM NothingForgotten == Spec => []AckedIsHeld
<1>1. IInv => AckedIsHeld
  BY DEF IInv
<1> QED
  BY <1>1, Inductive, PTL

=============================================================================
