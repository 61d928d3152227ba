-------------------------- MODULE IkcpQueueProofs ---------------------------
(***************************************************************************)
(* More proofs about Ikcp, for every window and message size.              *)
(*                                                                         *)
(* The windows: the buffers stay within them (BufferBounds) and nothing    *)
(* stale moves them back (NeverBack), since snd_una is never above what is *)
(* in snd_buf (UnaIsLeast).                                                *)
(*                                                                         *)
(* The messages: programs get whole ones (WholeMessages), a full queue     *)
(* holds one (FullQueueReadable), and the engine implements the channel    *)
(* of ReliableChannel, since what follows a fragment with frg = f in       *)
(* `sent` is the rest of its message, f fragments of it (SentIsWhole), and *)
(* what is received is a part of `sent` (ReceivedIsSent of IkcpProofs).    *)
(***************************************************************************)
EXTENDS IkcpProofs

\* snd_una is not after any segment still in snd_buf.
UnaIsLeast == \A n \in Node : \A s \in snd_buf[n] : snd_una[n] <= s.sn

WInv == TypeOK /\ BufferBounds /\ UnaIsLeast

-----------------------------------------------------------------------------
(* The windows. *)

\* ikcp_shrink_buf moves snd_una forward, and not past snd_nxt.
LEMMA ShrinkBufForward ==
    ASSUME WInv, NEW n \in Node, NEW segs \in SUBSET snd_buf[n], ShrinkBuf(n, segs)
    PROVE  \E una \in Nat :
              /\ snd_una' = [snd_una EXCEPT ![n] = una]
              /\ snd_una[n] <= una /\ una <= snd_nxt[n]
              /\ \A s \in segs : una <= s.sn
<1>1. PICK una \in Sns(segs) \cup {snd_nxt[n]} :
         /\ \A sn \in Sns(segs) \cup {snd_nxt[n]} : una <= sn
         /\ snd_una' = [snd_una EXCEPT ![n] = una]
  BY DEF ShrinkBuf
<1>2. /\ snd_una[n] \in Nat /\ snd_nxt[n] \in Nat /\ snd_nxt[n] - snd_una[n] \in 0..SndWnd
      /\ SndWnd \in Nat
  BY WindowAssumption DEF WInv, TypeOK, BufferBounds
<1>3. \A s \in segs : s.sn \in Nat /\ snd_una[n] <= s.sn /\ s.sn \in Sns(segs)
  BY DEF WInv, TypeOK, UnaIsLeast, Seg, Sns
<1>4. una \in Nat /\ snd_una[n] <= una
  BY <1>1, <1>2, <1>3 DEF Sns
<1> QED
  BY <1>1, <1>3, <1>4

\* What arrives moves snd_una forward and takes segments out of snd_buf.
LEMMA InputHeaderWindow ==
    ASSUME WInv, NEW n \in Node, NEW p \in net[n], NEW segs \in SUBSET snd_buf[n],
           InputHeader(n, p, segs)
    PROVE  /\ \A m \in Node : snd_una'[m] >= snd_una[m]
           /\ \A m \in Node : snd_nxt'[m] - snd_una'[m] \in 0..SndWnd
           /\ \A m \in Node : snd_buf'[m] \subseteq snd_buf[m]
           /\ UnaIsLeast'
<1>1. ShrinkBuf(n, segs) /\ snd_nxt' = snd_nxt /\ snd_buf' = [snd_buf EXCEPT ![n] = segs]
  BY DEF InputHeader
<1>2. PICK una \in Nat :
         /\ snd_una' = [snd_una EXCEPT ![n] = una]
         /\ snd_una[n] <= una /\ una <= snd_nxt[n]
         /\ \A s \in segs : una <= s.sn
  BY <1>1, ShrinkBufForward
<1>3. snd_una \in [Node -> Nat] /\ snd_nxt \in [Node -> Nat] /\ snd_buf \in [Node -> SUBSET Seg]
  BY DEF WInv, TypeOK
<1>4. \A m \in Node : snd_nxt[m] - snd_una[m] \in 0..SndWnd /\ SndWnd \in Nat
  BY WindowAssumption DEF WInv, BufferBounds
<1>5. snd_una'[n] = una /\ snd_buf'[n] = segs
  BY <1>1, <1>2, <1>3
<1>6. \A m \in Node : m # n => snd_una'[m] = snd_una[m] /\ snd_buf'[m] = snd_buf[m]
  BY <1>1, <1>2, <1>3
<1>7. ASSUME NEW m \in Node
      PROVE  /\ snd_una'[m] >= snd_una[m]
             /\ snd_nxt'[m] - snd_una'[m] \in 0..SndWnd
             /\ snd_buf'[m] \subseteq snd_buf[m]
             /\ \A s \in snd_buf'[m] : snd_una'[m] <= s.sn
  <2>1. snd_una[m] \in Nat /\ snd_nxt[m] \in Nat
    BY <1>3
  <2>2. CASE m = n
    BY <1>1, <1>2, <1>4, <1>5, <2>1, <2>2
  <2>3. CASE m # n
    BY <1>1, <1>4, <1>6, <2>1, <2>3 DEF WInv, UnaIsLeast
  <2> QED
    BY <2>2, <2>3
<1> QED
  BY <1>7 DEF UnaIsLeast

\* The receiver's side of BufferBounds.
ReceiverBounds ==
    \A n \in Node :
        /\ Len(rcv_queue[n]) <= RcvWnd
        /\ \A s \in rcv_buf[n] : s.sn \in rcv_nxt[n]..(rcv_nxt[n] + RcvWnd - 1)

\* The segments that move to rcv_queue have room there.
LEMMA MoveReadyWindow ==
    ASSUME WInv, NEW n \in Node, NEW buf \in SUBSET Seg,
           NEW queue \in Seq(Fragment), Len(queue) <= RcvWnd, MoveReady(n, buf, queue),
           \A s \in buf : s.sn < rcv_nxt[n] + RcvWnd
    PROVE  /\ ReceiverBounds'
           /\ \A m \in Node : rcv_nxt'[m] >= rcv_nxt[m]
<1> DEFINE New(k) == [i \in 1..k |-> SegAt(buf, rcv_nxt[n] + i - 1).frag]
<1>1. PICK k \in 0..(RcvWnd - Len(queue)) :
         /\ \A i \in 0..(k - 1) : rcv_nxt[n] + i \in Sns(buf)
         /\ rcv_nxt' = [rcv_nxt EXCEPT ![n] = rcv_nxt[n] + k]
         /\ rcv_buf' = [rcv_buf EXCEPT ![n] = {s \in buf : s.sn >= rcv_nxt[n] + k}]
         /\ rcv_queue' = [rcv_queue EXCEPT ![n] = queue \o New(k)]
  BY DEF MoveReady, WInv, TypeOK
<1>2. /\ k \in Nat /\ rcv_nxt[n] \in Nat /\ RcvWnd \in Nat /\ Len(queue) \in Nat
      /\ k <= RcvWnd - Len(queue)
  BY WindowAssumption, LenProperties DEF WInv, TypeOK
<1>3. \A i \in 1..k : SegAt(buf, rcv_nxt[n] + i - 1) \in buf
  <2> SUFFICES ASSUME NEW i \in 1..k PROVE rcv_nxt[n] + i - 1 \in Sns(buf)
    BY SegAtType
  <2>1. i - 1 \in 0..(k - 1) /\ rcv_nxt[n] + (i - 1) = rcv_nxt[n] + i - 1
    BY <1>2
  <2> QED
    BY <1>1, <2>1
<1>4. New(k) \in Seq(Fragment) /\ Len(New(k)) = k
  <2>1. \A i \in 1..k : SegAt(buf, rcv_nxt[n] + i - 1).frag \in Fragment
    BY <1>3 DEF Seg
  <2>2. New(k) \in [1..k -> Fragment]
    BY <2>1
  <2> QED
    BY <2>2, <1>2, SeqDef
<1> HIDE DEF New
<1>5. Len(queue \o New(k)) <= RcvWnd
  BY <1>2, <1>4, ConcatFragments
<1>6. /\ rcv_nxt \in [Node -> Nat] /\ rcv_buf \in [Node -> SUBSET Seg]
      /\ rcv_queue \in [Node -> Seq(Fragment)]
  BY DEF WInv, TypeOK
<1>7. /\ rcv_nxt'[n] = rcv_nxt[n] + k /\ rcv_queue'[n] = queue \o New(k)
      /\ rcv_buf'[n] = {s \in buf : s.sn >= rcv_nxt[n] + k}
  BY <1>1, <1>6
<1>8. \A m \in Node : m # n => /\ rcv_nxt'[m] = rcv_nxt[m] /\ rcv_queue'[m] = rcv_queue[m]
                               /\ rcv_buf'[m] = rcv_buf[m]
  BY <1>1, <1>6
<1>9. ASSUME NEW m \in Node
      PROVE  /\ Len(rcv_queue'[m]) <= RcvWnd
             /\ \A s \in rcv_buf'[m] : s.sn \in rcv_nxt'[m]..(rcv_nxt'[m] + RcvWnd - 1)
             /\ rcv_nxt'[m] >= rcv_nxt[m]
  <2>1. CASE m = n
    <3>1. \A s \in buf : s.sn \in Nat
      BY DEF Seg
    <3> QED
      BY <1>2, <1>5, <1>7, <2>1, <3>1
  <2>2. CASE m # n
    BY <1>6, <1>8, <2>2 DEF WInv, BufferBounds
  <2> QED
    BY <2>1, <2>2
<1> QED
  BY <1>9 DEF ReceiverBounds

\* What a step may never do to the windows.
Forward ==
    \A n \in Node :
        /\ snd_una'[n] >= snd_una[n]
        /\ rcv_nxt'[n] >= rcv_nxt[n]
        /\ \A sn \in Sns(snd_buf'[n]) : sn \in Sns(snd_buf[n]) \/ sn >= snd_nxt[n]

LEMMA WInvParts == WInv <=> /\ TypeOK /\ ReceiverBounds /\ UnaIsLeast
                            /\ \A n \in Node : snd_nxt[n] - snd_una[n] \in 0..SndWnd
  BY DEF WInv, BufferBounds, ReceiverBounds

\* A step that leaves the receiving side alone.
LEMMA ReceiverUntouched ==
    ASSUME WInv, UNCHANGED rcvVars
    PROVE  ReceiverBounds' /\ \A n \in Node : rcv_nxt'[n] >= rcv_nxt[n]
  BY DEF rcvVars, WInv, TypeOK, BufferBounds, ReceiverBounds

\* A step that leaves the sending side alone.
LEMMA SenderUntouched ==
    ASSUME WInv, UNCHANGED <<snd_una, snd_nxt, snd_buf>>
    PROVE  /\ UnaIsLeast'
           /\ \A n \in Node : snd_nxt'[n] - snd_una'[n] \in 0..SndWnd
           /\ \A n \in Node : snd_una'[n] >= snd_una[n]
           /\ \A n \in Node : \A sn \in Sns(snd_buf'[n]) : sn \in Sns(snd_buf[n])
  BY DEF WInv, TypeOK, BufferBounds, UnaIsLeast

LEMMA FlushWindow ==
    ASSUME WInv, NEW n \in Node, NEW expired \in BOOLEAN, NEW through,
           IkcpFlush(n, expired, through)
    PROVE  WInv' /\ Forward
<1>1. TypeOK'
  BY FlushType DEF WInv
<1>2. /\ ReceiverBounds' /\ \A m \in Node : rcv_nxt'[m] >= rcv_nxt[m]
  BY ReceiverUntouched DEF IkcpFlush
<1>3. /\ snd_una' = snd_una
      /\ snd_buf' = [snd_buf EXCEPT ![n] = snd_buf[n] \cup NewSegs(n)]
      /\ snd_nxt' = [snd_nxt EXCEPT ![n] = snd_nxt[n] + MoveCount(n)]
  BY DEF IkcpFlush, WInv, TypeOK
<1>4. /\ snd_una \in [Node -> Nat] /\ snd_nxt \in [Node -> Nat]
      /\ snd_buf \in [Node -> SUBSET Seg] /\ SndWnd \in Nat
      /\ \A m \in Node : snd_nxt[m] - snd_una[m] \in 0..SndWnd
  BY WindowAssumption DEF WInv, TypeOK, BufferBounds
<1>5. SendWindow(n) \in Nat /\ SendWindow(n) <= SndWnd
  BY WindowAssumption DEF WInv, TypeOK, SendWindow
<1>6. MoveCount(n) \in Nat /\ (MoveCount(n) = 0 \/ MoveCount(n) <= snd_una[n] + SendWindow(n) - snd_nxt[n])
  <2>1. Len(snd_queue[n]) \in Nat
    BY LenProperties DEF WInv, TypeOK
  <2> QED
    BY <1>4, <1>5, <2>1 DEF MoveCount
<1>7. \A s \in NewSegs(n) : s.sn >= snd_nxt[n] /\ s.sn \in Nat
  BY <1>4, <1>6 DEF NewSegs
<1>8. ASSUME NEW m \in Node
      PROVE  /\ snd_nxt'[m] - snd_una'[m] \in 0..SndWnd
             /\ \A s \in snd_buf'[m] : snd_una'[m] <= s.sn
             /\ \A s \in snd_buf'[m] : s \in snd_buf[m] \/ s.sn >= snd_nxt[m]
  <2>1. snd_una[m] \in Nat /\ snd_nxt[m] \in Nat
    BY <1>4
  <2>2. CASE m = n
    <3>1. snd_buf'[m] = snd_buf[n] \cup NewSegs(n) /\ snd_nxt'[m] = snd_nxt[n] + MoveCount(n)
          /\ snd_una'[m] = snd_una[n]
      BY <1>3, <1>4, <2>2
    <3>2. \A s \in snd_buf[n] : snd_una[n] <= s.sn
      BY DEF WInv, UnaIsLeast
    <3> QED
      BY <1>4, <1>5, <1>6, <1>7, <2>1, <2>2, <3>1, <3>2
  <2>3. CASE m # n
    BY <1>3, <1>4, <2>3 DEF WInv, UnaIsLeast
  <2> QED
    BY <2>2, <2>3
<1>9. \A m \in Node : snd_una'[m] >= snd_una[m]
  BY <1>3, <1>4
<1> QED
  BY <1>1, <1>2, <1>8, <1>9 DEF WInv, BufferBounds, ReceiverBounds, UnaIsLeast, Forward, Sns

LEMMA InputWindow ==
    ASSUME WInv, NEW n \in Node, Input(n)
    PROVE  WInv' /\ Forward
<1>1. PICK p \in net[n] : IkcpInputAck(n, p) \/ IkcpInputPush(n, p) \/ IkcpInputProbe(n, p)
  BY DEF Input
<1>2. TypeOK' /\ p.sn \in Nat /\ p.frag \in Fragment
  BY <1>1, InputType, PacketType DEF WInv
<1>3. PICK segs \in SUBSET snd_buf[n] : InputHeader(n, p, segs)
  BY <1>1 DEF IkcpInputAck, IkcpInputPush, IkcpInputProbe, ParseUna, ParseAck
<1>4. /\ \A m \in Node : snd_una'[m] >= snd_una[m]
      /\ \A m \in Node : snd_nxt'[m] - snd_una'[m] \in 0..SndWnd
      /\ \A m \in Node : snd_buf'[m] \subseteq snd_buf[m]
      /\ UnaIsLeast'
  BY <1>3, InputHeaderWindow
<1>5. ReceiverBounds' /\ \A m \in Node : rcv_nxt'[m] >= rcv_nxt[m]
  <2>1. CASE UNCHANGED rcvVars
    BY <2>1, ReceiverUntouched
  <2>2. CASE ~UNCHANGED rcvVars
    <3> DEFINE seg == [sn |-> p.sn, frag |-> p.frag]
               buf == IF p.sn \in Sns(rcv_buf[n]) THEN rcv_buf[n] ELSE rcv_buf[n] \cup {seg}
    <3>1. InWindow(n, p.sn) /\ MoveReady(n, buf, rcv_queue[n])
      BY <1>1, <2>2 DEF IkcpInputAck, IkcpInputPush, IkcpInputProbe, ParseData
    <3>2. seg \in Seg /\ rcv_buf[n] \in SUBSET Seg /\ rcv_queue[n] \in Seq(Fragment)
          /\ rcv_nxt[n] \in Nat /\ RcvWnd \in Nat
      BY <1>2, WindowAssumption DEF Seg, WInv, TypeOK
    <3>3. buf \in SUBSET Seg
      BY <3>2
    <3>4. \A s \in buf : s.sn < rcv_nxt[n] + RcvWnd
      BY <3>1, <3>2 DEF InWindow, WInv, BufferBounds
    <3>5. Len(rcv_queue[n]) <= RcvWnd
      BY DEF WInv, BufferBounds
    <3> HIDE DEF buf
    <3> QED
      BY <3>1, <3>2, <3>3, <3>4, <3>5, MoveReadyWindow
  <2> QED
    BY <2>1, <2>2
<1> QED
  BY <1>2, <1>4, <1>5 DEF WInv, BufferBounds, ReceiverBounds, Forward, Sns

LEMMA RecvWindow ==
    ASSUME WInv, NEW n \in Node, IkcpRecv(n)
    PROVE  WInv' /\ Forward
<1>1. TypeOK'
  BY RecvType DEF WInv
<1> DEFINE tail(j) == SubSeq(rcv_queue[n], j + 1, Len(rcv_queue[n]))
<1>2. PICK j \in 1..RecvCap :
         /\ j \in 1..Len(rcv_queue[n])
         /\ MoveReady(n, rcv_buf[n], tail(j))
         /\ UNCHANGED sndVars
  BY DEF IkcpRecv, WholeMessage
<1>3. /\ rcv_queue[n] \in Seq(Fragment) /\ Len(rcv_queue[n]) \in Nat /\ RcvWnd \in Nat
      /\ Len(rcv_queue[n]) <= RcvWnd /\ rcv_buf[n] \in SUBSET Seg /\ rcv_nxt[n] \in Nat
  BY WindowAssumption, LenProperties DEF WInv, TypeOK, BufferBounds
<1>4. j \in Nat /\ j <= Len(rcv_queue[n])
  BY <1>2, <1>3
<1>5. tail(j) \in Seq(Fragment) /\ Len(tail(j)) = Len(rcv_queue[n]) - j
  BY <1>3, <1>4, SubSeqTail
<1>6. \A s \in rcv_buf[n] : s.sn < rcv_nxt[n] + RcvWnd
  BY <1>3 DEF WInv, BufferBounds, Seg
<1> HIDE DEF tail
<1>7. Len(tail(j)) <= RcvWnd
  BY <1>3, <1>4, <1>5
<1>8. ReceiverBounds' /\ \A m \in Node : rcv_nxt'[m] >= rcv_nxt[m]
  BY <1>2, <1>3, <1>5, <1>6, <1>7, MoveReadyWindow
<1>9. /\ UnaIsLeast'
      /\ \A m \in Node : snd_nxt'[m] - snd_una'[m] \in 0..SndWnd
      /\ \A m \in Node : snd_una'[m] >= snd_una[m]
      /\ \A m \in Node : \A sn \in Sns(snd_buf'[m]) : sn \in Sns(snd_buf[m])
  BY <1>2, SenderUntouched DEF sndVars
<1> QED
  BY <1>1, <1>8, <1>9 DEF WInv, BufferBounds, ReceiverBounds, Forward

LEMMA StepWindow == WInv /\ [Next]_vars => WInv' /\ Forward
<1> SUFFICES ASSUME WInv, [Next]_vars PROVE WInv' /\ Forward
  OBVIOUS
<1>1. ASSUME NEW n \in Node, NEW count \in 1..MaxFrags, IkcpSend(n, count)
      PROVE  WInv' /\ Forward
  <2>1. UNCHANGED <<snd_una, snd_nxt, snd_buf>> /\ UNCHANGED rcvVars
    BY <1>1 DEF IkcpSend
  <2>2. TypeOK'
    BY <1>1, SendType DEF WInv
  <2> QED
    BY <2>1, <2>2, SenderUntouched, ReceiverUntouched
      DEF WInv, BufferBounds, ReceiverBounds, Forward
<1>2. ASSUME NEW n \in Node, Flush(n) PROVE WInv' /\ Forward
  BY <1>2, FlushWindow DEF Flush
<1>3. ASSUME NEW n \in Node, Input(n) PROVE WInv' /\ Forward
  BY <1>3, InputWindow
<1>4. ASSUME NEW n \in Node, IkcpRecv(n) PROVE WInv' /\ Forward
  BY <1>4, RecvWindow
<1>5. CASE UNCHANGED vars
  <2>1. UNCHANGED <<snd_una, snd_nxt, snd_buf>> /\ UNCHANGED rcvVars
    BY <1>5 DEF vars, sndVars
  <2>2. TypeOK'
    BY <1>5 DEF WInv, vars, sndVars, rcvVars, ctlVars, histVars, TypeOK
  <2> QED
    BY <2>1, <2>2, SenderUntouched, ReceiverUntouched
      DEF WInv, BufferBounds, ReceiverBounds, Forward
<1> QED
  BY <1>1, <1>2, <1>3, <1>4, <1>5 DEF Next

LEMMA InitWindow == Init => WInv
<1> SUFFICES ASSUME Init PROVE WInv
  OBVIOUS
<1>1. TypeOK
  BY InitType
<1>2. \A n \in Node : /\ rcv_queue[n] = <<>> /\ rcv_buf[n] = {} /\ snd_buf[n] = {}
                      /\ snd_nxt[n] = 0 /\ snd_una[n] = 0
  BY DEF Init
<1>3. RcvWnd \in Nat /\ SndWnd \in Nat
  BY WindowAssumption
<1>4. \A n \in Node : Len(rcv_queue[n]) = 0
  BY <1>2
<1> QED
  BY <1>1, <1>2, <1>3, <1>4 DEF WInv, BufferBounds, UnaIsLeast

LEMMA SpecWindow == Spec => []WInv
  BY InitWindow, StepWindow, PTL DEF Spec

\* Whatever windows stale datagrams announce (ikcp_input), the receiver never
\* holds more than two windows nor a segment outside its own, and the sender
\* never has more than snd_wnd segments in flight.
THEOREM BuffersAreBounded == Spec => []BufferBounds
  BY SpecWindow, PTL DEF WInv

\* snd_una and rcv_nxt never go back, and what left snd_buf stays out of it
\* (ikcp_parse_una, ikcp_parse_ack, ikcp_shrink_buf).
THEOREM NothingGoesBack == Spec => NeverBack
<1>1. Forward => \A n \in Node :
          /\ snd_una'[n] >= snd_una[n]
          /\ rcv_nxt'[n] >= rcv_nxt[n]
          /\ \A sn \in Sns(snd_buf'[n]) : sn \in Sns(snd_buf[n]) \/ sn >= snd_nxt[n]
  BY DEF Forward
<1> QED
  BY <1>1, SpecWindow, StepWindow, PTL DEF Spec, NeverBack

-----------------------------------------------------------------------------
(* The messages. *)

\* The fragment at position i is followed by the rest of its message.
RestFollows(s, i) ==
    /\ i + s[i].frg <= Len(s)
    /\ \A j \in 0..s[i].frg : s[i + j].frg = s[i].frg - j

\* Messages of less than WndRcv fragments were submitted whole.
AllWhole(s) == \A i \in 1..Len(s) : s[i].frg < WndRcv /\ RestFollows(s, i)

SentIsWhole == \A n \in Node : AllWhole(sent[n])

LEMMA NextMsgType ==
    ASSUME TypeOK, NEW n \in Node
    PROVE  NextMsg(sent[n]) \in Nat
<1>1. CASE sent[n] = <<>>
  BY <1>1 DEF NextMsg
<1>2. CASE sent[n] # <<>>
  <2>1. sent[n] \in Seq(Fragment) /\ Len(sent[n]) \in 1..Len(sent[n])
    BY <1>2, EmptySeq DEF TypeOK
  <2>2. sent[n][Len(sent[n])] \in Fragment
    BY <2>1, ElementOfSeq
  <2> QED
    BY <1>2, <2>2 DEF NextMsg, Fragment
<1> QED
  BY <1>1, <1>2

LEMMA FragmentsAreWhole ==
    ASSUME NEW m \in Nat, NEW count \in Nat, count < WndRcv
    PROVE  AllWhole(Fragments(m, count))
<1> DEFINE fs == Fragments(m, count)
<1>1. Len(fs) = count /\ fs \in Seq(Fragment)
  BY FragmentsType
<1>2. \A i \in 1..count : fs[i].frg = count - i
  BY DEF Fragments
<1> HIDE DEF fs
<1>3. WndRcv \in Nat
  BY WindowAssumption
<1>4. ASSUME NEW i \in 1..Len(fs) PROVE fs[i].frg < WndRcv /\ RestFollows(fs, i)
  <2>1. i \in 1..count /\ fs[i].frg = count - i
    BY <1>1, <1>2
  <2>2. ASSUME NEW j \in 0..(count - i) PROVE fs[i + j].frg = count - i - j
    <3>1. i + j \in 1..count
      BY <2>1
    <3>2. fs[i + j].frg = count - (i + j)
      BY <1>2, <3>1
    <3> QED
      BY <2>1, <3>2
  <2>3. i + (count - i) <= Len(fs) /\ count - i < WndRcv
    BY <1>1, <1>3, <2>1
  <2> QED
    BY <2>1, <2>2, <2>3 DEF RestFollows
<1> QED
  BY <1>4 DEF AllWhole, fs

LEMMA AppendWhole ==
    ASSUME NEW s \in Seq(Fragment), NEW fs \in Seq(Fragment), AllWhole(s), AllWhole(fs)
    PROVE  AllWhole(s \o fs)
<1> DEFINE t == s \o fs
           a == Len(s)
           b == Len(fs)
<1>1. /\ t \in Seq(Fragment) /\ Len(t) = a + b
      /\ \A i \in 1..(a + b) : t[i] = IF i <= a THEN s[i] ELSE fs[i - a]
  BY ConcatFragments
<1>2. a \in Nat /\ b \in Nat
  BY LenProperties
<1>3. \A i \in 1..a : s[i] \in Fragment
  BY <1>2, ElementOfSeq
<1>4. \A i \in 1..b : fs[i] \in Fragment
  BY <1>2, ElementOfSeq
<1>5. \A i \in 1..a : /\ s[i].frg < WndRcv /\ i + s[i].frg <= a
                      /\ \A j \in 0..s[i].frg : s[i + j].frg = s[i].frg - j
  BY DEF AllWhole, RestFollows
<1>6. \A i \in 1..b : /\ fs[i].frg < WndRcv /\ i + fs[i].frg <= b
                      /\ \A j \in 0..fs[i].frg : fs[i + j].frg = fs[i].frg - j
  BY DEF AllWhole, RestFollows
<1> HIDE DEF t, a, b
<1>7. ASSUME NEW i \in 1..(a + b)
      PROVE  /\ t[i].frg < WndRcv /\ i + t[i].frg <= a + b
             /\ \A j \in 0..t[i].frg : t[i + j].frg = t[i].frg - j
  <2>1. CASE i <= a
    <3>1. i \in 1..a /\ t[i] = s[i]
      BY <1>1, <1>2, <2>1
    <3>2. s[i].frg \in Nat
      BY <1>3, <3>1 DEF Fragment
    <3>3. i + s[i].frg <= a /\ s[i].frg < WndRcv
      BY <1>5, <3>1
    <3>4. ASSUME NEW j \in 0..s[i].frg PROVE t[i + j].frg = t[i].frg - j
      <4>1. i + j \in 1..(a + b) /\ i + j <= a
        BY <1>2, <3>1, <3>2, <3>3
      <4>2. t[i + j] = s[i + j]
        BY <1>1, <4>1
      <4>3. s[i + j].frg = s[i].frg - j
        BY <1>5, <3>1
      <4> QED
        BY <3>1, <4>2, <4>3
    <3>5. i + s[i].frg <= a + b
      BY <1>2, <3>1, <3>2, <3>3
    <3> QED
      BY <3>1, <3>3, <3>4, <3>5
  <2>2. CASE ~(i <= a)
    <3>1. i - a \in 1..b /\ t[i] = fs[i - a]
      BY <1>1, <1>2, <2>2
    <3>2. fs[i - a].frg \in Nat
      BY <1>4, <3>1 DEF Fragment
    <3>3. (i - a) + fs[i - a].frg <= b
      BY <1>6, <3>1
    <3>4. ASSUME NEW j \in 0..fs[i - a].frg PROVE t[i + j].frg = fs[i - a].frg - j
      <4>1. i + j \in 1..(a + b) /\ ~(i + j <= a) /\ (i + j) - a = (i - a) + j
        BY <1>2, <2>2, <3>1, <3>2, <3>3
      <4>2. t[i + j] = fs[(i + j) - a]
        BY <1>1, <4>1
      <4> QED
        BY <1>6, <3>1, <4>1, <4>2
    <3>5. fs[i - a].frg < WndRcv /\ i + fs[i - a].frg <= a + b
      BY <1>2, <1>6, <3>1, <3>2, <3>3
    <3> QED
      BY <3>1, <3>4, <3>5
  <2> QED
    BY <2>1, <2>2
<1>8. ASSUME NEW i \in 1..Len(t) PROVE t[i].frg < WndRcv /\ RestFollows(t, i)
  <2>1. i \in 1..(a + b)
    BY <1>1
  <2> QED
    BY <1>1, <1>7, <2>1 DEF RestFollows
<1> QED
  BY <1>8 DEF AllWhole, t

LEMMA SendWhole ==
    ASSUME TypeOK, SentIsWhole, NEW n \in Node, NEW count \in 1..MaxFrags, IkcpSend(n, count)
    PROVE  SentIsWhole'
<1> DEFINE fs == Fragments(NextMsg(sent[n]), count)
<1>1. count \in Nat /\ count < WndRcv /\ sent' = [sent EXCEPT ![n] = sent[n] \o fs]
  BY BoundAssumption DEF IkcpSend, AcceptCount, TypeOK
<1>2. fs \in Seq(Fragment) /\ AllWhole(fs)
  BY <1>1, NextMsgType, FragmentsType, FragmentsAreWhole
<1>3. sent[n] \in Seq(Fragment) /\ AllWhole(sent[n]) /\ sent \in [Node -> Seq(Fragment)]
  BY DEF TypeOK, SentIsWhole
<1> HIDE DEF fs
<1>4. AllWhole(sent[n] \o fs)
  BY <1>2, <1>3, AppendWhole
<1>5. sent'[n] = sent[n] \o fs /\ \A m \in Node : m # n => sent'[m] = sent[m]
  BY <1>1, <1>3
<1>6. ASSUME NEW m \in Node PROVE AllWhole(sent'[m])
  BY <1>4, <1>5 DEF SentIsWhole
<1> QED
  BY <1>6 DEF SentIsWhole, AllWhole, RestFollows

LEMMA StepWhole == TypeOK /\ SentIsWhole /\ [Next]_vars => SentIsWhole'
<1> SUFFICES ASSUME TypeOK, SentIsWhole, [Next]_vars PROVE SentIsWhole'
  OBVIOUS
<1>1. CASE \E n \in Node : \E count \in 1..MaxFrags : IkcpSend(n, count)
  BY <1>1, SendWhole
<1>2. CASE ~ \E n \in Node : \E count \in 1..MaxFrags : IkcpSend(n, count)
  <2>1. sent' = sent
    <3>1. CASE \E n \in Node : Flush(n)
      BY <3>1 DEF Flush, IkcpFlush, histVars
    <3>2. CASE \E n \in Node : Input(n)
      BY <3>2 DEF Input, IkcpInputAck, IkcpInputPush, IkcpInputProbe, InputHeader, histVars
    <3>3. CASE \E n \in Node : IkcpRecv(n)
      BY <3>3 DEF IkcpRecv
    <3>4. CASE UNCHANGED vars
      BY <3>4 DEF vars, histVars
    <3> QED
      BY <1>2, <3>1, <3>2, <3>3, <3>4 DEF Next
  <2> QED
    BY <2>1 DEF SentIsWhole, AllWhole, RestFollows
<1> QED
  BY <1>1, <1>2

LEMMA SpecWhole == Spec => []SentIsWhole
<1>1. Init => SentIsWhole
  BY DEF Init, SentIsWhole, AllWhole
<1> QED
  BY <1>1, StepWhole, TypeCorrect, PTL DEF Spec

\* rcv_queue starts with the rest of a message, f more fragments after the first.
HeadIsMessage(queue, f) ==
    /\ f \in Nat /\ f < WndRcv /\ queue[1].frg = f
    /\ \A i \in 1..Len(queue) : i <= f + 1 => queue[i].frg = (f + 1) - i

LEMMA QueueHead ==
    ASSUME IInv, SentIsWhole, NEW n \in Node, 1 <= Len(rcv_queue[n])
    PROVE  \E f \in Nat : HeadIsMessage(rcv_queue[n], f)
<1> DEFINE q == rcv_queue[n]
           s == sent[Peer(n)]
           g == Len(got[n])
           f == s[g + 1].frg
<1>1. /\ Peer(n) \in Node /\ g \in Nat /\ Len(q) \in Nat
      /\ rcv_nxt[n] = g + Len(q) /\ rcv_nxt[n] <= snd_nxt[Peer(n)]
  BY Bounds
<1>2. snd_nxt[Peer(n)] <= Len(s) /\ Len(s) \in Nat /\ snd_nxt[Peer(n)] \in Nat
  BY <1>1, Bounds
<1>3. s \in Seq(Fragment)
  BY <1>1 DEF IInv, TypeOK
<1>4. \A i \in 1..Len(q) : q[i] = s[g + i]
  BY DEF IInv, ReceivedIsSent
<1>5. \A i \in 1..Len(s) : s[i].frg < WndRcv /\ RestFollows(s, i)
  BY <1>1 DEF SentIsWhole, AllWhole
<1>6. 1 <= Len(q)
  OBVIOUS
<1> HIDE DEF q, s, g
<1>7. g + 1 \in 1..Len(s)
  BY <1>1, <1>2, <1>6
<1>8. s[g + 1] \in Fragment
  BY <1>3, <1>7, ElementOfSeq
<1>9. f \in Nat /\ f < WndRcv /\ \A j \in 0..f : s[(g + 1) + j].frg = f - j
  BY <1>5, <1>7, <1>8 DEF RestFollows, Fragment
<1>10. q[1].frg = f
  <2>1. 1 \in 1..Len(q)
    BY <1>1, <1>6
  <2> QED
    BY <1>4, <2>1
<1> HIDE DEF f
<1>11. ASSUME NEW i \in 1..Len(q), i <= f + 1 PROVE q[i].frg = (f + 1) - i
  <2>1. i - 1 \in 0..f /\ (g + 1) + (i - 1) = g + i /\ f - (i - 1) = (f + 1) - i
    BY <1>1, <1>9, <1>11
  <2>2. s[(g + 1) + (i - 1)].frg = f - (i - 1)
    BY <1>9, <2>1
  <2> QED
    BY <1>4, <2>1, <2>2
<1> QED
  BY <1>9, <1>10, <1>11 DEF HeadIsMessage, q

\* What the merge loop of ikcp_recv takes ends with a last fragment.
LEMMA HeadMessage ==
    ASSUME IInv, SentIsWhole, NEW n \in Node, NEW k, WholeMessage(rcv_queue[n], k)
    PROVE  rcv_queue[n][k].frg = 0
<1> DEFINE q == rcv_queue[n]
<1>1. Len(q) \in Nat
  BY Bounds
<1>2. /\ k \in 1..Len(q) /\ Len(q) >= q[1].frg + 1
      /\ q[k].frg = 0 \/ k = Len(q)
      /\ \A i \in 1..(k - 1) : q[i].frg # 0
  BY DEF WholeMessage
<1>3. 1 <= Len(q)
  BY <1>1, <1>2
<1>4. PICK f \in Nat : HeadIsMessage(q, f)
  BY <1>3, QueueHead
<1> HIDE DEF q
<1>5. f + 1 \in 1..Len(q)
  BY <1>1, <1>2, <1>4 DEF HeadIsMessage
<1>6. q[f + 1].frg = 0
  BY <1>4, <1>5 DEF HeadIsMessage
<1>7. ~(f + 1 \in 1..(k - 1))
  BY <1>2, <1>6
<1>8. k <= f + 1
  BY <1>1, <1>2, <1>5, <1>7
<1>9. CASE k = Len(q)
  <2>1. k = f + 1
    BY <1>1, <1>5, <1>8, <1>9
  <2> QED
    BY <1>6, <2>1 DEF q
<1> QED
  BY <1>2, <1>9 DEF q

\* The window holds the longest message ikcp_send takes, so a program can
\* always make room in a full rcv_queue.
THEOREM FullQueueHasMessage == Spec => []FullQueueReadable
<1>1. IInv /\ SentIsWhole => FullQueueReadable
  <2> SUFFICES ASSUME IInv, SentIsWhole, NEW n \in Node, Len(rcv_queue[n]) >= RcvWnd
               PROVE  \E k \in 1..Len(rcv_queue[n]) : WholeMessage(rcv_queue[n], k)
    BY DEF FullQueueReadable
  <2> DEFINE q == rcv_queue[n]
  <2>1. Len(q) \in Nat /\ Len(q) >= RcvWnd
    BY Bounds
  <2>2. 1 <= Len(q) /\ WndRcv <= Len(q)
    BY <2>1, WindowAssumption
  <2>3. PICK f \in Nat : HeadIsMessage(q, f)
    BY <2>2, QueueHead
  <2> HIDE DEF q
  <2>4. f + 1 \in 1..Len(q) /\ q[1].frg = f
    BY <2>1, <2>2, <2>3, WindowAssumption DEF HeadIsMessage
  <2>5. \A i \in 1..(f + 1) : q[i].frg = (f + 1) - i
    BY <2>1, <2>3, <2>4 DEF HeadIsMessage
  <2>6. q[f + 1].frg = 0 /\ \A i \in 1..((f + 1) - 1) : q[i].frg # 0
    BY <2>5
  <2>7. WholeMessage(q, f + 1)
    BY <2>1, <2>4, <2>6 DEF WholeMessage
  <2> QED
    BY <2>4, <2>7 DEF q
<1> QED
  BY <1>1, Inductive, SpecWhole, PTL

-----------------------------------------------------------------------------
(* The channel. *)

\* SubSeqProperties of SequenceTheorems, for the first fragments of a sequence.
LEMMA SubSeqHead ==
    ASSUME NEW s \in Seq(Fragment), NEW k \in Nat, k <= Len(s)
    PROVE  /\ SubSeq(s, 1, k) \in Seq(Fragment)
           /\ Len(SubSeq(s, 1, k)) = k
           /\ \A i \in 1..k : SubSeq(s, 1, k)[i] = s[i]
<1> DEFINE h == SubSeq(s, 1, k)
<1>1. \A i \in 1..k : s[i] \in Fragment
  BY LenProperties, ElementOfSeq
<1>2. /\ h \in Seq(Fragment)
      /\ Len(h) = IF 1 <= k THEN k - 1 + 1 ELSE 0
      /\ \A i \in 1..(k - 1 + 1) : h[i] = s[1 + i - 1]
  BY <1>1, SubSeqProperties
<1>3. k - 1 + 1 = k /\ \A i \in Nat : 1 + i - 1 = i
  OBVIOUS
<1> HIDE DEF h
<1> QED
  BY <1>2, <1>3 DEF h

\* ikcp_recv hands over the next message of the peer, up to its last fragment.
HandsOver(n, k) ==
    /\ Len(got[n]) + 1 <= k /\ k <= Len(sent[Peer(n)])
    /\ sent[Peer(n)][k].frg = 0
    /\ \A i \in (Len(got[n]) + 1)..(k - 1) : sent[Peer(n)][i].frg # 0
    /\ got' = [got EXCEPT ![n] = SubSeq(sent[Peer(n)], 1, k)]
    /\ sent' = sent

LEMMA RecvHandsOver ==
    ASSUME IInv, SentIsWhole, NEW n \in Node, IkcpRecv(n)
    PROVE  \E k \in Nat : HandsOver(n, k)
<1> DEFINE q == rcv_queue[n]
           s == sent[Peer(n)]
           g == Len(got[n])
<1>1. PICK j \in 1..RecvCap :
         /\ WholeMessage(q, j)
         /\ got' = [got EXCEPT ![n] = got[n] \o SubSeq(q, 1, j)]
         /\ sent' = sent
  BY DEF IkcpRecv, IInv, TypeOK
<1>2. /\ Peer(n) \in Node /\ g \in Nat /\ Len(q) \in Nat
      /\ rcv_nxt[n] = g + Len(q) /\ rcv_nxt[n] <= snd_nxt[Peer(n)]
  BY Bounds
<1>3. snd_nxt[Peer(n)] <= Len(s) /\ Len(s) \in Nat /\ snd_nxt[Peer(n)] \in Nat
  BY <1>2, Bounds
<1>4. s \in Seq(Fragment) /\ q \in Seq(Fragment) /\ got[n] \in Seq(Fragment)
  BY <1>2 DEF IInv, TypeOK
<1>5. \A i \in 1..Len(q) : q[i] = s[g + i]
  BY DEF IInv, ReceivedIsSent
<1>6. \A i \in 1..g : got[n][i] = s[i]
  BY DEF IInv, ReceivedIsSent
<1>7. q[j].frg = 0
  BY <1>1, HeadMessage
<1>8. j \in 1..Len(q) /\ \A i \in 1..(j - 1) : q[i].frg # 0
  BY <1>1 DEF WholeMessage
<1>9. SubSeq(q, 1, j) \in Seq(Fragment) /\ Len(SubSeq(q, 1, j)) = j
      /\ \A i \in 1..j : SubSeq(q, 1, j)[i] = q[i]
  BY <1>2, <1>4, <1>8, SubSeqHead
<1> DEFINE h == SubSeq(q, 1, j)
           r == got[n] \o h
           t == SubSeq(s, 1, g + j)
<1>10. /\ r \in Seq(Fragment) /\ Len(r) = g + Len(h)
       /\ \A i \in 1..(g + Len(h)) : r[i] = IF i <= g THEN got[n][i] ELSE h[i - g]
  BY <1>4, <1>9, ConcatFragments
<1> HIDE DEF q, s, g
<1>11. g + j \in Nat /\ g + j <= Len(s) /\ g + 1 <= g + j
  <2>1. j \in Nat /\ 1 <= j /\ j <= Len(q)
    BY <1>2, <1>8
  <2>2. \A a, b, c, d, e \in Nat : a + b = c /\ c <= d /\ d <= e => a + b <= e
    OBVIOUS
  <2>3. rcv_nxt[n] \in Nat
    BY <1>2
  <2>4. g + Len(q) <= Len(s)
    BY <1>2, <1>3, <2>2, <2>3
  <2> QED
    BY <1>2, <1>3, <2>1, <2>4
<1>12. t \in Seq(Fragment) /\ Len(t) = g + j /\ \A i \in 1..(g + j) : t[i] = s[i]
  BY <1>4, <1>11, SubSeqHead
<1>13. s[g + j].frg = 0
  BY <1>5, <1>7, <1>8
<1> HIDE DEF h, r, t
<1>14. h \in Seq(Fragment) /\ Len(h) = j /\ \A i \in 1..j : h[i] = q[i]
  BY <1>9 DEF h
<1>15. Len(r) = g + j /\ \A i \in 1..(g + j) : r[i] = IF i <= g THEN got[n][i] ELSE h[i - g]
  BY <1>10, <1>14
<1>16. ASSUME NEW i \in 1..(g + j) PROVE r[i] = t[i]
  <2>1. CASE i <= g
    <3>1. i \in 1..g
      BY <1>2, <2>1
    <3> QED
      BY <1>6, <1>12, <1>15, <2>1, <3>1
  <2>2. CASE ~(i <= g)
    <3>1. i - g \in 1..j /\ i - g \in 1..Len(q) /\ g + (i - g) = i
      BY <1>2, <1>8, <2>2
    <3>2. r[i] = h[i - g] /\ h[i - g] = q[i - g] /\ q[i - g] = s[g + (i - g)]
      BY <1>5, <1>14, <1>15, <2>2, <3>1
    <3> QED
      BY <1>12, <3>1, <3>2
  <2> QED
    BY <2>1, <2>2
<1>17. r = t
  BY <1>10, <1>12, <1>15, <1>16, SeqEqual
<1>18. ASSUME NEW i \in (g + 1)..((g + j) - 1) PROVE s[i].frg # 0
  <2>1. i - g \in 1..(j - 1) /\ i - g \in 1..Len(q) /\ g + (i - g) = i
    BY <1>2, <1>8
  <2> QED
    BY <1>5, <1>8, <2>1
<1>19. got' = [got EXCEPT ![n] = t] /\ sent' = sent
  BY <1>1, <1>17 DEF r, h
<1> QED
  BY <1>11, <1>13, <1>18, <1>19 DEF HandsOver, q, s, g, t

LEMMA StepHistory ==
    ASSUME IInv, SentIsWhole, [Next]_vars
    PROVE  \/ \E n \in Node : \E count \in 1..MaxFrags : IkcpSend(n, count)
           \/ \E n \in Node : \E k \in Nat : HandsOver(n, k)
           \/ UNCHANGED <<sent, got>>
<1>1. CASE \E n \in Node : \E count \in 1..MaxFrags : IkcpSend(n, count)
  BY <1>1
<1>2. CASE \E n \in Node : Flush(n)
  BY <1>2 DEF Flush, IkcpFlush, histVars
<1>3. CASE \E n \in Node : Input(n)
  BY <1>3 DEF Input, IkcpInputAck, IkcpInputPush, IkcpInputProbe, InputHeader, histVars
<1>4. CASE \E n \in Node : IkcpRecv(n)
  BY <1>4, RecvHandsOver
<1>5. CASE UNCHANGED vars
  BY <1>5 DEF vars, histVars
<1> QED
  BY <1>1, <1>2, <1>3, <1>4, <1>5 DEF Next

\* ikcp_recv never hands over part of a message.
THEOREM MessagesAreWhole == Spec => []WholeMessages
<1>1. Init => WholeMessages
  BY DEF Init, WholeMessages
<1>2. IInv /\ SentIsWhole /\ WholeMessages /\ [Next]_vars => WholeMessages'
  <2> SUFFICES ASSUME IInv, SentIsWhole, WholeMessages, [Next]_vars PROVE WholeMessages'
    OBVIOUS
  <2>1. CASE got' = got
    BY <2>1 DEF WholeMessages
  <2>2. ASSUME NEW n \in Node, NEW k \in Nat, HandsOver(n, k) PROVE WholeMessages'
    <3>1. sent[Peer(n)] \in Seq(Fragment) /\ got \in [Node -> Seq(Fragment)]
      BY PeerType DEF IInv, TypeOK
    <3>2. /\ Len(got[n]) + 1 <= k /\ k <= Len(sent[Peer(n)])
          /\ sent[Peer(n)][k].frg = 0
          /\ got' = [got EXCEPT ![n] = SubSeq(sent[Peer(n)], 1, k)]
      BY <2>2 DEF HandsOver
    <3>3. Len(got[n]) \in Nat
      BY Bounds
    <3>4. got'[n] = SubSeq(sent[Peer(n)], 1, k) /\ \A m \in Node : m # n => got'[m] = got[m]
      BY <3>1, <3>2
    <3>5. k \in 1..k /\ Len(got'[n]) = k /\ got'[n][k] = sent[Peer(n)][k]
      BY <3>1, <3>2, <3>3, <3>4, SubSeqHead
    <3>6. got'[n][Len(got'[n])].frg = 0
      BY <3>2, <3>5
    <3> QED
      BY <3>4, <3>6 DEF WholeMessages
  <2>3. \A n \in Node : \A count \in 1..MaxFrags : IkcpSend(n, count) => got' = got
    BY DEF IkcpSend
  <2> QED
    BY <2>1, <2>2, <2>3, StepHistory
<1> QED
  BY <1>1, <1>2, Inductive, SpecWhole, PTL DEF Spec

\* The engine at both ends of a conversation is a reliable channel in each
\* direction: ikcp_send submits, ikcp_recv delivers, and every other call and
\* everything the network does is invisible.
THEOREM EngineImplementsChannel == Spec => ImplementsChannel
<1>1. Init => Channel!Init
  BY DEF Init, Channel!Init, Node, Channel!Node
<1>2. IInv /\ SentIsWhole /\ [Next]_vars => [Channel!Next]_(Channel!vars)
  <2> SUFFICES ASSUME IInv, SentIsWhole, [Next]_vars
               PROVE  [Channel!Next]_(Channel!vars)
    OBVIOUS
  <2>1. \A n \in Node : n \in Channel!Node /\ Channel!Peer(n) = Peer(n)
    BY DEF Node, Channel!Node, Peer, Channel!Peer
  <2>2. ASSUME NEW n \in Node, NEW count \in 1..MaxFrags, IkcpSend(n, count)
        PROVE  Channel!Next
    <3>1. count \in 1..(WndRcv - 1)
      BY <2>2, WindowAssumption, BoundAssumption DEF IkcpSend, AcceptCount
    <3>2. /\ got' = got
          /\ sent' = [sent EXCEPT ![n] = @ \o Fragments(NextMsg(sent[n]), count)]
      BY <2>2 DEF IkcpSend
    <3>3. Fragments(NextMsg(sent[n]), count) = Channel!Fragments(Channel!NextMsg(sent[n]), count)
      BY DEF Fragments, NextMsg, Channel!Fragments, Channel!NextMsg
    <3>4. Channel!Submit(n)
      BY <3>1, <3>2, <3>3 DEF Channel!Submit
    <3> QED
      BY <2>1, <3>4 DEF Channel!Next
  <2>3. ASSUME NEW n \in Node, NEW k \in Nat, HandsOver(n, k)
        PROVE  Channel!Next
    <3>1. Len(got[n]) \in Nat /\ Len(sent[Peer(n)]) \in Nat
      BY PeerType, Bounds
    <3>2. k \in (Len(got[n]) + 1)..Len(sent[Peer(n)])
      BY <2>3, <3>1 DEF HandsOver
    <3>3. Channel!Deliver(n)
      BY <2>1, <2>3, <3>2 DEF HandsOver, Channel!Deliver
    <3> QED
      BY <2>1, <3>3 DEF Channel!Next
  <2>4. CASE UNCHANGED <<sent, got>>
    BY <2>4 DEF Channel!vars
  <2> QED
    BY <2>2, <2>3, <2>4, StepHistory
<1> QED
  BY <1>1, <1>2, Inductive, SpecWhole, PTL DEF Spec, ImplementsChannel, Channel!Spec

=============================================================================
