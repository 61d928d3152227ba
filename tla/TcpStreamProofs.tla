-------------------------- MODULE TcpStreamProofs ---------------------------
(***************************************************************************)
(* Proofs about TcpStream, for every header length, buffer, socket and     *)
(* number of messages: type correctness, that frames survive any cutting   *)
(* of reads and writes (FramesIntact), that no frame is too large          *)
(* (BufferFits), that a close between frames means that all was received   *)
(* (ClosedIsComplete), and that the stream implements a reliable channel.  *)
(*                                                                         *)
(* The argument.  Every byte has one place in the connection: the position *)
(* At(sent, a) + pos, if its message begins after a bytes of payload.      *)
(* rbuf, stream and wbuf hold consecutive places, beginning with the first *)
(* one after what was handed over.  As no two bytes have the same place    *)
(* (UnitIsUnique), the header that is read is that of the next message,    *)
(* and the payload after it is that message.                               *)
(***************************************************************************)
EXTENDS TcpStream, SequenceTheorems, TLAPS

\* The number of messages in the first a bytes of a history, up to a boundary.
Msgs(s, a) == IF a = 0 THEN 0 ELSE s[a].msg

\* The place before the frame of the message that begins after a bytes.
At(s, a) == a + HdrLen * Msgs(s, a)

\* The l bytes after the first a are a message.
MessageAt(s, a, l) ==
    /\ a \in 0..Len(s) /\ l \in 1..BufLen /\ a + l <= Len(s)
    /\ \A j \in 1..l : s[a + j] = [msg |-> Msgs(s, a) + 1, frg |-> l - j]

\* u is the byte at place p of the connection.
IsUnit(s, p, u) ==
    \E a \in 0..Len(s) :
        /\ MessageAt(s, a, u.len)
        /\ u.msg = Msgs(s, a) + 1
        /\ u.pos \in 1..(HdrLen + u.len)
        /\ p = At(s, a) + u.pos

\* Consecutive bytes of the connection, those after place p.
AreUnits(s, p, units) == \A i \in 1..Len(units) : IsUnit(s, p + i, units[i])

\* A history is made of messages, with rising numbers.
Sorted(s) == \A i, j \in 1..Len(s) : i <= j => s[i].msg <= s[j].msg
Covered(s) ==
    \A i \in 1..Len(s) : \E a \in 0..Len(s), l \in 1..BufLen :
        MessageAt(s, a, l) /\ a < i /\ i <= a + l
WellFormed(s) == Sorted(s) /\ Covered(s)

\* tcp_recv may still be called or go on.
Receiving == rpc \in {"idle", "header", "payload"}

\* What was read of the frame part tcp_recv is in, and the place before it.
Partial == IF rpc \in {"header", "payload"} THEN rbuf ELSE <<>>
Base == At(sent, Len(got)) + (IF rpc = "payload" THEN HdrLen ELSE 0)

ReadIsSent == Receiving => AreUnits(sent, Base, Partial)
StreamIsSent == Receiving => AreUnits(sent, Base + Len(Partial), stream)

\* What tcp_write_n has still to write is the end of the last frame, and follows.
WriteIsSent ==
    Receiving /\ ~reset =>
        /\ AreUnits(sent, Base + Len(Partial) + Len(stream), wbuf)
        /\ \A i \in 1..Len(wbuf) : wbuf[i].msg = Msgs(sent, Len(sent))
        /\ Base + Len(Partial) + Len(stream) + Len(wbuf) = At(sent, Len(sent))

\* tcp_read_n knows how much is missing.
NeedIsRight ==
    /\ rpc = "header" => need = HdrLen
    /\ rpc = "payload" => MessageAt(sent, Len(got), need)
    /\ rpc \in {"header", "payload"} => Len(rbuf) < need

\* Who is at the end of what.
Phases ==
    /\ fin => wpc # "write"
    /\ reset => fin
    /\ wpc = "idle" => wbuf = <<>>
    /\ rpc \in {"closed", "failed"} => fin

IInv ==
    /\ TypeOK
    /\ WellFormed(sent)
    /\ FramesIntact
    /\ ReadIsSent
    /\ StreamIsSent
    /\ WriteIsSent
    /\ NeedIsRight
    /\ Phases
    /\ BufferFits
    /\ ClosedIsComplete

-----------------------------------------------------------------------------
(* Histories. *)

LEMMA Sizes == HdrLen \in Nat \ {0} /\ BufLen \in Nat \ {0} /\ SockCap \in Nat \ {0} /\ MaxMsgs \in Nat
  BY StreamAssumption

LEMMA Product ==
    ASSUME NEW h \in Nat, NEW m \in Nat, NEW n \in Nat
    PROVE  /\ h * m \in Nat
           /\ m <= n => h * m <= h * n
           /\ h * (m + 1) = h * m + h
<1>1. m <= n => h * (n - m) \in Nat
  OBVIOUS
<1>2. h * (n - m) = h * n - h * m
  OBVIOUS
<1> QED
  BY <1>1, <1>2

LEMMA ByteAt ==
    ASSUME NEW s \in Seq(Byte), NEW i \in 1..Len(s)
    PROVE  /\ i \in Nat /\ s[i] \in Byte
           /\ s[i].msg \in Nat /\ s[i].msg >= 1 /\ s[i].msg <= MaxMsgs
           /\ s[i].frg \in Nat /\ s[i].frg < BufLen
<1>1. s[i] \in Byte
  BY ElementOfSeq
<1> QED
  BY <1>1, LenProperties, Sizes DEF Byte

LEMMA MsgsType ==
    ASSUME NEW s \in Seq(Byte), NEW a \in 0..Len(s)
    PROVE  a \in Nat /\ Msgs(s, a) \in Nat /\ HdrLen * Msgs(s, a) \in Nat /\ At(s, a) \in Nat
<1>1. a \in Nat /\ Len(s) \in Nat
  BY LenProperties
<1>2. Msgs(s, a) \in Nat
  <2>1. CASE a = 0
    BY <2>1 DEF Msgs
  <2>2. CASE a # 0
    <3>1. a \in 1..Len(s)
      BY <1>1, <2>2
    <3> QED
      BY <2>2, <3>1, ByteAt DEF Msgs
  <2> QED
    BY <2>1, <2>2
<1>3. HdrLen * Msgs(s, a) \in Nat
  BY <1>2, Product, Sizes
<1> QED
  BY <1>1, <1>2, <1>3 DEF At

\* The first and the last byte of a message.
LEMMA MessageEnds ==
    ASSUME NEW s \in Seq(Byte), NEW a, NEW l, MessageAt(s, a, l)
    PROVE  /\ a \in Nat /\ l \in Nat /\ l >= 1 /\ a + l <= Len(s) /\ Len(s) \in Nat
           /\ a \in 0..Len(s) /\ a + 1 \in 1..Len(s) /\ a + l \in 1..Len(s)
           /\ s[a + 1].msg = Msgs(s, a) + 1 /\ s[a + 1].frg = l - 1
           /\ s[a + l].msg = Msgs(s, a) + 1 /\ s[a + l].frg = 0
<1>1. Len(s) \in Nat
  BY LenProperties
<1>2. a \in 0..Len(s) /\ l \in 1..BufLen /\ a + l <= Len(s)
      /\ \A j \in 1..l : s[a + j] = [msg |-> Msgs(s, a) + 1, frg |-> l - j]
  BY DEF MessageAt
<1>3. 1 \in 1..l /\ l \in 1..l /\ l \in Nat /\ a \in Nat
  BY <1>1, <1>2, Sizes
<1>4. s[a + 1] = [msg |-> Msgs(s, a) + 1, frg |-> l - 1]
      /\ s[a + l] = [msg |-> Msgs(s, a) + 1, frg |-> l - l]
  BY <1>2, <1>3
<1> QED
  BY <1>1, <1>2, <1>3, <1>4

\* Two messages do not overlap, nor do their frames.
LEMMA Apart ==
    ASSUME NEW s \in Seq(Byte), Sorted(s), NEW a, NEW l, NEW b, NEW k,
           MessageAt(s, a, l), MessageAt(s, b, k), a < b
    PROVE  /\ a + l <= b
           /\ Msgs(s, a) + 1 <= Msgs(s, b)
           /\ At(s, a) + HdrLen + l <= At(s, b)
<1>1. /\ a \in Nat /\ l \in Nat /\ l >= 1 /\ a + l <= Len(s) /\ Len(s) \in Nat
      /\ a \in 0..Len(s) /\ a + 1 \in 1..Len(s) /\ a + l \in 1..Len(s)
      /\ s[a + 1].msg = Msgs(s, a) + 1
      /\ s[a + l].msg = Msgs(s, a) + 1
  BY MessageEnds
<1>2. /\ b \in Nat /\ b \in 0..Len(s) /\ b + 1 \in 1..Len(s) /\ s[b + 1].msg = Msgs(s, b) + 1
  BY MessageEnds
<1>3. Msgs(s, a) \in Nat /\ Msgs(s, b) \in Nat
  BY <1>1, <1>2, MsgsType
<1>4. Msgs(s, a) + 1 <= Msgs(s, b)
  <2>1. b \in 1..Len(s) /\ a + 1 <= b
    BY <1>1, <1>2
  <2>2. s[a + 1].msg <= s[b].msg
    BY <1>1, <2>1 DEF Sorted
  <2> QED
    BY <1>1, <2>1, <2>2 DEF Msgs
<1>5. a + l <= b
  <2> SUFFICES ASSUME b + 1 <= a + l PROVE FALSE
    BY <1>1, <1>2
  <2>1. s[b + 1].msg <= s[a + l].msg
    BY <1>1, <1>2 DEF Sorted
  <2> QED
    BY <1>1, <1>2, <1>3, <1>4, <2>1
<1>6. HdrLen * Msgs(s, a) + HdrLen <= HdrLen * Msgs(s, b)
      /\ HdrLen * Msgs(s, a) \in Nat /\ HdrLen * Msgs(s, b) \in Nat
  <2>1. HdrLen * (Msgs(s, a) + 1) <= HdrLen * Msgs(s, b)
    BY <1>3, <1>4, Product, Sizes
  <2>2. HdrLen * (Msgs(s, a) + 1) = HdrLen * Msgs(s, a) + HdrLen
    BY <1>3, Product, Sizes
  <2> QED
    BY <1>3, <2>1, <2>2, Product, Sizes
<1> DEFINE ha == HdrLen * Msgs(s, a)
           hb == HdrLen * Msgs(s, b)
<1>7. At(s, a) = a + ha /\ At(s, b) = b + hb
  BY DEF At
<1>8. ha + HdrLen <= hb /\ ha \in Nat /\ hb \in Nat
  BY <1>6
<1> HIDE DEF ha, hb
<1>9. At(s, a) + HdrLen + l <= At(s, b)
  BY <1>1, <1>2, <1>5, <1>7, <1>8, Sizes
<1> QED
  BY <1>4, <1>5, <1>9

\* A place holds one byte.
LEMMA UnitIsUnique ==
    ASSUME NEW s \in Seq(Byte), Sorted(s), NEW a, NEW l, MessageAt(s, a, l),
           NEW q \in 1..(HdrLen + l), NEW u, IsUnit(s, At(s, a) + q, u)
    PROVE  u.msg = Msgs(s, a) + 1 /\ u.len = l /\ u.pos = q
<1>1. PICK b \in 0..Len(s) :
        /\ MessageAt(s, b, u.len)
        /\ u.msg = Msgs(s, b) + 1
        /\ u.pos \in 1..(HdrLen + u.len)
        /\ At(s, a) + q = At(s, b) + u.pos
  BY DEF IsUnit
<1>2. a \in Nat /\ a \in 0..Len(s) /\ l \in Nat /\ s[a + 1].frg = l - 1
  BY MessageEnds
<1>3. b \in Nat /\ b \in 0..Len(s) /\ u.len \in Nat /\ s[b + 1].frg = u.len - 1
  BY <1>1, MessageEnds
<1>4. At(s, a) \in Nat /\ At(s, b) \in Nat
  BY <1>2, <1>3, MsgsType
<1>5. q \in Nat /\ 1 <= q /\ q <= HdrLen + l
      /\ u.pos \in Nat /\ 1 <= u.pos /\ u.pos <= HdrLen + u.len
  BY <1>1, <1>2, <1>3, Sizes
<1>6. ~(a < b)
  <2> SUFFICES ASSUME a < b PROVE FALSE
    OBVIOUS
  <2>1. At(s, a) + HdrLen + l <= At(s, b)
    BY <1>1, Apart
  <2> QED
    BY <1>1, <1>2, <1>4, <1>5, <2>1, Sizes
<1>7. ~(b < a)
  <2> SUFFICES ASSUME b < a PROVE FALSE
    OBVIOUS
  <2> DEFINE k == u.len
             pos == u.pos
  <2>1. At(s, b) + HdrLen + k <= At(s, a)
    BY <1>1, Apart
  <2>2. /\ At(s, a) + q = At(s, b) + pos /\ k \in Nat
        /\ pos \in Nat /\ pos <= HdrLen + k
    BY <1>1, <1>3, <1>5
  <2> HIDE DEF k, pos
  <2> QED
    BY <1>4, <1>5, <2>1, <2>2, Sizes
<1>8. a = b
  BY <1>2, <1>3, <1>6, <1>7
<1> QED
  BY <1>1, <1>2, <1>3, <1>4, <1>5, <1>8

\* No place lies after the end of the history.
LEMMA UnitIsInside ==
    ASSUME NEW s \in Seq(Byte), Sorted(s), NEW p, NEW u, IsUnit(s, p, u)
    PROVE  p \in Nat /\ p <= At(s, Len(s))
<1>1. PICK a \in 0..Len(s) :
        /\ MessageAt(s, a, u.len)
        /\ u.pos \in 1..(HdrLen + u.len)
        /\ p = At(s, a) + u.pos
  BY DEF IsUnit
<1> DEFINE l == u.len
           n == Len(s)
<1>2. /\ a \in Nat /\ l \in Nat /\ l >= 1 /\ a + l <= n /\ n \in Nat
      /\ a \in 0..n /\ a + l \in 1..n
      /\ s[a + l].msg = Msgs(s, a) + 1
  BY <1>1, MessageEnds
<1>3. n \in 0..n /\ n \in 1..n /\ n # 0
  BY <1>2
<1>4. Msgs(s, a) \in Nat /\ Msgs(s, n) \in Nat
  BY <1>2, <1>3, MsgsType
<1>5. Msgs(s, a) + 1 <= Msgs(s, n)
  <2>1. s[a + l].msg <= s[n].msg
    BY <1>2, <1>3 DEF Sorted
  <2> QED
    BY <1>2, <1>3, <2>1 DEF Msgs
<1> DEFINE ha == HdrLen * Msgs(s, a)
           hn == HdrLen * Msgs(s, n)
<1>6. ha + HdrLen <= hn /\ ha \in Nat /\ hn \in Nat
  <2>1. HdrLen * (Msgs(s, a) + 1) <= hn
    BY <1>4, <1>5, Product, Sizes
  <2>2. HdrLen * (Msgs(s, a) + 1) = ha + HdrLen
    BY <1>4, Product, Sizes
  <2> QED
    BY <1>4, <2>1, <2>2, Product, Sizes
<1>7. At(s, a) = a + ha /\ At(s, n) = n + hn
  BY DEF At
<1>8. u.pos \in Nat /\ u.pos <= HdrLen + l /\ p = At(s, a) + u.pos
  BY <1>1, <1>2, Sizes
<1> HIDE DEF l, n, ha, hn
<1>9. p \in Nat /\ p <= At(s, n)
  BY <1>2, <1>6, <1>7, <1>8, Sizes
<1> QED
  BY <1>9 DEF n

\* After a whole message there is another, or the end.
LEMMA MessageFollows ==
    ASSUME NEW s \in Seq(Byte), WellFormed(s), NEW g \in 0..Len(s), g # Len(s),
           g = 0 \/ s[g].frg = 0
    PROVE  \E l \in 1..BufLen : MessageAt(s, g, l)
<1>1. g \in Nat /\ Len(s) \in Nat /\ g + 1 \in 1..Len(s)
  BY LenProperties
<1>2. PICK a \in 0..Len(s), l \in 1..BufLen : MessageAt(s, a, l) /\ a < g + 1 /\ g + 1 <= a + l
  BY <1>1 DEF WellFormed, Covered
<1>3. a \in Nat /\ l \in Nat /\ \A j \in 1..l : s[a + j] = [msg |-> Msgs(s, a) + 1, frg |-> l - j]
  <2>1. a \in Nat /\ l \in Nat
    BY <1>1, <1>2, Sizes
  <2> QED
    BY <1>2, <2>1 DEF MessageAt
<1>4. a = g
  <2> SUFFICES ASSUME a # g PROVE FALSE
    OBVIOUS
  <2>1. g - a \in 1..l /\ a + (g - a) = g /\ g # 0
    BY <1>1, <1>2, <1>3
  <2>2. s[g] = [msg |-> Msgs(s, a) + 1, frg |-> l - (g - a)]
    BY <1>3, <2>1
  <2>3. l - (g - a) = 0
    BY <2>1, <2>2
  <2> QED
    BY <1>1, <1>2, <1>3, <2>1, <2>3
<1> QED
  BY <1>2, <1>4

\* t begins with s.
Begins(t, s) == Len(s) <= Len(t) /\ \A i \in 1..Len(s) : t[i] = s[i]

\* What is sent later does not move what was sent before.
LEMMA PlacesStay ==
    ASSUME NEW s \in Seq(Byte), NEW t \in Seq(Byte), Begins(t, s)
    PROVE  /\ \A a \in 0..Len(s) : Msgs(t, a) = Msgs(s, a) /\ At(t, a) = At(s, a)
           /\ \A a, l : MessageAt(s, a, l) => MessageAt(t, a, l)
           /\ \A p, u : IsUnit(s, p, u) => IsUnit(t, p, u)
<1>1. Len(s) \in Nat /\ Len(t) \in Nat /\ Len(s) <= Len(t)
  BY LenProperties DEF Begins
<1>2. ASSUME NEW a \in 0..Len(s) PROVE Msgs(t, a) = Msgs(s, a)
  <2>1. CASE a = 0
    BY <2>1 DEF Msgs
  <2>2. CASE a # 0
    <3>1. a \in 1..Len(s)
      BY <1>1, <2>2
    <3> QED
      BY <2>2, <3>1 DEF Msgs, Begins
  <2> QED
    BY <2>1, <2>2
<1>3. ASSUME NEW a, NEW l, MessageAt(s, a, l) PROVE MessageAt(t, a, l)
  <2>1. /\ a \in 0..Len(s) /\ l \in 1..BufLen /\ a + l <= Len(s)
        /\ \A j \in 1..l : s[a + j] = [msg |-> Msgs(s, a) + 1, frg |-> l - j]
    BY <1>3 DEF MessageAt
  <2>2. a \in Nat /\ l \in Nat
    BY <1>1, <2>1, Sizes
  <2>3. a \in 0..Len(t) /\ a + l <= Len(t)
    BY <1>1, <2>1, <2>2
  <2>4. \A j \in 1..l : a + j \in 1..Len(s)
    BY <1>1, <2>1, <2>2
  <2>5. \A j \in 1..l : t[a + j] = s[a + j]
    BY <2>4 DEF Begins
  <2>6. Msgs(t, a) = Msgs(s, a)
    BY <1>2, <2>1
  <2> QED
    BY <2>1, <2>3, <2>5, <2>6 DEF MessageAt
<1>4. ASSUME NEW p, NEW u, IsUnit(s, p, u) PROVE IsUnit(t, p, u)
  <2>1. PICK a \in 0..Len(s) :
          /\ MessageAt(s, a, u.len)
          /\ u.msg = Msgs(s, a) + 1
          /\ u.pos \in 1..(HdrLen + u.len)
          /\ p = At(s, a) + u.pos
    BY <1>4 DEF IsUnit
  <2>2. a \in 0..Len(t) /\ MessageAt(t, a, u.len) /\ Msgs(t, a) = Msgs(s, a)
    BY <1>1, <1>2, <1>3, <2>1
  <2>3. At(t, a) = At(s, a)
    BY <2>2 DEF At
  <2> QED
    BY <2>1, <2>2, <2>3 DEF IsUnit
<1> QED
  BY <1>2, <1>3, <1>4 DEF At

LEMMA PayloadType ==
    ASSUME NEW m \in 1..MaxMsgs, NEW len \in 1..BufLen
    PROVE  /\ Payload(m, len) \in Seq(Byte) /\ Len(Payload(m, len)) = len
           /\ \A i \in 1..len : Payload(m, len)[i] = [msg |-> m, frg |-> len - i]
<1>1. len \in Nat /\ BufLen \in Nat
  BY Sizes
<1>2. \A i \in 1..len : [msg |-> m, frg |-> len - i] \in Byte
  BY <1>1, Sizes DEF Byte
<1>3. Payload(m, len) \in [1..len -> Byte]
  BY <1>2 DEF Payload
<1>4. Payload(m, len) \in Seq(Byte) /\ Len(Payload(m, len)) = len
  BY <1>1, <1>3, SeqDef
<1>5. \A i \in 1..len : Payload(m, len)[i] = [msg |-> m, frg |-> len - i]
  BY DEF Payload
<1> QED
  BY <1>4, <1>5

\* ConcatProperties of SequenceTheorems, for bytes and for units.
LEMMA ConcatBytes ==
    ASSUME NEW s \in Seq(Byte), NEW t \in Seq(Byte)
    PROVE  /\ s \o t \in Seq(Byte)
           /\ Len(s \o t) = Len(s) + Len(t) /\ Len(s) \in Nat /\ Len(t) \in Nat
           /\ \A i \in 1..(Len(s) + Len(t)) :
                 (s \o t)[i] = IF i <= Len(s) THEN s[i] ELSE t[i - Len(s)]
  BY ConcatProperties, LenProperties

LEMMA ConcatUnits ==
    ASSUME NEW s \in Seq(Unit), NEW t \in Seq(Unit)
    PROVE  /\ s \o t \in Seq(Unit)
           /\ Len(s \o t) = Len(s) + Len(t) /\ Len(s) \in Nat /\ Len(t) \in Nat
           /\ \A i \in 1..(Len(s) + Len(t)) :
                 (s \o t)[i] = IF i <= Len(s) THEN s[i] ELSE t[i - Len(s)]
  BY ConcatProperties, LenProperties

\* tcp_send puts one more message at the end of the history.
LEMMA SubmitExtends ==
    ASSUME NEW s \in Seq(Byte), WellFormed(s), NEW len \in 1..BufLen,
           Msgs(s, Len(s)) + 1 <= MaxMsgs
    PROVE  LET t == s \o Payload(Msgs(s, Len(s)) + 1, len) IN
           /\ t \in Seq(Byte) /\ Len(t) = Len(s) + len
           /\ Begins(t, s) /\ WellFormed(t) /\ MessageAt(t, Len(s), len)
<1> DEFINE n == Len(s)
           m == Msgs(s, n) + 1
           f == Payload(m, len)
           t == s \o f
<1>1. n \in Nat /\ n \in 0..n /\ len \in Nat /\ len >= 1 /\ n \in 0..Len(s)
  BY LenProperties, Sizes
<1>2. Msgs(s, n) \in Nat
  BY <1>1, MsgsType
<1>3. m \in 1..MaxMsgs /\ m \in Nat
  BY <1>2, Sizes
<1> HIDE DEF m
<1>4. f \in Seq(Byte) /\ Len(f) = len /\ \A i \in 1..len : f[i] = [msg |-> m, frg |-> len - i]
  BY <1>3, PayloadType
<1> HIDE DEF f
<1>5. t \in Seq(Byte) /\ Len(t) = n + len
      /\ \A i \in 1..(n + len) : t[i] = IF i <= n THEN s[i] ELSE f[i - n]
  BY <1>4, ConcatBytes
<1> HIDE DEF t, n
<1>6. \A i \in 1..n : t[i] = s[i]
  BY <1>1, <1>5
<1>7. \A i \in 1..len : t[n + i] = [msg |-> m, frg |-> len - i]
  <2> SUFFICES ASSUME NEW i \in 1..len PROVE t[n + i] = [msg |-> m, frg |-> len - i]
    OBVIOUS
  <2>1. n + i \in 1..(n + len) /\ ~(n + i <= n) /\ (n + i) - n = i
    BY <1>1
  <2>2. t[n + i] = f[(n + i) - n]
    BY <1>5, <2>1
  <2> QED
    BY <1>4, <2>1, <2>2
<1>8. Begins(t, s)
  BY <1>1, <1>5, <1>6 DEF Begins, n
<1>9. Msgs(t, n) = Msgs(s, n)
  BY <1>1, <1>5, <1>8, PlacesStay
<1>10. MessageAt(t, n, len)
  <2>1. n \in 0..Len(t) /\ n + len <= Len(t)
    BY <1>1, <1>5
  <2> QED
    BY <1>7, <1>9, <2>1 DEF MessageAt, m
<1>11. \A i \in 1..n : t[i].msg <= m /\ t[i].msg \in Nat
  <2> SUFFICES ASSUME NEW i \in 1..n PROVE t[i].msg <= m /\ t[i].msg \in Nat
    OBVIOUS
  <2>1. i \in 1..Len(s) /\ n \in 1..Len(s) /\ n # 0 /\ i <= n
    BY <1>1 DEF n
  <2>2. s[i].msg <= s[n].msg /\ s[i].msg \in Nat /\ s[n].msg \in Nat
    BY <2>1, ByteAt DEF WellFormed, Sorted
  <2>3. m = s[n].msg + 1
    BY <2>1 DEF m, Msgs
  <2> QED
    BY <1>6, <2>2, <2>3
<1>12. Sorted(t)
  <2> SUFFICES ASSUME NEW i \in 1..Len(t), NEW j \in 1..Len(t), i <= j
               PROVE  t[i].msg <= t[j].msg
    BY DEF Sorted
  <2>1. CASE j \in 1..n
    <3>1. i \in 1..n
      BY <1>1, <1>5, <2>1
    <3>2. i \in 1..Len(s) /\ j \in 1..Len(s)
      BY <2>1, <3>1 DEF n
    <3> QED
      BY <1>6, <2>1, <3>1, <3>2 DEF WellFormed, Sorted
  <2>2. CASE j \notin 1..n
    <3>1. j - n \in 1..len /\ n + (j - n) = j
      BY <1>1, <1>5, <2>2
    <3>2. t[j] = [msg |-> m, frg |-> len - (j - n)]
      BY <1>7, <3>1
    <3>3. CASE i \in 1..n
      BY <1>11, <3>2, <3>3
    <3>4. CASE i \notin 1..n
      <4>1. i - n \in 1..len /\ n + (i - n) = i
        BY <1>1, <1>5, <3>4
      <4>2. t[i] = [msg |-> m, frg |-> len - (i - n)]
        BY <1>7, <4>1
      <4> QED
        BY <1>3, <3>2, <4>2
    <3> QED
      BY <3>3, <3>4
  <2> QED
    BY <2>1, <2>2
<1>13. Covered(t)
  <2> SUFFICES ASSUME NEW i \in 1..Len(t)
               PROVE  \E a \in 0..Len(t), l \in 1..BufLen :
                         MessageAt(t, a, l) /\ a < i /\ i <= a + l
    BY DEF Covered
  <2>1. CASE i \in 1..n
    <3>1. PICK a \in 0..Len(s), l \in 1..BufLen : MessageAt(s, a, l) /\ a < i /\ i <= a + l
      BY <2>1 DEF WellFormed, Covered, n
    <3>2. MessageAt(t, a, l)
      BY <1>5, <1>8, <3>1, PlacesStay
    <3> QED
      BY <3>1, <3>2 DEF MessageAt
  <2>2. CASE i \notin 1..n
    <3>1. n < i /\ i <= n + len
      BY <1>1, <1>5, <2>2
    <3> QED
      BY <1>10, <3>1 DEF MessageAt
  <2> QED
    BY <2>1, <2>2
<1> QED
  BY <1>5, <1>8, <1>10, <1>12, <1>13 DEF WellFormed, n, m, f, t

-----------------------------------------------------------------------------
(* Cutting and joining the bytes of the connection. *)

LEMMA Cut ==
    ASSUME NEW x \in Seq(Unit), NEW k \in Nat, k <= Len(x)
    PROVE  /\ SubSeq(x, 1, k) \in Seq(Unit) /\ Len(SubSeq(x, 1, k)) = k
           /\ \A i \in 1..k : SubSeq(x, 1, k)[i] = x[i]
           /\ SubSeq(x, k + 1, Len(x)) \in Seq(Unit)
           /\ Len(SubSeq(x, k + 1, Len(x))) = Len(x) - k /\ Len(x) - k \in Nat
           /\ \A i \in 1..(Len(x) - k) : SubSeq(x, k + 1, Len(x))[i] = x[k + i]
<1> DEFINE h == SubSeq(x, 1, k)
           t == SubSeq(x, k + 1, Len(x))
<1>1. Len(x) \in Nat /\ \A i \in 1..Len(x) : x[i] \in Unit
  BY LenProperties, ElementOfSeq
<1>2. (\A i \in 1..k : x[i] \in Unit) /\ (\A i \in (k + 1)..Len(x) : x[i] \in Unit)
  BY <1>1
<1>3. /\ h \in Seq(Unit)
      /\ Len(h) = IF 1 <= k THEN k - 1 + 1 ELSE 0
      /\ \A i \in 1..(k - 1 + 1) : h[i] = x[1 + i - 1]
  BY <1>2, SubSeqProperties
<1>4. /\ t \in Seq(Unit)
      /\ Len(t) = IF k + 1 <= Len(x) THEN Len(x) - (k + 1) + 1 ELSE 0
      /\ \A i \in 1..(Len(x) - (k + 1) + 1) : t[i] = x[k + 1 + i - 1]
  BY <1>1, <1>2, SubSeqProperties
<1> HIDE DEF h, t
<1>5. Len(h) = k /\ \A i \in 1..k : h[i] = x[i]
  <2>1. k - 1 + 1 = k /\ \A i \in Nat : 1 + i - 1 = i
    OBVIOUS
  <2> QED
    BY <1>3, <2>1
<1>6. Len(t) = Len(x) - k /\ Len(x) - k \in Nat
  BY <1>1, <1>4
<1>7. ASSUME NEW i \in 1..(Len(x) - k) PROVE t[i] = x[k + i]
  <2>1. i \in 1..(Len(x) - (k + 1) + 1) /\ k + 1 + i - 1 = k + i
    BY <1>1
  <2> QED
    BY <1>4, <2>1
<1> QED
  BY <1>3, <1>4, <1>5, <1>6, <1>7 DEF h, t

LEMMA CutUnits ==
    ASSUME NEW x \in Seq(Unit), NEW k \in Nat, k <= Len(x),
           NEW s, NEW p \in Nat, AreUnits(s, p, x)
    PROVE  /\ AreUnits(s, p, SubSeq(x, 1, k))
           /\ AreUnits(s, p + k, SubSeq(x, k + 1, Len(x)))
<1> DEFINE h == SubSeq(x, 1, k)
           t == SubSeq(x, k + 1, Len(x))
<1>1. Len(x) \in Nat
  BY LenProperties
<1>2. /\ Len(h) = k /\ \A i \in 1..k : h[i] = x[i]
      /\ Len(t) = Len(x) - k /\ \A i \in 1..(Len(x) - k) : t[i] = x[k + i]
  BY Cut
<1> HIDE DEF h, t
<1>3. ASSUME NEW i \in 1..k PROVE IsUnit(s, p + i, h[i])
  <2>1. i \in 1..Len(x)
    BY <1>1
  <2> QED
    BY <1>2, <2>1 DEF AreUnits
<1>4. ASSUME NEW i \in 1..(Len(x) - k) PROVE IsUnit(s, (p + k) + i, t[i])
  <2>1. k + i \in 1..Len(x) /\ p + (k + i) = (p + k) + i
    BY <1>1
  <2>2. IsUnit(s, p + (k + i), x[k + i])
    BY <2>1 DEF AreUnits
  <2> QED
    BY <1>2, <2>1, <2>2
<1> QED
  BY <1>2, <1>3, <1>4 DEF AreUnits, h, t

LEMMA JoinUnits ==
    ASSUME NEW x \in Seq(Unit), NEW y \in Seq(Unit), NEW s, NEW p \in Nat,
           AreUnits(s, p, x), AreUnits(s, p + Len(x), y)
    PROVE  AreUnits(s, p, x \o y)
<1> DEFINE z == x \o y
           a == Len(x)
           b == Len(y)
<1>1. Len(z) = a + b /\ a \in Nat /\ b \in Nat
      /\ \A i \in 1..(a + b) : z[i] = IF i <= a THEN x[i] ELSE y[i - a]
  BY ConcatUnits
<1> HIDE DEF z
<1>2. ASSUME NEW i \in 1..(a + b) PROVE IsUnit(s, p + i, z[i])
  <2>1. CASE i <= a
    <3>1. i \in 1..Len(x) /\ z[i] = x[i]
      BY <1>1, <2>1
    <3> QED
      BY <3>1 DEF AreUnits
  <2>2. CASE ~(i <= a)
    <3>1. i - a \in 1..Len(y) /\ (p + Len(x)) + (i - a) = p + i /\ z[i] = y[i - a]
      BY <1>1, <2>2
    <3>2. IsUnit(s, (p + Len(x)) + (i - a), y[i - a])
      BY <3>1 DEF AreUnits
    <3> QED
      BY <3>1, <3>2
  <2> QED
    BY <2>1, <2>2
<1> QED
  BY <1>1, <1>2 DEF AreUnits, z

-----------------------------------------------------------------------------
(* The steps of the sender. *)

LEMMA NextMsgIs ==
    ASSUME sent \in Seq(Byte)
    PROVE  NextMsg = Msgs(sent, Len(sent)) + 1
<1>1. CASE sent = <<>>
  <2>1. Len(sent) = 0
    BY <1>1
  <2> QED
    BY <1>1, <2>1 DEF NextMsg, Msgs
<1>2. CASE sent # <<>>
  <2>1. Len(sent) # 0
    BY <1>2, EmptySeq
  <2> QED
    BY <1>2, <2>1 DEF NextMsg, Msgs
<1> QED
  BY <1>1, <1>2

\* What holds of the places in every state.
LEMMA Places ==
    ASSUME IInv
    PROVE  /\ sent \in Seq(Byte) /\ got \in Seq(Byte) /\ Len(sent) \in Nat /\ Len(got) \in Nat
           /\ Len(got) \in 0..Len(sent) /\ Len(sent) \in 0..Len(sent) /\ Begins(sent, got)
           /\ Len(got) = 0 \/ sent[Len(got)].frg = 0
           /\ At(sent, Len(got)) \in Nat /\ At(sent, Len(sent)) \in Nat /\ Base \in Nat
           /\ Partial \in Seq(Unit) /\ Len(Partial) \in Nat
           /\ stream \in Seq(Unit) /\ Len(stream) \in Nat
           /\ wbuf \in Seq(Unit) /\ Len(wbuf) \in Nat
           /\ rbuf \in Seq(Unit) /\ Len(rbuf) \in Nat
<1>1. /\ sent \in Seq(Byte) /\ got \in Seq(Byte) /\ stream \in Seq(Unit)
      /\ wbuf \in Seq(Unit) /\ rbuf \in Seq(Unit)
  BY DEF IInv, TypeOK
<1>2. /\ Len(sent) \in Nat /\ Len(got) \in Nat /\ Len(stream) \in Nat
      /\ Len(wbuf) \in Nat /\ Len(rbuf) \in Nat
  BY <1>1, LenProperties
<1>3. /\ Len(got) <= Len(sent)
      /\ \A i \in 1..Len(got) : got[i] = sent[i]
      /\ got # <<>> => got[Len(got)].frg = 0
  BY DEF IInv, FramesIntact
<1>4. Len(got) \in 0..Len(sent) /\ Len(sent) \in 0..Len(sent) /\ Begins(sent, got)
  BY <1>2, <1>3 DEF Begins
<1>5. Len(got) = 0 \/ sent[Len(got)].frg = 0
  <2> SUFFICES ASSUME Len(got) # 0 PROVE sent[Len(got)].frg = 0
    OBVIOUS
  <2>1. Len(got) \in 1..Len(got) /\ got # <<>>
    BY <1>2
  <2>2. got[Len(got)] = sent[Len(got)]
    BY <1>3, <2>1
  <2> QED
    BY <1>3, <2>1, <2>2
<1>6. At(sent, Len(got)) \in Nat /\ At(sent, Len(sent)) \in Nat
  BY <1>1, <1>4, MsgsType
<1>7. Base \in Nat
  BY <1>6, Sizes DEF Base
<1>8. Partial \in Seq(Unit) /\ Len(Partial) \in Nat
  BY <1>1, <1>2, EmptySeq DEF Partial
<1> QED
  BY <1>1, <1>2, <1>4, <1>5, <1>6, <1>7, <1>8

\* omni_msg_header_encode and the payload take the next places.
LEMMA FrameEffect ==
    ASSUME NEW t \in Seq(Byte), NEW n \in 0..Len(t), NEW len \in 1..BufLen,
           MessageAt(t, n, len), Len(t) = n + len, Msgs(t, n) + 1 <= MaxMsgs
    PROVE  LET f == Frame(Msgs(t, n) + 1, len) IN
           /\ f \in Seq(Unit)
           /\ AreUnits(t, At(t, n), f)
           /\ \A i \in 1..Len(f) : f[i].msg = Msgs(t, Len(t))
           /\ At(t, n) + Len(f) = At(t, Len(t))
<1> DEFINE m == Msgs(t, n) + 1
           f == Frame(m, len)
           h == HdrLen * Msgs(t, n)
<1>1. n \in Nat /\ len \in Nat /\ len >= 1 /\ Msgs(t, n) \in Nat /\ At(t, n) \in Nat /\ h \in Nat
  BY MsgsType, Sizes
<1>2. t[n + len].msg = m /\ HdrLen * m = h + HdrLen
  <2>1. t[n + len].msg = m
    BY MessageEnds
  <2>2. HdrLen * m = h + HdrLen
    BY <1>1, Product, Sizes
  <2> QED
    BY <2>1, <2>2
<1>3. m \in 1..MaxMsgs
  BY <1>1, Sizes
<1> HIDE DEF m
<1>4. HdrLen + len \in Nat /\ \A i \in 1..(HdrLen + len) :
          [msg |-> m, len |-> len, pos |-> i] \in Unit
  BY <1>1, <1>3, Sizes DEF Unit
<1>5. f \in [1..(HdrLen + len) -> Unit]
  BY <1>4 DEF Frame
<1>6. \A i \in 1..(HdrLen + len) : f[i] = [msg |-> m, len |-> len, pos |-> i]
  BY DEF Frame
<1> HIDE DEF f, h
<1>7. f \in Seq(Unit) /\ Len(f) = HdrLen + len
  BY <1>4, <1>5, SeqDef
<1>8. Msgs(t, Len(t)) = m
  BY <1>1, <1>2 DEF Msgs
<1>9. At(t, n) + Len(f) = At(t, Len(t))
  <2>1. At(t, n) = n + h /\ At(t, Len(t)) = (n + len) + (h + HdrLen)
    BY <1>2, <1>8 DEF At, h
  <2> QED
    BY <1>1, <1>7, <2>1, Sizes
<1>10. ASSUME NEW i \in 1..(HdrLen + len) PROVE IsUnit(t, At(t, n) + i, f[i])
  <2>1. f[i].msg = m /\ f[i].len = len /\ f[i].pos = i
    <3>1. f[i] = [msg |-> m, len |-> len, pos |-> i]
      BY <1>6
    <3> QED
      BY <3>1
  <2> QED
    BY <2>1 DEF IsUnit, m
<1>11. AreUnits(t, At(t, n), f)
  BY <1>7, <1>10 DEF AreUnits
<1>12. \A i \in 1..Len(f) : f[i].msg = Msgs(t, Len(t))
  BY <1>6, <1>7, <1>8
<1> QED
  BY <1>7, <1>9, <1>11, <1>12 DEF f, m

LEMMA SendIInv ==
    ASSUME IInv, NEW len \in 1..(BufLen + 1), TcpSend(len)
    PROVE  IInv'
<1> DEFINE n == Len(sent)
           m == Msgs(sent, n) + 1
           t == sent \o Payload(m, len)
           f == Frame(m, len)
<1>1. /\ wpc = "idle" /\ ~fin /\ NextMsg <= MaxMsgs /\ len <= BufLen
      /\ sent' = sent \o Payload(NextMsg, len) /\ wbuf' = Frame(NextMsg, len) /\ wpc' = "write"
      /\ stream' = stream /\ fin' = fin /\ reset' = reset
      /\ rpc' = rpc /\ rbuf' = rbuf /\ need' = need /\ got' = got
  BY DEF TcpSend, AcceptLen, receiver
<1>2. len \in 1..BufLen
  BY <1>1, Sizes
<1>3. /\ sent \in Seq(Byte) /\ got \in Seq(Byte) /\ n \in Nat /\ Len(got) \in Nat
      /\ Len(got) \in 0..n /\ n \in 0..n /\ Begins(sent, got)
      /\ Base \in Nat /\ Len(Partial) \in Nat /\ Len(stream) \in Nat
  BY Places
<1>4. NextMsg = m
  BY <1>3, NextMsgIs
<1>5. sent' = t /\ wbuf' = f /\ m <= MaxMsgs
  BY <1>1, <1>4
<1>6. WellFormed(sent)
  BY DEF IInv
<1>7. t \in Seq(Byte) /\ Len(t) = n + len /\ Begins(t, sent) /\ WellFormed(t) /\ MessageAt(t, n, len)
  BY <1>2, <1>3, <1>5, <1>6, SubmitExtends
<1> HIDE DEF t, f
<1>8. /\ \A a \in 0..n : Msgs(t, a) = Msgs(sent, a) /\ At(t, a) = At(sent, a)
      /\ \A a, l : MessageAt(sent, a, l) => MessageAt(t, a, l)
      /\ \A p, u : IsUnit(sent, p, u) => IsUnit(t, p, u)
  BY <1>3, <1>7, PlacesStay
<1>9. n \in 0..Len(t) /\ Msgs(t, n) = Msgs(sent, n) /\ At(t, n) = At(sent, n)
  BY <1>2, <1>3, <1>7, <1>8, Sizes
<1>10. /\ f \in Seq(Unit) /\ AreUnits(t, At(t, n), f)
       /\ \A i \in 1..Len(f) : f[i].msg = Msgs(t, Len(t))
       /\ At(t, n) + Len(f) = At(t, Len(t))
  <2>1. f = Frame(Msgs(t, n) + 1, len) /\ Msgs(t, n) + 1 <= MaxMsgs
    BY <1>5, <1>9 DEF f
  <2> QED
    BY <1>2, <1>7, <1>9, <2>1, FrameEffect
<1>11. Base' = Base /\ Partial' = Partial /\ Receiving' = Receiving
  BY <1>1, <1>3, <1>5, <1>8 DEF Base, Partial, Receiving
<1>12. TypeOK'
  BY <1>1, <1>5, <1>7, <1>10 DEF IInv, TypeOK
<1>13. FramesIntact'
  <2>1. Len(got) <= Len(t) /\ \A i \in 1..Len(got) : got[i] = t[i]
    BY <1>3, <1>7, <1>9 DEF Begins
  <2> QED
    BY <1>1, <1>5, <2>1 DEF IInv, FramesIntact
<1>14. ReadIsSent' /\ StreamIsSent'
  BY <1>1, <1>5, <1>8, <1>11 DEF IInv, ReadIsSent, StreamIsSent, AreUnits
<1>15. WriteIsSent'
  <2> SUFFICES ASSUME Receiving, ~reset
               PROVE  /\ AreUnits(t, Base + Len(Partial) + Len(stream), f)
                      /\ \A i \in 1..Len(f) : f[i].msg = Msgs(t, Len(t))
                      /\ Base + Len(Partial) + Len(stream) + Len(f) = At(t, Len(t))
    BY <1>1, <1>5, <1>11 DEF WriteIsSent
  <2>1. Len(wbuf) = 0
    BY <1>1 DEF IInv, Phases
  <2>2. Base + Len(Partial) + Len(stream) + Len(wbuf) = At(sent, n)
    BY DEF IInv, WriteIsSent
  <2>3. Base + Len(Partial) + Len(stream) = At(t, n)
    BY <1>3, <1>9, <2>1, <2>2
  <2> QED
    BY <1>10, <2>3
<1>16. NeedIsRight'
  BY <1>1, <1>5, <1>8 DEF IInv, NeedIsRight
<1>17. Phases' /\ BufferFits'
  BY <1>1 DEF IInv, Phases, BufferFits
<1>18. ClosedIsComplete'
  BY <1>1 DEF IInv, Phases, ClosedIsComplete
<1> QED
  BY <1>5, <1>7, <1>12, <1>13, <1>14, <1>15, <1>16, <1>17, <1>18 DEF IInv

LEMMA WriteIInv ==
    ASSUME IInv, NEW k \in 1..SockCap, WriteSome(k)
    PROVE  IInv'
<1> DEFINE h == SubSeq(wbuf, 1, k)
           w == SubSeq(wbuf, k + 1, Len(wbuf))
           p == Base + Len(Partial)
<1>1. /\ wpc = "write" /\ k \in 1..Len(wbuf) /\ rpc # "gone"
      /\ stream' = stream \o h /\ wbuf' = w
      /\ wpc' = IF k = Len(wbuf) THEN "idle" ELSE "write"
      /\ fin' = fin /\ reset' = reset /\ sent' = sent
      /\ rpc' = rpc /\ rbuf' = rbuf /\ need' = need /\ got' = got
  BY DEF WriteSome, receiver
<1>2. /\ Base \in Nat /\ Len(Partial) \in Nat /\ stream \in Seq(Unit) /\ Len(stream) \in Nat
      /\ wbuf \in Seq(Unit) /\ Len(wbuf) \in Nat
  BY Places
<1>3. k \in Nat /\ k <= Len(wbuf)
  BY <1>1, <1>2
<1>4. /\ h \in Seq(Unit) /\ Len(h) = k
      /\ w \in Seq(Unit) /\ Len(w) = Len(wbuf) - k /\ Len(wbuf) - k \in Nat
      /\ \A i \in 1..(Len(wbuf) - k) : w[i] = wbuf[k + i]
  BY <1>2, <1>3, Cut
<1>5. ~fin /\ ~reset
  BY <1>1 DEF IInv, Phases
<1>6. Base' = Base /\ Partial' = Partial /\ Receiving' = Receiving
  BY <1>1 DEF Base, Partial, Receiving
<1>7. p \in Nat /\ p + Len(stream) \in Nat
  BY <1>2
<1>8. Receiving => /\ AreUnits(sent, p, stream)
                   /\ AreUnits(sent, p + Len(stream), h)
                   /\ AreUnits(sent, (p + Len(stream)) + k, w)
  <2> SUFFICES ASSUME Receiving
               PROVE  /\ AreUnits(sent, p, stream)
                      /\ AreUnits(sent, p + Len(stream), h)
                      /\ AreUnits(sent, (p + Len(stream)) + k, w)
    OBVIOUS
  <2>1. AreUnits(sent, p, stream) /\ AreUnits(sent, p + Len(stream), wbuf)
    BY <1>5 DEF IInv, StreamIsSent, WriteIsSent
  <2> HIDE DEF p
  <2> QED
    BY <1>2, <1>3, <1>7, <2>1, CutUnits
<1> HIDE DEF h, w
<1>9. stream \o h \in Seq(Unit) /\ Len(stream \o h) = Len(stream) + k
  BY <1>2, <1>4, ConcatUnits
<1>10. TypeOK'
  BY <1>1, <1>4, <1>9 DEF IInv, TypeOK
<1>11. StreamIsSent'
  <2>1. Receiving => AreUnits(sent, p, stream \o h)
    BY <1>2, <1>4, <1>7, <1>8, JoinUnits
  <2> QED
    BY <1>1, <1>6, <2>1 DEF StreamIsSent
<1>12. WriteIsSent'
  <2> SUFFICES ASSUME Receiving
               PROVE  /\ AreUnits(sent, p + Len(stream \o h), w)
                      /\ \A i \in 1..Len(w) : w[i].msg = Msgs(sent, Len(sent))
                      /\ p + Len(stream \o h) + Len(w) = At(sent, Len(sent))
    BY <1>1, <1>6 DEF WriteIsSent
  <2>1. /\ \A i \in 1..Len(wbuf) : wbuf[i].msg = Msgs(sent, Len(sent))
        /\ p + Len(stream) + Len(wbuf) = At(sent, Len(sent))
    BY <1>5 DEF IInv, WriteIsSent
  <2> HIDE DEF p
  <2>2. p + Len(stream \o h) = (p + Len(stream)) + k
    BY <1>2, <1>3, <1>7, <1>9
  <2>3. p + Len(stream \o h) + Len(w) = At(sent, Len(sent))
    <3>1. \A a, b, c \in Nat : (a + c) + (b - c) = a + b
      OBVIOUS
    <3>2. (p + Len(stream) + k) + (Len(wbuf) - k) = p + Len(stream) + Len(wbuf)
      BY <1>2, <1>3, <1>7, <3>1
    <3> QED
      BY <1>4, <2>1, <2>2, <3>2
  <2>4. ASSUME NEW i \in 1..Len(w) PROVE w[i].msg = Msgs(sent, Len(sent))
    <3>1. i \in 1..(Len(wbuf) - k) /\ k + i \in 1..Len(wbuf)
      BY <1>2, <1>3, <1>4
    <3> QED
      BY <1>4, <2>1, <3>1
  <2> QED
    BY <1>8, <2>2, <2>3, <2>4
<1>13. Phases'
  <2>1. wpc' = "idle" => w = <<>>
    <3>1. k = Len(wbuf) => Len(w) = 0
      BY <1>2, <1>4
    <3> QED
      BY <1>1, <1>4, <3>1, EmptySeq
  <2> QED
    BY <1>1, <1>5, <2>1 DEF IInv, Phases
<1>14. ReadIsSent' /\ NeedIsRight' /\ FramesIntact' /\ BufferFits' /\ WellFormed(sent')
  BY <1>1, <1>6 DEF IInv, ReadIsSent, NeedIsRight, FramesIntact, BufferFits
<1>15. ClosedIsComplete'
  BY <1>1, <1>5 DEF IInv, Phases, ClosedIsComplete
<1> QED
  BY <1>10, <1>11, <1>12, <1>13, <1>14, <1>15 DEF IInv

LEMMA NobodyIInv == IInv /\ WriteToNobody => IInv'
<1> SUFFICES ASSUME IInv, WriteToNobody PROVE IInv'
  OBVIOUS
<1>1. /\ rpc = "gone" /\ wpc = "write"
      /\ wbuf' \in {wbuf, <<>>} /\ wpc' \in {"idle", "failed", "sigpipe"}
      /\ wpc' = "idle" => wbuf' = <<>>
      /\ stream' = stream /\ fin' = fin /\ reset' = reset /\ sent' = sent
      /\ rpc' = rpc /\ rbuf' = rbuf /\ need' = need /\ got' = got
  BY DEF WriteToNobody, receiver
<1>2. ~Receiving /\ ~Receiving'
  BY <1>1 DEF Receiving
<1>3. TypeOK'
  BY <1>1, EmptySeq DEF IInv, TypeOK
<1>4. ReadIsSent' /\ StreamIsSent' /\ WriteIsSent' /\ NeedIsRight' /\ ClosedIsComplete'
  BY <1>1, <1>2 DEF ReadIsSent, StreamIsSent, WriteIsSent, NeedIsRight, ClosedIsComplete
<1>5. FramesIntact' /\ Phases' /\ BufferFits' /\ WellFormed(sent')
  BY <1>1 DEF IInv, FramesIntact, Phases, BufferFits
<1> QED
  BY <1>3, <1>4, <1>5 DEF IInv

LEMMA CloseIInv == IInv /\ TcpClose => IInv'
<1> SUFFICES ASSUME IInv, TcpClose PROVE IInv'
  OBVIOUS
<1>1. /\ ~fin /\ fin' = TRUE /\ wpc' = IF wpc = "write" THEN "killed" ELSE wpc
      /\ wbuf' = wbuf /\ sent' = sent
      /\ rpc' = rpc /\ rbuf' = rbuf /\ need' = need /\ got' = got
  BY DEF TcpClose, receiver
<1>2. ~reset
  BY <1>1 DEF IInv, Phases
<1>3. PICK k \in Nat : k <= Len(stream) /\ (\/ stream' = stream /\ reset' = reset
                                            \/ reset' = TRUE /\ stream' = SubSeq(stream, 1, k))
  <2>1. Len(stream) \in Nat /\ 0 <= Len(stream)
    BY Places
  <2>2. CASE UNCHANGED <<stream, reset>>
    <3>1. 0 \in Nat /\ 0 <= Len(stream) /\ stream' = stream /\ reset' = reset
      BY <2>1, <2>2
    <3> QED
      BY <3>1
  <2>3. CASE reset' = TRUE /\ \E k \in 0..Len(stream) : stream' = SubSeq(stream, 1, k)
    <3>1. PICK k \in 0..Len(stream) : stream' = SubSeq(stream, 1, k)
      BY <2>3
    <3>2. k \in Nat /\ k <= Len(stream)
      BY <2>1
    <3> QED
      BY <2>3, <3>1, <3>2
  <2> QED
    BY <2>2, <2>3 DEF TcpClose
<1>4. stream \in Seq(Unit) /\ Base \in Nat /\ Len(Partial) \in Nat
  BY Places
<1>5. Base' = Base /\ Partial' = Partial /\ Receiving' = Receiving
  BY <1>1 DEF Base, Partial, Receiving
<1>6. stream' \in Seq(Unit) /\ (Receiving => AreUnits(sent, Base + Len(Partial), stream'))
  <2>1. Receiving => AreUnits(sent, Base + Len(Partial), stream)
    BY DEF IInv, StreamIsSent
  <2>2. CASE stream' = stream
    BY <1>4, <2>1, <2>2
  <2>3. CASE stream' = SubSeq(stream, 1, k)
    <3>1. Base + Len(Partial) \in Nat
      BY <1>4
    <3> QED
      BY <1>3, <1>4, <2>1, <2>3, <3>1, Cut, CutUnits
  <2> QED
    BY <1>3, <2>2, <2>3
<1>7. TypeOK'
  BY <1>1, <1>2, <1>3, <1>6 DEF IInv, TypeOK
<1>8. StreamIsSent' /\ ReadIsSent' /\ NeedIsRight'
  BY <1>1, <1>5, <1>6 DEF IInv, StreamIsSent, ReadIsSent, NeedIsRight
<1>9. WriteIsSent'
  BY <1>1, <1>2, <1>3, <1>5 DEF IInv, WriteIsSent
<1>10. FramesIntact' /\ Phases' /\ BufferFits' /\ ClosedIsComplete' /\ WellFormed(sent')
  BY <1>1 DEF IInv, FramesIntact, Phases, BufferFits, ClosedIsComplete
<1> QED
  BY <1>7, <1>8, <1>9, <1>10 DEF IInv

-----------------------------------------------------------------------------
(* The steps of the receiver. *)

LEMMA RecvIInv == IInv /\ TcpRecv => IInv'
<1> SUFFICES ASSUME IInv, TcpRecv PROVE IInv'
  OBVIOUS
<1>1. /\ rpc = "idle" /\ rpc' = "header" /\ need' = HdrLen /\ rbuf' = <<>>
      /\ wpc' = wpc /\ wbuf' = wbuf /\ sent' = sent
      /\ stream' = stream /\ fin' = fin /\ reset' = reset /\ got' = got
  BY DEF TcpRecv, sender
<1>2. Base' = Base /\ Partial' = Partial /\ Receiving' /\ Receiving
  BY <1>1 DEF Base, Partial, Receiving
<1>3. TypeOK'
  BY <1>1, EmptySeq DEF IInv, TypeOK
<1>4. NeedIsRight'
  <2>1. Len(rbuf') = 0
    BY <1>1
  <2> QED
    BY <1>1, <2>1, Sizes DEF NeedIsRight
<1>5. ReadIsSent' /\ StreamIsSent' /\ WriteIsSent'
  BY <1>1, <1>2 DEF IInv, ReadIsSent, StreamIsSent, WriteIsSent
<1>6. FramesIntact' /\ Phases' /\ BufferFits' /\ ClosedIsComplete' /\ WellFormed(sent')
  BY <1>1 DEF IInv, FramesIntact, Phases, BufferFits, ClosedIsComplete
<1> QED
  BY <1>3, <1>4, <1>5, <1>6 DEF IInv

LEMMA GoesIInv == IInv /\ ReceiverGoes => IInv'
<1> SUFFICES ASSUME IInv, ReceiverGoes PROVE IInv'
  OBVIOUS
<1>1. /\ rpc' = "gone" /\ stream' = <<>>
      /\ wpc' = wpc /\ wbuf' = wbuf /\ sent' = sent /\ fin' = fin /\ reset' = reset
      /\ rbuf' = rbuf /\ need' = need /\ got' = got
  BY DEF ReceiverGoes, sender
<1>2. ~Receiving'
  BY <1>1 DEF Receiving
<1>3. TypeOK'
  BY <1>1, EmptySeq DEF IInv, TypeOK
<1>4. ReadIsSent' /\ StreamIsSent' /\ WriteIsSent' /\ NeedIsRight' /\ ClosedIsComplete'
  BY <1>1, <1>2 DEF ReadIsSent, StreamIsSent, WriteIsSent, NeedIsRight, ClosedIsComplete
<1>5. FramesIntact' /\ Phases' /\ BufferFits' /\ WellFormed(sent')
  BY <1>1 DEF IInv, FramesIntact, Phases, BufferFits
<1> QED
  BY <1>3, <1>4, <1>5 DEF IInv

\* If the next place is taken there is a next message, and it is that one's first.
LEMMA NextFrame ==
    ASSUME IInv, NEW u, IsUnit(sent, At(sent, Len(got)) + 1, u)
    PROVE  \E l \in 1..BufLen :
              /\ MessageAt(sent, Len(got), l)
              /\ u.len = l /\ u.msg = Msgs(sent, Len(got)) + 1
<1> DEFINE g == Len(got)
           n == Len(sent)
<1>1. /\ sent \in Seq(Byte) /\ g \in 0..n /\ g \in Nat /\ n \in Nat
      /\ g = 0 \/ sent[g].frg = 0
      /\ At(sent, g) \in Nat
  BY Places
<1>2. WellFormed(sent) /\ Sorted(sent)
  BY DEF IInv, WellFormed
<1>3. g # n
  <2>1. At(sent, g) + 1 <= At(sent, n)
    BY <1>1, <1>2, UnitIsInside
  <2> QED
    BY <1>1, <2>1
<1>4. PICK l \in 1..BufLen : MessageAt(sent, g, l)
  BY <1>1, <1>2, <1>3, MessageFollows
<1>5. 1 \in 1..(HdrLen + l)
  BY Sizes
<1>6. u.len = l /\ u.msg = Msgs(sent, g) + 1
  BY <1>1, <1>2, <1>4, <1>5, UnitIsUnique
<1> QED
  BY <1>4, <1>6

\* All that was sent is handed over if no place is left.
LEMMA NothingLeft ==
    ASSUME IInv, At(sent, Len(got)) = At(sent, Len(sent))
    PROVE  got = sent
<1> DEFINE g == Len(got)
           n == Len(sent)
<1>1. /\ sent \in Seq(Byte) /\ got \in Seq(Byte) /\ g \in 0..n /\ g \in Nat /\ n \in Nat
      /\ g = 0 \/ sent[g].frg = 0
      /\ At(sent, g) \in Nat
  BY Places
<1>2. WellFormed(sent) /\ Sorted(sent)
  BY DEF IInv, WellFormed
<1>3. g = n
  <2> SUFFICES ASSUME g # n PROVE FALSE
    OBVIOUS
  <2>1. PICK l \in 1..BufLen : MessageAt(sent, g, l)
    BY <1>1, <1>2, MessageFollows
  <2> DEFINE u == [msg |-> Msgs(sent, g) + 1, len |-> l, pos |-> 1]
  <2>2. 1 \in 1..(HdrLen + l)
    BY Sizes
  <2>3. u.msg = Msgs(sent, g) + 1 /\ u.len = l /\ u.pos = 1
    OBVIOUS
  <2> HIDE DEF u
  <2>4. IsUnit(sent, At(sent, g) + 1, u)
    BY <1>1, <2>1, <2>2, <2>3 DEF IsUnit
  <2>5. At(sent, g) + 1 <= At(sent, n)
    BY <1>1, <1>2, <2>4, UnitIsInside
  <2> QED
    BY <1>1, <2>5
<1>4. \A i \in 1..g : got[i] = sent[i]
  BY DEF IInv, FramesIntact
<1> QED
  BY <1>1, <1>3, <1>4, SeqEqual

LEMMA EndIInv == IInv /\ ReadEnd => IInv'
<1> SUFFICES ASSUME IInv, ReadEnd PROVE IInv'
  OBVIOUS
<1>1. /\ rpc \in {"header", "payload"} /\ stream = <<>> /\ fin
      /\ rpc' = IF ~reset /\ rpc = "header" /\ rbuf = <<>> THEN "closed" ELSE "failed"
      /\ wpc' = wpc /\ wbuf' = wbuf /\ sent' = sent /\ stream' = stream /\ fin' = fin
      /\ reset' = reset /\ rbuf' = rbuf /\ need' = need /\ got' = got
  BY DEF ReadEnd, sender
<1>2. ~Receiving'
  BY <1>1 DEF Receiving
<1>3. TypeOK'
  BY <1>1 DEF IInv, TypeOK
<1>4. ReadIsSent' /\ StreamIsSent' /\ WriteIsSent' /\ NeedIsRight'
  BY <1>1, <1>2 DEF ReadIsSent, StreamIsSent, WriteIsSent, NeedIsRight
<1>5. FramesIntact' /\ Phases' /\ BufferFits' /\ WellFormed(sent')
  BY <1>1 DEF IInv, FramesIntact, Phases, BufferFits
<1> DEFINE g == Len(got)
           n == Len(sent)
<1>6. ASSUME ~reset, rpc = "header", rbuf = <<>>
      PROVE  /\ \A i \in (g + 1)..n : sent[i].msg = sent[n].msg
             /\ wpc = "idle" => got = sent
  <2>1. /\ sent \in Seq(Byte) /\ g \in Nat /\ n \in Nat /\ g \in 0..n /\ At(sent, g) \in Nat
        /\ wbuf \in Seq(Unit) /\ Len(wbuf) \in Nat
    BY Places
  <2>2. Base = At(sent, g) /\ Len(Partial) = 0 /\ Len(stream) = 0 /\ Receiving
    BY <1>1, <1>6, <2>1 DEF Base, Partial, Receiving
  <2>3. /\ AreUnits(sent, At(sent, g), wbuf)
        /\ \A i \in 1..Len(wbuf) : wbuf[i].msg = Msgs(sent, n)
        /\ At(sent, g) + Len(wbuf) = At(sent, n)
    BY <1>6, <2>1, <2>2 DEF IInv, WriteIsSent
  <2>4. CASE Len(wbuf) = 0
    <3>1. got = sent
      BY <2>1, <2>3, <2>4, NothingLeft
    <3>2. (g + 1)..n = {}
      BY <2>1, <3>1
    <3> QED
      BY <3>1, <3>2
  <2>5. CASE Len(wbuf) # 0
    <3>1. 1 \in 1..Len(wbuf)
      BY <2>1, <2>5
    <3>2. IsUnit(sent, At(sent, g) + 1, wbuf[1]) /\ wbuf[1].msg = Msgs(sent, n)
      BY <2>3, <3>1 DEF AreUnits
    <3>3. PICK l \in 1..BufLen :
            MessageAt(sent, g, l) /\ wbuf[1].len = l /\ wbuf[1].msg = Msgs(sent, g) + 1
      BY <3>2, NextFrame
    <3>4. g + 1 \in 1..n /\ sent[g + 1].msg = Msgs(sent, n) /\ n \in 1..n
      <4>1. g + 1 \in 1..n /\ sent[g + 1].msg = Msgs(sent, g) + 1
        BY <2>1, <3>3, MessageEnds
      <4>2. n \in 1..n
        BY <2>1, <4>1
      <4> QED
        BY <3>2, <3>3, <4>1, <4>2
    <3>5. ASSUME NEW i \in (g + 1)..n PROVE sent[i].msg = sent[n].msg
      <4>1. i \in 1..n /\ g + 1 <= i /\ i <= n
        BY <2>1
      <4>2. sent[g + 1].msg <= sent[i].msg /\ sent[i].msg <= sent[n].msg
        BY <3>4, <4>1 DEF IInv, WellFormed, Sorted
      <4>3. sent[i].msg \in Nat /\ sent[n].msg \in Nat
        BY <2>1, <3>4, <4>1, ByteAt
      <4>4. Msgs(sent, n) = sent[n].msg
        BY <2>1, <3>4 DEF Msgs
      <4> QED
        BY <3>4, <4>2, <4>3, <4>4
    <3>6. wpc # "idle"
      BY <2>5, EmptySeq DEF IInv, Phases
    <3> QED
      BY <3>5, <3>6
  <2> QED
    BY <2>4, <2>5
<1>7. ClosedIsComplete'
  BY <1>1, <1>6 DEF ClosedIsComplete
<1> QED
  BY <1>3, <1>4, <1>5, <1>7 DEF IInv

\* What tcp_read_n has now, and the message it belongs to.
LEMMA ReadEffect ==
    ASSUME IInv, NEW k \in 1..SockCap, ReadSome(k)
    PROVE  LET buf == rbuf \o SubSeq(stream, 1, k) IN
           /\ k \in Nat /\ k <= Len(stream) /\ rpc \in {"header", "payload"}
           /\ buf \in Seq(Unit) /\ Len(buf) = Len(rbuf) + k /\ Len(buf) <= need /\ need \in Nat
           /\ AreUnits(sent, Base, buf)
<1> DEFINE h == SubSeq(stream, 1, k)
           buf == rbuf \o h
<1>1. rpc \in {"header", "payload"} /\ k \in 1..(need - Len(rbuf)) /\ k <= Len(stream)
  BY DEF ReadSome
<1>2. /\ stream \in Seq(Unit) /\ Len(stream) \in Nat /\ rbuf \in Seq(Unit) /\ Len(rbuf) \in Nat
      /\ Base \in Nat
  BY Places
<1>3. need \in Nat /\ k \in Nat
  BY <1>1, Sizes DEF IInv, TypeOK
<1>4. Partial = rbuf /\ Receiving
  BY <1>1 DEF Partial, Receiving
<1>5. AreUnits(sent, Base, rbuf) /\ AreUnits(sent, Base + Len(rbuf), stream)
  BY <1>4 DEF IInv, ReadIsSent, StreamIsSent
<1>6. h \in Seq(Unit) /\ Len(h) = k
  BY <1>1, <1>2, <1>3, Cut
<1>7. AreUnits(sent, Base + Len(rbuf), h)
  <2>1. Base + Len(rbuf) \in Nat
    BY <1>2
  <2> QED
    BY <1>1, <1>2, <1>3, <1>5, <2>1, CutUnits
<1> HIDE DEF h
<1>8. buf \in Seq(Unit) /\ Len(buf) = Len(rbuf) + k
  BY <1>2, <1>6, ConcatUnits
<1>9. AreUnits(sent, Base, buf)
  BY <1>2, <1>5, <1>6, <1>7, JoinUnits
<1>10. Len(buf) <= need
  <2> HIDE DEF buf
  <2> QED
    BY <1>1, <1>2, <1>3, <1>8
<1> QED
  BY <1>1, <1>3, <1>8, <1>9, <1>10 DEF h

\* What was read is followed by what is still on its way.
LEMMA ReadKeeps ==
    ASSUME IInv, rpc \in {"header", "payload"}, NEW k \in Nat, k <= Len(stream),
           stream' = SubSeq(stream, k + 1, Len(stream)),
           wbuf' = wbuf, sent' = sent, reset' = reset,
           AreUnits(sent, Base', Partial'), Base' \in Nat, Len(Partial') \in Nat,
           Base' + Len(Partial') = Base + Len(rbuf) + k
    PROVE  ReadIsSent' /\ StreamIsSent' /\ WriteIsSent'
<1> DEFINE t == SubSeq(stream, k + 1, Len(stream))
           p == Base + Len(rbuf)
           b == Len(wbuf)
           e == At(sent, Len(sent))
<1>1. /\ stream \in Seq(Unit) /\ Len(stream) \in Nat /\ Len(rbuf) \in Nat /\ Base \in Nat
      /\ b \in Nat /\ e \in Nat
  BY Places
<1>2. Partial = rbuf /\ Receiving
  BY DEF Partial, Receiving
<1>3. p \in Nat /\ AreUnits(sent, p, stream)
  BY <1>1, <1>2 DEF IInv, StreamIsSent
<1>4. Len(t) = Len(stream) - k
  BY <1>1, Cut
<1>5. AreUnits(sent, p + k, t)
  BY <1>1, <1>3, CutUnits
<1>6. ~reset => /\ AreUnits(sent, p + Len(stream), wbuf)
                /\ \A i \in 1..b : wbuf[i].msg = Msgs(sent, Len(sent))
                /\ p + Len(stream) + b = e
  BY <1>2 DEF IInv, WriteIsSent
<1> HIDE DEF t, p, b, e
<1>7. (p + k) + Len(t) = p + Len(stream)
  BY <1>1, <1>3, <1>4
<1>8. Base' + Len(Partial') = p + k
  BY DEF p
<1>9. stream' = t
  BY DEF t
<1>10. ReadIsSent'
  BY DEF ReadIsSent
<1>11. StreamIsSent'
  BY <1>5, <1>8, <1>9 DEF StreamIsSent
<1>12. WriteIsSent'
  BY <1>6, <1>7, <1>8, <1>9 DEF WriteIsSent, b, e
<1> QED
  BY <1>10, <1>11, <1>12

\* The payload that was read is the next message.
LEMMA PayloadIsMessage ==
    ASSUME IInv, rpc = "payload", NEW buf \in Seq(Unit), Len(buf) = need, AreUnits(sent, Base, buf)
    PROVE  LET g == Len(got)
               new == got \o Bytes(buf) IN
           /\ new \in Seq(Byte) /\ Len(new) = g + need /\ g + need <= Len(sent)
           /\ \A i \in 1..(g + need) : new[i] = sent[i]
           /\ sent[g + need].frg = 0 /\ new # <<>>
           /\ At(sent, g + need) = Base + need
<1> DEFINE g == Len(got)
           f == Bytes(buf)
           new == got \o f
           m == Msgs(sent, g) + 1
<1>1. MessageAt(sent, g, need) /\ Sorted(sent) /\ Base = At(sent, g) + HdrLen
  BY DEF IInv, NeedIsRight, WellFormed, Base
<1>2. /\ g \in Nat /\ need \in Nat /\ need >= 1 /\ g + need <= Len(sent) /\ Len(sent) \in Nat
      /\ g + need \in 1..Len(sent) /\ sent[g + need].msg = m /\ sent[g + need].frg = 0
  <2>1. sent \in Seq(Byte)
    BY Places
  <2> QED
    BY <1>1, <2>1, MessageEnds
<1>3. /\ sent \in Seq(Byte) /\ got \in Seq(Byte) /\ At(sent, g) \in Nat /\ g \in 0..Len(sent)
  BY Places
<1>4. ASSUME NEW i \in 1..need PROVE f[i] = sent[g + i]
  <2>1. HdrLen + i \in 1..(HdrLen + need) /\ i \in 1..Len(buf)
    BY <1>2, Sizes
  <2>2. IsUnit(sent, Base + i, buf[i])
    BY <2>1 DEF AreUnits
  <2>3. Base + i = At(sent, g) + (HdrLen + i)
    BY <1>1, <1>2, <1>3, Sizes
  <2>4. buf[i].msg = m /\ buf[i].len = need /\ buf[i].pos = HdrLen + i
    BY <1>1, <1>3, <2>1, <2>2, <2>3, UnitIsUnique
  <2>5. f[i] = [msg |-> buf[i].msg, frg |-> HdrLen + buf[i].len - buf[i].pos]
    BY <2>1 DEF Bytes
  <2>6. HdrLen + need - (HdrLen + i) = need - i
    BY <1>2, Sizes
  <2>7. sent[g + i] = [msg |-> m, frg |-> need - i]
    BY <1>1 DEF MessageAt
  <2> QED
    BY <2>4, <2>5, <2>6, <2>7
<1>5. f \in Seq(Byte) /\ Len(f) = need
  <2>1. \A i \in 1..need : g + i \in 1..Len(sent)
    BY <1>2
  <2>2. \A i \in 1..need : f[i] \in Byte
    BY <1>3, <1>4, <2>1, ByteAt
  <2>3. f = [i \in 1..need |-> f[i]]
    BY DEF Bytes
  <2>4. f \in [1..need -> Byte]
    <3> HIDE DEF f
    <3> QED
      BY <2>2, <2>3
  <2> HIDE DEF f
  <2> QED
    BY <1>2, <2>4, SeqDef
<1> HIDE DEF f
<1>6. /\ new \in Seq(Byte) /\ Len(new) = g + need
      /\ \A i \in 1..(g + need) : new[i] = IF i <= g THEN got[i] ELSE f[i - g]
  <2>1. /\ new \in Seq(Byte) /\ Len(new) = g + Len(f)
        /\ \A i \in 1..(g + Len(f)) : new[i] = IF i <= g THEN got[i] ELSE f[i - g]
    BY <1>3, <1>5, ConcatBytes
  <2> QED
    BY <1>5, <2>1
<1>7. ASSUME NEW i \in 1..(g + need) PROVE new[i] = sent[i]
  <2>1. CASE i <= g
    <3>1. i \in 1..g
      BY <1>2, <2>1
    <3> QED
      BY <1>6, <2>1, <3>1 DEF IInv, FramesIntact
  <2>2. CASE ~(i <= g)
    <3>1. i - g \in 1..need /\ g + (i - g) = i
      BY <1>2, <2>2
    <3> QED
      BY <1>4, <1>6, <2>2, <3>1
  <2> QED
    BY <2>1, <2>2
<1>8. new # <<>>
  <2>1. Len(new) # 0
    BY <1>2, <1>6
  <2> QED
    BY <2>1
<1>9. At(sent, g + need) = Base + need
  <2> DEFINE hg == HdrLen * Msgs(sent, g)
             a == g + need
  <2>1. Msgs(sent, a) = m
    BY <1>2 DEF Msgs
  <2>2. HdrLen * m = hg + HdrLen /\ hg \in Nat
    BY <1>3, MsgsType, Product, Sizes
  <2>3. At(sent, a) = a + HdrLen * m /\ At(sent, g) = g + hg
    BY <2>1 DEF At
  <2> HIDE DEF hg, m
  <2> QED
    BY <1>1, <1>2, <2>2, <2>3, Sizes
<1> QED
  BY <1>2, <1>6, <1>7, <1>8, <1>9 DEF f

\* The header that was read is that of the next message, which the buffer holds.
LEMMA HeaderIsNext ==
    ASSUME IInv, rpc = "header", NEW buf \in Seq(Unit), Len(buf) = HdrLen,
           AreUnits(sent, Base, buf)
    PROVE  /\ Decode(buf) \in 1..BufLen /\ ~TooSmall(Decode(buf))
           /\ MessageAt(sent, Len(got), Decode(buf))
<1>1. 1 \in 1..Len(buf)
  BY Sizes
<1>2. IsUnit(sent, At(sent, Len(got)) + 1, buf[1])
  <2>1. Base = At(sent, Len(got)) + 0 /\ At(sent, Len(got)) \in Nat
    BY Places DEF Base
  <2>2. IsUnit(sent, Base + 1, buf[1])
    BY <1>1 DEF AreUnits
  <2> QED
    BY <2>1, <2>2
<1>3. PICK l \in 1..BufLen : MessageAt(sent, Len(got), l) /\ buf[1].len = l
  BY <1>2, NextFrame
<1>4. Decode(buf) = l
  BY <1>3 DEF Decode
<1> QED
  BY <1>3, <1>4, Sizes DEF TooSmall

LEMMA ReadIInv ==
    ASSUME IInv, NEW k \in 1..SockCap, ReadSome(k)
    PROVE  IInv'
<1> DEFINE buf == rbuf \o SubSeq(stream, 1, k)
<1>1. /\ k \in Nat /\ k <= Len(stream) /\ rpc \in {"header", "payload"}
      /\ buf \in Seq(Unit) /\ Len(buf) = Len(rbuf) + k /\ Len(buf) <= need /\ need \in Nat
      /\ AreUnits(sent, Base, buf)
  BY ReadEffect
<1>2. /\ stream' = SubSeq(stream, k + 1, Len(stream))
      /\ wpc' = wpc /\ wbuf' = wbuf /\ sent' = sent /\ fin' = fin /\ reset' = reset
  BY DEF ReadSome, sender
<1>3. \/ Len(buf) < need /\ rbuf' = buf /\ rpc' = rpc /\ need' = need /\ got' = got
      \/ ~(Len(buf) < need) /\ rpc = "payload" /\ rpc' = "idle" /\ got' = got \o Bytes(buf)
         /\ need' = need /\ rbuf' = rbuf
      \/ ~(Len(buf) < need) /\ rpc # "payload" /\ TooSmall(Decode(buf))
      \/ ~(Len(buf) < need) /\ rpc # "payload" /\ rpc' = "payload" /\ need' = Decode(buf)
         /\ rbuf' = <<>> /\ got' = got
  BY DEF ReadSome
<1> HIDE DEF buf
<1>4. /\ stream \in Seq(Unit) /\ Len(rbuf) \in Nat /\ rbuf \in Seq(Unit) /\ Base \in Nat
      /\ sent \in Seq(Byte) /\ got \in Seq(Byte) /\ At(sent, Len(got)) \in Nat
  BY Places
<1>5. stream' \in Seq(Unit)
  BY <1>1, <1>2, <1>4, Cut
<1>6. Len(buf) = Len(rbuf) + k /\ Len(buf) <= need /\ Len(buf) \in Nat
  <2>1. Len(rbuf) + k \in Nat
    BY <1>1, <1>4
  <2> QED
    BY <1>1, <2>1
<1>7. CASE Len(buf) < need /\ rbuf' = buf /\ rpc' = rpc /\ need' = need /\ got' = got
  <2>1. Base' = Base /\ Partial' = buf /\ Receiving'
    BY <1>1, <1>2, <1>7 DEF Base, Partial, Receiving
  <2>2. ReadIsSent' /\ StreamIsSent' /\ WriteIsSent'
    <3>1. Len(Partial') \in Nat /\ Base' + Len(Partial') = Base + Len(rbuf) + k
      <4>1. Base + (Len(rbuf) + k) = Base + Len(rbuf) + k
        BY <1>1, <1>4
      <4> QED
        BY <1>6, <2>1, <4>1
    <3> QED
      BY <1>1, <1>2, <1>4, <2>1, <3>1, ReadKeeps
  <2>3. TypeOK'
    BY <1>1, <1>2, <1>5, <1>7 DEF IInv, TypeOK
  <2>4. NeedIsRight'
    BY <1>2, <1>7 DEF IInv, NeedIsRight
  <2>5. FramesIntact' /\ Phases' /\ BufferFits' /\ ClosedIsComplete' /\ WellFormed(sent')
    BY <1>2, <1>7 DEF IInv, FramesIntact, Phases, BufferFits, ClosedIsComplete
  <2> QED
    BY <2>2, <2>3, <2>4, <2>5 DEF IInv
<1>8. CASE ~(Len(buf) < need) /\ rpc = "payload" /\ rpc' = "idle" /\ got' = got \o Bytes(buf)
           /\ need' = need /\ rbuf' = rbuf
  <2> DEFINE n == Len(got) + need
  <2>1. Len(buf) = need
    BY <1>1, <1>6, <1>8
  <2>2. /\ got' \in Seq(Byte) /\ Len(got') = n /\ n <= Len(sent)
        /\ \A i \in 1..n : got'[i] = sent[i]
        /\ sent[n].frg = 0 /\ got' # <<>>
        /\ At(sent, n) = Base + need
    BY <1>1, <1>8, <2>1, PayloadIsMessage
  <2>3. n \in Nat /\ n \in 1..n
    <3>1. Len(got') \in Nat /\ Len(got') # 0
      BY <2>2, EmptySeq, LenProperties
    <3> QED
      BY <2>2, <3>1
  <2> HIDE DEF n
  <2>4. Base' = Base + need /\ Partial' = <<>> /\ Receiving'
    <3>1. Base' = At(sent, n) + 0 /\ At(sent, n) \in Nat
      BY <1>1, <1>2, <1>4, <1>8, <2>2 DEF Base
    <3> QED
      BY <1>8, <2>2, <3>1 DEF Partial, Receiving
  <2>5. ReadIsSent' /\ StreamIsSent' /\ WriteIsSent'
    <3>1. Len(Partial') = 0 /\ AreUnits(sent, Base', Partial') /\ Base' \in Nat
      BY <1>1, <1>4, <2>4 DEF AreUnits
    <3>2. Base' + Len(Partial') = Base + Len(rbuf) + k
      <4>1. need = Len(rbuf) + k /\ Base' = Base + need
        BY <1>6, <2>1, <2>4
      <4> QED
        BY <1>1, <1>4, <3>1, <4>1
    <3> QED
      BY <1>1, <1>2, <3>1, <3>2, ReadKeeps
  <2>6. TypeOK'
    BY <1>2, <1>5, <1>8, <2>2 DEF IInv, TypeOK
  <2>7. FramesIntact'
    <3>1. got'[Len(got')].frg = 0
      BY <2>2, <2>3
    <3> QED
      BY <1>2, <2>2, <3>1 DEF FramesIntact
  <2>8. NeedIsRight'
    BY <1>8 DEF NeedIsRight
  <2>9. Phases' /\ BufferFits' /\ ClosedIsComplete' /\ WellFormed(sent')
    BY <1>2, <1>8 DEF IInv, Phases, BufferFits, ClosedIsComplete
  <2> QED
    BY <2>5, <2>6, <2>7, <2>8, <2>9 DEF IInv
<1>9. CASE ~(Len(buf) < need) /\ rpc # "payload"
  <2>1. rpc = "header" /\ need = HdrLen /\ Len(buf) = HdrLen
    <3>1. rpc = "header" /\ need = HdrLen
      BY <1>1, <1>9 DEF IInv, NeedIsRight
    <3> QED
      BY <1>1, <1>9, <1>6, <3>1
  <2>2. /\ Decode(buf) \in 1..BufLen /\ ~TooSmall(Decode(buf))
        /\ MessageAt(sent, Len(got), Decode(buf))
    BY <1>1, <2>1, HeaderIsNext
  <2>3. rpc' = "payload" /\ need' = Decode(buf) /\ rbuf' = <<>> /\ got' = got
    BY <1>3, <1>9, <2>2
  <2>4. Base' = Base + HdrLen /\ Partial' = <<>> /\ Receiving'
    <3>1. Base = At(sent, Len(got)) + 0 /\ Base' = At(sent, Len(got)) + HdrLen
      BY <1>2, <2>1, <2>3 DEF Base
    <3> QED
      BY <1>4, <2>3, <3>1 DEF Partial, Receiving
  <2>5. ReadIsSent' /\ StreamIsSent' /\ WriteIsSent'
    <3>1. Len(Partial') = 0 /\ AreUnits(sent, Base', Partial') /\ Base' \in Nat
      BY <1>4, <2>4, Sizes DEF AreUnits
    <3>2. Base' + Len(Partial') = Base + Len(rbuf) + k
      <4>1. HdrLen = Len(rbuf) + k /\ Base' = Base + HdrLen
        BY <1>6, <2>1, <2>4
      <4> QED
        BY <1>1, <1>4, <3>1, <4>1
    <3> QED
      BY <1>1, <1>2, <3>1, <3>2, ReadKeeps
  <2>6. TypeOK'
    BY <1>2, <1>5, <2>2, <2>3, EmptySeq DEF IInv, TypeOK
  <2>7. NeedIsRight'
    <3>1. Len(rbuf') < need'
      BY <2>2, <2>3
    <3> QED
      BY <1>2, <2>2, <2>3, <3>1 DEF NeedIsRight
  <2>8. FramesIntact' /\ Phases' /\ BufferFits' /\ ClosedIsComplete' /\ WellFormed(sent')
    BY <1>2, <2>3 DEF IInv, FramesIntact, Phases, BufferFits, ClosedIsComplete
  <2> QED
    BY <2>5, <2>6, <2>7, <2>8 DEF IInv
<1> QED
  BY <1>3, <1>7, <1>8, <1>9

-----------------------------------------------------------------------------
(* The invariant. *)

LEMMA InitIInv == Init => IInv
<1> SUFFICES ASSUME Init PROVE IInv
  OBVIOUS
<1>1. /\ wpc = "idle" /\ wbuf = <<>> /\ stream = <<>> /\ fin = FALSE /\ reset = FALSE
      /\ rpc = "idle" /\ rbuf = <<>> /\ need = 0 /\ sent = <<>> /\ got = <<>>
  BY DEF Init
<1>2. Len(sent) = 0 /\ Len(got) = 0 /\ Len(stream) = 0 /\ Len(wbuf) = 0
  BY <1>1
<1>3. Base = At(sent, 0) + 0 /\ At(sent, 0) \in Nat /\ Partial = <<>>
  <2>1. HdrLen * 0 = 0
    BY Sizes
  <2>2. At(sent, 0) = 0
    BY <2>1 DEF At, Msgs
  <2> QED
    BY <1>1, <1>2, <2>2 DEF Base, Partial
<1>4. TypeOK
  BY <1>1, EmptySeq DEF TypeOK
<1>5. WellFormed(sent)
  BY <1>2 DEF WellFormed, Sorted, Covered
<1>6. FramesIntact
  BY <1>1, <1>2 DEF FramesIntact
<1>7. ReadIsSent /\ StreamIsSent
  <2>1. Len(Partial) = 0
    BY <1>3
  <2> QED
    BY <1>2, <2>1 DEF ReadIsSent, StreamIsSent, AreUnits
<1>8. WriteIsSent
  <2>1. Len(Partial) = 0
    BY <1>3
  <2>2. Base + Len(Partial) + Len(stream) + Len(wbuf) = At(sent, Len(sent))
    BY <1>2, <1>3, <2>1
  <2> QED
    BY <1>2, <2>2 DEF WriteIsSent, AreUnits
<1>9. NeedIsRight /\ Phases /\ BufferFits /\ ClosedIsComplete
  BY <1>1 DEF NeedIsRight, Phases, BufferFits, ClosedIsComplete
<1> QED
  BY <1>4, <1>5, <1>6, <1>7, <1>8, <1>9 DEF IInv

LEMMA StutterIInv == IInv /\ UNCHANGED vars => IInv'
<1> SUFFICES ASSUME IInv, UNCHANGED vars PROVE IInv'
  OBVIOUS
<1>1. /\ wpc' = wpc /\ wbuf' = wbuf /\ stream' = stream /\ fin' = fin /\ reset' = reset
      /\ rpc' = rpc /\ rbuf' = rbuf /\ need' = need /\ sent' = sent /\ got' = got
  BY DEF vars
<1>2. Base' = Base /\ Partial' = Partial /\ Receiving' = Receiving
  BY <1>1 DEF Base, Partial, Receiving
<1>3. TypeOK' /\ WellFormed(sent') /\ FramesIntact' /\ Phases' /\ BufferFits' /\ ClosedIsComplete'
  BY <1>1 DEF IInv, TypeOK, FramesIntact, Phases, BufferFits, ClosedIsComplete
<1>4. ReadIsSent' /\ StreamIsSent' /\ WriteIsSent' /\ NeedIsRight'
  BY <1>1, <1>2 DEF IInv, ReadIsSent, StreamIsSent, WriteIsSent, NeedIsRight
<1> QED
  BY <1>3, <1>4 DEF IInv

LEMMA StepIInv == IInv /\ [Next]_vars => IInv'
<1> SUFFICES ASSUME IInv, [Next]_vars PROVE IInv'
  OBVIOUS
<1>1. ASSUME NEW len \in 1..(BufLen + 1), TcpSend(len) PROVE IInv'
  BY <1>1, SendIInv
<1>2. CASE Write
  BY <1>2, WriteIInv DEF Write
<1>3. CASE WriteToNobody
  BY <1>3, NobodyIInv
<1>4. CASE TcpClose
  BY <1>4, CloseIInv
<1>5. CASE TcpRecv
  BY <1>5, RecvIInv
<1>6. CASE Read
  BY <1>6, ReadIInv DEF Read
<1>7. CASE ReadEnd
  BY <1>7, EndIInv
<1>8. CASE ReceiverGoes
  BY <1>8, GoesIInv
<1>9. CASE UNCHANGED vars
  BY <1>9, StutterIInv
<1> QED
  BY <1>1, <1>2, <1>3, <1>4, <1>5, <1>6, <1>7, <1>8, <1>9 DEF Next

LEMMA SpecIInv == Spec => []IInv
  BY InitIInv, StepIInv, PTL DEF Spec

\* Every variable keeps its type, the length a header announces included, which
\* tcp_recv takes for the number of bytes to read.
THEOREM StreamTypeCorrect == Spec => []TypeOK
<1>1. IInv => TypeOK
  BY DEF IInv
<1> QED
  BY <1>1, SpecIInv, PTL

\* However tcp_write_n and tcp_read_n cut the byte stream, tcp_recv hands over
\* the messages that tcp_send was given, whole and in their order.
THEOREM FramesSurvive == Spec => []FramesIntact
<1>1. IInv => FramesIntact
  BY DEF IInv
<1> QED
  BY <1>1, SpecIInv, PTL

\* tcp_recv never leaves the stream in the middle of a frame because the payload
\* is larger than its caller's buffer (tcp_recv's payload_len > len).
THEOREM FramesFitBuffer == Spec => []BufferFits
<1>1. IInv => BufferFits
  BY DEF IInv
<1> QED
  BY <1>1, SpecIInv, PTL

\* A tcp_recv that returns 0 has handed over every message before it, but for
\* the one the sender was killed in.
THEOREM CloseMeansComplete == Spec => []ClosedIsComplete
<1>1. IInv => ClosedIsComplete
  BY DEF IInv
<1> QED
  BY <1>1, SpecIInv, PTL

-----------------------------------------------------------------------------
(* The reliable channel.  Only tcp_send and the read that completes a      *)
(* payload are seen there.                                                 *)

\* The message of which tcp_read_n has got the last byte.
Completes(k) ==
    /\ rpc = "payload" /\ MessageAt(sent, Len(got), need)
    /\ sent' = sent /\ got' = SubSeq(sent, 1, Len(got) + need)

LEMMA SentPrefix ==
    ASSUME NEW s \in Seq(Byte), NEW t \in Seq(Byte), Begins(s, t)
    PROVE  t = SubSeq(s, 1, Len(t))
<1> DEFINE n == Len(t)
           h == SubSeq(s, 1, n)
<1>1. n \in Nat /\ Len(s) \in Nat /\ n <= Len(s) /\ \A i \in 1..n : s[i] = t[i]
  BY LenProperties DEF Begins
<1>2. \A i \in 1..n : s[i] \in Byte
  <2>1. \A i \in 1..n : i \in 1..Len(s)
    BY <1>1
  <2> QED
    BY <2>1, ByteAt
<1>3. /\ h \in Seq(Byte)
      /\ Len(h) = IF 1 <= n THEN n - 1 + 1 ELSE 0
      /\ \A i \in 1..(n - 1 + 1) : h[i] = s[1 + i - 1]
  BY <1>1, <1>2, SubSeqProperties
<1> HIDE DEF h
<1>4. Len(h) = n
  BY <1>1, <1>3
<1>5. \A i \in 1..n : h[i] = s[i]
  <2>1. n - 1 + 1 = n /\ \A i \in 1..n : 1 + i - 1 = i
    BY <1>1
  <2> QED
    BY <1>3, <2>1
<1> QED
  BY <1>1, <1>3, <1>4, <1>5, SeqEqual DEF h

LEMMA ReadCompletes ==
    ASSUME IInv, NEW k \in 1..SockCap, ReadSome(k)
    PROVE  sent' = sent /\ (got' = got \/ Completes(k))
<1> DEFINE buf == rbuf \o SubSeq(stream, 1, k)
           n == Len(got) + need
<1>1. /\ buf \in Seq(Unit) /\ Len(buf) = Len(rbuf) + k /\ Len(buf) <= need /\ need \in Nat
      /\ AreUnits(sent, Base, buf)
  BY ReadEffect
<1>2. /\ sent' = sent
      /\ \/ got' = got
         \/ rpc = "payload" /\ ~(Len(buf) < need) /\ got' = got \o Bytes(buf)
  BY DEF ReadSome, sender
<1> HIDE DEF buf
<1>3. CASE rpc = "payload" /\ ~(Len(buf) < need) /\ got' = got \o Bytes(buf)
  <2>1. Len(buf) = need
    <3>1. Len(buf) \in Nat /\ need \in Nat /\ Len(buf) <= need
      BY <1>1, LenProperties
    <3> QED
      BY <1>3, <3>1
  <2>2. /\ got' \in Seq(Byte) /\ Len(got') = n /\ n <= Len(sent)
        /\ \A i \in 1..n : got'[i] = sent[i]
    BY <1>1, <1>3, <2>1, PayloadIsMessage
  <2>3. Begins(sent, got')
    BY <2>2 DEF Begins
  <2>4. got' = SubSeq(sent, 1, n)
    BY <2>2, <2>3, SentPrefix, Places
  <2> QED
    BY <1>2, <1>3, <2>4 DEF Completes, IInv, NeedIsRight
<1> QED
  BY <1>2, <1>3

\* Channel's histories, of which each side has one.
LEMMA Sides ==
    ASSUME NEW a, NEW b, NEW c, NEW R, R = [client |-> a, server |-> b]
    PROVE  /\ R["client"] = a /\ R["server"] = b
           /\ [client |-> c, server |-> b] = [R EXCEPT !["client"] = c]
           /\ [client |-> a, server |-> c] = [R EXCEPT !["server"] = c]
<1> DEFINE T == [R EXCEPT !["client"] = c]
           U == [R EXCEPT !["server"] = c]
<1>1. /\ R = [n \in DOMAIN R |-> R[n]] /\ DOMAIN R = {"client", "server"}
      /\ R["client"] = a /\ R["server"] = b
  OBVIOUS
<1>2. /\ T = [n \in {"client", "server"} |-> IF n = "client" THEN c ELSE R[n]]
      /\ U = [n \in {"client", "server"} |-> IF n = "server" THEN c ELSE R[n]]
  BY <1>1
<1>3. /\ T = [n \in {"client", "server"} |-> T[n]] /\ T["client"] = c /\ T["server"] = b
      /\ U = [n \in {"client", "server"} |-> U[n]] /\ U["client"] = a /\ U["server"] = c
  BY <1>1, <1>2
<1> HIDE DEF T, U
<1>4. /\ [client |-> c, server |-> b] = [n \in {"client", "server"} |-> T[n]]
      /\ [client |-> a, server |-> c] = [n \in {"client", "server"} |-> U[n]]
  BY <1>3
<1> QED
  BY <1>1, <1>3, <1>4 DEF T, U

LEMMA SubmitStep ==
    ASSUME IInv, NEW len \in 1..(BufLen + 1), TcpSend(len)
    PROVE  Channel!Submit("client")
<1>1. len \in 1..BufLen /\ sent' = sent \o Payload(NextMsg, len) /\ got' = got
  BY Sizes DEF TcpSend, AcceptLen, receiver
<1>2. Payload(NextMsg, len) = Channel!Fragments(Channel!NextMsg(sent), len)
  BY DEF Payload, NextMsg, Channel!Fragments, Channel!NextMsg
<1>3. [client |-> sent', server |-> <<>>] =
        [[client |-> sent, server |-> <<>>]
            EXCEPT !["client"] = @ \o Channel!Fragments(Channel!NextMsg(@), len)]
  <2> DEFINE S == [client |-> sent, server |-> <<>>]
             new == sent \o Channel!Fragments(Channel!NextMsg(sent), len)
  <2>1. S = [client |-> sent, server |-> <<>>] /\ sent' = new
    BY <1>1, <1>2
  <2> HIDE DEF S, new
  <2>2. S["client"] = sent /\ [client |-> new, server |-> <<>>] = [S EXCEPT !["client"] = new]
    BY <2>1, Sides
  <2>3. [S EXCEPT !["client"] = new] =
          [S EXCEPT !["client"] = S["client"] \o Channel!Fragments(Channel!NextMsg(S["client"]), len)]
    BY <2>2 DEF new
  <2> QED
    BY <2>1, <2>2, <2>3 DEF S
<1> QED
  BY <1>1, <1>3 DEF Channel!Submit

LEMMA DeliverStep ==
    ASSUME IInv, NEW k, Completes(k)
    PROVE  Channel!Deliver("server")
<1> DEFINE g == Len(got)
           n == g + need
           S == [client |-> sent, server |-> <<>>]
           G == [client |-> <<>>, server |-> got]
<1>1. /\ MessageAt(sent, g, need) /\ sent' = sent /\ got' = SubSeq(sent, 1, n)
      /\ sent \in Seq(Byte) /\ g \in Nat
  BY Places DEF Completes
<1>2. /\ need \in Nat /\ need >= 1 /\ n <= Len(sent) /\ Len(sent) \in Nat
      /\ sent[n].frg = 0
  BY <1>1, MessageEnds
<1>3. ASSUME NEW i \in (g + 1)..(n - 1) PROVE sent[i].frg # 0
  <2>1. i - g \in 1..need /\ g + (i - g) = i /\ need - (i - g) # 0
    BY <1>1, <1>2
  <2>2. sent[i] = [msg |-> Msgs(sent, g) + 1, frg |-> need - (i - g)]
    BY <1>1, <2>1 DEF MessageAt
  <2> QED
    BY <2>1, <2>2
<1>4. n \in (g + 1)..Len(sent)
  BY <1>1, <1>2
<1>5. S["client"] = sent /\ G["server"] = got /\ Channel!Peer("server") = "client"
  BY DEF Channel!Peer
<1>6. [client |-> <<>>, server |-> got'] = [G EXCEPT !["server"] = SubSeq(sent, 1, n)]
  <2> DEFINE new == SubSeq(sent, 1, n)
  <2>1. G = [client |-> <<>>, server |-> got] /\ got' = new
    BY <1>1
  <2> HIDE DEF G, new
  <2>2. [client |-> <<>>, server |-> new] = [G EXCEPT !["server"] = new]
    BY <2>1, Sides
  <2> QED
    BY <2>1, <2>2 DEF new
<1> HIDE DEF n
<1>7. /\ n \in (Len(G["server"]) + 1)..Len(S[Channel!Peer("server")])
      /\ S[Channel!Peer("server")][n].frg = 0
      /\ \A i \in (Len(G["server"]) + 1)..(n - 1) : S[Channel!Peer("server")][i].frg # 0
      /\ [client |-> <<>>, server |-> got'] =
            [G EXCEPT !["server"] = SubSeq(S[Channel!Peer("server")], 1, n)]
  BY <1>2, <1>3, <1>4, <1>5, <1>6
<1> QED
  BY <1>1, <1>7 DEF Channel!Deliver

\* The framed stream is a reliable channel in one direction: tcp_send submits a
\* message, the last read of tcp_recv delivers it, and the cuts, the end of a
\* side and a reset are invisible.
THEOREM StreamImplementsChannel == Spec => ImplementsChannel
<1>1. Init => Channel!Init
  BY DEF Init, Channel!Init, Channel!Node
<1>2. IInv /\ [Next]_vars => [Channel!Next]_(Channel!vars)
  <2> SUFFICES ASSUME IInv, [Next]_vars PROVE [Channel!Next]_(Channel!vars)
    OBVIOUS
  <2>1. "client" \in Channel!Node /\ "server" \in Channel!Node
    BY DEF Channel!Node
  <2>2. ASSUME NEW len \in 1..(BufLen + 1), TcpSend(len) PROVE Channel!Next
    BY <2>1, <2>2, SubmitStep DEF Channel!Next
  <2>3. CASE UNCHANGED <<sent, got>>
    BY <2>3 DEF Channel!vars
  <2>4. ASSUME NEW k \in 1..SockCap, ReadSome(k) PROVE [Channel!Next]_(Channel!vars)
    <3>1. CASE UNCHANGED <<sent, got>>
      BY <2>3, <3>1
    <3>2. CASE Completes(k)
      BY <2>1, <3>2, DeliverStep DEF Channel!Next
    <3> QED
      BY <2>4, <3>1, <3>2, ReadCompletes
  <2>5. ASSUME NEW k \in 1..SockCap, WriteSome(k) PROVE UNCHANGED <<sent, got>>
    BY <2>5 DEF WriteSome, receiver
  <2>6. WriteToNobody \/ TcpClose \/ TcpRecv \/ ReadEnd \/ ReceiverGoes \/ UNCHANGED vars
        => UNCHANGED <<sent, got>>
    BY DEF WriteToNobody, TcpClose, TcpRecv, ReadEnd, ReceiverGoes, vars, sender, receiver
  <2> QED
    BY <2>2, <2>3, <2>4, <2>5, <2>6 DEF Next, Write, Read
<1> QED
  BY <1>1, <1>2, SpecIInv, PTL DEF Spec, ImplementsChannel, Channel!Spec

=============================================================================
