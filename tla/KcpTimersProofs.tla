-------------------------- MODULE KcpTimersProofs ---------------------------
(***************************************************************************)
(* Proofs about KcpTimers, for every setting of the engine, every clock    *)
(* and every answer: type correctness, that repeats back off               *)
(* (RepeatsBackOff), and, in a life that is short against the range of the *)
(* clock (Lifetime), that no timer is lost or missed (TimersInReach,       *)
(* NothingOverdue), timeouts are waited for (LossTakesTimeout), and fast   *)
(* resends are of overtaken segments (OvertakenOnly).                      *)
(*                                                                         *)
(* The argument.  A fast resend happens only below FastLimit               *)
(* transmissions, any other repeat adds half a timeout, and no timeout is  *)
(* below RtoMin.                                                           *)
(*                                                                         *)
(* Time is told by the age of each stamp (Ago).  While no stamp is half    *)
(* the range away from the clock all of them age alike (AgoGrows), so the  *)
(* flush time, the timers and the answer of ikcp_check keep their order,   *)
(* and a flush leaves no timer that has run out (Served).                  *)
(*                                                                         *)
(* What a call of ikcp_input has acknowledged is out of snd_buf for good,  *)
(* because numbers are given once (SegsBelow); so the ACK a datagram       *)
(* counts for (maxack, latest_ts) is of a transmission of a later segment, *)
(* which the peer has (AckedIsGone).  The stamps of transmissions are in   *)
(* their order (SendsInTime, AgoDiff) and a segment bears that of its last *)
(* (LastSend), so a stamp no older means a transmission no earlier.        *)
(***************************************************************************)
EXTENDS KcpTimers, SerialNumberProofs, TLAPS

\* Numbers are given in order, each once.
SegsBelow == \A s \in snd_buf : s.sn < snd_nxt

\* Only what has a number is sent.
SendsBelow == \A x \in sends : x.sn < snd_nxt

\* What the call in progress has acknowledged is gone, and the ACK answered a
\* transmission of it.
AckedIsGone ==
    maxack # None => maxack \notin Sns /\ \E x \in sends : x.sn = maxack /\ x.ts = latest_ts

LeastRto == \A s \in snd_buf : RtoMin <= s.rto

IInv ==
    /\ TypeOK
    /\ SegsBelow
    /\ SendsBelow
    /\ AckedIsGone
    /\ LeastRto
    /\ RepeatsBackOff

BackedOff(s) == (s.xmit - 1 - FastLimit) * (RtoMin \div 2) <= s.rto - RtoMin

-----------------------------------------------------------------------------
(* The arithmetic. *)

LEMMA PlusIsWord == \A a, k \in Int : Plus(a, k) \in Word
  BY HalfAssumption DEF Plus, Word, Modulus

LEMMA WordIsInt == Word \subseteq Nat
  BY HalfAssumption DEF Word, Modulus

LEMMA TimeDiffType == \A a, b \in Int : TimeDiff(a, b) \in Int
<1> SUFFICES ASSUME NEW a \in Int, NEW b \in Int
             PROVE  TimeDiff(a, b) \in Int
  OBVIOUS
<1>1. Modulus \in Nat \ {0}
  BY HalfAssumption DEF Modulus
<1>2. a - b \in Int
  OBVIOUS
<1>3. (a - b) % Modulus \in Int
  BY <1>1, <1>2
<1> QED
  BY <1>1, <1>3 DEF TimeDiff

LEMMA HalfOfRto == RtoMin \div 2 \in Nat /\ (\A r \in Nat : RtoMin <= r => RtoMin \div 2 <= r \div 2)
  BY TimerAssumption

LEMMA BackOffGrows ==
    ASSUME NEW s \in Seg, RtoMin <= s.rto, est.rto \in RtoMin..RtoMax
    PROVE  BackOff(s) \in Nat /\ BackOff(s) >= s.rto + RtoMin \div 2
<1>1. s.rto \in Nat /\ est.rto \in Nat /\ RtoMin <= est.rto /\ RtoMin \in Nat /\ NoDelay \in Nat
  BY TimerAssumption DEF Seg
<1>2. s.rto \div 2 \in Nat /\ est.rto \div 2 \in Nat
      /\ RtoMin \div 2 <= s.rto \div 2 /\ RtoMin \div 2 <= est.rto \div 2
  BY <1>1, HalfOfRto
<1>3. RtoMin \div 2 <= RtoMin /\ RtoMin \div 2 \in Nat
  BY <1>1
<1> QED
  BY <1>1, <1>2, <1>3 DEF BackOff, Larger

LEMMA Product ==
    ASSUME NEW a \in Int, NEW h \in Nat
    PROVE  /\ (a + 1) * h = a * h + h
           /\ a <= 0 => a * h <= 0
  OBVIOUS

-----------------------------------------------------------------------------
(* One segment in one flush. *)

\* t is s, sent once more.
Again(t, s, rto) ==
    /\ t \in Seg
    /\ t.sn = s.sn /\ t.rto = rto /\ t.xmit = s.xmit + 1 /\ t.fastack = s.fastack

LEMMA TransmitType ==
    ASSUME NEW s \in Seg, NEW rto \in Nat, NEW wait \in Nat, now \in Word
    PROVE  Again(Transmit(s, rto, wait), s, rto)
<1> DEFINE next == Plus(now, wait)
<1>1. next \in Word
  BY PlusIsWord, WordIsInt
<1>2. Transmit(s, rto, wait)
         = [s EXCEPT !.xmit = s.xmit + 1, !.ts = now, !.rto = rto, !.resendts = next]
  BY DEF Transmit
<1> HIDE DEF next
<1>3. s.xmit + 1 \in Nat
  BY DEF Seg
<1> QED
  BY <1>1, <1>2, <1>3 DEF Seg, Again

LEMMA EmitEffect ==
    ASSUME TypeOK, NEW s \in Seg, RtoMin <= s.rto, BackedOff(s)
    PROVE  /\ Emit(s) \in Seg
           /\ Emit(s).sn = s.sn
           /\ Emit(s).fastack \in {0, s.fastack}
           /\ RtoMin <= Emit(s).rto
           /\ BackedOff(Emit(s))
<1>1. /\ now \in Word /\ est.rto \in RtoMin..RtoMax /\ est.rto \in Nat
      /\ RtoMin \in Nat /\ FastLimit \in Nat /\ s.xmit \in Nat /\ s.rto \in Nat
  BY TimerAssumption DEF TypeOK, Seg
<1> DEFINE h == RtoMin \div 2
<1>2. h \in Nat
  BY HalfOfRto
<1>3. CASE s.xmit = 0
  <2> DEFINE wait == FirstTimeout(est.rto)
  <2>1. wait \in Nat
    BY <1>1 DEF FirstTimeout
  <2>2. Emit(s) = Transmit(s, est.rto, wait)
    BY <1>3 DEF Emit
  <2> HIDE DEF wait
  <2>t. Again(Transmit(s, est.rto, wait), s, est.rto)
    BY <1>1, <2>1, TransmitType, Zenon
  <2>3. /\ Emit(s) \in Seg /\ Emit(s).sn = s.sn /\ Emit(s).fastack = s.fastack
        /\ Emit(s).rto = est.rto /\ Emit(s).xmit = 1
    BY <1>3, <2>2, <2>t DEF Again
  <2>4. (1 - 1 - FastLimit) * h <= 0
    BY <1>1, <1>2, Product
  <2>5. BackedOff(Emit(s))
    BY <1>1, <2>3, <2>4 DEF BackedOff
  <2> QED
    BY <1>1, <2>3, <2>5
<1>4. CASE s.xmit # 0 /\ TimedOut(s)
  <2>1. BackOff(s) \in Nat /\ BackOff(s) >= s.rto + h
    BY <1>1, BackOffGrows
  <2>2. Emit(s) = Transmit(s, BackOff(s), BackOff(s))
    BY <1>4 DEF Emit
  <2>t. Again(Transmit(s, BackOff(s), BackOff(s)), s, BackOff(s))
    BY <1>1, <2>1, TransmitType, Zenon
  <2>3. /\ Emit(s) \in Seg /\ Emit(s).sn = s.sn /\ Emit(s).fastack = s.fastack
        /\ Emit(s).rto = BackOff(s) /\ Emit(s).xmit = s.xmit + 1
    BY <2>2, <2>t DEF Again
  <2>4. (s.xmit - 1 - FastLimit + 1) * h = (s.xmit - 1 - FastLimit) * h + h
    BY <1>1, <1>2, Product
  <2>5. (s.xmit - 1 - FastLimit) * h <= s.rto - RtoMin
    BY DEF BackedOff
  <2>6. BackedOff(Emit(s))
    <3> DEFINE p == (s.xmit - 1 - FastLimit) * h
    <3>1. p \in Int
      BY <1>1, <1>2
    <3>2. p + h <= BackOff(s) - RtoMin
      <4> HIDE DEF p, h
      <4> QED
        BY <1>1, <1>2, <2>1, <2>5, <3>1 DEF p
    <3>3. (Emit(s).xmit - 1 - FastLimit) * h = p + h
      <4>1. Emit(s).xmit - 1 - FastLimit = s.xmit - 1 - FastLimit + 1
        BY <1>1, <2>3
      <4> QED
        BY <4>1, <2>4
    <3> QED
      BY <2>3, <3>2, <3>3 DEF BackedOff
  <2> QED
    BY <1>1, <1>2, <2>1, <2>3, <2>6
<1>5. CASE s.xmit # 0 /\ ~TimedOut(s) /\ FastDue(s)
  <2> DEFINE t == [s EXCEPT !.fastack = 0]
  <2>1. t \in Seg /\ t.sn = s.sn /\ t.xmit = s.xmit /\ t.fastack = 0
    BY DEF Seg
  <2>2. Emit(s) = Transmit(t, s.rto, s.rto)
    BY <1>5 DEF Emit
  <2> HIDE DEF t
  <2>t. Again(Transmit(t, s.rto, s.rto), t, s.rto)
    BY <1>1, <2>1, TransmitType, Zenon
  <2>3. /\ Emit(s) \in Seg /\ Emit(s).sn = s.sn /\ Emit(s).fastack = 0
        /\ Emit(s).rto = s.rto /\ Emit(s).xmit = s.xmit + 1
    BY <2>1, <2>2, <2>t DEF Again
  <2>4. Emit(s).xmit - 1 - FastLimit <= 0 /\ Emit(s).xmit - 1 - FastLimit \in Int
    BY <1>1, <1>5, <2>3 DEF FastDue
  <2>5. (Emit(s).xmit - 1 - FastLimit) * h <= 0
    BY <1>2, <2>4, Product
  <2>6. BackedOff(Emit(s))
    BY <1>1, <2>3, <2>5 DEF BackedOff
  <2> QED
    BY <2>3, <2>6
<1>6. CASE s.xmit # 0 /\ ~TimedOut(s) /\ ~FastDue(s)
  BY <1>6 DEF Emit
<1> QED
  BY <1>3, <1>4, <1>5, <1>6

LEMMA NewSegsEffect ==
    ASSUME TypeOK, NEW s \in NewSegs
    PROVE  /\ s \in Seg
           /\ snd_nxt <= s.sn /\ s.sn < snd_nxt + MoveCount
           /\ s.fastack = 0
           /\ RtoMin <= s.rto
           /\ BackedOff(s)
<1>1. PICK sn \in snd_nxt..(snd_nxt + MoveCount - 1) :
         s = [sn |-> sn, ts |-> now, resendts |-> now, rto |-> est.rto, fastack |-> 0, xmit |-> 0]
  BY DEF NewSegs
<1>2. MoveCount \in Int /\ snd_nxt \in Nat /\ now \in Word /\ est.rto \in RtoMin..RtoMax
      /\ RtoMin \in Nat /\ FastLimit \in Nat
  BY TimerAssumption DEF TypeOK, MoveCount, Smaller, Larger
<1>3. s \in Seg /\ s.sn = sn /\ s.fastack = 0 /\ s.rto = est.rto /\ s.xmit = 0
  BY <1>1, <1>2 DEF Seg
<1>4. (s.xmit - 1 - FastLimit) * (RtoMin \div 2) <= 0
  BY <1>2, <1>3, HalfOfRto, Product
<1> QED
  BY <1>1, <1>2, <1>3, <1>4 DEF BackedOff

LEMMA MoveCountBounds ==
    ASSUME TypeOK
    PROVE  MoveCount \in Nat /\ nsnd_que - MoveCount \in Nat
  BY TimerAssumption DEF TypeOK, MoveCount, Smaller, Larger

LEMMA UpdateAckType ==
    ASSUME TypeOK, NEW rtt \in Nat
    PROVE  UpdateAck(est, rtt) \in [srtt : Nat, rttval : Nat, rto : RtoMin..RtoMax]
<1>1. est.srtt \in Nat /\ est.rttval \in Nat /\ RtoMin \in Nat /\ RtoMax \in Nat
      /\ RtoMin <= RtoMax /\ Interval \in Nat
  BY TimerAssumption DEF TypeOK
<1> DEFINE delta  == IF rtt >= est.srtt THEN rtt - est.srtt ELSE est.srtt - rtt
           rttval == IF est.srtt = 0 THEN rtt \div 2 ELSE (3 * est.rttval + delta) \div 4
           srtt   == IF est.srtt = 0 THEN rtt ELSE Larger(1, (7 * est.srtt + rtt) \div 8)
           rto    == Smaller(Larger(RtoMin, srtt + Larger(Interval, 4 * rttval)), RtoMax)
<1>2. delta \in Nat
  BY <1>1
<1>3. rttval \in Nat
  <2> HIDE DEF delta
  <2> QED
    BY <1>1, <1>2
<1>4. srtt \in Nat
  BY <1>1 DEF Larger
<1>5. rto \in RtoMin..RtoMax
  <2> HIDE DEF srtt, rttval
  <2> QED
    BY <1>1, <1>3, <1>4 DEF Larger, Smaller
<1>6. UpdateAck(est, rtt) = [srtt |-> srtt, rttval |-> rttval, rto |-> rto]
  BY DEF UpdateAck
<1> HIDE DEF srtt, rttval, rto
<1> QED
  BY <1>3, <1>4, <1>5, <1>6

LEMMA ParseFastackEffect ==
    ASSUME NEW s \in Seg
    PROVE  LET t == ParseFastack(s) IN
           /\ t \in Seg
           /\ t.sn = s.sn /\ t.ts = s.ts /\ t.resendts = s.resendts
           /\ t.rto = s.rto /\ t.xmit = s.xmit
           /\ \/ t.fastack = s.fastack
              \/ s.sn < maxack /\ TimeDiff(latest_ts, s.ts) >= 0
<1> DEFINE k == Smaller(s.fastack + 1, FastResend)
<1>1. k \in Nat
  BY TimerAssumption DEF Seg, Smaller
<1>2. \/ ParseFastack(s) = s
      \/ /\ s.sn < maxack /\ TimeDiff(latest_ts, s.ts) >= 0
         /\ ParseFastack(s) = [s EXCEPT !.fastack = k]
  BY DEF ParseFastack
<1> HIDE DEF k
<1> QED
  BY <1>1, <1>2 DEF Seg

-----------------------------------------------------------------------------
(* The invariant. *)

LEMMA InitIInv == Init => IInv
<1> SUFFICES ASSUME Init PROVE IInv
  OBVIOUS
<1>1. now \in Word /\ Starts \subseteq Nat /\ 0 \in Word
  BY TimerAssumption, HalfAssumption DEF Init, Word, Modulus
<1>2. TypeOK
  <2>1. est \in [srtt : Nat, rttval : Nat, rto : RtoMin..RtoMax]
    BY TimerAssumption DEF Init
  <2>2. /\ elapsed \in 0..Horizon /\ probe_wait \in 0..ProbeLimit
        /\ rmt_wnd \in Nat /\ maxack \in Nat \cup {None} /\ sends = {}
    BY TimerAssumption DEF Init
  <2>3. /\ current \in Word /\ ts_flush \in Word /\ ts_probe \in Word /\ wake \in Word
        /\ latest_ts \in Word /\ updated \in BOOLEAN /\ late \in BOOLEAN
    BY <1>1 DEF Init
  <2>4. nsnd_que \in Nat /\ snd_una \in Nat /\ snd_nxt \in Nat /\ snd_buf \in SUBSET Seg
    BY DEF Init
  <2> QED
    BY <1>1, <2>1, <2>2, <2>3, <2>4 DEF TypeOK
<1>3. snd_buf = {} /\ maxack = None /\ sends = {}
  BY DEF Init
<1> QED
  BY <1>2, <1>3 DEF IInv, SegsBelow, SendsBelow, AckedIsGone, LeastRto, RepeatsBackOff

\* What the segments of snd_buf are, one by one.
LEMMA SegsOfBuf ==
    ASSUME IInv, NEW s \in snd_buf
    PROVE  s \in Seg /\ s.sn < snd_nxt /\ RtoMin <= s.rto /\ BackedOff(s)
  BY DEF IInv, TypeOK, SegsBelow, LeastRto, RepeatsBackOff, BackedOff

LEMMA FlushBuf ==
    ASSUME IInv, NEW t \in {Emit(s) : s \in snd_buf \cup NewSegs}
    PROVE  /\ t \in Seg /\ t.sn < snd_nxt + MoveCount /\ RtoMin <= t.rto /\ BackedOff(t)
<1>1. PICK s \in snd_buf \cup NewSegs : t = Emit(s)
  OBVIOUS
<1>2. TypeOK /\ MoveCount \in Nat /\ snd_nxt \in Nat
  BY MoveCountBounds DEF IInv, TypeOK
<1>3. CASE s \in snd_buf
  <2>1. s \in Seg /\ s.sn < snd_nxt /\ RtoMin <= s.rto /\ BackedOff(s)
    BY <1>3, SegsOfBuf
  <2>2. /\ t \in Seg /\ t.sn = s.sn /\ t.fastack \in {0, s.fastack}
        /\ RtoMin <= t.rto /\ BackedOff(t)
    BY <1>1, <1>2, <2>1, EmitEffect
  <2>3. s.sn \in Nat
    BY <2>1 DEF Seg
  <2> QED
    BY <1>2, <1>3, <2>1, <2>2, <2>3
<1>4. CASE s \in NewSegs
  <2>1. /\ s \in Seg /\ snd_nxt <= s.sn /\ s.sn < snd_nxt + MoveCount
        /\ s.fastack = 0 /\ RtoMin <= s.rto /\ BackedOff(s)
    BY <1>2, <1>4, NewSegsEffect
  <2>2. /\ t \in Seg /\ t.sn = s.sn /\ t.fastack \in {0, s.fastack}
        /\ RtoMin <= t.rto /\ BackedOff(t)
    BY <1>1, <1>2, <2>1, EmitEffect
  <2>3. s.sn \in Nat
    BY <2>1 DEF Seg
  <2> QED
    BY <1>2, <2>1, <2>2, <2>3
<1> QED
  BY <1>3, <1>4

\* What a flush puts on the wire.
Sending ==
    {[sn |-> s.sn, ts |-> now, at |-> elapsed] :
        s \in {r \in snd_buf \cup NewSegs : Emit(r).xmit # r.xmit}}

LEMMA FlushSends ==
    ASSUME IInv, NEW x \in sends \cup Sending
    PROVE  x \in Transmission /\ x.sn < snd_nxt + MoveCount
<1>1. TypeOK /\ MoveCount \in Nat /\ snd_nxt \in Nat /\ now \in Word /\ elapsed \in Nat
  BY MoveCountBounds, TimerAssumption DEF IInv, TypeOK
<1>2. CASE x \in sends
  <2>1. x \in Transmission /\ x.sn < snd_nxt
    BY <1>1, <1>2 DEF IInv, TypeOK, SendsBelow
  <2>2. x.sn \in Nat
    BY <2>1 DEF Transmission
  <2> QED
    BY <1>1, <2>1, <2>2
<1>3. CASE x \in Sending
  <2>1. PICK s \in snd_buf \cup NewSegs : x = [sn |-> s.sn, ts |-> now, at |-> elapsed]
    BY <1>3 DEF Sending
  <2>2. s \in Seg /\ (s.sn < snd_nxt \/ s.sn < snd_nxt + MoveCount)
    BY <1>1, SegsOfBuf, NewSegsEffect
  <2>3. s.sn \in Nat
    BY <2>2 DEF Seg
  <2>4. s.sn < snd_nxt + MoveCount
    BY <1>1, <2>2, <2>3
  <2>5. x.sn = s.sn /\ x.ts = now /\ x.at = elapsed /\ x \in Transmission
    BY <1>1, <2>1, <2>3 DEF Transmission
  <2> QED
    BY <2>4, <2>5
<1> QED
  BY <1>2, <1>3

LEMMA ProbeType ==
    ASSUME TypeOK, IkcpProbe
    PROVE  probe_wait' \in 0..ProbeLimit /\ ts_probe' \in Word
<1>1. now \in Word /\ now \in Int /\ 0 \in Word /\ probe_wait \in 0..ProbeLimit
      /\ ts_probe \in Word /\ ProbeInit \in Nat /\ ProbeLimit \in Nat /\ ProbeInit <= ProbeLimit
  BY TimerAssumption, HalfAssumption DEF TypeOK, Word, Modulus
<1>2. \A wait \in 0..ProbeLimit : Plus(now, wait) \in Word
  BY <1>1, PlusIsWord
<1> DEFINE next == Smaller(ProbeLimit, probe_wait + probe_wait \div 2)
<1>3. next \in 0..ProbeLimit
  BY <1>1 DEF Smaller
<1>4. ProbeInit \in 0..ProbeLimit
  BY <1>1
<1>5. \/ probe_wait' = 0 /\ ts_probe' = 0
      \/ probe_wait' = ProbeInit /\ ts_probe' = Plus(now, ProbeInit)
      \/ probe_wait' = next /\ ts_probe' = Plus(now, next)
      \/ probe_wait' = probe_wait /\ ts_probe' = ts_probe
  BY DEF IkcpProbe
<1> HIDE DEF next
<1> QED
  BY <1>1, <1>2, <1>3, <1>4, <1>5

LEMMA FlushTimeType == TypeOK => FlushTime \in Word /\ NextFlush \in Word
<1> SUFFICES ASSUME TypeOK PROVE FlushTime \in Word /\ NextFlush \in Word
  OBVIOUS
<1>1. now \in Word /\ ts_flush \in Word /\ Interval \in Int
  BY TimerAssumption DEF TypeOK
<1>2. FlushTime \in Word
  BY <1>1 DEF FlushTime
<1>3. now \in Int /\ FlushTime \in Int
  BY <1>1, <1>2, WordIsInt
<1> QED
  BY <1>1, <1>2, <1>3, PlusIsWord DEF NextFlush

\* ikcp_check's answer is a time.
LEMMA WakeType ==
    ASSUME now' \in Word, ts_flush' \in Word, snd_buf' \in SUBSET Seg, wake' \in IkcpCheck'
    PROVE  wake' \in Word
<1>1. now' \in Int /\ Interval \in Int
  BY WordIsInt, TimerAssumption
<1>2. FlushTime' \in Word
  BY DEF FlushTime
<1>3. TimeDiff(FlushTime', now') \in Int
  BY <1>1, <1>2, WordIsInt, TimeDiffType
<1>4. \A s \in snd_buf' : TimeDiff(s.resendts, now') \in Int
  <2> SUFFICES ASSUME NEW s \in snd_buf' PROVE TimeDiff(s.resendts, now') \in Int
    OBVIOUS
  <2>1. s \in Seg
    OBVIOUS
  <2>2. s.resendts \in Word
    BY <2>1 DEF Seg
  <2>3. s.resendts \in Int
    BY <2>2, HalfAssumption DEF Word, Modulus
  <2> QED
    BY <1>1, <2>3, TimeDiffType
<1>5. CASE wake' = now'
  BY <1>5
<1>6. CASE wake' # now'
  <2>1. PICK w \in {Interval, TimeDiff(FlushTime', now')}
                     \cup {TimeDiff(s.resendts, now') : s \in snd_buf'} :
               wake' = Plus(now', w)
    BY <1>6 DEF IkcpCheck
  <2>2. w \in Int
    BY <1>1, <1>3, <1>4
  <2> QED
    BY <1>1, <2>1, <2>2, PlusIsWord
<1> QED
  BY <1>5, <1>6

LEMMA UpdateIInv == IInv /\ IkcpUpdate => IInv'
<1> SUFFICES ASSUME IInv, IkcpUpdate PROVE IInv'
  OBVIOUS
<1>1. TypeOK /\ maxack = None
  BY DEF IInv, IkcpUpdate
<1>2. /\ current' = now /\ updated' = TRUE /\ late' = FALSE /\ now' = now /\ elapsed' = elapsed
      /\ est' = est /\ snd_una' = snd_una /\ rmt_wnd' = rmt_wnd /\ maxack' = maxack
      /\ latest_ts' = latest_ts
      /\ wake' \in IkcpCheck'
  BY DEF IkcpUpdate, clock, input
<1>3. CASE FlushDue
  <2>1. /\ ts_flush' = NextFlush
        /\ snd_buf' = {Emit(s) : s \in snd_buf \cup NewSegs}
        /\ snd_nxt' = snd_nxt + MoveCount /\ nsnd_que' = nsnd_que - MoveCount
        /\ sends' = sends \cup Sending
        /\ IkcpProbe
    BY <1>3 DEF IkcpUpdate, IkcpFlush, Sending
  <2>2. \A t \in snd_buf' :
           t \in Seg /\ t.sn < snd_nxt' /\ RtoMin <= t.rto /\ BackedOff(t)
    BY <2>1, FlushBuf
  <2>3. /\ probe_wait' \in 0..ProbeLimit /\ ts_probe' \in Word /\ ts_flush' \in Word
        /\ snd_nxt \in Nat /\ MoveCount \in Nat /\ snd_nxt' \in Nat /\ nsnd_que' \in Nat
    BY <1>1, <2>1, ProbeType, FlushTimeType, MoveCountBounds DEF TypeOK
  <2>4. snd_buf' \in SUBSET Seg
    BY <2>2
  <2>5. now' \in Word
    BY <1>1, <1>2 DEF TypeOK
  <2>6. wake' \in Word
    BY <1>2, <2>3, <2>4, <2>5, WakeType
  <2>7. \A x \in sends' : x \in Transmission /\ x.sn < snd_nxt'
    BY <2>1, FlushSends
  <2>8. TypeOK'
    BY <1>1, <1>2, <2>3, <2>4, <2>6, <2>7 DEF TypeOK
  <2> QED
    BY <1>1, <1>2, <2>2, <2>7, <2>8
      DEF IInv, SegsBelow, SendsBelow, AckedIsGone, LeastRto, RepeatsBackOff, BackedOff
<1>4. CASE ~FlushDue
  <2>1. UNCHANGED <<ts_flush, nsnd_que, snd_nxt, snd_buf, sends, probe_wait, ts_probe>>
    BY <1>4 DEF IkcpUpdate, probeVars
  <2>2. wake' \in Word
    BY <1>1, <1>2, <2>1, WakeType DEF TypeOK
  <2>3. TypeOK'
    BY <1>1, <1>2, <2>1, <2>2 DEF TypeOK
  <2> QED
    BY <1>2, <2>1, <2>3
      DEF IInv, SegsBelow, SendsBelow, AckedIsGone, LeastRto, RepeatsBackOff, Sns
<1> QED
  BY <1>3, <1>4

\* ikcp_input takes nothing back: what it removes stays removed.
LEMMA InputOtherIInv ==
    ASSUME IInv, NEW una \in snd_una..snd_nxt, NEW wnd \in {0, SndWnd}, InputOther(una, wnd)
    PROVE  IInv'
<1>1. snd_buf' \subseteq snd_buf /\ snd_una' \in {s.sn : s \in snd_buf} \cup {snd_nxt}
  BY DEF InputOther, InputHeader, ShrinkBuf
<1>2. /\ rmt_wnd' = wnd /\ now' = now /\ elapsed' = elapsed /\ current' = current
      /\ updated' = updated /\ ts_flush' = ts_flush /\ est' = est /\ nsnd_que' = nsnd_que
      /\ snd_nxt' = snd_nxt /\ maxack' = maxack /\ latest_ts' = latest_ts /\ sends' = sends
      /\ probe_wait' = probe_wait /\ ts_probe' = ts_probe /\ wake' = wake /\ late' = late
  BY DEF InputOther, InputHeader, clock, flush, input, probeVars, caller
<1>3. snd_una' \in Nat /\ rmt_wnd' \in Nat
  BY <1>1, <1>2, SegsOfBuf, TimerAssumption DEF IInv, TypeOK, Seg
<1>4. TypeOK'
  BY <1>1, <1>2, <1>3 DEF IInv, TypeOK
<1>5. Sns' \subseteq Sns
  BY <1>1 DEF Sns
<1> QED
  BY <1>1, <1>2, <1>4, <1>5
    DEF IInv, SegsBelow, SendsBelow, AckedIsGone, LeastRto, RepeatsBackOff

LEMMA InputAckIInv ==
    ASSUME IInv, NEW una \in snd_una..snd_nxt, NEW wnd \in {0, SndWnd},
           NEW ack \in sends, InputAck(una, wnd, ack)
    PROVE  IInv'
<1> DEFINE rtt == TimeDiff(current, ack.ts)
<1>1. /\ snd_buf' = {s \in snd_buf : s.sn >= una /\ s.sn # ack.sn}
      /\ snd_una' \in {s.sn : s \in snd_buf} \cup {snd_nxt}
  BY DEF InputAck, InputHeader, ShrinkBuf
<1>2. /\ rmt_wnd' = wnd /\ now' = now /\ elapsed' = elapsed /\ current' = current
      /\ updated' = updated /\ ts_flush' = ts_flush /\ nsnd_que' = nsnd_que
      /\ snd_nxt' = snd_nxt /\ sends' = sends /\ probe_wait' = probe_wait
      /\ ts_probe' = ts_probe /\ wake' = wake /\ late' = late
      /\ est' = IF rtt >= 0 THEN UpdateAck(est, rtt) ELSE est
      /\ \/ maxack' = ack.sn /\ latest_ts' = ack.ts
         \/ maxack # None /\ maxack' = maxack /\ latest_ts' = latest_ts
  BY DEF InputAck, InputHeader, clock, flush, input, probeVars, caller
<1>3. ack \in Transmission /\ ack.sn \in Nat /\ ack.ts \in Word
  BY DEF IInv, TypeOK, Transmission
<1>4. snd_una' \in Nat /\ rmt_wnd' \in Nat
  BY <1>1, <1>2, SegsOfBuf, TimerAssumption DEF IInv, TypeOK, Seg
<1>5. est' \in [srtt : Nat, rttval : Nat, rto : RtoMin..RtoMax]
  <2>1. current \in Int /\ ack.ts \in Int
    <3>1. current \in Word
      BY DEF IInv, TypeOK
    <3> QED
      BY <1>3, <3>1, HalfAssumption DEF Word, Modulus
  <2>2. rtt \in Int
    BY <2>1, TimeDiffType
  <2>3. CASE rtt >= 0
    <3>1. rtt \in Nat /\ est' = UpdateAck(est, rtt)
      BY <1>2, <2>2, <2>3
    <3> HIDE DEF rtt
    <3> QED
      BY <3>1, UpdateAckType DEF IInv
  <2> QED
    BY <1>2, <2>3 DEF IInv, TypeOK
<1>6. TypeOK'
  BY <1>1, <1>2, <1>3, <1>4, <1>5 DEF IInv, TypeOK
<1>7. Sns' \subseteq Sns /\ ack.sn \notin Sns' /\ snd_buf' \subseteq snd_buf
  BY <1>1 DEF Sns
<1>8. AckedIsGone'
  BY <1>2, <1>7 DEF IInv, AckedIsGone
<1> QED
  BY <1>2, <1>6, <1>7, <1>8 DEF IInv, SegsBelow, SendsBelow, LeastRto, RepeatsBackOff

LEMMA InputEndIInv == IInv /\ InputEnd => IInv'
<1> SUFFICES ASSUME IInv, InputEnd PROVE IInv'
  OBVIOUS
<1>1. /\ maxack' = None /\ latest_ts' = 0 /\ snd_buf' = {ParseFastack(s) : s \in snd_buf}
      /\ now' = now /\ elapsed' = elapsed /\ current' = current
      /\ updated' = updated /\ ts_flush' = ts_flush /\ nsnd_que' = nsnd_que /\ est' = est
      /\ snd_una' = snd_una /\ snd_nxt' = snd_nxt /\ rmt_wnd' = rmt_wnd /\ sends' = sends
      /\ probe_wait' = probe_wait /\ ts_probe' = ts_probe /\ wake' = wake /\ late' = late
  BY DEF InputEnd, clock, flush, probeVars, caller
<1>2. \A t \in snd_buf' : \E s \in snd_buf :
         t \in Seg /\ s \in Seg /\ t.sn = s.sn /\ t.rto = s.rto /\ t.xmit = s.xmit
  BY <1>1, SegsOfBuf, ParseFastackEffect
<1>3. snd_buf' \in SUBSET Seg /\ 0 \in Word
  BY <1>2, HalfAssumption DEF Word, Modulus
<1>4. TypeOK'
  BY <1>1, <1>3 DEF IInv, TypeOK
<1>5. SegsBelow' /\ LeastRto' /\ RepeatsBackOff'
  BY <1>1, <1>2, SegsOfBuf DEF SegsBelow, LeastRto, RepeatsBackOff, BackedOff
<1> QED
  BY <1>1, <1>4, <1>5 DEF IInv, SendsBelow, AckedIsGone

LEMMA StepIInv == IInv /\ [Next]_vars => IInv'
<1> SUFFICES ASSUME IInv, [Next]_vars PROVE IInv'
  OBVIOUS
<1>1. CASE IkcpSend
  <2>1. /\ nsnd_que' = nsnd_que + 1 /\ now' = now /\ elapsed' = elapsed /\ current' = current
        /\ updated' = updated /\ ts_flush' = ts_flush /\ est' = est /\ maxack' = maxack
        /\ snd_una' = snd_una /\ snd_nxt' = snd_nxt /\ rmt_wnd' = rmt_wnd /\ snd_buf' = snd_buf
        /\ latest_ts' = latest_ts /\ sends' = sends
        /\ probe_wait' = probe_wait /\ ts_probe' = ts_probe /\ wake' = wake /\ late' = late
    BY <1>1 DEF IkcpSend, clock, flush, input, probeVars, caller
  <2>2. TypeOK'
    BY <2>1 DEF IInv, TypeOK
  <2> QED
    BY <2>1, <2>2
      DEF IInv, SegsBelow, SendsBelow, AckedIsGone, LeastRto, RepeatsBackOff, Sns
<1>2. CASE IkcpUpdate
  BY <1>2, UpdateIInv
<1>3. CASE Input
  <2>1. CASE InputEnd
    BY <2>1, InputEndIInv
  <2>2. CASE ~InputEnd
    <3>1. PICK una \in snd_una..snd_nxt, wnd \in {0, SndWnd} :
             \/ InputOther(una, wnd)
             \/ \E ack \in sends : InputAck(una, wnd, ack)
      BY <1>3, <2>2 DEF Input
    <3>2. CASE InputOther(una, wnd)
      BY <3>2, InputOtherIInv
    <3>3. CASE \E ack \in sends : InputAck(una, wnd, ack)
      BY <3>3, InputAckIInv
    <3> QED
      BY <3>1, <3>2, <3>3
  <2> QED
    BY <2>1, <2>2
<1>4. CASE Tick \/ Stall
  <2>1. /\ current' = current /\ updated' = updated /\ ts_flush' = ts_flush /\ est' = est
        /\ nsnd_que' = nsnd_que /\ snd_una' = snd_una /\ snd_nxt' = snd_nxt
        /\ snd_buf' = snd_buf /\ rmt_wnd' = rmt_wnd /\ maxack' = maxack
        /\ latest_ts' = latest_ts /\ sends' = sends
        /\ probe_wait' = probe_wait /\ ts_probe' = ts_probe /\ wake' = wake
        /\ late' \in {late, TRUE}
    BY <1>4 DEF Tick, Stall, engine, flush, sndVars, input, probeVars, caller
  <2>2. \E d \in Nat : now' = Plus(now, d) /\ elapsed' = elapsed + d /\ elapsed + d <= Horizon
    <3>1. elapsed \in Nat /\ Horizon \in Nat
      BY TimerAssumption DEF IInv, TypeOK
    <3>2. CASE Tick
      BY <3>1, <3>2 DEF Tick
    <3>3. CASE Stall
      BY <3>1, <3>3, TimerAssumption DEF Stall
    <3> QED
      BY <1>4, <3>2, <3>3
  <2>3. now' \in Word /\ elapsed' \in 0..Horizon
    BY <2>2, PlusIsWord, WordIsInt, TimerAssumption DEF IInv, TypeOK
  <2>4. TypeOK'
    BY <2>1, <2>3 DEF IInv, TypeOK
  <2> QED
    BY <2>1, <2>4
      DEF IInv, SegsBelow, SendsBelow, AckedIsGone, LeastRto, RepeatsBackOff, Sns
<1>5. CASE UNCHANGED vars
  <2>1. UNCHANGED <<now, elapsed, current, updated, ts_flush, est, nsnd_que, snd_una, snd_nxt,
                    snd_buf, sends, rmt_wnd, maxack, latest_ts, probe_wait, ts_probe, wake, late>>
    BY <1>5 DEF vars, clock, engine, flush, sndVars, input, probeVars, caller
  <2> QED
    BY <2>1
      DEF IInv, TypeOK, SegsBelow, SendsBelow, AckedIsGone, LeastRto, RepeatsBackOff, Sns
<1> QED
  BY <1>1, <1>2, <1>3, <1>4, <1>5 DEF Next

LEMMA SpecIInv == Spec => []IInv
  BY InitIInv, StepIInv, PTL DEF Spec

-----------------------------------------------------------------------------
\* Every time stamp stays a word of the clock, every timeout within
\* IKCP_RTO_MIN and IKCP_RTO_MAX (ikcp_update_ack), every probe's interval
\* within IKCP_PROBE_LIMIT.
THEOREM TimersTypeCorrect == Spec => []TypeOK
  BY SpecIInv, PTL DEF IInv

\* However the peer answers, the timeout of a segment grows by half the least
\* one with every repeat in ikcp_flush beyond the first FastLimit.
THEOREM RepeatsAreSpaced == Spec => []RepeatsBackOff
  BY SpecIInv, PTL DEF IInv

-----------------------------------------------------------------------------
(* The timers.  How far a stamp lies in the past says all there is to know *)
(* of it as long as nothing is half the range of the clock away.           *)

Ago(x) == TimeDiff(now, x)

\* A stamp that was set since the start, at most `ahead` into the future.
InTime(x, ahead) == x \in Word /\ -ahead <= Ago(x) /\ Ago(x) <= elapsed

OneEach == \A s, t \in snd_buf : s.sn = t.sn => s = t

\* The last ikcp_update and what it set for the next.
UpdateInTime ==
    updated =>
        /\ InTime(current, 0) /\ InTime(ts_flush, Interval) /\ InTime(wake, Interval)
        /\ Ago(current) = 0 => Ago(ts_flush) < 0

\* A caller that keeps to ikcp_check's answer comes before the flush is late.
CallerKnows ==
    updated /\ ~late =>
        /\ Ago(ts_flush) <= 0
        /\ Ago(wake) < 0 => Ago(ts_flush) <= Ago(wake)

\* A segment's timer runs from its last transmission, and it has paid with
\* time for every increase of its timeout.
TimerOf(s) ==
    /\ s.xmit > 0
    /\ InTime(s.ts, 0)
    /\ Ago(s.ts) - Ago(s.resendts) = Period(s)
    /\ s.rto <= RtoMax + 2 * elapsed

\* No timer that had run out was left by the last flush.
Served(x) == Ago(x) < Ago(ts_flush) + Interval

SegsInTime == \A s \in snd_buf : updated /\ TimerOf(s) /\ Served(s.resendts)
ProbeInTime == probe_wait > 0 => updated /\ InTime(ts_probe, probe_wait) /\ Served(ts_probe)

TInv ==
    /\ IInv
    /\ OneEach
    /\ UpdateInTime
    /\ CallerKnows
    /\ SegsInTime
    /\ ProbeInTime

LEMMA Scale ==
    ASSUME Lifetime
    PROVE  /\ Half \in Nat /\ Horizon \in Nat /\ RtoMax \in Nat /\ RtoMin \in Nat /\ RtoMin >= 1
           /\ Interval \in Nat /\ Interval >= 1 /\ Interval < SlapLimit
           /\ SlapLimit \in Nat /\ SlapLimit < Half
           /\ ProbeLimit \in Nat /\ ProbeLimit < Half /\ Horizon < Half
           /\ 3 * Horizon + 3 * RtoMax < Half
  BY TimerAssumption, HalfAssumption DEF Lifetime

LEMMA AgoType ==
    ASSUME now \in Word, NEW x \in Word
    PROVE  Ago(x) \in Int /\ -Half <= Ago(x) /\ Ago(x) < Half
  BY WordAfter DEF Ago

\* A stamp set from the present.
LEMMA StampAhead ==
    ASSUME NEW a \in Word, NEW w \in Nat, w < Half
    PROVE  Plus(a, w) \in Word /\ TimeDiff(a, Plus(a, w)) = -w /\ TimeDiff(a, a) = 0
<1>1. TimeDiff(a, a) = 0 /\ Half \in Nat
  BY DiffSelf, HalfAssumption
<1>2. -Half <= TimeDiff(a, a) - w
  BY <1>1
<1>3. TimeDiff(a, Plus(a, w)) = TimeDiff(a, a) - w
  BY <1>2, StampAdvances
<1>4. Plus(a, w) \in Word
  <2>1. a \in Int /\ w \in Int
    BY WordIsInt
  <2> QED
    BY <2>1, PlusIsWord
<1> QED
  BY <1>1, <1>3, <1>4

LEMMA AgoAhead ==
    ASSUME now \in Word, NEW w \in Nat, w < Half
    PROVE  Plus(now, w) \in Word /\ Ago(Plus(now, w)) = -w /\ Ago(now) = 0
  BY StampAhead DEF Ago

\* The present as a stamp sees it.
LEMMA AgoTurned ==
    ASSUME now \in Word, NEW x \in Word, -Half < Ago(x)
    PROVE  TimeDiff(x, now) = -Ago(x)
  BY DiffTurned DEF Ago

\* All stamps that were set since the start age alike.
LEMMA AgoGrows ==
    ASSUME Lifetime, now \in Word, elapsed \in Nat, NEW k \in Nat, elapsed + k <= Horizon,
           now' = Plus(now, k), elapsed' = elapsed + k
    PROVE  /\ \A x \in Word : Ago(x) <= elapsed => TimeDiff(now', x) = Ago(x) + k
<1> SUFFICES ASSUME NEW x \in Word, Ago(x) <= elapsed PROVE TimeDiff(now', x) = Ago(x) + k
  OBVIOUS
<1>1. Ago(x) \in Int /\ Horizon \in Nat /\ Horizon < Half /\ Half \in Nat
  BY AgoType, Scale
<1>2. Ago(x) + k < Half
  BY <1>1
<1> QED
  BY <1>2, ClockAdvances DEF Ago

LEMMA PeriodBounds ==
    ASSUME Lifetime, NEW s \in Seg, RtoMin <= s.rto, elapsed \in 0..Horizon,
           s.rto <= RtoMax + 2 * elapsed
    PROVE  /\ Period(s) \in Nat /\ s.rto <= Period(s) /\ 1 <= s.rto /\ s.rto \in Nat
           /\ Period(s) < Half /\ s.rto < Half
<1> DEFINE r == s.rto
<1>1. r \in Nat /\ r \div 8 \in Nat /\ r \div 8 <= r /\ 8 * (r \div 8) <= r
  <2>1. r \in Nat
    BY DEF Seg
  <2> HIDE DEF r
  <2> QED
    BY <2>1
<1>2. elapsed \in Nat /\ elapsed <= Horizon /\ r <= RtoMax + 2 * elapsed /\ RtoMin <= r
  BY Scale
<1>3. Period(s) \in {r, r + r \div 8}
  BY <1>1 DEF Period, FirstTimeout
<1> HIDE DEF r
<1>4. r + r \div 8 < Half /\ r < Half /\ 1 <= r
  BY <1>1, <1>2, Scale
<1>5. Period(s) \in Nat /\ r <= Period(s) /\ Period(s) < Half
  BY <1>1, <1>3, <1>4, Scale
<1> QED
  BY <1>1, <1>4, <1>5 DEF r

\* A timer that runs from a stamp in the past is within half the clock's range.
LEMMA TimerRange ==
    ASSUME Lifetime, TypeOK, NEW s \in Seg, RtoMin <= s.rto, TimerOf(s)
    PROVE  /\ s.resendts \in Word /\ s.ts \in Word
           /\ Ago(s.ts) \in Int /\ Ago(s.resendts) \in Int /\ Period(s) \in Nat
           /\ 0 <= Ago(s.ts) /\ Ago(s.ts) <= elapsed /\ elapsed \in Nat
           /\ Ago(s.resendts) = Ago(s.ts) - Period(s)
           /\ -Half < Ago(s.resendts) /\ Ago(s.resendts) <= elapsed
<1>1. s.resendts \in Word /\ s.ts \in Word /\ now \in Word /\ elapsed \in 0..Horizon
  BY DEF Seg, TypeOK
<1>2. Ago(s.ts) \in Int /\ Ago(s.resendts) \in Int
  BY <1>1, AgoType
<1>3. Period(s) \in Nat /\ Period(s) < Half /\ Half \in Nat /\ elapsed \in Nat
  BY <1>1, PeriodBounds, Scale DEF TimerOf
<1>4. 0 <= Ago(s.ts) /\ Ago(s.ts) <= elapsed /\ Ago(s.ts) - Ago(s.resendts) = Period(s)
  <2>1. -0 <= Ago(s.ts) /\ Ago(s.ts) <= elapsed
    BY DEF TimerOf, InTime
  <2> QED
    BY <1>2, <2>1 DEF TimerOf
<1> DEFINE a == Ago(s.ts)
           b == Ago(s.resendts)
           p == Period(s)
<1> HIDE DEF a, b, p
<1>5. b = a - p /\ -Half < b /\ b <= elapsed
  <2>1. a \in Int /\ b \in Int /\ p \in Nat /\ p < Half /\ 0 <= a /\ a <= elapsed /\ a - b = p
    BY <1>2, <1>3, <1>4 DEF a, b, p
  <2> QED
    BY <1>3, <2>1
<1> QED
  BY <1>1, <1>2, <1>3, <1>4, <1>5 DEF a, b, p

\* t is s, put on the wire now and to be repeated after `wait`.
LEMMA TransmitTime ==
    ASSUME Lifetime, TypeOK, NEW s \in Seg, NEW rto \in Nat, NEW wait \in Nat, 1 <= wait, wait < Half,
           rto <= RtoMax + 2 * elapsed,
           wait = IF s.xmit = 0 THEN FirstTimeout(rto) ELSE rto
    PROVE  LET t == Transmit(s, rto, wait) IN TimerOf(t) /\ Ago(t.resendts) < 0
<1> DEFINE next == Plus(now, wait)
           t == Transmit(s, rto, wait)
<1>1. now \in Word /\ elapsed \in Nat /\ s.xmit \in Nat
  BY Scale DEF TypeOK, Seg
<1>2. next \in Word /\ Ago(next) = -wait /\ Ago(now) = 0
  BY <1>1, AgoAhead
<1>3. t = [s EXCEPT !.xmit = s.xmit + 1, !.ts = now, !.rto = rto, !.resendts = next]
  BY DEF Transmit
<1> HIDE DEF next, t
<1>4. t.xmit = s.xmit + 1 /\ t.ts = now /\ t.rto = rto /\ t.resendts = next
  BY <1>3 DEF Seg
<1>5. Period(t) = wait
  <2>1. t.xmit = 1 <=> s.xmit = 0
    BY <1>1, <1>4
  <2> QED
    BY <1>4, <2>1 DEF Period
<1>6. t.xmit > 0
  BY <1>1, <1>4
<1>7. InTime(t.ts, 0)
  <2>1. -0 <= 0 /\ 0 <= elapsed
    BY <1>1
  <2> QED
    BY <1>1, <1>2, <1>4, <2>1 DEF InTime
<1>8. Ago(t.ts) - Ago(t.resendts) = Period(t)
  <2>1. 0 - (-wait) = wait
    OBVIOUS
  <2> QED
    BY <1>2, <1>4, <1>5, <2>1
<1>9. Ago(t.resendts) < 0
  BY <1>2, <1>4
<1> QED
  BY <1>4, <1>6, <1>7, <1>8, <1>9 DEF TimerOf, t

\* ikcp_flush leaves no segment whose time has come, and lengthens a timeout
\* only after it has been waited for.
LEMMA EmitTime ==
    ASSUME Lifetime, TypeOK, NEW s \in Seg, RtoMin <= s.rto, s.xmit = 0 \/ TimerOf(s)
    PROVE  /\ TimerOf(Emit(s)) /\ Ago(Emit(s).resendts) < 0
           /\ s.xmit > 0 /\ Emit(s).rto > s.rto => Ago(s.ts) >= s.rto
<1>1. /\ now \in Word /\ elapsed \in 0..Horizon /\ elapsed \in Nat /\ elapsed <= Horizon
      /\ est.rto \in Nat /\ est.rto <= RtoMax /\ RtoMin <= est.rto
      /\ s.xmit \in Nat /\ s.rto \in Nat
  BY Scale DEF TypeOK, Seg
<1>2. CASE s.xmit = 0
  <2> DEFINE r == est.rto
             wait == FirstTimeout(r)
  <2>1. wait \in {r, r + r \div 8}
    BY <1>1 DEF FirstTimeout
  <2>2. r \in Nat /\ r <= RtoMax /\ RtoMin <= r
    BY <1>1
  <2> HIDE DEF r
  <2>3. r \div 8 \in Nat /\ r \div 8 <= r
    BY <2>2
  <2> HIDE DEF wait
  <2>4. wait \in Nat /\ 1 <= wait /\ wait < Half /\ r <= RtoMax + 2 * elapsed
    BY <1>1, <2>1, <2>2, <2>3, Scale
  <2>5. Emit(s) = Transmit(s, r, wait)
    BY <1>2 DEF Emit, r, wait
  <2>6. wait = IF s.xmit = 0 THEN FirstTimeout(r) ELSE r
    BY <1>2 DEF wait
  <2> QED
    BY <1>2, <2>2, <2>4, <2>5, <2>6, TransmitTime
<1>3. CASE s.xmit # 0 /\ TimedOut(s)
  <2> DEFINE r == s.rto
             b == BackOff(s)
             a == Ago(s.ts)
             c == Ago(s.resendts)
             p == Period(s)
  <2>1. TimerOf(s) /\ 0 <= c
    BY <1>3 DEF TimedOut, Ago
  <2>2. c = a - p /\ a \in Int /\ c \in Int /\ p \in Nat /\ a <= elapsed /\ r <= p
    BY <1>1, <2>1, TimerRange, PeriodBounds DEF TimerOf
  <2>3. r \in Nat /\ b \in Nat /\ r <= b /\ 1 <= r
    <3>1. BackOff(s) \in Nat /\ BackOff(s) >= s.rto + RtoMin \div 2
      BY BackOffGrows DEF TypeOK
    <3>2. RtoMin \div 2 \in Nat
      BY HalfOfRto
    <3>3. s.rto <= BackOff(s)
      BY <1>1, <3>1, <3>2
    <3>4. 1 <= s.rto
      BY <1>1, Scale
    <3> QED
      BY <1>1, <3>1, <3>3, <3>4
  <2>4. b <= r + r \/ b <= r + est.rto
    <3>1. r \div 2 \in Nat /\ r \div 2 <= r /\ est.rto \div 2 \in Nat /\ est.rto \div 2 <= est.rto
      BY <1>1
    <3>2. b \in {r + r, r + est.rto, r + r \div 2, r + est.rto \div 2}
      BY <1>1 DEF BackOff, Larger
    <3> QED
      BY <1>1, <3>1, <3>2
  <2>5. Emit(s) = Transmit(s, b, b)
    BY <1>3 DEF Emit
  <2> HIDE DEF r, b, a, c, p
  <2>6. a >= r /\ b <= RtoMax + 2 * elapsed /\ b < Half /\ 1 <= b
    <3>1. r <= a /\ r <= elapsed
      BY <1>1, <2>1, <2>2, <2>3
    <3>2. b <= RtoMax + 2 * elapsed
      BY <1>1, <2>3, <2>4, <3>1, Scale
    <3> QED
      BY <1>1, <2>3, <3>1, <3>2, Scale
  <2>7. b = IF s.xmit = 0 THEN FirstTimeout(b) ELSE b
    BY <1>3
  <2>8. TimerOf(Emit(s)) /\ Ago(Emit(s).resendts) < 0
    BY <2>3, <2>5, <2>6, <2>7, TransmitTime
  <2> QED
    BY <2>6, <2>8 DEF a, r
<1>4. CASE s.xmit # 0 /\ ~TimedOut(s) /\ FastDue(s)
  <2> DEFINE u == [s EXCEPT !.fastack = 0]
             r == s.rto
  <2>1. u \in Seg /\ u.xmit = s.xmit
    BY DEF Seg
  <2>2. Emit(s) = Transmit(u, r, r)
    BY <1>4 DEF Emit
  <2> HIDE DEF u
  <2>3. TimerOf(s)
    BY <1>4
  <2>4. r \in Nat /\ 1 <= r /\ r < Half /\ r <= RtoMax + 2 * elapsed
    BY <1>1, <2>3, PeriodBounds DEF TimerOf
  <2>5. r = IF u.xmit = 0 THEN FirstTimeout(r) ELSE r
    BY <1>4, <2>1
  <2>6. TimerOf(Emit(s)) /\ Ago(Emit(s).resendts) < 0
    BY <2>1, <2>2, <2>4, <2>5, TransmitTime
  <2>7. Emit(s).rto = s.rto
    <3>1. now \in Word
      BY <1>1
    <3>2. Again(Transmit(u, r, r), u, r)
      BY <2>1, <2>4, <3>1, TransmitType, Zenon
    <3> QED
      BY <2>2, <3>2 DEF Again
  <2> QED
    BY <1>1, <2>6, <2>7
<1>5. CASE s.xmit # 0 /\ ~TimedOut(s) /\ ~FastDue(s)
  <2>1. Emit(s) = s /\ TimerOf(s)
    BY <1>5 DEF Emit
  <2>2. ~(0 <= Ago(s.resendts)) /\ Ago(s.resendts) \in Int
    BY <1>1, <1>5, <2>1, TimerRange DEF TimedOut, Ago
  <2> QED
    BY <1>1, <2>1, <2>2
<1> QED
  BY <1>2, <1>3, <1>4, <1>5

\* When the flush is due, and the next one after it.
LEMMA FlushTimeAgo ==
    ASSUME Lifetime, TypeOK, updated => InTime(ts_flush, Interval)
    PROVE  /\ ~FlushDue => updated /\ Ago(ts_flush) < 0
           /\ FlushDue => /\ NextFlush \in Word
                           /\ -Interval <= Ago(NextFlush) /\ Ago(NextFlush) < 0
<1>1. now \in Word /\ ts_flush \in Word /\ Half \in Nat
      /\ Interval \in Nat /\ 1 <= Interval /\ Interval < SlapLimit /\ SlapLimit \in Nat /\ SlapLimit < Half
  BY Scale DEF TypeOK
<1> DEFINE f == FlushTime
           i == Interval
<1>2. Ago(ts_flush) \in Int /\ Ago(now) = 0
  BY <1>1, AgoType, AgoAhead
<1>3. /\ f \in Word /\ Ago(f) \in Int /\ -i <= Ago(f) /\ Ago(f) < SlapLimit
      /\ f = now \/ (updated /\ f = ts_flush)
  <2>1. CASE f = now
    BY <1>1, <1>2, <2>1
  <2>2. CASE f # now
    <3>1. updated /\ f = ts_flush /\ ~(Ago(ts_flush) >= SlapLimit)
      BY <2>2 DEF FlushTime, Ago
    <3>2. -i <= Ago(ts_flush)
      BY <3>1 DEF InTime
    <3> QED
      BY <1>1, <1>2, <3>1, <3>2
  <2> QED
    BY <2>1, <2>2
<1>4. FlushDue <=> Ago(f) >= 0
  BY DEF FlushDue, Ago
<1>5. ~FlushDue => updated /\ Ago(ts_flush) < 0
  BY <1>2, <1>3, <1>4
<1> DEFINE n == Plus(f, i)
           a == Ago(f)
           b == Ago(n)
<1>6. ASSUME FlushDue
      PROVE  NextFlush \in Word /\ -Interval <= Ago(NextFlush) /\ Ago(NextFlush) < 0
  <2>1. a \in Int /\ 0 <= a /\ i \in Nat /\ i < Half
    BY <1>1, <1>3, <1>4, <1>6
  <2>2. n \in Word /\ b = a - i
    <3>1. f \in Int /\ i \in Int
      BY <1>1, <1>3, WordIsInt
    <3>2. n \in Word
      BY <3>1, PlusIsWord
    <3>3. -Half <= a - i
      <4> HIDE DEF a, i
      <4> QED
        BY <1>1, <2>1
    <3> QED
      BY <1>1, <1>3, <3>2, <3>3, StampAdvances DEF Ago
  <2>3. NextFlush = IF b >= 0 THEN Plus(now, i) ELSE n
    BY DEF NextFlush, Ago
  <2>4. Plus(now, i) \in Word /\ Ago(Plus(now, i)) = -i
    BY <1>1, <2>1, AgoAhead
  <2> HIDE DEF a
  <2>5. CASE b >= 0
    <3>1. NextFlush = Plus(now, i) /\ -i < 0
      BY <1>1, <2>3, <2>5
    <3> QED
      BY <1>1, <2>4, <3>1
  <2>6. CASE ~(b >= 0)
    <3>1. NextFlush = n
      BY <2>3, <2>6
    <3>2. -i <= b /\ b < 0
      <4> HIDE DEF b, i
      <4> QED
        BY <2>1, <2>2, <2>6
    <3> QED
      BY <2>2, <3>1, <3>2
  <2> QED
    BY <2>5, <2>6
<1> QED
  BY <1>5, <1>6

\* What ikcp_check answers is not after the next flush.
LEMMA WakeTime ==
    ASSUME Lifetime, now' \in Word, ts_flush' \in Word, snd_buf' \in SUBSET Seg,
           updated', wake' \in IkcpCheck',
           -Interval <= TimeDiff(now', ts_flush'), TimeDiff(now', ts_flush') < 0
    PROVE  /\ wake' \in Word
           /\ TimeDiff(now', wake') \in Int
           /\ -Interval <= TimeDiff(now', wake') /\ TimeDiff(now', wake') <= 0
           /\ TimeDiff(now', wake') < 0 => TimeDiff(now', ts_flush') <= TimeDiff(now', wake')
<1> DEFINE a == TimeDiff(now', ts_flush')
           b == TimeDiff(now', wake')
           i == Interval
           timers == {TimeDiff(s.resendts, now') : s \in snd_buf'}
           waits == {i, -a} \cup timers
<1>1. /\ Half \in Nat /\ i \in Nat /\ 1 <= i /\ i < SlapLimit /\ SlapLimit \in Nat /\ SlapLimit < Half
      /\ a \in Int /\ -i <= a /\ a < 0
  BY Scale, WordAfter
<1>2. FlushTime' = ts_flush' /\ ~FlushDue'
  <2>1. ~(a >= SlapLimit) /\ ~(a < -SlapLimit) /\ ~(a >= 0)
    BY <1>1
  <2>2. FlushTime' = ts_flush'
    BY <2>1 DEF FlushTime
  <2> QED
    BY <2>1, <2>2 DEF FlushDue
<1>3. TimeDiff(FlushTime', now') = -a
  <2>1. -Half < TimeDiff(now', ts_flush')
    BY <1>1
  <2> QED
    BY <1>2, <2>1, DiffTurned
<1>4. CASE wake' = now'
  <2>1. b = 0
    BY <1>4, DiffSelf
  <2> QED
    BY <1>1, <1>4, <2>1
<1>5. CASE wake' # now'
  <2>1. ~(\E t \in timers : t <= 0)
    BY <1>5 DEF IkcpCheck
  <2>2. PICK w \in waits : wake' = Plus(now', w) /\ \A u \in waits : w <= u
    BY <1>2, <1>3, <1>5 DEF IkcpCheck
  <2>3. timers \subseteq Int
    <3> SUFFICES ASSUME NEW s \in snd_buf' PROVE TimeDiff(s.resendts, now') \in Int
      OBVIOUS
    <3>1. s \in Seg
      OBVIOUS
    <3>2. s.resendts \in Word
      BY <3>1 DEF Seg
    <3> QED
      BY <3>2, WordAfter
  <2>4. w \in Nat /\ 1 <= w /\ w <= i /\ w <= -a
    <3>1. w <= i /\ w <= -a
      BY <2>2
    <3>2. w \in timers => w \in Int /\ ~(w <= 0)
      BY <2>1, <2>3
    <3>3. w = i \/ w = -a \/ w \in timers
      BY <2>2
    <3> HIDE DEF timers, waits, a, i
    <3> QED
      BY <1>1, <3>1, <3>2, <3>3
  <2>5. w < Half
    BY <1>1, <2>4
  <2>6. wake' \in Word /\ b = -w
    BY <2>2, <2>4, <2>5, StampAhead
  <2> HIDE DEF a, b
  <2>7. b \in Int /\ -i <= b /\ b <= 0 /\ a <= b
    BY <1>1, <2>4, <2>6
  <2> QED
    BY <2>6, <2>7 DEF a, b
<1> QED
  BY <1>4, <1>5

-----------------------------------------------------------------------------
(* One segment under each number. *)

LEMMA EmitSn ==
    ASSUME IInv, NEW s \in snd_buf \cup NewSegs
    PROVE  /\ s \in Seg /\ RtoMin <= s.rto /\ s.sn \in Nat /\ Emit(s) \in Seg /\ Emit(s).sn = s.sn
           /\ RtoMin <= Emit(s).rto
           /\ s \in snd_buf => s.sn < snd_nxt
           /\ s \in NewSegs => snd_nxt <= s.sn
<1>1. TypeOK
  BY DEF IInv
<1>2. /\ s \in Seg /\ RtoMin <= s.rto /\ BackedOff(s)
      /\ s \in snd_buf => s.sn < snd_nxt
      /\ s \in NewSegs => snd_nxt <= s.sn
  BY <1>1, SegsOfBuf, NewSegsEffect
<1>3. Emit(s) \in Seg /\ Emit(s).sn = s.sn /\ RtoMin <= Emit(s).rto
  BY <1>1, <1>2, EmitEffect
<1>4. s.sn \in Nat
  BY <1>2 DEF Seg
<1> QED
  BY <1>2, <1>3, <1>4

LEMMA SnIsUnique ==
    ASSUME IInv, OneEach, NEW s \in snd_buf \cup NewSegs, NEW t \in snd_buf \cup NewSegs, s.sn = t.sn
    PROVE  s = t
<1>1. /\ s.sn \in Nat /\ t.sn \in Nat /\ snd_nxt \in Nat
      /\ s \in snd_buf => s.sn < snd_nxt
      /\ s \in NewSegs => snd_nxt <= s.sn
      /\ t \in snd_buf => t.sn < snd_nxt
      /\ t \in NewSegs => snd_nxt <= t.sn
  BY EmitSn DEF IInv, TypeOK
<1>2. CASE s \in snd_buf /\ t \in snd_buf
  BY <1>2 DEF OneEach
<1>3. CASE s \in NewSegs /\ t \in NewSegs
  <2>1. PICK m : s = [sn |-> m, ts |-> now, resendts |-> now, rto |-> est.rto,
                      fastack |-> 0, xmit |-> 0]
    BY <1>3 DEF NewSegs
  <2>2. PICK n : t = [sn |-> n, ts |-> now, resendts |-> now, rto |-> est.rto,
                      fastack |-> 0, xmit |-> 0]
    BY <1>3 DEF NewSegs
  <2>3. s.sn = m /\ t.sn = n
    BY <2>1, <2>2
  <2> QED
    BY <2>1, <2>2, <2>3
<1>4. ~(s \in snd_buf /\ t \in NewSegs) /\ ~(s \in NewSegs /\ t \in snd_buf)
  BY <1>1
<1> QED
  BY <1>2, <1>3, <1>4

-----------------------------------------------------------------------------
(* The steps. *)

LEMMA FlushTimers ==
    ASSUME Lifetime, TInv, NEW t \in {Emit(s) : s \in snd_buf \cup NewSegs}
    PROVE  TimerOf(t) /\ Ago(t.resendts) < 0
<1>1. PICK s \in snd_buf \cup NewSegs : t = Emit(s)
  OBVIOUS
<1>2. IInv /\ TypeOK
  BY DEF TInv, IInv
<1>3. s \in Seg /\ RtoMin <= s.rto
  BY <1>2, EmitSn
<1>4. s.xmit = 0 \/ TimerOf(s)
  <2>1. CASE s \in snd_buf
    BY <2>1 DEF TInv, SegsInTime
  <2>2. CASE s \in NewSegs
    <3>1. PICK n : s = [sn |-> n, ts |-> now, resendts |-> now, rto |-> est.rto,
                        fastack |-> 0, xmit |-> 0]
      BY <2>2 DEF NewSegs
    <3> QED
      BY <3>1
  <2> QED
    BY <2>1, <2>2
<1> QED
  BY <1>1, <1>2, <1>3, <1>4, EmitTime

LEMMA ProbeTime ==
    ASSUME Lifetime, TInv, IkcpProbe, probe_wait' > 0
    PROVE  ts_probe' \in Word /\ -probe_wait' <= Ago(ts_probe') /\ Ago(ts_probe') < 0
<1>1. /\ now \in Word /\ probe_wait \in Nat /\ probe_wait <= ProbeLimit
      /\ ProbeInit \in Nat /\ 1 <= ProbeInit /\ ProbeInit <= ProbeLimit
      /\ ProbeLimit \in Nat /\ ProbeLimit < Half /\ Half \in Nat
  BY Scale, TimerAssumption DEF TInv, IInv, TypeOK
<1>2. ASSUME NEW w \in Nat, 1 <= w, w <= ProbeLimit, probe_wait' = w, ts_probe' = Plus(now, w)
      PROVE  ts_probe' \in Word /\ -probe_wait' <= Ago(ts_probe') /\ Ago(ts_probe') < 0
  <2>1. w < Half
    BY <1>1, <1>2
  <2>2. ts_probe' \in Word /\ Ago(ts_probe') = -w
    BY <1>1, <1>2, <2>1, AgoAhead
  <2>3. -w <= -w /\ -w < 0
    BY <1>2
  <2> QED
    BY <1>2, <2>2, <2>3
<1> DEFINE next == Smaller(ProbeLimit, probe_wait + probe_wait \div 2)
<1>3. \/ probe_wait' = 0
      \/ probe_wait' = ProbeInit /\ ts_probe' = Plus(now, ProbeInit)
      \/ probe_wait # 0 /\ probe_wait' = next /\ ts_probe' = Plus(now, next)
      \/ /\ ~(Ago(ts_probe) >= 0) /\ probe_wait # 0
         /\ probe_wait' = probe_wait /\ ts_probe' = ts_probe
  BY DEF IkcpProbe, Ago
<1>4. CASE probe_wait' = ProbeInit /\ ts_probe' = Plus(now, ProbeInit)
  BY <1>1, <1>2, <1>4
<1>5. CASE probe_wait # 0 /\ probe_wait' = next /\ ts_probe' = Plus(now, next)
  <2>1. next \in Nat /\ 1 <= next /\ next <= ProbeLimit
    BY <1>1, <1>5 DEF Smaller
  <2> HIDE DEF next
  <2> QED
    BY <1>2, <1>5, <2>1
<1>6. CASE /\ ~(Ago(ts_probe) >= 0) /\ probe_wait # 0
           /\ probe_wait' = probe_wait /\ ts_probe' = ts_probe
  <2>1. InTime(ts_probe, probe_wait)
    BY <1>1, <1>6 DEF TInv, ProbeInTime
  <2>2. ts_probe \in Word /\ -probe_wait <= Ago(ts_probe) /\ Ago(ts_probe) \in Int
    BY <1>1, <2>1, AgoType DEF InTime
  <2>3. Ago(ts_probe) < 0
    BY <1>6, <2>2
  <2> QED
    BY <1>6, <2>2, <2>3
<1> QED
  BY <1>1, <1>3, <1>4, <1>5, <1>6

\* What an ikcp_update leaves, flush or not.
LEMMA UpdateTimes ==
    ASSUME Lifetime, TInv, IkcpUpdate
    PROVE  /\ ts_flush' \in Word /\ -Interval <= Ago(ts_flush') /\ Ago(ts_flush') < 0
           /\ \A t \in snd_buf' : TimerOf(t) /\ Ago(t.resendts) < Ago(ts_flush') + Interval
           /\ probe_wait' > 0 => /\ ts_probe' \in Word
                                 /\ -probe_wait' <= Ago(ts_probe') /\ Ago(ts_probe') <= elapsed
                                 /\ Ago(ts_probe') < Ago(ts_flush') + Interval
           /\ OneEach'
<1>1. IInv /\ TypeOK /\ OneEach /\ now \in Word /\ ts_flush \in Word /\ elapsed \in Nat
      /\ Interval \in Nat
  BY Scale DEF TInv, IInv, TypeOK
<1>2. updated => InTime(ts_flush, Interval)
  BY DEF TInv, UpdateInTime
<1>3. /\ ~FlushDue => updated /\ Ago(ts_flush) < 0
      /\ FlushDue => NextFlush \in Word /\ -Interval <= Ago(NextFlush) /\ Ago(NextFlush) < 0
  BY <1>1, <1>2, FlushTimeAgo
<1>4. CASE FlushDue
  <2>1. /\ ts_flush' = NextFlush /\ IkcpProbe
        /\ snd_buf' = {Emit(s) : s \in snd_buf \cup NewSegs}
    BY <1>4 DEF IkcpUpdate, IkcpFlush
  <2>2. ts_flush' \in Word /\ -Interval <= Ago(ts_flush') /\ Ago(ts_flush') < 0
    BY <1>3, <1>4, <2>1
  <2>3. Ago(ts_flush') \in Int
    BY <1>1, <2>2, AgoType
  <2>4. 0 <= Ago(ts_flush') + Interval
    BY <1>1, <2>2, <2>3
  <2>5. ASSUME NEW t \in snd_buf'
        PROVE  TimerOf(t) /\ Ago(t.resendts) < Ago(ts_flush') + Interval
    <3>1. TimerOf(t) /\ Ago(t.resendts) < 0
      BY <2>1, FlushTimers
    <3>2. t \in Seg
      BY <1>1, <2>1, EmitSn
    <3>3. Ago(t.resendts) \in Int
      BY <1>1, <3>2, AgoType DEF Seg
    <3> QED
      BY <1>1, <2>3, <2>4, <3>1, <3>3
  <2>6. ASSUME probe_wait' > 0
        PROVE  /\ ts_probe' \in Word
               /\ -probe_wait' <= Ago(ts_probe') /\ Ago(ts_probe') <= elapsed
               /\ Ago(ts_probe') < Ago(ts_flush') + Interval
    <3>1. ts_probe' \in Word /\ -probe_wait' <= Ago(ts_probe') /\ Ago(ts_probe') < 0
      BY <2>1, <2>6, ProbeTime
    <3>2. Ago(ts_probe') \in Int
      BY <1>1, <3>1, AgoType
    <3> QED
      BY <1>1, <2>3, <2>4, <3>1, <3>2
  <2>7. OneEach'
    <3> SUFFICES ASSUME NEW t \in snd_buf', NEW u \in snd_buf', t.sn = u.sn PROVE t = u
      BY DEF OneEach
    <3>1. PICK s \in snd_buf \cup NewSegs : t = Emit(s)
      BY <2>1
    <3>2. PICK r \in snd_buf \cup NewSegs : u = Emit(r)
      BY <2>1
    <3>3. s.sn = r.sn
      BY <1>1, <3>1, <3>2, EmitSn
    <3>4. s = r
      BY <1>1, <3>3, SnIsUnique
    <3> QED
      BY <3>1, <3>2, <3>4
  <2> QED
    BY <2>2, <2>5, <2>6, <2>7
<1>5. CASE ~FlushDue
  <2>1. /\ ts_flush' = ts_flush /\ snd_buf' = snd_buf
        /\ probe_wait' = probe_wait /\ ts_probe' = ts_probe
    BY <1>5 DEF IkcpUpdate, probeVars
  <2>2. updated /\ Ago(ts_flush) < 0
    BY <1>3, <1>5
  <2>3. -Interval <= Ago(ts_flush)
    BY <1>2, <2>2 DEF InTime
  <2>4. \A t \in snd_buf : TimerOf(t) /\ Ago(t.resendts) < Ago(ts_flush) + Interval
    BY DEF TInv, SegsInTime, Served
  <2>5. probe_wait > 0 => /\ ts_probe \in Word
                          /\ -probe_wait <= Ago(ts_probe) /\ Ago(ts_probe) <= elapsed
                          /\ Ago(ts_probe) < Ago(ts_flush) + Interval
    BY DEF TInv, ProbeInTime, InTime, Served
  <2>6. OneEach'
    BY <1>1, <2>1 DEF OneEach
  <2> QED
    BY <1>1, <2>1, <2>2, <2>3, <2>4, <2>5, <2>6
<1> QED
  BY <1>4, <1>5

LEMMA UpdateTInv == Lifetime /\ TInv /\ IkcpUpdate => TInv'
<1> SUFFICES ASSUME Lifetime, TInv, IkcpUpdate PROVE TInv'
  OBVIOUS
<1>1. IInv /\ IInv'
  BY UpdateIInv DEF TInv
<1>2. /\ current' = now /\ updated' = TRUE /\ late' = FALSE /\ now' = now /\ elapsed' = elapsed
      /\ wake' \in IkcpCheck'
  BY DEF IkcpUpdate, clock
<1>3. /\ now \in Word /\ elapsed \in Nat /\ snd_buf' \in SUBSET Seg
      /\ Interval \in Nat /\ Half \in Nat /\ 1 <= Half
  BY <1>1, Scale, HalfAssumption DEF IInv, TypeOK
<1>4. /\ ts_flush' \in Word /\ -Interval <= Ago(ts_flush') /\ Ago(ts_flush') < 0
      /\ \A t \in snd_buf' : TimerOf(t) /\ Ago(t.resendts) < Ago(ts_flush') + Interval
      /\ probe_wait' > 0 => /\ ts_probe' \in Word
                            /\ -probe_wait' <= Ago(ts_probe') /\ Ago(ts_probe') <= elapsed
                            /\ Ago(ts_probe') < Ago(ts_flush') + Interval
      /\ OneEach'
  BY UpdateTimes
<1>5. \A x : TimeDiff(now', x) = Ago(x)
  BY <1>2 DEF Ago
<1>6. /\ wake' \in Word /\ Ago(wake') \in Int
      /\ -Interval <= Ago(wake') /\ Ago(wake') <= 0
      /\ Ago(wake') < 0 => Ago(ts_flush') <= Ago(wake')
  BY <1>2, <1>3, <1>4, <1>5, WakeTime
<1>7. Ago(current') = 0 /\ Ago(ts_flush') \in Int
  BY <1>2, <1>3, <1>4, AgoType, DiffSelf DEF Ago
<1>8. UpdateInTime'
  <2>1. Ago(ts_flush') <= elapsed /\ Ago(wake') <= elapsed /\ -0 <= 0 /\ 0 <= elapsed
    BY <1>3, <1>4, <1>6, <1>7
  <2>2. /\ current' \in Word /\ -0 <= Ago(current') /\ Ago(current') <= elapsed
    BY <1>2, <1>3, <1>7, <2>1
  <2> QED
    BY <1>2, <1>4, <1>5, <1>6, <2>1, <2>2 DEF UpdateInTime, InTime, Ago
<1>9. CallerKnows'
  <2>1. Ago(ts_flush') <= 0
    BY <1>4, <1>7
  <2> QED
    BY <1>5, <1>6, <2>1 DEF CallerKnows, Ago
<1>10. SegsInTime'
  <2>1. ASSUME NEW t, TimerOf(t) PROVE TimerOf(t)'
    BY <1>2, <2>1 DEF TimerOf, InTime, Ago
  <2> QED
    BY <1>2, <1>4, <1>5, <2>1 DEF SegsInTime, Served, Ago
<1>11. ProbeInTime'
  BY <1>2, <1>4, <1>5 DEF ProbeInTime, InTime, Served, Ago
<1> QED
  BY <1>1, <1>4, <1>8, <1>9, <1>10, <1>11 DEF TInv

\* A step that touches no timer.
LEMMA TimersKept ==
    ASSUME TInv, IInv',
           now' = now, elapsed' = elapsed, current' = current, updated' = updated,
           ts_flush' = ts_flush, wake' = wake, late' = late,
           probe_wait' = probe_wait, ts_probe' = ts_probe, OneEach',
           \A t \in snd_buf' : \E s \in snd_buf :
              t.ts = s.ts /\ t.resendts = s.resendts /\ t.rto = s.rto /\ t.xmit = s.xmit
    PROVE  TInv'
<1>1. UpdateInTime' /\ CallerKnows' /\ ProbeInTime'
  BY DEF TInv, UpdateInTime, CallerKnows, ProbeInTime, InTime, Served, Ago
<1>2. SegsInTime'
  <2> SUFFICES ASSUME NEW t \in snd_buf' PROVE updated' /\ TimerOf(t)' /\ Served(t.resendts)'
    BY DEF SegsInTime
  <2>1. PICK s \in snd_buf :
           t.ts = s.ts /\ t.resendts = s.resendts /\ t.rto = s.rto /\ t.xmit = s.xmit
    OBVIOUS
  <2>2. updated /\ TimerOf(s) /\ Served(s.resendts)
    BY DEF TInv, SegsInTime
  <2>3. Period(t) = Period(s)
    BY <2>1 DEF Period
  <2> QED
    BY <2>1, <2>2, <2>3 DEF TimerOf, InTime, Served, Ago
<1> QED
  BY <1>1, <1>2 DEF TInv

LEMMA InputTInv ==
    ASSUME TInv, Input
    PROVE  /\ TInv'
           /\ \A t \in snd_buf' : \E s \in snd_buf : t.sn = s.sn /\ t.ts = s.ts /\ t.rto = s.rto
<1>1. IInv /\ OneEach /\ IInv'
  BY StepIInv DEF TInv, Next
<1>2. CASE InputEnd
  <2>1. /\ snd_buf' = {ParseFastack(s) : s \in snd_buf}
        /\ now' = now /\ elapsed' = elapsed /\ current' = current /\ updated' = updated
        /\ ts_flush' = ts_flush /\ wake' = wake /\ late' = late
        /\ probe_wait' = probe_wait /\ ts_probe' = ts_probe
    BY <1>2 DEF InputEnd, clock, flush, probeVars, caller
  <2>2. \A s \in snd_buf : s \in Seg
    BY <1>1, SegsOfBuf
  <2>3. \A t \in snd_buf' : \E s \in snd_buf :
           /\ t = ParseFastack(s) /\ t.sn = s.sn /\ t.ts = s.ts /\ t.resendts = s.resendts
           /\ t.rto = s.rto /\ t.xmit = s.xmit
    BY <2>1, <2>2, ParseFastackEffect
  <2>4. OneEach'
    <3> SUFFICES ASSUME NEW t \in snd_buf', NEW u \in snd_buf', t.sn = u.sn PROVE t = u
      BY DEF OneEach
    <3>1. PICK s \in snd_buf : t = ParseFastack(s) /\ t.sn = s.sn
      BY <2>3
    <3>2. PICK r \in snd_buf : u = ParseFastack(r) /\ u.sn = r.sn
      BY <2>3
    <3>3. s = r
      BY <1>1, <3>1, <3>2 DEF OneEach
    <3> QED
      BY <3>1, <3>2, <3>3
  <2>5. \A t \in snd_buf' : \E s \in snd_buf :
           t.ts = s.ts /\ t.resendts = s.resendts /\ t.rto = s.rto /\ t.xmit = s.xmit
    BY <2>3
  <2>6. TInv'
    BY <1>1, <2>1, <2>4, <2>5, TimersKept
  <2> QED
    BY <2>3, <2>6
<1>3. CASE ~InputEnd
  <2>1. /\ snd_buf' \subseteq snd_buf
        /\ now' = now /\ elapsed' = elapsed /\ current' = current /\ updated' = updated
        /\ ts_flush' = ts_flush /\ wake' = wake /\ late' = late
        /\ probe_wait' = probe_wait /\ ts_probe' = ts_probe
    BY <1>3 DEF Input, InputOther, InputAck, InputHeader, clock, flush, probeVars, caller
  <2>2. OneEach'
    BY <1>1, <2>1 DEF OneEach
  <2>3. \A t \in snd_buf' : \E s \in snd_buf :
           t.ts = s.ts /\ t.resendts = s.resendts /\ t.rto = s.rto /\ t.xmit = s.xmit
    BY <2>1
  <2>4. TInv'
    BY <1>1, <2>1, <2>2, <2>3, TimersKept
  <2> QED
    BY <2>1, <2>4
<1> QED
  BY <1>2, <1>3

\* Time passes, for a caller that still keeps to its time or for one that is late.
LEMMA PassTInv ==
    ASSUME Lifetime, TInv, IInv', NEW k \in Nat, elapsed + k <= Horizon,
           now' = Plus(now, k), elapsed' = elapsed + k,
           updated /\ ~late' =>
              ~late /\ k = 1 /\ (Ago(wake) < 0 \/ Ago(current) = 0),
           UNCHANGED <<current, updated, ts_flush, wake, probe_wait, ts_probe, snd_buf>>
    PROVE  TInv'
<1>1. now \in Word /\ elapsed \in Nat /\ elapsed \in 0..Horizon /\ IInv /\ TypeOK
  BY Scale DEF TInv, IInv, TypeOK
<1>2. \A x \in Word : Ago(x) <= elapsed => TimeDiff(now', x) = Ago(x) + k
  BY <1>1, AgoGrows
<1>3. ASSUME NEW x, NEW n \in Nat, InTime(x, n)
      PROVE  /\ x \in Word /\ Ago(x) \in Int /\ TimeDiff(now', x) = Ago(x) + k
             /\ -n <= Ago(x) /\ -n <= Ago(x) + k /\ Ago(x) + k <= elapsed'
  <2>1. x \in Word /\ -n <= Ago(x) /\ Ago(x) <= elapsed /\ Ago(x) \in Int
    BY <1>1, <1>3, AgoType DEF InTime
  <2>2. -n <= Ago(x) + k /\ Ago(x) + k <= elapsed'
    BY <1>1, <2>1
  <2> QED
    BY <1>2, <2>1, <2>2
<1>4. Interval \in Nat /\ 0 \in Nat
  BY Scale
<1>5. updated => InTime(current, 0) /\ InTime(ts_flush, Interval) /\ InTime(wake, Interval)
  BY DEF TInv, UpdateInTime
<1>6. UpdateInTime'
  <2> SUFFICES ASSUME updated
               PROVE  /\ InTime(current, 0)' /\ InTime(ts_flush, Interval)' /\ InTime(wake, Interval)'
                      /\ TimeDiff(now', current) = 0 => TimeDiff(now', ts_flush) < 0
    BY DEF UpdateInTime, Ago
  <2>1. InTime(current, 0)' /\ InTime(ts_flush, Interval)' /\ InTime(wake, Interval)'
    BY <1>3, <1>4, <1>5 DEF InTime, Ago
  <2>2. ASSUME TimeDiff(now', current) = 0 PROVE TimeDiff(now', ts_flush) < 0
    <3> DEFINE c == Ago(current)
               f == Ago(ts_flush)
    <3>1. c \in Int /\ TimeDiff(now', current) = c + k /\ 0 <= c
      <4>1. c \in Int /\ TimeDiff(now', current) = c + k /\ -0 <= c
        BY <1>3, <1>4, <1>5
      <4> QED
        BY <4>1
    <3>2. f \in Int /\ TimeDiff(now', ts_flush) = f + k
      BY <1>3, <1>4, <1>5
    <3>3. c = 0 => f < 0
      BY DEF TInv, UpdateInTime
    <3> HIDE DEF c, f
    <3>4. c = 0 /\ k = 0
      BY <2>2, <3>1
    <3> QED
      BY <3>2, <3>3, <3>4
  <2> QED
    BY <2>1, <2>2
<1>7. CallerKnows'
  <2> SUFFICES ASSUME updated, ~late'
               PROVE  /\ TimeDiff(now', ts_flush) <= 0
                      /\ TimeDiff(now', wake) < 0 =>
                            TimeDiff(now', ts_flush) <= TimeDiff(now', wake)
    BY DEF CallerKnows, Ago
  <2> DEFINE w == Ago(wake)
             f == Ago(ts_flush)
  <2>1. ~late /\ k = 1 /\ (w < 0 \/ Ago(current) = 0)
    OBVIOUS
  <2>2. w \in Int /\ f \in Int /\ TimeDiff(now', wake) = w + k /\ TimeDiff(now', ts_flush) = f + k
    BY <1>3, <1>4, <1>5
  <2>3. f <= 0 /\ (w < 0 => f <= w) /\ (Ago(current) = 0 => f < 0)
    BY <2>1 DEF TInv, UpdateInTime, CallerKnows
  <2> HIDE DEF w, f
  <2>4. f < 0
    BY <2>1, <2>2, <2>3
  <2> QED
    BY <2>1, <2>2, <2>3, <2>4
<1>8. ASSUME NEW x \in Word, updated, Ago(x) <= elapsed, Served(x) PROVE Served(x)'
  <2> DEFINE a == Ago(x)
             f == Ago(ts_flush)
  <2>1. f \in Int /\ TimeDiff(now', ts_flush) = f + k
    BY <1>3, <1>4, <1>5, <1>8
  <2>2. a \in Int /\ TimeDiff(now', x) = a + k /\ a < f + Interval
    BY <1>1, <1>2, <1>8, AgoType DEF Served
  <2>3. Served(x)' <=> TimeDiff(now', x) < TimeDiff(now', ts_flush) + Interval
    BY DEF Served, Ago
  <2> HIDE DEF a, f
  <2> QED
    BY <1>4, <2>1, <2>2, <2>3
<1>9. SegsInTime'
  <2> SUFFICES ASSUME NEW s \in snd_buf PROVE updated /\ TimerOf(s)' /\ Served(s.resendts)'
    BY DEF SegsInTime
  <2>1. s \in Seg /\ RtoMin <= s.rto /\ updated /\ TimerOf(s) /\ Served(s.resendts)
    BY <1>1, SegsOfBuf DEF TInv, SegsInTime
  <2>2. /\ s.resendts \in Word /\ Ago(s.resendts) <= elapsed /\ Ago(s.resendts) \in Int
        /\ Ago(s.ts) \in Int
    BY <1>1, <2>1, TimerRange
  <2>3. Served(s.resendts)'
    BY <1>8, <2>1, <2>2
  <2>4. InTime(s.ts, 0)' /\ TimeDiff(now', s.ts) = Ago(s.ts) + k
    BY <1>3, <1>4, <2>1 DEF TimerOf, InTime, Ago
  <2>5. TimeDiff(now', s.resendts) = Ago(s.resendts) + k
    BY <1>2, <2>2
  <2>6. TimeDiff(now', s.ts) - TimeDiff(now', s.resendts) = Period(s)
    <3> DEFINE a == Ago(s.ts)
               b == Ago(s.resendts)
    <3>1. a - b = Period(s)
      BY <2>1 DEF TimerOf
    <3> HIDE DEF a, b
    <3>2. a \in Int /\ b \in Int /\ TimeDiff(now', s.ts) = a + k /\ TimeDiff(now', s.resendts) = b + k
      BY <2>2, <2>4, <2>5 DEF a, b
    <3>3. (a + k) - (b + k) = a - b
      BY <3>2
    <3> QED
      BY <3>1, <3>2, <3>3
  <2>7. s.rto <= RtoMax + 2 * elapsed'
    <3>1. s.rto \in Nat /\ s.rto <= RtoMax + 2 * elapsed
      BY <2>1 DEF TimerOf, Seg
    <3> QED
      BY <1>1, <3>1, Scale
  <2>8. TimerOf(s)'
    BY <2>1, <2>4, <2>6, <2>7 DEF TimerOf, Ago
  <2> QED
    BY <2>1, <2>3, <2>8
<1>10. ProbeInTime'
  <2> SUFFICES ASSUME probe_wait > 0
               PROVE  updated /\ InTime(ts_probe, probe_wait)' /\ Served(ts_probe)'
    BY DEF ProbeInTime
  <2>1. probe_wait \in Nat /\ updated /\ InTime(ts_probe, probe_wait) /\ Served(ts_probe)
    BY <1>1, Scale DEF TInv, ProbeInTime, TypeOK
  <2>2. InTime(ts_probe, probe_wait)'
    BY <1>3, <2>1 DEF InTime, Ago
  <2>3. Served(ts_probe)'
    <3>1. ts_probe \in Word /\ Ago(ts_probe) <= elapsed
      BY <2>1 DEF InTime
    <3>2. \A x \in Word : Ago(x) <= elapsed /\ Served(x) => TimeDiff(now', x) < TimeDiff(now', ts_flush) + Interval
      BY <1>8, <2>1 DEF Served, Ago
    <3>3. TimeDiff(now', ts_probe) < TimeDiff(now', ts_flush) + Interval
      BY <2>1, <3>1, <3>2
    <3> QED
      BY <3>3 DEF Served, Ago
  <2> QED
    BY <2>1, <2>2, <2>3
<1>11. OneEach'
  BY DEF TInv, OneEach
<1> QED
  BY <1>6, <1>7, <1>9, <1>10, <1>11 DEF TInv

LEMMA StallTInv == Lifetime /\ TInv /\ Stall => TInv'
<1> SUFFICES ASSUME Lifetime, TInv, Stall PROVE TInv'
  OBVIOUS
<1>1. IInv'
  BY StepIInv DEF TInv, Next
<1>2. PICK d \in Stalls : elapsed + d <= Horizon /\ now' = Plus(now, d) /\ elapsed' = elapsed + d
  BY DEF Stall
<1>3. d \in Nat
  BY TimerAssumption
<1>4. late' /\ UNCHANGED <<current, updated, ts_flush, wake, probe_wait, ts_probe, snd_buf>>
  BY DEF Stall, engine, flush, sndVars, probeVars
<1> QED
  BY <1>1, <1>2, <1>3, <1>4, PassTInv

LEMMA TickTInv == Lifetime /\ TInv /\ Tick => TInv'
<1> SUFFICES ASSUME Lifetime, TInv, Tick PROVE TInv'
  OBVIOUS
<1>1. IInv'
  BY StepIInv DEF TInv, Next
<1>2. /\ elapsed < Horizon /\ now' = Plus(now, 1) /\ elapsed' = elapsed + 1 /\ late' = late
      /\ TimeDiff(wake, now) > 0 \/ (updated /\ current = now)
      /\ UNCHANGED <<current, updated, ts_flush, wake, probe_wait, ts_probe, snd_buf>>
  BY DEF Tick, engine, flush, sndVars, probeVars, caller
<1>3. now \in Word /\ elapsed \in Nat /\ elapsed + 1 <= Horizon
  <2>1. now \in Word /\ elapsed \in Nat /\ Horizon \in Nat
    BY Scale DEF TInv, IInv, TypeOK
  <2> QED
    BY <1>2, <2>1
<1>4. ASSUME updated PROVE Ago(wake) < 0 \/ Ago(current) = 0
  <2>1. CASE current = now
    BY <1>3, <2>1, DiffSelf DEF Ago
  <2>2. CASE TimeDiff(wake, now) > 0
    <3>1. wake \in Word /\ -Interval <= Ago(wake)
      BY <1>4 DEF TInv, UpdateInTime, InTime
    <3>2. Ago(wake) \in Int
      BY <1>3, <3>1, AgoType
    <3>3. -Half < Ago(wake)
      BY <3>1, <3>2, Scale
    <3>4. TimeDiff(wake, now) = -Ago(wake)
      BY <1>3, <3>1, <3>3, AgoTurned
    <3> QED
      BY <2>2, <3>2, <3>4
  <2> QED
    BY <1>2, <2>1, <2>2
<1>5. updated /\ ~late' => ~late /\ 1 = 1 /\ (Ago(wake) < 0 \/ Ago(current) = 0)
  BY <1>2, <1>4
<1> QED
  BY <1>1, <1>2, <1>3, <1>5, PassTInv

LEMMA InitTInv == Init => TInv
<1> SUFFICES ASSUME Init PROVE TInv
  OBVIOUS
<1>1. snd_buf = {} /\ updated = FALSE /\ probe_wait = 0
  BY DEF Init
<1>2. ~(probe_wait > 0)
  BY <1>1
<1> QED
  BY <1>1, <1>2, InitIInv
    DEF TInv, OneEach, UpdateInTime, CallerKnows, SegsInTime, ProbeInTime

LEMMA StepTInv == Lifetime /\ TInv /\ [Next]_vars => TInv'
<1> SUFFICES ASSUME Lifetime, TInv, [Next]_vars PROVE TInv'
  OBVIOUS
<1>1. IInv'
  BY StepIInv DEF TInv
<1>2. CASE IkcpSend \/ UNCHANGED vars
  <2>1. /\ now' = now /\ elapsed' = elapsed /\ current' = current /\ updated' = updated
        /\ ts_flush' = ts_flush /\ wake' = wake /\ late' = late
        /\ probe_wait' = probe_wait /\ ts_probe' = ts_probe /\ snd_buf' = snd_buf
    BY <1>2 DEF IkcpSend, vars, engine, clock, flush, sndVars, probeVars, caller
  <2>2. OneEach'
    BY <2>1 DEF TInv, OneEach
  <2>3. \A t \in snd_buf' : \E s \in snd_buf :
           t.ts = s.ts /\ t.resendts = s.resendts /\ t.rto = s.rto /\ t.xmit = s.xmit
    BY <2>1
  <2> QED
    BY <1>1, <2>1, <2>2, <2>3, TimersKept
<1>3. CASE IkcpUpdate
  BY <1>3, UpdateTInv
<1>4. CASE Input
  BY <1>4, InputTInv
<1>5. CASE Tick
  BY <1>5, TickTInv
<1>6. CASE Stall
  BY <1>6, StallTInv
<1> QED
  BY <1>2, <1>3, <1>4, <1>5, <1>6 DEF Next

LEMMA SpecTInv == ASSUME Lifetime PROVE Spec => []TInv
<1>1. TInv /\ [Next]_vars => TInv'
  BY StepTInv
<1> QED
  BY <1>1, InitTInv, PTL DEF Spec

LEMMA SegInReach ==
    ASSUME Lifetime, TInv, NEW s \in snd_buf
    PROVE  TimeDiff(s.resendts, now) <= Period(s)
<1>1. TypeOK /\ s \in Seg /\ RtoMin <= s.rto /\ TimerOf(s) /\ now \in Word
  BY SegsOfBuf DEF TInv, IInv, SegsInTime, TypeOK
<1> DEFINE a == Ago(s.ts)
           b == Ago(s.resendts)
           p == Period(s)
<1>2. /\ s.resendts \in Word /\ a \in Int /\ b \in Int /\ p \in Nat
      /\ 0 <= a /\ b = a - p /\ -Half < b
  BY <1>1, TimerRange
<1>3. TimeDiff(s.resendts, now) = -b
  BY <1>1, <1>2, AgoTurned
<1> HIDE DEF a, b, p
<1>4. -b <= p
  BY <1>2
<1> QED
  BY <1>3, <1>4 DEF p

\* A stamp that was set at most n ahead runs out in n.
LEMMA StampInReach ==
    ASSUME Lifetime, TInv, NEW x, NEW n \in Nat, n < Half, InTime(x, n)
    PROVE  TimeDiff(x, now) <= n
<1>1. now \in Word /\ x \in Word /\ -n <= Ago(x) /\ Half \in Nat
  BY Scale DEF TInv, IInv, TypeOK, InTime
<1>2. Ago(x) \in Int
  BY <1>1, AgoType
<1>3. -Half < Ago(x)
  BY <1>1, <1>2
<1>4. TimeDiff(x, now) = -Ago(x)
  BY <1>1, <1>3, AgoTurned
<1> QED
  BY <1>1, <1>2, <1>4

\* Whatever the answers and the stalls, and wherever the clock wraps around, the
\* next flush, every segment's timeout (resendts) and the window probe lie no
\* further ahead than ikcp_update and ikcp_flush set them.
THEOREM NoTimerIsLost == ASSUME Lifetime PROVE Spec => []TimersInReach
<1>1. TInv => TimersInReach
  <2> SUFFICES ASSUME TInv, updated
               PROVE  /\ TimeDiff(ts_flush, now) <= Interval
                      /\ \A s \in snd_buf : TimeDiff(s.resendts, now) <= Period(s)
                      /\ TimeDiff(ts_probe, now) <= probe_wait \/ probe_wait = 0
    BY DEF TimersInReach
  <2>1. TimeDiff(ts_flush, now) <= Interval
    <3>1. InTime(ts_flush, Interval) /\ Interval \in Nat /\ Interval < Half
      BY Scale DEF TInv, UpdateInTime
    <3> QED
      BY <3>1, StampInReach
  <2>2. ASSUME probe_wait # 0 PROVE TimeDiff(ts_probe, now) <= probe_wait
    <3>1. probe_wait \in Nat /\ probe_wait < Half /\ probe_wait > 0
      BY <2>2, Scale DEF TInv, IInv, TypeOK
    <3>2. InTime(ts_probe, probe_wait)
      BY <3>1 DEF TInv, ProbeInTime
    <3> QED
      BY <3>1, <3>2, StampInReach
  <2> QED
    BY <2>1, <2>2, SegInReach
<1> QED
  BY <1>1, SpecTInv, PTL

\* With a caller that calls ikcp_update when ikcp_check said, no flush is late,
\* and what has run out is served by a flush within an interval.
THEOREM NoTimerIsMissed == ASSUME Lifetime PROVE Spec => []NothingOverdue
<1>1. TInv => NothingOverdue
  <2> SUFFICES ASSUME TInv, updated, ~late
               PROVE  /\ Ago(ts_flush) <= 0
                      /\ \A s \in snd_buf : Ago(s.resendts) < Interval
                      /\ probe_wait > 0 => Ago(ts_probe) < Interval
    BY DEF NothingOverdue, Ago
  <2>1. /\ Ago(ts_flush) <= 0 /\ now \in Word /\ ts_flush \in Word /\ Interval \in Nat
    BY Scale DEF TInv, CallerKnows, IInv, TypeOK
  <2>2. ASSUME NEW x \in Word, Served(x) PROVE Ago(x) < Interval
    <3>1. Ago(x) \in Int /\ Ago(ts_flush) \in Int
      BY <2>1, AgoType
    <3> QED
      BY <2>1, <2>2, <3>1 DEF Served
  <2>3. \A s \in snd_buf : s.resendts \in Word /\ Served(s.resendts)
    BY SegsOfBuf DEF TInv, SegsInTime, Seg
  <2>4. probe_wait > 0 => ts_probe \in Word /\ Served(ts_probe)
    BY DEF TInv, ProbeInTime, InTime
  <2> QED
    BY <2>1, <2>2, <2>3, <2>4
<1> QED
  BY <1>1, SpecTInv, PTL

\* ikcp_flush lengthens the timeout of a segment only when all of the timeout
\* has passed since the segment was last sent.
THEOREM TimeoutsAreWaitedFor == ASSUME Lifetime PROVE Spec => LossTakesTimeout
<1>1. TInv /\ [Next]_vars =>
        [\A s \in snd_buf, t \in snd_buf' :
            s.sn = t.sn /\ t.rto > s.rto /\ s.xmit > 0 => TimeDiff(now, s.ts) >= s.rto]_vars
  <2> SUFFICES ASSUME TInv, Next, NEW s \in snd_buf, NEW t \in snd_buf',
                      s.sn = t.sn, t.rto > s.rto, s.xmit > 0
               PROVE  Ago(s.ts) >= s.rto
    BY DEF Ago
  <2>1. IInv /\ TypeOK /\ OneEach /\ s \in Seg /\ RtoMin <= s.rto /\ TimerOf(s) /\ s.rto \in Nat
    BY SegsOfBuf DEF TInv, IInv, SegsInTime, Seg
  <2>2. ASSUME NEW r \in snd_buf, t.sn = r.sn, t.rto = r.rto PROVE FALSE
    <3>1. r = s
      BY <2>1, <2>2 DEF OneEach
    <3> QED
      BY <2>1, <2>2, <3>1
  <2>3. CASE IkcpUpdate /\ FlushDue
    <3>1. PICK r \in snd_buf \cup NewSegs : t = Emit(r)
      BY <2>3 DEF IkcpUpdate, IkcpFlush
    <3>2. t.sn = r.sn
      BY <2>1, <3>1, EmitSn
    <3>3. r = s
      BY <2>1, <3>2, SnIsUnique
    <3> QED
      BY <2>1, <3>1, <3>3, EmitTime
  <2>4. CASE Input
    BY <2>2, <2>4, InputTInv
  <2>5. CASE ~Input /\ ~(IkcpUpdate /\ FlushDue)
    <3>1. snd_buf' = snd_buf
      BY <2>5 DEF Next, IkcpSend, IkcpUpdate, Tick, Stall, engine, sndVars
    <3> QED
      BY <2>2, <3>1
  <2> QED
    BY <2>3, <2>4, <2>5
<1> QED
  BY <1>1, SpecTInv, PTL DEF Spec, LossTakesTimeout

-----------------------------------------------------------------------------
(* What was sent when.  The stamps tell the order of the transmissions. *)

SendsInTime == \A x \in sends : x.at <= elapsed /\ Ago(x.ts) = elapsed - x.at

\* A segment's stamp is that of its last transmission.
LastSend ==
    \A s \in snd_buf, y \in sends : y.sn = s.sn => y.at <= elapsed - Ago(s.ts)

SInv ==
    /\ TInv
    /\ SendsInTime
    /\ LastSend

\* Of two stamps of the past the difference is that of their ages.
LEMMA AgoDiff ==
    ASSUME Lifetime, now \in Word, NEW a \in Word, NEW b \in Word,
           0 <= Ago(a), Ago(a) <= Horizon, 0 <= Ago(b), Ago(b) <= Horizon
    PROVE  TimeDiff(a, b) = Ago(b) - Ago(a)
<1> DEFINE i == Ago(a)
           j == Ago(b)
<1>1. i \in Int /\ j \in Int /\ 0 <= i /\ i < Half /\ 0 <= j /\ j < Half /\ Half \in Nat /\ now \in Int
  <2>1. i \in Int /\ j \in Int /\ Half \in Nat /\ Horizon \in Nat /\ Horizon < Half
    BY AgoType, Scale
  <2>2. now \in Int
    BY WordIsInt
  <2> HIDE DEF i, j
  <2>3. 0 <= i /\ i <= Horizon /\ 0 <= j /\ j <= Horizon
    BY DEF i, j
  <2> QED
    BY <2>1, <2>2, <2>3
<1>2. -Half < Ago(a) /\ -Half < Ago(b)
  BY <1>1
<1>3. TimeDiff(a, now) = -i /\ TimeDiff(b, now) = -j
  BY <1>2, AgoTurned
<1>4. a = (now + -i) % Modulus /\ b = (now + -j) % Modulus
  BY <1>3, WordAfter
<1> HIDE DEF i, j
<1> DEFINE x == now + -i
           y == now + -j
<1>5. x \in Int /\ y \in Int /\ -Half <= x - y /\ x - y < Half /\ x - y = j - i
  BY <1>1
<1> HIDE DEF x, y
<1>6. TimeDiff(x % Modulus, y % Modulus) = x - y
  BY <1>5, WithinHalf
<1> QED
  BY <1>4, <1>5, <1>6 DEF x, y, i, j

\* What ikcp_flush does not send it leaves alone.
LEMMA EmitStamp ==
    ASSUME NEW s \in Seg
    PROVE  Emit(s) = s \/ Emit(s).ts = now
<1>1. \A rto, wait : Transmit(s, rto, wait).ts = now
  BY DEF Transmit, Seg
<1>2. \A rto, wait : Transmit([s EXCEPT !.fastack = 0], rto, wait).ts = now
  BY DEF Transmit, Seg
<1> QED
  BY <1>1, <1>2 DEF Emit

LEMMA InitSInv == Init => SInv
<1> SUFFICES ASSUME Init PROVE SInv
  OBVIOUS
<1>1. sends = {}
  BY DEF Init
<1> QED
  BY <1>1, InitTInv DEF SInv, SendsInTime, LastSend

LEMMA FlushSInv ==
    ASSUME Lifetime, SInv, IkcpUpdate, FlushDue
    PROVE  SInv'
<1>1. TInv /\ IInv /\ TypeOK /\ OneEach /\ TInv'
  BY UpdateTInv DEF SInv, TInv, IInv
<1>2. now \in Word /\ elapsed \in Nat /\ snd_nxt \in Nat /\ sends \subseteq Transmission
  BY <1>1, Scale DEF TypeOK
<1>3. /\ now' = now /\ elapsed' = elapsed
      /\ snd_buf' = {Emit(s) : s \in snd_buf \cup NewSegs}
      /\ sends' = sends \cup Sending
  BY DEF IkcpUpdate, IkcpFlush, Sending, clock
<1>4. Ago(now) = 0
  BY <1>2, DiffSelf DEF Ago
<1>5. ASSUME NEW x \in sends PROVE x.at \in Nat /\ x.sn < snd_nxt /\ x.sn \in Nat /\ x.at <= elapsed
  BY <1>1, <1>2 DEF IInv, SendsBelow, Transmission, SInv, SendsInTime
<1>6. ASSUME NEW y \in Sending
      PROVE  \E r \in snd_buf \cup NewSegs :
                y.sn = r.sn /\ y.ts = now /\ y.at = elapsed /\ Emit(r).xmit # r.xmit
  BY DEF Sending
<1>7. SendsInTime'
  <2> SUFFICES ASSUME NEW x \in sends' PROVE x.at <= elapsed /\ Ago(x.ts) = elapsed - x.at
    BY <1>3 DEF SendsInTime, Ago
  <2>1. CASE x \in sends
    BY <2>1 DEF SInv, SendsInTime
  <2>2. CASE x \in Sending
    <3>1. x.ts = now /\ x.at = elapsed
      BY <1>6, <2>2
    <3> QED
      BY <1>2, <1>4, <3>1
  <2> QED
    BY <1>3, <2>1, <2>2
<1>8. LastSend'
  <2> SUFFICES ASSUME NEW t \in snd_buf', NEW y \in sends', y.sn = t.sn
               PROVE  y.at <= elapsed - Ago(t.ts)
    BY <1>3 DEF LastSend, Ago
  <2>1. PICK s \in snd_buf \cup NewSegs : t = Emit(s)
    BY <1>3
  <2>2. /\ s \in Seg /\ t.sn = s.sn /\ s.sn \in Nat
        /\ s \in NewSegs => snd_nxt <= s.sn
    BY <1>1, <2>1, EmitSn
  <2>3. t = s \/ t.ts = now
    BY <2>1, <2>2, EmitStamp
  <2>4. CASE t.ts = now
    <3>1. y.at \in Nat /\ y.at <= elapsed
      BY <1>2, <1>3, <1>5, <1>6
    <3> QED
      BY <1>2, <1>4, <2>4, <3>1
  <2>5. CASE t = s /\ y \in sends
    <3>1. s \in snd_buf
      BY <1>2, <1>5, <2>2, <2>5
    <3> QED
      BY <2>5, <3>1 DEF SInv, LastSend
  <2>6. CASE t = s /\ y \in Sending
    <3>1. PICK r \in snd_buf \cup NewSegs : y.sn = r.sn /\ Emit(r).xmit # r.xmit
      BY <1>6, <2>6
    <3>2. r = s
      BY <1>1, <2>6, <3>1, SnIsUnique
    <3> QED
      BY <2>1, <2>6, <3>1, <3>2
  <2> QED
    BY <1>3, <2>3, <2>4, <2>5, <2>6
<1> QED
  BY <1>1, <1>7, <1>8 DEF SInv

\* Transmissions and stamps grow old together.
LEMMA PassSInv ==
    ASSUME Lifetime, SInv, TInv', NEW k \in Nat, elapsed + k <= Horizon,
           now' = Plus(now, k), elapsed' = elapsed + k, snd_buf' = snd_buf, sends' = sends
    PROVE  SInv'
<1>1. TInv /\ IInv /\ now \in Word /\ elapsed \in Nat /\ elapsed \in 0..Horizon
      /\ sends \subseteq Transmission
  BY Scale DEF SInv, TInv, IInv, TypeOK
<1>2. \A x \in Word : Ago(x) <= elapsed => TimeDiff(now', x) = Ago(x) + k
  BY <1>1, AgoGrows
<1>3. SendsInTime'
  <2> SUFFICES ASSUME NEW x \in sends
               PROVE  x.at <= elapsed' /\ TimeDiff(now', x.ts) = elapsed' - x.at
    BY DEF SendsInTime, Ago
  <2>1. x.at \in Nat /\ x.ts \in Word /\ x.at <= elapsed /\ Ago(x.ts) = elapsed - x.at
    BY <1>1 DEF Transmission, SInv, SendsInTime
  <2>2. TimeDiff(now', x.ts) = Ago(x.ts) + k
    BY <1>1, <1>2, <2>1
  <2> QED
    BY <1>1, <2>1, <2>2
<1>4. LastSend'
  <2> SUFFICES ASSUME NEW s \in snd_buf, NEW y \in sends, y.sn = s.sn
               PROVE  y.at <= elapsed' - TimeDiff(now', s.ts)
    BY DEF LastSend, Ago
  <2>1. s \in Seg /\ RtoMin <= s.rto /\ TimerOf(s)
    BY <1>1, SegsOfBuf DEF TInv, SegsInTime
  <2>2. s.ts \in Word /\ Ago(s.ts) \in Int /\ Ago(s.ts) <= elapsed
    BY <1>1, <2>1, AgoType DEF TimerOf, InTime
  <2>3. TimeDiff(now', s.ts) = Ago(s.ts) + k
    BY <1>2, <2>2
  <2>4. y.at \in Nat /\ y.at <= elapsed - Ago(s.ts)
    BY <1>1 DEF Transmission, SInv, LastSend
  <2> QED
    BY <1>1, <2>2, <2>3, <2>4
<1> QED
  BY <1>3, <1>4 DEF SInv

LEMMA StepSInv == Lifetime /\ SInv /\ [Next]_vars => SInv'
<1> SUFFICES ASSUME Lifetime, SInv, [Next]_vars PROVE SInv'
  OBVIOUS
<1>1. TInv /\ IInv /\ TInv'
  BY StepTInv DEF SInv, TInv
<1>2. elapsed \in Nat /\ Horizon \in Nat
  BY <1>1, Scale DEF IInv, TypeOK
<1>3. ASSUME now' = now, elapsed' = elapsed, sends' = sends,
             \A t \in snd_buf' : \E s \in snd_buf : t.sn = s.sn /\ t.ts = s.ts
      PROVE  SInv'
  BY <1>1, <1>3 DEF SInv, SendsInTime, LastSend, Ago
<1>4. CASE IkcpUpdate /\ FlushDue
  BY <1>4, FlushSInv
<1>5. CASE Input
  <2>1. now' = now /\ elapsed' = elapsed /\ sends' = sends
    BY <1>5 DEF Input, InputOther, InputAck, InputEnd, InputHeader, clock
  <2> QED
    BY <1>1, <1>3, <1>5, <2>1, InputTInv
<1>6. CASE Tick \/ Stall
  <2>1. snd_buf' = snd_buf /\ sends' = sends
    BY <1>6 DEF Tick, Stall, engine, sndVars
  <2>2. PICK k \in Nat : elapsed + k <= Horizon /\ now' = Plus(now, k) /\ elapsed' = elapsed + k
    <3>1. CASE Tick
      BY <1>2, <3>1 DEF Tick
    <3>2. CASE Stall
      BY <3>2, TimerAssumption DEF Stall
    <3> QED
      BY <1>6, <3>1, <3>2
  <2> QED
    BY <1>1, <2>1, <2>2, PassSInv
<1>7. CASE IkcpSend \/ (IkcpUpdate /\ ~FlushDue) \/ UNCHANGED vars
  <2>1. now' = now /\ elapsed' = elapsed /\ sends' = sends /\ snd_buf' = snd_buf
    BY <1>7 DEF IkcpSend, IkcpUpdate, vars, engine, clock, sndVars
  <2> QED
    BY <1>3, <2>1
<1> QED
  BY <1>4, <1>5, <1>6, <1>7 DEF Next

LEMMA SpecSInv == ASSUME Lifetime PROVE Spec => []SInv
<1>1. SInv /\ [Next]_vars => SInv'
  BY StepSInv
<1> QED
  BY <1>1, InitSInv, PTL DEF Spec

\* ikcp_parse_fastack counts against a segment, and so brings on a fast resend,
\* only the ACK of a later segment that was transmitted no earlier than this one
\* last was, whatever ACKs come, however old, and in whatever order a datagram
\* has them.
THEOREM FastResendsOvertaken == ASSUME Lifetime PROVE Spec => OvertakenOnly
<1>1. SInv /\ [Next]_vars =>
        [\A s \in snd_buf, t \in snd_buf' :
            s.sn = t.sn /\ t.fastack > s.fastack =>
                \E x \in sends :
                    /\ x.sn > s.sn /\ x.sn \notin Sns
                    /\ \A y \in sends : y.sn = s.sn => y.at <= x.at]_vars
  <2> SUFFICES ASSUME SInv, Next, NEW s \in snd_buf, NEW t \in snd_buf',
                      s.sn = t.sn, t.fastack > s.fastack
               PROVE  \E x \in sends :
                         /\ x.sn > s.sn /\ x.sn \notin Sns
                         /\ \A y \in sends : y.sn = s.sn => y.at <= x.at
    OBVIOUS
  <2>1. TInv /\ IInv /\ TypeOK /\ OneEach /\ s \in Seg /\ RtoMin <= s.rto /\ BackedOff(s) /\ TimerOf(s)
    BY SegsOfBuf DEF SInv, TInv, IInv, SegsInTime
  <2>2. s.fastack \in Nat /\ s.sn \in Nat /\ s.ts \in Word
    BY <2>1 DEF Seg
  <2>3. CASE InputEnd
    <3>1. PICK r \in snd_buf : t = ParseFastack(r)
      BY <2>3 DEF InputEnd
    <3>2. r = s
      <4>1. r \in Seg
        BY <2>1, SegsOfBuf
      <4>2. t.sn = r.sn
        BY <3>1, <4>1, ParseFastackEffect
      <4> QED
        BY <2>1, <4>2 DEF OneEach
    <3>3. s.sn < maxack /\ TimeDiff(latest_ts, s.ts) >= 0
      BY <2>1, <2>2, <3>1, <3>2, ParseFastackEffect
    <3>4. maxack # None /\ maxack \in Nat
      BY <2>1, <2>3 DEF TypeOK, InputEnd
    <3>5. PICK x \in sends : x.sn = maxack /\ x.ts = latest_ts /\ x.sn \notin Sns
      BY <2>1, <3>4 DEF IInv, AckedIsGone
    <3>6. /\ x.at \in Nat /\ x.ts \in Word /\ elapsed \in Nat /\ elapsed <= Horizon
          /\ x.at <= elapsed /\ Ago(x.ts) = elapsed - x.at /\ now \in Word /\ Horizon \in Nat
      BY <2>1, Scale DEF TypeOK, Transmission, SInv, SendsInTime
    <3>7. Ago(s.ts) \in Int /\ 0 <= Ago(s.ts) /\ Ago(s.ts) <= elapsed
      BY <2>1, TimerRange
    <3>8. TimeDiff(x.ts, s.ts) = Ago(s.ts) - Ago(x.ts)
      <4>1. 0 <= Ago(x.ts) /\ Ago(x.ts) <= Horizon /\ Ago(s.ts) <= Horizon
        BY <3>6, <3>7
      <4> QED
        BY <2>2, <3>6, <3>7, <4>1, AgoDiff
    <3>9. Ago(x.ts) <= Ago(s.ts)
      BY <3>3, <3>5, <3>6, <3>7, <3>8
    <3>10. ASSUME NEW y \in sends, y.sn = s.sn PROVE y.at <= x.at
      <4>1. y.at \in Nat /\ y.at <= elapsed - Ago(s.ts)
        BY <2>1, <3>10 DEF TypeOK, Transmission, SInv, LastSend
      <4> QED
        BY <3>6, <3>7, <3>9, <4>1
    <3>11. x.sn > s.sn
      BY <2>2, <3>3, <3>4, <3>5
    <3> QED
      BY <3>5, <3>10, <3>11
  <2>4. CASE IkcpUpdate /\ FlushDue
    <3>1. PICK r \in snd_buf \cup NewSegs : t = Emit(r)
      BY <2>4 DEF IkcpUpdate, IkcpFlush
    <3>2. t.sn = r.sn
      BY <2>1, <3>1, EmitSn
    <3>3. r = s
      BY <2>1, <3>2, SnIsUnique
    <3>4. t.fastack \in {0, s.fastack}
      BY <2>1, <3>1, <3>3, EmitEffect
    <3> QED
      BY <2>2, <3>4
  <2>5. CASE ~InputEnd /\ ~(IkcpUpdate /\ FlushDue)
    <3>1. snd_buf' \subseteq snd_buf
      BY <2>5 DEF Next, IkcpSend, IkcpUpdate, Input, InputOther, InputAck, InputHeader,
                  Tick, Stall, engine, sndVars
    <3>2. t = s
      BY <2>1, <3>1 DEF OneEach
    <3> QED
      BY <2>2, <3>2
  <2> QED
    BY <2>3, <2>4, <2>5
<1> QED
  BY <1>1, SpecSInv, PTL DEF Spec, OvertakenOnly

=============================================================================
