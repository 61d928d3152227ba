----------------------------- MODULE KcpTimers ------------------------------
(***************************************************************************)
(* The clocks of one KCP endpoint (src/protocols/ikcp.c): when ikcp_update *)
(* flushes, when ikcp_flush sends a segment again or probes a closed       *)
(* window, what ikcp_input learns of the round trip and of gaps, and when  *)
(* ikcp_check asks to be called.  Module Ikcp leaves all of this to a free *)
(* choice; here what travels is reduced to sequence numbers.               *)
(*                                                                         *)
(* Time stamps are words of the clock that wrap around, and the clock may  *)
(* start anywhere.  Configured as kcp_init does: no congestion window.     *)
(*                                                                         *)
(* The caller is the one the comment on ikcp_check describes, which calls  *)
(* ikcp_update no later than it was told, and Stall one that fails to: the *)
(* receive threads, which poll every 2 ms whatever ikcp_check would say,   *)
(* are between the two.                                                    *)
(*                                                                         *)
(* Left out: the receiving side, kcp->xmit and kcp->state (dead_link),     *)
(* which nothing in the engine reads.                                      *)
(***************************************************************************)
EXTENDS SerialNumber

CONSTANTS
    Interval,               \* kcp->interval (10 ms)
    NoDelay,                \* kcp->nodelay (1)
    RtoDef,                 \* IKCP_RTO_DEF (200 ms)
    RtoMin,                 \* kcp->rx_minrto (30 ms)
    RtoMax,                 \* IKCP_RTO_MAX (60 s)
    ProbeInit, ProbeLimit,  \* IKCP_PROBE_INIT, IKCP_PROBE_LIMIT (7 s, 120 s)
    SlapLimit,              \* the largest step of the clock taken as such (10 s)
    FastResend, FastLimit,  \* kcp->fastresend, kcp->fastlimit (2, 5)
    SndWnd,                 \* kcp->snd_wnd (128)
    Starts,                 \* values of the clock at the start
    Stalls,                 \* how long the caller may fail to call ikcp_update
    Ages,                   \* bound: how old what an ACK answers may be
    MaxSegs,                \* bound: segments submitted
    Horizon                 \* bound: ticks of the clock

ASSUME TimerAssumption ==
    /\ Interval \in Nat \ {0} /\ NoDelay \in Nat
    /\ RtoMin \in Nat \ {0} /\ RtoDef \in Nat /\ RtoMax \in Nat
    /\ RtoMin <= RtoDef /\ RtoDef <= RtoMax
    /\ ProbeInit \in Nat \ {0} /\ ProbeLimit \in Nat /\ ProbeInit <= ProbeLimit
    /\ SlapLimit \in Nat /\ Interval < SlapLimit /\ SlapLimit < Half
    /\ FastResend \in Nat \ {0} /\ FastLimit \in Nat \ {0} /\ SndWnd \in Nat \ {0}
    /\ Starts \subseteq Word /\ Stalls \subseteq Nat
    /\ Ages \subseteq Int /\ MaxSegs \in Nat /\ Horizon \in Nat

VARIABLES
    now, elapsed,               \* the clock; history: ticks since the start
    current, updated, ts_flush, \* the time of the last ikcp_update; was there one; the next flush
    est,                        \* rx_srtt, rx_rttval, rx_rto
    nsnd_que,                   \* segments in snd_queue
    snd_una, snd_nxt, snd_buf,
    rmt_wnd,
    maxack, latest_ts,          \* in ikcp_input: the last segment acknowledged, or None, and the ACK's ts
    probe_wait, ts_probe,       \* the window probe's interval and next time
    sends,                      \* history: every transmission of a segment
    wake,                       \* what ikcp_check answered after the last ikcp_update
    late                        \* history: the caller has not kept to it

clock == <<now, elapsed>>
flush == <<current, updated, ts_flush>>
sndVars == <<nsnd_que, snd_una, snd_nxt, snd_buf, sends>>
input == <<maxack, latest_ts>>
probeVars == <<probe_wait, ts_probe>>
caller == <<wake, late>>
engine == <<flush, est, sndVars, rmt_wnd, input, probeVars>>
vars == <<clock, engine, caller>>

None == -1

Smaller(a, b) == IF a <= b THEN a ELSE b
Larger(a, b) == IF a >= b THEN a ELSE b
Sns == {s.sn : s \in snd_buf}

\* A segment of snd_buf.
Seg == [sn : Nat, ts : Word, resendts : Word, rto : Nat, fastack : Nat, xmit : Nat]

\* A segment on the wire: what it carries, and when that was.
Transmission == [sn : Nat, ts : Word, at : Nat]

-----------------------------------------------------------------------------
\* ikcp_create and ikcp_nodelay.
Init ==
    /\ now \in Starts /\ elapsed = 0
    /\ current = 0 /\ updated = FALSE /\ ts_flush = 0
    /\ est = [srtt |-> 0, rttval |-> 0, rto |-> RtoDef]
    /\ nsnd_que = 0 /\ snd_una = 0 /\ snd_nxt = 0 /\ snd_buf = {}
    /\ rmt_wnd = SndWnd /\ maxack = None /\ latest_ts = 0
    /\ sends = {}
    /\ probe_wait = 0 /\ ts_probe = 0
    /\ wake = now /\ late = FALSE

\* ikcp_send of a message of one fragment.
IkcpSend ==
    /\ maxack = None
    /\ nsnd_que + snd_nxt < MaxSegs
    /\ nsnd_que' = nsnd_que + 1
    /\ UNCHANGED <<clock, flush, est, snd_una, snd_nxt, snd_buf, sends, rmt_wnd, input,
                   probeVars, caller>>

-----------------------------------------------------------------------------
(* ikcp_update and ikcp_flush. *)

\* ts_flush, or the present if that is too far away to be true.
FlushTime ==
    LET slap == TimeDiff(now, ts_flush) IN
    IF ~updated \/ slap >= SlapLimit \/ slap < -SlapLimit THEN now ELSE ts_flush

FlushDue == TimeDiff(now, FlushTime) >= 0

\* Fault: flushes that were missed are made up for.
NextFlushMissed == Plus(FlushTime, Interval)

\* The flush after this one: an interval after this one was due, or, if even
\* that has passed, an interval from the present.
NextFlush ==
    IF TimeDiff(now, Plus(FlushTime, Interval)) >= 0
    THEN Plus(now, Interval) ELSE Plus(FlushTime, Interval)

\* The segments moved from snd_queue to snd_buf.
MoveCount ==
    Smaller(nsnd_que, Larger(0, snd_una + Smaller(SndWnd, rmt_wnd) - snd_nxt))

NewSegs ==
    {[sn |-> sn, ts |-> now, resendts |-> now, rto |-> est.rto, fastack |-> 0, xmit |-> 0] :
        sn \in snd_nxt..(snd_nxt + MoveCount - 1)}

TimedOut(s) == s.xmit > 0 /\ TimeDiff(now, s.resendts) >= 0

\* Fault: without a limit.
FastDueAlways(s) == s.xmit > 0 /\ ~TimedOut(s) /\ s.fastack >= FastResend

\* A segment later ones have overtaken; fast resends stop when it has been sent often.
FastDue(s) ==
    s.xmit > 0 /\ ~TimedOut(s) /\ s.fastack >= FastResend /\ s.xmit <= FastLimit

\* How long the answer to a segment's first transmission is waited for.
FirstTimeout(rto) == rto + (IF NoDelay = 0 THEN rto \div 8 ELSE 0)

\* The timeout of a segment that has timed out.
BackOff(s) ==
    IF NoDelay = 0 THEN s.rto + Larger(s.rto, est.rto)
    ELSE s.rto + (IF NoDelay = 1 THEN s.rto ELSE est.rto) \div 2

\* A segment is put on the wire now, to be repeated after `wait`.
Transmit(s, rto, wait) ==
    [s EXCEPT !.xmit = @ + 1, !.ts = now, !.rto = rto, !.resendts = Plus(now, wait)]

\* Fault: the longer timeout is waited for once, and forgotten.
EmitForgets(s) ==
    IF s.xmit = 0
    THEN Transmit(s, est.rto, FirstTimeout(est.rto))
    ELSE IF TimedOut(s) THEN Transmit(s, s.rto, BackOff(s))
    ELSE IF FastDue(s) THEN Transmit([s EXCEPT !.fastack = 0], s.rto, s.rto)
    ELSE s

\* Fault: a fast resend leaves the timer as it is.
EmitKeepTimer(s) ==
    IF s.xmit = 0
    THEN Transmit(s, est.rto, FirstTimeout(est.rto))
    ELSE IF TimedOut(s) THEN Transmit(s, BackOff(s), BackOff(s))
    ELSE IF FastDue(s) THEN [s EXCEPT !.xmit = @ + 1, !.ts = now, !.fastack = 0]
    ELSE s

\* What the loop of ikcp_flush does with a segment of snd_buf.
Emit(s) ==
    IF s.xmit = 0
    THEN Transmit(s, est.rto, FirstTimeout(est.rto))
    ELSE IF TimedOut(s) THEN Transmit(s, BackOff(s), BackOff(s))
    ELSE IF FastDue(s) THEN Transmit([s EXCEPT !.fastack = 0], s.rto, s.rto)
    ELSE s

\* With a closed window: the probe's timer is armed, or has run out and an
\* IKCP_CMD_WASK is sent.
IkcpProbe ==
    LET arm(wait) == probe_wait' = wait /\ ts_probe' = Plus(now, wait) IN
    IF rmt_wnd # 0 THEN probe_wait' = 0 /\ ts_probe' = 0
    ELSE IF probe_wait = 0 THEN arm(ProbeInit)
    ELSE IF TimeDiff(now, ts_probe) >= 0
    THEN arm(Smaller(ProbeLimit, probe_wait + probe_wait \div 2))
    ELSE UNCHANGED <<probe_wait, ts_probe>>

IkcpFlush ==
    /\ snd_buf' = {Emit(s) : s \in snd_buf \cup NewSegs}
    /\ sends' = sends \cup
          {[sn |-> s.sn, ts |-> now, at |-> elapsed] :
              s \in {r \in snd_buf \cup NewSegs : Emit(r).xmit # r.xmit}}
    /\ snd_nxt' = snd_nxt + MoveCount
    /\ nsnd_que' = nsnd_que - MoveCount
    /\ IkcpProbe

\* ikcp_check (its answer, in a set).
IkcpCheck ==
    LET timers == {TimeDiff(s.resendts, now) : s \in snd_buf}
        waits == {Interval, TimeDiff(FlushTime, now)} \cup timers IN
    IF ~updated \/ FlushDue \/ (\E t \in timers : t <= 0) THEN {now}
    ELSE {Plus(now, w) : w \in {v \in waits : \A u \in waits : v <= u}}

\* ikcp_update, after which the caller asks ikcp_check.
IkcpUpdate ==
    /\ maxack = None
    /\ current' = now /\ updated' = TRUE
    /\ IF FlushDue
       THEN ts_flush' = NextFlush /\ IkcpFlush
       ELSE UNCHANGED <<ts_flush, nsnd_que, snd_nxt, snd_buf, sends, probeVars>>
    /\ late' = FALSE
    /\ UNCHANGED <<clock, est, snd_una, rmt_wnd, input>>
    /\ wake' \in IkcpCheck'

-----------------------------------------------------------------------------
(* ikcp_input. *)

\* Fault: the timeout is not limited.
UpdateAckUnbounded(e, rtt) ==
    [srtt |-> rtt, rttval |-> rtt \div 2, rto |-> Larger(RtoMin, rtt + Larger(Interval, 2 * rtt))]

\* ikcp_update_ack.
UpdateAck(e, rtt) ==
    LET delta  == IF rtt >= e.srtt THEN rtt - e.srtt ELSE e.srtt - rtt
        rttval == IF e.srtt = 0 THEN rtt \div 2 ELSE (3 * e.rttval + delta) \div 4
        srtt   == IF e.srtt = 0 THEN rtt ELSE Larger(1, (7 * e.srtt + rtt) \div 8)
    IN [srtt |-> srtt, rttval |-> rttval,
        rto |-> Smaller(Larger(RtoMin, srtt + Larger(Interval, 4 * rttval)), RtoMax)]

\* ikcp_shrink_buf.
ShrinkBuf(segs) ==
    \E una \in {s.sn : s \in segs} \cup {snd_nxt} :
        /\ \A s \in segs : una <= s.sn
        /\ snd_una' = una

\* What ikcp_input does with every segment: una is where the peer is.  (One
\* before snd_una does what snd_una does.)
InputHeader(una, wnd, segs) ==
    /\ updated
    /\ rmt_wnd' = wnd
    /\ snd_buf' = segs
    /\ ShrinkBuf(segs)
    /\ UNCHANGED <<clock, flush, nsnd_que, snd_nxt, sends, probeVars, caller>>

\* A segment that acknowledges nothing by itself.
InputOther(una, wnd) ==
    /\ InputHeader(una, wnd, {s \in snd_buf : s.sn >= una})
    /\ UNCHANGED <<est, input>>

\* Fault: the number is that of one ACK and the time that of another.
InputAckMixed(una, wnd, ack) ==
    /\ InputHeader(una, wnd, {s \in snd_buf : s.sn >= una /\ s.sn # ack.sn})
    /\ est' = UpdateAck(est, TimeDiff(current, ack.ts))
    /\ maxack' = Larger(maxack, ack.sn)
    /\ latest_ts' = IF maxack = None \/ TimeDiff(ack.ts, latest_ts) > 0 THEN ack.ts ELSE latest_ts

\* IKCP_CMD_ACK.  What the datagram counts for is its first ACK, or a later one
\* of a later segment that also answers a later transmission.
InputAck(una, wnd, ack) ==
    /\ InputHeader(una, wnd, {s \in snd_buf : s.sn >= una /\ s.sn # ack.sn})
    /\ LET rtt == TimeDiff(current, ack.ts) IN
       est' = IF rtt >= 0 THEN UpdateAck(est, rtt) ELSE est
    /\ IF maxack = None \/ (ack.sn > maxack /\ TimeDiff(ack.ts, latest_ts) > 0)
       THEN maxack' = ack.sn /\ latest_ts' = ack.ts
       ELSE UNCHANGED input

\* Fault: an ACK of an earlier transmission counts too.
ParseFastackStale(s) ==
    IF s.sn < maxack /\ snd_una <= maxack /\ maxack < snd_nxt
    THEN [s EXCEPT !.fastack = Smaller(@ + 1, FastResend)] ELSE s

\* ikcp_parse_fastack (IKCP_FASTACK_CONSERVE): a segment before the one
\* acknowledged has been overtaken if it was not sent after that (counting
\* on after FastResend makes no difference).
ParseFastack(s) ==
    IF /\ s.sn < maxack /\ snd_una <= maxack /\ maxack < snd_nxt
       /\ TimeDiff(latest_ts, s.ts) >= 0
    THEN [s EXCEPT !.fastack = Smaller(@ + 1, FastResend)] ELSE s

\* The end of ikcp_input, if there was an ACK in the datagram.
InputEnd ==
    /\ maxack # None
    /\ snd_buf' = {ParseFastack(s) : s \in snd_buf}
    /\ maxack' = None /\ latest_ts' = 0
    /\ UNCHANGED <<clock, flush, est, nsnd_que, snd_una, snd_nxt, sends, rmt_wnd, probeVars,
                   caller>>

\* ikcp_input, segment by segment.  An ACK answers some transmission, and may come
\* late or again.
Input ==
    \/ \E una \in snd_una..snd_nxt, wnd \in {0, SndWnd} :
          \/ InputOther(una, wnd)
          \/ \E ack \in {x \in sends : TimeDiff(current, x.ts) \in Ages} : InputAck(una, wnd, ack)
    \/ InputEnd

-----------------------------------------------------------------------------
\* A millisecond passes, in which nobody had to call ikcp_update.
Tick ==
    /\ maxack = None
    /\ elapsed < Horizon
    /\ TimeDiff(wake, now) > 0 \/ (updated /\ current = now)
    /\ now' = Plus(now, 1) /\ elapsed' = elapsed + 1
    /\ UNCHANGED <<engine, caller>>

\* The caller is held up: it does not call ikcp_update at the time it should.
Stall ==
    /\ maxack = None
    /\ \E d \in Stalls :
          /\ elapsed + d <= Horizon
          /\ now' = Plus(now, d) /\ elapsed' = elapsed + d
    /\ late' = TRUE
    /\ UNCHANGED <<engine, wake>>

Next == IkcpSend \/ IkcpUpdate \/ Input \/ Tick \/ Stall

Spec == Init /\ [][Next]_vars
-----------------------------------------------------------------------------
TypeOK ==
    /\ now \in Word /\ elapsed \in 0..Horizon
    /\ current \in Word /\ updated \in BOOLEAN /\ ts_flush \in Word
    /\ est \in [srtt : Nat, rttval : Nat, rto : RtoMin..RtoMax]
    /\ nsnd_que \in Nat /\ snd_una \in Nat /\ snd_nxt \in Nat
    /\ snd_buf \in SUBSET Seg
    /\ rmt_wnd \in Nat /\ maxack \in Nat \cup {None} /\ latest_ts \in Word
    /\ sends \subseteq Transmission
    /\ probe_wait \in 0..ProbeLimit /\ ts_probe \in Word
    /\ wake \in Word /\ late \in BOOLEAN

\* The engine runs for less than a third of half the clock's range (8 days):
\* what the theorems about the clock suppose.
Lifetime == 3 * (Horizon + RtoMax + ProbeLimit) < Half

\* A caller that calls ikcp_update no later than ikcp_check asked it to serves
\* every timer less than an interval after it has run out, and no flush late
\* at all, wherever the clock wraps around.
NothingOverdue ==
    updated /\ ~late =>
        /\ TimeDiff(now, ts_flush) <= 0
        /\ \A s \in snd_buf : TimeDiff(now, s.resendts) < Interval
        /\ rmt_wnd = 0 /\ probe_wait > 0 => TimeDiff(now, ts_probe) < Interval

\* How long after its last transmission a segment times out.
Period(s) == IF s.xmit = 1 THEN FirstTimeout(s.rto) ELSE s.rto

\* No timer is lost in the future: each runs out within its own period.
TimersInReach ==
    updated =>
        /\ TimeDiff(ts_flush, now) <= Interval
        /\ \A s \in snd_buf : TimeDiff(s.resendts, now) <= Period(s)
        /\ TimeDiff(ts_probe, now) <= probe_wait \/ probe_wait = 0

\* All but FastLimit of the times a segment was sent again lengthened its
\* timeout by half of the least one: a peer that answers nothing, or always
\* the wrong thing, is not flooded.
RepeatsBackOff ==
    \A s \in snd_buf : (s.xmit - 1 - FastLimit) * (RtoMin \div 2) <= s.rto - RtoMin

\* A segment is held to be lost only a full timeout after it was last sent.
LossTakesTimeout ==
    [][\A s \in snd_buf, t \in snd_buf' :
          s.sn = t.sn /\ t.rto > s.rto /\ s.xmit > 0 => TimeDiff(now, s.ts) >= s.rto]_vars

\* A segment is counted as overtaken, and in the end sent again early, only if
\* the peer has a later one that was put on the wire when this one had last
\* been, or after: old acknowledgements of either say nothing.
OvertakenOnly ==
    [][\A s \in snd_buf, t \in snd_buf' :
          s.sn = t.sn /\ t.fastack > s.fastack =>
              \E x \in sends :
                  /\ x.sn > s.sn /\ x.sn \notin Sns
                  /\ \A y \in sends : y.sn = s.sn => y.at <= x.at]_vars
=============================================================================
