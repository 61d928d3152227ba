------------------------------ MODULE KcpRace -------------------------------
(***************************************************************************)
(* The two threads of omni_client or of an interactive omni_server on one  *)
(* ikcpcb.  The main thread is in kcp_send: ikcp_send appends a segment to *)
(* snd_queue, and ikcp_flush moves what is there to snd_buf.  The receive  *)
(* thread is in kcp_recv, whose ikcp_update flushes too.  There is no      *)
(* lock, so the steps here are the single accesses to the pointers of the  *)
(* two lists, in the order of the macros of ikcp.h.                        *)
(*                                                                         *)
(* Left out: everything else the two threads share (ikcp_input takes       *)
(* segments out of snd_buf and frees them, the counters, the buffer of     *)
(* ikcp_flush), and the reordering a compiler may add: the outcomes here   *)
(* are some of those the program can have.  The window never closes.       *)
(***************************************************************************)
EXTENDS Integers, FiniteSets

CONSTANTS
    MaxSegs,    \* bound: segments submitted
    snd_queue, snd_buf, \* the heads of the two lists
    Null,
    Thread      \* the threads that call: "main", "recv" or both

Segs == 1..MaxSegs
Heads == {snd_queue, snd_buf}

VARIABLES
    next, prev,     \* the pointers of the heads and of the segments
    sn, snd_nxt,    \* the number of a segment, once it has one
    count,          \* segments allocated
    at, seg         \* where each thread is, and the segment it works on

vars == <<next, prev, sn, snd_nxt, count, at, seg>>

\* ikcp_create: both lists are empty (a segment gets its pointers in ikcp_send).
Init ==
    /\ next = [a \in Segs \cup Heads |-> IF a \in Heads THEN a ELSE Null]
    /\ prev = next
    /\ sn = [s \in Segs |-> Null] /\ snd_nxt = 0
    /\ count = 0
    /\ at = [t \in Thread |-> "out"] /\ seg = [t \in Thread |-> Null]

Goes(t, from, to) == at[t] = from /\ at' = [at EXCEPT ![t] = to]

\* A write through a pointer that is NULL ends the process.
SetNext(a, value) == a # Null /\ next' = [next EXCEPT ![a] = value]
SetPrev(a, value) == a # Null /\ prev' = [prev EXCEPT ![a] = value]

-----------------------------------------------------------------------------
\* ikcp_send makes a segment of the message.
NewSegment ==
    /\ "main" \in Thread
    /\ count < MaxSegs
    /\ Goes("main", "out", "q_link")
    /\ count' = count + 1
    /\ seg' = [seg EXCEPT !["main"] = count + 1]
    /\ UNCHANGED <<next, prev, sn, snd_nxt>>

\* The three parts of iqueue_add_tail(seg, head), at the labels of `ls`: the
\* segment's own pointers, those of the last segment of the list, and the head.
AddTail(t, head, ls, after) ==
    \/ /\ Goes(t, ls[1], ls[2])
       /\ SetPrev(seg[t], prev[head]) /\ SetNext(seg[t], head)
       /\ UNCHANGED <<sn, snd_nxt, count, seg>>
    \/ /\ Goes(t, ls[2], ls[3])
       /\ SetNext(prev[head], seg[t])
       /\ UNCHANGED <<prev, sn, snd_nxt, count, seg>>
    \/ /\ Goes(t, ls[3], after)
       /\ SetPrev(head, seg[t])
       /\ UNCHANGED <<next, sn, snd_nxt, count, seg>>

Enqueue ==
    /\ "main" \in Thread
    /\ AddTail("main", snd_queue, <<"q_link", "q_last", "q_head">>, "update")

\* ikcp_update: main's after ikcp_send, the receive thread's at any time; the
\* interval may have passed or not.
Update(t) ==
    /\ \/ at[t] = "update"
       \/ at[t] = "out" /\ t = "recv"
    /\ \E to \in {"test", "out"} : at' = [at EXCEPT ![t] = to]
    /\ UNCHANGED <<next, prev, sn, snd_nxt, count, seg>>

\* ikcp_flush: while there is a first segment in snd_queue...
Test(t) ==
    /\ \/ next[snd_queue] = snd_queue /\ Goes(t, "test", "out") /\ UNCHANGED seg
       \/ /\ next[snd_queue] # snd_queue
          /\ Goes(t, "test", "d_next")
          /\ seg' = [seg EXCEPT ![t] = next[snd_queue]]
    /\ UNCHANGED <<next, prev, sn, snd_nxt, count>>

\* ... it is taken out by iqueue_del, ...
Del(t) ==
    \/ /\ Goes(t, "d_next", "d_prev")
       /\ SetPrev(next[seg[t]], prev[seg[t]])
       /\ UNCHANGED <<next, sn, snd_nxt, count, seg>>
    \/ /\ Goes(t, "d_prev", "d_own")
       /\ SetNext(prev[seg[t]], next[seg[t]])
       /\ UNCHANGED <<prev, sn, snd_nxt, count, seg>>
    \/ /\ Goes(t, "d_own", "b_link")
       /\ SetNext(seg[t], Null) /\ SetPrev(seg[t], Null)
       /\ UNCHANGED <<sn, snd_nxt, count, seg>>

\* ... put into snd_buf ...
Append(t) == AddTail(t, snd_buf, <<"b_link", "b_last", "b_head">>, "number")

\* ... and given its number.
Number(t) ==
    /\ Goes(t, "number", "test")
    /\ seg[t] \in Segs
    /\ sn' = [sn EXCEPT ![seg[t]] = snd_nxt]
    /\ snd_nxt' = snd_nxt + 1
    /\ UNCHANGED <<next, prev, count, seg>>

Next ==
    \/ NewSegment \/ Enqueue
    \/ \E t \in Thread : Update(t) \/ Test(t) \/ Del(t) \/ Append(t) \/ Number(t)

Spec == Init /\ [][Next]_vars
-----------------------------------------------------------------------------
\* The segments a walk along `next` from the head of a list meets.
Listed(head) ==
    LET walk[k \in 0..MaxSegs] == IF k = 0 THEN next[head]
                                  ELSE IF walk[k - 1] \in Segs THEN next[walk[k - 1]]
                                  ELSE walk[k - 1]
    IN {walk[k] : k \in 0..MaxSegs} \cap Segs

\* The transport is reliable only if the engine keeps what omni_send accepted:
\* when both threads are out of it, every segment waits in snd_queue without a
\* number or in snd_buf with one.
SegmentsKept ==
    (\A t \in Thread : at[t] = "out") =>
        /\ Listed(snd_queue) \cup Listed(snd_buf) = 1..count
        /\ \A s \in 1..count :
              s \in Listed(snd_queue) <=> sn[s] = Null
        /\ \A s \in 1..count :
              s \in Listed(snd_buf) <=> sn[s] # Null
=============================================================================
