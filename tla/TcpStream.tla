----------------------------- MODULE TcpStream -----------------------------
(***************************************************************************)
(* One direction of a TCP connection of OmniSocket (src/protocols/         *)
(* tcp_impl.c): tcp_send frames a message with a header that holds its     *)
(* length, and tcp_recv cuts the byte stream into messages again, however  *)
(* the kernel splits the writes and the reads.                             *)
(*                                                                         *)
(* A byte is the message it belongs to, the length that message's header   *)
(* announces, and its position in the frame.  A read or write interrupted  *)
(* by a signal (EINTR) is tried again with nothing changed, so it is no    *)
(* step here.  The loops above stop at the first negative result, as those *)
(* of the client, the server and the relay do.                             *)
(***************************************************************************)
EXTENDS Integers, Sequences

CONSTANTS
    HdrLen,     \* MSG_HEADER_SIZE (16)
    BufLen,     \* the receiver's buffer (16 + 65536)
    SockCap,    \* bound: bytes the kernel buffers on the way
    MaxMsgs     \* bound: messages sent

ASSUME StreamAssumption == {HdrLen, BufLen, SockCap} \subseteq Nat \ {0} /\ MaxMsgs \in Nat

VARIABLES
    wpc, wbuf,          \* the sender: what it is doing, the bytes still to write
    stream,             \* the bytes on their way
    fin, reset,         \* has the sender closed; was unread data discarded by that
    rpc, rbuf, need,    \* the receiver: what it reads, the bytes so far, and how many
    sent, got           \* history: the payload bytes submitted and handed over

vars == <<wpc, wbuf, stream, fin, reset, rpc, rbuf, need, sent, got>>
sender   == <<wpc, wbuf, sent>>
receiver == <<rpc, rbuf, need, got>>

Payload(m, len) == [i \in 1..len |-> [msg |-> m, frg |-> len - i]]
NextMsg == IF sent = <<>> THEN 1 ELSE sent[Len(sent)].msg + 1

\* What tcp_send writes: omni_msg_header_encode and the payload.
Frame(m, len) ==
    [p \in 1..(HdrLen + len) |-> [msg |-> m, len |-> len, pos |-> p]]

\* The payload bytes of what was read, as the program sees them.
Bytes(units) ==
    [i \in 1..Len(units) |->
        [msg |-> units[i].msg, frg |-> HdrLen + units[i].len - units[i].pos]]

Init ==
    /\ wpc = "idle" /\ wbuf = <<>>
    /\ stream = <<>> /\ fin = FALSE /\ reset = FALSE
    /\ rpc = "idle" /\ rbuf = <<>> /\ need = 0
    /\ sent = <<>> /\ got = <<>>

-----------------------------------------------------------------------------
\* Fault: only the chunk, not the frame around it, is held to the buffer size.
AcceptLenOver(len) == len <= BufLen + 1

\* A chunk of at most 65536 bytes and its application header fit the buffer.
AcceptLen(len) == len <= BufLen

\* tcp_send is called.
TcpSend(len) ==
    /\ wpc = "idle" /\ ~fin
    /\ NextMsg <= MaxMsgs
    /\ AcceptLen(len)
    /\ sent' = sent \o Payload(NextMsg, len)
    /\ wbuf' = Frame(NextMsg, len)
    /\ wpc' = "write"
    /\ UNCHANGED <<stream, fin, reset, receiver>>

\* Fault: a short write is taken for a whole one.
WriteOnce(k) ==
    /\ wpc = "write"
    /\ k \in 1..Len(wbuf) /\ Len(stream) + k <= SockCap
    /\ rpc # "gone"
    /\ stream' = stream \o SubSeq(wbuf, 1, k)
    /\ wbuf' = <<>>
    /\ wpc' = "idle"
    /\ UNCHANGED <<fin, reset, sent, receiver>>

\* One write of tcp_write_n, which the kernel may cut short.
WriteSome(k) ==
    /\ wpc = "write"
    /\ k \in 1..Len(wbuf) /\ Len(stream) + k <= SockCap
    /\ rpc # "gone"
    /\ stream' = stream \o SubSeq(wbuf, 1, k)
    /\ wbuf' = SubSeq(wbuf, k + 1, Len(wbuf))
    /\ wpc' = IF k = Len(wbuf) THEN "idle" ELSE "write"
    /\ UNCHANGED <<fin, reset, sent, receiver>>

\* The peer is gone: the bytes vanish, write fails (OMNI_ERR_IO), or its
\* SIGPIPE, which no program of the repository ignores, kills the process.
WriteToNobody ==
    /\ wpc = "write" /\ rpc = "gone"
    /\ \/ wpc' = "idle" /\ wbuf' = <<>>
       \/ wpc' \in {"failed", "sigpipe"} /\ UNCHANGED wbuf
    /\ UNCHANGED <<stream, fin, reset, sent, receiver>>

\* tcp_close between two messages or after a failure, or the end of the whole
\* process at any time.  When the sender leaves data of the other direction
\* unread, the kernel resets the connection and drops what is on its way.
TcpClose ==
    /\ ~fin
    /\ fin' = TRUE
    /\ wpc' = IF wpc = "write" THEN "killed" ELSE wpc
    /\ \/ UNCHANGED <<stream, reset>>
       \/ reset' = TRUE /\ \E k \in 0..Len(stream) : stream' = SubSeq(stream, 1, k)
    /\ UNCHANGED <<wbuf, sent, receiver>>

-----------------------------------------------------------------------------
\* tcp_recv is called.
TcpRecv ==
    /\ rpc = "idle"
    /\ rpc' = "header" /\ need' = HdrLen /\ rbuf' = <<>>
    /\ UNCHANGED <<sender, stream, fin, reset, got>>

\* omni_msg_header_decode: the length, if these are the bytes of one header.
\* What other bytes would decode to does not matter: FramesIntact fails.
Decode(hdr) == hdr[1].len

\* payload_len > len
TooSmall(len) == len > BufLen

\* Fault: a read waits until all that is missing has arrived.
ReadWhole(k) ==
    /\ rpc \in {"header", "payload"}
    /\ k = need - Len(rbuf) /\ k <= Len(stream)
    /\ stream' = SubSeq(stream, k + 1, Len(stream))
    /\ LET buf == rbuf \o SubSeq(stream, 1, k) IN
       IF rpc = "header"
       THEN rpc' = "payload" /\ need' = Decode(buf) /\ rbuf' = <<>> /\ UNCHANGED got
       ELSE rpc' = "idle" /\ got' = got \o Bytes(buf) /\ UNCHANGED <<need, rbuf>>
    /\ UNCHANGED <<sender, fin, reset>>

\* Fault: a header that came in two pieces starts over.
ReadSomeAfresh(k) ==
    /\ rpc \in {"header", "payload"}
    /\ k \in 1..(need - Len(rbuf)) /\ k <= Len(stream)
    /\ stream' = SubSeq(stream, k + 1, Len(stream))
    /\ LET buf == rbuf \o SubSeq(stream, 1, k) IN
       IF Len(buf) < need
       THEN rbuf' = <<>> /\ UNCHANGED <<rpc, need, got>>
       ELSE IF rpc = "payload"
       THEN rpc' = "idle" /\ got' = got \o Bytes(buf) /\ UNCHANGED <<need, rbuf>>
       ELSE rpc' = "payload" /\ need' = Decode(buf) /\ rbuf' = <<>> /\ UNCHANGED got
    /\ UNCHANGED <<sender, fin, reset>>

\* One read of tcp_read_n: some of the bytes that are missing; with the last of
\* them the header is decoded or the message handed over.
ReadSome(k) ==
    /\ rpc \in {"header", "payload"}
    /\ k \in 1..(need - Len(rbuf)) /\ k <= Len(stream)
    /\ stream' = SubSeq(stream, k + 1, Len(stream))
    /\ LET buf == rbuf \o SubSeq(stream, 1, k) IN
       IF Len(buf) < need
       THEN rbuf' = buf /\ UNCHANGED <<rpc, need, got>>
       ELSE IF rpc = "payload"
       THEN rpc' = "idle" /\ got' = got \o Bytes(buf) /\ UNCHANGED <<need, rbuf>>
       ELSE IF TooSmall(Decode(buf))
       THEN rpc' = "too_small" /\ UNCHANGED <<need, rbuf, got>>
       ELSE rpc' = "payload" /\ need' = Decode(buf) /\ rbuf' = <<>> /\ UNCHANGED got
    /\ UNCHANGED <<sender, fin, reset>>

\* Fault: an end of stream within a frame is taken for a close.
ReadEndAnywhere ==
    /\ rpc \in {"header", "payload"} /\ stream = <<>> /\ fin
    /\ rpc' = "closed"
    /\ UNCHANGED <<sender, stream, fin, reset, rbuf, need, got>>

\* read returns 0: tcp_recv returns 0 only between two frames, OMNI_ERR_IO
\* within one.  After a reset read fails.
ReadEnd ==
    /\ rpc \in {"header", "payload"} /\ stream = <<>> /\ fin
    /\ rpc' = IF ~reset /\ rpc = "header" /\ rbuf = <<>> THEN "closed" ELSE "failed"
    /\ UNCHANGED <<sender, stream, fin, reset, rbuf, need, got>>

\* The receiving process closes the connection or ends.
ReceiverGoes ==
    /\ rpc # "gone"
    /\ rpc' = "gone"
    /\ stream' = <<>>
    /\ UNCHANGED <<sender, fin, reset, rbuf, need, got>>

-----------------------------------------------------------------------------
Write == \E k \in 1..SockCap : WriteSome(k)
Read  == \E k \in 1..SockCap : ReadSome(k)

Ended == fin /\ rpc = "gone"

Next ==
    \/ \E len \in 1..(BufLen + 1) : TcpSend(len)
    \/ Write \/ WriteToNobody \/ TcpClose
    \/ TcpRecv \/ Read \/ ReadEnd \/ ReceiverGoes
    \/ Ended /\ UNCHANGED vars

Spec == Init /\ [][Next]_vars

\* Both sides go on with a call they are in, and the receiver calls again.
Fairness ==
    /\ WF_vars(Write) /\ WF_vars(WriteToNobody)
    /\ WF_vars(TcpRecv) /\ WF_vars(Read) /\ WF_vars(ReadEnd)

FairSpec == Spec /\ Fairness
-----------------------------------------------------------------------------
Byte == [msg : 1..MaxMsgs, frg : 0..(BufLen - 1)]
Unit == [msg : 1..MaxMsgs, len : 1..BufLen, pos : 1..(HdrLen + BufLen)]

TypeOK ==
    /\ wpc \in {"idle", "write", "failed", "sigpipe", "killed"}
    /\ rpc \in {"idle", "header", "payload", "closed", "failed", "too_small", "gone"}
    /\ wbuf \in Seq(Unit) /\ stream \in Seq(Unit) /\ rbuf \in Seq(Unit)
    /\ fin \in BOOLEAN /\ reset \in BOOLEAN
    /\ need \in {0, HdrLen} \cup 1..BufLen
    /\ sent \in Seq(Byte) /\ got \in Seq(Byte)

\* What tcp_recv hands over is what tcp_send was given, message by message,
\* wherever reads and writes were cut: a message boundary is never lost and a
\* partial message never handed over ("避免粘包/拆包带来的上层读取混乱",
\* tcp_impl.c:6-7).
FramesIntact ==
    /\ Len(got) <= Len(sent)
    /\ \A i \in 1..Len(got) : got[i] = sent[i]
    /\ got # <<>> => got[Len(got)].frg = 0

\* When tcp_recv returns 0, which the server takes for the end of the connection,
\* every message whose tcp_send returned was handed over; only the one the
\* sender was killed in can be missing.
ClosedIsComplete ==
    rpc = "closed" =>
        /\ fin
        /\ \A i \in (Len(got) + 1)..Len(sent) : sent[i].msg = sent[Len(sent)].msg
        /\ wpc = "idle" => got = sent

\* The receive buffer is large enough for every message a program can send, so
\* the stream is never left in the middle of a frame.
BufferFits == rpc # "too_small"

\* A message that was submitted is handed over, also after the sender closed,
\* unless the sender was killed within it, the connection was reset or the
\* receiver went.
Arrives ==
    \A k \in 1..(MaxMsgs * BufLen) :
        Len(sent) >= k ~> Len(got) >= k \/ wpc = "killed" \/ reset \/ rpc = "gone"

\* The framed stream is a reliable channel in this direction.
Channel == INSTANCE ReliableChannel WITH
    MaxCount <- BufLen,
    sent <- [client |-> sent, server |-> <<>>],
    got  <- [client |-> <<>>, server |-> got]
ImplementsChannel == Channel!Spec
=============================================================================
