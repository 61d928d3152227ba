---------------------------- MODULE FileTransfer ----------------------------
(***************************************************************************)
(* A client sends a file to a server (src/apps/client_main.c and           *)
(* src/apps/server_main.c).  In each program the main thread drives the    *)
(* transfer or the terminal, and a second thread receives.                 *)
(*                                                                         *)
(* The contexts under omni_send and omni_recv carry whole messages:        *)
(*  - TCP: in order, with a bounded buffer; a connection that is reset     *)
(*    loses what was on its way (module TcpStream has the bytes);          *)
(*  - KCP: in order, and never refused; what the sender still held when    *)
(*    it closed is lost (module Ikcp has the segments).  The calls the two *)
(*    threads of a program make on one KCP context are taken one at a      *)
(*    time, although no lock of the code sees to that;                     *)
(*  - UDP: lost, repeated and reordered.                                   *)
(*                                                                         *)
(* Chunk number i of the file is the message i, and FILE_END the number    *)
(* after the last chunk.  The server's commands all look alike.            *)
(***************************************************************************)
EXTENDS Integers, Sequences

CONSTANTS
    Modes,          \* the ways the two programs may be started
    FileLen,        \* chunks in the input file
    PipeCap,        \* bound: messages on their way in one direction
    MaxCmds         \* bound: commands typed at the server

\* The protocol; is the server's stdin a terminal; was the client started with
\* -w -1; may writing the output file fail.
Mode == [proto : {"tcp", "udp", "kcp"}, interactive : BOOLEAN,
         keepalive : BOOLEAN, diskfull : BOOLEAN]

ASSUME ModeAssumption == Modes \subseteq Mode
ASSUME SizeAssumption == FileLen \in Nat /\ PipeCap \in Nat /\ MaxCmds \in Nat

VARIABLES
    mode,               \* how the programs were started
    main, recv,         \* the labels of each program's two threads
    running,            \* rt.running of each program
    open,               \* is the program's context open
    chan,               \* chan[p]: messages on their way to program p
    rst,                \* was the TCP connection reset
    g_stop, fpos,       \* the client's signal flag; chunks read from the file
    transfer_done,
    frame,              \* the message the server's receive thread handles
    out, file,          \* chunks passed to fwrite; those of them in the file
    cmds, finished      \* history: commands typed; did omni_send(FILE_END) succeed

network  == <<open, chan, rst>>
progress == <<g_stop, fpos, finished>>
output   == <<transfer_done, frame, out, file>>
vars     == <<mode, main, recv, running, network, progress, output, cmds>>

Proto       == mode.proto
Interactive == mode.interactive
KeepAlive   == mode.keepalive
DiskFull    == mode.diskfull

Program == {"client", "server"}
Peer(p) == IF p = "client" THEN "server" ELSE "client"

FILE_END == FileLen + 1
Command  == FileLen + 2
Input    == [i \in 1..FileLen |-> i]

Prefixes(s) == {SubSeq(s, 1, k) : k \in 0..Len(s)}
Without(s, i) == SubSeq(s, 1, i - 1) \o SubSeq(s, i + 1, Len(s))

\* Thread `main` of p goes from one label to another.
Step(p, from, to) == main[p] = from /\ main' = [main EXCEPT ![p] = to]
RecvStep(p, from, to) == recv[p] = from /\ recv' = [recv EXCEPT ![p] = to]

Halt(p) == running' = [running EXCEPT ![p] = FALSE]

\* Both contexts are made and both receive threads are started.
Init ==
    /\ mode \in Modes
    /\ main = [p \in Program |-> "check"] /\ recv = [p \in Program |-> "check"]
    /\ running = [p \in Program |-> TRUE]
    /\ open = [p \in Program |-> TRUE]
    /\ chan = [p \in Program |-> <<>>] /\ rst = FALSE
    /\ g_stop = FALSE /\ fpos = 0 /\ finished = FALSE
    /\ transfer_done = FALSE /\ frame = 0 /\ out = <<>> /\ file = <<>>
    /\ cmds = 0

-----------------------------------------------------------------------------
(* The network, as omni_send, omni_recv and omni_close meet it. *)

\* A datagram is lost or repeated (bound: as long as the output is shorter than
\* the input).
Datagrams ==
    /\ Proto = "udp"
    /\ \E p \in Program : \E i \in 1..Len(chan[p]) :
          \/ chan' = [chan EXCEPT ![p] = Without(@, i)]
          \/ /\ Len(chan[p]) < PipeCap /\ Len(out) < FileLen
             /\ chan' = [chan EXCEPT ![p] = Append(@, @[i])]
    /\ UNCHANGED <<mode, main, recv, running, open, rst, progress, output, cmds>>

\* The TCP connection breaks.
ConnectionBreaks ==
    /\ Proto = "tcp" /\ ~rst
    /\ rst' = TRUE
    /\ chan' \in [Program -> Prefixes(chan["client"]) \cup Prefixes(chan["server"])]
    /\ \A p \in Program : chan'[p] \in Prefixes(chan[p])
    /\ UNCHANGED <<mode, main, recv, running, open, progress, output, cmds>>

\* omni_send(m) by p succeeds.  A TCP peer that has closed answers with a reset.
SendOk(p, m) ==
    LET to == Peer(p)
        put == chan' = [chan EXCEPT ![to] = Append(@, m)]
    IN
    /\ \/ Proto = "tcp" /\ ~rst /\ open[to] /\ Len(chan[to]) < PipeCap /\ put /\ UNCHANGED rst
       \/ /\ Proto = "tcp" /\ ~rst /\ ~open[to]
          /\ rst' = TRUE
          /\ \E rest \in Prefixes(chan[p]) : chan' = [chan EXCEPT ![p] = rest]
       \/ Proto = "kcp" /\ put /\ UNCHANGED rst
       \/ Proto = "udp" /\ open[to] /\ Len(chan[to]) < PipeCap /\ put /\ UNCHANGED rst
       \/ Proto = "udp" /\ UNCHANGED <<chan, rst>>
    /\ UNCHANGED open

\* omni_send by p fails; on a UDP server also when it knows no peer yet.
SendFails(p) == Proto = "udp" \/ (Proto = "tcp" /\ (rst \/ ~open[Peer(p)]))

\* omni_recv by p returns the message m.
RecvMessage(p, m) ==
    /\ \E i \in 1..Len(chan[p]) :
          /\ i = 1 \/ Proto = "udp"
          /\ m = chan[p][i]
          /\ chan' = [chan EXCEPT ![p] = Without(@, i)]
    /\ UNCHANGED <<open, rst>>

\* omni_recv by p returns 0: the end of a TCP stream; no message yet on KCP; an
\* empty datagram or a signal on UDP.
RecvNothing(p) == Proto = "tcp" => chan[p] = <<>> /\ ~open[Peer(p)]

\* omni_recv by p fails.
RecvFails(p) == Proto = "udp" \/ (Proto = "tcp" /\ chan[p] = <<>> /\ rst)

\* What becomes of the messages on their way when p's context is closed.  A TCP
\* socket closed with data unread resets the connection; a KCP context takes
\* along what the peer has not received (ikcp_release).
CloseContext(p) ==
    /\ open' = [open EXCEPT ![p] = FALSE]
    /\ rst' = (rst \/ (Proto = "tcp" /\ chan[p] # <<>>))
    /\ \E rest \in IF rst' \/ Proto = "kcp" THEN Prefixes(chan[Peer(p)])
                   ELSE {chan[Peer(p)]} :
          chan' = [q \in Program |-> IF q = p THEN <<>> ELSE rest]

\* A signal ends the process: SIGPIPE, SIGKILL or, at the server, SIGINT.
Kill(p) ==
    /\ main[p] \notin {"done", "killed"}
    /\ main' = [main EXCEPT ![p] = "killed"]
    /\ recv' = [recv EXCEPT ![p] = "killed"]
    /\ IF open[p] THEN CloseContext(p) ELSE UNCHANGED network
    /\ UNCHANGED <<mode, running, progress, output, cmds>>

-----------------------------------------------------------------------------
(* The teardown both programs share. *)

\* running = 0, and pthread_cancel.
Cancel(p) ==
    /\ Step(p, "cancel", "join")
    /\ Halt(p)
    /\ UNCHANGED <<mode, recv, network, progress, output, cmds>>

\* Fault: the receive thread is not waited for.
JoinNot(p) ==
    /\ Step(p, "join", "close")
    /\ UNCHANGED <<mode, recv, running, network, progress, output, cmds>>

\* pthread_join: the thread has returned, or the cancellation takes effect where
\* it blocks: in omni_recv, fwrite or fflush.
Join(p) ==
    /\ Step(p, "join", "close")
    /\ recv[p] \in {"recv", "handle", "exit"}
    /\ recv' = [recv EXCEPT ![p] = "exit"]
    /\ UNCHANGED <<mode, running, network, progress, output, cmds>>

-----------------------------------------------------------------------------
(* The client. *)

\* SIGINT or SIGTERM: on_signal.
Signal ==
    /\ ~g_stop
    /\ main["client"] \notin {"done", "killed"}
    /\ g_stop' = TRUE
    /\ UNCHANGED <<mode, main, recv, running, network, fpos, finished, output, cmds>>

\* Fault: the end of the file shows only after one more chunk.
MoreToReadLate == fpos <= FileLen

\* fread returns another chunk.
MoreToRead == fpos < FileLen

\* The head of the send loop: stopped by the receive thread or by a signal, or
\* fread returns a chunk, the end of the file or an error.
ReadChunk ==
    /\ \/ /\ ~running["client"]
          /\ Step("client", "check", "after") /\ UNCHANGED <<running, fpos>>
       \/ /\ running["client"] /\ g_stop
          /\ Step("client", "check", "after") /\ Halt("client") /\ UNCHANGED fpos
       \/ /\ running["client"] /\ ~g_stop /\ MoreToRead
          /\ Step("client", "check", "send") /\ fpos' = fpos + 1 /\ UNCHANGED running
       \/ /\ running["client"] /\ ~g_stop /\ ~MoreToRead
          /\ Step("client", "check", "after") /\ UNCHANGED <<running, fpos>>
       \/ /\ running["client"] /\ ~g_stop
          /\ Step("client", "check", "after") /\ Halt("client") /\ UNCHANGED fpos
    /\ UNCHANGED <<mode, recv, network, g_stop, finished, output, cmds>>

SendChunk ==
    /\ \/ /\ SendOk("client", fpos)
          /\ Step("client", "send", "check") /\ UNCHANGED running
       \/ /\ SendFails("client")
          /\ Step("client", "send", "after") /\ Halt("client") /\ UNCHANGED network
    /\ UNCHANGED <<mode, recv, progress, output, cmds>>

\* Fault: FILE_END is sent however the loop was left.
AfterLoopAlways ==
    /\ Step("client", "after", "send_end")
    /\ UNCHANGED <<mode, recv, running, network, progress, output, cmds>>

\* FILE_END is sent only if nothing went wrong.
AfterLoop ==
    /\ Step("client", "after", IF running["client"] THEN "send_end" ELSE "wait")
    /\ UNCHANGED <<mode, recv, running, network, progress, output, cmds>>

SendEnd ==
    /\ Step("client", "send_end", "wait")
    /\ \/ SendOk("client", FILE_END) /\ finished' = TRUE /\ UNCHANGED running
       \/ SendFails("client") /\ Halt("client") /\ UNCHANGED <<network, finished>>
    /\ UNCHANGED <<mode, recv, g_stop, fpos, output, cmds>>

\* Fault: keepalive mode does not look at the signal flag.
WaitUntilError ==
    /\ Step("client", "wait", "cancel")
    /\ KeepAlive => ~running["client"]
    /\ UNCHANGED <<mode, recv, running, network, progress, output, cmds>>

\* The end of the waiting after the transfer.
Wait ==
    /\ Step("client", "wait", "cancel")
    /\ KeepAlive => ~running["client"] \/ g_stop
    /\ UNCHANGED <<mode, recv, running, network, progress, output, cmds>>

ClientClose ==
    /\ Step("client", "close", "done")
    /\ CloseContext("client")
    /\ UNCHANGED <<mode, recv, running, progress, output, cmds>>

ClientMain ==
    \/ ReadChunk \/ SendChunk \/ AfterLoop \/ SendEnd \/ Wait
    \/ Cancel("client") \/ Join("client") \/ ClientClose

\* The receive thread prints commands; 0 makes it try again, an error return.
ClientRecv ==
    /\ \/ /\ RecvStep("client", "check", IF running["client"] THEN "recv" ELSE "exit")
          /\ UNCHANGED <<running, network>>
       \/ /\ RecvMessage("client", Command)
          /\ RecvStep("client", "recv", "check") /\ UNCHANGED running
       \/ /\ RecvNothing("client")
          /\ RecvStep("client", "recv", "check") /\ UNCHANGED <<running, network>>
       \/ /\ RecvFails("client")
          /\ RecvStep("client", "recv", "exit") /\ Halt("client") /\ UNCHANGED network
    /\ UNCHANGED <<mode, main, progress, output, cmds>>

-----------------------------------------------------------------------------
(* The server. *)

\* The main thread waits for the end of the transfer.
Poll ==
    /\ ~Interactive
    /\ Step("server", "check", "cancel")
    /\ ~running["server"] \/ transfer_done
    /\ UNCHANGED <<mode, recv, running, network, progress, output, cmds>>

\* The main thread reads lines from the terminal: quit or the end of the input,
\* an empty line, or a command.
Terminal ==
    /\ Interactive
    /\ \/ /\ Step("server", "check", IF running["server"] THEN "fgets" ELSE "cancel")
          /\ UNCHANGED cmds
       \/ Step("server", "fgets", "cancel") /\ UNCHANGED cmds
       \/ Step("server", "fgets", "check") /\ UNCHANGED cmds
       \/ /\ Step("server", "fgets", "command")
          /\ cmds < MaxCmds /\ cmds' = cmds + 1
    /\ UNCHANGED <<mode, recv, running, network, progress, output>>

SendCommand ==
    /\ \/ SendOk("server", Command) /\ Step("server", "command", "check")
       \/ SendFails("server") /\ Step("server", "command", "cancel") /\ UNCHANGED network
    /\ UNCHANGED <<mode, recv, running, progress, output, cmds>>

\* What a flush of stdio's buffer leaves in the file.
Flushed(chunks) ==
    IF DiskFull THEN {SubSeq(chunks, 1, k) : k \in Len(file)..Len(chunks)} ELSE {chunks}

\* omni_close and fclose.
ServerClose ==
    /\ Step("server", "close", "done")
    /\ CloseContext("server")
    /\ file' \in Flushed(out)
    /\ UNCHANGED <<mode, recv, running, progress, transfer_done, frame, out, cmds>>

ServerMain ==
    \/ Poll \/ Terminal \/ SendCommand
    \/ Cancel("server") \/ Join("server") \/ ServerClose

\* Fault: on TCP too the thread waits for more.
ZeroIsNoEnd == FALSE

\* What omni_recv = 0 means depends on the protocol.
ZeroIsEnd == Proto = "tcp"

\* The receive thread takes a message, 0 or an error from omni_recv.
ServerRecv ==
    /\ \/ /\ RecvStep("server", "check", IF running["server"] THEN "recv" ELSE "exit")
          /\ UNCHANGED <<running, network, frame>>
       \/ /\ frame' \in 1..FILE_END /\ RecvMessage("server", frame')
          /\ RecvStep("server", "recv", "handle") /\ UNCHANGED running
       \/ /\ RecvNothing("server") /\ ZeroIsEnd
          /\ RecvStep("server", "recv", "exit") /\ Halt("server")
          /\ UNCHANGED <<network, frame>>
       \/ /\ RecvNothing("server") /\ ~ZeroIsEnd
          /\ RecvStep("server", "recv", "check") /\ UNCHANGED <<running, network, frame>>
       \/ /\ RecvFails("server")
          /\ RecvStep("server", "recv", "exit") /\ Halt("server")
          /\ UNCHANGED <<network, frame>>
    /\ UNCHANGED <<mode, main, progress, transfer_done, out, file, cmds>>

\* FILE_CHUNK: fwrite, which passes on any part of its buffer, or fails.
WriteChunk ==
    /\ frame # FILE_END
    /\ \/ /\ RecvStep("server", "handle", "check") /\ UNCHANGED running
          /\ out' = Append(out, frame)
          /\ \E k \in Len(file)..Len(out') : file' = SubSeq(out', 1, k)
       \/ /\ RecvStep("server", "handle", "exit") /\ Halt("server")
          /\ DiskFull /\ UNCHANGED <<out, file>>
    /\ UNCHANGED <<mode, main, network, progress, transfer_done, frame, cmds>>

\* Fault: the buffer is not flushed.
EndFileUnflushed ==
    /\ frame = FILE_END
    /\ RecvStep("server", "handle", "check")
    /\ transfer_done' = TRUE
    /\ UNCHANGED <<mode, main, running, network, progress, frame, out, file, cmds>>

\* Fault: a frame without payload is refused.
EndFileRefused ==
    /\ frame = FILE_END
    /\ RecvStep("server", "handle", "check")
    /\ UNCHANGED <<mode, main, running, network, progress, output, cmds>>

\* FILE_END: fflush, whose result is not looked at, and transfer_done.
EndFile ==
    /\ frame = FILE_END
    /\ RecvStep("server", "handle", "check")
    /\ file' \in Flushed(out)
    /\ transfer_done' = TRUE
    /\ UNCHANGED <<mode, main, running, network, progress, frame, out, cmds>>

-----------------------------------------------------------------------------
Ended(p) == main[p] \in {"done", "killed"}

Next ==
    \/ Signal \/ ClientMain \/ ClientRecv
    \/ ServerMain \/ ServerRecv \/ WriteChunk \/ EndFile
    \/ Datagrams \/ ConnectionBreaks
    \/ \E p \in Program : Kill(p)
    \/ Ended("client") /\ Ended("server") /\ UNCHANGED vars

Spec == Init /\ [][Next]_vars

Receives(p) == \E m \in 1..Command : RecvMessage(p, m)

\* Every thread runs on when it is not blocked, the receive threads get the
\* message that has arrived, and sleep ends.  No line need ever be typed, no
\* signal sent.
Fairness ==
    /\ WF_vars(ClientMain) /\ WF_vars(ClientRecv)
    /\ WF_vars(ServerMain /\ main["server"] # "fgets")
    /\ WF_vars(ServerRecv) /\ SF_vars(ServerRecv /\ Receives("server"))
    /\ WF_vars(WriteChunk) /\ WF_vars(EndFile)

FairSpec == Spec /\ Fairness
-----------------------------------------------------------------------------
MainLabels == {"check", "send", "after", "send_end", "wait", "fgets", "command",
               "cancel", "join", "close", "done", "killed"}

TypeOK ==
    /\ mode \in Modes
    /\ main \in [Program -> MainLabels]
    /\ recv \in [Program -> {"check", "recv", "handle", "exit", "killed"}]
    /\ running \in [Program -> BOOLEAN] /\ open \in [Program -> BOOLEAN]
    /\ chan \in [Program -> Seq(1..Command)] /\ rst \in BOOLEAN
    /\ g_stop \in BOOLEAN /\ fpos \in 0..FileLen /\ finished \in BOOLEAN
    /\ transfer_done \in BOOLEAN /\ frame \in 0..FILE_END
    /\ out \in Seq(1..FileLen) /\ file \in Seq(1..FileLen)
    /\ cmds \in 0..MaxCmds

\* transfer_done promises that the whole input is in the output file ("正常结束时
\* 发送 FILE_END，通知服务端落盘完成", client_main.c:324), whatever interrupted
\* the client, the server or the connection on the way.  UDP keeps no such
\* promise.
DoneIsComplete == transfer_done /\ Proto # "udp" => file = Input

\* No receive thread uses a context, or the output file, once it is closed.
ClosedIsUnused ==
    \A p \in Program : ~open[p] => recv[p] \in {"exit", "killed"}

\* A server that is not interactive ends once the client has, also when the
\* client was killed or gave up before FILE_END.
ServerEnds == Ended("client") ~> Ended("server")

\* Once omni_send(FILE_END) has succeeded the server comes to know it
\* ("发送数据（阻塞直到全部发送或出错）", network.h:68), unless the connection
\* or one of the processes breaks down.
SentArrives ==
    finished ~> transfer_done \/ rst \/ \E p \in Program : main[p] = "killed"

\* Ctrl+C ends the client ("主线程据此触发收尾逻辑，保证线程/连接能优雅退出",
\* client_main.c:36-38).
StopEnds == g_stop ~> Ended("client")
=============================================================================
