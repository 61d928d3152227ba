# OmniSocket in TLA+

OmniSocket sends a file from a client to a server over TCP, UDP or KCP, directly or through a
relay.  This directory holds specifications of its parts, the TLC configurations that check them
on small instances, and TLAPS proofs of their main properties.  Paths below are relative to the
repository; `ikcp.c`, `tcp_impl.c`, ... are under `src/protocols`, `client_main.c`, ... under
`src/apps`.

To run: `tlc -config <run>.cfg <module>` with the module and cfg `PROJECT.json` names for a run,
`tlapm <module>.tla` for the proofs.

## 1. The system

| Component | State | Operations | Interacts with |
|---|---|---|---|
| KCP ARQ engine (`ikcp.c`, `ikcp.h`) | `snd_una`, `snd_nxt`, `rcv_nxt`, windows, the four segment queues, `acklist`, probe flags, timers, RTT, congestion window | `ikcp_send`, `ikcp_recv`, `ikcp_input`, `ikcp_update`/`ikcp_flush`, `ikcp_check`, setters | calls `kcp_output`; is called by the KCP transport |
| KCP transport (`kcp_impl.c`) | socket, peer address, `ikcpcb` | init, send, recv (both drive `kcp_update_loop`), close | one context is used by two threads without a lock |
| UDP transport (`udp_impl.c`) | socket, peer address (last sender) | init, send, recv, close | the same |
| TCP transport (`tcp_impl.c`) | socket | init (accept or connect), send and recv of frames with a 16-byte header, close | the byte stream of the kernel |
| Protocol factory (`core/network.c`) | table of functions | `omni_init/send/recv/close` | dispatches; counts in the logger |
| Client (`client_main.c`) | `running`, `g_stop`, the input file | main: send loop, FILE_END, wait, teardown; receive thread: print commands; signal handler | `omni_*` on one context from two threads |
| Server (`server_main.c`) | `running`, `transfer_done`, the output file | main: poll, or read commands from a terminal, teardown; receive thread: write chunks | the same |
| Relay (`relay_main.c`) | `rx_ctx`, `tx_ctx`, target address, `tx_mu`, `running` | main: receive and forward; control thread: `set`, `show`, `quit` | two contexts, one replaced while in use |
| Logger (`core/logger.c`) | global statistics, JSON file | counters, averages, log lines | called by every thread, no lock |
| Header codec (`common.h`) | - | encode and decode of type, length, timestamp | TCP framing, application messages |
| Test program, smoke test | - | echo loop; `cmp` of files | the above |

What is hard in it: KCP over a network that loses, duplicates and reorders while windows close and
open; two threads in every program, with cancellation and signals; a TCP stream cut at any byte and
a peer that goes at any byte; the meaning of an `omni_recv` that returns 0, which differs between
protocols; replacing a context while the other thread sends on it; what is still queued or buffered
when something closes.  `PROJECT.json` lists the hazards line by line, each with the properties that
would catch it or the reason why none does yet.

What makes each part correct:
- KCP: messages are delivered whole, once, in order; nothing acknowledged is unheld; buffers stay
  within the windows; a closed window reopens; everything sent arrives on a fair network.
- TCP framing: message boundaries survive any cutting; an orderly close is reported only between
  frames and then nothing is missing.
- Client and server: `transfer_done` means the file is complete; the teardown never closes a
  context in use; both programs end.
- Relay: no context is used after its close or leaked; order is kept across a switch of targets;
  `show` is true; `quit` ends it.

## 2. The modules

| Module | Models | Theorems in |
|---|---|---|
| `ReliableChannel` | abstract: what a message transport promises | |
| `Ikcp` (`MCIkcp` for TLC) | `ikcp.c` at both ends of a conversation, and the network | `IkcpProofs`, `IkcpQueueProofs` |
| `SerialNumber` | the 32-bit arithmetic of `ikcp.c` | `SerialNumberProofs` |
| `KcpTimers` (`MCKcpTimers`) | `ikcp.c` at one end, by the clock: flush interval, timeouts, fast resends, probes, `ikcp_check` | `KcpTimersProofs` |
| `KcpTransport` (`MCKcpTransport`) | `kcp_impl.c` at both ends, over `Ikcp` | `KcpTransportProofs` |
| `KcpRace` | two threads on the send lists of one `ikcpcb` | |
| `TcpStream` | `tcp_send`/`tcp_recv` over one direction of a byte stream | `TcpStreamProofs` |
| `Relay` | both threads of `omni_relay` | `RelayProofs` |
| `FileTransfer` (`MCFileTransfer` for TLC) | both threads of `omni_client` and of `omni_server` over a transport of messages | `FileTransferProofs` |

`Ikcp` and `TcpStream` each implement `ReliableChannel` (`ImplementsChannel`, checked as a
PROPERTY).  `KcpTransport` extends `Ikcp` and is built of its actions, so what holds of the engine holds
of the transport.  `Ikcp` leaves time and the width of
numbers open; `KcpTimers` and `SerialNumber` fill these in.  `FileTransfer` and `Relay` stand one level
above: they use whole messages and the results `omni_send`, `omni_recv` and `omni_close` can have on each protocol.

A definition under a comment `Fault:` is a wrong variant of the definition that follows it.  Nothing in a
specification uses them; putting one in the place of its neighbour must make
TLC report a violation, which shows that a property does depend on that line of the code.

### Ikcp
Each call of the library is one action: `IkcpSend`, `Flush` (an `ikcp_update` whose interval has run
out, with all of `ikcp_flush`), `Input` (by the command of the segment: `IkcpInputAck`,
`IkcpInputPush`, `IkcpInputProbe`), `IkcpRecv`.  Inside, every helper of the C code has its operator:
`ParseUna`, `ParseAck`, `ShrinkBuf`, `ParseData`, `MoveReady` (the loop at the end of
`ikcp_parse_data` and `ikcp_recv`), `WndUnused`, `ProbeFlags`, `WholeMessage` (`ikcp_peeksize`).
The configuration is that of `kcp_init`: no stream mode, no congestion window.

Abstractions: time is a free choice (whether a timer, the fast-resend count or the flush interval has
run out); a payload is its message and fragment number; the sorted lists are sets; one segment per
datagram (a datagram of several is their delivery in a row); sequence numbers do not wrap around
(see `SerialNumber`).
What the flush puts on the wire and the network carries is any subset of `Output`, so loss is the
choice of a smaller subset.  `Take` leaves a segment in the network or removes it, which is
duplication; the network is a set, which is reordering.

### SerialNumber
`Plus` is an addition of `IUINT32`, `TimeDiff` is `_itimediff`.  The range is a constant: 2 * `Half` is
2^32 in the program, 140 in the run, and anything in the proofs.

### KcpTimers
One endpoint with everything `Ikcp` leaves to chance: `current`, `ts_flush`, `rto` and `resendts` of
every segment, the fast-resend count, `probe_wait`, the round-trip estimate.  `IkcpUpdate` is
`ikcp_update` with all of `ikcp_flush` that concerns sending; `Emit` is the body of its loop over
`snd_buf`.  `ikcp_input` is taken segment by segment (`InputHeader` for the part every segment goes
through, then `InputAck` or `InputOther`), and `InputEnd` is what follows the last one, so that
`maxack` and `latest_ts`, local variables of the C function, are variables here.  What is translated is
the branch that is compiled, `IKCP_FASTACK_CONSERVE` (`ikcp.c:20`): a later ACK of a datagram replaces
the one the datagram counts for only if both its sn and its ts are newer, and a segment is counted as
overtaken only if that ts is not before its own.  `sends` is the history of every transmission with
the stamp it bore; the peer's ACK echoes the stamp, so an ACK is a member of `sends`, and how old it
may be is the bound `Ages`.  Otherwise what the peer sends is free: any `una`, any window, any ACK,
however often, and several to a datagram in any order.

`Tick` lets time pass as long as nobody had to call `ikcp_update` (`wake` is what `ikcp_check` answered);
`Stall` is a caller that is held up, for longer than the flush interval or for so long that `ikcp_update` takes
it for a jump of the clock.  The receiving side is left out, and `fastack` is not counted beyond
`fastresend`, which makes no difference to any comparison.

### KcpTransport
`kcp_send` and `kcp_recv` cut at the calls of the engine they make: `KcpSend`, `Update` (the
`ikcp_update` of `kcp_update_loop`, which flushes the first time, when `updated` is not yet set, and
afterwards may or may not), `ReadDatagram` (its `recvfrom` and `ikcp_input`, one segment of the datagram
at a time), `LeavesLoop`, `TakeMessage` (`ikcp_recv`, or 0 when there is no message).  `at` is where in a call each program is, `peer_addr` whether the context
has an address to send to: a server learns it from the first datagram, and what it sends before is
lost.  `Polled` says which programs call `omni_recv` over and over.

`TakeMessage` shows a disagreement that needs no run: `network.h` (line 71) says that `omni_recv` blocks
until at least one byte was read, an error or a close ("阻塞直到读到至少 1 字节或出错/关闭"), but
`kcp_recv` drives the engine once and returns 0 at once when there is no message (`kcp_impl.c:177-182`).
TCP and UDP do block (a UDP 0 is an empty datagram or a signal).  The programs know it: each takes a 0 over KCP for "nothing yet", sleeps 2 ms and
calls again (`server_main.c:130-134`, `client_main.c:161`, `relay_main.c:234`), and so do the models
(`Polled` here, `RecvNothing` in `Relay`, the receive steps of `FileTransfer`).  The polling is also what
drives the engine's timers once nothing more is sent: where it is missing, `Delivers` fails (`Kcp_relay`).

### KcpRace
The steps are single writes to `next` and `prev` in the order of the macros of `ikcp.h`.  The main
thread appends a segment to `snd_queue` and may flush, the receive thread may flush; a flush moves
segments to `snd_buf` and numbers them.  The program has a data race here and a compiler may do worse;
these outcomes are among those it can have.  With one thread (`Thread = {"main"}`) `SegmentsKept`
holds.

### TcpStream
A byte is (message, announced length, position).  `WriteSome` and `ReadSome` are one `write` and one
`read` of any length; when a read completes the header or the payload, the rest of `tcp_recv` happens
in the same step.  `TcpClose` is `tcp_close` or the death of the sender at any byte, with or without
the reset the kernel sends when data of the other direction was unread.  `WriteToNobody` is the write
to a peer that has gone: accepted once more, failed, or SIGPIPE.

### Relay
One label per thread; the steps between two accesses to shared state are one action.  The critical
section of `relay_set_target` is two actions (`Swap`, `SetTargetAddress`), so that the mutex, not the
granularity of the model, protects it.  `Send` covers success and failure, `RecvMessage`, `RecvNothing`,
`RecvEmpty` and `RecvFails` what `omni_recv` can return on each protocol.  Contexts are numbered in
the order of their `omni_init`.  The protocol is chosen at the start (`proto`).

### FileTransfer
The labels of both threads of both programs, `running`, `g_stop`, `transfer_done`, the files and the
messages on their way.  `mode` is how the two programs were started and never changes: the protocol,
a terminal at the server, keepalive at the client, a disk that may be full.  `Join` is possible wherever the receive thread is at a cancellation point.
`out` is what was passed to `fwrite`, `file` what reached the disk.  `CloseContext` says what each
protocol does with messages on their way: TCP resets if the closing side left something unread, KCP
drops what it still held, UDP drops nothing but what was unread.  `Kill` may end either process at
any time, `ConnectionBreaks` the TCP connection.  A message is delivered whole or not at all; a frame
cut in the middle is the matter of `TcpStream`.  On KCP the calls of two threads are taken one at a
time; the code has no lock for this (see `KcpRace`).

## 3. The runs

Bounds are constants with a comment `bound:`; each was chosen so that the case named is reached.

| Run | Question | Instance |
|---|---|---|
| `Ikcp_safety` | in order, whole, bounded, nothing stale takes effect, an implementation of `ReliableChannel` | 2 messages of up to 2 fragments (3 and 4 are refused), windows of 3, 2 datagrams in flight in either direction: overtaking data and overtaking acknowledgements, loss, duplicates, a full window |
| `Ikcp_live` | everything arrives, also through a closed window and a lost window update | 3 messages through a receive window of 2, under `FairSpec` |
| `Tcp_frames` | frames, close, buffer size, arrival, an implementation of `ReliableChannel` | 3 messages of 1 to 4 bytes, header of 2, kernel buffer of 3: every cut within a header and a payload, and a buffer smaller than a frame |
| `Timers` | no timer is missed by a caller that follows `ikcp_check`, none is lost in the future after any stall, early repeats and timeouts are justified, repeats back off | 3 segments, 8 ms of a clock of 140 values that wraps around in the third, interval 2, timeouts 3 to 8, fast resend at 2 with limit 1, ACKs of two ages, two lengths of stall, one taken for a jump of the clock: a segment is sent again while ACKs of its and its successors' earlier transmissions are on their way, and a datagram can acknowledge two successors, the later with the older stamp; the range of the clock is close to the least the theorems about time allow (`Lifetime`) |
| `Kcp_live` | everything `omni_send` accepts arrives, driven by the calls alone | one message each way, both programs polling, windows of 2, 2 datagrams in flight, under `FairTransport` |
| `Relay_safety` | safety of the switch of targets and of the shutdown, quit of a relay that polls | every protocol, 3 messages, 3 contexts (two switches), 2 addresses |
| `File_safety` | `transfer_done` means complete, orderly teardown | every protocol, with a terminal at the server (TCP, KCP) and without, a file of 3 chunks, pipes of 2 messages, 1 command, every kill, signal and reset |
| `File_live` | the server ends; FILE_END arrives; Ctrl+C works | TCP, a file of 2 chunks, a pipe of 1, keepalive or not, a full disk or not, under `FairSpec` |

A window of 3 with messages of 2 fragments is the smallest in which a message straddles the window,
a second segment overtakes the first and the queue fills with a complete message; two datagrams in
flight are the least that can be reordered; three contexts are the least in which the relay could
return to a target it had left before the last; three segments are the
least with two ACKs in a datagram that both count against a first; with three chunks a chunk can be lost from the
beginning, the middle or the end of the file.  In the runs `Ikcp_safety` and `Ikcp_live` the data goes
one way; the proofs of `InOrder` and `AckedIsHeld` cover conversations in which both ends send.

Four runs expect a violation and show where the code does not do what its documents say:

| Run | What happens | What is said |
|---|---|---|
| `Relay_quit` | after `quit` a UDP or TCP relay stays in `omni_recv` until the next message | `README.md:97`, `relay_main.c:16` |
| `Kcp_relay` | a relay only sends on its KCP `tx_ctx`, so nothing flushes, or repeats, what its last `omni_send` left behind | `network.h:68`: blocks until all is sent; `README.md:7` |
| `Kcp_race` | a segment that one thread appends while the other takes the last one out is in neither list | `kcp_impl.c:3`: reliable transport |
| `File_full` | `fflush` fails, `transfer_done` is set | `client_main.c:324` |

The models also contain, without a run that asks about it: a write to a connection the peer has closed
kills the process by SIGPIPE (`WriteToNobody`, `Sigpipe`; `tcp_impl.c:202` says other errors return
-1); `kcp_close` drops what `omni_send` accepted, FILE_END included, so over KCP the server may wait
for ever (`CloseContext`); a client blocked in `write` to a server that stopped reading retries after
EINTR and does not look at `g_stop` (`Halt` with a terminal at the server, and a full pipe).
`SentArrives` and `StopEnds` are therefore checked over TCP and without a terminal only.

## 4. Fairness

- `Ikcp`: the receive threads call `omni_recv`, hence `ikcp_update` and `ikcp_recv`, every 2 ms, so a
  flush and a receive that stay possible happen (WF).  Every timer is finite.  The network does not
  lose one kind of segment for ever, nor repeat one for ever (SF per command).  Nobody need send.
- `KcpTransport`: the same of a single call: a program inside `kcp_send` or `kcp_recv` goes on, and one
  in `Polled` calls `kcp_recv` again (WF); a flush whose segments get through, and the reading of one
  datagram, happen if they are possible again and again (SF), for `recvfrom` does not block and is
  called every 2 ms.  `KcpTimers` states no fairness: its properties are bounds on time.
- `TcpStream`: a thread inside `tcp_send` or `tcp_recv` goes on when the kernel lets it; the receiver
  calls `tcp_recv` again, as the receive threads do.  Nobody need close.
- `Relay`: weak fairness of each thread's steps that wait for nothing outside the process.  Not for
  `fgets`, `omni_init`, a TCP send, or the arrival of a message: no command need ever be typed.
- `FileTransfer`: weak fairness of every thread when it is not blocked, strong fairness of receiving
  (over UDP `omni_recv` can also keep failing or returning 0).  No signal, kill or typed line is
  assumed.

## 5. The proofs

TLC checks small instances; the theorems hold for every value of the constants that satisfies the
named ASSUMEs (`WindowAssumption` and `BoundAssumption`, `HalfAssumption`, `TimerAssumption`, `PolledAssumption`, `ProtoAssumption`, `RelayBounds` and
`AddressAssumption`, `ModeAssumption` and `SizeAssumption`, `StreamAssumption`).  The four theorems about time have
one hypothesis more, `Lifetime`, which is explained with them.

**KCP delivers in order and forgets nothing** (`IkcpProofs`: `Delivery`, `NothingForgotten`, from
`Inductive`).  `InOrder` is not inductive: a wrong segment in the network or in a queue would break it
later.  `IInv` says that a sequence number is a position in the history of what was submitted,
everywhere: `snd_queue` is its tail (`QueueIsSent`), `snd_buf` and `rcv_buf` hold at sn what was
submitted at sn + 1 (`SndBufIsSent`, `RcvBufIsSent`), `got` followed by `rcv_queue` is its prefix of
length `rcv_nxt` (`ReceivedIsSent`), a data segment on the wire tells the truth, and an `una` or an ACK
on the wire, or an sn in `acklist`, speaks of something the receiver holds (`NetIsTrue`,
`AcklistIsHeld`).  The last two hold for ever because what a receiver holds it never gives back
(`DownstreamStable`), which is why no stale datagram can do harm, and `AckedIsHeld` follows.

**KCP is a channel of whole messages** (`IkcpQueueProofs`).  The windows need an invariant of their own:
with `BufferBounds` goes that `snd_una` is never after a segment still in `snd_buf` (`UnaIsLeast`), so
`ikcp_shrink_buf` only moves it forward, whatever an old datagram says (`BuffersAreBounded`,
`NothingGoesBack`).  The messages rest on the shape of `frg`: in `sent`, the fragment with frg = f is
followed by the f others of its message, numbered down to 0, and f is below `IKCP_WND_RCV`
(`SentIsWhole`).  `rcv_queue` is a part of `sent` (`ReceivedIsSent`), so what `ikcp_peeksize` counts and
what the merge loop stops at agree (`HeadMessage`, `MessagesAreWhole`), and a queue of `rcv_wnd`
fragments has room for the longest message (`FullQueueHasMessage`; this is where `ikcp_wndsize` taking the
larger of rcv_wnd and `IKCP_WND_RCV` is needed).  Then `ikcp_send` is a Submit and `ikcp_recv` a Deliver of
`ReliableChannel` and every other step a stutter (`EngineImplementsChannel`).

**The transport keeps it so** (`KcpTransportProofs`).  `TransportDelivery` and
`TransportImplementsChannel` follow from the theorems about the engine, for any interleaving of the
steps of the two programs, because by its construction every step of the model is one of `Ikcp` or
changes nothing of it (the lemma `TransportUsesEngine`).  They suppose, as the model does, that the calls
on one context are taken one at a time.

**32-bit numbers order positions** (`SerialNumberProofs`).  From the uniqueness of quotient and
remainder: adding to a word adds to the position it stands for (`PlusFollows`), and `_itimediff` of two
positions less than `Half` apart is their distance (`WithinHalf`).  The windows are at most 128
segments wide, so the unbounded numbers of `Ikcp` stand for those of `ikcp.c`.  `TimerAhead` is the same
for a time stamp; `ClockAdvances` and `StampAdvances` say what a step of the clock, or of a stamp, does to
the difference between them, and `DiffTurned` that the difference seen from the other side is its
negation.

**Repeats back off** (`KcpTimersProofs`: `RepeatsAreSpaced`, for every clock, stall and answer of the
peer).  An induction over the cases of `Emit`: a timeout adds at least half of `RtoMin` (`LeastRto`),
and a fast resend happens only to a segment sent at most `FastLimit` times.

**No timer is lost or missed** (`KcpTimersProofs`: `NoTimerIsLost`, `NoTimerIsMissed`,
`TimeoutsAreWaitedFor`, from `TInv`).  Stamps are words of a clock that wraps around, so the invariant
speaks of their age, `Ago`: it grows with the clock as long as it is less than `Half` (`AgoGrows`).
`UpdateInTime` bounds the ages of `current`, `ts_flush` and the answer of `ikcp_check`;
`CallerKnows` says that an answer still ahead is no later than the flush, so a caller that keeps to it
is not late for one.  `TimerOf` ties the timer of a segment to the stamp of its last transmission:
they are exactly one `Period` apart, which is what makes `LossTakesTimeout` true when the timer is
found run out.  `Served` says that the last flush left no timer that had run out by then; as the next
flush is less than an interval away, nothing is overdue by more.  `OneEach` says that a number names
one segment, so that the segment before and after a step is the same.  `ProbeInTime` is the same for
window probes.

**Fast resends are of overtaken segments** (`KcpTimersProofs`: `FastResendsOvertaken`, from `SInv`, which
adds to `TInv`).  `OvertakenOnly` rests on what holds in the middle of `ikcp_input`: the ACK in `maxack` and
`latest_ts` is that of one transmission, sn and ts together, whose segment is out of `snd_buf`
(`AckedIsGone`), for good, since numbers are given once (`SegsBelow`).  `SendsInTime` says that the stamp of
every transmission tells when it was, so the difference of two stamps is the distance of the two
transmissions (`AgoDiff`), and `LastSend` that a segment bears the stamp of its last.  The comparison of
`ikcp_parse_fastack` then compares transmissions.  Without it, or with the largest sn and the latest ts
of different ACKs, TLC finds `OvertakenOnly` violated (the mutants `ParseFastackStale`, `InputAckMixed`).

A timeout has no upper limit: each one lets it grow by half of the last one or of the estimate.  But it
grows only by time that was waited, so a timeout is at most `RtoMax` and twice the age of the engine
(`TimerOf`), and `Lifetime`, which asks that the engine has run for less than about a sixth of the range
of the clock (8 days), keeps every stamp within `Half`.  Some hypothesis of this kind is needed: when the
range is too small for the life, TLC finds `TimersInReach` violated, for after a stall of more than half
the range (24 days without a call of `omni_send` or `omni_recv`) every stamp long past is taken for one
far ahead; `ikcp_update` repairs this for `ts_flush` (its slap test), nothing does for `resendts` and
`ts_probe`.  The run `Timers` is an instance that
satisfies `Lifetime` (`RunIsInstance`).
The first timeout is a `Period` of its own, because with `nodelay` 0, which `kcp_init` does not use, an
eighth of it is added (`FirstTimeout`).

**TCP frames survive any cutting** (`TcpStreamProofs`: `FramesSurvive`, `FramesFitBuffer`,
`CloseMeansComplete`, `StreamImplementsChannel`).  None of the properties is inductive: a stream out of
step by one byte would break all of them at the next header.  `IInv` gives every byte its place in the
connection, At(sent, a) + pos for byte pos of the frame whose message begins after a bytes of payload, and
says that what was read of the current part (`ReadIsSent`), the stream (`StreamIsSent`) and what
`tcp_write_n` has still to write (`WriteIsSent`) hold consecutive places, beginning with the first one after
what was handed over.  No two bytes have the same place (`UnitIsUnique`), because headers are as long as
each other and a history is made of whole messages (`WellFormed`); so the header tcp_recv
completes is that of the next message (`NeedIsRight`), and the payload it completes then is that
message.  When the stream has ended and is empty between frames, the last place read is the end of a
frame, so nothing is left but what the sender was killed in (`ClosedIsComplete`); a reset only takes bytes
away, and after it `ReadEnd` reports no orderly close.  Then `tcp_send` is a Submit, the read that completes a payload a
Deliver of `ReliableChannel`, and every other step a stutter.

**The relay's switch is safe** (`RelayProofs`).  `IInv` has the labels inside the critical sections
tied to the holder of the mutex, and says of every context ever made that it is exactly one of:
`tx_ctx`, a local variable of the thread that is about to install or close it, or closed.  From this
follow `NoContextFreedInUse`, `ShowTellsTheTruth`, `NoContextLeaks`, and, since contexts are made in
order and `tx_ctx` is always the newest installed, `NeverBackToOldTarget`.  A process killed by SIGPIPE
stops everything, so the invariant holds only while it runs (`Killed`).

**transfer_done means a complete file** (`FileTransferProofs`: `DoneMeansComplete`, for TCP and KCP
with a disk that does not fail; UDP promises nothing of the kind, and its chunks are written in the
order of their arrival).  The server's queue always continues, without a gap, the last message
it took (`Consecutive`), and while nothing was lost it reaches to the last message sent (`SentSoFar`).
A reset or close only cuts the end off (`ConsecutivePrefix`, `CloseKeeps`), so whatever comes in is
the next chunk, and FILE_END can come only after all of them; `Written` and `Stored` carry this to
the file.  Only a TCP connection is reset, and then nothing more is put on it (`ResetIsTcp`).  `NoUseAfterTeardown` holds on every transport, from the order cancel, join, close.

Only model-checked: every liveness property (`AllDelivered`, `Delivers`, `Arrives`, `PollingQuitEnds`,
`ServerEnds`, `SentArrives`, `StopEnds`), which the proof system does not reach.  Every invariant and
every other property a passing run checks is a theorem.

## 6. Not modelled, and the plan

Not modelled, and why:
- the congestion window (`kcp_init` turns it off; `ikcp_flush` and `ikcp_input` still compute it, and
  nothing reads it), stream mode, `ikcp_setmtu` and the setters no program calls after `kcp_init`;
- the receiving side's part in `KcpTimers`: it keeps no timer;
- a datagram of a third sender, which would become the peer, and a client that starts again on a
  server's old conversation: no document says what should happen, and one life of one client is what
  the programs are written for;
- TCP connection setup: `bind`, `listen`, `accept`, `connect` happen once, before the second thread
  is made, and their errors end the program;
- argument parsing, failures of `malloc` and `pthread_create` (except the relay's), the text of commands;
- the logger: no decision reads its statistics, and its races can only lose counts;
- the test program and the scripts.

What is left to do:

1. `KcpRace` with the receive thread's `ikcp_input`, which frees segments of `snd_buf`, and the theorem
   that with one thread its lists stay intact.
2. `FileTransfer` over `KcpTransport` instead of a pipe of messages, and its refinement.
