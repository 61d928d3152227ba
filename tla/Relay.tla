------------------------------- MODULE Relay -------------------------------
(***************************************************************************)
(* The relay (src/apps/relay_main.c): the main thread receives from the    *)
(* upstream context and forwards to the downstream context tx_ctx, while   *)
(* the control thread reads commands from stdin and replaces tx_ctx.       *)
(*                                                                         *)
(* A thread's label is the next thing it does; the steps between two       *)
(* accesses to shared state are one action.  A context is the number of    *)
(* the omni_init call that made it.                                        *)
(***************************************************************************)
EXTENDS Integers, Sequences

CONSTANTS
    Protos,     \* the protocols the relay may be started with
    Address,    \* the addresses a set command can name
    NoAddress,  \* the empty target_ip
    MaxCtx,     \* bound: downstream contexts made in one run
    MaxMsgs     \* bound: messages that arrive from upstream

ASSUME ProtoAssumption == Protos \subseteq {"tcp", "udp", "kcp"}
ASSUME RelayBounds == MaxCtx \in Nat /\ MaxMsgs \in Nat
ASSUME AddressAssumption == NoAddress \notin Address

VARIABLES
    proto,                  \* st.proto, from the command line
    running,                \* st.running
    tx_ctx, target,         \* st.tx_ctx, st.target_ip with its port
    tx_mu,                  \* the thread that holds st.tx_mu, or "free"
    pc,                     \* the label of each thread
    ip,                     \* relay_set_target's argument
    new_tx, old_tx,         \* relay_set_target's locals; old_tx is also main's tx
    buf, in_use,            \* the message main forwards, the context it passes to omni_send
    rx_open, hung_up,       \* is rx_ctx open; has the TCP upstream closed
    dest, closed,           \* history: where each context sends; the contexts closed
    received, forwarded     \* history: messages received; [msg, ctx] sent on

vars == <<proto, running, tx_ctx, target, tx_mu, pc, ip, new_tx, old_tx, buf, in_use,
          rx_open, hung_up, dest, closed, received, forwarded>>

NULL == 0
Setting == <<ip, new_tx, old_tx, dest, closed>>
Shared  == <<running, tx_ctx, target, tx_mu>>
Data    == <<buf, in_use, rx_open, hung_up, received, forwarded>>

At(t, label)   == pc[t] = label
Goto(t, label) == pc' = [pc EXCEPT ![t] = label]

\* main up to the first relay_set_target, with rx_ctx made.
Init ==
    /\ proto \in Protos
    /\ running = TRUE /\ tx_ctx = NULL /\ target = NoAddress /\ tx_mu = "free"
    /\ pc = [main |-> "connect", ctrl |-> "none"]
    /\ ip \in Address /\ new_tx = NULL /\ old_tx = NULL
    /\ buf = 0 /\ in_use = NULL /\ rx_open = TRUE /\ hung_up = FALSE
    /\ dest = <<>> /\ closed = {} /\ received = 0 /\ forwarded = <<>>

-----------------------------------------------------------------------------
\* Fault: the critical section is entered without the mutex.
LockNothing(t, from, to) ==
    /\ At(t, from)
    /\ Goto(t, to)
    /\ UNCHANGED <<proto, running, tx_ctx, target, tx_mu, Setting, Data>>

\* pthread_mutex_lock(&st->tx_mu).
Lock(t, from, to) ==
    /\ At(t, from)
    /\ tx_mu = "free"
    /\ tx_mu' = t
    /\ Goto(t, to)
    /\ UNCHANGED <<proto, running, tx_ctx, target, Setting, Data>>

\* relay_set_target, on the control thread for a set command and on the main
\* thread for the first target, before the control thread exists.
After(t) == IF t = "main" THEN "spawn" ELSE "check"

\* omni_init for the new target; when it fails the old one stays.
Connect(t) ==
    /\ At(t, "connect")
    /\ \/ /\ Len(dest) < MaxCtx
          /\ dest' = Append(dest, ip)
          /\ new_tx' = Len(dest) + 1
          /\ Goto(t, "lock_set")
       \/ /\ UNCHANGED <<dest, new_tx>>
          /\ Goto(t, After(t))
    /\ UNCHANGED <<proto, Shared, ip, old_tx, closed, Data>>

\* The new context is in place ...
Swap(t) ==
    /\ At(t, "swap")
    /\ old_tx' = tx_ctx
    /\ tx_ctx' = new_tx
    /\ Goto(t, "target")
    /\ UNCHANGED <<proto, running, target, tx_mu, ip, new_tx, dest, closed, Data>>

\* Fault: the target is left as it was.
KeepTarget(t) ==
    /\ At(t, "target")
    /\ tx_mu' = "free"
    /\ Goto(t, "close_old")
    /\ UNCHANGED <<proto, running, tx_ctx, target, Setting, Data>>

\* ... then its address, and the mutex is released.
SetTargetAddress(t) ==
    /\ At(t, "target")
    /\ target' = ip
    /\ tx_mu' = "free"
    /\ Goto(t, "close_old")
    /\ UNCHANGED <<proto, running, tx_ctx, Setting, Data>>

CloseOld(t) ==
    /\ At(t, "close_old")
    /\ closed' = closed \cup ({old_tx} \ {NULL})
    /\ Goto(t, After(t))
    /\ UNCHANGED <<proto, Shared, ip, new_tx, old_tx, dest, Data>>

RelaySetTarget(t) ==
    \/ Connect(t)
    \/ Lock(t, "lock_set", "swap")
    \/ Swap(t)
    \/ SetTargetAddress(t)
    \/ CloseOld(t)

-----------------------------------------------------------------------------
\* control_thread_main: the loop condition.
CtrlCheck ==
    /\ At("ctrl", "check")
    /\ Goto("ctrl", IF running THEN "fgets" ELSE "exit")
    /\ UNCHANGED <<proto, Shared, Setting, Data>>

\* fgets: end of file, an empty line or an unknown command.
NoCommand ==
    /\ At("ctrl", "fgets")
    /\ Goto("ctrl", "check")
    /\ UNCHANGED <<proto, Shared, Setting, Data>>

Quit ==
    /\ At("ctrl", "fgets")
    /\ running' = FALSE
    /\ Goto("ctrl", "exit")
    /\ UNCHANGED <<proto, tx_ctx, target, tx_mu, Setting, Data>>

Show ==
    /\ At("ctrl", "fgets")
    /\ Goto("ctrl", "lock_show")
    /\ UNCHANGED <<proto, Shared, Setting, Data>>

\* The target is printed and the mutex released.
PrintTarget ==
    /\ At("ctrl", "print")
    /\ tx_mu' = "free"
    /\ Goto("ctrl", "check")
    /\ UNCHANGED <<proto, running, tx_ctx, target, Setting, Data>>

Set ==
    /\ At("ctrl", "fgets")
    /\ ip' \in Address
    /\ Goto("ctrl", "connect")
    /\ UNCHANGED <<proto, Shared, new_tx, old_tx, dest, closed, Data>>

Ctrl ==
    \/ CtrlCheck \/ NoCommand \/ Quit \/ Show \/ PrintTarget \/ Set
    \/ Lock("ctrl", "lock_show", "print")
    \/ RelaySetTarget("ctrl")

-----------------------------------------------------------------------------
\* pthread_create, which may fail.
Spawn ==
    /\ At("main", "spawn")
    /\ \/ pc' = [main |-> "check", ctrl |-> "check"] /\ UNCHANGED <<rx_open, closed>>
       \/ /\ Goto("main", "done")
          /\ rx_open' = FALSE
          /\ closed' = closed \cup ({tx_ctx} \ {NULL})
    /\ UNCHANGED <<proto, Shared, ip, new_tx, old_tx, buf, in_use, hung_up, dest,
                   received, forwarded>>

\* Fault: the loop runs until omni_recv fails.
MainCheckNot ==
    /\ At("main", "check")
    /\ Goto("main", "recv")
    /\ UNCHANGED <<proto, Shared, Setting, Data>>

\* main: the loop condition.
MainCheck ==
    /\ At("main", "check")
    /\ Goto("main", IF running THEN "recv" ELSE "stop")
    /\ UNCHANGED <<proto, Shared, Setting, Data>>

\* omni_recv returns a message ...
RecvMessage ==
    /\ At("main", "recv")
    /\ ~hung_up /\ received < MaxMsgs
    /\ received' = received + 1
    /\ buf' = received + 1
    /\ Goto("main", "lock_tx")
    /\ UNCHANGED <<proto, Shared, Setting, in_use, rx_open, hung_up, forwarded>>

\* ... or 0 at once: KCP has no message ready, TCP is at the end of its stream ...
RecvNothing ==
    /\ At("main", "recv")
    /\ proto = "kcp" \/ hung_up
    /\ Goto("main", "check")
    /\ UNCHANGED <<proto, Shared, Setting, Data>>

\* ... or 0 for an empty UDP datagram ...
RecvEmpty ==
    /\ At("main", "recv")
    /\ proto = "udp"
    /\ Goto("main", "check")
    /\ UNCHANGED <<proto, Shared, Setting, Data>>

\* ... or an error, which kcp_recv never reports.
RecvFails ==
    /\ At("main", "recv")
    /\ proto # "kcp"
    /\ Goto("main", "stop")
    /\ UNCHANGED <<proto, Shared, Setting, Data>>

\* Fault: tx_ctx is not compared with NULL.
LoadTxUnchecked ==
    /\ At("main", "load")
    /\ in_use' = tx_ctx
    /\ Goto("main", "send")
    /\ UNCHANGED <<proto, Shared, Setting, buf, rx_open, hung_up, received, forwarded>>

\* The pointer is loaded for the call, under the mutex.
LoadTx ==
    /\ At("main", "load")
    /\ in_use' = tx_ctx
    /\ Goto("main", IF tx_ctx = NULL THEN "unlock_tx" ELSE "send")
    /\ UNCHANGED <<proto, Shared, Setting, buf, rx_open, hung_up, received, forwarded>>

\* Fault: a failed message is sent once more.
SendRetry ==
    /\ At("main", "send")
    /\ \/ forwarded' = Append(forwarded, [msg |-> buf, ctx |-> in_use])
          /\ Goto("main", "unlock_tx")
       \/ forwarded' = Append(forwarded, [msg |-> buf, ctx |-> in_use])
          /\ UNCHANGED pc
    /\ UNCHANGED <<proto, Shared, Setting, buf, in_use, rx_open, hung_up, received>>

\* omni_send: done, or failed with the message dropped.
Send ==
    /\ At("main", "send")
    /\ \/ forwarded' = Append(forwarded, [msg |-> buf, ctx |-> in_use])
       \/ UNCHANGED forwarded
    /\ Goto("main", "unlock_tx")
    /\ UNCHANGED <<proto, Shared, Setting, buf, in_use, rx_open, hung_up, received>>

\* The downstream TCP peer is gone: SIGPIPE, which nobody ignores, ends the
\* process.
Sigpipe ==
    /\ At("main", "send")
    /\ proto = "tcp"
    /\ pc' = [t \in {"main", "ctrl"} |-> "killed"]
    /\ UNCHANGED <<proto, Shared, Setting, Data>>

UnlockTx ==
    /\ At("main", "unlock_tx")
    /\ tx_mu' = "free"
    /\ Goto("main", "check")
    /\ UNCHANGED <<proto, running, tx_ctx, target, Setting, Data>>

Stop ==
    /\ At("main", "stop")
    /\ running' = FALSE
    /\ rx_open' = FALSE
    /\ Goto("main", "join")
    /\ UNCHANGED <<proto, tx_ctx, target, tx_mu, Setting, buf, in_use, hung_up, received,
                   forwarded>>

\* Fault: the control thread is not waited for.
JoinNot ==
    /\ At("main", "join")
    /\ Goto("main", "lock_take")
    /\ UNCHANGED <<proto, Shared, Setting, Data>>

\* pthread_join.
Join ==
    /\ At("main", "join")
    /\ At("ctrl", "exit")
    /\ Goto("main", "lock_take")
    /\ UNCHANGED <<proto, Shared, Setting, Data>>

TakeTx ==
    /\ At("main", "take")
    /\ old_tx' = tx_ctx
    /\ tx_ctx' = NULL
    /\ tx_mu' = "free"
    /\ Goto("main", "close_tx")
    /\ UNCHANGED <<proto, running, target, ip, new_tx, dest, closed, Data>>

CloseTx ==
    /\ At("main", "close_tx")
    /\ closed' = closed \cup ({old_tx} \ {NULL})
    /\ Goto("main", "done")
    /\ UNCHANGED <<proto, Shared, ip, new_tx, old_tx, dest, Data>>

Main ==
    \/ RelaySetTarget("main")
    \/ Spawn \/ MainCheck
    \/ RecvMessage \/ RecvNothing \/ RecvEmpty \/ RecvFails
    \/ Lock("main", "lock_tx", "load") \/ LoadTx \/ Send \/ Sigpipe \/ UnlockTx
    \/ Stop \/ Join \/ Lock("main", "lock_take", "take") \/ TakeTx \/ CloseTx

\* The upstream TCP peer closes its connection.
HangUp ==
    /\ proto = "tcp" /\ ~hung_up
    /\ hung_up' = TRUE
    /\ UNCHANGED <<proto, Shared, pc, Setting, buf, in_use, rx_open, received, forwarded>>

Ended == pc["main"] \in {"done", "killed"}

Next == Main \/ Ctrl \/ HangUp \/ (Ended /\ UNCHANGED vars)

Spec == Init /\ [][Next]_vars

\* What the two threads do without waiting for a message, a command, a TCP
\* connection or a TCP peer that reads.
MainRuns ==
    \/ Lock("main", "lock_set", "swap") \/ Swap("main")
    \/ SetTargetAddress("main") \/ CloseOld("main")
    \/ Spawn \/ MainCheck \/ RecvNothing
    \/ Lock("main", "lock_tx", "load") \/ LoadTx \/ (proto # "tcp" /\ Send) \/ UnlockTx
    \/ Stop \/ Join \/ Lock("main", "lock_take", "take") \/ TakeTx \/ CloseTx

CtrlRuns ==
    \/ CtrlCheck \/ Lock("ctrl", "lock_show", "print") \/ PrintTarget
    \/ Lock("ctrl", "lock_set", "swap") \/ Swap("ctrl")
    \/ SetTargetAddress("ctrl") \/ CloseOld("ctrl")

FairSpec == Spec /\ WF_vars(MainRuns) /\ WF_vars(CtrlRuns)
-----------------------------------------------------------------------------
MainLabels == {"connect", "lock_set", "swap", "target", "close_old", "spawn", "check",
               "recv", "lock_tx", "load", "send", "unlock_tx", "stop", "join",
               "lock_take", "take", "close_tx", "done", "killed"}
CtrlLabels == {"none", "check", "fgets", "lock_show", "print", "connect", "lock_set",
               "swap", "target", "close_old", "exit", "killed"}

TypeOK ==
    /\ proto \in Protos
    /\ running \in BOOLEAN /\ rx_open \in BOOLEAN /\ hung_up \in BOOLEAN
    /\ dest \in Seq(Address) /\ ip \in Address
    /\ target \in Address \cup {NoAddress}
    /\ tx_ctx \in 0..Len(dest) /\ new_tx \in 0..Len(dest)
    /\ old_tx \in 0..Len(dest) /\ in_use \in 0..Len(dest)
    /\ closed \subseteq 1..Len(dest)
    /\ tx_mu \in {"free", "main", "ctrl"}
    /\ pc \in [{"main", "ctrl"} -> MainLabels \cup CtrlLabels]
    /\ pc["main"] \in MainLabels /\ pc["ctrl"] \in CtrlLabels
    /\ received \in Nat /\ buf \in 0..received
    /\ forwarded \in Seq([msg : 1..received, ctx : 1..Len(dest)])

\* The context main is sending on is not closed under it by a set command, nor
\* is any context closed twice ("不会并发踩内存", relay_main.c:9-11).
NoUseAfterClose ==
    /\ At("main", "send") => in_use \notin closed
    /\ At("main", "close_old") \/ At("main", "close_tx") \/ At("ctrl", "close_old") =>
          old_tx \notin closed

\* What show prints is where the next message goes.
ShowIsTrue ==
    At("ctrl", "print") =>
        target = IF tx_ctx = NULL THEN NoAddress ELSE dest[tx_ctx]

\* The messages sent on are in the order of their arrival, none twice, and once
\* one went to a new target none goes to an older one.
SwitchInOrder ==
    \A i, j \in 1..Len(forwarded) : i < j =>
        /\ forwarded[i].msg < forwarded[j].msg
        /\ forwarded[i].ctx <= forwarded[j].ctx

\* When main returns, every context ever made is closed, also one a set command
\* was still making when the main loop ended.
AllClosed ==
    At("main", "done") => ~rx_open /\ closed = 1..Len(dest)

\* A quit command ends a relay whose omni_recv does not block, wherever main is
\* then, the teardown included.
PollingQuitEnds == (proto = "kcp" /\ At("ctrl", "exit")) ~> Ended

\* A quit command ends the process ("quit：退出 relay", README.md).
QuitEnds == At("ctrl", "exit") ~> Ended
=============================================================================
