---------------------------- MODULE RelayProofs ----------------------------
(***************************************************************************)
(* The safety properties of Relay for every protocol, set of addresses and *)
(* number of messages and set commands.                                    *)
(***************************************************************************)
EXTENDS Relay, SequenceTheorems, TLAPS

InMain == {"swap", "target", "load", "send", "unlock_tx", "take"}
InCtrl == {"swap", "target", "print"}

\* tx_mu is held exactly in the critical sections.
MutexHeld ==
    /\ tx_mu = "main" <=> pc["main"] \in InMain
    /\ tx_mu = "ctrl" <=> pc["ctrl"] \in InCtrl

SettingLabels == {"connect", "lock_set", "swap", "target", "close_old"}

\* The control thread exists between pthread_create and pthread_join, so at
\* most one thread is in relay_set_target.
Phases ==
    /\ pc["main"] \in SettingLabels \cup {"spawn"} => pc["ctrl"] = "none"
    /\ pc["ctrl"] = "none" => pc["main"] \in SettingLabels \cup {"spawn", "done"}
    /\ pc["main"] \in {"lock_take", "take", "close_tx"} => pc["ctrl"] = "exit"
    /\ pc["main"] = "done" => pc["ctrl"] \in {"none", "exit"}

Somewhere(labels) == pc["main"] \in labels \/ pc["ctrl"] \in labels

\* relay_set_target holds the newest context until it is in place, then the one
\* it replaces, which is older.
Newest ==
    /\ Somewhere({"lock_set", "swap"}) =>
          /\ new_tx = Len(dest) /\ tx_ctx < new_tx /\ dest[new_tx] = ip
    /\ Somewhere({"target"}) => tx_ctx # NULL /\ dest[tx_ctx] = ip
    /\ Somewhere({"target", "close_old"}) => old_tx < tx_ctx

\* The contexts somebody will still close.
Held ==
    {tx_ctx} \cup (IF Somewhere({"lock_set", "swap"}) THEN {new_tx} ELSE {})
             \cup (IF Somewhere({"target", "close_old", "close_tx"}) THEN {old_tx} ELSE {})

OpenIsHeld ==
    /\ pc["main"] # "done" => closed = (1..Len(dest)) \ Held
    /\ pc["main"] = "send" => in_use = tx_ctx /\ tx_ctx # NULL
    /\ pc["main"] = "done" => closed = 1..Len(dest)

TargetIsTx ==
    pc["main"] \notin {"close_tx", "done"} /\ ~Somewhere({"target"}) =>
        target = IF tx_ctx = NULL THEN NoAddress ELSE dest[tx_ctx]

\* What was sent on is older than the message in hand and the context in place.
ForwardedBefore ==
    \A i \in 1..Len(forwarded) :
        /\ pc["main"] \in {"lock_tx", "load", "send"} => forwarded[i].msg < buf
        /\ pc["main"] \notin {"close_tx", "done"} => forwarded[i].ctx <= tx_ctx

\* The message in hand came from upstream.
InHand == pc["main"] \in {"lock_tx", "load", "send"} => buf \in 1..received

\* The last close finds tx_ctx taken.
Taken == pc["main"] = "close_tx" => tx_ctx = NULL

\* rx_ctx is closed as soon as the main loop has ended.
RxOpen == pc["main"] \in {"join", "lock_take", "take", "close_tx", "done"} => ~rx_open

\* A killed process does nothing more.
Killed == pc["main"] = "killed" <=> pc["ctrl"] = "killed"

Running ==
    /\ MutexHeld /\ Phases /\ Newest /\ OpenIsHeld /\ TargetIsTx
    /\ ForwardedBefore /\ RxOpen /\ InHand /\ Taken

IInv ==
    /\ TypeOK
    /\ SwitchInOrder
    /\ Killed
    /\ pc["main"] # "killed" => Running

-----------------------------------------------------------------------------
\* What Append does.
LEMMA Appended ==
    ASSUME NEW S, NEW T, S \subseteq T, NEW s \in Seq(S), NEW e \in T
    PROVE  /\ Append(s, e) \in Seq(T)
           /\ Len(s) \in Nat /\ Len(Append(s, e)) = Len(s) + 1
           /\ \A i \in 1..Len(s) : Append(s, e)[i] = s[i]
           /\ Append(s, e)[Len(s) + 1] = e
<1>1. s \in Seq(T)
  BY SeqMonotonic
<1> QED
  BY <1>1, AppendProperties

\* The fields of what forwarded holds.
LEMMA ForwardedFields ==
    ASSUME NEW a \in Nat, NEW b \in Nat, NEW s \in Seq([msg : 1..a, ctx : 1..b])
    PROVE  \A i \in 1..Len(s) : s[i].msg \in 1..a /\ s[i].ctx \in 1..b
<1>1. \A i \in 1..Len(s) : s[i] \in [msg : 1..a, ctx : 1..b]
  BY ElementOfSeq
<1> QED
  BY <1>1

\* It stays so when a message or a context is added.
LEMMA ForwardedGrows ==
    ASSUME NEW a \in Nat, NEW b \in Nat, NEW s \in Seq([msg : 1..a, ctx : 1..b])
    PROVE  /\ s \in Seq([msg : 1..(a + 1), ctx : 1..b])
           /\ s \in Seq([msg : 1..a, ctx : 1..(b + 1)])
<1>1. /\ [msg : 1..a, ctx : 1..b] \subseteq [msg : 1..(a + 1), ctx : 1..b]
      /\ [msg : 1..a, ctx : 1..b] \subseteq [msg : 1..a, ctx : 1..(b + 1)]
  OBVIOUS
<1> QED
  BY <1>1, SeqMonotonic

\* omni_init in relay_set_target adds a context that nobody else knows.
LEMMA ConnectKeeps ==
    ASSUME IInv, NEW t \in {"main", "ctrl"}, Connect(t)
    PROVE  IInv'
<1> USE DEF IInv, At, Goto, Shared, Setting, Data, NULL, Connect, After
<1>1. Running
  BY DEF Killed, TypeOK
<1>2. TypeOK'
  <2>1. CASE dest' = Append(dest, ip) /\ new_tx' = Len(dest) + 1 /\ Goto(t, "lock_set")
    <3>1. dest' \in Seq(Address) /\ Len(dest') = Len(dest) + 1 /\ Len(dest) \in Nat
      BY <2>1, Appended DEF TypeOK
    <3>2. forwarded \in Seq([msg : 1..received, ctx : 1..Len(dest')])
      BY <3>1, ForwardedGrows, Zenon DEF TypeOK
    <3> QED
      BY <2>1, <3>1, <3>2 DEF TypeOK, MainLabels, CtrlLabels
  <2>2. CASE UNCHANGED <<dest, new_tx>> /\ Goto(t, After(t))
    BY <2>2 DEF TypeOK, MainLabels, CtrlLabels
  <2> QED
    BY <2>1, <2>2
<1>3. SwitchInOrder' /\ Killed'
  BY DEF TypeOK, SwitchInOrder, Killed
<1>4. MutexHeld' /\ Phases'
  BY <1>1 DEF Running, TypeOK, MutexHeld, Phases, InMain, InCtrl, SettingLabels
<1>5. Newest'
  BY <1>1 DEF Running, TypeOK, Newest, Somewhere, Phases, SettingLabels
<1>6. OpenIsHeld'
  BY <1>1 DEF Running, TypeOK, Newest, OpenIsHeld, Held, Somewhere, Phases, SettingLabels
<1>7. TargetIsTx'
  <2>1. tx_ctx = NULL \/ tx_ctx \in 1..Len(dest)
    BY DEF TypeOK
  <2>2. \A c \in 1..Len(dest) : dest'[c] = dest[c]
    BY Appended DEF TypeOK
  <2> QED
    BY <1>1, <2>1, <2>2 DEF Running, TypeOK, TargetIsTx, Somewhere, Phases, SettingLabels
<1>8. ForwardedBefore'
  BY <1>1 DEF Running, TypeOK, ForwardedBefore, Phases, SettingLabels
<1>9. RxOpen' /\ InHand' /\ Taken'
  BY <1>1 DEF Running, TypeOK, RxOpen, InHand, Taken, Phases, SettingLabels
<1> QED
  BY <1>1, <1>2, <1>3, <1>4, <1>5, <1>6, <1>7, <1>8, <1>9 DEF Running

\* Entering relay_set_target's critical section.
LEMMA LockSetKeeps ==
    ASSUME IInv, NEW t \in {"main", "ctrl"}, Lock(t, "lock_set", "swap")
    PROVE  IInv'
<1> USE DEF IInv, At, Goto, Shared, Setting, Data, NULL, Lock
<1>1. Running
  BY DEF Killed, TypeOK
<1>2. TypeOK'
  BY DEF TypeOK, MainLabels, CtrlLabels
<1>3. SwitchInOrder' /\ Killed'
  BY DEF TypeOK, SwitchInOrder, Killed
<1>4. MutexHeld' /\ Phases'
  BY <1>1 DEF Running, TypeOK, MutexHeld, Phases, InMain, InCtrl, SettingLabels
<1>5. Newest'
  BY <1>1 DEF Running, TypeOK, Newest, Somewhere, Phases, SettingLabels
<1>6. OpenIsHeld'
  BY <1>1 DEF Running, TypeOK, Newest, OpenIsHeld, Held, Somewhere, Phases, SettingLabels
<1>7. TargetIsTx'
  BY <1>1 DEF Running, TypeOK, Newest, TargetIsTx, Somewhere, Phases, SettingLabels
<1>8. ForwardedBefore'
  BY <1>1 DEF Running, TypeOK, ForwardedBefore, Phases, SettingLabels
<1>9. RxOpen' /\ InHand' /\ Taken'
  BY <1>1 DEF Running, TypeOK, RxOpen, InHand, Taken, Phases, SettingLabels
<1> QED
  BY <1>1, <1>2, <1>3, <1>4, <1>5, <1>6, <1>7, <1>8, <1>9 DEF Running

\* The new context is the newest, so what was sent on went to older ones.
LEMMA SwapKeeps ==
    ASSUME IInv, NEW t \in {"main", "ctrl"}, Swap(t)
    PROVE  IInv'
<1> USE DEF IInv, At, Goto, Shared, Setting, Data, NULL, Swap
<1>1. Running
  BY DEF Killed, TypeOK
<1>2. TypeOK'
  BY DEF TypeOK, MainLabels, CtrlLabels
<1>3. SwitchInOrder' /\ Killed'
  BY DEF TypeOK, SwitchInOrder, Killed
<1>4. MutexHeld' /\ Phases'
  BY <1>1 DEF Running, TypeOK, MutexHeld, Phases, InMain, InCtrl, SettingLabels
<1>5. Newest'
  BY <1>1 DEF Running, TypeOK, Newest, Somewhere, Phases, SettingLabels
<1>6. OpenIsHeld'
  <2>1. Held = {tx_ctx, new_tx}
    BY <1>1 DEF Running, TypeOK, Held, Somewhere, Phases, SettingLabels
  <2>2. Held' = {tx_ctx, new_tx}
    BY <1>1 DEF Running, TypeOK, Held, Somewhere, Phases, SettingLabels
  <2>3. pc["main"] # "done" /\ pc'["main"] \notin {"send", "done"}
    BY <1>1 DEF Running, TypeOK, MutexHeld, InMain, InCtrl, Phases, SettingLabels
  <2>4. closed = (1..Len(dest)) \ Held
    BY <1>1, <2>3 DEF Running, OpenIsHeld
  <2>5. closed' = (1..Len(dest')) \ Held'
    BY <2>1, <2>2, <2>4
  <2> QED
    BY <2>3, <2>5, Zenon DEF OpenIsHeld
<1>7. TargetIsTx'
  BY <1>1 DEF Running, TypeOK, Newest, TargetIsTx, Somewhere, Phases, SettingLabels
<1>8. ForwardedBefore'
  <2>1. tx_ctx < tx_ctx'
    BY <1>1 DEF Running, Newest, Somewhere
  <2>2. \A i \in 1..Len(forwarded) : forwarded[i].ctx \in Nat
    <3>1. received \in Nat /\ Len(dest) \in Nat
      BY LenProperties DEF TypeOK
    <3>2. \A i \in 1..Len(forwarded) : forwarded[i].ctx \in 1..Len(dest)
      BY <3>1, ForwardedFields, Zenon DEF TypeOK
    <3> QED
      BY <3>1, <3>2
  <2>3. pc["main"] \notin {"close_tx", "done"}
        /\ (pc'["main"] \in {"lock_tx", "load", "send"} => pc'["main"] = pc["main"])
    BY <1>1 DEF Running, TypeOK, Phases, SettingLabels
  <2>4. tx_ctx \in Nat /\ tx_ctx' \in Nat
    BY DEF TypeOK
  <2>5. forwarded' = forwarded /\ buf' = buf
    OBVIOUS
  <2>6. ASSUME NEW i \in 1..Len(forwarded)
        PROVE  /\ pc'["main"] \in {"lock_tx", "load", "send"} => forwarded[i].msg < buf
               /\ forwarded[i].ctx <= tx_ctx'
    <3>1. forwarded[i].ctx <= tx_ctx
          /\ (pc["main"] \in {"lock_tx", "load", "send"} => forwarded[i].msg < buf)
      BY <1>1, <2>3 DEF Running, ForwardedBefore
    <3> QED
      BY <2>1, <2>2, <2>3, <2>4, <3>1
  <2> QED
    BY <2>5, <2>6 DEF ForwardedBefore
<1>9. RxOpen' /\ InHand' /\ Taken'
  BY <1>1 DEF Running, TypeOK, RxOpen, InHand, Taken, Phases, SettingLabels
<1> QED
  BY <1>1, <1>2, <1>3, <1>4, <1>5, <1>6, <1>7, <1>8, <1>9 DEF Running

\* Leaving it, with the address of the context in place.
LEMMA SetTargetAddressKeeps ==
    ASSUME IInv, NEW t \in {"main", "ctrl"}, SetTargetAddress(t)
    PROVE  IInv'
<1> USE DEF IInv, At, Goto, Shared, Setting, Data, NULL, SetTargetAddress
<1>1. Running
  BY DEF Killed, TypeOK
<1>2. TypeOK'
  BY DEF TypeOK, MainLabels, CtrlLabels
<1>3. SwitchInOrder' /\ Killed'
  BY DEF TypeOK, SwitchInOrder, Killed
<1>4. MutexHeld' /\ Phases'
  BY <1>1 DEF Running, TypeOK, MutexHeld, Phases, InMain, InCtrl, SettingLabels
<1>5. Newest'
  BY <1>1 DEF Running, TypeOK, Newest, Somewhere, Phases, SettingLabels
<1>6. OpenIsHeld'
  BY <1>1 DEF Running, TypeOK, Newest, OpenIsHeld, Held, Somewhere, Phases, SettingLabels
<1>7. TargetIsTx'
  BY <1>1 DEF Running, TypeOK, Newest, TargetIsTx, Somewhere, Phases, SettingLabels
<1>8. ForwardedBefore'
  BY <1>1 DEF Running, TypeOK, ForwardedBefore, Phases, SettingLabels
<1>9. RxOpen' /\ InHand' /\ Taken'
  BY <1>1 DEF Running, TypeOK, RxOpen, InHand, Taken, Phases, SettingLabels
<1> QED
  BY <1>1, <1>2, <1>3, <1>4, <1>5, <1>6, <1>7, <1>8, <1>9 DEF Running

\* The replaced context is the only one that is open and not in place.
LEMMA CloseOldKeeps ==
    ASSUME IInv, NEW t \in {"main", "ctrl"}, CloseOld(t)
    PROVE  IInv'
<1> USE DEF IInv, At, Goto, Shared, Setting, Data, NULL, CloseOld, After
<1>1. Running
  BY DEF Killed, TypeOK
<1>2. TypeOK'
  BY DEF TypeOK, MainLabels, CtrlLabels
<1>3. SwitchInOrder' /\ Killed'
  BY DEF TypeOK, SwitchInOrder, Killed
<1>4. MutexHeld' /\ Phases'
  BY <1>1 DEF Running, TypeOK, MutexHeld, Phases, InMain, InCtrl, SettingLabels
<1>5. Newest'
  BY <1>1 DEF Running, TypeOK, Newest, Somewhere, Phases, SettingLabels
<1>6. OpenIsHeld'
  BY <1>1 DEF Running, TypeOK, Newest, OpenIsHeld, Held, Somewhere, Phases, SettingLabels
<1>7. TargetIsTx'
  BY <1>1 DEF Running, TypeOK, Newest, TargetIsTx, Somewhere, Phases, SettingLabels
<1>8. ForwardedBefore'
  BY <1>1 DEF Running, TypeOK, ForwardedBefore, Phases, SettingLabels
<1>9. RxOpen' /\ InHand' /\ Taken'
  BY <1>1 DEF Running, TypeOK, RxOpen, InHand, Taken, Phases, SettingLabels
<1> QED
  BY <1>1, <1>2, <1>3, <1>4, <1>5, <1>6, <1>7, <1>8, <1>9 DEF Running

\* A quit command.
LEMMA QuitKeeps ==
    ASSUME IInv, Quit
    PROVE  IInv'
<1> USE DEF IInv, At, Goto, Shared, Setting, Data, NULL, Quit
<1>1. Running
  BY DEF Killed, TypeOK
<1>2. TypeOK'
  BY DEF TypeOK, MainLabels, CtrlLabels
<1>3. SwitchInOrder' /\ Killed'
  BY DEF TypeOK, SwitchInOrder, Killed
<1>4. MutexHeld' /\ Phases'
  BY <1>1 DEF Running, TypeOK, MutexHeld, Phases, InMain, InCtrl, SettingLabels
<1>5. Newest'
  BY <1>1 DEF Running, TypeOK, Newest, Somewhere, Phases, SettingLabels
<1>6. OpenIsHeld'
  BY <1>1 DEF Running, TypeOK, Newest, OpenIsHeld, Held, Somewhere, Phases, SettingLabels
<1>7. TargetIsTx'
  BY <1>1 DEF Running, TypeOK, Newest, TargetIsTx, Somewhere, Phases, SettingLabels
<1>8. ForwardedBefore'
  BY <1>1 DEF Running, TypeOK, ForwardedBefore, Phases, SettingLabels
<1>9. RxOpen' /\ InHand' /\ Taken'
  BY <1>1 DEF Running, TypeOK, RxOpen, InHand, Taken, Phases, SettingLabels
<1> QED
  BY <1>1, <1>2, <1>3, <1>4, <1>5, <1>6, <1>7, <1>8, <1>9 DEF Running

\* Entering the critical section of a show command.
LEMMA LockShowKeeps ==
    ASSUME IInv, Lock("ctrl", "lock_show", "print")
    PROVE  IInv'
<1> USE DEF IInv, At, Goto, Shared, Setting, Data, NULL, Lock
<1>1. Running
  BY DEF Killed, TypeOK
<1>2. TypeOK'
  BY DEF TypeOK, MainLabels, CtrlLabels
<1>3. SwitchInOrder' /\ Killed'
  BY DEF TypeOK, SwitchInOrder, Killed
<1>4. MutexHeld' /\ Phases'
  BY <1>1 DEF Running, TypeOK, MutexHeld, Phases, InMain, InCtrl, SettingLabels
<1>5. Newest'
  BY <1>1 DEF Running, TypeOK, Newest, Somewhere, Phases, SettingLabels
<1>6. OpenIsHeld'
  BY <1>1 DEF Running, TypeOK, Newest, OpenIsHeld, Held, Somewhere, Phases, SettingLabels
<1>7. TargetIsTx'
  BY <1>1 DEF Running, TypeOK, Newest, TargetIsTx, Somewhere, Phases, SettingLabels
<1>8. ForwardedBefore'
  BY <1>1 DEF Running, TypeOK, ForwardedBefore, Phases, SettingLabels
<1>9. RxOpen' /\ InHand' /\ Taken'
  BY <1>1 DEF Running, TypeOK, RxOpen, InHand, Taken, Phases, SettingLabels
<1> QED
  BY <1>1, <1>2, <1>3, <1>4, <1>5, <1>6, <1>7, <1>8, <1>9 DEF Running

\* Leaving it.
LEMMA PrintKeeps ==
    ASSUME IInv, PrintTarget
    PROVE  IInv'
<1> USE DEF IInv, At, Goto, Shared, Setting, Data, NULL, PrintTarget
<1>1. Running
  BY DEF Killed, TypeOK
<1>2. TypeOK'
  BY DEF TypeOK, MainLabels, CtrlLabels
<1>3. SwitchInOrder' /\ Killed'
  BY DEF TypeOK, SwitchInOrder, Killed
<1>4. MutexHeld' /\ Phases'
  BY <1>1 DEF Running, TypeOK, MutexHeld, Phases, InMain, InCtrl, SettingLabels
<1>5. Newest'
  BY <1>1 DEF Running, TypeOK, Newest, Somewhere, Phases, SettingLabels
<1>6. OpenIsHeld'
  BY <1>1 DEF Running, TypeOK, Newest, OpenIsHeld, Held, Somewhere, Phases, SettingLabels
<1>7. TargetIsTx'
  BY <1>1 DEF Running, TypeOK, Newest, TargetIsTx, Somewhere, Phases, SettingLabels
<1>8. ForwardedBefore'
  BY <1>1 DEF Running, TypeOK, ForwardedBefore, Phases, SettingLabels
<1>9. RxOpen' /\ InHand' /\ Taken'
  BY <1>1 DEF Running, TypeOK, RxOpen, InHand, Taken, Phases, SettingLabels
<1> QED
  BY <1>1, <1>2, <1>3, <1>4, <1>5, <1>6, <1>7, <1>8, <1>9 DEF Running

\* A set command.
LEMMA SetKeeps ==
    ASSUME IInv, Set
    PROVE  IInv'
<1> USE DEF IInv, At, Goto, Shared, Setting, Data, NULL, Set
<1>1. Running
  BY DEF Killed, TypeOK
<1>2. TypeOK'
  BY DEF TypeOK, MainLabels, CtrlLabels
<1>3. SwitchInOrder' /\ Killed'
  BY DEF TypeOK, SwitchInOrder, Killed
<1>4. MutexHeld' /\ Phases'
  BY <1>1 DEF Running, TypeOK, MutexHeld, Phases, InMain, InCtrl, SettingLabels
<1>5. Newest'
  BY <1>1 DEF Running, TypeOK, Newest, Somewhere, Phases, SettingLabels
<1>6. OpenIsHeld'
  BY <1>1 DEF Running, TypeOK, Newest, OpenIsHeld, Held, Somewhere, Phases, SettingLabels
<1>7. TargetIsTx'
  BY <1>1 DEF Running, TypeOK, Newest, TargetIsTx, Somewhere, Phases, SettingLabels
<1>8. ForwardedBefore'
  BY <1>1 DEF Running, TypeOK, ForwardedBefore, Phases, SettingLabels
<1>9. RxOpen' /\ InHand' /\ Taken'
  BY <1>1 DEF Running, TypeOK, RxOpen, InHand, Taken, Phases, SettingLabels
<1> QED
  BY <1>1, <1>2, <1>3, <1>4, <1>5, <1>6, <1>7, <1>8, <1>9 DEF Running

LEMMA SpawnKeeps ==
    ASSUME IInv, Spawn
    PROVE  IInv'
<1> USE DEF IInv, At, Goto, Shared, NULL
<1>1. /\ Running /\ pc["main"] = "spawn" /\ pc["ctrl"] = "none" /\ tx_mu = "free"
      /\ UNCHANGED <<proto, Shared, ip, new_tx, old_tx, buf, in_use, hung_up, dest,
                     received, forwarded>>
  BY DEF Spawn, Killed, Running, MutexHeld, Phases, InMain, InCtrl, TypeOK
<1>2. Held = {tx_ctx} /\ closed = (1..Len(dest)) \ {tx_ctx} /\ Len(dest) \in Nat
      /\ tx_ctx \in 0..Len(dest)
  BY <1>1 DEF Running, OpenIsHeld, Held, Somewhere, TypeOK
<1>3. SwitchInOrder'
  BY <1>1 DEF SwitchInOrder
<1>4. ASSUME pc' = [main |-> "check", ctrl |-> "check"], UNCHANGED <<rx_open, closed>>
      PROVE  IInv'
  <2>1. pc'["main"] = "check" /\ pc'["ctrl"] = "check"
        /\ pc' \in [{"main", "ctrl"} -> MainLabels \cup CtrlLabels]
    BY <1>4 DEF MainLabels, CtrlLabels
  <2>2. TypeOK' /\ Killed'
    BY <1>1, <1>4, <2>1 DEF TypeOK, Killed, MainLabels, CtrlLabels
  <2>3. MutexHeld' /\ Phases' /\ Newest' /\ RxOpen' /\ InHand' /\ Taken'
    BY <1>1, <2>1 DEF MutexHeld, Phases, Newest, RxOpen, InHand, Taken, InMain, InCtrl,
                      SettingLabels, Somewhere
  <2>4. OpenIsHeld'
    BY <1>1, <1>2, <1>4, <2>1 DEF OpenIsHeld, Held, Somewhere
  <2>5. TargetIsTx' /\ ForwardedBefore'
    BY <1>1, <2>1 DEF Running, TargetIsTx, ForwardedBefore, Somewhere
  <2> QED
    BY <1>3, <2>2, <2>3, <2>4, <2>5 DEF Running
<1>5. ASSUME Goto("main", "done"), rx_open' = FALSE, closed' = closed \cup ({tx_ctx} \ {NULL})
      PROVE  IInv'
  <2>1. pc'["main"] = "done" /\ pc'["ctrl"] = "none" /\ closed' = 1..Len(dest)
        /\ pc' \in [{"main", "ctrl"} -> MainLabels \cup CtrlLabels]
    BY <1>1, <1>2, <1>5 DEF MainLabels, CtrlLabels, TypeOK
  <2>2. TypeOK' /\ Killed'
    BY <1>1, <1>5, <2>1 DEF TypeOK, Killed, MainLabels, CtrlLabels
  <2>3. MutexHeld' /\ Phases' /\ Newest' /\ RxOpen' /\ InHand' /\ Taken'
    BY <1>1, <1>5, <2>1 DEF MutexHeld, Phases, Newest, RxOpen, InHand, Taken, InMain, InCtrl,
                            SettingLabels,
                            Somewhere
  <2>4. OpenIsHeld'
    BY <1>1, <2>1 DEF OpenIsHeld
  <2>5. TargetIsTx' /\ ForwardedBefore'
    BY <1>1, <2>1 DEF TargetIsTx, ForwardedBefore
  <2> QED
    BY <1>3, <2>2, <2>3, <2>4, <2>5 DEF Running
<1> QED
  BY <1>4, <1>5 DEF Spawn

\* A message is newer than all that were sent on.
LEMMA RecvMessageKeeps ==
    ASSUME IInv, RecvMessage
    PROVE  IInv'
<1> USE DEF IInv, At, Goto, Shared, Setting, Data, NULL, RecvMessage
<1>1. Running
  BY DEF Killed, TypeOK
<1>2. TypeOK'
  <2>1. forwarded \in Seq([msg : 1..received', ctx : 1..Len(dest)])
    <3>1. received \in Nat /\ Len(dest) \in Nat
      BY LenProperties DEF TypeOK
    <3> QED
      BY <3>1, ForwardedGrows, Zenon DEF TypeOK
  <2> QED
    BY <2>1 DEF TypeOK, MainLabels, CtrlLabels
<1>3. SwitchInOrder' /\ Killed'
  BY DEF TypeOK, SwitchInOrder, Killed
<1>4. MutexHeld' /\ Phases'
  BY <1>1 DEF Running, TypeOK, MutexHeld, Phases, InMain, InCtrl, SettingLabels
<1>5. Newest'
  BY <1>1 DEF Running, TypeOK, Newest, Somewhere, Phases, SettingLabels
<1>6. OpenIsHeld'
  BY <1>1 DEF Running, TypeOK, Newest, OpenIsHeld, Held, Somewhere, Phases, SettingLabels
<1>7. TargetIsTx'
  BY <1>1 DEF Running, TypeOK, Newest, TargetIsTx, Somewhere, Phases, SettingLabels
<1>8. ForwardedBefore'
  <2>1. \A i \in 1..Len(forwarded) : forwarded[i].msg < buf'
    <3>1. received \in Nat /\ Len(dest) \in Nat
      BY LenProperties DEF TypeOK
    <3>2. \A i \in 1..Len(forwarded) : forwarded[i].msg \in 1..received
      BY <3>1, ForwardedFields, Zenon DEF TypeOK
    <3> QED
      BY <3>1, <3>2
  <2> QED
    BY <1>1, <2>1 DEF Running, TypeOK, ForwardedBefore
<1>9. RxOpen' /\ InHand' /\ Taken'
  BY <1>1 DEF Running, TypeOK, RxOpen, InHand, Taken, Phases, SettingLabels
<1> QED
  BY <1>1, <1>2, <1>3, <1>4, <1>5, <1>6, <1>7, <1>8, <1>9 DEF Running

\* Entering the critical section of the main loop.
LEMMA LockTxKeeps ==
    ASSUME IInv, Lock("main", "lock_tx", "load")
    PROVE  IInv'
<1> USE DEF IInv, At, Goto, Shared, Setting, Data, NULL, Lock
<1>1. Running
  BY DEF Killed, TypeOK
<1>2. TypeOK'
  BY DEF TypeOK, MainLabels, CtrlLabels
<1>3. SwitchInOrder' /\ Killed'
  BY DEF TypeOK, SwitchInOrder, Killed
<1>4. MutexHeld' /\ Phases'
  BY <1>1 DEF Running, TypeOK, MutexHeld, Phases, InMain, InCtrl, SettingLabels
<1>5. Newest'
  BY <1>1 DEF Running, TypeOK, Newest, Somewhere, Phases, SettingLabels
<1>6. OpenIsHeld'
  BY <1>1 DEF Running, TypeOK, Newest, OpenIsHeld, Held, Somewhere, Phases, SettingLabels
<1>7. TargetIsTx'
  BY <1>1 DEF Running, TypeOK, Newest, TargetIsTx, Somewhere, Phases, SettingLabels
<1>8. ForwardedBefore'
  BY <1>1 DEF Running, TypeOK, ForwardedBefore, Phases, SettingLabels
<1>9. RxOpen' /\ InHand' /\ Taken'
  BY <1>1 DEF Running, TypeOK, RxOpen, InHand, Taken, Phases, SettingLabels
<1> QED
  BY <1>1, <1>2, <1>3, <1>4, <1>5, <1>6, <1>7, <1>8, <1>9 DEF Running

\* The pointer main passes to omni_send is the one in place.
LEMMA LoadTxKeeps ==
    ASSUME IInv, LoadTx
    PROVE  IInv'
<1> USE DEF IInv, At, Goto, Shared, Setting, Data, NULL, LoadTx
<1>1. Running
  BY DEF Killed, TypeOK
<1>2. TypeOK'
  BY DEF TypeOK, MainLabels, CtrlLabels
<1>3. SwitchInOrder' /\ Killed'
  BY DEF TypeOK, SwitchInOrder, Killed
<1>4. MutexHeld' /\ Phases'
  BY <1>1 DEF Running, TypeOK, MutexHeld, Phases, InMain, InCtrl, SettingLabels
<1>5. Newest'
  BY <1>1 DEF Running, TypeOK, Newest, Somewhere, Phases, SettingLabels
<1>6. OpenIsHeld'
  BY <1>1 DEF Running, TypeOK, Newest, OpenIsHeld, Held, Somewhere, Phases, SettingLabels
<1>7. TargetIsTx'
  BY <1>1 DEF Running, TypeOK, Newest, TargetIsTx, Somewhere, Phases, SettingLabels
<1>8. ForwardedBefore'
  BY <1>1 DEF Running, TypeOK, ForwardedBefore, Phases, SettingLabels
<1>9. RxOpen' /\ InHand' /\ Taken'
  BY <1>1 DEF Running, TypeOK, RxOpen, InHand, Taken, Phases, SettingLabels
<1> QED
  BY <1>1, <1>2, <1>3, <1>4, <1>5, <1>6, <1>7, <1>8, <1>9 DEF Running

LEMMA SendKeeps ==
    ASSUME IInv, Send
    PROVE  IInv'
<1> USE DEF IInv, At, Goto, Shared, Setting
<1>1. /\ Running /\ pc["main"] = "send" /\ tx_mu = "main" /\ in_use = tx_ctx
      /\ tx_ctx \in 1..Len(dest)
      /\ pc' = [pc EXCEPT !["main"] = "unlock_tx"]
      /\ UNCHANGED <<proto, Shared, Setting, buf, in_use, rx_open, hung_up, received>>
  BY DEF Send, Killed, Running, MutexHeld, OpenIsHeld, InMain, TypeOK, NULL
<1>2. pc'["main"] = "unlock_tx" /\ pc'["ctrl"] = pc["ctrl"]
      /\ pc' \in [{"main", "ctrl"} -> MainLabels \cup CtrlLabels]
  BY <1>1 DEF TypeOK, MainLabels, CtrlLabels
<1>3. /\ forwarded' \in Seq([msg : 1..received, ctx : 1..Len(dest)])
      /\ SwitchInOrder'
      /\ \A i \in 1..Len(forwarded') : forwarded'[i].ctx <= tx_ctx
  <2> DEFINE e == [msg |-> buf, ctx |-> tx_ctx]
             Sent == [msg : 1..received, ctx : 1..Len(dest)]
  <2>1. /\ forwarded \in Seq(Sent)
        /\ \A i \in 1..Len(forwarded) : forwarded[i].msg < buf /\ forwarded[i].ctx <= tx_ctx
        /\ \A i, j \in 1..Len(forwarded) : i < j =>
              forwarded[i].msg < forwarded[j].msg /\ forwarded[i].ctx <= forwarded[j].ctx
    BY <1>1 DEF Running, TypeOK, ForwardedBefore, SwitchInOrder
  <2>2. CASE UNCHANGED forwarded
    BY <2>1, <2>2 DEF SwitchInOrder
  <2>3. CASE forwarded' = Append(forwarded, e)
    <3>1. e \in Sent
      <4>1. buf \in 1..received
        BY <1>1 DEF Running, TypeOK, InHand
      <4> QED
        BY <1>1, <4>1
    <3>2. e.msg = buf /\ e.ctx = tx_ctx
      OBVIOUS
    <3> HIDE DEF e, Sent
    <3>3. /\ Append(forwarded, e) \in Seq(Sent)
          /\ Len(forwarded) \in Nat /\ Len(Append(forwarded, e)) = Len(forwarded) + 1
          /\ \A i \in 1..Len(forwarded) : Append(forwarded, e)[i] = forwarded[i]
          /\ Append(forwarded, e)[Len(forwarded) + 1] = e
      BY <2>1, <3>1, Appended
    <3>4. tx_ctx \in Nat
      BY <1>1 DEF TypeOK
    <3>5. ASSUME NEW i \in 1..(Len(forwarded) + 1)
          PROVE  forwarded'[i].ctx <= tx_ctx
      BY <2>1, <2>3, <3>2, <3>3, <3>4
    <3>6. ASSUME NEW i \in 1..(Len(forwarded) + 1), NEW j \in 1..(Len(forwarded) + 1), i < j
          PROVE  /\ forwarded'[i].msg < forwarded'[j].msg
                 /\ forwarded'[i].ctx <= forwarded'[j].ctx
      BY <2>1, <2>3, <3>2, <3>3, <3>6
    <3> QED
      BY <2>3, <3>3, <3>5, <3>6 DEF SwitchInOrder, Sent
  <2> QED
    BY <1>1, <2>2, <2>3 DEF Send
<1>4. TypeOK' /\ Killed'
  BY <1>1, <1>2, <1>3 DEF TypeOK, Killed, MainLabels, CtrlLabels
<1>5. MutexHeld' /\ Phases' /\ Newest' /\ RxOpen' /\ InHand' /\ Taken'
  BY <1>1, <1>2 DEF Running, MutexHeld, Phases, Newest, RxOpen, InHand, Taken, InMain,
                    InCtrl, SettingLabels,
                    Somewhere
<1>6. OpenIsHeld' /\ TargetIsTx'
  BY <1>1, <1>2 DEF Running, OpenIsHeld, Held, TargetIsTx, Somewhere
<1>7. ForwardedBefore'
  BY <1>1, <1>2, <1>3 DEF ForwardedBefore
<1> QED
  BY <1>3, <1>4, <1>5, <1>6, <1>7 DEF Running

\* A killed process has only to keep its history.
LEMMA SigpipeKeeps ==
    ASSUME IInv, Sigpipe
    PROVE  IInv'
<1> USE DEF IInv, Sigpipe, Shared, Setting, Data
<1>1. TypeOK'
  BY DEF TypeOK, MainLabels, CtrlLabels
<1>2. SwitchInOrder' /\ Killed' /\ pc'["main"] = "killed"
  BY DEF SwitchInOrder, Killed
<1> QED
  BY <1>1, <1>2

\* Leaving it.
LEMMA UnlockTxKeeps ==
    ASSUME IInv, UnlockTx
    PROVE  IInv'
<1> USE DEF IInv, At, Goto, Shared, Setting, Data, NULL, UnlockTx
<1>1. Running
  BY DEF Killed, TypeOK
<1>2. TypeOK'
  BY DEF TypeOK, MainLabels, CtrlLabels
<1>3. SwitchInOrder' /\ Killed'
  BY DEF TypeOK, SwitchInOrder, Killed
<1>4. MutexHeld' /\ Phases'
  BY <1>1 DEF Running, TypeOK, MutexHeld, Phases, InMain, InCtrl, SettingLabels
<1>5. Newest'
  BY <1>1 DEF Running, TypeOK, Newest, Somewhere, Phases, SettingLabels
<1>6. OpenIsHeld'
  BY <1>1 DEF Running, TypeOK, Newest, OpenIsHeld, Held, Somewhere, Phases, SettingLabels
<1>7. TargetIsTx'
  BY <1>1 DEF Running, TypeOK, Newest, TargetIsTx, Somewhere, Phases, SettingLabels
<1>8. ForwardedBefore'
  BY <1>1 DEF Running, TypeOK, ForwardedBefore, Phases, SettingLabels
<1>9. RxOpen' /\ InHand' /\ Taken'
  BY <1>1 DEF Running, TypeOK, RxOpen, InHand, Taken, Phases, SettingLabels
<1> QED
  BY <1>1, <1>2, <1>3, <1>4, <1>5, <1>6, <1>7, <1>8, <1>9 DEF Running

\* The end of the main loop.
LEMMA StopKeeps ==
    ASSUME IInv, Stop
    PROVE  IInv'
<1> USE DEF IInv, At, Goto, Shared, Setting, Data, NULL, Stop
<1>1. Running
  BY DEF Killed, TypeOK
<1>2. TypeOK'
  BY DEF TypeOK, MainLabels, CtrlLabels
<1>3. SwitchInOrder' /\ Killed'
  BY DEF TypeOK, SwitchInOrder, Killed
<1>4. MutexHeld' /\ Phases'
  BY <1>1 DEF Running, TypeOK, MutexHeld, Phases, InMain, InCtrl, SettingLabels
<1>5. Newest'
  BY <1>1 DEF Running, TypeOK, Newest, Somewhere, Phases, SettingLabels
<1>6. OpenIsHeld'
  BY <1>1 DEF Running, TypeOK, Newest, OpenIsHeld, Held, Somewhere, Phases, SettingLabels
<1>7. TargetIsTx'
  BY <1>1 DEF Running, TypeOK, Newest, TargetIsTx, Somewhere, Phases, SettingLabels
<1>8. ForwardedBefore'
  BY <1>1 DEF Running, TypeOK, ForwardedBefore, Phases, SettingLabels
<1>9. RxOpen' /\ InHand' /\ Taken'
  BY <1>1 DEF Running, TypeOK, RxOpen, InHand, Taken, Phases, SettingLabels
<1> QED
  BY <1>1, <1>2, <1>3, <1>4, <1>5, <1>6, <1>7, <1>8, <1>9 DEF Running

\* Taking the mutex for the last time.
LEMMA LockTakeKeeps ==
    ASSUME IInv, Lock("main", "lock_take", "take")
    PROVE  IInv'
<1> USE DEF IInv, At, Goto, Shared, Setting, Data, NULL, Lock
<1>1. Running
  BY DEF Killed, TypeOK
<1>2. TypeOK'
  BY DEF TypeOK, MainLabels, CtrlLabels
<1>3. SwitchInOrder' /\ Killed'
  BY DEF TypeOK, SwitchInOrder, Killed
<1>4. MutexHeld' /\ Phases'
  BY <1>1 DEF Running, TypeOK, MutexHeld, Phases, InMain, InCtrl, SettingLabels
<1>5. Newest'
  BY <1>1 DEF Running, TypeOK, Newest, Somewhere, Phases, SettingLabels
<1>6. OpenIsHeld'
  BY <1>1 DEF Running, TypeOK, Newest, OpenIsHeld, Held, Somewhere, Phases, SettingLabels
<1>7. TargetIsTx'
  BY <1>1 DEF Running, TypeOK, Newest, TargetIsTx, Somewhere, Phases, SettingLabels
<1>8. ForwardedBefore'
  BY <1>1 DEF Running, TypeOK, ForwardedBefore, Phases, SettingLabels
<1>9. RxOpen' /\ InHand' /\ Taken'
  BY <1>1 DEF Running, TypeOK, RxOpen, InHand, Taken, Phases, SettingLabels
<1> QED
  BY <1>1, <1>2, <1>3, <1>4, <1>5, <1>6, <1>7, <1>8, <1>9 DEF Running

\* Taking tx_ctx away.
LEMMA TakeTxKeeps ==
    ASSUME IInv, TakeTx
    PROVE  IInv'
<1> USE DEF IInv, At, Goto, Shared, Setting, Data, NULL, TakeTx
<1>1. Running
  BY DEF Killed, TypeOK
<1>2. TypeOK'
  BY DEF TypeOK, MainLabels, CtrlLabels
<1>3. SwitchInOrder' /\ Killed'
  BY DEF TypeOK, SwitchInOrder, Killed
<1>4. MutexHeld' /\ Phases'
  BY <1>1 DEF Running, TypeOK, MutexHeld, Phases, InMain, InCtrl, SettingLabels
<1>5. Newest'
  BY <1>1 DEF Running, TypeOK, Newest, Somewhere, Phases, SettingLabels
<1>6. OpenIsHeld'
  BY <1>1 DEF Running, TypeOK, Newest, OpenIsHeld, Held, Somewhere, Phases, SettingLabels
<1>7. TargetIsTx'
  BY <1>1 DEF Running, TypeOK, Newest, TargetIsTx, Somewhere, Phases, SettingLabels
<1>8. ForwardedBefore'
  BY <1>1 DEF Running, TypeOK, ForwardedBefore, Phases, SettingLabels
<1>9. RxOpen' /\ InHand' /\ Taken'
  BY <1>1 DEF Running, TypeOK, RxOpen, InHand, Taken, Phases, SettingLabels
<1> QED
  BY <1>1, <1>2, <1>3, <1>4, <1>5, <1>6, <1>7, <1>8, <1>9 DEF Running

\* The last close leaves no context open.
LEMMA CloseTxKeeps ==
    ASSUME IInv, CloseTx
    PROVE  IInv'
<1> USE DEF IInv, At, Goto, Shared, Setting, Data, NULL, CloseTx
<1>1. Running
  BY DEF Killed, TypeOK
<1>2. TypeOK'
  BY DEF TypeOK, MainLabels, CtrlLabels
<1>3. SwitchInOrder' /\ Killed'
  BY DEF TypeOK, SwitchInOrder, Killed
<1>4. MutexHeld' /\ Phases'
  BY <1>1 DEF Running, TypeOK, MutexHeld, Phases, InMain, InCtrl, SettingLabels
<1>5. Newest'
  BY <1>1 DEF Running, TypeOK, Newest, Somewhere, Phases, SettingLabels
<1>6. OpenIsHeld'
  <2>1. Held = {tx_ctx, old_tx} /\ tx_ctx = NULL
    BY <1>1 DEF Running, TypeOK, Held, Somewhere, Phases, SettingLabels, Taken
  <2> QED
    BY <1>1, <2>1 DEF Running, TypeOK, OpenIsHeld
<1>7. TargetIsTx'
  BY <1>1 DEF Running, TypeOK, Newest, TargetIsTx, Somewhere, Phases, SettingLabels
<1>8. ForwardedBefore'
  BY <1>1 DEF Running, TypeOK, ForwardedBefore, Phases, SettingLabels
<1>9. RxOpen' /\ InHand' /\ Taken'
  BY <1>1 DEF Running, TypeOK, RxOpen, InHand, Taken, Phases, SettingLabels
<1> QED
  BY <1>1, <1>2, <1>3, <1>4, <1>5, <1>6, <1>7, <1>8, <1>9 DEF Running

LEMMA HangUpKeeps ==
    ASSUME IInv, HangUp
    PROVE  IInv'
<1> USE DEF IInv, HangUp, Shared, Setting
<1>1. TypeOK'
  BY DEF TypeOK
<1>2. SwitchInOrder' /\ Killed' /\ pc' = pc
  BY DEF SwitchInOrder, Killed
<1>3. Running => Running'
  BY DEF Running, MutexHeld, Phases, Newest, OpenIsHeld, TargetIsTx, ForwardedBefore, RxOpen,
         InHand, Taken,         Held, Somewhere
<1> QED
  BY <1>1, <1>2, <1>3

\* The steps that only read.
LEMMA LabelKeeps ==
    ASSUME IInv, CtrlCheck \/ NoCommand \/ Show \/ MainCheck
                 \/ RecvNothing \/ RecvEmpty \/ RecvFails \/ Join
    PROVE  IInv'
<1> USE DEF IInv
<1>1. PICK t \in {"main", "ctrl"}, from \in MainLabels \cup CtrlLabels,
           to \in MainLabels \cup CtrlLabels :
         /\ pc[t] = from /\ pc' = [pc EXCEPT ![t] = to]
         /\ \/ t = "ctrl" /\ from \in {"check", "fgets"}
               /\ to \in {"check", "fgets", "exit", "lock_show"}
            \/ t = "main" /\ from \in {"check", "recv"} /\ to \in {"check", "recv", "stop"}
            \/ t = "main" /\ from = "join" /\ to = "lock_take" /\ pc["ctrl"] = "exit"
  BY DEF CtrlCheck, NoCommand, Show, MainCheck, RecvNothing, RecvEmpty, RecvFails, Join,
         At, Goto, MainLabels, CtrlLabels
<1>2. UNCHANGED <<proto, running, tx_ctx, target, tx_mu, ip, new_tx, old_tx, dest, closed,
                  buf, in_use, rx_open, hung_up, received, forwarded>>
  BY DEF CtrlCheck, NoCommand, Show, MainCheck, RecvNothing, RecvEmpty, RecvFails, Join,
         Shared, Setting, Data
<1>3. Running
  BY <1>1 DEF Killed
<1>4. /\ pc'["main"] = IF t = "main" THEN to ELSE pc["main"]
      /\ pc'["ctrl"] = IF t = "ctrl" THEN to ELSE pc["ctrl"]
      /\ pc' \in [{"main", "ctrl"} -> MainLabels \cup CtrlLabels]
  BY <1>1 DEF TypeOK, MainLabels, CtrlLabels
<1>5. TypeOK' /\ SwitchInOrder' /\ Killed'
  BY <1>1, <1>2, <1>4 DEF TypeOK, SwitchInOrder, Killed, MainLabels, CtrlLabels
<1>6. MutexHeld' /\ Phases'
  BY <1>1, <1>2, <1>3, <1>4 DEF Running, MutexHeld, Phases, InMain, InCtrl, SettingLabels
<1>7. \A labels : (Somewhere(labels)' => Somewhere(labels) \/ to \in labels)
                  /\ (Somewhere(labels) => Somewhere(labels)' \/ from \in labels)
  BY <1>1, <1>4 DEF Somewhere
<1>8. Newest' /\ Held' = Held
  BY <1>1, <1>2, <1>3, <1>7 DEF Running, Newest, Held
<1>9. OpenIsHeld'
  BY <1>1, <1>2, <1>3, <1>4, <1>8 DEF Running, OpenIsHeld, Phases
<1>10. TargetIsTx'
  BY <1>1, <1>2, <1>3, <1>4, <1>7 DEF Running, TargetIsTx
<1>11. ForwardedBefore' /\ InHand'
  BY <1>1, <1>2, <1>3, <1>4 DEF Running, ForwardedBefore, InHand
<1>12. RxOpen' /\ Taken'
  BY <1>1, <1>2, <1>3, <1>4 DEF Running, RxOpen, Taken
<1> QED
  BY <1>5, <1>6, <1>8, <1>9, <1>10, <1>11, <1>12 DEF Running

-----------------------------------------------------------------------------
\* The invariant holds initially.
LEMMA InitIInv == Init => IInv
<1> SUFFICES ASSUME Init PROVE IInv
  OBVIOUS
<1> USE DEF Init, NULL
<1>1. Len(dest) = 0 /\ Len(forwarded) = 0
  OBVIOUS
<1>2. TypeOK
  <2>1. pc["main"] = "connect" /\ pc["ctrl"] = "none"
        /\ pc \in [{"main", "ctrl"} -> MainLabels \cup CtrlLabels]
    BY DEF MainLabels, CtrlLabels
  <2>2. dest \in Seq(Address) /\ forwarded \in Seq([msg : 1..received, ctx : 1..Len(dest)])
    OBVIOUS
  <2>3. tx_ctx \in 0..Len(dest) /\ new_tx \in 0..Len(dest) /\ old_tx \in 0..Len(dest)
        /\ in_use \in 0..Len(dest) /\ buf \in 0..received /\ received \in Nat
    BY <1>1
  <2>4. closed \subseteq 1..Len(dest) /\ target \in Address \cup {NoAddress} /\ ip \in Address
    OBVIOUS
  <2>5. running \in BOOLEAN /\ rx_open \in BOOLEAN /\ hung_up \in BOOLEAN
        /\ tx_mu \in {"free", "main", "ctrl"}
    OBVIOUS
  <2> QED
    BY <2>1, <2>2, <2>3, <2>4, <2>5 DEF TypeOK, MainLabels, CtrlLabels
<1>3. SwitchInOrder /\ Killed
  BY <1>1 DEF SwitchInOrder, Killed
<1>4. MutexHeld /\ Phases /\ Newest /\ RxOpen /\ InHand /\ Taken
  BY DEF MutexHeld, Phases, Newest, RxOpen, InHand, Taken, InMain, InCtrl, SettingLabels,
         Somewhere
<1>5. OpenIsHeld /\ TargetIsTx /\ ForwardedBefore
  BY <1>1 DEF OpenIsHeld, TargetIsTx, ForwardedBefore, Held, Somewhere
<1> QED
  BY <1>2, <1>3, <1>4, <1>5 DEF IInv, Running

\* Every step of the two threads preserves the invariant.
LEMMA NextKeeps == IInv /\ [Next]_vars => IInv'
<1> SUFFICES ASSUME IInv, [Next]_vars PROVE IInv'
  OBVIOUS
<1>1. ASSUME NEW t \in {"main", "ctrl"}, RelaySetTarget(t) PROVE IInv'
  BY <1>1, ConnectKeeps, LockSetKeeps, SwapKeeps, SetTargetAddressKeeps, CloseOldKeeps
     DEF RelaySetTarget
<1>2. CASE Ctrl
  BY <1>1, <1>2, LabelKeeps, QuitKeeps, PrintKeeps, SetKeeps, LockShowKeeps DEF Ctrl
<1>3. CASE Main
  BY <1>1, <1>3, LabelKeeps, SpawnKeeps, RecvMessageKeeps, LockTxKeeps, LoadTxKeeps, SendKeeps,
     SigpipeKeeps, UnlockTxKeeps, StopKeeps, LockTakeKeeps, TakeTxKeeps, CloseTxKeeps DEF Main
<1>4. CASE UNCHANGED vars
  <2> USE <1>4 DEF vars
  <2>1. TypeOK'
    BY DEF IInv, TypeOK
  <2>2. SwitchInOrder' /\ Killed' /\ pc' = pc
    BY DEF IInv, SwitchInOrder, Killed
  <2>3. Running => Running'
    BY DEF Running, MutexHeld, Phases, Newest, OpenIsHeld, TargetIsTx, ForwardedBefore, RxOpen,
           InHand, Taken, Held, Somewhere
  <2> QED
    BY <2>1, <2>2, <2>3 DEF IInv
<1> QED
  BY <1>2, <1>3, <1>4, HangUpKeeps DEF Next

\* The invariant holds in every reachable state.
THEOREM RelayInvariant == Spec => []IInv
  BY InitIInv, NextKeeps, PTL DEF Spec

\* Every variable keeps its type.
THEOREM RelayTypeCorrect == Spec => []TypeOK
<1>1. IInv => TypeOK
  BY DEF IInv
<1> QED
  BY <1>1, RelayInvariant, PTL

\* The mutex and the order of swap and close keep the context in use open, and
\* no context is closed twice.
THEOREM NoContextFreedInUse == Spec => []NoUseAfterClose
<1>1. IInv => NoUseAfterClose
  <2> SUFFICES ASSUME IInv, pc["main"] # "killed" PROVE NoUseAfterClose
    BY DEF IInv, Killed, NoUseAfterClose, At
  <2>1. Running /\ TypeOK
    BY DEF IInv
  <2>2. pc["main"] = "send" => in_use \notin closed
    BY <2>1 DEF Running, OpenIsHeld, Held
  <2>3. Somewhere({"target", "close_old", "close_tx"}) => old_tx \in Held
    BY DEF Held
  <2>4. pc["main"] # "done" => Held \cap closed = {}
    BY <2>1 DEF Running, OpenIsHeld
  <2>5. pc["ctrl"] = "close_old" => pc["main"] # "done"
    BY <2>1 DEF Running, Phases
  <2> QED
    BY <2>2, <2>3, <2>4, <2>5 DEF NoUseAfterClose, At, Somewhere
<1> QED
  BY <1>1, RelayInvariant, PTL

\* The address a show command prints is the address of the context in place.
THEOREM ShowTellsTheTruth == Spec => []ShowIsTrue
<1>1. IInv => ShowIsTrue
  BY DEF IInv, Killed, Running, TypeOK, MutexHeld, InMain, InCtrl, Phases, SettingLabels,
         TargetIsTx, Somewhere, ShowIsTrue, At
<1> QED
  BY <1>1, RelayInvariant, PTL

\* Messages are forwarded in order, once at most, never back to a replaced target.
THEOREM NeverBackToOldTarget == Spec => []SwitchInOrder
<1>1. IInv => SwitchInOrder
  BY DEF IInv
<1> QED
  BY <1>1, RelayInvariant, PTL

\* The relay returns from main with every context closed.
THEOREM NoContextLeaks == Spec => []AllClosed
<1>1. IInv => AllClosed
  BY DEF IInv, Running, OpenIsHeld, RxOpen, AllClosed, At
<1> QED
  BY <1>1, RelayInvariant, PTL

=============================================================================
