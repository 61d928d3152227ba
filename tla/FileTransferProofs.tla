------------------------- MODULE FileTransferProofs -------------------------
(***************************************************************************)
(* What FileTransfer's runs check on a file of a few chunks, proved *)
(* for files, buffers and numbers of commands of any size: types, the      *)
(* order of the teardown on every transport, and over TCP and KCP that     *)
(* transfer_done means a complete file.                                    *)
(***************************************************************************)
EXTENDS FileTransfer, SequenceTheorems, TLAPS

\* The parts of the type invariant that need a label: a chunk in hand has a
\* number.
InHand ==
    /\ main["client"] = "send" => fpos >= 1
    /\ recv["server"] = "handle" => frame >= 1

Typed == TypeOK /\ InHand

\* Teardown order: by the time a context is about to be closed, its receive
\* thread has returned.
Teardown ==
    /\ ClosedIsUnused
    /\ \A p \in Program : main[p] = "close" => recv[p] = "exit"

\* The messages on their way to a server that is open follow the last one it
\* took, without a gap, and end with FILE_END.
Consecutive ==
    open["server"] =>
        /\ frame + Len(chan["server"]) <= FILE_END
        /\ \A i \in 1..Len(chan["server"]) : chan["server"][i] = frame + i

\* As long as nothing has been lost, they reach up to the last one sent.
SentSoFar ==
    open["server"] /\ ~rst =>
        /\ main["client"] = "check" => frame + Len(chan["server"]) = fpos
        /\ main["client"] = "send" => frame + Len(chan["server"]) = fpos - 1
        /\ (main["client"] = "after" /\ running["client"]) \/ main["client"] = "send_end" =>
              frame + Len(chan["server"]) = FileLen

\* Only a TCP connection is reset.
ResetIsTcp == rst => Proto = "tcp"

\* The chunks written are the first ones of the file, up to the one in hand.
Written ==
    /\ \A i \in 1..Len(out) : out[i] = i
    /\ recv["server"] = "handle" => Len(out) = frame - 1
    /\ recv["server"] \in {"check", "recv"} =>
          Len(out) = IF frame = FILE_END THEN FileLen ELSE frame

\* The file holds the first of them, and after FILE_END all.
Stored ==
    /\ Len(file) <= Len(out)
    /\ \A i \in 1..Len(file) : file[i] = i
    /\ transfer_done =>
          frame = FILE_END /\ recv["server"] # "handle"
          /\ Len(out) = FileLen /\ Len(file) = FileLen

Transfer == Consecutive /\ SentSoFar /\ ResetIsTcp /\ Written /\ Stored
-----------------------------------------------------------------------------
(* Sequences. *)

\* A prefix has the elements of the sequence it is a prefix of.
LEMMA PrefixElements ==
    ASSUME NEW S, NEW s \in Seq(S), NEW r \in Prefixes(s)
    PROVE  /\ r \in Seq(S)
           /\ Len(r) <= Len(s)
           /\ \A i \in 1..Len(r) : r[i] = s[i]
<1>1. PICK k \in 0..Len(s) : r = SubSeq(s, 1, k)
  BY DEF Prefixes
<1>2. /\ Len(r) = k /\ r \in Seq(S)
      /\ \A i \in 1..k : r[i] = s[i]
  BY <1>1
<1> QED  BY <1>2

\* Without takes one element out.
LEMMA WithoutType ==
    ASSUME NEW S, NEW s \in Seq(S), NEW i \in 1..Len(s)
    PROVE  Without(s, i) \in Seq(S)
<1>1. SubSeq(s, 1, i - 1) \in Seq(S) /\ SubSeq(s, i + 1, Len(s)) \in Seq(S)
  OBVIOUS
<1> QED  BY <1>1 DEF Without

\* Without the first element the others move up by one.
LEMMA WithoutFirst ==
    ASSUME NEW S, NEW s \in Seq(S), s # <<>>
    PROVE  /\ Len(Without(s, 1)) = Len(s) - 1
           /\ \A i \in 1..(Len(s) - 1) : Without(s, 1)[i] = s[i + 1]
<1>1. Without(s, 1) = <<>> \o Tail(s)
  BY SubSeqEmpty, TailIsSubSeq DEF Without
<1>2. /\ Tail(s) \in Seq(S) /\ Len(Tail(s)) = Len(s) - 1
      /\ \A i \in 1..(Len(s) - 1) : Tail(s)[i] = s[i + 1]
  BY HeadTailProperties
<1>3. <<>> \o Tail(s) = Tail(s)
  BY <1>2
<1> QED  BY <1>1, <1>2, <1>3

-----------------------------------------------------------------------------
(* What the network's operators keep. *)

\* Sending a message keeps the types of the network.
LEMMA SendTypes ==
    ASSUME TypeOK, NEW p \in Program, NEW m \in 1..Command, SendOk(p, m)
    PROVE  /\ open' = open /\ rst' \in BOOLEAN
           /\ chan' \in [Program -> Seq(1..Command)]
<1> DEFINE M == 1..Command
<1>1. chan \in [Program -> Seq(M)] /\ rst \in BOOLEAN /\ m \in M /\ Peer(p) \in Program
  BY DEF TypeOK, Peer, Program
<1>2. open' = open
  BY DEF SendOk
<1> HIDE DEF M
<1>3. Append(chan[Peer(p)], m) \in Seq(M)
  BY <1>1
<1>4. \A rest \in Prefixes(chan[p]) : rest \in Seq(M)
  BY <1>1, PrefixElements
<1>5. CASE chan' = [chan EXCEPT ![Peer(p)] = Append(@, m)] /\ rst' = rst
  BY <1>1, <1>2, <1>3, <1>5 DEF M
<1>6. CASE rst' = TRUE /\ \E rest \in Prefixes(chan[p]) : chan' = [chan EXCEPT ![p] = rest]
  BY <1>1, <1>2, <1>4, <1>6 DEF M
<1>7. CASE chan' = chan /\ rst' = rst
  BY <1>1, <1>2, <1>7 DEF M
<1> QED  BY <1>5, <1>6, <1>7 DEF SendOk

\* Receiving one too.
LEMMA RecvTypes ==
    ASSUME TypeOK, NEW p \in Program, NEW m, RecvMessage(p, m)
    PROVE  /\ open' = open /\ rst' = rst
           /\ chan' \in [Program -> Seq(1..Command)]
<1> DEFINE M == 1..Command
<1>1. chan \in [Program -> Seq(M)]
  BY DEF TypeOK
<1>2. PICK i \in 1..Len(chan[p]) : chan' = [chan EXCEPT ![p] = Without(@, i)]
  BY DEF RecvMessage
<1> HIDE DEF M
<1>3. Without(chan[p], i) \in Seq(M)
  BY <1>1, WithoutType
<1> QED  BY <1>1, <1>2, <1>3 DEF RecvMessage, M

\* And closing a context.
LEMMA CloseTypes ==
    ASSUME TypeOK, NEW p \in Program, CloseContext(p)
    PROVE  /\ open' \in [Program -> BOOLEAN] /\ rst' \in BOOLEAN
           /\ chan' \in [Program -> Seq(1..Command)]
<1> DEFINE M == 1..Command
<1>1. /\ chan \in [Program -> Seq(M)] /\ rst \in BOOLEAN
      /\ open \in [Program -> BOOLEAN] /\ Peer(p) \in Program
  BY DEF TypeOK, Peer, Program
<1>2. PICK rest \in Prefixes(chan[Peer(p)]) \cup {chan[Peer(p)]} :
        chan' = [q \in Program |-> IF q = p THEN <<>> ELSE rest]
  BY DEF CloseContext
<1>3. open' = [open EXCEPT ![p] = FALSE] /\ rst' = (rst \/ (Proto = "tcp" /\ chan[p] # <<>>))
  BY DEF CloseContext
<1> HIDE DEF M
<1>4. rest \in Seq(M) /\ <<>> \in Seq(M)
  BY <1>1, <1>2, PrefixElements
<1> QED  BY <1>1, <1>2, <1>3, <1>4 DEF M

-----------------------------------------------------------------------------
(* Types. *)

LEMMA TypedInit == Init => Typed
<1> SUFFICES ASSUME Init PROVE Typed
  OBVIOUS
<1>1. <<>> \in Seq(1..Command) /\ <<>> \in Seq(1..FileLen)
  OBVIOUS
<1>2. 0 \in 0..FileLen /\ 0 \in 0..FILE_END /\ 0 \in 0..MaxCmds
  BY SizeAssumption DEF FILE_END
<1>3. TypeOK
  BY <1>1, <1>2 DEF Init, TypeOK, MainLabels, Program
<1>4. InHand
  BY DEF Init, InHand, Program
<1> QED  BY <1>3, <1>4 DEF Typed

\* Every step keeps the types.
LEMMA TypedNext == Typed /\ [Next]_vars => Typed'
<1> SUFFICES ASSUME Typed, [Next]_vars PROVE Typed'
  OBVIOUS
<1> USE DEF Typed, InHand, Step, RecvStep, Halt, Program
<1>t. TypeOK
  OBVIOUS
<1>m. /\ FILE_END = FileLen + 1 /\ Command = FileLen + 2
      /\ FileLen \in Nat /\ MaxCmds \in Nat
  BY SizeAssumption DEF FILE_END, Command
<1>1. CASE Signal
  BY <1>1, <1>t DEF Signal, TypeOK, network, output
<1>2. CASE ReadChunk
  <2>1. fpos' \in 0..FileLen /\ (main'["client"] = "send" => fpos' >= 1)
    BY <1>2, <1>t, <1>m DEF ReadChunk, MoreToRead, TypeOK
  <2>2. main' \in [Program -> MainLabels] /\ running' \in [Program -> BOOLEAN]
    <3>1. /\ \E to \in {"send", "after"} : main' = [main EXCEPT !["client"] = to]
          /\ running' = running \/ running' = [running EXCEPT !["client"] = FALSE]
      BY <1>2 DEF ReadChunk
    <3>2. main \in [Program -> MainLabels] /\ running \in [Program -> BOOLEAN]
      BY <1>t DEF TypeOK
    <3> QED  BY <3>1, <3>2 DEF MainLabels
  <2> QED  BY <1>2, <1>t, <2>1, <2>2 DEF ReadChunk, TypeOK, network, output
<1>3. CASE SendChunk
  <2>1. main["client"] = "send" /\ fpos \in 1..Command
    BY <1>3, <1>t, <1>m DEF SendChunk, TypeOK
  <2>2. /\ open' \in [Program -> BOOLEAN] /\ rst' \in BOOLEAN
        /\ chan' \in [Program -> Seq(1..Command)]
    BY <1>3, <1>t, <2>1, SendTypes DEF SendChunk, TypeOK, network
  <2>3. /\ main' \in [Program -> MainLabels] /\ running' \in [Program -> BOOLEAN]
        /\ main'["client"] # "send"
    BY <1>3, <1>t DEF SendChunk, TypeOK, MainLabels
  <2> QED  BY <1>3, <1>t, <2>2, <2>3 DEF SendChunk, TypeOK, progress, output
<1>4. CASE AfterLoop
  <2>1. main' \in [Program -> MainLabels] /\ main'["client"] # "send"
    BY <1>4, <1>t DEF AfterLoop, TypeOK, MainLabels
  <2> QED  BY <1>4, <1>t, <2>1 DEF AfterLoop, TypeOK, network, progress, output
<1>5. CASE SendEnd
  <2>2. /\ open' \in [Program -> BOOLEAN] /\ rst' \in BOOLEAN
        /\ chan' \in [Program -> Seq(1..Command)]
    BY <1>5, <1>t, <1>m, SendTypes DEF SendEnd, TypeOK, network
  <2>3. /\ main' \in [Program -> MainLabels] /\ running' \in [Program -> BOOLEAN]
        /\ main'["client"] # "send" /\ finished' \in BOOLEAN
    BY <1>5, <1>t DEF SendEnd, TypeOK, MainLabels
  <2> QED  BY <1>5, <1>t, <2>2, <2>3 DEF SendEnd, TypeOK, output
<1>6. CASE Wait
  <2>1. main' \in [Program -> MainLabels] /\ main'["client"] # "send"
    BY <1>6, <1>t DEF Wait, TypeOK, MainLabels
  <2> QED  BY <1>6, <1>t, <2>1 DEF Wait, TypeOK, network, progress, output
<1>7. ASSUME NEW p \in Program, Cancel(p) PROVE Typed'
  <2>1. /\ main' \in [Program -> MainLabels] /\ running' \in [Program -> BOOLEAN]
        /\ main'["client"] = "send" => main["client"] = "send"
    BY <1>7, <1>t DEF Cancel, TypeOK, MainLabels
  <2> QED  BY <1>7, <1>t, <2>1 DEF Cancel, TypeOK, network, progress, output
<1>8. ASSUME NEW p \in Program, Join(p) PROVE Typed'
  <2>1. /\ main' \in [Program -> MainLabels]
        /\ recv' \in [Program -> {"check", "recv", "handle", "exit", "killed"}]
        /\ main'["client"] = "send" => main["client"] = "send"
        /\ recv'["server"] = "handle" => recv["server"] = "handle"
    BY <1>8, <1>t DEF Join, TypeOK, MainLabels
  <2> QED  BY <1>8, <1>t, <2>1 DEF Join, TypeOK, network, progress, output
<1>9. CASE ClientClose
  <2>1. main' \in [Program -> MainLabels] /\ main'["client"] # "send"
    BY <1>9, <1>t DEF ClientClose, TypeOK, MainLabels
  <2> QED  BY <1>9, <1>t, <2>1, CloseTypes DEF ClientClose, TypeOK, progress, output
<1>10. CASE ClientRecv
  <2>1. /\ open' \in [Program -> BOOLEAN] /\ rst' \in BOOLEAN
        /\ chan' \in [Program -> Seq(1..Command)]
    BY <1>10, <1>t, RecvTypes DEF ClientRecv, TypeOK, network
  <2>2. /\ recv' \in [Program -> {"check", "recv", "handle", "exit", "killed"}]
        /\ recv'["server"] = recv["server"]
        /\ running' \in [Program -> BOOLEAN]
    BY <1>10, <1>t DEF ClientRecv, TypeOK
  <2> QED  BY <1>10, <1>t, <2>1, <2>2 DEF ClientRecv, TypeOK, progress, output
<1>11. CASE Poll
  <2>1. main' \in [Program -> MainLabels] /\ main'["client"] = main["client"]
    BY <1>11, <1>t DEF Poll, TypeOK, MainLabels
  <2> QED  BY <1>11, <1>t, <2>1 DEF Poll, TypeOK, network, progress, output
<1>12. CASE Terminal
  <2>1. /\ main' \in [Program -> MainLabels] /\ main'["client"] = main["client"]
        /\ cmds' \in 0..MaxCmds
    BY <1>12, <1>t, <1>m DEF Terminal, TypeOK, MainLabels
  <2> QED  BY <1>12, <1>t, <2>1 DEF Terminal, TypeOK, network, progress, output
<1>13. CASE SendCommand
  <2>1. /\ open' \in [Program -> BOOLEAN] /\ rst' \in BOOLEAN
        /\ chan' \in [Program -> Seq(1..Command)]
    BY <1>13, <1>t, <1>m, SendTypes DEF SendCommand, TypeOK, network
  <2>2. main' \in [Program -> MainLabels] /\ main'["client"] = main["client"]
    BY <1>13, <1>t DEF SendCommand, TypeOK, MainLabels
  <2> QED  BY <1>13, <1>t, <2>1, <2>2 DEF SendCommand, TypeOK, progress, output
<1>f. \A chunks \in Seq(1..FileLen) : Flushed(chunks) \subseteq Seq(1..FileLen)
  <2> SUFFICES ASSUME NEW chunks \in Seq(1..FileLen), NEW r \in Flushed(chunks)
               PROVE  r \in Seq(1..FileLen)
    OBVIOUS
  <2>1. CASE r = chunks
    BY <2>1
  <2>2. CASE \E k \in Len(file)..Len(chunks) : r = SubSeq(chunks, 1, k)
    <3>1. Len(file) \in Nat
      BY <1>t DEF TypeOK
    <3>2. r \in Prefixes(chunks)
      BY <2>2, <3>1 DEF Prefixes
    <3> QED  BY <3>2, PrefixElements
  <2> QED  BY <2>1, <2>2 DEF Flushed
<1>14. CASE ServerClose
  <2>1. main' \in [Program -> MainLabels] /\ main'["client"] = main["client"]
    BY <1>14, <1>t DEF ServerClose, TypeOK, MainLabels
  <2>2. file' \in Seq(1..FileLen)
    BY <1>14, <1>t, <1>f DEF ServerClose, TypeOK
  <2> QED  BY <1>14, <1>t, <2>1, <2>2, CloseTypes DEF ServerClose, TypeOK, progress
<1>15. CASE ServerRecv
  <2>1. /\ open' \in [Program -> BOOLEAN] /\ rst' \in BOOLEAN
        /\ chan' \in [Program -> Seq(1..Command)]
    BY <1>15, <1>t, RecvTypes DEF ServerRecv, TypeOK, network
  <2>2. /\ recv' \in [Program -> {"check", "recv", "handle", "exit", "killed"}]
        /\ running' \in [Program -> BOOLEAN]
    BY <1>15, <1>t DEF ServerRecv, TypeOK
  <2>3. /\ frame' \in 0..FILE_END
        /\ recv'["server"] = "handle" => frame' >= 1
    BY <1>15, <1>t, <1>m DEF ServerRecv, TypeOK
  <2> QED  BY <1>15, <1>t, <2>1, <2>2, <2>3 DEF ServerRecv, TypeOK, progress
<1>16. CASE WriteChunk
  <2>1. frame \in 1..FileLen
    <3>1. recv["server"] = "handle" /\ frame # FILE_END
      BY <1>16 DEF WriteChunk
    <3>2. frame \in 0..FILE_END /\ frame >= 1
      BY <1>t, <3>1 DEF TypeOK
    <3> QED  BY <3>1, <3>2, <1>m
  <2>2. out' \in Seq(1..FileLen)
    <3> DEFINE M == 1..FileLen
    <3>1. out \in Seq(M) /\ frame \in M
      BY <1>t, <2>1 DEF TypeOK
    <3>2. out' = out \/ out' = Append(out, frame)
      BY <1>16 DEF WriteChunk
    <3> HIDE DEF M
    <3>3. out' \in Seq(M)
      BY <3>1, <3>2
    <3> QED  BY <3>3 DEF M
  <2>3. file' \in Seq(1..FileLen)
    <3>1. CASE \E k \in Len(file)..Len(out') : file' = SubSeq(out', 1, k)
      <4>1. Len(file) \in Nat
        BY <1>t DEF TypeOK
      <4>2. file' \in Prefixes(out')
        BY <3>1, <4>1 DEF Prefixes
      <4> QED  BY <4>2, <2>2, PrefixElements
    <3>2. CASE file' = file
      BY <3>2, <1>t DEF TypeOK
    <3> QED  BY <1>16, <3>1, <3>2 DEF WriteChunk
  <2>4. /\ recv' \in [Program -> {"check", "recv", "handle", "exit", "killed"}]
        /\ running' \in [Program -> BOOLEAN] /\ recv'["server"] # "handle"
    BY <1>16, <1>t DEF WriteChunk, TypeOK
  <2> QED  BY <1>16, <1>t, <2>2, <2>3, <2>4 DEF WriteChunk, TypeOK, network, progress
<1>17. CASE EndFile
  <2>1. /\ recv' \in [Program -> {"check", "recv", "handle", "exit", "killed"}]
        /\ recv'["server"] # "handle"
    BY <1>17, <1>t DEF EndFile, TypeOK
  <2>2. file' \in Seq(1..FileLen)
    BY <1>17, <1>t, <1>f DEF EndFile, TypeOK
  <2> QED  BY <1>17, <1>t, <2>1, <2>2 DEF EndFile, TypeOK, network, progress
<1>18. CASE Datagrams
  <2>1. chan' \in [Program -> Seq(1..Command)]
    <3> DEFINE M == 1..Command
    <3>0. PICK p \in Program : \E i \in 1..Len(chan[p]) :
            \/ chan' = [chan EXCEPT ![p] = Without(@, i)]
            \/ chan' = [chan EXCEPT ![p] = Append(@, @[i])]
      BY <1>18 DEF Datagrams
    <3>1. PICK i \in 1..Len(chan[p]) :
            \/ chan' = [chan EXCEPT ![p] = Without(@, i)]
            \/ chan' = [chan EXCEPT ![p] = Append(@, @[i])]
      BY <3>0
    <3>2. chan \in [Program -> Seq(M)]
      BY <1>t DEF TypeOK
    <3> HIDE DEF M
    <3>3. Without(chan[p], i) \in Seq(M) /\ Append(chan[p], chan[p][i]) \in Seq(M)
      BY <3>2, WithoutType
    <3> QED  BY <3>1, <3>2, <3>3 DEF M
  <2> QED  BY <1>18, <1>t, <2>1 DEF Datagrams, TypeOK, progress, output
<1>19. CASE ConnectionBreaks
  <2>1. chan' \in [Program -> Seq(1..Command)]
    <3> DEFINE M == 1..Command
    <3>1. chan \in [Program -> Seq(M)]
      BY <1>t DEF TypeOK
    <3>2. chan' \in [Program -> Prefixes(chan["client"]) \cup Prefixes(chan["server"])]
      BY <1>19 DEF ConnectionBreaks
    <3> HIDE DEF M
    <3>3. Prefixes(chan["client"]) \cup Prefixes(chan["server"]) \subseteq Seq(M)
      BY <3>1, PrefixElements
    <3> QED  BY <3>2, <3>3 DEF M
  <2> QED  BY <1>19, <1>t, <2>1 DEF ConnectionBreaks, TypeOK, progress, output
<1>20. ASSUME NEW p \in Program, Kill(p) PROVE Typed'
  <2>1. /\ open' \in [Program -> BOOLEAN] /\ rst' \in BOOLEAN
        /\ chan' \in [Program -> Seq(1..Command)]
    BY <1>20, <1>t, CloseTypes DEF Kill, TypeOK, network
  <2>2. /\ main' \in [Program -> MainLabels]
        /\ recv' \in [Program -> {"check", "recv", "handle", "exit", "killed"}]
        /\ main'["client"] = "send" => main["client"] = "send"
        /\ recv'["server"] = "handle" => recv["server"] = "handle"
    BY <1>20, <1>t DEF Kill, TypeOK, MainLabels
  <2> QED  BY <1>20, <1>t, <2>1, <2>2 DEF Kill, TypeOK, progress, output
<1>21. CASE UNCHANGED vars
  BY <1>21, <1>t DEF vars, TypeOK, network, progress, output
<1> QED
  BY <1>1, <1>2, <1>3, <1>4, <1>5, <1>6, <1>7, <1>8, <1>9, <1>10, <1>11, <1>12, <1>13,
     <1>14, <1>15, <1>16, <1>17, <1>18, <1>19, <1>20, <1>21
  DEF Next, ClientMain, ServerMain

\* Types: numbers stay within the file, labels are those of the two programs.
THEOREM FileTypeCorrect == Spec => []TypeOK
<1>1. Typed => TypeOK
  BY DEF Typed
<1> QED  BY <1>1, TypedInit, TypedNext, PTL DEF Spec

-----------------------------------------------------------------------------
(* The teardown. *)

LEMMA TeardownInit == Init => Teardown
BY DEF Init, Teardown, ClosedIsUnused, Program

\* Every step keeps the order of the teardown.
LEMMA TeardownNext == Typed /\ Teardown /\ [Next]_vars => Teardown'
<1> SUFFICES ASSUME Typed, Teardown, [Next]_vars, NEW p \in Program
             PROVE  /\ ~open'[p] => recv'[p] \in {"exit", "killed"}
                    /\ main'[p] = "close" => recv'[p] = "exit"
  BY DEF Teardown, ClosedIsUnused
<1> DEFINE Goal == /\ ~open'[p] => recv'[p] \in {"exit", "killed"}
                   /\ main'[p] = "close" => recv'[p] = "exit"
<1>t. /\ main \in [Program -> MainLabels]
      /\ recv \in [Program -> {"check", "recv", "handle", "exit", "killed"}]
      /\ open \in [Program -> BOOLEAN]
  BY DEF Typed, TypeOK
<1>h. \A q \in Program : /\ ~open[q] => recv[q] \in {"exit", "killed"}
                         /\ main[q] = "close" => recv[q] = "exit"
  BY DEF Teardown, ClosedIsUnused
<1>s. "client" \in Program /\ "server" \in Program
  BY DEF Program
\* A main thread takes a step that is not a close, nor one into it.
<1>a. ASSUME recv' = recv, open' = open,
             NEW q \in Program, NEW to \in MainLabels \ {"close"},
             main' = [main EXCEPT ![q] = to]
      PROVE  Goal
  BY <1>a, <1>t, <1>h
\* A receive thread takes a step.
<1>b. ASSUME main' = main, open' = open,
             NEW q \in Program, recv[q] \in {"check", "recv", "handle"},
             NEW to \in {"check", "recv", "handle", "exit"},
             recv' = [recv EXCEPT ![q] = to]
      PROVE  Goal
  BY <1>b, <1>t, <1>h
\* A step of neither.
<1>c. ASSUME main' = main, recv' = recv, open' = open PROVE Goal
  BY <1>c, <1>h
\* A context is closed whose receive thread has ended.
<1>d. ASSUME NEW q \in Program, CloseContext(q), recv'[q] \in {"exit", "killed"},
             recv'[p] = recv[p] \/ p = q, main'[q] # "close", main'[p] = main[p] \/ p = q
      PROVE  Goal
  <2>1. open' = [open EXCEPT ![q] = FALSE]
    BY <1>d DEF CloseContext
  <2>2. CASE p = q
    BY <1>d, <2>2
  <2>3. CASE p # q
    BY <1>d, <2>1, <2>3, <1>t, <1>h
  <2> QED  BY <2>2, <2>3
<1> SUFFICES Goal
  OBVIOUS
<1> HIDE DEF Goal
<1> USE DEF Step, RecvStep, network
<1>1. CASE Signal
  BY <1>1, <1>c DEF Signal
<1>2. CASE ReadChunk
  BY <1>2, <1>a, <1>s DEF ReadChunk, MainLabels
<1>3. CASE SendChunk
  BY <1>3, <1>a, <1>s DEF SendChunk, SendOk, MainLabels
<1>4. CASE AfterLoop
  BY <1>4, <1>a, <1>s DEF AfterLoop, MainLabels
<1>5. CASE SendEnd
  BY <1>5, <1>a, <1>s DEF SendEnd, SendOk, MainLabels
<1>6. CASE Wait
  BY <1>6, <1>a, <1>s DEF Wait, MainLabels
<1>7. ASSUME NEW q \in Program, Cancel(q) PROVE Goal
  BY <1>7, <1>a DEF Cancel, MainLabels
<1>8. ASSUME NEW q \in Program, Join(q) PROVE Goal
  <2>1. /\ recv' = [recv EXCEPT ![q] = "exit"] /\ open' = open
        /\ main' = [main EXCEPT ![q] = "close"]
    BY <1>8 DEF Join
  <2> QED  BY <2>1, <1>t, <1>h DEF Goal
<1>9. CASE ClientClose
  <2>1. /\ main["client"] = "close" /\ main' = [main EXCEPT !["client"] = "done"]
        /\ recv' = recv /\ CloseContext("client")
    BY <1>9 DEF ClientClose
  <2> QED  BY <2>1, <1>d, <1>t, <1>h, <1>s
<1>10. CASE ClientRecv
  BY <1>10, <1>b, <1>s DEF ClientRecv, RecvMessage
<1>11. CASE Poll
  BY <1>11, <1>a, <1>s DEF Poll, MainLabels
<1>12. CASE Terminal
  BY <1>12, <1>a, <1>s DEF Terminal, MainLabels
<1>13. CASE SendCommand
  BY <1>13, <1>a, <1>s DEF SendCommand, SendOk, MainLabels
<1>14. CASE ServerClose
  <2>1. /\ main["server"] = "close" /\ main' = [main EXCEPT !["server"] = "done"]
        /\ recv' = recv /\ CloseContext("server")
    BY <1>14 DEF ServerClose
  <2> QED  BY <2>1, <1>d, <1>t, <1>h, <1>s
<1>15. CASE ServerRecv
  BY <1>15, <1>b, <1>s DEF ServerRecv, RecvMessage
<1>16. CASE WriteChunk
  BY <1>16, <1>b, <1>s DEF WriteChunk
<1>17. CASE EndFile
  BY <1>17, <1>b, <1>s DEF EndFile
<1>18. CASE Datagrams
  BY <1>18, <1>c DEF Datagrams
<1>19. CASE ConnectionBreaks
  BY <1>19, <1>c DEF ConnectionBreaks
<1>20. ASSUME NEW q \in Program, Kill(q) PROVE Goal
  <2>1. /\ main' = [main EXCEPT ![q] = "killed"] /\ recv' = [recv EXCEPT ![q] = "killed"]
        /\ CloseContext(q) \/ open' = open
    BY <1>20 DEF Kill
  <2>2. CASE CloseContext(q)
    BY <2>1, <2>2, <1>d, <1>t
  <2>3. CASE open' = open
    BY <2>1, <2>3, <1>t, <1>h DEF Goal
  <2> QED  BY <2>1, <2>2, <2>3
<1>21. CASE UNCHANGED vars
  BY <1>21, <1>c DEF vars
<1> QED
  BY <1>1, <1>2, <1>3, <1>4, <1>5, <1>6, <1>7, <1>8, <1>9, <1>10, <1>11, <1>12, <1>13,
     <1>14, <1>15, <1>16, <1>17, <1>18, <1>19, <1>20, <1>21, <1>s
  DEF Next, ClientMain, ServerMain

\* On every transport the receive thread is gone before omni_close frees the
\* context it reads from and fclose the file it writes to.
THEOREM NoUseAfterTeardown == Spec => []ClosedIsUnused
<1>1. Teardown => ClosedIsUnused
  BY DEF Teardown
<1> QED  BY <1>1, TypedInit, TypedNext, TeardownInit, TeardownNext, PTL DEF Spec

-----------------------------------------------------------------------------
(* The file, over TCP and KCP. *)

\* The programs go on as they were started.
LEMMA ModeStays == [Next]_vars => mode' = mode
BY DEF Next, vars, Signal, ClientMain, ReadChunk, SendChunk, AfterLoop, SendEnd, Wait,
       Cancel, Join, ClientClose, ClientRecv, ServerMain, Poll, Terminal, SendCommand,
       ServerClose, ServerRecv, WriteChunk, EndFile, Datagrams, ConnectionBreaks, Kill

\* Over TCP and KCP, with room on the disk.
Reliable == Proto # "udp" /\ ~DiskFull

LEMMA TransferInit == Init => Transfer
BY SizeAssumption
DEF Init, Transfer, Consecutive, SentSoFar, ResetIsTcp, Written, Stored, Program, FILE_END

\* A shorter channel to the server is still consecutive.
LEMMA ConsecutivePrefix ==
    ASSUME Typed, Consecutive, open'["server"] = open["server"], frame' = frame,
           chan'["server"] \in Prefixes(chan["server"])
    PROVE  Consecutive'
<1> DEFINE c == chan["server"]
           d == chan'["server"]
           M == 1..Command
<1>1. c \in Seq(M) /\ frame \in Nat /\ FILE_END \in Int
  BY SizeAssumption DEF Typed, TypeOK, Program, FILE_END
<1>2. open["server"] => /\ frame + Len(c) <= FILE_END
                        /\ \A i \in 1..Len(c) : c[i] = frame + i
  BY DEF Consecutive
<1> SUFFICES ASSUME open["server"]
             PROVE  /\ frame + Len(d) <= FILE_END
                    /\ \A i \in 1..Len(d) : d[i] = frame + i
  BY DEF Consecutive
<1> HIDE DEF M
<1>3. d \in Prefixes(c)
  OBVIOUS
<1> HIDE DEF c, d
<1>4. d \in Seq(M) /\ Len(d) <= Len(c) /\ \A i \in 1..Len(d) : d[i] = c[i]
  BY <1>1, <1>3, PrefixElements
<1>5. Len(d) \in Nat /\ Len(c) \in Nat
  BY <1>1, <1>4
<1> QED  BY <1>1, <1>2, <1>4, <1>5

\* The messages to the server keep their order when a context is closed.
LEMMA CloseKeeps ==
    ASSUME Typed, Consecutive, ResetIsTcp, NEW p \in Program, CloseContext(p),
           Proto' = Proto, frame' = frame, p = "client" => main'["client"] \in {"done", "killed"}
    PROVE  Consecutive' /\ SentSoFar' /\ ResetIsTcp'
<1> DEFINE M == 1..Command
<1>1. open' = [open EXCEPT ![p] = FALSE] /\ open \in [Program -> BOOLEAN]
  BY DEF CloseContext, Typed, TypeOK
<1>2. ResetIsTcp'
  BY DEF ResetIsTcp, CloseContext
<1>3. CASE p = "server"
  BY <1>1, <1>2, <1>3 DEF Consecutive, SentSoFar
<1>4. CASE p = "client"
  <2>1. chan["server"] \in Seq(M)
    BY DEF Typed, TypeOK, Program
  <2>2. PICK rest \in Prefixes(chan["server"]) \cup {chan["server"]} :
          chan' = [q \in Program |-> IF q = p THEN <<>> ELSE rest]
    BY <1>4 DEF CloseContext, Peer
  <2> HIDE DEF M
  <2>3. chan["server"] \in Prefixes(chan["server"])
    <3>1. Len(chan["server"]) \in 0..Len(chan["server"])
      BY <2>1
    <3> QED  BY <2>1, <3>1, SubSeqFull DEF Prefixes
  <2>4. chan'["server"] \in Prefixes(chan["server"])
    BY <2>2, <2>3, <1>4 DEF Program
  <2>5. open'["server"] = open["server"]
    BY <1>1, <1>4
  <2>6. Consecutive'
    BY <2>4, <2>5, ConsecutivePrefix
  <2> QED  BY <1>2, <1>4, <2>6 DEF SentSoFar
<1> QED  BY <1>3, <1>4 DEF Program

\* omni_send by the client keeps the order, and counts one more message.
LEMMA ClientSends ==
    ASSUME Typed, Proto # "udp", Consecutive, ResetIsTcp, NEW m \in 1..FILE_END,
           open["server"] /\ ~rst => m = frame + Len(chan["server"]) + 1,
           SendOk("client", m), Proto' = Proto, frame' = frame
    PROVE  /\ Consecutive' /\ ResetIsTcp'
           /\ open'["server"] /\ ~rst' =>
                 open["server"] /\ ~rst /\ frame' + Len(chan'["server"]) = m
<1> DEFINE M == 1..Command
           c == chan["server"]
           d == chan'["server"]
<1>1. /\ chan \in [Program -> Seq(M)] /\ m \in M /\ frame \in Nat /\ FILE_END \in Int
      /\ "server" \in Program /\ "client" \in Program
  BY SizeAssumption DEF Typed, TypeOK, Program, FILE_END, Command
<1>2. open' = open
  BY DEF SendOk
<1>3. CASE rst' = TRUE /\ ~open["server"] /\ Proto = "tcp"
  BY <1>2, <1>3 DEF Consecutive, ResetIsTcp
<1>4. CASE /\ chan' = [chan EXCEPT !["server"] = Append(@, m)]
           /\ rst' = rst /\ ~rst
  <2> HIDE DEF M
  <2>1. c \in Seq(M) /\ d = Append(c, m)
    BY <1>1, <1>4
  <2>2. open["server"] => /\ frame + Len(c) <= FILE_END
                          /\ \A i \in 1..Len(c) : c[i] = frame + i
    BY DEF Consecutive
  <2>3. open["server"] => m = frame + Len(c) + 1
    BY <1>4
  <2> HIDE DEF c, d
  <2>4. /\ Len(d) = Len(c) + 1 /\ Len(c) \in Nat
        /\ d[Len(c) + 1] = m
        /\ \A i \in 1..Len(c) : d[i] = c[i]
    BY <1>1, <2>1
  <2>5. ASSUME open["server"]
        PROVE  /\ frame + Len(d) = m /\ m <= FILE_END
               /\ \A i \in 1..Len(d) : d[i] = frame + i
    <3>1. frame + Len(d) = m
      BY <1>1, <2>3, <2>4, <2>5
    <3>2. ASSUME NEW i \in 1..Len(d) PROVE d[i] = frame + i
      <4>1. CASE i = Len(c) + 1
        BY <2>3, <2>4, <2>5, <4>1, <1>1
      <4>2. CASE i \in 1..Len(c)
        BY <2>2, <2>4, <2>5, <4>2
      <4> QED  BY <2>4, <4>1, <4>2
    <3>3. m <= FILE_END
      BY <1>1
    <3> QED  BY <3>1, <3>2, <3>3
  <2> QED  BY <1>2, <1>4, <2>5 DEF Consecutive, ResetIsTcp, d
<1>5. Peer("client") = "server"
  BY DEF Peer
<1> QED
  <2>1. \/ rst' = TRUE /\ ~open["server"] /\ Proto = "tcp"
        \/ chan' = [chan EXCEPT !["server"] = Append(@, m)] /\ rst' = rst /\ ~rst
    BY <1>5 DEF SendOk, ResetIsTcp
  <2> QED  BY <2>1, <1>3, <1>4

\* Every step of a TCP or KCP transfer keeps the order of its messages.
LEMMA TransferNext ==
    ASSUME Reliable, Typed, Teardown, Transfer, [Next]_vars
    PROVE  Transfer'
<1>p. Proto' = Proto
  BY ModeStays DEF Proto
<1> USE DEF Reliable
<1>t. /\ main \in [Program -> MainLabels]
      /\ recv \in [Program -> {"check", "recv", "handle", "exit", "killed"}]
      /\ running \in [Program -> BOOLEAN] /\ open \in [Program -> BOOLEAN]
      /\ chan \in [Program -> Seq(1..Command)]
      /\ "client" \in Program /\ "server" \in Program
      /\ Program = {"client", "server"}
  BY DEF Typed, TypeOK, Program
<1>n. /\ fpos \in 0..FileLen /\ frame \in 0..FILE_END
      /\ out \in Seq(1..FileLen) /\ file \in Seq(1..FileLen)
      /\ FileLen \in Nat /\ FILE_END = FileLen + 1
      /\ Len(out) \in Nat /\ Len(file) \in Nat
  BY SizeAssumption DEF Typed, TypeOK, FILE_END
<1>l. Len(chan["server"]) \in Nat
  BY <1>t
<1>h. Consecutive /\ SentSoFar /\ ResetIsTcp /\ Written /\ Stored
  BY DEF Transfer
\* A step that writes nothing, and after which the thread has no new frame.
<1>w. ASSUME UNCHANGED output,
             recv'["server"] = recv["server"] \/ recv'["server"] \in {"exit", "killed"}
      PROVE  Written' /\ Stored'
  BY <1>w, <1>h DEF Written, Stored, output
\* A step that leaves the network and the client's label alone.
<1>c. ASSUME UNCHANGED network, frame' = frame, main'["client"] = main["client"],
             running'["client"] => running["client"], fpos' = fpos
      PROVE  Consecutive' /\ SentSoFar' /\ ResetIsTcp'
  BY <1>c, <1>h, <1>p DEF Consecutive, SentSoFar, ResetIsTcp, network
\* A step after which the client sends no more.
<1>e. ASSUME UNCHANGED network, frame' = frame,
             main'["client"] \notin {"check", "send", "send_end"},
             main'["client"] = "after" => ~running'["client"]
      PROVE  Consecutive' /\ SentSoFar' /\ ResetIsTcp'
  BY <1>e, <1>h, <1>p DEF Consecutive, SentSoFar, ResetIsTcp, network
<1> USE DEF Step, RecvStep, Halt
<1>1. CASE Signal
  BY <1>1, <1>w, <1>c DEF Signal, Transfer, network, output
<1>2. CASE ReadChunk
  <2>1. UNCHANGED network /\ UNCHANGED output /\ recv' = recv
    BY <1>2 DEF ReadChunk
  <2>2. Consecutive' /\ ResetIsTcp'
    BY <1>h, <2>1, <1>p DEF Consecutive, ResetIsTcp, network, output
  <2>3. open["server"] /\ ~rst => frame + Len(chan["server"]) = fpos
    BY <1>2, <1>h DEF ReadChunk, SentSoFar
  <2>4. \/ main'["client"] = "after" /\ ~running'["client"]
        \/ main'["client"] = "send" /\ fpos' = fpos + 1
        \/ main'["client"] = "after" /\ fpos = FileLen
    BY <1>2, <1>t, <1>n DEF ReadChunk, MoreToRead
  <2>5. SentSoFar'
    <3>1. open' = open /\ chan' = chan /\ rst' = rst /\ frame' = frame
      BY <2>1 DEF network, output
    <3>2. CASE main'["client"] = "after" /\ ~running'["client"]
      BY <3>2 DEF SentSoFar
    <3>3. CASE main'["client"] = "send" /\ fpos' = fpos + 1
      <4>1. open["server"] /\ ~rst => frame + Len(chan["server"]) = fpos' - 1
        BY <2>3, <3>3, <1>n
      <4> QED  BY <3>1, <3>3, <4>1 DEF SentSoFar
    <3>4. CASE main'["client"] = "after" /\ fpos = FileLen
      BY <2>3, <3>1, <3>4 DEF SentSoFar
    <3> QED  BY <2>4, <3>2, <3>3, <3>4
  <2> QED  BY <2>1, <2>2, <2>5, <1>w DEF Transfer
<1>3. CASE SendChunk
  <2>1. UNCHANGED output /\ recv' = recv /\ frame' = frame /\ fpos' = fpos
    BY <1>3 DEF SendChunk, output, progress
  <2>2. main["client"] = "send"
    BY <1>3 DEF SendChunk
  <2>3. CASE SendOk("client", fpos) /\ main' = [main EXCEPT !["client"] = "check"]
    <3>1. fpos \in 1..FILE_END
      BY <2>2, <1>n DEF Typed, InHand
    <3>2. open["server"] /\ ~rst => fpos = frame + Len(chan["server"]) + 1
      BY <1>h, <2>2, <1>n, <1>l DEF SentSoFar
    <3>3. /\ Consecutive' /\ ResetIsTcp'
          /\ open'["server"] /\ ~rst' => frame' + Len(chan'["server"]) = fpos
      BY <3>1, <3>2, <2>1, <2>3, <1>h, ClientSends, <1>p
    <3>4. SentSoFar'
      BY <2>1, <2>3, <3>3, <1>t DEF SentSoFar
    <3> QED  BY <2>1, <3>3, <3>4, <1>w DEF Transfer
  <2>4. CASE /\ main' = [main EXCEPT !["client"] = "after"] /\ UNCHANGED network
             /\ running' = [running EXCEPT !["client"] = FALSE]
    BY <2>1, <2>4, <1>t, <1>w, <1>e DEF Transfer
  <2> QED  BY <1>3, <2>3, <2>4 DEF SendChunk
<1>4. CASE AfterLoop
  <2>1. UNCHANGED network /\ UNCHANGED output /\ recv' = recv /\ fpos' = fpos
    BY <1>4 DEF AfterLoop, progress
  <2>2. /\ main["client"] = "after"
        /\ main'["client"] = IF running["client"] THEN "send_end" ELSE "wait"
    BY <1>4, <1>t DEF AfterLoop
  <2>3. Consecutive' /\ SentSoFar' /\ ResetIsTcp'
    BY <2>1, <2>2, <1>h, <1>p DEF Consecutive, SentSoFar, ResetIsTcp, network, output
  <2> QED  BY <2>1, <2>3, <1>w DEF Transfer
<1>5. CASE SendEnd
  <2>1. /\ UNCHANGED output /\ recv' = recv /\ frame' = frame
        /\ main["client"] = "send_end" /\ main' = [main EXCEPT !["client"] = "wait"]
    BY <1>5 DEF SendEnd, output
  <2>2. CASE SendOk("client", FILE_END)
    <3>1. open["server"] /\ ~rst => FILE_END = frame + Len(chan["server"]) + 1
      BY <1>h, <2>1, <1>n, <1>l DEF SentSoFar
    <3>2. FILE_END \in 1..FILE_END
      BY <1>n
    <3>3. Consecutive' /\ ResetIsTcp'
      BY <3>1, <3>2, <2>1, <2>2, <1>h, ClientSends, <1>p
    <3>4. SentSoFar'
      BY <2>1, <1>t DEF SentSoFar
    <3> QED  BY <2>1, <3>3, <3>4, <1>w DEF Transfer
  <2>3. CASE UNCHANGED network
    BY <2>1, <2>3, <1>t, <1>w, <1>e DEF Transfer
  <2> QED  BY <1>5, <2>2, <2>3 DEF SendEnd
<1>6. CASE Wait
  <2>1. /\ UNCHANGED network /\ UNCHANGED output /\ recv' = recv /\ frame' = frame
        /\ main'["client"] = "cancel"
    BY <1>6, <1>t DEF Wait, output
  <2> QED  BY <2>1, <1>w, <1>e DEF Transfer
<1>7. ASSUME NEW p \in Program, Cancel(p) PROVE Transfer'
  <2>1. /\ UNCHANGED network /\ UNCHANGED output /\ recv' = recv /\ frame' = frame
        /\ fpos' = fpos
        /\ main' = [main EXCEPT ![p] = "join"] /\ running' = [running EXCEPT ![p] = FALSE]
    BY <1>7 DEF Cancel, output, progress
  <2>2. CASE p = "client"
    BY <2>1, <2>2, <1>t, <1>w, <1>e DEF Transfer
  <2>3. CASE p = "server"
    BY <2>1, <2>3, <1>t, <1>w, <1>c DEF Transfer
  <2> QED  BY <2>2, <2>3, <1>t
<1>8. ASSUME NEW p \in Program, Join(p) PROVE Transfer'
  <2>1. /\ UNCHANGED network /\ UNCHANGED output /\ frame' = frame /\ fpos' = fpos
        /\ recv' = [recv EXCEPT ![p] = "exit"]
        /\ main' = [main EXCEPT ![p] = "close"] /\ running' = running
    BY <1>8 DEF Join, output, progress
  <2>2. recv'["server"] = recv["server"] \/ recv'["server"] = "exit"
    BY <2>1, <1>t
  <2>3. CASE p = "client"
    BY <2>1, <2>2, <2>3, <1>t, <1>w, <1>e DEF Transfer
  <2>4. CASE p = "server"
    BY <2>1, <2>2, <2>4, <1>t, <1>w, <1>c DEF Transfer
  <2> QED  BY <2>3, <2>4, <1>t
<1>9. CASE ClientClose
  <2>1. /\ UNCHANGED output /\ recv' = recv /\ frame' = frame
        /\ main'["client"] = "done" /\ CloseContext("client")
    BY <1>9, <1>t DEF ClientClose, output
  <2>2. Consecutive' /\ SentSoFar' /\ ResetIsTcp'
    BY <2>1, <1>t, <1>h, CloseKeeps, <1>p
  <2> QED  BY <2>1, <2>2, <1>w DEF Transfer
<1>10. CASE ClientRecv
  <2>1. /\ UNCHANGED output /\ recv'["server"] = recv["server"] /\ frame' = frame
        /\ main' = main /\ fpos' = fpos /\ open' = open /\ rst' = rst
        /\ running'["client"] => running["client"]
    BY <1>10, <1>t DEF ClientRecv, RecvMessage, output, progress, network
  <2>2. chan'["server"] = chan["server"]
    BY <1>10, <1>t DEF ClientRecv, RecvMessage, network
  <2>3. Consecutive' /\ SentSoFar' /\ ResetIsTcp'
    BY <2>1, <2>2, <1>h, <1>p DEF Consecutive, SentSoFar, ResetIsTcp
  <2> QED  BY <2>1, <2>3, <1>w DEF Transfer
<1>11. CASE Poll
  BY <1>11, <1>t, <1>w, <1>c DEF Poll, Transfer, output, progress
<1>12. CASE Terminal
  BY <1>12, <1>t, <1>w, <1>c DEF Terminal, Transfer, output, progress
<1>13. CASE SendCommand
  <2>1. /\ UNCHANGED output /\ recv' = recv /\ frame' = frame /\ fpos' = fpos
        /\ main'["client"] = main["client"] /\ running' = running
    BY <1>13, <1>t DEF SendCommand, output, progress
  <2>2. CASE UNCHANGED network
    BY <2>1, <2>2, <1>w, <1>c DEF Transfer
  <2>3. CASE SendOk("server", Command)
    <3>1. open' = open /\ Peer("server") = "client"
      BY <2>3 DEF SendOk, Peer
    <3>2. CASE chan' = [chan EXCEPT !["client"] = Append(@, Command)] /\ rst' = rst
      <4>1. chan'["server"] = chan["server"]
        BY <3>2, <1>t
      <4> QED
        BY <2>1, <3>1, <3>2, <4>1, <1>h, <1>w, <1>p
        DEF Transfer, Consecutive, SentSoFar, ResetIsTcp
    <3>3. CASE /\ rst' = TRUE /\ Proto = "tcp"
               /\ \E rest \in Prefixes(chan["server"]) : chan' = [chan EXCEPT !["server"] = rest]
      <4>1. chan'["server"] \in Prefixes(chan["server"])
        BY <3>3, <1>t
      <4>2. Consecutive'
        BY <4>1, <2>1, <3>1, <1>h, ConsecutivePrefix
      <4> QED  BY <2>1, <3>3, <4>2, <1>w, <1>p DEF Transfer, SentSoFar, ResetIsTcp
    <3> QED  BY <2>3, <3>1, <3>2, <3>3 DEF SendOk
  <2> QED  BY <1>13, <2>2, <2>3 DEF SendCommand
<1>14. CASE ServerClose
  <2>1. /\ recv' = recv /\ frame' = frame /\ out' = out /\ transfer_done' = transfer_done
        /\ CloseContext("server") /\ file' = out
    BY <1>14 DEF ServerClose, Flushed
  <2>2. Consecutive' /\ SentSoFar' /\ ResetIsTcp'
    BY <2>1, <1>t, <1>h, CloseKeeps, <1>p
  <2>3. Written' /\ Stored'
    BY <2>1, <1>h, <1>n DEF Written, Stored
  <2> QED  BY <2>2, <2>3 DEF Transfer
<1>15. CASE ServerRecv
  <2>1. /\ main' = main /\ fpos' = fpos /\ open' = open /\ rst' = rst
        /\ out' = out /\ file' = file /\ transfer_done' = transfer_done
        /\ running'["client"] = running["client"]
    BY <1>15, <1>t DEF ServerRecv, RecvMessage, progress, network
  <2>2. CASE recv["server"] = "recv" /\ recv'["server"] = "handle" /\ RecvMessage("server", frame')
    <3> DEFINE M == 1..Command
               c == chan["server"]
               d == chan'["server"]
    <3>1. open["server"]
      BY <2>2, <1>t DEF Teardown, ClosedIsUnused
    <3>2. c \in Seq(M) /\ c # <<>> /\ frame' = c[1] /\ d = Without(c, 1)
      <4>1. PICK i \in 1..Len(c) : i = 1 /\ frame' = c[i] /\ chan' = [chan EXCEPT !["server"] = Without(@, i)]
        BY <2>2 DEF RecvMessage
      <4>2. c \in Seq(M) /\ c # <<>>
        BY <4>1, <1>t
      <4> QED  BY <4>1, <4>2, <1>t
    <3>3. frame + Len(c) <= FILE_END /\ \A i \in 1..Len(c) : c[i] = frame + i
      BY <3>1, <1>h DEF Consecutive
    <3> HIDE DEF M, c, d
    <3>4. Len(c) \in Nat /\ Len(c) >= 1
      BY <3>2
    <3>5. Len(d) = Len(c) - 1 /\ \A i \in 1..(Len(c) - 1) : d[i] = c[i + 1]
      BY <3>2, WithoutFirst
    <3>6. frame' = frame + 1 /\ frame < FILE_END
      BY <3>2, <3>3, <3>4, <1>n
    <3>7. /\ frame' + Len(d) = frame + Len(c)
          /\ \A i \in 1..Len(d) : d[i] = frame' + i
      <4>1. ASSUME NEW i \in 1..Len(d) PROVE d[i] = frame' + i
        <5>1. i + 1 \in 1..Len(c) /\ i \in 1..(Len(c) - 1)
          BY <3>4, <3>5
        <5> QED  BY <5>1, <3>3, <3>5, <3>6, <1>n
      <4> QED  BY <4>1, <3>4, <3>5, <3>6, <1>n
    <3>8. Consecutive'
      BY <3>3, <3>7, <1>n DEF Consecutive, d
    <3>9. SentSoFar'
      BY <3>7, <2>1, <1>h DEF SentSoFar, c, d
    <3>10. Written'
      <4>1. Len(out) = frame
        <5>1. frame # FILE_END
          BY <3>6, <1>n
        <5> QED  BY <5>1, <2>2, <1>h DEF Written
      <4> QED  BY <4>1, <2>1, <2>2, <3>6, <1>h, <1>n DEF Written
    <3>11. Stored'
      BY <2>1, <3>6, <1>h, <1>n DEF Stored
    <3> QED  BY <3>8, <3>9, <3>10, <3>11, <2>1, <1>h, <1>p DEF Transfer, ResetIsTcp
  <2>3. CASE /\ UNCHANGED network /\ frame' = frame
             /\ recv["server"] \in {"check", "recv"}
             /\ recv'["server"] \in {"check", "recv", "exit"}
    <3>1. Consecutive' /\ SentSoFar' /\ ResetIsTcp'
      BY <2>1, <2>3, <1>c
    <3>2. Written' /\ Stored'
      BY <2>1, <2>3, <1>h DEF Written, Stored
    <3> QED  BY <3>1, <3>2 DEF Transfer
  <2> QED  BY <1>15, <1>t, <2>2, <2>3 DEF ServerRecv
<1>16. CASE WriteChunk
  <2>1. /\ frame # FILE_END /\ recv["server"] = "handle" /\ recv'["server"] = "check"
        /\ out' = Append(out, frame) /\ UNCHANGED network /\ frame' = frame /\ fpos' = fpos
        /\ main' = main /\ running' = running /\ transfer_done' = transfer_done
    BY <1>16, <1>t DEF WriteChunk, progress
  <2>2. PICK k \in Len(file)..Len(out') : file' = SubSeq(out', 1, k)
    BY <1>16 DEF WriteChunk
  <2>3. Len(out) = frame - 1 /\ \A i \in 1..Len(out) : out[i] = i
    BY <2>1, <1>h DEF Written
  <2>4. out' \in Seq(Nat) /\ Len(out') = frame /\ \A i \in 1..Len(out') : out'[i] = i
    <3>1. out' \in Seq(Nat) /\ Len(out') = Len(out) + 1
      BY <2>1, <1>n
    <3>2. \A i \in 1..Len(out') : out'[i] = IF i = Len(out) + 1 THEN frame ELSE out[i]
      BY <2>1, <1>n
    <3>3. Len(out) + 1 = frame /\ Len(out') = frame
      BY <3>1, <2>3, <1>n
    <3>4. ASSUME NEW i \in 1..Len(out') PROVE out'[i] = i
      <4>1. CASE i = Len(out) + 1
        BY <3>2, <3>3, <4>1
      <4>2. CASE i \in 1..Len(out)
        <5>1. i # Len(out) + 1
          BY <4>2, <1>n
        <5> QED  BY <3>2, <2>3, <4>2, <5>1
      <4> QED  BY <3>1, <4>1, <4>2, <1>n
    <3> QED  BY <3>1, <3>3, <3>4
  <2>5. Written'
    BY <2>1, <2>4 DEF Written
  <2>6. file' \in Prefixes(out')
    BY <2>2, <1>n DEF Prefixes
  <2>7. Len(file') <= Len(out') /\ \A i \in 1..Len(file') : file'[i] = out'[i]
    BY <2>4, <2>6, PrefixElements
  <2>8. file' \in Seq(Nat)
    BY <2>4, <2>6, PrefixElements
  <2>9. Stored'
    <3>1. ~transfer_done
      BY <2>1, <1>h DEF Stored
    <3>2. \A i \in 1..Len(file') : i \in 1..Len(out')
      BY <2>4, <2>7, <2>8
    <3> QED  BY <2>1, <2>4, <2>7, <3>1, <3>2 DEF Stored
  <2> QED  BY <2>1, <2>5, <2>9, <1>c DEF Transfer
<1>17. CASE EndFile
  <2>1. /\ frame = FILE_END /\ recv["server"] = "handle" /\ recv'["server"] = "check"
        /\ out' = out /\ file' = out /\ UNCHANGED network /\ frame' = frame /\ fpos' = fpos
        /\ main' = main /\ running' = running
    BY <1>17, <1>t DEF EndFile, progress, Flushed
  <2>2. Len(out) = FileLen
    BY <2>1, <1>h, <1>n DEF Written
  <2>3. Written' /\ Stored'
    BY <2>1, <2>2, <1>h, <1>n DEF Written, Stored
  <2> QED  BY <2>1, <2>3, <1>c DEF Transfer
<1>18. CASE Datagrams
  BY <1>18 DEF Datagrams
<1>19. CASE ConnectionBreaks
  <2>1. /\ UNCHANGED output /\ recv' = recv /\ frame' = frame /\ open' = open
        /\ rst' = TRUE /\ Proto = "tcp" /\ chan'["server"] \in Prefixes(chan["server"])
    BY <1>19, <1>t DEF ConnectionBreaks, output
  <2>2. Consecutive'
    BY <2>1, <1>h, ConsecutivePrefix
  <2> QED  BY <2>1, <2>2, <1>w, <1>p DEF Transfer, SentSoFar, ResetIsTcp
<1>20. ASSUME NEW p \in Program, Kill(p) PROVE Transfer'
  <2>1. /\ UNCHANGED output /\ recv' = [recv EXCEPT ![p] = "killed"] /\ frame' = frame
        /\ main' = [main EXCEPT ![p] = "killed"] /\ running' = running /\ fpos' = fpos
    BY <1>20 DEF Kill, output, progress
  <2>2. Written' /\ Stored'
    <3>1. recv'["server"] = recv["server"] \/ recv'["server"] = "killed"
      BY <2>1, <1>t
    <3> QED  BY <2>1, <3>1, <1>w
  <2>3. CASE CloseContext(p)
    <3>1. p = "client" => main'["client"] \in {"done", "killed"}
      BY <2>1, <1>t
    <3> QED  BY <2>1, <2>2, <2>3, <3>1, <1>h, CloseKeeps, <1>p DEF Transfer
  <2>4. CASE UNCHANGED network
    <3>1. CASE p = "client"
      BY <2>1, <2>2, <2>4, <3>1, <1>t, <1>e DEF Transfer
    <3>2. CASE p = "server"
      BY <2>1, <2>2, <2>4, <3>2, <1>t, <1>c DEF Transfer
    <3> QED  BY <3>1, <3>2, <1>t
  <2> QED  BY <1>20, <2>3, <2>4 DEF Kill
<1>21. CASE UNCHANGED vars
  BY <1>21, <1>w, <1>c DEF vars, Transfer, network, progress, output
<1> QED
  BY <1>1, <1>2, <1>3, <1>4, <1>5, <1>6, <1>7, <1>8, <1>9, <1>10, <1>11, <1>12, <1>13,
     <1>14, <1>15, <1>16, <1>17, <1>18, <1>19, <1>20, <1>21, <1>t
  DEF Next, ClientMain, ServerMain

\* Over TCP and KCP, and with a disk that takes what is written, transfer_done
\* means that the output file is the input file, whichever of the two
\* programs, their threads or the connection ended early.
THEOREM DoneMeansComplete == Spec => [](~DiskFull => DoneIsComplete)
<1> DEFINE Inv == Typed /\ Teardown /\ (Reliable => Transfer)
<1>1. Inv => (~DiskFull => DoneIsComplete)
  <2> SUFFICES ASSUME Typed, Transfer, transfer_done PROVE file = Input
    BY DEF DoneIsComplete, Reliable
  <2>1. file \in Seq(1..FileLen) /\ Len(file) = FileLen /\ FileLen \in Nat
    BY SizeAssumption DEF Typed, TypeOK, Transfer, Stored
  <2>2. \A i \in 1..FileLen : file[i] = i
    BY <2>1 DEF Transfer, Stored
  <2>3. file = [i \in 1..FileLen |-> file[i]]
    BY <2>1
  <2> QED  BY <2>2, <2>3 DEF Input
<1>2. Inv /\ [Next]_vars => Inv'
  <2> SUFFICES ASSUME Inv, [Next]_vars PROVE Inv'
    OBVIOUS
  <2>1. Reliable' = Reliable
    BY ModeStays DEF Reliable, Proto, DiskFull
  <2>2. Typed' /\ Teardown'
    BY TypedNext, TeardownNext
  <2>3. Reliable => Transfer'
    BY TransferNext
  <2> QED  BY <2>1, <2>2, <2>3
<1>3. Init => Inv
  BY TypedInit, TeardownInit, TransferInit
<1> QED  BY <1>1, <1>2, <1>3, PTL DEF Spec

=============================================================================
