---------------------------- MODULE WsStreamProofs ----------------------------
(***************************************************************************)
(* The proofs that a browser which is told "end of stream" received all    *)
(* that a session without an error wrote, and that a connection holds a    *)
(* bounded number of messages, for any numbers of sockets, frames,         *)
(* buffered messages and faults.                                           *)
(***************************************************************************)
EXTENDS WsConnectionProofs

-----------------------------------------------------------------------------
(***************************************************************************)
(* The stream: what is under way to the browser                            *)
(***************************************************************************)
Messages == {"101", "refused", "frame", "echo", "end of stream", "fin"}

Conns == [sent : Nat, err : BOOLEAN, closeSent : BOOLEAN, closed : BOOLEAN]

StreamTypes ==
  /\ handler \in [Sockets -> {"none", "metadata", "run", "ended", "failed", "waiting", "done"}]
  /\ reader \in [Sockets -> {"none", "reading", "done"}]
  /\ conn \in [Sockets -> Conns]
  /\ down \in [Sockets -> Seq(Messages)]
  /\ up \in [Sockets -> Seq({"get", "close", "fin"})]

\* A socket that was not opened yet is as new; one that was has a state.
Unopened(k) ==
  IF k > opened THEN ws[k] = NewWs /\ handler[k] = "none" /\ up[k] = <<>> ELSE ws[k].state # "none"

\* Before the handler answers, nothing is under way.
Pending(k) == handler[k] \in {"none", "metadata"}

PendingQuiet(k) ==
  Pending(k) => /\ down[k] = <<>> /\ conn[k].sent = 0 /\ ~conn[k].err /\ reader[k] = "none"
                /\ ws[k].received = 0 /\ ws[k].state # "open"

\* As long as Run goes on, and when it has ended by itself, there is no error.
EndedWell(k) == handler[k] \in {"run", "ended"} => ~conn[k].err

\* The answer to the handshake that a connecting browser has still to read.
Ahead(k) == IF ws[k].state = "connecting" THEN 1 ELSE 0

\* "end of stream" is written once, last, after a Run without an error; what is
\* before it are the frames a live browser has not received.
EndInPlace(k) ==
  \A i \in 1..Len(down[k]) : down[k][i] = "end of stream" =>
    /\ ~conn[k].err /\ handler[k] = "done" /\ conn[k].closed
    /\ \A j \in 1..Len(down[k]) : down[k][j] = "end of stream" => j = i
    /\ Live(k) => ws[k].received + i = conn[k].sent + 1 + Ahead(k)

\* An answered close message rules out the other one.
EchoAlone(k) ==
  \A i \in 1..Len(down[k]) : down[k][i] = "echo" =>
    conn[k].closeSent /\ \A j \in 1..Len(down[k]) : down[k][j] # "end of stream"

HandshakeFirst(k) == \A i \in 1..Len(down[k]) : down[k][i] = "101" => i = 1 /\ ws[k].state # "open"

\* While the session writes, all it wrote is received or under way.
FramesCounted(k) ==
  handler[k] \in {"run", "ended", "failed"} /\ Live(k) /\ ~conn[k].closeSent =>
    ws[k].received + Len(down[k]) = conn[k].sent + Ahead(k)

\* A browser that connects has the handshake, or its failure, in front of it.
ConnectingFirst(k) ==
  ws[k].state = "connecting" /\ ~Pending(k) =>
    Len(down[k]) >= 1 /\ down[k][1] \in {"101", "refused", "fin"}

\* A browser that heard of the close hears of no other.
ClosingHeard(k) ==
  ws[k].state = "closing" /\ k \in attached =>
    /\ conn[k].closeSent \/ handler[k] = "done"
    /\ \A i \in 1..Len(down[k]) : down[k][i] # "end of stream"

CodeKept(k) == ws[k].code # "none" => ws[k].state \in {"closing", "closed"}

NormalEnd(k) ==
  ws[k].code = "end of stream" =>
    handler[k] = "done" /\ ~conn[k].err /\ (k \in attached => ws[k].received = conn[k].sent)

StreamOK(k) ==
  /\ Unopened(k) /\ PendingQuiet(k) /\ EndedWell(k)
  /\ EndInPlace(k) /\ EchoAlone(k) /\ HandshakeFirst(k)
  /\ FramesCounted(k) /\ ConnectingFirst(k) /\ ClosingHeard(k) /\ CodeKept(k) /\ NormalEnd(k)

StreamInv == StreamTypes /\ \A k \in Sockets : StreamOK(k)

-----------------------------------------------------------------------------
(***************************************************************************)
(* Messages and connections                                                *)
(***************************************************************************)
\* The oldest message is read.
LEMMA TailElements ==
  ASSUME NEW s \in Seq(Messages), s # <<>>
  PROVE  /\ Tail(s) \in Seq(Messages) /\ Len(s) >= 1 /\ Len(Tail(s)) = Len(s) - 1
         /\ Head(s) = s[1] /\ Head(s) \in Messages
         /\ \A i \in 1..Len(Tail(s)) : i + 1 \in 1..Len(s) /\ Tail(s)[i] = s[i + 1]
  OBVIOUS

\* A message is written.
LEMMA AppendElements ==
  ASSUME NEW s \in Seq(Messages), NEW m \in Messages
  PROVE  /\ Append(s, m) \in Seq(Messages) /\ Len(Append(s, m)) = Len(s) + 1
         /\ Append(s, m)[Len(s) + 1] = m
         /\ \A i \in 1..Len(s) : Append(s, m)[i] = s[i]
  OBVIOUS

\* A connection ends after its first n messages.
LEMMA CutElements ==
  ASSUME NEW s \in Seq(Messages), NEW n \in 0..Len(s)
  PROVE  LET r == Append(SubSeq(s, 1, n), "fin")
         IN  /\ r \in Seq(Messages) /\ Len(r) = n + 1 /\ r[n + 1] = "fin"
             /\ \A i \in 1..n : i \in 1..Len(s) /\ r[i] = s[i]
<1>1. \A i \in 1..n : i \in 1..Len(s) /\ s[i] \in Messages
  BY ElementOfSeq
<1>2. /\ SubSeq(s, 1, n) \in Seq(Messages)
      /\ Len(SubSeq(s, 1, n)) = (IF 1 <= n THEN n - 1 + 1 ELSE 0)
      /\ \A i \in 1..(n - 1 + 1) : SubSeq(s, 1, n)[i] = s[1 + i - 1]
  BY <1>1, SubSeqProperties
<1>3. Len(SubSeq(s, 1, n)) = n /\ \A i \in 1..n : SubSeq(s, 1, n)[i] = s[i]
  BY <1>2
<1>4. "fin" \in Messages
  BY DEF Messages
<1>5. QED
  BY <1>1, <1>2, <1>3, <1>4, AppendElements

\* What a step changes of the server's side of socket k, it changes of no other.
OnlyAt(k) ==
  \A j \in Sockets \ {k} :
    /\ handler'[j] = handler[j] /\ reader'[j] = reader[j] /\ conn'[j] = conn[j]
    /\ down'[j] = down[j] /\ up'[j] = up[j]

\* A socket that a step leaves alone stays as it should be.
LEMMA OthersKept ==
  ASSUME NEW j \in Sockets, StreamOK(j), ws'[j] = ws[j], handler'[j] = handler[j], reader'[j] = reader[j],
         conn'[j] = conn[j], down'[j] = down[j],
         j > opened' <=> j > opened, j > opened => up'[j] = up[j],
         j \in attached' => j \in attached
  PROVE  StreamOK(j)'
<1> USE DEF StreamOK
<1>1. Unopened(j)'
  BY DEF Unopened
<1>2. PendingQuiet(j)' /\ EndedWell(j)' /\ CodeKept(j)'
  BY DEF PendingQuiet, Pending, EndedWell, CodeKept
<1>3. EndInPlace(j)'
  BY DEF EndInPlace, Ahead, Live
<1>4. EchoAlone(j)' /\ HandshakeFirst(j)'
  BY DEF EchoAlone, HandshakeFirst
<1>5. FramesCounted(j)' /\ ConnectingFirst(j)'
  BY DEF FramesCounted, Ahead, Live, ConnectingFirst, Pending
<1>6. ClosingHeard(j)' /\ NormalEnd(j)'
  BY DEF ClosingHeard, NormalEnd
<1>7. QED
  BY <1>1, <1>2, <1>3, <1>4, <1>5, <1>6

\* A step of the server at socket k.
LEMMA ServerStepKeeps ==
  ASSUME StreamInv, NEW k \in Sockets, ServerSide, OnlyAt(k), StreamTypes', StreamOK(k)'
  PROVE  StreamInv'
<1>1. \A j \in Sockets \ {k} : StreamOK(j)'
  BY OthersKept DEF StreamInv, ServerSide, page, OnlyAt
<1>2. QED
  BY <1>1 DEF StreamInv

-----------------------------------------------------------------------------
(***************************************************************************)
(* The steps of the handler                                                *)
(***************************************************************************)
LEMMA InitStream == Init => StreamInv
<1> SUFFICES ASSUME Init
             PROVE  StreamInv
  OBVIOUS
<1>1. StreamTypes
  BY DEF Init, StreamTypes, NewConn, Conns
<1>2. ASSUME NEW k \in Sockets
      PROVE  StreamOK(k)
  <2>1. /\ ws[k] = NewWs /\ handler[k] = "none" /\ reader[k] = "none" /\ conn[k] = NewConn
        /\ down[k] = <<>> /\ up[k] = <<>> /\ opened = 0 /\ k > 0
    BY SocketsAssumption DEF Init, Sockets
  <2>2. Len(down[k]) = 0
    BY <2>1
  <2>3. Unopened(k) /\ PendingQuiet(k) /\ EndedWell(k) /\ CodeKept(k) /\ NormalEnd(k)
    BY <2>1 DEF NewWs, NewConn, Unopened, PendingQuiet, Pending, EndedWell, CodeKept, NormalEnd
  <2>4. EndInPlace(k) /\ EchoAlone(k) /\ HandshakeFirst(k)
    BY <2>2 DEF EndInPlace, EchoAlone, HandshakeFirst
  <2>5. FramesCounted(k) /\ ConnectingFirst(k) /\ ClosingHeard(k)
    BY <2>1 DEF NewWs, FramesCounted, ConnectingFirst, ClosingHeard, Pending
  <2>6. QED
    BY <2>3, <2>4, <2>5 DEF StreamOK
<1>3. QED
  BY <1>1, <1>2 DEF StreamInv

\* The handler goes on; nothing is written or read.
LEMMA HandlerMoves ==
  ASSUME StreamInv, NEW k \in Sockets, NEW l \in {"ended", "failed", "done"}, ServerSide, Goto(k, l),
         UNCHANGED <<reader, down, up>>,
         \/ At(k, "run") /\ l \in {"ended", "failed"}
         \/ At(k, "waiting") /\ l = "done",
         UNCHANGED conn \/ (l = "failed" /\ conn' = [conn EXCEPT ![k].err = TRUE])
  PROVE  StreamInv'
<1>0. /\ conn'[k].sent = conn[k].sent /\ conn'[k].closeSent = conn[k].closeSent /\ conn'[k].closed = conn[k].closed
      /\ conn' \in [Sockets -> Conns] /\ \A j \in Sockets \ {k} : conn'[j] = conn[j]
      /\ conn'[k].err = conn[k].err \/ l = "failed"
  <2>1. conn[k] \in Conns /\ conn \in [Sockets -> Conns]
    BY DEF StreamInv, StreamTypes
  <2>2. QED
    BY <2>1 DEF Conns
<1>1. handler'[k] = l /\ StreamTypes'
  BY <1>0 DEF StreamInv, StreamTypes, Goto
<1>2. OnlyAt(k)
  BY <1>0 DEF StreamInv, StreamTypes, Goto, OnlyAt
<1>3. StreamOK(k) /\ UNCHANGED <<ws, opened, attached>>
  BY DEF StreamInv, ServerSide, page
<1>4. Unopened(k)' /\ PendingQuiet(k)' /\ EndedWell(k)' /\ CodeKept(k)' /\ NormalEnd(k)'
  BY <1>0, <1>1, <1>3 DEF StreamOK, At, Unopened, PendingQuiet, Pending, EndedWell, CodeKept, NormalEnd
<1>5. EndInPlace(k)' /\ EchoAlone(k)' /\ HandshakeFirst(k)'
  BY <1>0, <1>3 DEF StreamOK, At, EndInPlace, EchoAlone, HandshakeFirst
<1>6. FramesCounted(k)' /\ ConnectingFirst(k)' /\ ClosingHeard(k)'
  BY <1>0, <1>1, <1>3 DEF StreamOK, At, FramesCounted, ConnectingFirst, ClosingHeard, Pending, Ahead, Live
<1>7. QED
  BY <1>1, <1>2, <1>3, <1>4, <1>5, <1>6, ServerStepKeeps DEF StreamOK

LEMMA HandlerStepsKeep ==
  ASSUME StreamInv, NEW k \in Sockets, WriteFails(k) \/ RunEnds(k) \/ ContextDone(k) \/ WaitReader(k)
  PROVE  StreamInv'
<1>1. CASE WriteFails(k) \/ ContextDone(k)
  BY <1>1, HandlerMoves DEF WriteFails, ContextDone, RunFails
<1>2. CASE RunEnds(k)
  BY <1>2, HandlerMoves DEF RunEnds
<1>3. CASE WaitReader(k)
  BY <1>3, HandlerMoves DEF WaitReader
<1>4. QED
  BY <1>1, <1>2, <1>3

LEMMA RequestKeeps ==
  ASSUME StreamInv, NEW k \in Sockets, WSStreamHandler(k)
  PROVE  StreamInv'
<1>1. handler'[k] = "metadata" /\ StreamTypes'
  <2>1. Tail(up[k]) \in Seq({"get", "close", "fin"})
    BY DEF WSStreamHandler, StreamInv, StreamTypes
  <2>2. QED
    BY <2>1 DEF WSStreamHandler, StreamInv, StreamTypes, Goto
<1>2. OnlyAt(k)
  BY DEF WSStreamHandler, StreamInv, StreamTypes, Goto, OnlyAt
<1>3. StreamOK(k) /\ UNCHANGED <<ws, opened, attached, conn, down, reader>> /\ Pending(k) /\ up[k] # <<>>
  BY DEF WSStreamHandler, StreamInv, ServerSide, page, Pending, At
<1>4. Unopened(k)' /\ PendingQuiet(k)' /\ EndedWell(k)' /\ CodeKept(k)' /\ NormalEnd(k)'
  BY <1>1, <1>3 DEF StreamOK, Unopened, PendingQuiet, Pending, EndedWell, CodeKept, NormalEnd
<1>5. EndInPlace(k)' /\ EchoAlone(k)' /\ HandshakeFirst(k)'
  <2>1. down'[k] = <<>>
    BY <1>3 DEF StreamOK, PendingQuiet
  <2>2. QED
    BY <2>1 DEF EndInPlace, EchoAlone, HandshakeFirst
<1>6. FramesCounted(k)' /\ ConnectingFirst(k)'
  BY <1>1 DEF FramesCounted, ConnectingFirst, Pending
<1>7. ClosingHeard(k)'
  BY <1>1, <1>3 DEF StreamOK, ClosingHeard, Pending
<1>8. ServerSide
  BY DEF WSStreamHandler
<1>9. QED
  BY <1>1, <1>2, <1>3, <1>4, <1>5, <1>6, <1>7, <1>8, ServerStepKeeps DEF StreamOK

\* The answer to the request: a refusal, or the upgrade of the connection.
LEMMA AnswerKeeps ==
  ASSUME StreamInv, PageInv, NEW k \in Sockets, Refuse(k) \/ Upgrade(k)
  PROVE  StreamInv'
<1>1. PICK m \in {"101", "refused"} : down' = [down EXCEPT ![k] = <<m>>]
  BY DEF Refuse, Upgrade
<1>2. StreamTypes'
  <2>1. <<m>> \in Seq(Messages)
    <3>1. m \in Messages
      BY DEF Messages
    <3>2. QED
      BY <3>1
  <2>2. down' \in [Sockets -> Seq(Messages)]
    BY <1>1, <2>1 DEF StreamInv, StreamTypes
  <2>3. UNCHANGED <<conn, up>> /\ \E l \in {"run", "done"} : Goto(k, l)
    BY DEF Refuse, Upgrade
  <2>4. reader' \in [Sockets -> {"none", "reading", "done"}]
    BY DEF Refuse, Upgrade, StreamInv, StreamTypes
  <2>5. QED
    BY <2>2, <2>3, <2>4 DEF StreamInv, StreamTypes, Goto
<1>3. OnlyAt(k) /\ ServerSide
  BY <1>1 DEF Refuse, Upgrade, StreamInv, StreamTypes, Goto, OnlyAt
<1>4. StreamOK(k) /\ UNCHANGED <<ws, opened, attached, conn>> /\ Pending(k) /\ handler[k] = "metadata"
  BY DEF Refuse, Upgrade, StreamInv, ServerSide, page, Pending, At
<1>5. /\ handler'[k] \in {"run", "done"} /\ Len(down'[k]) = 1 /\ down'[k][1] = m
      /\ \A i \in 1..Len(down'[k]) : i = 1 /\ down'[k][i] = m
  BY <1>1 DEF Refuse, Upgrade, StreamInv, StreamTypes, Goto
<1>6. Unopened(k)' /\ PendingQuiet(k)' /\ EndedWell(k)' /\ CodeKept(k)' /\ NormalEnd(k)'
  BY <1>4, <1>5 DEF StreamOK, Unopened, PendingQuiet, Pending, EndedWell, CodeKept, NormalEnd
<1>7. EndInPlace(k)' /\ EchoAlone(k)' /\ HandshakeFirst(k)'
  <2>1. ws'[k].state # "open"
    BY <1>4 DEF StreamOK, PendingQuiet
  <2>2. QED
    BY <1>5, <2>1 DEF EndInPlace, EchoAlone, HandshakeFirst
<1>8. FramesCounted(k)'
  <2>1. conn[k].sent = 0 /\ ws[k].received = 0 /\ (Live(k) => ws[k].state = "connecting")
    BY <1>4 DEF StreamOK, PendingQuiet, Live
  <2>2. QED
    BY <1>4, <1>5, <2>1 DEF FramesCounted, Live, Ahead
<1>9. ConnectingFirst(k)' /\ ClosingHeard(k)'
  <2>1. ws[k].state = "closing" /\ k \in attached => conn[k].closeSent
    BY <1>4 DEF StreamOK, ClosingHeard
  <2>2. ConnectingFirst(k)'
    BY <1>5 DEF ConnectingFirst
  <2>3. \A i \in 1..Len(down'[k]) : down'[k][i] # "end of stream"
    BY <1>5
  <2>4. QED
    BY <1>4, <2>1, <2>2, <2>3 DEF ClosingHeard
<1>10. QED
  BY <1>2, <1>3, <1>6, <1>7, <1>8, <1>9, ServerStepKeeps DEF StreamOK

LEMMA WriteKeeps ==
  ASSUME StreamInv, PageInv, NEW k \in Sockets, WriteMessage(k)
  PROVE  StreamInv'
<1> DEFINE s == down[k]
<1>1. /\ conn[k] \in Conns /\ s \in Seq(Messages) /\ "frame" \in Messages
      /\ ws[k].received \in Nat
  BY DEF StreamInv, StreamTypes, PageInv, PageTypes, Messages
<1>2. /\ conn'[k] = [conn[k] EXCEPT !.sent = conn[k].sent + 1]
      /\ down'[k] = Append(s, "frame") /\ UNCHANGED <<handler, reader, up, ws, opened, attached>>
  BY DEF WriteMessage, StreamInv, StreamTypes, ServerSide, page
<1>3. /\ conn'[k].sent = conn[k].sent + 1 /\ conn'[k].closeSent = conn[k].closeSent
      /\ conn'[k].err = conn[k].err /\ conn'[k] \in Conns
  BY <1>1, <1>2 DEF Conns
<1>4. StreamTypes'
  <2>1. Append(s, "frame") \in Seq(Messages)
    BY <1>1, AppendElements
  <2>2. down' \in [Sockets -> Seq(Messages)]
    BY <2>1 DEF WriteMessage, StreamInv, StreamTypes
  <2>3. conn' \in [Sockets -> Conns]
    BY <1>2, <1>3 DEF WriteMessage, StreamInv, StreamTypes
  <2>4. QED
    BY <1>2, <2>2, <2>3 DEF StreamInv, StreamTypes
<1>5. OnlyAt(k) /\ ServerSide
  BY DEF WriteMessage, StreamInv, StreamTypes, OnlyAt
<1>6. StreamOK(k) /\ handler[k] = "run" /\ ~conn[k].closeSent /\ conn[k].sent < Frames
  BY DEF WriteMessage, StreamInv, At
<1>7. /\ Len(down'[k]) = Len(s) + 1 /\ down'[k][Len(s) + 1] = "frame" /\ Len(s) \in Nat
      /\ \A i \in 1..Len(s) : down'[k][i] = s[i]
  BY <1>1, <1>2, AppendElements
<1>8. \A i \in 1..Len(down'[k]) : (i \in 1..Len(s) /\ down'[k][i] = s[i]) \/ down'[k][i] = "frame"
  BY <1>7
<1>9. \A i \in 1..Len(s) : s[i] # "end of stream" /\ s[i] # "echo"
  BY <1>6 DEF StreamOK, EndInPlace, EchoAlone
<1> HIDE DEF s
<1>10. Unopened(k)' /\ PendingQuiet(k)' /\ EndedWell(k)' /\ CodeKept(k)'
  BY <1>2, <1>3, <1>6 DEF StreamOK, Unopened, PendingQuiet, Pending, EndedWell, CodeKept
<1>11. NormalEnd(k)'
  BY <1>2, <1>6 DEF StreamOK, NormalEnd
<1>12. EndInPlace(k)' /\ EchoAlone(k)'
  BY <1>8, <1>9 DEF EndInPlace, EchoAlone
<1>13. HandshakeFirst(k)'
  BY <1>2, <1>6, <1>8 DEF StreamOK, HandshakeFirst, s
<1>14. FramesCounted(k)'
  <2>1. Live(k) => ws[k].received + Len(s) = conn[k].sent + Ahead(k)
    BY <1>6 DEF StreamOK, FramesCounted, s
  <2>2. Ahead(k) \in Nat /\ Ahead(k)' = Ahead(k) /\ (Live(k)' <=> Live(k)) /\ ws'[k] = ws[k] /\ handler'[k] = handler[k]
    BY <1>2 DEF Ahead, Live
  <2>3. conn[k].sent \in Nat
    BY <1>1 DEF Conns
  <2>4. Live(k) => ws'[k].received + Len(down'[k]) = conn'[k].sent + Ahead(k)'
    <3> HAVE Live(k)
    <3>1. PICK a \in Nat : a = Ahead(k)
      BY <2>2
    <3>2. ws[k].received + Len(s) = conn[k].sent + a
      BY <2>1, <3>1
    <3>3. ws[k].received + (Len(s) + 1) = conn[k].sent + 1 + a
      <4>1. PICK r \in Nat, n \in Nat, c \in Nat : r = ws[k].received /\ n = Len(s) /\ c = conn[k].sent
        BY <1>1, <1>7, <2>3
      <4>2. r + n = c + a
        BY <3>2, <4>1, Zenon
      <4>3. r + (n + 1) = c + 1 + a
        BY <4>2
      <4>4. QED
        BY <4>1, <4>3
    <3>4. QED
      BY <1>3, <1>7, <2>2, <3>1, <3>3
  <2>5. QED
    BY <2>2, <2>4 DEF FramesCounted
<1>15. ConnectingFirst(k)'
  BY <1>2, <1>6, <1>7 DEF StreamOK, ConnectingFirst, Pending, s
<1>16. ClosingHeard(k)'
  BY <1>2, <1>6 DEF StreamOK, ClosingHeard
<1>17. QED
  BY <1>4, <1>5, <1>10, <1>11, <1>12, <1>13, <1>14, <1>15, <1>16, ServerStepKeeps DEF StreamOK

\* Messages that are those already under way, and after them a last one.
Extends(new, old, last) ==
  \A i \in 1..Len(new) : (i \in 1..Len(old) /\ new[i] = old[i]) \/ new[i] = last

\* conn.Close: the messages, or only the first of them, and the end.
LEMMA CloseConnEffect ==
  ASSUME StreamInv, NEW k \in Sockets, NEW msgs \in Seq(Messages), CloseConn(k, msgs)
  PROVE  /\ conn'[k].closed /\ conn'[k].sent = conn[k].sent /\ conn'[k].closeSent = conn[k].closeSent
         /\ conn'[k].err = conn[k].err
         /\ conn' \in [Sockets -> Conns] /\ \A j \in Sockets \ {k} : conn'[j] = conn[j]
         /\ up'[k] = <<>> /\ up' \in [Sockets -> Seq({"get", "close", "fin"})]
         /\ \A j \in Sockets \ {k} : up'[j] = up[j]
         /\ down' \in [Sockets -> Seq(Messages)] /\ \A j \in Sockets \ {k} : down'[j] = down[j]
         /\ Extends(down'[k], msgs, "fin")
         /\ ~Deaf(k) => Len(down'[k]) >= 1 /\ (down'[k][1] = "fin" \/ (Len(msgs) >= 1 /\ down'[k][1] = msgs[1]))
<1>1. /\ conn'[k].closed /\ conn'[k].sent = conn[k].sent /\ conn'[k].closeSent = conn[k].closeSent
      /\ conn'[k].err = conn[k].err
      /\ conn' \in [Sockets -> Conns] /\ \A j \in Sockets \ {k} : conn'[j] = conn[j]
  <2>1. conn[k] \in Conns /\ conn' = [conn EXCEPT ![k].closed = TRUE] /\ conn \in [Sockets -> Conns]
    BY DEF CloseConn, StreamInv, StreamTypes
  <2>2. QED
    BY <2>1 DEF Conns
<1>2. /\ up'[k] = <<>> /\ up' \in [Sockets -> Seq({"get", "close", "fin"})]
      /\ \A j \in Sockets \ {k} : up'[j] = up[j]
  BY DEF CloseConn, StreamInv, StreamTypes
<1>3. PICK n \in 0..Len(msgs) :
        down' = [down EXCEPT ![k] = IF Deaf(k) THEN <<>> ELSE Append(SubSeq(msgs, 1, n), "fin")]
  <2>1. Len(msgs) \in Nat
    OBVIOUS
  <2>2. PICK n \in IF up[k] = <<>> THEN {Len(msgs)} ELSE 0..Len(msgs) :
          down' = [down EXCEPT ![k] = IF Deaf(k) THEN <<>> ELSE Append(SubSeq(msgs, 1, n), "fin")]
    BY DEF CloseConn
  <2>3. n \in 0..Len(msgs)
    BY <2>1
  <2>4. QED
    BY <2>2, <2>3
<1>4. /\ Append(SubSeq(msgs, 1, n), "fin") \in Seq(Messages)
      /\ Len(Append(SubSeq(msgs, 1, n), "fin")) = n + 1 /\ Append(SubSeq(msgs, 1, n), "fin")[n + 1] = "fin"
      /\ \A i \in 1..n : i \in 1..Len(msgs) /\ Append(SubSeq(msgs, 1, n), "fin")[i] = msgs[i]
  BY CutElements
<1> DEFINE r == Append(SubSeq(msgs, 1, n), "fin")
<1> HIDE DEF r
<1>5. /\ r \in Seq(Messages) /\ Len(r) = n + 1 /\ r[n + 1] = "fin"
      /\ \A i \in 1..n : i \in 1..Len(msgs) /\ r[i] = msgs[i]
  BY <1>4 DEF r
<1>6. /\ down \in [Sockets -> Seq(Messages)]
      /\ down' = [down EXCEPT ![k] = IF Deaf(k) THEN <<>> ELSE r]
  BY <1>3 DEF StreamInv, StreamTypes, r
<1>7. /\ down' \in [Sockets -> Seq(Messages)] /\ \A j \in Sockets \ {k} : down'[j] = down[j]
      /\ down'[k] = IF Deaf(k) THEN <<>> ELSE r
  BY <1>5, <1>6
<1>8. Extends(down'[k], msgs, "fin")
  <2>1. CASE Deaf(k)
    BY <1>7, <2>1 DEF Extends
  <2>2. CASE ~Deaf(k)
    <3>1. down'[k] = r
      BY <1>7, <2>2
    <3>2. \A i \in 1..Len(r) : i \in 1..n \/ i = n + 1
      BY <1>5
    <3>3. QED
      BY <1>5, <3>1, <3>2 DEF Extends
  <2>3. QED
    BY <2>1, <2>2
<1>9. ~Deaf(k) => Len(down'[k]) >= 1 /\ (down'[k][1] = "fin" \/ (Len(msgs) >= 1 /\ down'[k][1] = msgs[1]))
  <2>1. Len(r) >= 1 /\ (r[1] = "fin" \/ (Len(msgs) >= 1 /\ r[1] = msgs[1]))
    <3>1. CASE n = 0
      BY <1>5, <3>1
    <3>2. CASE n # 0
      BY <1>5, <3>2
    <3>3. QED
      BY <3>1, <3>2
  <2>2. QED
    BY <1>7, <2>1
<1>10. QED
  BY <1>1, <1>2, <1>7, <1>8, <1>9

\* readerPump ends; nothing is read or written.
LEMMA ReaderEnds ==
  ASSUME StreamInv, NEW k \in Sockets, ReadFails(k) \/ ReadDeadline(k)
  PROVE  StreamInv'
<1>1. UNCHANGED <<ws, opened, attached, handler, conn, down, up>> /\ reader'[k] = "done" /\ reader[k] = "reading"
  BY DEF ReadFails, ReadDeadline, ServerSide, page, EndReader, StreamInv, StreamTypes
<1>2. StreamTypes' /\ OnlyAt(k) /\ ServerSide
  BY DEF ReadFails, ReadDeadline, EndReader, StreamInv, StreamTypes, OnlyAt
<1>3. StreamOK(k) /\ ~Pending(k)
  BY <1>1 DEF StreamInv, StreamOK, PendingQuiet
<1>4. Unopened(k)' /\ PendingQuiet(k)' /\ EndedWell(k)' /\ CodeKept(k)' /\ NormalEnd(k)'
  BY <1>1, <1>3 DEF StreamOK, Unopened, PendingQuiet, Pending, EndedWell, CodeKept, NormalEnd
<1>5. EndInPlace(k)' /\ EchoAlone(k)' /\ HandshakeFirst(k)'
  BY <1>1, <1>3 DEF StreamOK, EndInPlace, EchoAlone, HandshakeFirst, Ahead, Live
<1>6. FramesCounted(k)' /\ ConnectingFirst(k)' /\ ClosingHeard(k)'
  BY <1>1, <1>3 DEF StreamOK, FramesCounted, ConnectingFirst, ClosingHeard, Pending, Ahead, Live
<1>7. QED
  BY <1>2, <1>4, <1>5, <1>6, ServerStepKeeps DEF StreamOK

\* What is under way when the handler closes the connection and goes to l: an
\* "end of stream" may have been added.
Farewell(k, l, msgs) ==
  \/ msgs = down[k]
  \/ handler[k] = "ended" /\ l = "done" /\ ~conn[k].closeSent /\ msgs = Append(down[k], "end of stream")

\* A message after the last frame has every frame and the handshake before it.
LEMMA EndCounted ==
  ASSUME PageInv, NEW k \in Sockets, FramesCounted(k), down[k] \in Seq(Messages),
         conn[k] \in Conns, handler[k] = "ended"
  PROVE  Live(k) /\ ~conn[k].closeSent => ws[k].received + (Len(down[k]) + 1) = conn[k].sent + 1 + Ahead(k)
<1>1. Live(k) /\ ~conn[k].closeSent => ws[k].received + Len(down[k]) = conn[k].sent + Ahead(k)
  BY DEF FramesCounted
<1>2. ws[k].received \in Nat /\ Len(down[k]) \in Nat /\ Ahead(k) \in Nat /\ conn[k].sent \in Nat
  BY DEF PageInv, PageTypes, Ahead, Conns
<1>3. ws[k].received + Len(down[k]) = conn[k].sent + Ahead(k)
      => ws[k].received + (Len(down[k]) + 1) = conn[k].sent + 1 + Ahead(k)
  <2>1. PICK r \in Nat, n \in Nat, a \in Nat, c \in Nat :
          r = ws[k].received /\ n = Len(down[k]) /\ a = Ahead(k) /\ c = conn[k].sent
    BY <1>2
  <2>2. r + n = c + a => r + (n + 1) = c + 1 + a
    OBVIOUS
  <2>3. QED
    BY <2>1, <2>2, Zenon
<1>4. QED
  BY <1>1, <1>3, Zenon

\* The handler closes the connection, after an "end of stream" or without one.
LEMMA CloseKeeps ==
  ASSUME StreamInv, PageInv, NEW k \in Sockets, NEW msgs \in Seq(Messages), NEW l \in {"waiting", "done"},
         handler[k] \in {"ended", "failed"}, CloseConn(k, msgs), Goto(k, l), ServerSide, UNCHANGED reader,
         Farewell(k, l, msgs)
  PROVE  StreamInv'
<1> DEFINE s == down[k]
<1>1. s \in Seq(Messages) /\ "end of stream" \in Messages /\ conn[k] \in Conns
  BY DEF StreamInv, StreamTypes, Messages
<1>2. /\ UNCHANGED <<ws, opened, attached, reader>> /\ handler'[k] = l
      /\ handler' \in [Sockets -> {"none", "metadata", "run", "ended", "failed", "waiting", "done"}]
      /\ \A j \in Sockets \ {k} : handler'[j] = handler[j]
  BY DEF ServerSide, page, Goto, StreamInv, StreamTypes
<1>3. /\ conn'[k].closed /\ conn'[k].sent = conn[k].sent /\ conn'[k].closeSent = conn[k].closeSent
      /\ conn'[k].err = conn[k].err /\ StreamTypes' /\ OnlyAt(k)
  <2>1. reader \in [Sockets -> {"none", "reading", "done"}]
    BY DEF StreamInv, StreamTypes
  <2>2. QED
    BY <1>2, <2>1, CloseConnEffect DEF StreamTypes, OnlyAt
<1>4. Extends(down'[k], msgs, "fin")
  BY CloseConnEffect
<1>5. ~Deaf(k) => Len(down'[k]) >= 1 /\ (down'[k][1] = "fin" \/ (Len(msgs) >= 1 /\ down'[k][1] = msgs[1]))
  BY CloseConnEffect
<1>6. StreamOK(k) /\ ~Pending(k)
  BY DEF StreamInv, Pending
<1>7. \A i \in 1..Len(s) : s[i] # "end of stream"
  BY <1>6 DEF StreamOK, EndInPlace
<1>8. Len(s) \in Nat
  BY <1>1, LenProperties
<1>9. msgs # s => /\ handler[k] = "ended" /\ l = "done" /\ ~conn[k].closeSent
                   /\ Len(msgs) = Len(s) + 1 /\ msgs[Len(s) + 1] = "end of stream"
                   /\ \A i \in 1..Len(s) : msgs[i] = s[i]
  <2> SUFFICES ASSUME msgs # s
               PROVE  /\ handler[k] = "ended" /\ l = "done" /\ ~conn[k].closeSent
                      /\ Len(msgs) = Len(s) + 1 /\ msgs[Len(s) + 1] = "end of stream"
                      /\ \A i \in 1..Len(s) : msgs[i] = s[i]
    OBVIOUS
  <2>1. handler[k] = "ended" /\ l = "done" /\ ~conn[k].closeSent /\ msgs = Append(s, "end of stream")
    BY DEF Farewell
  <2> HIDE DEF s
  <2>2. /\ Len(msgs) = Len(s) + 1 /\ msgs[Len(s) + 1] = "end of stream"
        /\ \A i \in 1..Len(s) : msgs[i] = s[i]
    BY <1>1, <2>1, AppendElements
  <2>3. QED
    BY <2>1, <2>2
<1> HIDE DEF s
<1>10. \A i \in 1..Len(down'[k]) :
        \/ i \in 1..Len(s) /\ down'[k][i] = s[i]
        \/ down'[k][i] = "fin"
        \/ i = Len(s) + 1 /\ down'[k][i] = "end of stream"
           /\ handler[k] = "ended" /\ l = "done" /\ ~conn[k].closeSent
  <2>1. CASE msgs = s
    BY <1>4, <2>1 DEF Extends
  <2>2. CASE msgs # s
    <3>1. \A i \in 1..Len(msgs) : i \in 1..Len(s) \/ i = Len(s) + 1
      <4>1. PICK n \in Nat : n = Len(s)
        BY <1>8
      <4>2. \A i \in 1..(n + 1) : i \in 1..n \/ i = n + 1
        OBVIOUS
      <4>3. Len(msgs) = Len(s) + 1
        BY <1>9, <2>2
      <4>4. QED
        BY <4>1, <4>2, <4>3
    <3>2. QED
      BY <1>4, <1>8, <1>9, <2>2, <3>1 DEF Extends
  <2>3. QED
    BY <2>1, <2>2
<1>11. Unopened(k)' /\ PendingQuiet(k)' /\ EndedWell(k)' /\ CodeKept(k)' /\ NormalEnd(k)' /\ FramesCounted(k)'
  <2>1. Unopened(k)' /\ CodeKept(k)' /\ NormalEnd(k)'
    BY <1>2, <1>3, <1>6 DEF StreamOK, Unopened, Pending, CodeKept, NormalEnd
  <2>2. PendingQuiet(k)' /\ EndedWell(k)' /\ FramesCounted(k)'
    BY <1>2, <1>3, <1>6 DEF PendingQuiet, Pending, EndedWell, FramesCounted
  <2>3. QED
    BY <2>1, <2>2
<1>12. EchoAlone(k)' /\ HandshakeFirst(k)'
  <2>1. ASSUME NEW i \in 1..Len(down'[k]), down'[k][i] = "echo"
        PROVE  conn'[k].closeSent /\ \A j \in 1..Len(down'[k]) : down'[k][j] # "end of stream"
    BY <1>3, <1>6, <1>7, <1>10, <2>1 DEF StreamOK, EchoAlone, s
  <2>2. HandshakeFirst(k)'
    BY <1>2, <1>6, <1>10 DEF StreamOK, HandshakeFirst, s
  <2>3. QED
    BY <2>1, <2>2 DEF EchoAlone
<1>13. EndInPlace(k)'
  <2> SUFFICES ASSUME NEW i \in 1..Len(down'[k]), down'[k][i] = "end of stream"
               PROVE  /\ ~conn'[k].err /\ handler'[k] = "done" /\ conn'[k].closed
                      /\ \A j \in 1..Len(down'[k]) : down'[k][j] = "end of stream" => j = i
                      /\ Live(k)' => ws'[k].received + i = conn'[k].sent + 1 + Ahead(k)'
    BY DEF EndInPlace
  <2>1. i = Len(s) + 1 /\ handler[k] = "ended" /\ l = "done" /\ ~conn[k].closeSent
    BY <1>7, <1>10
  <2>2. \A j \in 1..Len(down'[k]) : down'[k][j] = "end of stream" => j = i
    BY <1>7, <1>10, <2>1
  <2>3. ~conn[k].err
    BY <1>6, <2>1 DEF StreamOK, EndedWell
  <2>4. (Live(k)' <=> Live(k)) /\ ws'[k].received = ws[k].received /\ Ahead(k)' = Ahead(k) /\ Ahead(k) \in Nat
    BY <1>2 DEF Live, Ahead
  <2>5. Live(k) => ws[k].received + (Len(s) + 1) = conn[k].sent + 1 + Ahead(k)
    <3>1. FramesCounted(k)
      BY <1>6 DEF StreamOK
    <3>2. QED
      BY <1>1, <2>1, <2>3, <3>1, EndCounted DEF s
  <2>6. QED
    BY <1>2, <1>3, <2>1, <2>2, <2>3, <2>4, <2>5
<1>14. ConnectingFirst(k)'
  <2> SUFFICES ASSUME ws'[k].state = "connecting"
               PROVE  Len(down'[k]) >= 1 /\ down'[k][1] \in {"101", "refused", "fin"}
    BY DEF ConnectingFirst
  <2>1. ~Deaf(k) /\ Len(s) >= 1 /\ s[1] \in {"101", "refused", "fin"}
    BY <1>2, <1>6 DEF StreamOK, ConnectingFirst, Deaf, s
  <2>2. msgs[1] = s[1] /\ Len(msgs) >= 1
    <3>1. 1 \in 1..Len(s)
      BY <1>8, <2>1
    <3>2. CASE msgs # s
      <4>1. msgs[1] = s[1]
        BY <1>9, <3>1, <3>2, Zenon
      <4>2. Len(msgs) = Len(s) + 1
        BY <1>9, <3>2, Zenon
      <4>3. QED
        BY <1>8, <4>1, <4>2
    <3>3. QED
      BY <2>1, <3>2
  <2>3. QED
    BY <1>5, <2>1, <2>2
<1>15. ClosingHeard(k)'
  <2> SUFFICES ASSUME ws'[k].state = "closing", k \in attached'
               PROVE  /\ conn'[k].closeSent \/ handler'[k] = "done"
                      /\ \A i \in 1..Len(down'[k]) : down'[k][i] # "end of stream"
    BY DEF ClosingHeard
  <2>1. conn[k].closeSent
    BY <1>2, <1>6 DEF StreamOK, ClosingHeard
  <2>2. QED
    BY <1>3, <1>7, <1>10, <2>1
<1>16. QED
  BY <1>3, <1>11, <1>12, <1>13, <1>14, <1>15, ServerStepKeeps DEF StreamOK

LEMMA CloseStepsKeep ==
  ASSUME StreamInv, PageInv, NEW k \in Sockets, CloseNormally(k) \/ CloseFailed(k)
  PROVE  StreamInv'
<1>1. down[k] \in Seq(Messages) /\ Append(down[k], "end of stream") \in Seq(Messages)
  BY AppendElements DEF StreamInv, StreamTypes, Messages
<1>2. CASE CloseNormally(k)
  BY <1>1, <1>2, CloseKeeps DEF CloseNormally, At, Farewell
<1>3. CASE CloseFailed(k)
  BY <1>1, <1>3, CloseKeeps DEF CloseFailed, At, Farewell
<1>4. QED
  BY <1>2, <1>3

\* readerPump reads the client's close message, and may answer it.
LEMMA ReadCloseKeeps ==
  ASSUME StreamInv, NEW k \in Sockets, ReadClose(k)
  PROVE  StreamInv'
<1>1. /\ UNCHANGED <<ws, opened, attached, handler>> /\ reader'[k] = "done" /\ reader[k] = "reading"
      /\ ~conn[k].closed /\ ServerSide
  BY DEF ReadClose, ServerSide, page, EndReader, StreamInv, StreamTypes
<1>2. StreamOK(k) /\ ~Pending(k)
  BY <1>1 DEF StreamInv, StreamOK, PendingQuiet
<1>3. \A i \in 1..Len(down[k]) : down[k][i] # "end of stream"
  BY <1>1, <1>2 DEF StreamOK, EndInPlace
<1>4. /\ handler' \in [Sockets -> {"none", "metadata", "run", "ended", "failed", "waiting", "done"}]
      /\ reader' \in [Sockets -> {"none", "reading", "done"}]
      /\ up' \in [Sockets -> Seq({"get", "close", "fin"})]
      /\ \A j \in Sockets \ {k} : reader'[j] = reader[j] /\ handler'[j] = handler[j] /\ up'[j] = up[j]
  <2>1. Tail(up[k]) \in Seq({"get", "close", "fin"})
    BY DEF ReadClose, StreamInv, StreamTypes
  <2>2. QED
    BY <2>1 DEF ReadClose, EndReader, StreamInv, StreamTypes
<1>5. Unopened(k)' /\ PendingQuiet(k)' /\ CodeKept(k)'
  BY <1>1, <1>2 DEF StreamOK, Unopened, PendingQuiet, Pending, CodeKept
<1>6. CASE UNCHANGED <<conn, down>>
  <2>1. StreamTypes' /\ OnlyAt(k)
    BY <1>4, <1>6 DEF StreamInv, StreamTypes, OnlyAt
  <2>2. EndedWell(k)' /\ NormalEnd(k)' /\ EndInPlace(k)' /\ EchoAlone(k)' /\ HandshakeFirst(k)'
    BY <1>1, <1>2, <1>6 DEF StreamOK, EndedWell, NormalEnd, EndInPlace, EchoAlone, HandshakeFirst, Ahead, Live
  <2>3. FramesCounted(k)' /\ ConnectingFirst(k)' /\ ClosingHeard(k)'
    BY <1>1, <1>2, <1>6 DEF StreamOK, FramesCounted, ConnectingFirst, ClosingHeard, Pending, Ahead, Live
  <2>4. QED
    BY <1>1, <1>5, <2>1, <2>2, <2>3, ServerStepKeeps DEF StreamOK
<1>7. CASE /\ conn' = [conn EXCEPT ![k].closeSent = TRUE]
           /\ down' = [down EXCEPT ![k] = Append(@, "echo")]
  <2>1. conn[k] \in Conns /\ conn \in [Sockets -> Conns] /\ down[k] \in Seq(Messages) /\ "echo" \in Messages
    BY DEF StreamInv, StreamTypes, Messages
  <2>2. /\ conn' \in [Sockets -> Conns] /\ conn'[k].closeSent /\ conn'[k].sent = conn[k].sent
        /\ conn'[k].err = conn[k].err /\ \A j \in Sockets \ {k} : conn'[j] = conn[j]
    BY <1>7, <2>1 DEF Conns
  <2>3. /\ down'[k] = Append(down[k], "echo") /\ down' \in [Sockets -> Seq(Messages)]
        /\ \A j \in Sockets \ {k} : down'[j] = down[j]
    BY <1>7, <2>1, AppendElements DEF StreamInv, StreamTypes
  <2>4. /\ Len(down'[k]) = Len(down[k]) + 1 /\ Len(down[k]) \in Nat
        /\ down'[k][Len(down[k]) + 1] = "echo" /\ \A i \in 1..Len(down[k]) : down'[k][i] = down[k][i]
    BY <2>1, <2>3, AppendElements, LenProperties
  <2>5. \A i \in 1..Len(down'[k]) : (i \in 1..Len(down[k]) /\ down'[k][i] = down[k][i]) \/ down'[k][i] = "echo"
    BY <2>4
  <2>6. \A i \in 1..Len(down'[k]) : down'[k][i] # "end of stream"
    BY <1>3, <2>5
  <2>7. StreamTypes' /\ OnlyAt(k)
    BY <1>4, <2>2, <2>3 DEF StreamTypes, OnlyAt
  <2>8. EndedWell(k)' /\ NormalEnd(k)'
    BY <1>1, <1>2, <2>2 DEF StreamOK, EndedWell, NormalEnd
  <2>9. EndInPlace(k)' /\ EchoAlone(k)'
    BY <2>2, <2>6 DEF EndInPlace, EchoAlone
  <2>10. HandshakeFirst(k)'
    BY <1>1, <1>2, <2>5 DEF StreamOK, HandshakeFirst
  <2>11. FramesCounted(k)'
    BY <2>2 DEF FramesCounted
  <2>12. ConnectingFirst(k)'
    <3> SUFFICES ASSUME ws'[k].state = "connecting"
                 PROVE  Len(down'[k]) >= 1 /\ down'[k][1] \in {"101", "refused", "fin"}
      BY DEF ConnectingFirst
    <3>1. Len(down[k]) >= 1 /\ down[k][1] \in {"101", "refused", "fin"}
      BY <1>1, <1>2 DEF StreamOK, ConnectingFirst
    <3>2. QED
      BY <2>4, <3>1
  <2>13. ClosingHeard(k)'
    BY <2>2, <2>6 DEF ClosingHeard
  <2>14. QED
    BY <1>1, <1>5, <2>7, <2>8, <2>9, <2>10, <2>11, <2>12, <2>13, ServerStepKeeps DEF StreamOK
<1>8. QED
  BY <1>6, <1>7 DEF ReadClose

\* Whatever the server does.
LEMMA ServerKeepsStream ==
  ASSUME StreamInv, PageInv, NEW k \in Sockets, Handle(k) \/ EndsShort(k) \/ ContextDone(k) \/ Read(k) \/ ReadDeadline(k)
  PROVE  StreamInv'
  BY RequestKeeps, AnswerKeeps, WriteKeeps, HandlerStepsKeep, CloseStepsKeep, ReadCloseKeeps, ReaderEnds
     DEF Handle, Read, EndOfData, EndsShort

-----------------------------------------------------------------------------
(***************************************************************************)
(* The steps of the browser                                                *)
(***************************************************************************)
\* A step of the browser at socket k.
LEMMA BrowserStepKeeps ==
  ASSUME StreamInv, NEW k \in Sockets, UNCHANGED <<opened, handler, reader, conn>>,
         \A j \in Sockets : j \in attached' => j \in attached,
         \A j \in Sockets \ {k} : ws'[j] = ws[j] /\ down'[j] = down[j] /\ up'[j] = up[j],
         StreamTypes', StreamOK(k)'
  PROVE  StreamInv'
<1>1. \A j \in Sockets \ {k} : StreamOK(j)'
  BY OthersKept DEF StreamInv
<1>2. QED
  BY <1>1 DEF StreamInv

\* The browser takes the oldest message.
Taken(k, kinds) ==
  /\ down' \in [Sockets -> Seq(Messages)] /\ \A j \in Sockets \ {k} : down'[j] = down[j]
  /\ Len(down[k]) \in Nat /\ Len(down[k]) >= 1 /\ down[k][1] \in kinds
  /\ Len(down'[k]) = Len(down[k]) - 1
  /\ \A i \in 1..Len(down'[k]) : i \in Nat /\ i + 1 \in 1..Len(down[k]) /\ down'[k][i] = down[k][i + 1]
  /\ ~Pending(k) /\ k <= opened /\ ws[k].state \notin {"none", "closed", "gone"}

LEMMA PopEffect ==
  ASSUME StreamInv, PageInv, NEW k \in Sockets, NEW kinds, Incoming(k, kinds), Pop(k)
  PROVE  Taken(k, kinds)
<1>1. down[k] \in Seq(Messages) /\ down[k] # <<>> /\ down \in [Sockets -> Seq(Messages)]
  BY DEF Incoming, StreamInv, StreamTypes
<1>2. /\ Tail(down[k]) \in Seq(Messages) /\ Len(down[k]) >= 1 /\ Len(Tail(down[k])) = Len(down[k]) - 1
      /\ Head(down[k]) = down[k][1] /\ Head(down[k]) \in Messages
      /\ \A i \in 1..Len(Tail(down[k])) : i + 1 \in 1..Len(down[k]) /\ Tail(down[k])[i] = down[k][i + 1]
  BY <1>1, TailElements
<1>3. down' = [down EXCEPT ![k] = Tail(down[k])]
  BY DEF Pop
<1>4. /\ down' \in [Sockets -> Seq(Messages)] /\ down'[k] = Tail(down[k])
      /\ \A j \in Sockets \ {k} : down'[j] = down[j]
  BY <1>1, <1>2, <1>3
<1>5. ~Pending(k) /\ k <= opened /\ ws[k].state \notin {"none", "closed", "gone"}
  <2>1. StreamOK(k)
    BY DEF StreamInv
  <2>2. ~Pending(k)
    BY <1>1, <2>1 DEF StreamOK, PendingQuiet
  <2>3. k <= opened /\ ws[k].state # "none"
    <3>1. ~(k > opened) /\ ws[k].state # "none"
      BY <2>1, <2>2 DEF StreamOK, Unopened, Pending
    <3>2. k \in Nat /\ opened \in Nat
      BY SocketsAssumption DEF Sockets, PageInv, PageTypes
    <3>3. QED
      BY <3>1, <3>2
  <2>4. QED
    BY <2>2, <2>3 DEF Incoming, Deaf
<1>6. \A i \in 1..Len(down'[k]) : i \in Nat /\ i + 1 \in 1..Len(down[k]) /\ down'[k][i] = down[k][i + 1]
  <2>1. Len(down[k]) \in Nat
    BY <1>1, LenProperties
  <2>2. QED
    BY <1>2, <1>4, <2>1
<1>7. Len(down[k]) \in Nat /\ down[k][1] \in kinds
  BY <1>1, <1>2, LenProperties DEF Incoming
<1>8. QED
  BY <1>2, <1>4, <1>5, <1>6, <1>7 DEF Taken

\* There was a message, and the socket had an answer to its request.
LEMMA TakenOpened ==
  ASSUME PageInv, NEW k \in Sockets, NEW kinds, Taken(k, kinds)
  PROVE  ~(k > opened) /\ ~Pending(k) /\ 1 \in 1..Len(down[k]) /\ down[k][1] \in kinds
<1>1. k \in Nat /\ opened \in Nat
  BY SocketsAssumption DEF Sockets, PageInv, PageTypes
<1>2. k <= opened /\ ~Pending(k) /\ Len(down[k]) \in Nat /\ Len(down[k]) >= 1 /\ down[k][1] \in kinds
  BY DEF Taken
<1>3. ~(k > opened)
  BY <1>1, <1>2
<1>4. 1 \in 1..Len(down[k])
  BY <1>2
<1>5. QED
  BY <1>2, <1>3, <1>4

\* What is known of the messages holds of those that are left; the handshake is
\* not among them.
LEMMA TakenRest ==
  ASSUME StreamInv, PageInv, NEW k \in Sockets, NEW kinds, Taken(k, kinds), UNCHANGED <<handler, conn>>
  PROVE  /\ \A i \in 1..Len(down'[k]) : down'[k][i] # "101"
         /\ EchoAlone(k)'
         /\ (\A i \in 1..Len(down[k]) : down[k][i] # "end of stream")
            => \A i \in 1..Len(down'[k]) : down'[k][i] # "end of stream"
         /\ \A i \in 1..Len(down'[k]) : down'[k][i] = "end of stream" =>
              /\ i \in Nat /\ ~conn'[k].err /\ handler'[k] = "done" /\ conn'[k].closed
              /\ \A j \in 1..Len(down'[k]) : down'[k][j] = "end of stream" => j = i
              /\ down[k][1] # "end of stream"
              /\ Live(k) => ws[k].received + (i + 1) = conn[k].sent + 1 + Ahead(k)
<1>1. StreamOK(k)
  BY DEF StreamInv
<1>2. \A i \in 1..Len(down'[k]) : i \in Nat /\ i + 1 \in 1..Len(down[k]) /\ down'[k][i] = down[k][i + 1]
  BY DEF Taken
<1>3. \A i \in 1..Len(down'[k]) : i # 0 /\ i + 1 # 1
  OBVIOUS
<1>4. \A i, j \in Nat : i + 1 = j + 1 => i = j
  OBVIOUS
<1>5. \A i \in 1..Len(down'[k]) : down'[k][i] # "101"
  BY <1>1, <1>2, <1>3 DEF StreamOK, HandshakeFirst
<1>6. EchoAlone(k)'
  BY <1>1, <1>2 DEF StreamOK, EchoAlone
<1>7. \A i \in 1..Len(down'[k]) : down'[k][i] = "end of stream" =>
        \A j \in 1..Len(down[k]) : down[k][j] = "end of stream" => j = i + 1
  BY <1>1, <1>2 DEF StreamOK, EndInPlace
<1>8. \A i \in 1..Len(down'[k]) : down'[k][i] = "end of stream" =>
        \A j \in 1..Len(down'[k]) : down'[k][j] = "end of stream" => j = i
  <2> TAKE i \in 1..Len(down'[k])
  <2> HAVE down'[k][i] = "end of stream"
  <2> TAKE j \in 1..Len(down'[k])
  <2> HAVE down'[k][j] = "end of stream"
  <2>1. j + 1 = i + 1
    BY <1>2, <1>7
  <2>2. QED
    BY <1>2, <1>4, <2>1
<1>9. 1 \in 1..Len(down[k])
  BY DEF Taken
<1>10. \A i \in 1..Len(down'[k]) : down'[k][i] = "end of stream" => down[k][1] # "end of stream"
  BY <1>3, <1>7, <1>9
<1>11. \A i \in 1..Len(down'[k]) : down'[k][i] = "end of stream" =>
         /\ ~conn'[k].err /\ handler'[k] = "done" /\ conn'[k].closed
         /\ Live(k) => ws[k].received + (i + 1) = conn[k].sent + 1 + Ahead(k)
  BY <1>1, <1>2 DEF StreamOK, EndInPlace
<1>12. (\A i \in 1..Len(down[k]) : down[k][i] # "end of stream")
       => \A i \in 1..Len(down'[k]) : down'[k][i] # "end of stream"
  BY <1>2
<1>13. \A i \in 1..Len(down'[k]) : i \in Nat
  BY <1>2
<1>14. QED
  BY <1>5, <1>6, <1>8, <1>10, <1>11, <1>12, <1>13, Zenon

\* A message moves up by one place: behind the handshake, or behind a frame.
LEMMA MovesUp ==
  /\ \A r, n, f \in Nat : r + (n + 1) = f + 1 + 1 => r + n = f + 1 + 0
  /\ \A r, n, f \in Nat : r + (n + 1) = f + 1 + 0 => (r + 1) + n = f + 1 + 0
  /\ \A r, f \in Nat : r + 1 = f + 1 + 0 => r = f
  OBVIOUS

\* The handshake is read.
LEMMA OnOpenKeeps ==
  ASSUME StreamInv, PageInv, NEW k \in Sockets, OnOpen(k)
  PROVE  StreamInv'
<1>1. Taken(k, {"101"})
  BY PopEffect DEF OnOpen
<1>2. StreamOK(k) /\ ws[k] \in [state : States, code : Codes, received : Nat]
  BY DEF StreamInv, PageInv, PageTypes
<1>3. ws[k].state # "open"
  BY <1>1, <1>2 DEF StreamOK, HandshakeFirst, Taken
<1>4. /\ ws'[k].code = ws[k].code /\ ws'[k].received = ws[k].received
      /\ ws'[k].state = IF ws[k].state = "connecting" THEN "open" ELSE ws[k].state
      /\ \A j \in Sockets \ {k} : ws'[j] = ws[j]
  BY <1>2 DEF OnOpen, PageInv, PageTypes
<1>5. UNCHANGED <<attached, opened, handler, reader, conn, up>>
  BY DEF OnOpen, page
<1>6. StreamTypes'
  BY <1>1, <1>5 DEF StreamInv, StreamTypes, Taken
<1>7. Unopened(k)' /\ PendingQuiet(k)' /\ EndedWell(k)'
  <2>1. ~(k > opened) /\ ~Pending(k)
    BY <1>1, TakenOpened
  <2>2. QED
    BY <1>1, <1>2, <1>4, <1>5, <2>1 DEF StreamOK, Taken, Unopened, PendingQuiet, Pending, EndedWell
<1>8. EchoAlone(k)' /\ HandshakeFirst(k)'
  BY <1>1, <1>5, TakenRest DEF HandshakeFirst
<1>9. ConnectingFirst(k)'
  BY <1>3, <1>4 DEF ConnectingFirst
<1>10. ClosingHeard(k)' /\ CodeKept(k)' /\ NormalEnd(k)'
  <2>1. ClosingHeard(k)'
    BY <1>1, <1>2, <1>4, <1>5, TakenRest DEF StreamOK, ClosingHeard
  <2>2. CodeKept(k)' /\ NormalEnd(k)'
    BY <1>2, <1>4, <1>5 DEF StreamOK, CodeKept, NormalEnd
  <2>3. QED
    BY <2>1, <2>2
<1>11. Live(k)' => Live(k) /\ Ahead(k) = 1 /\ Ahead(k)' = 0
  BY <1>3, <1>4 DEF Live, Ahead
<1>12. FramesCounted(k)'
  <2>1. ws[k].received \in Nat /\ conn[k].sent \in Nat /\ Len(down[k]) \in Nat
    BY <1>1, <1>2 DEF StreamInv, StreamTypes, Conns, Taken
  <2>2. ws[k].received + Len(down[k]) = conn[k].sent + 1 => ws[k].received + (Len(down[k]) - 1) = conn[k].sent + 0
    BY <2>1
  <2>3. Len(down'[k]) = Len(down[k]) - 1
    BY <1>1 DEF Taken
  <2>4. QED
    BY <1>2, <1>4, <1>5, <1>11, <2>2, <2>3 DEF StreamOK, FramesCounted
<1>13. EndInPlace(k)'
  <2> SUFFICES ASSUME NEW i \in 1..Len(down'[k]), down'[k][i] = "end of stream"
               PROVE  /\ ~conn[k].err /\ handler[k] = "done" /\ conn[k].closed
                      /\ \A j \in 1..Len(down'[k]) : down'[k][j] = "end of stream" => j = i
                      /\ Live(k)' => ws[k].received + i = conn[k].sent + 1 + 0
    BY <1>4, <1>5, <1>11 DEF EndInPlace
  <2>1. /\ i \in Nat /\ ~conn[k].err /\ handler[k] = "done" /\ conn[k].closed
        /\ \A j \in 1..Len(down'[k]) : down'[k][j] = "end of stream" => j = i
        /\ Live(k) => ws[k].received + (i + 1) = conn[k].sent + 1 + Ahead(k)
    BY <1>1, <1>5, TakenRest
  <2>3. ws[k].received \in Nat /\ i \in Nat /\ conn[k].sent \in Nat
    BY <1>2, <2>1 DEF StreamInv, StreamTypes, Conns
  <2>4. Live(k)' => ws[k].received + (i + 1) = conn[k].sent + 1 + 1
    BY <1>11, <2>1
  <2>5. Live(k)' => ws[k].received + i = conn[k].sent + 1 + 0
    <3> HAVE Live(k)'
    <3>1. PICK r \in Nat, n \in Nat, f \in Nat : r = ws[k].received /\ n = i /\ f = conn[k].sent
      BY <2>3
    <3>2. ws[k].received + (i + 1) = conn[k].sent + 1 + 1
      BY <2>4, Zenon
    <3>3. r + (n + 1) = f + 1 + 1
      BY <3>1, <3>2, Zenon
    <3>4. r + n = f + 1 + 0
      <4>1. ASSUME r + (n + 1) = f + 1 + 1 PROVE r + n = f + 1 + 0
        BY ONLY r \in Nat, n \in Nat, f \in Nat, <4>1
      <4>2. QED
        BY <3>3, <4>1, Zenon
    <3>5. QED
      BY <3>1, <3>4, Zenon
  <2>6. QED
    BY <2>1, <2>5, Zenon
<1>14. QED
  BY <1>4, <1>5, <1>6, <1>7, <1>8, <1>9, <1>10, <1>12, <1>13, <1>1, BrowserStepKeeps DEF StreamOK, Taken

\* A live socket is the current one, and has its handlers.
LEMMA LiveAttached ==
  ASSUME PageInv, NEW k \in Sockets, Live(k)
  PROVE  k \in attached
  BY SocketExists DEF PageInv, CurrentOnly

\* A frame is read.
LEMMA OnMessageKeeps ==
  ASSUME StreamInv, PageInv, NEW k \in Sockets, OnMessage(k)
  PROVE  StreamInv'
<1>1. Taken(k, {"frame"})
  BY PopEffect DEF OnMessage
<1>2. StreamOK(k) /\ ws[k] \in [state : States, code : Codes, received : Nat]
  BY DEF StreamInv, PageInv, PageTypes
<1>3. ws[k].state # "connecting"
  BY <1>1, <1>2 DEF StreamOK, ConnectingFirst, Taken
<1>4. ws[k].state = "open" => k \in attached
  BY LiveAttached DEF Live
<1>5. /\ ws'[k].code = ws[k].code /\ ws'[k].state = ws[k].state
      /\ ws[k].state = "open" => ws'[k].received = ws[k].received + 1
      /\ ws[k].state # "open" => ws'[k].received = ws[k].received
      /\ \A j \in Sockets \ {k} : ws'[j] = ws[j]
  <2>1. CASE ws[k].state = "open"
    <3>1. ws' = [ws EXCEPT ![k].received = ws[k].received + 1]
      BY <1>4, <2>1 DEF OnMessage
    <3>2. QED
      BY <1>2, <2>1, <3>1 DEF PageInv, PageTypes
  <2>2. CASE ws[k].state # "open"
    BY <2>2 DEF OnMessage
  <2>3. QED
    BY <2>1, <2>2
<1>6. UNCHANGED <<attached, opened, handler, reader, conn, up>>
  BY DEF OnMessage, page
<1>7. StreamTypes'
  BY <1>1, <1>6 DEF StreamInv, StreamTypes, Taken
<1>8. Unopened(k)' /\ PendingQuiet(k)' /\ EndedWell(k)'
  <2>1. ~(k > opened) /\ ~Pending(k)
    BY <1>1, TakenOpened
  <2>2. QED
    BY <1>1, <1>2, <1>5, <1>6, <2>1 DEF StreamOK, Taken, Unopened, PendingQuiet, Pending, EndedWell
<1>9. EchoAlone(k)' /\ HandshakeFirst(k)'
  BY <1>1, <1>6, TakenRest DEF HandshakeFirst
<1>10. ConnectingFirst(k)'
  BY <1>3, <1>5 DEF ConnectingFirst
<1>11. ClosingHeard(k)' /\ CodeKept(k)' /\ NormalEnd(k)'
  <2>1. ClosingHeard(k)'
    BY <1>1, <1>2, <1>5, <1>6, TakenRest DEF StreamOK, ClosingHeard
  <2>2. CodeKept(k)'
    BY <1>2, <1>5 DEF StreamOK, CodeKept
  <2>3. NormalEnd(k)'
    BY <1>2, <1>5, <1>6 DEF StreamOK, CodeKept, NormalEnd
  <2>4. QED
    BY <2>1, <2>2, <2>3
<1>12. Live(k)' => Live(k) /\ ws[k].state = "open" /\ Ahead(k) = 0 /\ Ahead(k)' = 0
  BY <1>3, <1>5 DEF Live, Ahead
<1>13. FramesCounted(k)'
  <2>1. ws[k].received \in Nat /\ conn[k].sent \in Nat /\ Len(down[k]) \in Nat
    BY <1>1, <1>2 DEF StreamInv, StreamTypes, Conns, Taken
  <2>2. ws[k].received + Len(down[k]) = conn[k].sent + 0
        => (ws[k].received + 1) + (Len(down[k]) - 1) = conn[k].sent + 0
    BY <2>1
  <2>3. Len(down'[k]) = Len(down[k]) - 1
    BY <1>1 DEF Taken
  <2>4. QED
    BY <1>2, <1>5, <1>6, <1>12, <2>2, <2>3 DEF StreamOK, FramesCounted
<1>14. EndInPlace(k)'
  <2> SUFFICES ASSUME NEW i \in 1..Len(down'[k]), down'[k][i] = "end of stream"
               PROVE  /\ ~conn[k].err /\ handler[k] = "done" /\ conn[k].closed
                      /\ \A j \in 1..Len(down'[k]) : down'[k][j] = "end of stream" => j = i
                      /\ Live(k)' => (ws[k].received + 1) + i = conn[k].sent + 1 + 0
    BY <1>5, <1>6, <1>12 DEF EndInPlace
  <2>1. /\ i \in Nat /\ ~conn[k].err /\ handler[k] = "done" /\ conn[k].closed
        /\ \A j \in 1..Len(down'[k]) : down'[k][j] = "end of stream" => j = i
        /\ Live(k) => ws[k].received + (i + 1) = conn[k].sent + 1 + Ahead(k)
    BY <1>1, <1>6, TakenRest
  <2>2. ws[k].received \in Nat /\ i \in Nat /\ conn[k].sent \in Nat
    BY <1>2, <2>1 DEF StreamInv, StreamTypes, Conns
  <2>3. Live(k)' => ws[k].received + (i + 1) = conn[k].sent + 1 + 0
    BY <1>12, <2>1
  <2>4. Live(k)' => (ws[k].received + 1) + i = conn[k].sent + 1 + 0
    BY <2>2, <2>3, MovesUp, Zenon
  <2>5. QED
    BY <2>1, <2>4, Zenon
<1>15. QED
  BY <1>1, <1>5, <1>6, <1>7, <1>8, <1>9, <1>10, <1>11, <1>13, <1>14, BrowserStepKeeps DEF StreamOK, Taken

\* Put adds at most one message.
LEMMA PutEffect ==
  ASSUME StreamInv, NEW k \in Sockets, NEW m \in {"close", "fin"},
         NEW msgs \in [Sockets -> Seq({"get", "close", "fin"})]
  PROVE  /\ Put(k, m, msgs) \in [Sockets -> Seq({"get", "close", "fin"})]
         /\ \A j \in Sockets \ {k} : Put(k, m, msgs)[j] = msgs[j]
  BY DEF Put

\* A close message is read.
LEMMA CloseArrivesKeeps ==
  ASSUME StreamInv, PageInv, NEW k \in Sockets, CloseArrives(k)
  PROVE  StreamInv'
<1>1. Taken(k, {"end of stream", "echo"})
  BY PopEffect DEF CloseArrives
<1>2. StreamOK(k) /\ ws[k] \in [state : States, code : Codes, received : Nat]
  BY DEF StreamInv, PageInv, PageTypes
<1>3. ws[k].state \in {"open", "closing"}
  BY <1>1, <1>2 DEF StreamOK, ConnectingFirst, Taken, States
<1>4. /\ ws'[k].code = down[k][1] /\ ws'[k].state = "closing" /\ ws'[k].received = ws[k].received
      /\ \A j \in Sockets \ {k} : ws'[j] = ws[j]
  <2>1. Head(down[k]) = down[k][1]
    BY TailElements DEF CloseArrives, Incoming, StreamInv, StreamTypes
  <2>2. QED
    BY <1>2, <2>1 DEF CloseArrives, PageInv, PageTypes
<1>5. UNCHANGED <<attached, opened, handler, reader, conn>>
  BY DEF CloseArrives, page
<1>6. up' \in [Sockets -> Seq({"get", "close", "fin"})] /\ \A j \in Sockets \ {k} : up'[j] = up[j]
  BY PutEffect DEF CloseArrives, StreamInv, StreamTypes
<1>7. StreamTypes'
  BY <1>1, <1>5, <1>6 DEF StreamInv, StreamTypes, Taken
<1>8. Unopened(k)' /\ PendingQuiet(k)' /\ EndedWell(k)'
  <2>1. ~(k > opened) /\ ~Pending(k)
    BY <1>1, TakenOpened
  <2>2. QED
    BY <1>2, <1>4, <1>5, <2>1 DEF StreamOK, Unopened, PendingQuiet, Pending, EndedWell
<1>9. EchoAlone(k)' /\ HandshakeFirst(k)'
  BY <1>1, <1>5, TakenRest DEF HandshakeFirst
<1>10. ConnectingFirst(k)' /\ CodeKept(k)' /\ FramesCounted(k)'
  BY <1>4 DEF ConnectingFirst, CodeKept, FramesCounted, Live
<1>11. EndInPlace(k)'
  <2>1. ~Live(k)'
    BY <1>4 DEF Live
  <2>2. QED
    BY <1>1, <1>5, <2>1, TakenRest DEF EndInPlace
<1>12. 1 \in 1..Len(down[k]) /\ down[k][1] \in {"end of stream", "echo"}
  BY <1>1, TakenOpened
<1>13. ClosingHeard(k)'
  <2>1. conn[k].closeSent \/ handler[k] = "done"
    BY <1>2, <1>12 DEF StreamOK, EndInPlace, EchoAlone
  <2>2. \A i \in 1..Len(down'[k]) : down'[k][i] # "end of stream"
    <3>1. CASE down[k][1] = "end of stream"
      BY <1>1, <1>5, <3>1, TakenRest
    <3>2. CASE down[k][1] = "echo"
      <4>1. \A i \in 1..Len(down[k]) : down[k][i] # "end of stream"
        BY <1>2, <1>12, <3>2 DEF StreamOK, EchoAlone
      <4>2. QED
        BY <1>1, <1>5, <4>1, TakenRest
    <3>3. QED
      BY <1>12, <3>1, <3>2
  <2>3. QED
    BY <1>5, <2>1, <2>2 DEF ClosingHeard
<1>14. NormalEnd(k)'
  <2> SUFFICES ASSUME down[k][1] = "end of stream"
               PROVE  /\ handler[k] = "done" /\ ~conn[k].err
                      /\ k \in attached => ws[k].received = conn[k].sent
    BY <1>4, <1>5 DEF NormalEnd
  <2>1. handler[k] = "done" /\ ~conn[k].err /\ (Live(k) => ws[k].received + 1 = conn[k].sent + 1 + Ahead(k))
    BY <1>2, <1>12 DEF StreamOK, EndInPlace
  <2>2. k \in attached => ws[k].state = "open"
    BY <1>2, <1>3, <1>12 DEF StreamOK, ClosingHeard
  <2>3. ws[k].received + 1 = conn[k].sent + 1 + 0 => ws[k].received = conn[k].sent
    BY <1>2, MovesUp DEF StreamInv, StreamTypes, Conns
  <2>4. QED
    BY <2>1, <2>2, <2>3 DEF Live, Ahead
<1>15. QED
  BY <1>1, <1>4, <1>5, <1>6, <1>7, <1>8, <1>9, <1>10, <1>11, <1>13, <1>14, BrowserStepKeeps DEF StreamOK, Taken

\* cleanupWs, called for a socket that is closed, closes nothing.
LEMMA OnCloseEffect ==
  ASSUME PageInv, NEW k \in Sockets, NEW msgs, OnClose(k, msgs)
  PROVE  /\ ws'[k].state = "closed" /\ ws'[k].code = ws[k].code /\ ws'[k].received = ws[k].received
         /\ \A j \in Sockets \ {k} : ws'[j] = ws[j]
         /\ up' = msgs /\ \A j \in Sockets : j \in attached' => j \in attached
<1> DEFINE socks == [ws EXCEPT ![k].state = "closed"]
<1>1. /\ socks[k].state = "closed" /\ socks[k].code = ws[k].code /\ socks[k].received = ws[k].received
      /\ \A j \in Sockets \ {k} : socks[j] = ws[j]
  BY DEF PageInv, PageTypes, States
<1>2. CASE k \in attached
  <2>1. k = wsConnection
    BY <1>2, SocketExists DEF PageInv, CurrentOnly
  <2>2. attached' = Detach(k) /\ ws' = CloseIfLive(k, socks) /\ up' = CloseMessages(k, socks, msgs)
    BY <1>2, <2>1, SocketExists DEF OnClose, CleanupWs
  <2> HIDE DEF socks
  <2>3. QED
    BY <1>1, <2>2 DEF Detach, CloseIfLive, CloseMessages
<1>3. CASE k \notin attached
  <2>1. ws' = socks /\ up' = msgs /\ UNCHANGED attached
    BY <1>3 DEF OnClose
  <2> HIDE DEF socks
  <2>2. QED
    BY <1>1, <2>1
<1>4. QED
  BY <1>2, <1>3

\* A socket is closed.
LEMMA ClosedKeeps ==
  ASSUME StreamInv, PageInv, NEW k \in Sockets,
         NEW msgs \in [Sockets -> Seq({"get", "close", "fin"})], OnClose(k, msgs),
         \A j \in Sockets \ {k} : msgs[j] = up[j] /\ down'[j] = down[j],
         UNCHANGED <<opened, handler, reader, conn>>,
         down' \in [Sockets -> Seq(Messages)], ~(k > opened),
         Pending(k) => down'[k] = down[k], EchoAlone(k)',
         \A i \in 1..Len(down'[k]) : down'[k][i] # "101",
         \A i \in 1..Len(down'[k]) : down'[k][i] = "end of stream" =>
           /\ ~conn[k].err /\ handler[k] = "done" /\ conn[k].closed
           /\ \A j \in 1..Len(down'[k]) : down'[k][j] = "end of stream" => j = i
  PROVE  StreamInv'
<1>1. /\ ws'[k].state = "closed" /\ ws'[k].code = ws[k].code /\ ws'[k].received = ws[k].received
      /\ \A j \in Sockets \ {k} : ws'[j] = ws[j]
      /\ up' = msgs /\ \A j \in Sockets : j \in attached' => j \in attached
  BY OnCloseEffect
<1>2. StreamOK(k)
  BY DEF StreamInv
<1>3. StreamTypes'
  BY <1>1 DEF StreamInv, StreamTypes
<1>4. EndInPlace(k)' /\ HandshakeFirst(k)'
  BY <1>1 DEF EndInPlace, HandshakeFirst, Live
<1>5. Unopened(k)' /\ PendingQuiet(k)' /\ EndedWell(k)'
  BY <1>1, <1>2 DEF StreamOK, Unopened, PendingQuiet, Pending, EndedWell
<1>6. FramesCounted(k)' /\ ConnectingFirst(k)' /\ ClosingHeard(k)' /\ CodeKept(k)'
  BY <1>1 DEF FramesCounted, Live, ConnectingFirst, ClosingHeard, CodeKept
<1>7. NormalEnd(k)'
  BY <1>1, <1>2 DEF StreamOK, NormalEnd
<1>8. QED
  BY <1>1, <1>3, <1>4, <1>5, <1>6, <1>7, BrowserStepKeeps DEF StreamOK

\* The browser meets the end of the connection, or gives up waiting for it.
LEMMA ClosesKeep ==
  ASSUME StreamInv, PageInv, NEW k \in Sockets, ConnectionEnds(k) \/ BrowserGivesUp(k)
  PROVE  StreamInv'
<1>1. up \in [Sockets -> Seq({"get", "close", "fin"})] /\ down \in [Sockets -> Seq(Messages)]
  BY DEF StreamInv, StreamTypes
<1>2. CASE ConnectionEnds(k)
  <2>1. Taken(k, {"fin", "refused"})
    BY <1>2, PopEffect DEF ConnectionEnds
  <2>2. UNCHANGED <<opened, handler, reader, conn>> /\ OnClose(k, up)
    BY <1>2 DEF ConnectionEnds
  <2>3. down' \in [Sockets -> Seq(Messages)] /\ \A j \in Sockets \ {k} : down'[j] = down[j]
    BY <2>1 DEF Taken
  <2>4. /\ EchoAlone(k)' /\ \A i \in 1..Len(down'[k]) : down'[k][i] # "101"
        /\ \A i \in 1..Len(down'[k]) : down'[k][i] = "end of stream" =>
             /\ ~conn[k].err /\ handler[k] = "done" /\ conn[k].closed
             /\ \A j \in 1..Len(down'[k]) : down'[k][j] = "end of stream" => j = i
    BY <2>1, <2>2, TakenRest
  <2>5. ~(k > opened) /\ ~Pending(k)
    BY <2>1, TakenOpened
  <2>6. QED
    BY <1>1, <2>2, <2>3, <2>4, <2>5, ClosedKeeps
<1>3. CASE BrowserGivesUp(k)
  <2>1. PICK msgs : OnClose(k, msgs) /\ msgs = IF Broken(k) THEN up ELSE Put(k, "fin", up)
    BY <1>3 DEF BrowserGivesUp
  <2>2. msgs \in [Sockets -> Seq({"get", "close", "fin"})] /\ \A j \in Sockets \ {k} : msgs[j] = up[j]
    BY <1>1, <2>1, PutEffect
  <2>3. down' = [down EXCEPT ![k] = <<>>] /\ UNCHANGED <<opened, handler, reader, conn>>
    BY <1>3 DEF BrowserGivesUp
  <2>4. /\ down' \in [Sockets -> Seq(Messages)] /\ down'[k] = <<>> /\ Len(down'[k]) = 0
        /\ \A j \in Sockets \ {k} : down'[j] = down[j]
    BY <1>1, <2>3
  <2>5. StreamOK(k) /\ ws[k].state = "closing"
    BY <1>3 DEF BrowserGivesUp, StreamInv
  <2>6. ~(k > opened) /\ (Pending(k) => down'[k] = down[k])
    BY <2>4, <2>5 DEF StreamOK, Unopened, NewWs, PendingQuiet
  <2>7. EchoAlone(k)'
    BY <2>4 DEF EchoAlone
  <2>8. \A i \in 1..Len(down'[k]) : FALSE
    BY <2>4
  <2>9. QED
    BY <2>1, <2>2, <2>3, <2>4, <2>6, <2>7, <2>8, ClosedKeeps
<1>4. QED
  BY <1>2, <1>3

\* The client's machine disappears.
LEMMA VanishKeeps ==
  ASSUME StreamInv, PageInv, NEW k \in Sockets, Vanish(k)
  PROVE  StreamInv'
<1>1. StreamOK(k) /\ Live(k) /\ UNCHANGED <<attached, opened, handler, reader, conn, down, up>>
  BY DEF Vanish, StreamInv, page
<1>2. /\ ws'[k].state = "gone" /\ ws'[k].code = ws[k].code /\ ws'[k].received = ws[k].received
      /\ \A j \in Sockets \ {k} : ws'[j] = ws[j]
  BY DEF Vanish, PageInv, PageTypes
<1>3. StreamTypes'
  BY <1>1 DEF StreamInv, StreamTypes
<1>4. Unopened(k)' /\ PendingQuiet(k)' /\ EndedWell(k)'
  BY <1>1, <1>2 DEF StreamOK, Unopened, NewWs, PendingQuiet, Pending, EndedWell, Live
<1>5. EndInPlace(k)' /\ EchoAlone(k)' /\ HandshakeFirst(k)'
  BY <1>1, <1>2 DEF StreamOK, EndInPlace, EchoAlone, HandshakeFirst, Live
<1>6. FramesCounted(k)' /\ ConnectingFirst(k)' /\ ClosingHeard(k)' /\ CodeKept(k)' /\ NormalEnd(k)'
  BY <1>1, <1>2 DEF StreamOK, FramesCounted, ConnectingFirst, ClosingHeard, CodeKept, NormalEnd, Live
<1>7. QED
  BY <1>1, <1>2, <1>3, <1>4, <1>5, <1>6, BrowserStepKeeps DEF StreamOK

-----------------------------------------------------------------------------
(***************************************************************************)
(* The buttons of the page                                                 *)
(***************************************************************************)
\* The messages on their way up when the page has closed its current socket.
UpAfter == IF wsConnection = NoSocket THEN up ELSE CloseMessages(wsConnection, ws, up)

\* The current socket, when it is live, starts to close; nothing else happens.
LEMMA AfterEffect ==
  ASSUME StreamInv, PageInv, NEW j \in Sockets
  PROVE  /\ After[j].state = IF Live(j) THEN "closing" ELSE ws[j].state
         /\ After[j].code = ws[j].code /\ After[j].received = ws[j].received
         /\ ~Live(j) => After[j] = ws[j] /\ UpAfter[j] = up[j]
         /\ UpAfter \in [Sockets -> Seq({"get", "close", "fin"})]
<1>1. /\ ws \in [Sockets -> [state : States, code : Codes, received : Nat]]
      /\ up \in [Sockets -> Seq({"get", "close", "fin"})]
  BY DEF PageInv, PageTypes, StreamInv, StreamTypes
<1>2. CASE wsConnection = NoSocket
  BY <1>1, <1>2, SocketExists DEF After, UpAfter, PageInv, CurrentOnly
<1>3. CASE wsConnection # NoSocket
  <2>1. PICK c \in Sockets : c = wsConnection
    BY <1>3 DEF PageInv, PageTypes
  <2>2. Live(j) => j = c
    BY <2>1 DEF PageInv, CurrentOnly
  <2>3. After = CloseIfLive(c, ws) /\ UpAfter = CloseMessages(c, ws, up)
    BY <1>3, <2>1 DEF After, UpAfter
  <2>4. /\ After[j].state = IF Live(j) THEN "closing" ELSE ws[j].state
        /\ After[j].code = ws[j].code /\ After[j].received = ws[j].received
        /\ ~Live(j) => After[j] = ws[j]
    BY <1>1, <2>2, <2>3 DEF CloseIfLive, Live, States
  <2>5. /\ UpAfter \in [Sockets -> Seq({"get", "close", "fin"})]
        /\ ~Live(j) => UpAfter[j] = up[j]
    <3>1. CASE ws[c].state = "open"
      <4>1. UpAfter = Put(c, "close", up)
        BY <2>3, <3>1 DEF CloseMessages
      <4>2. ~Live(j) => j # c
        BY <3>1 DEF Live
      <4>3. /\ Put(c, "close", up) \in [Sockets -> Seq({"get", "close", "fin"})]
            /\ \A i \in Sockets \ {c} : Put(c, "close", up)[i] = up[i]
        BY <1>1, PutEffect
      <4>4. QED
        BY <4>1, <4>2, <4>3
    <3>2. CASE ws[c].state = "connecting"
      <4>1. UpAfter = Put(c, "fin", up)
        BY <2>3, <3>2 DEF CloseMessages
      <4>2. ~Live(j) => j # c
        BY <3>2 DEF Live
      <4>3. /\ Put(c, "fin", up) \in [Sockets -> Seq({"get", "close", "fin"})]
            /\ \A i \in Sockets \ {c} : Put(c, "fin", up)[i] = up[i]
        BY <1>1, PutEffect
      <4>4. QED
        BY <4>1, <4>2, <4>3
    <3>3. CASE ws[c].state \notin {"open", "connecting"}
      BY <1>1, <2>3, <3>3 DEF CloseMessages
    <3>4. QED
      BY <3>1, <3>2, <3>3
  <2>6. QED
    BY <2>4, <2>5
<1>4. QED
  BY <1>2, <1>3

\* A socket that is not the current one any more.
LEMMA DroppedKept ==
  ASSUME NEW j \in Sockets, StreamOK(j), j \notin attached',
         ws'[j].state = IF Live(j) THEN "closing" ELSE ws[j].state,
         ws'[j].code = ws[j].code, ws'[j].received = ws[j].received,
         ~Live(j) => ws'[j] = ws[j] /\ up'[j] = up[j],
         handler'[j] = handler[j], reader'[j] = reader[j], conn'[j] = conn[j], down'[j] = down[j],
         j > opened' <=> j > opened
  PROVE  StreamOK(j)'
<1>1. ~Live(j)'
  BY DEF Live
<1>2. Unopened(j)'
  BY DEF StreamOK, Unopened, Live, NewWs
<1>3. PendingQuiet(j)' /\ EndedWell(j)' /\ CodeKept(j)' /\ NormalEnd(j)'
  <2>1. PendingQuiet(j)'
    BY <1>1 DEF StreamOK, PendingQuiet, Pending, Live
  <2>2. EndedWell(j)'
    BY DEF StreamOK, EndedWell
  <2>3. CodeKept(j)'
    BY DEF StreamOK, CodeKept, Live
  <2>4. NormalEnd(j)'
    BY DEF StreamOK, NormalEnd
  <2>5. QED
    BY <2>1, <2>2, <2>3, <2>4
<1>4. EndInPlace(j)' /\ EchoAlone(j)' /\ HandshakeFirst(j)'
  <2>1. EndInPlace(j)'
    BY <1>1 DEF StreamOK, EndInPlace
  <2>2. EchoAlone(j)'
    BY DEF StreamOK, EchoAlone
  <2>3. HandshakeFirst(j)'
    BY <1>1 DEF StreamOK, HandshakeFirst, Live
  <2>4. QED
    BY <2>1, <2>2, <2>3
<1>5. FramesCounted(j)' /\ ConnectingFirst(j)' /\ ClosingHeard(j)'
  BY <1>1 DEF FramesCounted, ConnectingFirst, ClosingHeard, Live
<1>6. QED
  BY <1>2, <1>3, <1>4, <1>5 DEF StreamOK

LEMMA StopKeepsStream ==
  ASSUME StreamInv, PageInv, StopStreaming
  PROVE  StreamInv'
<1>1. attached' = {}
  BY DEF StopStreaming, CleanupWs, Detach, PageInv, CurrentOnly
<1>2. ws' = After /\ up' = UpAfter /\ UNCHANGED <<opened, handler, reader, conn, down>>
  BY DEF StopStreaming, CleanupWs, After, UpAfter
<1>3. \A j \in Sockets : StreamOK(j)'
  BY <1>1, <1>2, AfterEffect, DroppedKept DEF StreamInv
<1>4. StreamTypes'
  <2>1. 1 \in Sockets
    BY SocketsAssumption DEF Sockets
  <2>2. UpAfter \in [Sockets -> Seq({"get", "close", "fin"})]
    BY <2>1, AfterEffect
  <2>3. QED
    BY <1>2, <2>2 DEF StreamInv, StreamTypes
<1>5. QED
  BY <1>3, <1>4 DEF StreamInv

LEMMA StartKeepsStream ==
  ASSUME StreamInv, PageInv, StartWebSocket
  PROVE  StreamInv'
<1>1. PICK k \in Sockets : k = opened + 1
  BY SocketsAssumption DEF StartWebSocket, PageInv, PageTypes, Sockets
<1>2. k \in Sockets /\ opened' = k /\ k > opened /\ ~(k > opened')
  BY <1>1, SocketsAssumption DEF StartWebSocket, PageInv, PageTypes, Sockets
<1>3. \A j \in Sockets \ {k} : j > opened' <=> j > opened
  BY <1>1, <1>2, SocketsAssumption DEF Sockets, PageInv, PageTypes
<1>4. attached' = {k} /\ UNCHANGED <<handler, reader, conn, down>>
  BY <1>1 DEF StartWebSocket, Detach, PageInv, CurrentOnly
<1>5. ws' = [After EXCEPT ![k].state = "connecting"] /\ up' = [UpAfter EXCEPT ![k] = <<"get">>]
  BY <1>1 DEF StartWebSocket, After, UpAfter
<1>6. After \in [Sockets -> [state : States, code : Codes, received : Nat]]
  BY NoneLiveAfter
<1>7. UpAfter \in [Sockets -> Seq({"get", "close", "fin"})]
  BY <1>2, AfterEffect
<1>8. StreamTypes'
  <2>1. <<"get">> \in Seq({"get", "close", "fin"})
    OBVIOUS
  <2>2. up' \in [Sockets -> Seq({"get", "close", "fin"})]
    BY <1>5, <1>7, <2>1
  <2>3. QED
    BY <1>4, <2>2 DEF StreamInv, StreamTypes
<1>9. ASSUME NEW j \in Sockets \ {k}
      PROVE  StreamOK(j)'
  <2>1. ws'[j] = After[j] /\ up'[j] = UpAfter[j] /\ j \notin attached'
    BY <1>4, <1>5, <1>6, <1>7
  <2>2. StreamOK(j) /\ (j > opened' <=> j > opened)
    BY <1>3 DEF StreamInv
  <2>3. QED
    BY <1>4, <2>1, <2>2, AfterEffect, DroppedKept
<1>10. StreamOK(k)'
  <2>1. ws[k] = NewWs /\ handler[k] = "none" /\ StreamOK(k)
    BY <1>2 DEF StreamInv, StreamOK, Unopened
  <2>2. After[k] = NewWs
    BY <1>2, <2>1, AfterEffect DEF Live, NewWs
  <2>3. ws'[k].state = "connecting" /\ ws'[k].code = "none" /\ ws'[k].received = 0
    BY <1>2, <1>5, <1>6, <2>2 DEF NewWs
  <2>4. down'[k] = <<>> /\ Len(down'[k]) = 0 /\ conn'[k].sent = 0 /\ ~conn'[k].err /\ reader'[k] = "none" /\ handler'[k] = "none"
    BY <1>4, <2>1 DEF StreamOK, PendingQuiet, Pending
  <2>5. Unopened(k)' /\ PendingQuiet(k)' /\ EndedWell(k)' /\ CodeKept(k)' /\ NormalEnd(k)'
    BY <1>2, <2>3, <2>4 DEF Unopened, PendingQuiet, EndedWell, CodeKept, NormalEnd
  <2>6. EndInPlace(k)' /\ EchoAlone(k)' /\ HandshakeFirst(k)'
    BY <2>4 DEF EndInPlace, EchoAlone, HandshakeFirst
  <2>7. FramesCounted(k)' /\ ConnectingFirst(k)' /\ ClosingHeard(k)'
    BY <2>3, <2>4 DEF FramesCounted, ConnectingFirst, ClosingHeard, Pending
  <2>8. QED
    BY <2>5, <2>6, <2>7 DEF StreamOK
<1>11. QED
  BY <1>8, <1>9, <1>10 DEF StreamInv

-----------------------------------------------------------------------------
LEMMA StreamNext == PageInv /\ StreamInv /\ [Next]_vars => StreamInv'
<1>1. ASSUME PageInv, StreamInv, NEW k \in Sockets, Browser(k) \/ Vanish(k)
      PROVE  StreamInv'
  BY <1>1, OnOpenKeeps, OnMessageKeeps, CloseArrivesKeeps, ClosesKeep, VanishKeeps DEF Browser
<1>2. ASSUME StreamInv, UNCHANGED vars
      PROVE  StreamInv'
  <2>1. \A j \in Sockets : StreamOK(j)'
    BY <1>2, OthersKept DEF StreamInv, vars, page
  <2>2. StreamTypes'
    BY <1>2 DEF StreamInv, StreamTypes, vars, page
  <2>3. QED
    BY <2>1, <2>2 DEF StreamInv
<1>3. QED
  BY <1>1, <1>2, StartKeepsStream, StopKeepsStream, ServerKeepsStream DEF Next

LEMMA StreamInvariant == Spec => []StreamInv
  BY InitStream, StreamNext, PageInvariant, PTL DEF Spec

\* ws_handler.go sends the close code "normal" only when Run returned no error,
\* and a browser that reads it on its current socket has received every frame
\* that was written: a stream cut by a write, a timeout or a stop never looks
\* like one that is over.
THEOREM NormalMeansEndCorrect == Spec => []NormalMeansEnd
<1>1. StreamInv => NormalMeansEnd
  BY DEF StreamInv, StreamOK, NormalEnd, NormalMeansEnd, At
<1>2. QED
  BY <1>1, StreamInvariant, PTL

-----------------------------------------------------------------------------
(***************************************************************************)
(* What the connection holds                                               *)
(***************************************************************************)
\* The handshake that is in front of the frames.
Lead(k) == IF Len(down[k]) >= 1 /\ down[k][1] = "101" THEN 1 ELSE 0

\* The handler closes the connection, when it is done with it.
OpenYet(k) == handler[k] \in {"none", "metadata", "run", "ended", "failed"} => ~conn[k].closed

\* Only the message at the close, and the end, go beyond the window.
WithinWindow(k) == Len(down[k]) <= Window + 2 /\ (~conn[k].closed => Len(down[k]) <= Window)

\* Every frame received or under way was written.
Accounted(k) ==
  /\ conn[k].sent <= Frames /\ ws[k].received <= conn[k].sent
  /\ handler[k] = "run" /\ ~conn[k].closeSent => ws[k].received + Len(down[k]) <= conn[k].sent + Lead(k)
  /\ \A i \in 1..Len(down[k]) : down[k][i] = "frame" => ws[k].received + i <= conn[k].sent + Lead(k)

RoomOK(k) == OpenYet(k) /\ WithinWindow(k) /\ Accounted(k)

RoomInv == faults \in 0..MaxFaults /\ \A k \in Sockets : RoomOK(k)

\* The numbers and messages at socket k.
LEMMA RoomTypes ==
  ASSUME StreamInv, PageInv, NEW k \in Sockets
  PROVE  /\ conn[k] \in Conns /\ down[k] \in Seq(Messages) /\ Len(down[k]) \in Nat
         /\ ws[k] \in [state : States, code : Codes, received : Nat]
         /\ Lead(k) \in {0, 1}
  BY LenProperties DEF StreamInv, StreamTypes, PageInv, PageTypes, Lead

\* A socket that a step leaves alone.
LEMMA RoomStands ==
  ASSUME NEW j \in Sockets, RoomOK(j), ws'[j].received = ws[j].received, down'[j] = down[j],
         conn'[j].sent = conn[j].sent, conn'[j].closeSent = conn[j].closeSent, conn'[j].closed = conn[j].closed,
         handler'[j] = handler[j] \/ (handler[j] # "none" /\ handler'[j] \in {"ended", "failed", "done"} /\ handler[j] \in {"run", "waiting"}
                                      /\ (handler[j] = "waiting" => handler'[j] = "done"))
                \/ (handler[j] = "none" /\ handler'[j] = "metadata")
  PROVE  RoomOK(j)'
<1>1. OpenYet(j)'
  BY DEF RoomOK, OpenYet
<1>2. WithinWindow(j)'
  BY DEF RoomOK, WithinWindow
<1>3. Lead(j)' = Lead(j)
  BY DEF Lead
<1>4. handler'[j] = "run" => handler[j] = "run"
  OBVIOUS
<1>5. Accounted(j)'
  BY <1>3, <1>4 DEF RoomOK, Accounted
<1>6. QED
  BY <1>1, <1>2, <1>5 DEF RoomOK

LEMMA RoomStep ==
  ASSUME RoomInv, NEW k \in Sockets, faults' \in 0..MaxFaults, RoomOK(k)',
         \A j \in Sockets \ {k} : /\ ws'[j].received = ws[j].received /\ conn'[j] = conn[j]
                                  /\ down'[j] = down[j] /\ handler'[j] = handler[j]
  PROVE  RoomInv'
<1>1. \A j \in Sockets \ {k} : RoomOK(j)'
  BY RoomStands DEF RoomInv
<1>2. QED
  BY <1>1 DEF RoomInv

\* The handler or the reader goes on; nothing is written.
LEMMA RoomHandler ==
  ASSUME RoomInv, StreamInv, PageInv, NEW k \in Sockets,
         \/ WSStreamHandler(k) \/ WriteFails(k) \/ RunEnds(k) \/ ContextDone(k) \/ WaitReader(k)
         \/ ReadFails(k) \/ ReadDeadline(k)
  PROVE  RoomInv'
<1>1. UNCHANGED <<ws, faults, down>> /\ (UNCHANGED conn \/ conn' = [conn EXCEPT ![k].err = TRUE])
  BY DEF WSStreamHandler, WriteFails, RunEnds, ContextDone, RunFails, WaitReader, ReadFails, ReadDeadline, ServerSide
<1>0. \A j \in Sockets : /\ conn'[j].sent = conn[j].sent /\ conn'[j].closeSent = conn[j].closeSent
                          /\ conn'[j].closed = conn[j].closed /\ (j # k => conn'[j] = conn[j])
  <2>1. conn \in [Sockets -> Conns]
    BY DEF StreamInv, StreamTypes
  <2>2. QED
    BY <1>1, <2>1 DEF Conns
<1>2. \A j \in Sockets \ {k} : handler'[j] = handler[j]
  BY DEF WSStreamHandler, WriteFails, RunEnds, ContextDone, RunFails, WaitReader, ReadFails, ReadDeadline, Goto,
     StreamInv, StreamTypes
<1>3. \/ handler'[k] = handler[k]
      \/ handler[k] = "run" /\ handler'[k] \in {"ended", "failed"}
      \/ handler[k] = "waiting" /\ handler'[k] = "done"
      \/ handler[k] = "none" /\ handler'[k] = "metadata"
  BY DEF WSStreamHandler, WriteFails, RunEnds, ContextDone, RunFails, WaitReader, ReadFails, ReadDeadline, Goto, At,
     StreamInv, StreamTypes
<1>4. RoomOK(k)'
  BY <1>0, <1>1, <1>3, RoomStands DEF RoomInv
<1>5. QED
  BY <1>0, <1>1, <1>2, <1>4, RoomStep DEF RoomInv

\* The answer to the request is the first message.
LEMMA RoomAnswer ==
  ASSUME RoomInv, StreamInv, PageInv, NEW k \in Sockets, Refuse(k) \/ Upgrade(k)
  PROVE  RoomInv'
<1>1. PICK m \in {"101", "refused"} :
        /\ down' = [down EXCEPT ![k] = <<m>>] /\ handler'[k] \in {"run", "done"}
        /\ handler'[k] = "run" => m = "101"
  BY DEF Refuse, Upgrade, Goto, StreamInv, StreamTypes
<1>2. /\ UNCHANGED <<ws, faults, conn>> /\ \A j \in Sockets \ {k} : handler'[j] = handler[j]
      /\ handler[k] = "metadata"
  BY DEF Refuse, Upgrade, Goto, At, ServerSide, StreamInv, StreamTypes
<1>3. down'[k] = <<m>> /\ \A j \in Sockets \ {k} : down'[j] = down[j]
  BY <1>1 DEF StreamInv, StreamTypes
<1>4. Len(down'[k]) = 1 /\ \A i \in 1..Len(down'[k]) : down'[k][i] # "frame"
  BY <1>3
<1>5. ws[k].received = 0 /\ conn[k].sent = 0
  BY <1>2 DEF StreamInv, StreamOK, PendingQuiet, Pending
<1>6. Lead(k)' = IF m = "101" THEN 1 ELSE 0
  BY <1>3, <1>4 DEF Lead
<1>7. OpenYet(k)'
  BY <1>2 DEF RoomInv, RoomOK, OpenYet
<1>8. WithinWindow(k)'
  BY <1>4, FramesAssumption DEF WithinWindow
<1>9. Accounted(k)'
  BY <1>1, <1>2, <1>4, <1>5, <1>6, FramesAssumption DEF Accounted
<1>10. QED
  BY <1>2, <1>3, <1>7, <1>8, <1>9, RoomStep DEF RoomInv, RoomOK

\* A frame is written where the window has room for it.
LEMMA RoomWrite ==
  ASSUME RoomInv, StreamInv, PageInv, NEW k \in Sockets, WriteMessage(k)
  PROVE  RoomInv'
<1>1. PICK s \in Seq(Messages) : s = down[k]
  BY DEF StreamInv, StreamTypes
<1>2. PICK r \in Nat, c \in Nat, l \in {0, 1}, n \in Nat :
        r = ws[k].received /\ c = conn[k].sent /\ l = Lead(k) /\ n = Len(s)
  BY <1>1, RoomTypes DEF Conns
<1>3. /\ conn'[k].sent = c + 1 /\ conn'[k].closed = conn[k].closed /\ conn'[k].closeSent = conn[k].closeSent
      /\ \A j \in Sockets \ {k} : conn'[j] = conn[j] /\ down'[j] = down[j]
      /\ down'[k] = Append(s, "frame") /\ UNCHANGED <<ws, faults, handler>>
  <2>1. conn \in [Sockets -> Conns] /\ down \in [Sockets -> Seq(Messages)]
    BY DEF StreamInv, StreamTypes
  <2>2. conn' = [conn EXCEPT ![k].sent = conn[k].sent + 1] /\ down' = [down EXCEPT ![k] = Append(s, "frame")]
    BY <1>1 DEF WriteMessage
  <2>3. UNCHANGED <<ws, faults, handler>>
    BY DEF WriteMessage, ServerSide
  <2>4. QED
    BY <1>2, <2>1, <2>2, <2>3 DEF Conns
<1>4. /\ Len(down'[k]) = n + 1 /\ down'[k][n + 1] = "frame" /\ \A i \in 1..n : down'[k][i] = s[i]
  <2>1. "frame" \in Messages
    BY DEF Messages
  <2>2. /\ Len(Append(s, "frame")) = Len(s) + 1 /\ Append(s, "frame")[Len(s) + 1] = "frame"
        /\ \A i \in 1..Len(s) : Append(s, "frame")[i] = s[i]
    BY <2>1, AppendElements
  <2>3. QED
    BY <1>2, <1>3, <2>2
<1>5. handler[k] = "run" /\ ~conn[k].closeSent /\ c < Frames /\ n < Window
  BY <1>1, <1>2 DEF WriteMessage, At
<1>6. /\ r <= c /\ r + n <= c + l
      /\ \A i \in 1..n : s[i] = "frame" => r + i <= c + l
  BY <1>1, <1>2, <1>5 DEF RoomInv, RoomOK, Accounted
<1>7. Lead(k)' = l
  <2>1. CASE n = 0
    BY <1>1, <1>2, <1>4, <2>1 DEF Lead
  <2>2. CASE n # 0
    BY <1>1, <1>2, <1>4, <2>2 DEF Lead
  <2>3. QED
    BY <2>1, <2>2
<1>8. OpenYet(k)'
  BY <1>3 DEF RoomInv, RoomOK, OpenYet
<1>9. WithinWindow(k)'
  BY <1>4, <1>5, FramesAssumption DEF WithinWindow
<1>10. Accounted(k)'
  <2>1. c + 1 <= Frames /\ r <= c + 1 /\ r + (n + 1) <= (c + 1) + l
    BY <1>5, <1>6, FramesAssumption
  <2>2. \A i \in 1..(n + 1) : down'[k][i] = "frame" => r + i <= (c + 1) + l
    <3> TAKE i \in 1..(n + 1)
    <3>1. CASE i = n + 1
      BY <2>1, <3>1
    <3>2. CASE i # n + 1
      <4>1. i \in 1..n
        BY <3>2
      <4>2. down'[k][i] = "frame" => r + i <= c + l
        BY <1>4, <1>6, <4>1
      <4>3. QED
        BY <4>2
    <3>3. QED
      BY <3>1, <3>2
  <2>3. QED
    BY <1>2, <1>3, <1>4, <1>7, <2>1, <2>2 DEF Accounted
<1>11. QED
  BY <1>3, <1>8, <1>9, <1>10, RoomStep DEF RoomInv, RoomOK

\* The messages under way, and possibly one behind them.
LastMessages(k, msgs) ==
  \/ msgs = down[k]
  \/ Len(down[k]) < Window /\ msgs = Append(down[k], "end of stream")

\* conn.Close, after the last messages.
LEMMA RoomClose ==
  ASSUME RoomInv, StreamInv, PageInv, NEW k \in Sockets, NEW msgs \in Seq(Messages),
         CloseConn(k, msgs), UNCHANGED <<ws, faults>>, ~conn[k].closed,
         handler'[k] \in {"waiting", "done"},
         \A j \in Sockets \ {k} : handler'[j] = handler[j],
         LastMessages(k, msgs)
  PROVE  RoomInv'
<1>1. PICK s \in Seq(Messages) : s = down[k]
  BY DEF StreamInv, StreamTypes
<1>2. /\ conn'[k].closed /\ conn'[k].sent = conn[k].sent /\ conn'[k].closeSent = conn[k].closeSent
      /\ \A j \in Sockets \ {k} : conn'[j] = conn[j] /\ down'[j] = down[j]
  BY CloseConnEffect
<1>3. PICK a \in Nat, b \in Nat, w \in Nat : a = Len(s) /\ b = Len(msgs) /\ w = Window /\ a <= w
  BY <1>1, LenProperties, FramesAssumption DEF RoomInv, RoomOK, WithinWindow
<1>4. /\ b <= w
      /\ \A i \in 1..b : msgs[i] = "frame" => i \in 1..a /\ s[i] = "frame"
      /\ a >= 1 => msgs[1] = s[1]
  <2>1. CASE msgs = s
    BY <1>3, <2>1
  <2>2. b = a + 1 /\ a < w => b <= w /\ \A i \in 1..b : i \in 1..a \/ i = a + 1
    OBVIOUS
  <2>3. a >= 1 => 1 \in 1..a
    OBVIOUS
  <2>4. CASE Len(s) < Window /\ msgs = Append(s, "end of stream")
    <3>1. "end of stream" \in Messages
      BY DEF Messages
    <3>2. /\ Len(msgs) = Len(s) + 1 /\ msgs[Len(s) + 1] = "end of stream"
          /\ \A i \in 1..Len(s) : msgs[i] = s[i]
      BY <2>4, <3>1, AppendElements
    <3>3. /\ b = a + 1 /\ msgs[a + 1] = "end of stream" /\ a < w
          /\ \A i \in 1..a : msgs[i] = s[i]
      BY <1>3, <2>4, <3>2
    <3>4. b <= w /\ \A i \in 1..b : i \in 1..a \/ i = a + 1
      BY <2>2, <3>3
    <3>5. a >= 1 => msgs[1] = s[1]
      BY <2>3, <3>3
    <3>6. \A i \in 1..b : msgs[i] = "frame" => i \in 1..a /\ s[i] = "frame"
      BY <3>3, <3>4
    <3>7. QED
      BY <3>4, <3>5, <3>6
  <2>5. QED
    BY <1>1, <2>1, <2>4 DEF LastMessages
<1>5. PICK n \in Nat :
        n <= b /\ down'[k] = IF Deaf(k) THEN <<>> ELSE Append(SubSeq(msgs, 1, n), "fin")
  <2>1. PICK n \in IF up[k] = <<>> THEN {Len(msgs)} ELSE 0..Len(msgs) :
          down' = [down EXCEPT ![k] = IF Deaf(k) THEN <<>> ELSE Append(SubSeq(msgs, 1, n), "fin")]
    BY DEF CloseConn
  <2>2. n \in Nat /\ n <= b
    <3>1. n \in {b} \/ n \in 0..b
      BY <1>3
    <3>2. QED
      BY <3>1
  <2>3. QED
    BY <2>1, <2>2 DEF StreamInv, StreamTypes
<1>6. PICK d \in Nat :
        /\ d = Len(down'[k]) /\ d <= w + 1
        /\ \A i \in 1..d : down'[k][i] = "frame" => i \in 1..a /\ s[i] = "frame" /\ down'[k][1] = s[1]
  <2>1. CASE Deaf(k)
    <3>1. Len(down'[k]) = 0
      BY <1>5, <2>1
    <3>2. QED
      BY <3>1
  <2>2. CASE ~Deaf(k)
    <3>1. PICK r : r = Append(SubSeq(msgs, 1, n), "fin")
      OBVIOUS
    <3>2. n \in 0..Len(msgs)
      BY <1>3, <1>5
    <3>3. Len(r) = n + 1 /\ r[n + 1] = "fin" /\ \A i \in 1..n : r[i] = msgs[i]
      BY <3>1, <3>2, CutElements
    <3>4. ASSUME NEW i \in 1..(n + 1), r[i] = "frame"
          PROVE  i \in 1..a /\ s[i] = "frame" /\ r[1] = s[1]
      <4>1. i # n + 1
        BY <3>3, <3>4
      <4>2. i \in 1..n /\ i \in 1..b /\ 1 \in 1..n
        BY <1>5, <4>1
      <4>3. i \in 1..a /\ s[i] = "frame"
        BY <1>4, <3>3, <3>4, <4>2
      <4>4. a >= 1
        BY <4>3
      <4>5. QED
        BY <1>4, <3>3, <4>2, <4>3, <4>4
    <3>5. down'[k] = r
      BY <1>5, <2>2, <3>1
    <3>6. n + 1 \in Nat /\ n + 1 <= w + 1
      BY <1>4, <1>5
    <3>7. QED
      BY <3>3, <3>4, <3>5, <3>6
  <2>3. QED
    BY <2>1, <2>2
<1>7. OpenYet(k)' /\ WithinWindow(k)'
  <2>1. d <= w + 2
    BY <1>6
  <2>2. QED
    BY <1>2, <1>3, <1>6, <2>1 DEF OpenYet, WithinWindow
<1>8. Accounted(k)'
  <2>1. conn[k].sent <= Frames /\ ws[k].received <= conn[k].sent
    BY DEF RoomInv, RoomOK, Accounted
  <2>2. ASSUME NEW i \in 1..d, down'[k][i] = "frame"
        PROVE  ws[k].received + i <= conn[k].sent + Lead(k)'
    <3>1. i \in 1..a /\ s[i] = "frame" /\ down'[k][1] = s[1]
      BY <1>6, <2>2
    <3>2. a >= 1 /\ d >= 1
      BY <3>1
    <3>3. Lead(k)' = Lead(k)
      BY <1>1, <1>3, <1>6, <3>1, <3>2 DEF Lead
    <3>4. QED
      BY <1>1, <1>3, <3>1, <3>3 DEF RoomInv, RoomOK, Accounted
  <2>3. QED
    BY <1>2, <1>6, <2>1, <2>2 DEF Accounted
<1>9. QED
  BY <1>2, <1>7, <1>8, RoomStep DEF RoomInv, RoomOK

LEMMA RoomCloses ==
  ASSUME RoomInv, StreamInv, PageInv, NEW k \in Sockets, CloseNormally(k) \/ CloseFailed(k)
  PROVE  RoomInv'
<1>1. /\ UNCHANGED <<ws, faults>> /\ handler'[k] \in {"waiting", "done"}
      /\ \A j \in Sockets \ {k} : handler'[j] = handler[j]
  BY DEF CloseNormally, CloseFailed, Goto, ServerSide, StreamInv, StreamTypes
<1>2. ~conn[k].closed
  BY DEF CloseNormally, CloseFailed, At, RoomInv, RoomOK, OpenYet
<1>3. down[k] \in Seq(Messages) /\ Append(down[k], "end of stream") \in Seq(Messages)
  BY AppendElements DEF StreamInv, StreamTypes, Messages
<1>4. CASE CloseConn(k, down[k])
  BY <1>1, <1>2, <1>3, <1>4, RoomClose DEF LastMessages
<1>5. CASE ~Full(k) /\ CloseConn(k, Append(down[k], "end of stream"))
  <2>1. Len(down[k]) < Window
    <3>1. PICK a \in Nat, w \in Nat : a = Len(down[k]) /\ w = Window
      BY <1>3, LenProperties, FramesAssumption
    <3>2. ~(a >= w)
      BY <1>5, <3>1 DEF Full
    <3>3. a < w
      BY <3>2
    <3>4. QED
      BY <3>1, <3>3
  <2>2. QED
    BY <1>1, <1>2, <1>3, <1>5, <2>1, RoomClose DEF LastMessages
<1>6. QED
  BY <1>4, <1>5 DEF CloseNormally, CloseFailed

\* The reader answers a close message where the window has room for it.
LEMMA RoomReadClose ==
  ASSUME RoomInv, StreamInv, PageInv, NEW k \in Sockets, ReadClose(k)
  PROVE  RoomInv'
<1>1. UNCHANGED <<ws, faults, handler>>
  BY DEF ReadClose, ServerSide
<1>2. CASE UNCHANGED <<conn, down>>
  BY <1>1, <1>2, RoomStands, RoomStep DEF RoomInv
<1>3. CASE /\ ~Full(k) /\ conn' = [conn EXCEPT ![k].closeSent = TRUE]
           /\ down' = [down EXCEPT ![k] = Append(down[k], "echo")]
  <2>1. PICK s \in Seq(Messages) : s = down[k]
    BY DEF StreamInv, StreamTypes
  <2>2. /\ conn'[k].sent = conn[k].sent /\ conn'[k].closed = conn[k].closed /\ conn'[k].closeSent
        /\ \A j \in Sockets \ {k} : conn'[j] = conn[j] /\ down'[j] = down[j]
        /\ down'[k] = Append(s, "echo")
    <3>1. conn \in [Sockets -> Conns] /\ down \in [Sockets -> Seq(Messages)]
      BY DEF StreamInv, StreamTypes
    <3>2. QED
      BY <1>3, <2>1, <3>1 DEF Conns
  <2>3. Len(s) \in Nat /\ Len(s) < Window
    BY <1>3, <2>1, LenProperties, FramesAssumption DEF Full
  <2>4. /\ Len(down'[k]) = Len(s) + 1 /\ down'[k][Len(s) + 1] = "echo"
        /\ \A i \in 1..Len(s) : down'[k][i] = s[i]
    <3>1. "echo" \in Messages
      BY DEF Messages
    <3>2. QED
      BY <2>2, <3>1, AppendElements
  <2>5. OpenYet(k)' /\ WithinWindow(k)'
    BY <1>1, <2>2, <2>3, <2>4, FramesAssumption DEF RoomInv, RoomOK, OpenYet, WithinWindow
  <2>6. ASSUME NEW i \in 1..Len(down'[k]), down'[k][i] = "frame"
        PROVE  ws[k].received + i <= conn[k].sent + Lead(k)'
    <3>1. i \in 1..Len(s) /\ s[i] = "frame"
      BY <2>3, <2>4, <2>6
    <3>2. Len(s) >= 1 /\ down'[k][1] = s[1] /\ Len(down'[k]) >= 1
      BY <2>3, <2>4, <3>1
    <3>3. Lead(k)' = Lead(k)
      BY <2>1, <3>2 DEF Lead
    <3>4. QED
      BY <2>1, <3>1, <3>3 DEF RoomInv, RoomOK, Accounted
  <2>7. Accounted(k)'
    BY <1>1, <2>2, <2>6 DEF RoomInv, RoomOK, Accounted
  <2>8. QED
    BY <1>1, <2>2, <2>5, <2>7, RoomStep DEF RoomInv, RoomOK
<1>4. QED
  BY <1>2, <1>3 DEF ReadClose

\* The browser takes the oldest message, and counts it when it is a frame.
LEMMA RoomTaken ==
  ASSUME RoomInv, StreamInv, PageInv, NEW k \in Sockets, NEW kinds, Taken(k, kinds),
         UNCHANGED <<handler, conn, faults>>,
         \A j \in Sockets \ {k} : ws'[j].received = ws[j].received,
         \/ ws'[k].received = ws[k].received
         \/ down[k][1] = "frame" /\ ws'[k].received = ws[k].received + 1
  PROVE  RoomInv'
<1>1. PICK r \in Nat, c \in Nat, l \in {0, 1}, n \in Nat, w \in Nat :
        /\ r = ws[k].received /\ c = conn[k].sent /\ l = Lead(k) /\ n = Len(down[k]) /\ w = Window
        /\ n >= 1
  BY RoomTypes, FramesAssumption DEF Conns, Taken
<1>2. PICK t \in Nat : t = ws'[k].received /\ (t = r \/ (down[k][1] = "frame" /\ t = r + 1))
  BY <1>1
<1>3. PICK m \in Nat : n = m + 1 /\ m = Len(down'[k]) /\ \A i \in 1..m : i + 1 \in 1..n /\ down'[k][i] = down[k][i + 1]
  BY <1>1 DEF Taken
<1>4. /\ c <= Frames /\ r <= c
      /\ handler[k] = "run" /\ ~conn[k].closeSent => r + n <= c + l
      /\ \A i \in 1..n : down[k][i] = "frame" => r + i <= c + l
  BY <1>1 DEF RoomInv, RoomOK, Accounted
<1>5. down[k][1] = "frame" => l = 0 /\ r + 1 <= c
  <2>1. down[k][1] = "frame" => l = 0
    BY <1>1 DEF Lead
  <2>2. 1 \in 1..n
    BY <1>1
  <2>3. down[k][1] = "frame" => r + 1 <= c + l
    BY <1>4, <2>2
  <2>4. QED
    BY <2>1, <2>3
<1>6. PICK v \in {0, 1} : v = Lead(k)'
  BY DEF Lead
<1>7. t <= c
  BY <1>2, <1>4, <1>5
<1>8. handler[k] = "run" /\ ~conn[k].closeSent => t + m <= c + v
  <2> SUFFICES ASSUME r + n <= c + l
               PROVE  t + m <= c + v
    BY <1>4
  <2>1. QED
    BY <1>2, <1>3, <1>5
<1>9. ASSUME NEW i \in 1..m, down'[k][i] = "frame"
      PROVE  t + i <= c + v
  <2>1. r + (i + 1) <= c + l
    BY <1>3, <1>4, <1>9
  <2>2. QED
    BY <1>2, <1>5, <2>1
<1>10. OpenYet(k)'
  BY DEF RoomInv, RoomOK, OpenYet
<1>11. WithinWindow(k)'
  <2>1. n <= w + 2 /\ (~conn[k].closed => n <= w)
    BY <1>1 DEF RoomInv, RoomOK, WithinWindow
  <2>2. m <= w + 2 /\ (~conn[k].closed => m <= w)
    BY <1>3, <2>1
  <2>3. QED
    BY <1>1, <1>3, <2>2 DEF WithinWindow
<1>12. Accounted(k)'
  BY <1>1, <1>2, <1>3, <1>4, <1>6, <1>7, <1>8, <1>9 DEF Accounted
<1>13. QED
  BY <1>10, <1>11, <1>12, RoomStep DEF RoomInv, RoomOK, Taken

\* An event at socket k, or the end of its machine.
LEMMA RoomEvent ==
  ASSUME RoomInv, StreamInv, PageInv, NEW k \in Sockets, Browser(k) \/ Vanish(k)
  PROVE  RoomInv'
<1>1. CASE OnOpen(k)
  <2>1. \A j \in Sockets : ws'[j].received = ws[j].received
    BY <1>1 DEF OnOpen, PageInv, PageTypes
  <2>2. Taken(k, {"101"}) /\ UNCHANGED <<handler, conn, faults>>
    BY <1>1, PopEffect DEF OnOpen
  <2>3. QED
    BY <2>1, <2>2, RoomTaken
<1>2. CASE OnMessage(k)
  <2>1. Taken(k, {"frame"}) /\ UNCHANGED <<handler, conn, faults>>
    BY <1>2, PopEffect DEF OnMessage
  <2>2. ws' = ws \/ ws' = [ws EXCEPT ![k].received = ws[k].received + 1]
    BY <1>2 DEF OnMessage
  <2>3. /\ \A j \in Sockets \ {k} : ws'[j] = ws[j]
        /\ ws'[k].received = ws[k].received \/ ws'[k].received = ws[k].received + 1
    BY <2>2 DEF PageInv, PageTypes
  <2>4. down[k][1] = "frame"
    BY <2>1 DEF Taken
  <2>5. QED
    BY <2>1, <2>3, <2>4, RoomTaken
<1>3. CASE CloseArrives(k)
  <2>1. \A j \in Sockets : ws'[j].received = ws[j].received
    BY <1>3 DEF CloseArrives, PageInv, PageTypes
  <2>2. Taken(k, {"end of stream", "echo"}) /\ UNCHANGED <<handler, conn, faults>>
    BY <1>3, PopEffect DEF CloseArrives
  <2>3. QED
    BY <2>1, <2>2, RoomTaken
<1>4. CASE ConnectionEnds(k)
  <2>1. \A j \in Sockets : ws'[j].received = ws[j].received
    BY <1>4, OnCloseEffect DEF ConnectionEnds
  <2>2. Taken(k, {"fin", "refused"}) /\ UNCHANGED <<handler, conn, faults>>
    BY <1>4, PopEffect DEF ConnectionEnds
  <2>3. QED
    BY <2>1, <2>2, RoomTaken
<1>5. CASE BrowserGivesUp(k)
  <2>1. \A j \in Sockets : ws'[j].received = ws[j].received
    BY <1>5, OnCloseEffect DEF BrowserGivesUp
  <2>2. /\ UNCHANGED <<handler, conn, faults>> /\ \A j \in Sockets \ {k} : down'[j] = down[j]
        /\ down'[k] = <<>>
    BY <1>5 DEF BrowserGivesUp, StreamInv, StreamTypes
  <2>3. Len(down'[k]) = 0 /\ Lead(k)' = 0
    BY <2>2 DEF Lead
  <2>4. OpenYet(k)' /\ WithinWindow(k)'
    BY <2>2, <2>3, FramesAssumption DEF RoomInv, RoomOK, OpenYet, WithinWindow
  <2>5. Accounted(k)'
    <3>1. PICK r \in Nat, c \in Nat : r = ws[k].received /\ c = conn[k].sent
      BY RoomTypes DEF Conns
    <3>2. c <= Frames /\ r <= c /\ r + 0 <= c + 0
      BY <3>1 DEF RoomInv, RoomOK, Accounted
    <3>3. QED
      BY <2>1, <2>2, <2>3, <3>1, <3>2 DEF Accounted
  <2>6. QED
    BY <2>1, <2>2, <2>4, <2>5, RoomStep DEF RoomInv, RoomOK
<1>6. CASE Vanish(k)
  <2>1. \A j \in Sockets : ws'[j].received = ws[j].received
    BY <1>6 DEF Vanish, PageInv, PageTypes
  <2>2. UNCHANGED <<handler, conn, down>> /\ faults' \in 0..MaxFaults
    BY <1>6, SocketsAssumption DEF Vanish, RoomInv
  <2>3. QED
    BY <2>1, <2>2, RoomStands DEF RoomInv
<1>7. QED
  BY <1>1, <1>2, <1>3, <1>4, <1>5, <1>6 DEF Browser

\* The buttons end and open sockets; nothing is sent or received yet.
LEMMA RoomButtons ==
  ASSUME RoomInv, StreamInv, PageInv, StartWebSocket \/ StopStreaming
  PROVE  RoomInv'
<1>1. UNCHANGED <<handler, conn, down, faults>>
  BY DEF StartWebSocket, StopStreaming
<1>2. \A j \in Sockets : After[j].received = ws[j].received
  BY AfterEffect
<1>3. ws' = After \/ \E k : ws' = [After EXCEPT ![k].state = "connecting"]
  BY DEF StartWebSocket, StopStreaming, CleanupWs, After
<1>4. After \in [Sockets -> [state : States, code : Codes, received : Nat]]
  BY NoneLiveAfter
<1>5. \A j \in Sockets : ws'[j].received = ws[j].received
  BY <1>2, <1>3, <1>4
<1>6. QED
  BY <1>1, <1>5, RoomStands DEF RoomInv

LEMMA RoomInit == Init => RoomInv
<1> SUFFICES ASSUME Init
             PROVE  RoomInv
  OBVIOUS
<1>1. faults \in 0..MaxFaults
  BY SocketsAssumption DEF Init
<1>2. ASSUME NEW k \in Sockets
      PROVE  RoomOK(k)
  <2>1. Len(down[k]) = 0 /\ Lead(k) = 0 /\ handler[k] = "none" /\ ws[k].received = 0
        /\ conn[k].sent = 0 /\ ~conn[k].closed
    BY DEF Init, NewWs, NewConn, Lead
  <2>2. QED
    BY <2>1, FramesAssumption DEF RoomOK, OpenYet, WithinWindow, Accounted
<1>3. QED
  BY <1>1, <1>2 DEF RoomInv

LEMMA RoomNext == PageInv /\ StreamInv /\ RoomInv /\ [Next]_vars => RoomInv'
<1>1. ASSUME PageInv, StreamInv, RoomInv, NEW k \in Sockets,
             Handle(k) \/ EndsShort(k) \/ ContextDone(k) \/ Read(k) \/ ReadDeadline(k)
      PROVE  RoomInv'
  BY <1>1, RoomHandler, RoomAnswer, RoomWrite, RoomCloses, RoomReadClose DEF Handle, EndOfData, EndsShort, Read
<1>2. ASSUME RoomInv, UNCHANGED vars
      PROVE  RoomInv'
  BY <1>2, RoomStands DEF RoomInv, vars
<1>3. QED
  BY <1>1, <1>2, RoomEvent, RoomButtons DEF Next

LEMMA RoomInvariant == Spec => []RoomInv
  BY RoomInit, RoomNext, PageInvariant, StreamInvariant, PTL DEF Spec

\* Types; no browser receives a frame that was not written, and a connection holds
\* no more than its window, the message of the close and the end.
THEOREM TypeCorrect == Spec => []TypeOK
<1>1. PageInv /\ StreamInv /\ RoomInv => TypeOK
  <2> SUFFICES ASSUME PageInv, StreamInv, RoomInv
               PROVE  TypeOK
    OBVIOUS
  <2>1. /\ {wsConnection, wanted} \subseteq Sockets \cup {NoSocket}
        /\ attached \subseteq Sockets /\ opened \in 0..MaxSockets /\ faults \in 0..MaxFaults
    BY DEF PageInv, PageTypes, CurrentOnly, RoomInv
  <2>2. ASSUME NEW k \in Sockets
        PROVE  /\ ws[k].state \in {"none", "connecting", "open", "closing", "closed", "gone"}
               /\ ws[k].received <= conn[k].sent /\ conn[k].sent \in 0..Frames
               /\ handler[k] \in {"none", "metadata", "run", "ended", "failed", "waiting", "done"}
               /\ reader[k] \in {"none", "reading", "done"}
               /\ Len(down[k]) <= Window + 2
    <3>1. conn[k].sent \in 0..Frames
      <4>1. conn[k].sent \in Nat /\ conn[k].sent <= Frames
        BY RoomTypes DEF Conns, RoomInv, RoomOK, Accounted
      <4>2. QED
        BY <4>1, FramesAssumption
    <3>2. ws[k].received <= conn[k].sent /\ Len(down[k]) <= Window + 2
      BY DEF RoomInv, RoomOK, Accounted, WithinWindow
    <3>3. ws[k].state \in States
      BY RoomTypes
    <3>4. QED
      BY <3>1, <3>2, <3>3 DEF States, StreamInv, StreamTypes
  <2>3. QED
    BY <2>1, <2>2 DEF TypeOK
<1>2. QED
  BY <1>1, PageInvariant, StreamInvariant, RoomInvariant, PTL

=============================================================================
