---------------------------- MODULE WsConnection ----------------------------
(***************************************************************************)
(* The WebSocket of a played stream, from the page's player                *)
(* (src/frontend/public/app.js) over the network to the handler and its    *)
(* reader pump (backend/internal/service/ws_handler.go).                   *)
(*                                                                         *)
(* Every socket the page opens has a handler goroutine and, after the      *)
(* upgrade, a reader goroutine at the server.  The two directions of the   *)
(* connection are FIFO; what the server has written and the browser not    *)
(* read is bounded, so that a client that stops reading blocks a write.    *)
(*                                                                         *)
(* Abstracted: a session writes its frames one after the other and may     *)
(* skip (module StreamPlayback says when); time is what a deadline that    *)
(* may expire allows; an image is drawn when it is received.               *)
(***************************************************************************)
EXTENDS Integers, FiniteSets, SequencesExt

CONSTANTS
  MaxSockets,  \* bound on sockets the page opens
  Frames,      \* frames of the stream
  Window,      \* messages the connection buffers
  MaxFaults,   \* bound on clients that vanish or lose their connection
  NoSocket

ASSUME SocketsAssumption == MaxSockets \in Nat \ {0} /\ MaxFaults \in Nat
ASSUME FramesAssumption  == Frames \in Nat \ {0} /\ Window \in Nat \ {0}
ASSUME NoSocketAssumption == NoSocket \notin Nat

VARIABLES
  wsConnection,  \* the page's current socket, or NoSocket
  wanted,        \* the socket of the last start that no stop followed
  attached,      \* sockets whose event handlers are set
  opened,        \* sockets opened so far
  ws,            \* ws[k]: the browser's side
  handler,       \* handler[k]: where the handler goroutine is
  reader,        \* reader[k]: where readerPump is
  conn,          \* conn[k]: the server's side of the connection
  down, up,      \* messages under way from and to the server
  faults

page == <<wsConnection, wanted, attached, opened>>
vars == <<page, ws, handler, reader, conn, down, up, faults>>

Sockets == 1..MaxSockets

\* readyState and close code, and the frames received.
NewWs == [state |-> "none", code |-> "none", received |-> 0]

\* Frames written; Run returned an error; a close message was written; Close was
\* called.
NewConn == [sent |-> 0, err |-> FALSE, closeSent |-> FALSE, closed |-> FALSE]

Init ==
  /\ wsConnection = NoSocket /\ wanted = NoSocket
  /\ attached = {} /\ opened = 0
  /\ ws = [k \in Sockets |-> NewWs]
  /\ handler = [k \in Sockets |-> "none"]
  /\ reader = [k \in Sockets |-> "none"]
  /\ conn = [k \in Sockets |-> NewConn]
  /\ down = [k \in Sockets |-> <<>>] /\ up = [k \in Sockets |-> <<>>]
  /\ faults = 0

Live(k) == ws[k].state \in {"connecting", "open"}

\* The browser does not read any more.
Deaf(k) == ws[k].state \in {"closed", "gone"}

\* A message on its way up; nobody receives it after the server closed.
Put(k, m, msgs) == IF conn[k].closed THEN msgs ELSE [msgs EXCEPT ![k] = Append(@, m)]

\* The browser ended the connection.
Broken(k) == "fin" \in ToSet(up[k])

-----------------------------------------------------------------------------
(***************************************************************************)
(* The page                                                                *)
(***************************************************************************)
\* Mutant of CloseIfLive: a socket that is still connecting is left alone.
CloseIfOpen(k, socks) ==
  IF socks[k].state = "open" THEN [socks EXCEPT ![k].state = "closing"] ELSE socks

\* close(), of a socket that is open or connecting.
CloseIfLive(k, socks) ==
  IF socks[k].state \in {"connecting", "open"} THEN [socks EXCEPT ![k].state = "closing"] ELSE socks

\* What close() adds to the messages msgs on their way up: a close message, or
\* the end of a connection whose handshake is not over.
CloseMessages(k, socks, msgs) ==
  CASE socks[k].state = "open"       -> Put(k, "close", msgs)
    [] socks[k].state = "connecting" -> Put(k, "fin", msgs)
    [] OTHER                         -> msgs

\* Mutant of Detach: close() is called first and the handlers stay.
DetachNothing(k) == attached

\* The handlers of the socket are set to null.
Detach(k) == attached \ {k}

\* cleanupWs, when socks are the browser's sockets and msgs the messages under way.
CleanupWs(socks, msgs) ==
  /\ wsConnection' = NoSocket
  /\ IF wsConnection = NoSocket
     THEN ws' = socks /\ up' = msgs /\ UNCHANGED attached
     ELSE /\ attached' = Detach(wsConnection)
          /\ ws' = CloseIfLive(wsConnection, socks)
          /\ up' = CloseMessages(wsConnection, socks, msgs)

StartWebSocket ==
  LET k == opened + 1
      c == wsConnection
  IN  /\ opened < MaxSockets
      /\ opened' = k /\ wanted' = k /\ wsConnection' = k
      /\ attached' = {k} \cup (IF c = NoSocket THEN attached ELSE Detach(c))
      /\ ws' = [(IF c = NoSocket THEN ws ELSE CloseIfLive(c, ws)) EXCEPT ![k].state = "connecting"]
      /\ up' = [(IF c = NoSocket THEN up ELSE CloseMessages(c, ws, up)) EXCEPT ![k] = <<"get">>]
      /\ UNCHANGED <<handler, reader, conn, down, faults>>

StopStreaming ==
  /\ wanted # NoSocket
  /\ CleanupWs(ws, up)
  /\ wanted' = NoSocket
  /\ UNCHANGED <<opened, handler, reader, conn, down, faults>>

\* Socket k is closed; its onclose calls cleanupWs.
OnClose(k, msgs) ==
  LET socks == [ws EXCEPT ![k].state = "closed"] IN
  IF k \in attached THEN CleanupWs(socks, msgs)
                    ELSE ws' = socks /\ up' = msgs /\ UNCHANGED <<wsConnection, attached>>

Pop(k) == down' = [down EXCEPT ![k] = Tail(@)]

Incoming(k, kinds) == ~Deaf(k) /\ down[k] # <<>> /\ Head(down[k]) \in kinds

\* The handshake succeeds; nothing happens when the socket was closed meanwhile.
OnOpen(k) ==
  /\ Incoming(k, {"101"})
  /\ ws' = IF ws[k].state = "connecting" THEN [ws EXCEPT ![k].state = "open"] ELSE ws
  /\ Pop(k)
  /\ UNCHANGED <<page, handler, reader, conn, up, faults>>

\* A closing socket delivers no messages.
OnMessage(k) ==
  /\ Incoming(k, {"frame"})
  /\ ws' = IF ws[k].state = "open" /\ k \in attached
           THEN [ws EXCEPT ![k].received = @ + 1] ELSE ws
  /\ Pop(k)
  /\ UNCHANGED <<page, handler, reader, conn, up, faults>>

\* A close message: the browser answers it unless it sent one.
CloseArrives(k) ==
  /\ Incoming(k, {"end of stream", "echo"})
  /\ ws' = [ws EXCEPT ![k].state = "closing", ![k].code = Head(down[k])]
  /\ up' = IF ws[k].state = "open" THEN Put(k, "close", up) ELSE up
  /\ Pop(k)
  /\ UNCHANGED <<page, handler, reader, conn, faults>>

\* The connection ends, or the handshake was refused.
ConnectionEnds(k) ==
  /\ Incoming(k, {"fin", "refused"})
  /\ OnClose(k, up)
  /\ Pop(k)
  /\ UNCHANGED <<wanted, opened, handler, reader, conn, faults>>

\* A closing socket is not kept for ever: the browser ends the connection.
BrowserGivesUp(k) ==
  /\ ws[k].state = "closing"
  /\ OnClose(k, IF Broken(k) THEN up ELSE Put(k, "fin", up))
  /\ down' = [down EXCEPT ![k] = <<>>]
  /\ UNCHANGED <<wanted, opened, handler, reader, conn, faults>>

\* The client's machine disappears without a word.
Vanish(k) ==
  /\ Live(k) /\ faults < MaxFaults
  /\ faults' = faults + 1
  /\ ws' = [ws EXCEPT ![k].state = "gone"]
  /\ UNCHANGED <<page, handler, reader, conn, down, up>>

-----------------------------------------------------------------------------
(***************************************************************************)
(* The handler                                                             *)
(***************************************************************************)
At(k, l) == handler[k] = l

Goto(k, l) == handler' = [handler EXCEPT ![k] = l]

\* Nothing of the page or the browser changes.
ServerSide == UNCHANGED <<page, ws, faults>>

\* Mutant of Full: the write has no deadline, it waits.
FullNever(k) == FALSE

\* The connection takes no more; a write then waits for its deadline.
Full(k) == Len(down[k]) >= Window

WSStreamHandler(k) ==
  /\ At(k, "none") /\ up[k] # <<>> /\ Head(up[k]) = "get"
  /\ Goto(k, "metadata")
  /\ up' = [up EXCEPT ![k] = Tail(@)]
  /\ ServerSide /\ UNCHANGED <<reader, conn, down>>

\* A bad id, no metadata, or no frames: 400, 404 or 204 before the upgrade.
Refuse(k) ==
  /\ At(k, "metadata")
  /\ Goto(k, "done")
  /\ down' = [down EXCEPT ![k] = <<"refused">>]
  /\ ServerSide /\ UNCHANGED <<reader, conn, up>>

\* The upgrade hijacks the connection; the reader starts.
Upgrade(k) ==
  /\ At(k, "metadata")
  /\ Goto(k, "run")
  /\ reader' = [reader EXCEPT ![k] = "reading"]
  /\ down' = [down EXCEPT ![k] = <<"101">>]
  /\ ServerSide /\ UNCHANGED <<conn, up>>

\* Mutant of WriteMessage: the end of the data is met one frame too late.
WriteMessagePast(k) ==
  /\ At(k, "run") /\ conn[k].sent <= Frames
  /\ ~conn[k].closeSent /\ Len(down[k]) < Window
  /\ down' = [down EXCEPT ![k] = Append(@, "frame")]
  /\ conn' = [conn EXCEPT ![k].sent = @ + 1]
  /\ ServerSide /\ UNCHANGED <<handler, reader, up>>

\* Run writes the next frame; the kernel may take it although the client is gone.
WriteMessage(k) ==
  /\ At(k, "run") /\ conn[k].sent < Frames
  /\ ~conn[k].closeSent /\ Len(down[k]) < Window
  /\ down' = [down EXCEPT ![k] = Append(@, "frame")]
  /\ conn' = [conn EXCEPT ![k].sent = @ + 1]
  /\ ServerSide /\ UNCHANGED <<handler, reader, up>>

\* Run returns an error.
RunFails(k) ==
  /\ Goto(k, "failed")
  /\ conn' = [conn EXCEPT ![k].err = TRUE]
  /\ ServerSide /\ UNCHANGED <<reader, down, up>>

\* The error of a write: a close message was answered, the client
\* is gone, or the write took two seconds.
WriteFails(k) ==
  /\ At(k, "run") /\ conn[k].sent < Frames
  /\ conn[k].closeSent \/ Broken(k) \/ Full(k)
  /\ RunFails(k)

\* The request timeout of the server covers the whole session: when Run sleeps
\* to the next slot after it has struck, it ends with the context's error.
ContextDone(k) ==
  /\ At(k, "run")
  /\ RunFails(k)

\* Run returns nil.
RunEnds(k) ==
  /\ At(k, "run")
  /\ Goto(k, "ended")
  /\ ServerSide /\ UNCHANGED <<reader, conn, down, up>>

\* The last frame was written.
EndOfData(k) == conn[k].sent = Frames /\ RunEnds(k)

\* Run also returns nil with fewer frames written: it skipped the last ones to
\* catch up, or met emptyChunkGuard chunks without a frame of its own.
EndsShort(k) == conn[k].sent < Frames /\ RunEnds(k)

\* conn.Close, after the messages msgs.  Data that nobody read turns the end of
\* the connection into a reset, and what the client has not received is lost.
CloseConn(k, msgs) ==
  /\ conn' = [conn EXCEPT ![k].closed = TRUE]
  /\ up' = [up EXCEPT ![k] = <<>>]
  /\ \E n \in IF up[k] = <<>> THEN {Len(msgs)} ELSE 0..Len(msgs) :
       down' = [down EXCEPT ![k] = IF Deaf(k) THEN <<>> ELSE Append(SubSeq(msgs, 1, n), "fin")]

\* Mutant of CloseNormally: the error of Run is not looked at.
CloseNormallyAlways(k) ==
  /\ At(k, "ended") \/ At(k, "failed")
  /\ \/ CloseConn(k, down[k])
     \/ ~conn[k].closeSent /\ ~Full(k) /\ CloseConn(k, Append(down[k], "end of stream"))
  /\ Goto(k, "done")
  /\ ServerSide /\ UNCHANGED reader

\* WriteControl fails when a close message was sent or the connection takes no
\* more; its error is ignored.
CloseNormally(k) ==
  /\ At(k, "ended")
  /\ \/ CloseConn(k, down[k])
     \/ ~conn[k].closeSent /\ ~Full(k) /\ CloseConn(k, Append(down[k], "end of stream"))
  /\ Goto(k, "done")
  /\ ServerSide /\ UNCHANGED reader

\* Mutant of CloseFailed: the close is left to the client.
CloseFailedNot(k) ==
  /\ At(k, "failed")
  /\ Goto(k, "waiting")
  /\ ServerSide /\ UNCHANGED <<reader, conn, down, up>>

CloseFailed(k) ==
  /\ At(k, "failed")
  /\ CloseConn(k, down[k])
  /\ Goto(k, "waiting")
  /\ ServerSide /\ UNCHANGED reader

\* The handler waits for the reader, at most 100 ms.
WaitReader(k) ==
  /\ At(k, "waiting")
  /\ Goto(k, "done")
  /\ ServerSide /\ UNCHANGED <<reader, conn, down, up>>

-----------------------------------------------------------------------------
(***************************************************************************)
(* readerPump                                                              *)
(***************************************************************************)
EndReader(k) == reader' = [reader EXCEPT ![k] = "done"]

\* ReadMessage meets the client's close message.  The library answers it, when
\* nothing is in the way, and no frame can be written any more.
ReadClose(k) ==
  /\ reader[k] = "reading" /\ up[k] # <<>> /\ Head(up[k]) = "close" /\ ~conn[k].closed
  /\ EndReader(k)
  /\ up' = [up EXCEPT ![k] = Tail(@)]
  /\ IF conn[k].closeSent \/ Full(k)
     THEN UNCHANGED <<conn, down>>
     ELSE /\ conn' = [conn EXCEPT ![k].closeSent = TRUE]
          /\ down' = [down EXCEPT ![k] = Append(@, "echo")]
  /\ ServerSide /\ UNCHANGED handler

\* ReadMessage fails: the connection ended at one of the two sides.
ReadFails(k) ==
  /\ reader[k] = "reading"
  /\ conn[k].closed \/ (up[k] # <<>> /\ Head(up[k]) = "fin")
  /\ EndReader(k)
  /\ ServerSide /\ UNCHANGED <<handler, conn, down, up>>

\* The read deadline, which no pong ever extends.
ReadDeadline(k) ==
  /\ reader[k] = "reading"
  /\ EndReader(k)
  /\ ServerSide /\ UNCHANGED <<handler, conn, down, up>>

-----------------------------------------------------------------------------
Browser(k) == OnOpen(k) \/ OnMessage(k) \/ CloseArrives(k) \/ ConnectionEnds(k) \/ BrowserGivesUp(k)

Handle(k) ==
  \/ WSStreamHandler(k) \/ Refuse(k) \/ Upgrade(k)
  \/ WriteMessage(k) \/ WriteFails(k) \/ EndOfData(k)
  \/ CloseNormally(k) \/ CloseFailed(k) \/ WaitReader(k)

Read(k) == ReadClose(k) \/ ReadFails(k)

Next ==
  \/ StartWebSocket \/ StopStreaming
  \/ \E k \in Sockets :
       \/ Browser(k) \/ Vanish(k)
       \/ Handle(k) \/ EndsShort(k) \/ ContextDone(k)
       \/ Read(k) \/ ReadDeadline(k)

Spec == Init /\ [][Next]_vars

\* Goroutines run and the browser handles what arrives; a write that waits meets
\* its deadline.  Nobody has to press a button, no timeout has to strike, and no
\* session has to skip frames or to miss them.
FairSpec == Spec /\ \A k \in Sockets : WF_vars(Handle(k)) /\ WF_vars(Read(k)) /\ WF_vars(Browser(k))

-----------------------------------------------------------------------------
(***************************************************************************)
(* Properties                                                              *)
(***************************************************************************)
\* Types.
TypeOK ==
  /\ {wsConnection, wanted} \subseteq Sockets \cup {NoSocket}
  /\ attached \subseteq Sockets /\ opened \in 0..MaxSockets /\ faults \in 0..MaxFaults
  /\ \A k \in Sockets :
       /\ ws[k].state \in {"none", "connecting", "open", "closing", "closed", "gone"}
       /\ ws[k].received <= conn[k].sent /\ conn[k].sent \in 0..Frames
       /\ handler[k] \in {"none", "metadata", "run", "ended", "failed", "waiting", "done"}
       /\ reader[k] \in {"none", "reading", "done"}
       /\ Len(down[k]) <= Window + 2

\* The page plays one stream at a time: however often it starts and stops, at
\* most one socket is connecting or open.
OneLive == \A j, k \in Sockets : Live(j) /\ Live(k) => j = k

\* A stream that was started and not stopped stays the page's current one until
\* its own connection has ended: no late event of an earlier socket drops it.
WantedKept == wanted # NoSocket => wsConnection = wanted \/ ws[wanted].state = "closed"

\* A stream that was cut is never announced as one that is over: a browser that
\* is told "end of stream" was played to by a session that returned no error,
\* and the page's current socket has received every frame the session wrote, also
\* those behind which the close message was queued.
NormalMeansEnd ==
  \A k \in Sockets : ws[k].code = "end of stream" =>
    /\ At(k, "done") /\ ~conn[k].err
    /\ k \in attached => ws[k].received = conn[k].sent

\* Whatever the client does, also when it stops reading or vanishes, the
\* handler of its stream ends and leaves no reader goroutine behind.
GoroutinesEnd == \A k \in Sockets : At(k, "run") ~> At(k, "done") /\ reader[k] = "done"

\* What the comment above Run says: a session ends at the end of the data, by
\* an error, or when the connection breaks; a healthy one is not cut.  Violated.
HealthyNotCut ==
  [][\A k \in Sockets : At(k, "run") /\ handler'[k] = "failed" =>
       conn[k].closeSent \/ Broken(k) \/ Full(k)]_vars

=============================================================================
