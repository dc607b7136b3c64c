-------------------------- MODULE WsConnectionProofs --------------------------
(***************************************************************************)
(* Proofs about WsConnection, for any numbers of sockets, frames, buffered *)
(* messages and faults.                                                    *)
(***************************************************************************)
EXTENDS WsConnection, SequenceTheorems, TLAPS

-----------------------------------------------------------------------------
(***************************************************************************)
(* The page: which socket is the current one                               *)
(***************************************************************************)
States == {"none", "connecting", "open", "closing", "closed", "gone"}

Codes == {"none", "end of stream", "echo"}

PageTypes ==
  /\ wsConnection \in Sockets \cup {NoSocket} /\ wanted \in Sockets \cup {NoSocket}
  /\ opened \in 0..MaxSockets
  /\ ws \in [Sockets -> [state : States, code : Codes, received : Nat]]

\* The event handlers are those of the current socket, and no other is live.
CurrentOnly ==
  /\ attached = IF wsConnection = NoSocket THEN {} ELSE {wsConnection}
  /\ \A k \in Sockets : Live(k) => k = wsConnection

PageInv == PageTypes /\ CurrentOnly /\ WantedKept

LEMMA PageInit == Init => PageInv
  BY SocketsAssumption DEF Init, NewWs, PageInv, PageTypes, States, Codes, CurrentOnly, WantedKept, Live, Sockets

\* A socket of the page is not the absent one.
LEMMA SocketExists == \A k \in Sockets : k # NoSocket
  BY SocketsAssumption, NoSocketAssumption DEF Sockets

\* close() keeps the types, ends a live socket and leaves every other alone.
LEMMA CloseIfLiveEffect ==
  ASSUME NEW socks \in [Sockets -> [state : States, code : Codes, received : Nat]], NEW k \in Sockets
  PROVE  /\ CloseIfLive(k, socks) \in [Sockets -> [state : States, code : Codes, received : Nat]]
         /\ CloseIfLive(k, socks)[k].state \notin {"connecting", "open"}
         /\ \A j \in Sockets :
              /\ CloseIfLive(k, socks)[j].code = socks[j].code
              /\ CloseIfLive(k, socks)[j].received = socks[j].received
              /\ j # k => CloseIfLive(k, socks)[j] = socks[j]
              /\ socks[j].state \notin {"connecting", "open"} => CloseIfLive(k, socks)[j] = socks[j]
  BY DEF CloseIfLive, States

\* A step of one socket that leaves the page's own variables alone, revives no
\* socket and reopens no closed one.
LEMMA SocketStepKeepsPage ==
  ASSUME PageInv, UNCHANGED page,
         ws' \in [Sockets -> [state : States, code : Codes, received : Nat]],
         \A j \in Sockets : ws'[j].state \in {"connecting", "open"} => Live(j),
         \A j \in Sockets : ws[j].state = "closed" => ws'[j].state = "closed"
  PROVE  PageInv'
  BY DEF page, PageInv, PageTypes, CurrentOnly, WantedKept, Live

\* cleanupWs, called when socket k has just closed or by a stop.
LEMMA OnCloseKeepsPage ==
  ASSUME PageInv, NEW k \in Sockets, NEW msgs, OnClose(k, msgs), UNCHANGED <<wanted, opened>>
  PROVE  PageInv'
<1> DEFINE socks == [ws EXCEPT ![k].state = "closed"]
<1>1. /\ socks \in [Sockets -> [state : States, code : Codes, received : Nat]]
      /\ socks[k].state = "closed" /\ \A j \in Sockets : j # k => socks[j] = ws[j]
  BY DEF PageInv, PageTypes, States
<1>2. CASE k \in attached
  <2>1. k = wsConnection /\ attached = {k}
    BY <1>2, SocketExists DEF PageInv, CurrentOnly
  <2>2. wsConnection' = NoSocket /\ attached' = {} /\ ws' = CloseIfLive(k, socks)
    BY <1>2, <2>1, SocketExists DEF OnClose, CleanupWs, Detach
  <2>3. ws' = socks
    BY <1>1, <2>2 DEF CloseIfLive
  <2> HIDE DEF socks
  <2>4. QED
    BY <1>1, <2>1, <2>2, <2>3 DEF PageInv, PageTypes, CurrentOnly, WantedKept, Live
<1>3. CASE k \notin attached
  <2>1. ws' = socks /\ UNCHANGED page
    BY <1>3 DEF OnClose, page
  <2> HIDE DEF socks
  <2>2. QED
    BY <1>1, <2>1, SocketStepKeepsPage DEF Live
<1>4. QED
  BY <1>2, <1>3

\* Without the current socket no socket is live.
After == IF wsConnection = NoSocket THEN ws ELSE CloseIfLive(wsConnection, ws)

LEMMA NoneLiveAfter ==
  ASSUME PageInv
  PROVE  /\ After \in [Sockets -> [state : States, code : Codes, received : Nat]]
         /\ \A j \in Sockets : After[j].state \notin {"connecting", "open"}
<1>1. CASE wsConnection = NoSocket
  BY <1>1, SocketExists DEF After, PageInv, PageTypes, CurrentOnly, Live
<1>2. CASE wsConnection # NoSocket
  <2>1. PICK c \in Sockets : c = wsConnection
    BY <1>2 DEF PageInv, PageTypes
  <2>2. After = CloseIfLive(c, ws) /\ \A j \in Sockets : j # c => ws[j].state \notin {"connecting", "open"}
    BY <1>2, <2>1 DEF After, PageInv, CurrentOnly, Live
  <2>3. ws \in [Sockets -> [state : States, code : Codes, received : Nat]]
    BY DEF PageInv, PageTypes
  <2>4. QED
    BY <2>2, <2>3, CloseIfLiveEffect
<1>3. QED
  BY <1>1, <1>2

\* A start replaces the current socket.
LEMMA StartKeepsPage ==
  ASSUME PageInv, StartWebSocket
  PROVE  PageInv'
<1> DEFINE k == opened + 1
<1>1. k \in Sockets /\ opened' = k /\ wanted' = k /\ wsConnection' = k
  BY SocketsAssumption DEF StartWebSocket, PageInv, PageTypes, Sockets
<1>2. attached' = {k}
  BY DEF StartWebSocket, Detach, PageInv, CurrentOnly
<1>3. ws' = [After EXCEPT ![k].state = "connecting"]
  BY DEF StartWebSocket, After
<1>4. k \in 0..MaxSockets
  BY <1>1, SocketsAssumption DEF Sockets
<1> HIDE DEF k
<1>5. ws' \in [Sockets -> [state : States, code : Codes, received : Nat]]
  BY <1>1, <1>3, NoneLiveAfter DEF States
<1>6. \A j \in Sockets : ws'[j].state \in {"connecting", "open"} => j = k
  BY <1>1, <1>3, NoneLiveAfter
<1>7. QED
  BY <1>1, <1>2, <1>4, <1>5, <1>6, SocketExists DEF PageInv, PageTypes, CurrentOnly, WantedKept, Live

LEMMA StopKeepsPage ==
  ASSUME PageInv, StopStreaming
  PROVE  PageInv'
<1>1. wanted' = NoSocket /\ wsConnection' = NoSocket /\ opened' = opened
  BY DEF StopStreaming, CleanupWs
<1>2. attached' = {}
  BY DEF StopStreaming, CleanupWs, Detach, PageInv, CurrentOnly
<1>3. ws' = After
  BY DEF StopStreaming, CleanupWs, After
<1>4. QED
  BY <1>1, <1>2, <1>3, NoneLiveAfter DEF PageInv, PageTypes, CurrentOnly, WantedKept, Live

\* An event of socket k, or the end of its machine.
LEMMA EventKeepsPage ==
  ASSUME PageInv, NEW k \in Sockets, Browser(k) \/ Vanish(k)
  PROVE  PageInv'
<1> USE DEF PageInv, PageTypes, Live
<1>1. CASE OnOpen(k)
  BY <1>1, SocketStepKeepsPage DEF OnOpen, States
<1>2. CASE OnMessage(k)
  <2>1. ws' = ws \/ ws' = [ws EXCEPT ![k].received = ws[k].received + 1]
    BY <1>2 DEF OnMessage
  <2>2. /\ ws' \in [Sockets -> [state : States, code : Codes, received : Nat]]
        /\ \A j \in Sockets : ws'[j].state = ws[j].state
    <3>1. ws[k] \in [state : States, code : Codes, received : Nat] /\ ws[k].received + 1 \in Nat
      OBVIOUS
    <3>2. CASE ws' = ws
      BY <3>2
    <3>3. CASE ws' = [ws EXCEPT ![k].received = ws[k].received + 1]
      <4>1. ws'[k].received \in Nat /\ ws'[k].state = ws[k].state /\ ws'[k].code = ws[k].code
        BY <3>1, <3>3
      <4>2. \A j \in Sockets \ {k} : ws'[j] = ws[j]
        BY <3>3
      <4>3. ws' \in [Sockets -> [state : States, code : Codes, received : Nat]]
        BY <3>1, <3>3
      <4>4. QED
        BY <4>1, <4>2, <4>3
    <3>4. QED
      BY <2>1, <3>2, <3>3
  <2>3. QED
    BY <1>2, <2>2, SocketStepKeepsPage DEF OnMessage
<1>3. CASE CloseArrives(k)
  <2>1. Head(down[k]) \in Codes /\ ws[k].state # "closed"
    BY <1>3 DEF CloseArrives, Incoming, Deaf, Codes
  <2>2. ws' \in [Sockets -> [state : States, code : Codes, received : Nat]]
    BY <1>3, <2>1 DEF CloseArrives, States
  <2>3. QED
    BY <1>3, <2>1, <2>2, SocketStepKeepsPage DEF CloseArrives
<1>4. CASE ConnectionEnds(k)
  BY <1>4, OnCloseKeepsPage DEF ConnectionEnds
<1>5. CASE BrowserGivesUp(k)
  BY <1>5, OnCloseKeepsPage DEF BrowserGivesUp
<1>6. CASE Vanish(k)
  BY <1>6, SocketStepKeepsPage DEF Vanish, States
<1>7. QED
  BY <1>1, <1>2, <1>3, <1>4, <1>5, <1>6 DEF Browser

\* The server's steps do not touch the page.
LEMMA ServerKeepsPage ==
  ASSUME PageInv, UNCHANGED <<page, ws>>
  PROVE  PageInv'
  BY DEF page, PageInv, PageTypes, CurrentOnly, WantedKept, Live

LEMMA ServerIsServerSide ==
  ASSUME NEW k \in Sockets, Handle(k) \/ EndsShort(k) \/ ContextDone(k) \/ Read(k) \/ ReadDeadline(k)
  PROVE  ServerSide
  BY DEF Handle, WSStreamHandler, Refuse, Upgrade, WriteMessage, WriteFails, EndOfData, EndsShort, RunEnds,
     CloseNormally, CloseFailed, WaitReader, ContextDone, RunFails, Read, ReadClose, ReadFails, ReadDeadline

LEMMA PageNext == PageInv /\ [Next]_vars => PageInv'
<1>1. ASSUME PageInv, NEW k \in Sockets, Handle(k) \/ EndsShort(k) \/ ContextDone(k) \/ Read(k) \/ ReadDeadline(k)
      PROVE  PageInv'
  BY <1>1, ServerIsServerSide, ServerKeepsPage DEF ServerSide
<1>2. ASSUME PageInv, UNCHANGED vars
      PROVE  PageInv'
  BY <1>2, ServerKeepsPage DEF vars
<1>3. QED
  BY <1>1, <1>2, StartKeepsPage, StopKeepsPage, EventKeepsPage DEF Next

LEMMA PageInvariant == Spec => []PageInv
  BY PageInit, PageNext, PTL DEF Spec

\* app.js never has two sockets connecting or open, however often the stream
\* is started and stopped and whatever arrives when.
THEOREM OneLiveCorrect == Spec => []OneLive
<1>1. PageInv => OneLive
  BY DEF PageInv, CurrentOnly, OneLive
<1>2. QED
  BY <1>1, PageInvariant, PTL

\* The stream that was started last and not stopped stays the current one until
\* its own connection is closed.
THEOREM WantedKeptCorrect == Spec => []WantedKept
<1>1. PageInv => WantedKept
  BY DEF PageInv
<1>2. QED
  BY <1>1, PageInvariant, PTL

=============================================================================
