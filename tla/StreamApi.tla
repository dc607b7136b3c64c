------------------------------ MODULE StreamApi ------------------------------
(***************************************************************************)
(* The REST side of the server: list, get and update of streams, from the  *)
(* CORS filter through the generated handlers, the tracing wrappers, the   *)
(* service, the use case and the repository to PostgreSQL and back         *)
(* (backend/internal/server, api/v1, wrapper, service, biz, repo, data).   *)
(*                                                                         *)
(* A request is one goroutine.  What it does between two accesses to       *)
(* shared state is one action, made of one operator per layer; the shared  *)
(* state is the connection pool and the database.  A failing access is a   *)
(* database error, a cancelled request or the server's request timeout.    *)
(*                                                                         *)
(* Abstracted: a stream row is its title, a submission number; description *)
(* and interval are written and read with it.                              *)
(***************************************************************************)
EXTENDS Integers, FiniteSets, SequencesExt

CONSTANTS
  Requests,     \* request slots
  Streams,      \* rows of the table streams; the service neither adds nor deletes
  UnknownId,    \* a well-formed id without a row
  MalformedId,  \* an id that is no UUID
  MaxConns,     \* connections in the pool
  MaxFaults,    \* bound on failing accesses and lost answers
  Playback,     \* a session's load, which uses the same pool
  NoRequest, Orphan, Nothing

ASSUME ConnsAssumption == MaxConns \in Nat \ {0} /\ MaxFaults \in Nat
ASSUME NamesAssumption == {Playback, NoRequest, Orphan} \cap Requests = {}
ASSUME IdsAssumption   == UnknownId \notin Streams /\ MalformedId \notin Streams

VARIABLES
  history,  \* history[s]: the committed titles of stream s, in order
  lock,     \* lock[s]: the request whose transaction locks the row, Orphan, or NoRequest
  conns,    \* who holds a connection of the pool
  call,     \* call[r]: the request's progress
  faults

apiVars == <<history, lock, conns, call, faults>>

Layers == {"service", "usecase", "repo"}

\* A call: pc, the operation, its input, the spans of the layers, the result.
NoCall == [pc |-> "none", op |-> "none", id |-> Nothing, title |-> Nothing,
           spans |-> [l \in Layers |-> "none"], ok |-> TRUE, res |-> Nothing]

At(r, l) == call[r].pc = l

ApiInit ==
  /\ history = [s \in Streams |-> <<0>>]
  /\ lock = [s \in Streams |-> NoRequest]
  /\ conns = {}
  /\ call = [r \in Requests |-> NoCall]
  /\ faults = 0

Title(s) == Last(history[s])

-----------------------------------------------------------------------------
(***************************************************************************)
(* The layers, on the way in                                               *)
(***************************************************************************)
Failed(c) == [c EXCEPT !.ok = FALSE, !.pc = "return"]

\* A method of a tracing wrapper: a span around the call of the wrapped one.
OpenSpan(c, layer) == IF c.ok THEN [c EXCEPT !.spans[layer] = "open"] ELSE c

StreamServiceWrapper(c) == OpenSpan(c, "service")

StreamUsecaseWrapper(c) == OpenSpan(c, "usecase")

StreamRepoWrapper(c) == OpenSpan(c, "repo")

\* A UUID is parsed, or it is an error; a call that has failed does not get here.
StringToPgUUID(c) == IF c.ok /\ c.id = MalformedId THEN Failed(c) ELSE c

\* The parameters of the UPDATE: always all the columns, of the id and the title.
ToDbUpdateStreamParams(c) == StringToPgUUID(c)

\* The use case converts its input before it calls the repository.
EnterUsecase(c) ==
  CASE c.op = "update" -> ToDbUpdateStreamParams(c)
    [] c.op = "get"    -> StringToPgUUID(c)
    [] OTHER           -> c

\* The generated handlers; the id of the path replaces that of the body.
BindUpdate(c) ==
  IF c.title = Nothing THEN [c EXCEPT !.ok = FALSE, !.pc = "answered"] ELSE [c EXCEPT !.pc = "acquire"]

BindGet(c) == [c EXCEPT !.pc = "acquire"]

BindList(c) == [c EXCEPT !.pc = "acquire", !.id = Nothing]

Bind(c) == CASE c.op = "update" -> BindUpdate(c) [] c.op = "get" -> BindGet(c) [] c.op = "list" -> BindList(c)

\* The filter answers a preflight request itself.
CORS(c, next) == IF c.op = "options" THEN [c EXCEPT !.pc = "answered"] ELSE next

Send(r, op, id, title) ==
  call' = [call EXCEPT ![r] = [NoCall EXCEPT !.pc = "filter", !.op = op, !.id = id, !.title = title]]

Handle(r) ==
  /\ At(r, "filter")
  /\ call' = [call EXCEPT ![r] =
       CORS(@, StreamRepoWrapper(EnterUsecase(StreamUsecaseWrapper(StreamServiceWrapper(Bind(@))))))]
  /\ UNCHANGED <<history, lock, conns, faults>>

-----------------------------------------------------------------------------
(***************************************************************************)
(* The repository: the connection pool, the queries, the transaction       *)
(***************************************************************************)
Release(r) == conns' = conns \ {r}

Unlock(r, left) == lock' = [s \in Streams |-> IF lock[s] = r THEN left ELSE lock[s]]

Goto(r, l) == call' = [call EXCEPT ![r].pc = l]

Fail(r) == call' = [call EXCEPT ![r] = Failed(@)]

Fault == faults < MaxFaults /\ faults' = faults + 1

\* Mutant of Acquire: the limit of the pool is not kept.
AcquireAlways(r) ==
  /\ At(r, "acquire")
  /\ conns' = conns \cup {r}
  /\ Goto(r, IF call[r].op = "update" THEN "statement" ELSE "query")
  /\ UNCHANGED <<history, lock, faults>>

\* A query of the pool, or Begin, waits for a connection.
Acquire(r) ==
  /\ At(r, "acquire") /\ Cardinality(conns) < MaxConns
  /\ conns' = conns \cup {r}
  /\ Goto(r, IF call[r].op = "update" THEN "statement" ELSE "query")
  /\ UNCHANGED <<history, lock, faults>>

AcquireFails(r) ==
  /\ At(r, "acquire") /\ Fault
  /\ Fail(r)
  /\ UNCHANGED <<history, lock, conns>>

\* loadChunk queries the pool as well; its timeout bounds how long.
LoadBegins ==
  /\ Playback \notin conns /\ Cardinality(conns) < MaxConns
  /\ conns' = conns \cup {Playback}
  /\ UNCHANGED <<history, lock, call, faults>>

LoadEnds ==
  /\ Playback \in conns
  /\ conns' = conns \ {Playback}
  /\ UNCHANGED <<history, lock, call, faults>>

Row(s, title) == [ID |-> s, Title |-> title]

Answer(r, res) == call' = [call EXCEPT ![r].res = res, ![r].pc = "return"]

\* Closing the rows gives the connection back.
ListStreams(r) ==
  /\ At(r, "query") /\ call[r].op = "list"
  /\ Answer(r, [s \in Streams |-> Row(s, Title(s))])
  /\ Release(r)
  /\ UNCHANGED <<history, lock, faults>>

GetStream(r) ==
  /\ At(r, "query") /\ call[r].op = "get"
  /\ IF call[r].id \in Streams
     THEN Answer(r, Row(call[r].id, Title(call[r].id)))
     ELSE Fail(r)
  /\ Release(r)
  /\ UNCHANGED <<history, lock, faults>>

QueryFails(r) ==
  /\ At(r, "query") /\ Fault
  /\ Fail(r) /\ Release(r)
  /\ UNCHANGED <<history, lock>>

\* Mutant of WithTx: the statement is a query of the pool, not of the transaction.
WithTxForgotten(r) == Cardinality(conns) < MaxConns

\* The queries of a transaction run on the connection it has.
WithTx(r) == r \in conns

\* The UPDATE waits for the row and returns it as it will be after the commit.
UpdateStream(r) ==
  LET s == call[r].id IN
  /\ At(r, "statement") /\ s \in Streams
  /\ WithTx(r) /\ lock[s] = NoRequest
  /\ lock' = [lock EXCEPT ![s] = r]
  /\ call' = [call EXCEPT ![r].res = Row(s, call[r].title), ![r].pc = "commit"]
  /\ UNCHANGED <<history, conns, faults>>

\* No such row, or the statement fails: the deferred Rollback ends the
\* transaction and gives the connection back.
StatementFails(r) ==
  /\ At(r, "statement")
  /\ IF call[r].id \in Streams THEN Fault ELSE UNCHANGED faults
  /\ Fail(r) /\ Release(r)
  /\ UNCHANGED <<history, lock>>

Write(r) == history' = [history EXCEPT ![call[r].id] = Append(@, call[r].title)]

\* Mutant of Commit: the row is returned and the commit left to the deferred function.
CommitLater(r) ==
  /\ At(r, "commit")
  /\ Goto(r, "return")
  /\ Unlock(r, NoRequest) /\ Release(r)
  /\ UNCHANGED <<history, faults>>

Commit(r) ==
  /\ At(r, "commit")
  /\ Write(r)
  /\ Goto(r, "return")
  /\ Unlock(r, NoRequest) /\ Release(r)
  /\ UNCHANGED faults

\* Mutant of CommitFails: the connection stays with the request.
CommitFailsHolding(r) ==
  /\ At(r, "commit") /\ Fault
  /\ Fail(r)
  /\ UNCHANGED <<history, lock, conns>>

\* Mutant of CommitFails: the error of the commit is not looked at.
CommitUnchecked(r) ==
  /\ At(r, "commit") /\ Fault
  /\ \/ Write(r) /\ Unlock(r, NoRequest)
     \/ UNCHANGED history /\ Unlock(r, Orphan)
  /\ Goto(r, "return") /\ Release(r)

\* Commit returns an error, whether or not the server committed.  The row is
\* returned with it.  The connection is closed; the server's side of it
\* releases the row when it notices.
CommitFails(r) ==
  /\ At(r, "commit") /\ Fault
  /\ \/ Write(r) /\ Unlock(r, NoRequest)
     \/ UNCHANGED history /\ Unlock(r, Orphan)
  /\ Fail(r) /\ Release(r)

BackendGone(s) ==
  /\ lock[s] = Orphan
  /\ lock' = [lock EXCEPT ![s] = NoRequest]
  /\ UNCHANGED <<history, conns, call, faults>>

-----------------------------------------------------------------------------
(***************************************************************************)
(* The layers, on the way out                                              *)
(***************************************************************************)
\* Mutant of CloseSpan: the error is looked at when the call begins.
CloseSpanBlind(c, layer) ==
  [c EXCEPT !.spans[layer] = IF @ = "open" THEN "ended" ELSE @]

\* The deferred function of a wrapper sees the error the call returned.
CloseSpan(c, layer) ==
  [c EXCEPT !.spans[layer] = IF @ # "open" THEN @ ELSE IF c.ok THEN "ended" ELSE "failed"]

\* The answer of get.
ToApiStreamResponse(row) == [id |-> row.ID, title |-> row.Title]

\* The answer of update.
ToApiStreamUpdateResult(row) == [id |-> row.ID, title |-> row.Title]

\* The answer of list.
ToApiStreamResponseList(rows) == [s \in DOMAIN rows |-> ToApiStreamResponse(rows[s])]

\* The use case converts what it got, or drops it when there is an error.
LeaveUsecase(c) ==
  [c EXCEPT !.res =
     CASE ~c.ok            -> Nothing
       [] c.op = "list"    -> ToApiStreamResponseList(@)
       [] c.op = "get"     -> ToApiStreamResponse(@)
       [] c.op = "update"  -> ToApiStreamUpdateResult(@)]

\* The service puts it into the response message.
LeaveService(c) ==
  [c EXCEPT !.res = IF ~c.ok THEN Nothing
                    ELSE IF c.op = "list" THEN [streams |-> @] ELSE [stream |-> @]]

Return(r) ==
  /\ At(r, "return")
  /\ call' = [call EXCEPT ![r] =
       [CloseSpan(LeaveService(CloseSpan(LeaveUsecase(CloseSpan(@, "repo")), "usecase")), "service")
          EXCEPT !.pc = "answered"]]
  /\ UNCHANGED <<history, lock, conns, faults>>

\* Every step but the faults.
Serve(r) ==
  \/ Handle(r) \/ Acquire(r) \/ ListStreams(r) \/ GetStream(r)
  \/ UpdateStream(r) \/ (call[r].id \notin Streams /\ StatementFails(r)) \/ Commit(r) \/ Return(r)

Break(r) == AcquireFails(r) \/ QueryFails(r) \/ (call[r].id \in Streams /\ StatementFails(r)) \/ CommitFails(r)

Others == LoadBegins \/ LoadEnds \/ \E s \in Streams : BackendGone(s)

-----------------------------------------------------------------------------
(***************************************************************************)
(* Properties                                                              *)
(***************************************************************************)
\* What a client is told of its update is true: an answer without error means
\* that exactly its title was committed, and the answer is the row it wrote;
\* a failed commit never shows the row that the repository returned with it.
AnswerTrue ==
  \A r \in Requests : At(r, "answered") /\ call[r].op = "update" =>
    IF call[r].ok
    THEN /\ call[r].title \in ToSet(history[call[r].id])
         /\ call[r].res.stream = [id |-> call[r].id, title |-> call[r].title]
    ELSE call[r].res = Nothing

\* Whatever failed, a request that is being answered holds no connection and
\* its transaction no row.
NothingHeld ==
  \A r \in Requests : call[r].pc \in {"none", "return", "answered"} =>
    r \notin conns /\ \A s \in Streams : lock[s] # r

\* A trace tells what happened: when a request is answered every span is over,
\* and those around an error carry it.
SpansTrue ==
  \A r \in Requests : At(r, "answered") =>
    \A l \in Layers : call[r].spans[l] \in {"none", IF call[r].ok THEN "ended" ELSE "failed"}

\* What a request may have to wait for: a connection, or the row it updates.
Ready(r) ==
  \/ call[r].pc \in {"filter", "query", "commit", "return"}
  \/ At(r, "acquire") /\ Cardinality(conns) < MaxConns
  \/ At(r, "statement") /\ (call[r].id \notin Streams \/ (WithTx(r) /\ lock[call[r].id] = NoRequest))

\* While a request is under way some request has what it waits for, or will when a
\* load or the database is done: nobody waits in a circle.
Unblocked ==
  (\E r \in Requests : call[r].pc \notin {"none", "answered", "lost"}) =>
    \/ \E r \in Requests : Ready(r)
    \/ Playback \in conns
    \/ \E s \in Streams : lock[s] = Orphan

CanGo(r) == ENABLED Serve(r)

\* Nothing else holds a request up: whatever it asks for, of a row that exists
\* or not, and whether it failed before, a request that has what it waits for
\* goes on without a failure.
ReadyServes == \A r \in Requests : Ready(r) => CanGo(r)

\* No standstill: although updates wait for each other's rows and all requests,
\* and the loads of the sessions, for the few connections, as long as a request
\* is under way some request can go on, or will when a load or the database is
\* done.
NoStandstill == Unblocked /\ ReadyServes

=============================================================================
