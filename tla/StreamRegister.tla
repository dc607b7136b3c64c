--------------------------- MODULE StreamRegister ---------------------------
(***************************************************************************)
(* What the REST API promises its clients, without layers, connections,    *)
(* rows or transactions: every stream has one title, a request takes       *)
(* effect at one moment between its call and its answer, and one that      *)
(* failed did so or not, but its client is told nothing.                   *)
(***************************************************************************)
CONSTANTS Requests, Streams, Ids, Titles, First, Nothing

VARIABLES
  title,   \* title[s]: the title of stream s
  request  \* request[r]: what was asked for, and what the client was told

vars == <<title, request>>

None == [phase |-> "none", op |-> "none", id |-> Nothing, new |-> Nothing, told |-> Nothing]

Init ==
  /\ title = [s \in Streams |-> First]
  /\ request = [r \in Requests |-> None]

Waits(r, op) == request[r].phase = "called" /\ request[r].op = op

\* The request is over, and its client is told so.
Tell(r, phase, told) ==
  request' = [request EXCEPT ![r] = [phase |-> phase, op |-> @.op, id |-> @.id, new |-> @.new, told |-> told]]

Shows(s) == [id |-> s, title |-> title[s]]

Calls == [phase : {"called"}, op : {"list", "get", "update"}, id : Ids, new : Titles, told : {Nothing}]

Call(r) ==
  /\ request[r].phase # "called" /\ request'[r] \in Calls
  /\ request' = [request EXCEPT ![r] = request'[r]]
  /\ UNCHANGED title

\* A list shows the titles all streams had at one moment.
List(r) == Waits(r, "list") /\ Tell(r, "done", [s \in Streams |-> Shows(s)]) /\ UNCHANGED title

Get(r) ==
  /\ Waits(r, "get") /\ request[r].id \in Streams
  /\ Tell(r, "done", Shows(request[r].id))
  /\ UNCHANGED title

Store(r) ==
  /\ Waits(r, "update") /\ request[r].id \in Streams
  /\ title' = [title EXCEPT ![request[r].id] = request[r].new]

Update(r) == Store(r) /\ Tell(r, "done", [id |-> request[r].id, title |-> request[r].new])

\* An update that fails is stored or not; an answer is lost.
Fail(r) ==
  /\ request[r].phase \in {"called", "done"}
  /\ Store(r) \/ UNCHANGED title
  /\ Tell(r, "failed", Nothing)

Forget(r) ==
  /\ request[r].phase \in {"done", "failed"}
  /\ request' = [request EXCEPT ![r] = None]
  /\ UNCHANGED title

\* Most steps of the layers show nothing here; every other changes one request.
Next ==
  \/ UNCHANGED vars
  \/ \E r \in Requests :
       /\ request'[r] # request[r]
       /\ List(r) \/ Get(r) \/ Update(r) \/ Fail(r) \/ Forget(r) \/ Call(r)

Spec == Init /\ [][Next]_vars

=============================================================================
