--------------------------- MODULE BrowserClient ---------------------------
(***************************************************************************)
(* The list and the edit dialog of the web page                            *)
(* (src/frontend/public/app.js) over the REST server, with other clients   *)
(* that call the server on their own.                                      *)
(*                                                                         *)
(* An action is one event handler, or what follows one await, run to the   *)
(* next await.  Answers arrive in any order.  The dialog is modal: while   *)
(* it is open nothing else of the page can be clicked.                     *)
(*                                                                         *)
(* Abstracted: the label and a stream object are the stream's id and       *)
(* title; the status log is left out.                                      *)
(***************************************************************************)
EXTENDS StreamApi

CONSTANTS
  MaxSubmits  \* bound on submitted titles, of all clients

ASSUME SubmitsAssumption == MaxSubmits \in Nat
ASSUME NothingAssumption == Nothing \notin [id : Streams, title : 0..MaxSubmits]

VARIABLES
  role,      \* role[r]: what the request in slot r is for
  submits,   \* titles submitted so far
  list,      \* the streams the list shows, Nothing before it was loaded
  active,    \* the items marked active
  selected,  \* selectedStream
  label,     \* the stream whose title the label shows
  form,      \* the stream the open dialog was filled from, Nothing when closed
  acked      \* acked[r]: the update a refetch in slot r follows, Nothing else

pageVars == <<list, active, selected, label, form, acked>>
vars == <<apiVars, role, submits, pageVars>>

Roles == {"free", "list", "preflight", "put", "relist", "other"}

Init ==
  /\ ApiInit
  /\ role = [r \in Requests |-> "free"]
  /\ submits = 0
  /\ list = Nothing /\ active = {}
  /\ selected = Nothing /\ label = Nothing
  /\ form = Nothing
  /\ acked = [r \in Requests |-> Nothing]

Use(r, as) == role[r] = "free" /\ role' = [role EXCEPT ![r] = as]

NewTitle == submits < MaxSubmits /\ submits' = submits + 1

Quiet == UNCHANGED <<history, lock, conns, faults>>

-----------------------------------------------------------------------------
(***************************************************************************)
(* What the user does                                                      *)
(***************************************************************************)
\* fetchStreams, by the refresh button or when the page is loaded.
FetchStreams(r) ==
  /\ form = Nothing
  /\ Use(r, "list") /\ Send(r, "list", Nothing, Nothing)
  /\ Quiet /\ UNCHANGED <<submits, pageVars>>

\* selectStream, with the stream object the item was rendered from.
SelectStream(s) ==
  /\ list # Nothing /\ form = Nothing
  /\ selected' = list[s] /\ label' = list[s]
  /\ active' = {s}
  /\ UNCHANGED <<apiVars, role, submits, list, form, acked>>

OpenEditModal ==
  /\ selected # Nothing /\ form = Nothing
  /\ form' = selected
  /\ UNCHANGED <<apiVars, role, submits, list, active, selected, label, acked>>

CancelEdit ==
  /\ form # Nothing
  /\ form' = Nothing
  /\ UNCHANGED <<apiVars, role, submits, list, active, selected, label, acked>>

\* updateStream up to its fetch; the browser asks the server for leave first.
\* What the request carries is remembered in acked until its answer.
UpdateStreamForm(r) ==
  /\ form # Nothing
  /\ NewTitle
  /\ Use(r, "preflight") /\ Send(r, "options", selected.id, submits')
  /\ form' = Nothing
  /\ Quiet /\ UNCHANGED <<list, active, selected, label, acked>>

-----------------------------------------------------------------------------
(***************************************************************************)
(* What the page does when an answer arrives                               *)
(***************************************************************************)
Arrived(r, as) == role[r] = as /\ call[r].pc \in {"answered", "lost"}

\* fetch resolves and res.ok holds.
Got(r) == At(r, "answered") /\ call[r].ok

\* The slot is free again.
Finish(r) == call' = [call EXCEPT ![r] = NoCall] /\ role' = [role EXCEPT ![r] = "free"]

SendPut(r) ==
  /\ Arrived(r, "preflight")
  /\ IF Got(r)
     THEN /\ role' = [role EXCEPT ![r] = "put"]
          /\ Send(r, "update", call[r].id, call[r].title)
     ELSE Finish(r)
  /\ Quiet /\ UNCHANGED <<submits, pageVars>>

\* The item renderStreams marks: that of the selected stream.
Marked == IF selected = Nothing THEN {} ELSE {selected.id}

RenderStreams(streams) == list' = streams /\ active' = Marked

\* A failed fetchStreams leaves the list as it is.
StreamsArrive(r) ==
  /\ Arrived(r, "list")
  /\ IF Got(r) THEN RenderStreams(call[r].res.streams) ELSE UNCHANGED <<list, active>>
  /\ Finish(r)
  /\ Quiet /\ UNCHANGED <<submits, selected, label, form, acked>>

\* Mutant of Adopt: the answer becomes the selection without a look at its id.
AdoptAny(updated) == updated

\* The answer becomes the selection unless another stream was selected since.
Adopt(updated) == IF updated.id = selected.id THEN updated ELSE selected

\* updateStream after its fetch: the same slot then fetches the list.
UpdateArrives(r) ==
  /\ Arrived(r, "put")
  /\ IF Got(r)
     THEN /\ selected' = Adopt(call[r].res.stream)
          /\ acked' = [acked EXCEPT ![r] = call[r].res.stream]
          /\ Send(r, "list", Nothing, Nothing)
          /\ role' = [role EXCEPT ![r] = "relist"]
     ELSE Finish(r) /\ UNCHANGED <<selected, acked>>
  /\ Quiet /\ UNCHANGED <<submits, list, active, label, form>>

\* Mutant of RelistArrives: a failing refetch ends the handler.
RelistArrivesOrStops(r) ==
  /\ Arrived(r, "relist")
  /\ IF Got(r) THEN RenderStreams(call[r].res.streams) /\ label' = selected
               ELSE UNCHANGED <<list, active, label>>
  /\ acked' = [acked EXCEPT ![r] = Nothing]
  /\ Finish(r)
  /\ Quiet /\ UNCHANGED <<submits, selected, form>>

\* updateStream after the refetch, which catches its own errors.
RelistArrives(r) ==
  /\ Arrived(r, "relist")
  /\ list' = IF Got(r) THEN call[r].res.streams ELSE list
  /\ active' = (IF Got(r) THEN Marked ELSE active) \cup {selected.id}
  /\ label' = selected
  /\ acked' = [acked EXCEPT ![r] = Nothing]
  /\ Finish(r)
  /\ Quiet /\ UNCHANGED <<submits, selected, form>>

\* An answer is lost on the way: fetch rejects.
LoseAnswer(r) ==
  /\ At(r, "answered") /\ Fault
  /\ Goto(r, "lost")
  /\ UNCHANGED <<history, lock, conns, role, submits, pageVars>>

-----------------------------------------------------------------------------
\* Another client of the API.
CallDirectly(r, op, id) ==
  /\ Use(r, "other")
  /\ IF op = "update" THEN NewTitle ELSE UNCHANGED submits
  /\ \E title \in IF op = "update" THEN {submits', Nothing} ELSE {Nothing} : Send(r, op, id, title)
  /\ Quiet /\ UNCHANGED pageVars

DirectAnswer(r) ==
  /\ Arrived(r, "other")
  /\ Finish(r)
  /\ Quiet /\ UNCHANGED <<submits, pageVars>>

Page(r) == SendPut(r) \/ StreamsArrive(r) \/ UpdateArrives(r) \/ RelistArrives(r) \/ DirectAnswer(r)

User ==
  \/ \E r \in Requests : FetchStreams(r) \/ UpdateStreamForm(r)
  \/ \E s \in Streams : SelectStream(s)
  \/ OpenEditModal \/ CancelEdit
  \/ \E r \in Requests, op \in {"get", "update"}, id \in Streams \cup {UnknownId, MalformedId} :
       CallDirectly(r, op, id)

Next ==
  \/ User
  \/ \E r \in Requests : Page(r) \/ LoseAnswer(r)
  \/ (\E r \in Requests : Serve(r) \/ Break(r)) /\ UNCHANGED <<role, submits, pageVars>>
  \/ Others /\ UNCHANGED <<role, submits, pageVars>>

Spec == Init /\ [][Next]_vars

-----------------------------------------------------------------------------
(***************************************************************************)
(* Properties                                                              *)
(***************************************************************************)
\* Types, of the page and of the server.
TypeOK ==
  /\ role \in [Requests -> Roles] /\ submits \in 0..MaxSubmits
  /\ active \subseteq Streams
  /\ \A x \in {selected, label, form} : x # Nothing => x.id \in Streams /\ x.title \in 0..MaxSubmits
  /\ conns \subseteq Requests \cup {Playback} /\ Cardinality(conns) <= MaxConns
  /\ lock \in [Streams -> Requests \cup {NoRequest, Orphan}]
  /\ \A s \in Streams : history[s] \in Seq(0..MaxSubmits)
  /\ faults \in 0..MaxFaults

\* What the page shows is what the buttons act on: the active item and the
\* label's stream are the selected stream whatever answers arrive, and the
\* label's title is behind only while an update's refetch is under way, also
\* when that refetch fails.
SelectionShown ==
  /\ selected = Nothing <=> label = Nothing
  /\ selected # Nothing =>
       /\ active = {selected.id} /\ label.id = selected.id
       /\ label = selected \/ \E r \in Requests : role[r] = "relist"

\* The dialog that is open edits the stream that will be updated: an answer
\* that arrives meanwhile never changes which stream is selected.
EditsSelected == form # Nothing => selected.id = form.id

\* A user sees the own update: the list fetched after an accepted update
\* shows it, or a later one of the same stream.
RefetchSeesUpdate ==
  \A r \in Requests : role[r] = "relist" /\ Got(r) =>
    LET s == acked[r].id
        titles == history[s]
    IN  \E i, j \in DOMAIN titles :
          i <= j /\ titles[i] = acked[r].title /\ titles[j] = call[r].res.streams[s].title

\* What the client of a call asked for, and what it is told once the call has
\* taken effect; a preflight asks for nothing.
Told(c) ==
  CASE c.pc = "return" /\ c.op = "list" -> ToApiStreamResponseList(c.res)
    [] c.pc = "return" /\ c.op # "list" -> ToApiStreamResponse(c.res)
    [] OTHER -> IF c.op = "list" THEN c.res.streams ELSE c.res.stream

AskedFor(c, phase, told) ==
  [phase |-> phase, op |-> c.op, id |-> IF c.op = "list" THEN Nothing ELSE c.id, new |-> c.title, told |-> told]

\* A slot that asks for nothing, and where a call has been decided.
Unasked == AskedFor(NoCall, "none", Nothing)
Decided == {"return", "answered", "lost"}

RequestOf(c) ==
  IF c.pc = "none" \/ c.op = "options" THEN Unasked
  ELSE IF c.pc \notin Decided THEN AskedFor(c, "called", Nothing)
  ELSE IF c.pc # "lost" /\ c.ok THEN AskedFor(c, "done", Told(c))
  ELSE AskedFor(c, "failed", Nothing)

Register == INSTANCE StreamRegister WITH
  title   <- [s \in Streams |-> Title(s)],
  request <- [r \in Requests |-> RequestOf(call[r])],
  Ids     <- Streams \cup {UnknownId, MalformedId, Nothing},
  Titles  <- 0..MaxSubmits \cup {Nothing},
  First   <- 0

\* The server is linearizable: through all its layers, connections, row locks
\* and failures every list, get and update of any number of clients has its
\* effect, or reads all it returns, at one moment between its call and its
\* answer; one that failed may have been stored, and is told as a failure.
ImplementsRegister == Register!Spec

=============================================================================
