------------------------- MODULE BrowserClientProofs -------------------------
(***************************************************************************)
(* Proofs about BrowserClient and the server it calls, for any requests,   *)
(* streams, connections, submissions and failures.                         *)
(***************************************************************************)
EXTENDS BrowserClient, SequenceTheorems, FiniteSetTheorems, TLAPS

-----------------------------------------------------------------------------
(***************************************************************************)
(* The inductive invariant: the server                                     *)
(***************************************************************************)
Titles == 0..MaxSubmits

Rows == [ID : Streams, Title : Titles]

Shown == [id : Streams, title : Titles]

\* A call, whatever its result is.
IsCall(c) ==
  c \in [pc : {"none", "filter", "acquire", "query", "statement", "commit", "return", "answered", "lost"},
         op : {"none", "options", "list", "get", "update"},
         id : Streams \cup {UnknownId, MalformedId, Nothing},
         title : Titles \cup {Nothing},
         spans : [Layers -> {"none", "open", "ended", "failed"}],
         ok : BOOLEAN,
         res : {c.res}]

ApiTypes ==
  /\ history \in [Streams -> Seq(Titles)] /\ \A s \in Streams : history[s] # <<>>
  /\ lock \in [Streams -> Requests \cup {NoRequest, Orphan}]
  /\ conns \subseteq Requests \cup {Playback} /\ IsFiniteSet(conns) /\ Cardinality(conns) <= MaxConns
  /\ call = [r \in Requests |-> call[r]] /\ \A r \in Requests : IsCall(call[r])
  /\ faults \in 0..MaxFaults

\* The spans of a call: open or not there until it returns, then over.
SpansOf(c) ==
  /\ c.pc = "filter" => \A l \in Layers : c.spans[l] = "none"
  /\ c.pc \notin {"answered", "lost"} => \A l \in Layers : c.spans[l] \in {"none", "open"}
  /\ c.pc \in {"answered", "lost"} =>
       \A l \in Layers : c.spans[l] \in {"none", IF c.ok THEN "ended" ELSE "failed"}

\* What a call carries while it is served.
Served(c) ==
  /\ c.pc # "none" => c.op # "none"
  /\ c.pc = "filter" => c.ok /\ c.res = Nothing
  /\ c.pc \in {"acquire", "query", "statement", "commit"} =>
       c.ok /\ c.op \in {"list", "get", "update"} /\ (c.op = "update" => c.title \in Titles)
  /\ c.pc = "query" => c.op \in {"list", "get"}
  /\ c.pc \in {"statement", "commit"} => c.op = "update"
  /\ c.pc = "commit" => c.id \in Streams /\ c.res = Row(c.id, c.title)

\* What it carries back.
Result(c) ==
  /\ c.pc = "return" /\ c.ok =>
       /\ c.op \in {"list", "get", "update"}
       /\ c.op = "list" => c.res \in [Streams -> Rows] /\ \A s \in Streams : c.res[s].ID = s
       /\ c.op = "get" => c.res \in Rows
       /\ c.op = "update" => c.id \in Streams /\ c.title \in Titles /\ c.res = Row(c.id, c.title)
  /\ c.pc = "answered" /\ c.ok =>
       /\ c.op = "list" => /\ c.res \in [streams : [Streams -> Shown]]
                           /\ \A s \in Streams : c.res.streams[s].id = s
       /\ c.op = "update" => /\ c.id \in Streams /\ c.title \in Titles
                             /\ c.res = [stream |-> [id |-> c.id, title |-> c.title]]
  /\ c.pc = "answered" /\ ~c.ok => c.res = Nothing

Stage(c) == SpansOf(c) /\ Served(c) /\ Result(c)

\* Connections and rows are held by the requests that are in the database.
Held ==
  \A r \in Requests :
    /\ r \in conns <=> call[r].pc \in {"query", "statement", "commit"}
    /\ \A s \in Streams : lock[s] = r => call[r].pc = "commit" /\ call[r].id = s

\* An update that returns without error is in the history.
Committed ==
  \A r \in Requests : call[r].pc \in {"return", "answered"} /\ call[r].op = "update" /\ call[r].ok =>
    call[r].title \in ToSet(history[call[r].id])

ApiInv == ApiTypes /\ (\A r \in Requests : Stage(call[r])) /\ Held /\ Committed

-----------------------------------------------------------------------------
(***************************************************************************)
(* The inductive invariant: the page                                       *)
(***************************************************************************)
PageTypes ==
  /\ role \in [Requests -> Roles] /\ submits \in 0..MaxSubmits
  /\ list # Nothing => list \in [Streams -> Shown] /\ \A s \in Streams : list[s].id = s
  /\ active \subseteq Streams
  /\ \A x \in {selected, label, form} : x # Nothing => x \in Shown
  /\ acked = [r \in Requests |-> acked[r]]

\* What the request in slot r is for; once the page has sent an update a stream is selected.
Purpose(r) ==
  /\ role[r] = "free" <=> call[r].pc = "none"
  /\ role[r] \in {"list", "relist"} => call[r].op = "list"
  /\ role[r] = "preflight" => call[r].op = "options" /\ call[r].id \in Streams /\ call[r].title \in Titles
  /\ role[r] = "put" => call[r].op = "update"
  /\ role[r] \in {"preflight", "put", "relist"} => selected # Nothing

\* The dialog was filled from the selection.
FormKept == form # Nothing => selected # Nothing /\ selected.id = form.id

\* A title at or behind that of an accepted update.
FollowsAcked(r, title) ==
  LET titles == history[acked[r].id]
  IN  \E i, j \in DOMAIN titles : i <= j /\ titles[i] = acked[r].title /\ titles[j] = title

\* A refetch follows an update that is in the history, and so does what it returns.
Refetch(r) ==
  role[r] = "relist" =>
    /\ acked[r] \in Shown /\ \E i \in DOMAIN history[acked[r].id] : history[acked[r].id][i] = acked[r].title
    /\ call[r].pc = "return" /\ call[r].ok => FollowsAcked(r, call[r].res[acked[r].id].Title)
    /\ call[r].pc = "answered" /\ call[r].ok => FollowsAcked(r, call[r].res.streams[acked[r].id].title)

PageInv == PageTypes /\ SelectionShown /\ FormKept /\ \A r \in Requests : Purpose(r) /\ Refetch(r)

BInv == ApiInv /\ PageInv

-----------------------------------------------------------------------------
(***************************************************************************)
(* The layers                                                              *)
(***************************************************************************)
LEMMA OpenSpanCall ==
  ASSUME NEW c, IsCall(c), NEW l \in Layers
  PROVE  LET d == OpenSpan(c, l) IN
         /\ IsCall(d) /\ d.pc = c.pc /\ d.op = c.op /\ d.id = c.id /\ d.title = c.title
         /\ d.ok = c.ok /\ d.res = c.res
         /\ \A k \in Layers : d.spans[k] \in {c.spans[k], "open"}
         /\ ~c.ok => d = c
  BY DEF OpenSpan, IsCall

LEMMA EnterUsecaseCall ==
  ASSUME NEW c, IsCall(c)
  PROVE  LET d == EnterUsecase(c) IN
         /\ IsCall(d) /\ d.op = c.op /\ d.id = c.id /\ d.title = c.title
         /\ d.res = c.res /\ d.spans = c.spans
         /\ d = c \/ (c.ok /\ ~d.ok /\ d.pc = "return")
<1>1. /\ IsCall(Failed(c)) /\ Failed(c).op = c.op /\ Failed(c).id = c.id /\ Failed(c).title = c.title
      /\ Failed(c).res = c.res /\ Failed(c).spans = c.spans /\ ~Failed(c).ok /\ Failed(c).pc = "return"
  BY DEF Failed, IsCall
<1>2. EnterUsecase(c) = c \/ (c.ok /\ EnterUsecase(c) = Failed(c))
  BY DEF EnterUsecase, ToDbUpdateStreamParams, StringToPgUUID
<1>3. QED
  BY <1>1, <1>2

LEMMA BindCall ==
  ASSUME NEW c, IsCall(c), c.ok, c.op \in {"list", "get", "update"}
  PROVE  LET d == Bind(c) IN
         /\ IsCall(d) /\ d.op = c.op /\ d.title = c.title /\ d.res = c.res /\ d.spans = c.spans
         /\ d.id = c.id \/ c.op = "list"
         /\ \/ d.pc = "acquire" /\ d.ok /\ (c.op = "update" => c.title # Nothing)
            \/ d.pc = "answered" /\ ~d.ok
  BY DEF Bind, BindUpdate, BindGet, BindList, IsCall

\* A request through the layers: it goes to the pool, or comes back with an error, but
\* for a preflight request.
LEMMA HandleCall ==
  ASSUME NEW c, IsCall(c), Stage(c), c.pc = "filter",
         NEW d, d = CORS(c, StreamRepoWrapper(EnterUsecase(StreamUsecaseWrapper(StreamServiceWrapper(Bind(c))))))
  PROVE  /\ IsCall(d) /\ Stage(d) /\ d.op = c.op /\ d.title = c.title
         /\ d.id = c.id \/ c.op = "list"
         /\ d.pc = "acquire" \/ (d.pc \in {"answered", "return"} /\ (~d.ok \/ d.op = "options"))
<1>1. /\ c.ok /\ c.res = Nothing /\ c.op # "none" /\ \A l \in Layers : c.spans[l] = "none"
  BY DEF Stage, SpansOf, Served
<1>2. CASE c.op = "options"
  <2>1. d = [c EXCEPT !.pc = "answered"]
    BY <1>2 DEF CORS
  <2>2. IsCall(d) /\ d.pc = "answered" /\ d.op = "options" /\ d.id = c.id /\ d.title = c.title /\ d.ok
        /\ d.spans = c.spans /\ d.res = c.res
    BY <1>1, <1>2, <2>1 DEF IsCall
  <2>3. QED
    BY <1>1, <1>2, <2>2 DEF Stage, SpansOf, Served, Result
<1>3. CASE c.op \in {"list", "get", "update"}
  <2>1. PICK b : b = Bind(c)
    OBVIOUS
  <2>2. /\ IsCall(b) /\ b.op = c.op /\ b.title = c.title /\ b.res = c.res /\ b.spans = c.spans
        /\ b.id = c.id \/ c.op = "list"
        /\ \/ b.pc = "acquire" /\ b.ok /\ (c.op = "update" => c.title # Nothing)
           \/ b.pc = "answered" /\ ~b.ok
    BY <1>1, <1>3, <2>1, BindCall
  <2>3. PICK e : e = StreamUsecaseWrapper(StreamServiceWrapper(b))
    OBVIOUS
  <2>4. /\ IsCall(e) /\ e.pc = b.pc /\ e.op = c.op /\ e.title = c.title /\ e.id = b.id /\ e.ok = b.ok /\ e.res = c.res
        /\ \A l \in Layers : e.spans[l] \in {"none", "open"}
        /\ ~b.ok => e = b
    <3>1. PICK x : x = OpenSpan(b, "service")
      OBVIOUS
    <3>2. e = OpenSpan(x, "usecase")
      BY <2>3, <3>1 DEF StreamUsecaseWrapper, StreamServiceWrapper
    <3>3. "service" \in Layers /\ "usecase" \in Layers
      BY DEF Layers
    <3>4. /\ IsCall(x) /\ x.pc = b.pc /\ x.op = b.op /\ x.id = b.id /\ x.title = b.title
          /\ x.ok = b.ok /\ x.res = b.res /\ (\A k \in Layers : x.spans[k] \in {b.spans[k], "open"})
          /\ (~b.ok => x = b)
      <4>1. IsCall(b)
        BY <2>2
      <4>2. QED
        BY <3>1, <3>3, <4>1, OpenSpanCall
    <3>5. /\ IsCall(e) /\ e.pc = x.pc /\ e.op = x.op /\ e.id = x.id /\ e.title = x.title
          /\ e.ok = x.ok /\ e.res = x.res /\ (\A k \in Layers : e.spans[k] \in {x.spans[k], "open"})
          /\ (~x.ok => e = x)
      BY <3>2, <3>3, <3>4, OpenSpanCall
    <3>6. QED
      BY <1>1, <2>2, <3>4, <3>5
  <2>5. PICK u : u = EnterUsecase(e)
    OBVIOUS
  <2>6. /\ IsCall(u) /\ u.op = c.op /\ u.id = b.id /\ u.title = c.title /\ u.res = c.res /\ u.spans = e.spans
        /\ u = e \/ (~u.ok /\ u.pc = "return")
    BY <2>4, <2>5, EnterUsecaseCall
  <2>7. d = OpenSpan(u, "repo")
    BY <1>3, <2>1, <2>3, <2>5 DEF CORS, StreamRepoWrapper
  <2>8. /\ IsCall(d) /\ d.pc = u.pc /\ d.op = c.op /\ d.id = b.id /\ d.title = c.title /\ d.ok = u.ok /\ d.res = c.res
        /\ \A l \in Layers : d.spans[l] \in {u.spans[l], "open"}
        /\ ~u.ok => d = u
    BY <2>6, <2>7, OpenSpanCall DEF Layers
  <2>9. \A l \in Layers : d.spans[l] \in {"none", "open"}
    BY <2>4, <2>6, <2>8
  <2>10. CASE d.pc = "acquire"
    BY <1>1, <1>3, <2>2, <2>4, <2>6, <2>8, <2>9, <2>10 DEF IsCall, Stage, SpansOf, Served, Result
  <2>11. CASE d.pc = "return"
    <3>1. ~d.ok
      BY <2>2, <2>4, <2>6, <2>8, <2>11
    <3>2. SpansOf(d) /\ Served(d) /\ Result(d)
      BY <1>3, <2>8, <2>9, <2>11, <3>1 DEF SpansOf, Served, Result
    <3>3. QED
      BY <2>2, <2>8, <2>11, <3>1, <3>2 DEF Stage
  <2>12. CASE d.pc = "answered"
    <3>1. d = b /\ ~b.ok
      BY <2>2, <2>4, <2>6, <2>8, <2>12
    <3>2. QED
      BY <1>1, <1>3, <2>2, <2>12, <3>1 DEF Stage, SpansOf, Served, Result
  <2>13. QED
    BY <2>2, <2>4, <2>6, <2>8, <2>10, <2>11, <2>12
<1>4. QED
  BY <1>1, <1>2, <1>3 DEF IsCall

LEMMA CloseSpanCall ==
  ASSUME NEW c, IsCall(c), NEW l \in Layers
  PROVE  LET d == CloseSpan(c, l) IN
         /\ IsCall(d) /\ d.pc = c.pc /\ d.op = c.op /\ d.id = c.id /\ d.title = c.title
         /\ d.ok = c.ok /\ d.res = c.res
         /\ \A k \in Layers : d.spans[k] = IF k = l /\ c.spans[k] = "open"
                                           THEN IF c.ok THEN "ended" ELSE "failed"
                                           ELSE c.spans[k]
  BY DEF CloseSpan, IsCall

\* A change of the result only.
LEMMA ResultCall ==
  ASSUME NEW c, IsCall(c), NEW x
  PROVE  LET d == [c EXCEPT !.res = x] IN
         /\ IsCall(d) /\ d.pc = c.pc /\ d.op = c.op /\ d.id = c.id /\ d.title = c.title
         /\ d.ok = c.ok /\ d.res = x /\ d.spans = c.spans
  BY DEF IsCall

Returned(c) ==
  [CloseSpan(LeaveService(CloseSpan(LeaveUsecase(CloseSpan(c, "repo")), "usecase")), "service")
     EXCEPT !.pc = "answered"]

\* A call back through the layers: every open span is closed, and the row or the rows
\* become the answer.
LEMMA ReturnCall ==
  ASSUME NEW c, IsCall(c), Stage(c), c.pc = "return",
         NEW d, d = Returned(c)
  PROVE  /\ IsCall(d) /\ Stage(d) /\ d.pc = "answered" /\ d.op = c.op /\ d.id = c.id /\ d.title = c.title
         /\ d.ok = c.ok /\ (c.ok => Told(d) = Told(c))
         /\ c.ok /\ c.op = "list" => \A s \in Streams : d.res.streams[s].title = c.res[s].Title
<1>1. c.ok \in BOOLEAN /\ (\A l \in Layers : c.spans[l] \in {"none", "open"}) /\ c.op # "none"
  BY DEF Stage, SpansOf, Served, IsCall
<1>2. "repo" \in Layers /\ "usecase" \in Layers /\ "service" \in Layers
      /\ \A l \in Layers : l \in {"repo", "usecase", "service"}
  BY DEF Layers
<1> DEFINE over == IF c.ok THEN "ended" ELSE "failed"
<1>3. PICK x1 : x1 = CloseSpan(c, "repo")
  OBVIOUS
<1>4. /\ IsCall(x1) /\ x1.pc = c.pc /\ x1.op = c.op /\ x1.id = c.id /\ x1.title = c.title /\ x1.ok = c.ok
      /\ x1.res = c.res
      /\ \A k \in Layers : x1.spans[k] = IF k = "repo" /\ c.spans[k] = "open" THEN over ELSE c.spans[k]
  BY <1>2, <1>3, CloseSpanCall
<1>5. PICK x2 : x2 = LeaveUsecase(x1)
  OBVIOUS
<1>6. /\ IsCall(x2) /\ x2.pc = c.pc /\ x2.op = c.op /\ x2.id = c.id /\ x2.title = c.title /\ x2.ok = c.ok
      /\ x2.spans = x1.spans
  BY <1>4, <1>5, ResultCall DEF LeaveUsecase
<1>7. PICK x3 : x3 = CloseSpan(x2, "usecase")
  OBVIOUS
<1>8. /\ IsCall(x3) /\ x3.pc = c.pc /\ x3.op = c.op /\ x3.id = c.id /\ x3.title = c.title /\ x3.ok = c.ok
      /\ x3.res = x2.res
      /\ \A k \in Layers : x3.spans[k] = IF k = "usecase" /\ x1.spans[k] = "open" THEN over ELSE x1.spans[k]
  <2>1. /\ IsCall(x3) /\ x3.pc = x2.pc /\ x3.op = x2.op /\ x3.id = x2.id /\ x3.title = x2.title
        /\ x3.ok = x2.ok /\ x3.res = x2.res
        /\ \A k \in Layers : x3.spans[k] = IF k = "usecase" /\ x2.spans[k] = "open"
                                            THEN IF x2.ok THEN "ended" ELSE "failed" ELSE x2.spans[k]
    <3>1. IsCall(x2) /\ "usecase" \in Layers
      BY <1>2, <1>6
    <3>2. QED
      BY <1>7, <3>1, CloseSpanCall
  <2>2. QED
    BY <1>6, <2>1
<1>9. PICK x4 : x4 = LeaveService(x3)
  OBVIOUS
<1>10. /\ IsCall(x4) /\ x4.pc = c.pc /\ x4.op = c.op /\ x4.id = c.id /\ x4.title = c.title /\ x4.ok = c.ok
       /\ x4.spans = x3.spans
  BY <1>8, <1>9, ResultCall DEF LeaveService
<1>11. PICK x5 : x5 = CloseSpan(x4, "service")
  OBVIOUS
<1>12. /\ IsCall(x5) /\ x5.pc = c.pc /\ x5.op = c.op /\ x5.id = c.id /\ x5.title = c.title /\ x5.ok = c.ok
       /\ x5.res = x4.res
       /\ \A k \in Layers : x5.spans[k] = IF k = "service" /\ x3.spans[k] = "open" THEN over ELSE x3.spans[k]
  <2>1. /\ IsCall(x5) /\ x5.pc = x4.pc /\ x5.op = x4.op /\ x5.id = x4.id /\ x5.title = x4.title
        /\ x5.ok = x4.ok /\ x5.res = x4.res
        /\ \A k \in Layers : x5.spans[k] = IF k = "service" /\ x4.spans[k] = "open"
                                            THEN IF x4.ok THEN "ended" ELSE "failed" ELSE x4.spans[k]
    <3>1. IsCall(x4) /\ "service" \in Layers
      BY <1>2, <1>10
    <3>2. QED
      BY <1>11, <3>1, CloseSpanCall
  <2>2. QED
    BY <1>10, <2>1
<1>13. d = [x5 EXCEPT !.pc = "answered"]
  BY <1>3, <1>5, <1>7, <1>9, <1>11 DEF Returned
<1>14. /\ IsCall(d) /\ d.pc = "answered" /\ d.op = c.op /\ d.id = c.id /\ d.title = c.title /\ d.ok = c.ok
       /\ d.spans = x5.spans /\ d.res = x4.res
  BY <1>12, <1>13 DEF IsCall
<1>15. SpansOf(d)
  <2>1. \A k \in Layers : x5.spans[k] \in {"none", over}
    BY <1>1, <1>2, <1>4, <1>8, <1>12
  <2>2. QED
    BY <2>1, <1>14 DEF SpansOf
<1>16. Served(d)
  BY <1>1, <1>14 DEF Served
<1>17. CASE ~c.ok
  <2>1. x4.res = Nothing
    BY <1>8, <1>9, <1>17, ResultCall DEF LeaveService
  <2>2. QED
    BY <1>14, <1>15, <1>16, <1>17, <2>1 DEF Stage, Result
<1>18. CASE c.ok /\ c.op = "list"
  <2>1. c.res \in [Streams -> Rows] /\ \A s \in Streams : c.res[s].ID = s
    BY <1>18 DEF Stage, Result
  <2>2. PICK rows : rows = ToApiStreamResponseList(c.res)
    OBVIOUS
  <2>3. rows \in [Streams -> Shown] /\ \A s \in Streams : rows[s].id = s /\ rows[s].title = c.res[s].Title
    BY <2>1, <2>2 DEF ToApiStreamResponseList, ToApiStreamResponse, Rows, Shown
  <2>4. x2.res = rows
    BY <1>4, <1>5, <1>18, <2>2, ResultCall DEF LeaveUsecase
  <2>5. x4.res = [streams |-> rows]
    BY <1>8, <1>9, <1>18, <2>4, ResultCall DEF LeaveService
  <2>6. Result(d)
    <3>1. [streams |-> rows] \in [streams : [Streams -> Shown]] /\ [streams |-> rows].streams = rows
      BY <2>3
    <3>2. d.res \in [streams : [Streams -> Shown]] /\ \A s \in Streams : d.res.streams[s].id = s
      BY <1>14, <2>3, <2>5, <3>1
    <3>3. QED
      BY <1>14, <1>18, <3>2 DEF Result
  <2>7. QED
    <3>1. d.res.streams = rows
      BY <1>14, <2>5
    <3>2. Told(d) = Told(c)
      BY <1>14, <1>18, <2>2, <3>1 DEF Told
    <3>3. QED
      BY <1>14, <1>15, <1>16, <2>3, <2>6, <3>1, <3>2 DEF Stage
<1>19. CASE c.ok /\ c.op = "get"
  <2>1. PICK row : row = ToApiStreamResponse(c.res)
    OBVIOUS
  <2>2. x2.res = row
    BY <1>4, <1>5, <1>19, <2>1, ResultCall DEF LeaveUsecase
  <2>3. x4.res = [stream |-> row]
    BY <1>8, <1>9, <1>19, <2>2, ResultCall DEF LeaveService
  <2>4. d.res.stream = row
    BY <1>14, <2>3
  <2>5. Told(d) = Told(c)
    BY <1>14, <1>19, <2>1, <2>4 DEF Told
  <2>6. QED
    BY <1>14, <1>15, <1>16, <1>19, <2>5 DEF Stage, Result
<1>20. CASE c.ok /\ c.op = "update"
  <2>1. c.id \in Streams /\ c.title \in Titles /\ c.res = Row(c.id, c.title)
    BY <1>20 DEF Stage, Result
  <2>2. x2.res = [id |-> c.id, title |-> c.title]
    BY <1>4, <1>5, <1>20, <2>1, ResultCall DEF LeaveUsecase, ToApiStreamUpdateResult, Row
  <2>3. x4.res = [stream |-> [id |-> c.id, title |-> c.title]]
    BY <1>8, <1>9, <1>20, <2>2, ResultCall DEF LeaveService
  <2>4. Result(d)
    BY <1>14, <1>20, <2>1, <2>3 DEF Result
  <2>5. Told(d) = Told(c)
    <3>1. d.res.stream = [id |-> c.id, title |-> c.title]
      BY <1>14, <2>3
    <3>2. ToApiStreamResponse(c.res) = [id |-> c.id, title |-> c.title]
      BY <2>1 DEF ToApiStreamResponse, Row
    <3>3. QED
      BY <1>14, <1>20, <3>1, <3>2 DEF Told
  <2>6. QED
    BY <1>14, <1>15, <1>16, <1>20, <2>4, <2>5 DEF Stage
<1>21. QED
  <2>1. c.ok => c.op \in {"list", "get", "update"}
    BY DEF Stage, Result
  <2>2. QED
    BY <1>1, <1>17, <1>18, <1>19, <1>20, <2>1

-----------------------------------------------------------------------------
(***************************************************************************)
(* A step of one call                                                      *)
(***************************************************************************)
InDatabase == {"query", "statement", "commit"}

\* The call in slot r becomes d.  Only the commit of an update adds to the history; r
\* takes a connection or a row only on its way into the database, and takes none from others.
ApiStep(r, d) ==
  /\ IsCall(d) /\ Stage(d) /\ call' = [call EXCEPT ![r] = d]
  /\ \/ UNCHANGED history
     \/ /\ call[r].pc = "commit"
        /\ history' = [history EXCEPT ![call[r].id] = Append(@, call[r].title)]
  /\ UNCHANGED faults \/ Fault
  /\ \/ UNCHANGED conns
     \/ conns' = conns \cup {r} /\ Cardinality(conns) < MaxConns
     \/ conns' = conns \ {r}
  /\ r \in conns' <=> d.pc \in InDatabase
  /\ lock' \in [Streams -> Requests \cup {NoRequest, Orphan}]
  /\ \A s \in Streams :
       /\ lock'[s] = r => d.pc = "commit" /\ d.id = s
       /\ \A q \in Requests \ {r} : lock'[s] = q => lock[s] = q
  /\ d.pc \in {"return", "answered"} /\ d.op = "update" /\ d.ok => d.title \in ToSet(history'[d.id])

\* Histories only grow.
Grown ==
  \A s \in Streams :
    /\ history'[s] \in Seq(Titles) /\ history'[s] # <<>>
    /\ Len(history[s]) \in Nat /\ Len(history'[s]) \in Nat /\ Len(history[s]) <= Len(history'[s])
    /\ \A i \in 1..Len(history[s]) : history'[s][i] = history[s][i]
    /\ ToSet(history[s]) \subseteq ToSet(history'[s])

LEMMA HistoryGrows ==
  ASSUME ApiTypes, NEW r \in Requests, Stage(call[r]),
         \/ UNCHANGED history
         \/ /\ call[r].pc = "commit"
            /\ history' = [history EXCEPT ![call[r].id] = Append(@, call[r].title)]
  PROVE  /\ Grown /\ history' \in [Streams -> Seq(Titles)]
         /\ call[r].pc = "commit" /\ ~UNCHANGED history =>
              call[r].title \in ToSet(history'[call[r].id])
<1>1. ASSUME NEW h \in Seq(Titles), h # <<>>, NEW t \in Titles
      PROVE  /\ Append(h, t) \in Seq(Titles) /\ Append(h, t) # <<>>
             /\ Len(h) \in Nat /\ Len(Append(h, t)) \in Nat /\ Len(h) <= Len(Append(h, t))
             /\ \A i \in 1..Len(h) : Append(h, t)[i] = h[i]
             /\ ToSet(h) \subseteq ToSet(Append(h, t)) /\ t \in ToSet(Append(h, t))
  <2>1. /\ Append(h, t) \in Seq(Titles) /\ Append(h, t) # <<>> /\ Len(Append(h, t)) = Len(h) + 1
        /\ Append(h, t)[Len(h) + 1] = t /\ Len(h) \in Nat
        /\ \A i \in 1..Len(h) : Append(h, t)[i] = h[i]
    BY <1>1, AppendProperties, LenProperties
  <2>2. DOMAIN h = 1..Len(h) /\ DOMAIN Append(h, t) = 1..(Len(h) + 1)
    BY <2>1, LenProperties
  <2>3. ToSet(h) \subseteq ToSet(Append(h, t)) /\ t \in ToSet(Append(h, t))
    BY <2>1, <2>2 DEF ToSet
  <2>4. QED
    BY <2>1, <2>3
<1>2. \A s \in Streams : history[s] \in Seq(Titles) /\ history[s] # <<>> /\ Len(history[s]) \in Nat
  BY LenProperties DEF ApiTypes
<1>3. CASE UNCHANGED history
  BY <1>2, <1>3 DEF Grown, ApiTypes
<1>4. CASE /\ call[r].pc = "commit"
           /\ history' = [history EXCEPT ![call[r].id] = Append(@, call[r].title)]
  <2>1. PICK k \in Streams, t \in Titles : k = call[r].id /\ t = call[r].title
    BY <1>4 DEF Stage, Served
  <2>2. PICK h : h = history
    OBVIOUS
  <2>3. history' = [h EXCEPT ![k] = Append(h[k], t)] /\ h \in [Streams -> Seq(Titles)]
    BY <1>4, <2>1, <2>2 DEF ApiTypes
  <2>4. /\ Append(h[k], t) \in Seq(Titles) /\ Append(h[k], t) # <<>>
        /\ Len(h[k]) \in Nat /\ Len(Append(h[k], t)) \in Nat /\ Len(h[k]) <= Len(Append(h[k], t))
        /\ \A i \in 1..Len(h[k]) : Append(h[k], t)[i] = h[k][i]
        /\ ToSet(h[k]) \subseteq ToSet(Append(h[k], t)) /\ t \in ToSet(Append(h[k], t))
    BY <1>1, <1>2, <2>1, <2>2
  <2>5. history'[k] = Append(h[k], t) /\ \A s \in Streams : s # k => history'[s] = h[s]
    BY <2>3
  <2>6. ASSUME NEW s \in Streams
        PROVE  /\ history'[s] \in Seq(Titles) /\ history'[s] # <<>>
               /\ Len(history[s]) \in Nat /\ Len(history'[s]) \in Nat /\ Len(history[s]) <= Len(history'[s])
               /\ \A i \in 1..Len(history[s]) : history'[s][i] = history[s][i]
               /\ ToSet(history[s]) \subseteq ToSet(history'[s])
    <3>1. CASE s = k
      BY <2>2, <2>4, <2>5, <3>1
    <3>2. CASE s # k
      BY <1>2, <2>2, <2>5, <3>2
    <3>3. QED
      BY <3>1, <3>2
  <2>7. history' \in [Streams -> Seq(Titles)]
    BY <2>3, <2>4
  <2>8. QED
    BY <2>1, <2>4, <2>5, <2>6, <2>7 DEF Grown
<1>5. QED
  BY <1>3, <1>4

LEMMA ApiStepKeeps ==
  ASSUME ApiInv, NEW r \in Requests, NEW d, ApiStep(r, d)
  PROVE  ApiInv' /\ Grown
<1>1. Grown /\ history' \in [Streams -> Seq(Titles)]
  BY HistoryGrows DEF ApiInv, ApiStep
<1>2. /\ call'[r] = d /\ \A q \in Requests \ {r} : call'[q] = call[q]
  BY DEF ApiInv, ApiTypes, ApiStep
<1>3. conns' \subseteq Requests \cup {Playback} /\ IsFiniteSet(conns') /\ Cardinality(conns') <= MaxConns
  <2>1. IsFiniteSet(conns) /\ Cardinality(conns) \in Nat /\ Cardinality(conns) <= MaxConns
        /\ conns \subseteq Requests \cup {Playback} /\ MaxConns \in Nat
    BY FS_CardinalityType, ConnsAssumption DEF ApiInv, ApiTypes
  <2>2. CASE UNCHANGED conns
    BY <2>1, <2>2
  <2>3. CASE conns' = conns \cup {r} /\ Cardinality(conns) < MaxConns
    <3>1. IsFiniteSet(conns') /\ Cardinality(conns') \in {Cardinality(conns), Cardinality(conns) + 1}
      BY <2>1, <2>3, FS_AddElement
    <3>2. QED
      BY <2>1, <2>3, <3>1
  <2>4. CASE conns' = conns \ {r}
    <3>1. IsFiniteSet(conns') /\ Cardinality(conns') \in {Cardinality(conns), Cardinality(conns) - 1}
      BY <2>1, <2>4, FS_RemoveElement
    <3>2. QED
      BY <2>1, <2>4, <3>1
  <2>5. QED
    BY <2>2, <2>3, <2>4 DEF ApiStep
<1>4. faults' \in 0..MaxFaults
  BY ConnsAssumption DEF ApiInv, ApiTypes, ApiStep, Fault
<1>5. ApiTypes'
  BY <1>1, <1>2, <1>3, <1>4 DEF ApiInv, ApiTypes, ApiStep, Grown
<1>6. \A q \in Requests : Stage(call'[q])
  BY <1>2 DEF ApiInv, ApiStep
<1>7. Held'
  <2>1. ASSUME NEW q \in Requests, q # r
        PROVE  /\ q \in conns' <=> call'[q].pc \in {"query", "statement", "commit"}
               /\ \A s \in Streams : lock'[s] = q => call'[q].pc = "commit" /\ call'[q].id = s
    <3>1. q \in conns' <=> q \in conns
      BY <2>1 DEF ApiStep
    <3>2. \A s \in Streams : lock'[s] = q => lock[s] = q
      BY <2>1 DEF ApiStep
    <3>3. QED
      BY <1>2, <2>1, <3>1, <3>2 DEF ApiInv, Held
  <2>2. r \in conns' <=> d.pc \in {"query", "statement", "commit"}
    BY DEF ApiStep, InDatabase
  <2>3. \A s \in Streams : lock'[s] = r => d.pc = "commit" /\ d.id = s
    BY DEF ApiStep
  <2>4. QED
    BY <1>2, <2>1, <2>2, <2>3 DEF Held
<1>8. Committed'
  <2>1. ASSUME NEW q \in Requests, call'[q].pc \in {"return", "answered"}, call'[q].op = "update", call'[q].ok
        PROVE  call'[q].title \in ToSet(history'[call'[q].id])
    <3>1. CASE q = r
      BY <1>2, <2>1, <3>1 DEF ApiStep
    <3>2. CASE q # r
      <4>1. call[q].title \in ToSet(history[call[q].id]) /\ call'[q] = call[q]
        BY <1>2, <2>1, <3>2 DEF ApiInv, Committed
      <4>2. call[q].id \in Streams
        BY <2>1, <4>1 DEF ApiInv, Stage, Result
      <4>3. QED
        BY <1>1, <4>1, <4>2 DEF Grown
    <3>3. QED
      BY <3>1, <3>2
  <2>2. QED
    BY <2>1 DEF Committed
<1>9. QED
  BY <1>1, <1>5, <1>6, <1>7, <1>8 DEF ApiInv

-----------------------------------------------------------------------------
(***************************************************************************)
(* The steps of the server                                                 *)
(***************************************************************************)
\* The server moves a call on: it stays the call of its client, and the list it returns
\* has the last title of every stream.
Serves(r, d) ==
  /\ call[r].pc \notin {"none", "answered", "lost"} /\ d.pc \notin {"none", "filter", "lost"}
  /\ d.op = call[r].op /\ d.title = call[r].title /\ (d.id = call[r].id \/ d.op = "list")
  /\ d.op = "list" /\ d.ok /\ d.pc = "return" =>
       UNCHANGED history /\ \A s \in Streams : d.res[s].Title = Last(history[s])
  /\ d.op = "list" /\ d.ok /\ d.pc = "answered" =>
       /\ call[r].pc = "return" /\ call[r].ok /\ UNCHANGED history
       /\ \A s \in Streams : d.res.streams[s].title = call[r].res[s].Title

\* What the step tells the client: nothing, that the call failed, or its answer.
Waiting(c) == c.pc \notin {"none", "return", "answered", "lost"} /\ c.op # "options"

Stored(r) == At(r, "commit") /\ call[r].op = "update" /\ call[r].id \in Streams /\ Write(r)

Shows(s) == [id |-> s, title |-> Title(s)]

Tells(r, d) ==
  \/ RequestOf(d) = RequestOf(call[r]) /\ UNCHANGED history
  \/ /\ RequestOf(d) = AskedFor(call[r], "failed", Nothing)
     /\ Waiting(call[r]) /\ (UNCHANGED history \/ Stored(r))
  \/ /\ RequestOf(d) = AskedFor(call[r], "done", [s \in Streams |-> Shows(s)])
     /\ Waiting(call[r]) /\ call[r].op = "list" /\ UNCHANGED history
  \/ /\ RequestOf(d) = AskedFor(call[r], "done", Shows(call[r].id))
     /\ Waiting(call[r]) /\ call[r].op = "get" /\ call[r].id \in Streams /\ UNCHANGED history
  \/ /\ RequestOf(d) = AskedFor(call[r], "done", [id |-> call[r].id, title |-> call[r].title])
     /\ Waiting(call[r]) /\ Stored(r)

\* A change of the location only.
LEMMA GotoCall ==
  ASSUME NEW c, IsCall(c), NEW l \in {"query", "statement", "return", "lost"}
  PROVE  LET d == [c EXCEPT !.pc = l] IN
         /\ IsCall(d) /\ d.pc = l /\ d.op = c.op /\ d.id = c.id /\ d.title = c.title
         /\ d.ok = c.ok /\ d.res = c.res /\ d.spans = c.spans
  BY DEF IsCall

\* A call that fails in the database returns; nothing is said of its result.
LEMMA FailedCall ==
  ASSUME NEW c, IsCall(c), Stage(c), c.pc \in {"acquire", "query", "statement", "commit"}
  PROVE  LET d == Failed(c) IN
         /\ IsCall(d) /\ Stage(d) /\ d.pc = "return" /\ ~d.ok
         /\ d.op = c.op /\ d.id = c.id /\ d.title = c.title
<1>1. PICK d : d = Failed(c)
  OBVIOUS
<1>2. /\ IsCall(d) /\ d.pc = "return" /\ ~d.ok /\ d.op = c.op /\ d.id = c.id /\ d.title = c.title
      /\ d.spans = c.spans
  BY <1>1 DEF Failed, IsCall
<1>3. c.op # "none" /\ \A l \in Layers : c.spans[l] \in {"none", "open"}
  BY DEF Stage, SpansOf, Served
<1>4. SpansOf(d) /\ Served(d) /\ Result(d)
  BY <1>2, <1>3 DEF SpansOf, Served, Result
<1>5. QED
  BY <1>1, <1>2, <1>4 DEF Stage

\* Nobody else is affected when the rows of r are given up.
LEMMA UnlockRows ==
  ASSUME ApiTypes, NEW r \in Requests, NEW left \in {NoRequest, Orphan}, Unlock(r, left)
  PROVE  /\ lock' \in [Streams -> Requests \cup {NoRequest, Orphan}]
         /\ \A s \in Streams :
              /\ lock'[s] # r
              /\ \A q \in Requests \ {r} : lock'[s] = q => lock[s] = q
  BY NamesAssumption DEF ApiTypes, Unlock

\* A request that is not in the database holds nothing.
LEMMA HoldsNothing ==
  ASSUME ApiInv, NEW r \in Requests, call[r].pc \notin InDatabase
  PROVE  r \notin conns /\ \A s \in Streams : lock[s] # r
  BY DEF ApiInv, Held, InDatabase

LEMMA HandleStep ==
  ASSUME ApiInv, NEW r \in Requests, Handle(r)
  PROVE  \E d : ApiStep(r, d) /\ Serves(r, d) /\ Tells(r, d)
<1>1. PICK c : c = call[r]
  OBVIOUS
<1>2. PICK d : d = CORS(c, StreamRepoWrapper(EnterUsecase(StreamUsecaseWrapper(StreamServiceWrapper(Bind(c))))))
  OBVIOUS
<1>3. /\ call' = [call EXCEPT ![r] = d] /\ c.pc = "filter" /\ IsCall(c) /\ Stage(c)
      /\ UNCHANGED <<history, lock, conns, faults>>
  BY <1>1, <1>2 DEF Handle, At, ApiInv, ApiTypes
<1>4. /\ IsCall(d) /\ Stage(d) /\ d.op = c.op /\ d.title = c.title
      /\ d.id = c.id \/ c.op = "list"
      /\ d.pc = "acquire" \/ (d.pc \in {"answered", "return"} /\ (~d.ok \/ d.op = "options"))
  BY <1>2, <1>3, HandleCall
<1>5. r \notin conns /\ \A s \in Streams : lock[s] # r
  BY <1>1, <1>3, HoldsNothing DEF InDatabase
<1>6. ApiStep(r, d)
  BY <1>3, <1>4, <1>5 DEF ApiStep, ApiInv, ApiTypes, InDatabase
<1>7. Serves(r, d)
  BY <1>1, <1>3, <1>4 DEF Serves
<1>8. Tells(r, d)
  <2>1. c.op # "none" /\ (d.pc = "acquire" => d.op # "options" /\ d.ok)
    BY <1>3, <1>4 DEF Stage, Served
  <2>2. CASE c.op = "options"
    BY <1>1, <1>3, <1>4, <2>1, <2>2 DEF Tells, RequestOf, Unasked, Decided
  <2>3. CASE c.op # "options"
    BY <1>1, <1>3, <1>4, <2>1, <2>3 DEF Tells, RequestOf, Unasked, Decided, AskedFor, Waiting
  <2>4. QED
    BY <2>2, <2>3
<1>9. QED
  BY <1>6, <1>7, <1>8

LEMMA AcquireStep ==
  ASSUME ApiInv, NEW r \in Requests, Acquire(r)
  PROVE  \E d : ApiStep(r, d) /\ Serves(r, d) /\ Tells(r, d)
<1>1. PICK c : c = call[r]
  OBVIOUS
<1>2. PICK l : l = IF c.op = "update" THEN "statement" ELSE "query"
  OBVIOUS
<1>3. PICK d : d = [c EXCEPT !.pc = l]
  OBVIOUS
<1>4. /\ call' = [call EXCEPT ![r] = d] /\ c.pc = "acquire" /\ IsCall(c) /\ Stage(c)
      /\ Cardinality(conns) < MaxConns /\ conns' = conns \cup {r} /\ UNCHANGED <<history, lock, faults>>
  BY <1>1, <1>2, <1>3 DEF Acquire, Goto, At, ApiInv, ApiTypes
<1>5. /\ IsCall(d) /\ d.pc = l /\ d.op = c.op /\ d.id = c.id /\ d.title = c.title
      /\ d.ok = c.ok /\ d.res = c.res /\ d.spans = c.spans
  <2>1. IsCall(c) /\ l \in {"query", "statement", "return", "lost"}
    BY <1>2, <1>4
  <2>2. QED
    BY <1>3, <2>1, GotoCall
<1>6. Stage(d)
  BY <1>2, <1>4, <1>5 DEF Stage, SpansOf, Served, Result
<1>7. \A s \in Streams : lock[s] # r
  BY <1>1, <1>4, HoldsNothing DEF InDatabase
<1>8. ApiStep(r, d)
  BY <1>2, <1>4, <1>5, <1>6, <1>7 DEF ApiStep, ApiInv, ApiTypes, InDatabase
<1>9. Serves(r, d)
  BY <1>1, <1>2, <1>4, <1>5 DEF Serves
<1>10. Tells(r, d)
  BY <1>1, <1>2, <1>4, <1>5 DEF Tells, RequestOf, Unasked, Decided, AskedFor
<1>11. QED
  BY <1>8, <1>9, <1>10

LEMMA FailStep ==
  ASSUME ApiInv, NEW r \in Requests,
         AcquireFails(r) \/ QueryFails(r) \/ StatementFails(r) \/ CommitFails(r)
  PROVE  \E d : ApiStep(r, d) /\ Serves(r, d) /\ Tells(r, d)
<1>1. PICK c : c = call[r]
  OBVIOUS
<1>2. PICK d : d = Failed(c)
  OBVIOUS
<1>3. /\ call' = [call EXCEPT ![r] = d] /\ c.pc \in {"acquire", "query", "statement", "commit"}
      /\ IsCall(c) /\ Stage(c) /\ (UNCHANGED faults \/ Fault)
  BY <1>1, <1>2 DEF AcquireFails, QueryFails, StatementFails, CommitFails, Fail, At, ApiInv, ApiTypes
<1>4. /\ IsCall(d) /\ Stage(d) /\ d.pc = "return" /\ ~d.ok
      /\ d.op = c.op /\ d.id = c.id /\ d.title = c.title
  BY <1>2, <1>3, FailedCall
<1>5. r \in conns => conns' = conns \ {r}
  BY <1>1, HoldsNothing DEF AcquireFails, QueryFails, StatementFails, CommitFails, Release, At, InDatabase
<1>6. r \notin conns => UNCHANGED conns \/ conns' = conns \ {r}
  BY DEF AcquireFails, QueryFails, StatementFails, CommitFails, Release
<1>7. /\ lock' \in [Streams -> Requests \cup {NoRequest, Orphan}]
      /\ \A s \in Streams :
           /\ lock'[s] # r
           /\ \A q \in Requests \ {r} : lock'[s] = q => lock[s] = q
  <2>1. CASE CommitFails(r)
    BY <2>1, UnlockRows DEF CommitFails, ApiInv
  <2>2. CASE ~CommitFails(r)
    <3>1. UNCHANGED lock /\ c.pc # "commit"
      BY <1>1, <2>2 DEF AcquireFails, QueryFails, StatementFails, At
    <3>2. \A s \in Streams : lock[s] # r
      BY <1>1, <3>1 DEF ApiInv, Held
    <3>3. QED
      BY <3>1, <3>2 DEF ApiInv, ApiTypes
  <2>3. QED
    BY <2>1, <2>2
<1>8. \/ UNCHANGED history
      \/ /\ call[r].pc = "commit"
         /\ history' = [history EXCEPT ![call[r].id] = Append(@, call[r].title)]
  BY DEF AcquireFails, QueryFails, StatementFails, CommitFails, Write, At
<1>9. ApiStep(r, d)
  BY <1>3, <1>4, <1>5, <1>6, <1>7, <1>8 DEF ApiStep, InDatabase
<1>10. Serves(r, d)
  BY <1>1, <1>3, <1>4 DEF Serves
<1>11. Tells(r, d)
  <2>1. c.op \in {"list", "get", "update"} /\ (c.pc = "commit" => c.op = "update" /\ c.id \in Streams)
    BY <1>3 DEF Stage, Served
  <2>2. RequestOf(d) = AskedFor(c, "failed", Nothing) /\ Waiting(c)
    BY <1>3, <1>4, <2>1 DEF RequestOf, Unasked, Decided, AskedFor, Waiting
  <2>3. UNCHANGED history \/ Stored(r)
    BY <1>1, <1>8, <2>1 DEF Stored, Write, At
  <2>4. QED
    BY <1>1, <2>2, <2>3 DEF Tells
<1>12. QED
  BY <1>9, <1>10, <1>11

\* The answer of a query.
LEMMA AnsweredCall ==
  ASSUME NEW c, IsCall(c), NEW x
  PROVE  LET d == [c EXCEPT !.res = x, !.pc = "return"] IN
         /\ IsCall(d) /\ d.pc = "return" /\ d.op = c.op /\ d.id = c.id /\ d.title = c.title
         /\ d.ok = c.ok /\ d.res = x /\ d.spans = c.spans
  BY DEF IsCall

LEMMA LastTitle ==
  ASSUME ApiTypes, NEW s \in Streams
  PROVE  /\ Last(history[s]) \in Titles /\ Len(history[s]) \in 1..Len(history[s])
         /\ Last(history[s]) = history[s][Len(history[s])] /\ DOMAIN history[s] = 1..Len(history[s])
<1>1. history[s] \in Seq(Titles) /\ Len(history[s]) \in Nat \ {0} /\ DOMAIN history[s] = 1..Len(history[s])
  BY EmptySeq, LenProperties DEF ApiTypes
<1>2. Len(history[s]) \in 1..Len(history[s])
  BY <1>1
<1>3. QED
  BY <1>1, <1>2, ElementOfSeq DEF Last

LEMMA QueryStep ==
  ASSUME ApiInv, NEW r \in Requests, ListStreams(r) \/ (GetStream(r) /\ call[r].id \in Streams)
  PROVE  \E d : ApiStep(r, d) /\ Serves(r, d) /\ Tells(r, d)
<1>1. PICK c : c = call[r]
  OBVIOUS
<1>2. PICK x : x = IF c.op = "list" THEN [s \in Streams |-> Row(s, Title(s))] ELSE Row(c.id, Title(c.id))
  OBVIOUS
<1>3. PICK d : d = [c EXCEPT !.res = x, !.pc = "return"]
  OBVIOUS
<1>4. /\ call' = [call EXCEPT ![r] = d] /\ c.pc = "query" /\ IsCall(c) /\ Stage(c)
      /\ c.op = "list" \/ (c.op = "get" /\ c.id \in Streams)
      /\ conns' = conns \ {r} /\ UNCHANGED <<history, lock, faults>>
  <2>1. c.pc = "query" /\ IsCall(c) /\ Stage(c) /\ (c.op = "list" \/ (c.op = "get" /\ c.id \in Streams))
        /\ conns' = conns \ {r} /\ UNCHANGED <<history, lock, faults>>
    BY <1>1 DEF ListStreams, GetStream, Release, At, ApiInv, ApiTypes
  <2>2. call' = [call EXCEPT ![r].res = x, ![r].pc = "return"]
    BY <1>1, <1>2 DEF ListStreams, GetStream, Answer
  <2>3. call' = [call EXCEPT ![r] = d]
    BY <1>1, <1>3, <2>1, <2>2 DEF IsCall, ApiInv, ApiTypes
  <2>4. QED
    BY <2>1, <2>3
<1>5. /\ IsCall(d) /\ d.pc = "return" /\ d.op = c.op /\ d.id = c.id /\ d.title = c.title
      /\ d.ok = c.ok /\ d.res = x /\ d.spans = c.spans
  <2>1. IsCall(c)
    BY <1>4
  <2>2. QED
    BY <1>3, <2>1, AnsweredCall
<1>6. \A s \in Streams : Row(s, Title(s)) \in Rows /\ Row(s, Title(s)).ID = s /\ Row(s, Title(s)).Title = Last(history[s])
  BY LastTitle DEF Row, Rows, Title, ApiInv
<1>7. /\ c.op = "list" => x \in [Streams -> Rows] /\ \A s \in Streams : x[s].ID = s /\ x[s].Title = Last(history[s])
      /\ c.op = "get" => x \in Rows
  BY <1>2, <1>4, <1>6
<1>8. Stage(d)
  BY <1>4, <1>5, <1>7 DEF Stage, SpansOf, Served, Result
<1>9. \A s \in Streams : lock[s] # r
  BY <1>1, <1>4 DEF ApiInv, Held
<1>10. ApiStep(r, d)
  BY <1>4, <1>5, <1>8, <1>9 DEF ApiStep, ApiInv, ApiTypes, InDatabase
<1>11. Serves(r, d)
  BY <1>1, <1>4, <1>5, <1>7 DEF Serves
<1>12. Tells(r, d)
  <2>1. ASSUME NEW s \in Streams
        PROVE  ToApiStreamResponse(Row(s, Title(s))) = Shows(s)
    BY DEF ToApiStreamResponse, Row, Shows
  <2>2. c.ok /\ Waiting(c)
    BY <1>4 DEF Stage, Served, Waiting
  <2>3. CASE c.op = "list"
    <3>1. x = [s \in Streams |-> Row(s, Title(s))]
      BY <1>2, <2>3
    <3>2. Told(d) = [s \in Streams |-> Shows(s)]
      BY <1>5, <2>1, <2>3, <3>1 DEF Told, ToApiStreamResponseList
    <3>3. RequestOf(d) = AskedFor(c, "done", [s \in Streams |-> Shows(s)])
      BY <1>5, <2>2, <2>3, <3>2 DEF RequestOf, Unasked, Decided, AskedFor
    <3>4. QED
      BY <1>1, <1>4, <2>2, <2>3, <3>3 DEF Tells
  <2>4. CASE c.op = "get" /\ c.id \in Streams
    <3>1. Told(d) = Shows(c.id)
      BY <1>2, <1>5, <2>1, <2>4 DEF Told
    <3>2. RequestOf(d) = AskedFor(c, "done", Shows(c.id))
      BY <1>5, <2>2, <2>4, <3>1 DEF RequestOf, Unasked, Decided, AskedFor
    <3>3. QED
      BY <1>1, <1>4, <2>2, <2>4, <3>2 DEF Tells
  <2>5. QED
    BY <1>4, <2>3, <2>4
<1>13. QED
  BY <1>10, <1>11, <1>12

LEMMA GetUnknownStep ==
  ASSUME ApiInv, NEW r \in Requests, GetStream(r), call[r].id \notin Streams
  PROVE  \E d : ApiStep(r, d) /\ Serves(r, d) /\ Tells(r, d)
<1>1. PICK c : c = call[r]
  OBVIOUS
<1>2. PICK d : d = Failed(c)
  OBVIOUS
<1>3. /\ call' = [call EXCEPT ![r] = d] /\ c.pc = "query" /\ IsCall(c) /\ Stage(c)
      /\ conns' = conns \ {r} /\ UNCHANGED <<history, lock, faults>>
  BY <1>1, <1>2 DEF GetStream, Fail, Release, At, ApiInv, ApiTypes
<1>4. /\ IsCall(d) /\ Stage(d) /\ d.pc = "return" /\ ~d.ok
      /\ d.op = c.op /\ d.id = c.id /\ d.title = c.title
  BY <1>2, <1>3, FailedCall
<1>5. \A s \in Streams : lock[s] # r
  BY <1>1, <1>3 DEF ApiInv, Held
<1>6. ApiStep(r, d) /\ Serves(r, d)
  BY <1>1, <1>3, <1>4, <1>5 DEF ApiStep, Serves, ApiInv, ApiTypes, InDatabase
<1>7. Tells(r, d)
  <2>1. c.op \in {"list", "get"}
    BY <1>3 DEF Stage, Served
  <2>2. QED
    BY <1>1, <1>3, <1>4, <2>1 DEF Tells, RequestOf, Unasked, Decided, AskedFor, Waiting
<1>8. QED
  BY <1>6, <1>7

LEMMA UpdateStep ==
  ASSUME ApiInv, NEW r \in Requests, UpdateStream(r)
  PROVE  \E d : ApiStep(r, d) /\ Serves(r, d) /\ Tells(r, d)
<1>1. PICK c : c = call[r]
  OBVIOUS
<1>2. PICK d : d = [c EXCEPT !.res = Row(c.id, c.title), !.pc = "commit"]
  OBVIOUS
<1>3. /\ c.pc = "statement" /\ c.id \in Streams /\ IsCall(c) /\ Stage(c) /\ r \in conns
      /\ lock' = [lock EXCEPT ![c.id] = r] /\ UNCHANGED <<history, conns, faults>>
  BY <1>1 DEF UpdateStream, WithTx, At, ApiInv, ApiTypes
<1>4. /\ IsCall(d) /\ d.pc = "commit" /\ d.op = c.op /\ d.id = c.id /\ d.title = c.title
      /\ d.ok = c.ok /\ d.res = Row(c.id, c.title) /\ d.spans = c.spans
  BY <1>2, <1>3 DEF IsCall
<1>5. call' = [call EXCEPT ![r] = d]
  BY <1>1, <1>2, <1>3 DEF UpdateStream, IsCall, ApiInv, ApiTypes
<1>6. Stage(d)
  BY <1>3, <1>4 DEF Stage, SpansOf, Served, Result
<1>7. \A s \in Streams : lock[s] # r
  BY <1>1, <1>3 DEF ApiInv, Held
<1>8. /\ lock' \in [Streams -> Requests \cup {NoRequest, Orphan}]
      /\ \A s \in Streams :
           /\ lock'[s] = r => s = c.id
           /\ \A q \in Requests \ {r} : lock'[s] = q => lock[s] = q
  BY <1>3, <1>7 DEF ApiInv, ApiTypes
<1>9. ApiStep(r, d)
  BY <1>3, <1>4, <1>5, <1>6, <1>8 DEF ApiStep, InDatabase
<1>10. Serves(r, d)
  BY <1>1, <1>3, <1>4 DEF Serves
<1>11. Tells(r, d)
  BY <1>1, <1>3, <1>4 DEF Tells, RequestOf, Unasked, Decided, AskedFor
<1>12. QED
  BY <1>9, <1>10, <1>11

LEMMA CommitStep ==
  ASSUME ApiInv, NEW r \in Requests, Commit(r)
  PROVE  \E d : ApiStep(r, d) /\ Serves(r, d) /\ Tells(r, d)
<1>1. PICK c : c = call[r]
  OBVIOUS
<1>2. PICK d : d = [c EXCEPT !.pc = "return"]
  OBVIOUS
<1>3. /\ call' = [call EXCEPT ![r] = d] /\ c.pc = "commit" /\ IsCall(c) /\ Stage(c)
      /\ history' = [history EXCEPT ![c.id] = Append(@, c.title)]
      /\ conns' = conns \ {r} /\ UNCHANGED faults
  BY <1>1, <1>2 DEF Commit, Write, Goto, Release, At, ApiInv, ApiTypes
<1>4. /\ IsCall(d) /\ d.pc = "return" /\ d.op = c.op /\ d.id = c.id /\ d.title = c.title
      /\ d.ok = c.ok /\ d.res = c.res /\ d.spans = c.spans
  BY <1>2, <1>3, GotoCall
<1>5. c.ok /\ c.op = "update" /\ c.id \in Streams /\ c.title \in Titles /\ c.res = Row(c.id, c.title)
  BY <1>3 DEF Stage, Served
<1>6. Stage(d)
  BY <1>3, <1>4, <1>5 DEF Stage, SpansOf, Served, Result
<1>7. c.title \in ToSet(history'[c.id])
  <2>1. c.title \in ToSet(Append(history[c.id], c.title))
    <3>1. history[c.id] \in Seq(Titles)
      BY <1>5 DEF ApiInv, ApiTypes
    <3>2. PICK h \in Seq(Titles) : h = history[c.id]
      BY <3>1
    <3>3. /\ Append(h, c.title)[Len(h) + 1] = c.title /\ Len(h) \in Nat
          /\ DOMAIN Append(h, c.title) = 1..(Len(h) + 1)
      BY <1>5, AppendProperties, LenProperties
    <3>4. QED
      BY <3>2, <3>3 DEF ToSet
  <2>2. QED
    BY <1>3, <1>5, <2>1 DEF ApiInv, ApiTypes
<1>8. /\ lock' \in [Streams -> Requests \cup {NoRequest, Orphan}]
      /\ \A s \in Streams :
           /\ lock'[s] # r
           /\ \A q \in Requests \ {r} : lock'[s] = q => lock[s] = q
  BY UnlockRows DEF Commit, ApiInv
<1>9. ApiStep(r, d)
  BY <1>1, <1>3, <1>4, <1>6, <1>7, <1>8 DEF ApiStep, InDatabase
<1>10. Serves(r, d)
  BY <1>1, <1>3, <1>4, <1>5 DEF Serves
<1>11. Tells(r, d)
  <2>1. Told(d) = [id |-> c.id, title |-> c.title]
    BY <1>4, <1>5 DEF Told, ToApiStreamResponse, Row
  <2>2. RequestOf(d) = AskedFor(c, "done", [id |-> c.id, title |-> c.title]) /\ Waiting(c)
    BY <1>3, <1>4, <1>5, <2>1 DEF RequestOf, Unasked, Decided, AskedFor, Waiting
  <2>3. Stored(r)
    BY <1>1, <1>3, <1>5 DEF Stored, Write, At
  <2>4. QED
    BY <1>1, <2>2, <2>3 DEF Tells
<1>12. QED
  BY <1>9, <1>10, <1>11

LEMMA ReturnStep ==
  ASSUME ApiInv, NEW r \in Requests, Return(r)
  PROVE  \E d : ApiStep(r, d) /\ Serves(r, d) /\ Tells(r, d)
<1>1. PICK c : c = call[r]
  OBVIOUS
<1>2. PICK d : d = Returned(c)
  OBVIOUS
<1>3. /\ call' = [call EXCEPT ![r] = d] /\ c.pc = "return" /\ IsCall(c) /\ Stage(c)
      /\ UNCHANGED <<history, lock, conns, faults>>
  BY <1>1, <1>2 DEF Return, Returned, At, ApiInv, ApiTypes
<1>4. /\ IsCall(d) /\ Stage(d) /\ d.pc = "answered" /\ d.op = c.op /\ d.id = c.id /\ d.title = c.title
      /\ d.ok = c.ok
      /\ c.ok => Told(d) = Told(c)
      /\ c.ok /\ c.op = "list" => \A s \in Streams : d.res.streams[s].title = c.res[s].Title
  <2>1. IsCall(c) /\ Stage(c) /\ c.pc = "return"
    BY <1>3
  <2>2. QED
    BY <1>2, <2>1, ReturnCall
<1>5. r \notin conns /\ \A s \in Streams : lock[s] # r
  BY <1>1, <1>3, HoldsNothing DEF InDatabase
<1>6. d.op = "update" /\ d.ok => d.title \in ToSet(history[d.id])
  BY <1>1, <1>3, <1>4 DEF ApiInv, Committed
<1>7. ApiStep(r, d)
  BY <1>3, <1>4, <1>5, <1>6 DEF ApiStep, ApiInv, ApiTypes, InDatabase
<1>8. Serves(r, d)
  BY <1>1, <1>3, <1>4 DEF Serves
<1>9. Tells(r, d)
  BY <1>1, <1>3, <1>4 DEF Tells, RequestOf, Unasked, Decided, AskedFor
<1>10. QED
  BY <1>7, <1>8, <1>9

LEMMA ServerStep ==
  ASSUME ApiInv, NEW r \in Requests, Serve(r) \/ Break(r)
  PROVE  \E d : ApiStep(r, d) /\ Serves(r, d) /\ Tells(r, d)
<1>1. CASE Handle(r) \/ Acquire(r) \/ UpdateStream(r) \/ Commit(r) \/ Return(r)
  BY <1>1, HandleStep, AcquireStep, UpdateStep, CommitStep, ReturnStep
<1>2. CASE ListStreams(r) \/ GetStream(r)
  BY <1>2, QueryStep, GetUnknownStep
<1>3. CASE AcquireFails(r) \/ QueryFails(r) \/ StatementFails(r) \/ CommitFails(r)
  BY <1>3, FailStep
<1>4. QED
  BY <1>1, <1>2, <1>3 DEF Serve, Break

\* A load of a session takes a connection of the pool, or gives it back; the database
\* gives up the row of a lost transaction.
LEMMA OthersStep ==
  ASSUME ApiInv, Others
  PROVE  ApiInv' /\ UNCHANGED <<history, call>>
<1>1. UNCHANGED <<history, call, faults>>
  BY DEF Others, LoadBegins, LoadEnds, BackendGone
<1>2. /\ conns' \subseteq Requests \cup {Playback} /\ IsFiniteSet(conns') /\ Cardinality(conns') <= MaxConns
      /\ \A r \in Requests : r \in conns' <=> r \in conns
  <2>1. /\ IsFiniteSet(conns) /\ Cardinality(conns) \in Nat /\ Cardinality(conns) <= MaxConns
        /\ conns \subseteq Requests \cup {Playback} /\ MaxConns \in Nat /\ Playback \notin Requests
    BY FS_CardinalityType, ConnsAssumption, NamesAssumption DEF ApiInv, ApiTypes
  <2>2. CASE LoadBegins
    <3>1. conns' = conns \cup {Playback} /\ Cardinality(conns) < MaxConns
      BY <2>2 DEF LoadBegins
    <3>2. IsFiniteSet(conns') /\ Cardinality(conns') \in {Cardinality(conns), Cardinality(conns) + 1}
      BY <2>1, <3>1, FS_AddElement
    <3>3. QED
      BY <2>1, <3>1, <3>2
  <2>3. CASE LoadEnds
    <3>1. conns' = conns \ {Playback}
      BY <2>3 DEF LoadEnds
    <3>2. IsFiniteSet(conns') /\ Cardinality(conns') \in {Cardinality(conns), Cardinality(conns) - 1}
      BY <2>1, <3>1, FS_RemoveElement
    <3>3. QED
      BY <2>1, <3>1, <3>2
  <2>4. CASE \E s \in Streams : BackendGone(s)
    BY <2>1, <2>4 DEF BackendGone
  <2>5. QED
    BY <2>2, <2>3, <2>4 DEF Others
<1>3. /\ lock' \in [Streams -> Requests \cup {NoRequest, Orphan}]
      /\ \A s \in Streams : \A r \in Requests : lock'[s] = r => lock[s] = r
  <2>1. UNCHANGED lock \/ \E s \in Streams : lock' = [lock EXCEPT ![s] = NoRequest]
    BY DEF Others, LoadBegins, LoadEnds, BackendGone
  <2>2. QED
    BY <2>1, NamesAssumption DEF ApiInv, ApiTypes
<1>4. ApiTypes' /\ Held'
  BY <1>1, <1>2, <1>3 DEF ApiInv, ApiTypes, Held
<1>5. Committed' /\ \A r \in Requests : Stage(call'[r])
  BY <1>1 DEF ApiInv, Committed
<1>6. QED
  BY <1>1, <1>4, <1>5 DEF ApiInv

-----------------------------------------------------------------------------
(***************************************************************************)
(* The steps of the page                                                   *)
(***************************************************************************)
\* A request that is sent.
LEMMA SendStep ==
  ASSUME ApiInv, NEW r \in Requests, call[r].pc \notin InDatabase,
         NEW op \in {"options", "list", "get", "update"},
         NEW id \in Streams \cup {UnknownId, MalformedId, Nothing},
         NEW title \in Titles \cup {Nothing},
         Send(r, op, id, title), Quiet
  PROVE  \E d : ApiStep(r, d) /\ d.pc = "filter" /\ d.op = op /\ d.id = id /\ d.title = title
<1>1. PICK d : d = [NoCall EXCEPT !.pc = "filter", !.op = op, !.id = id, !.title = title]
  OBVIOUS
<1>2. /\ IsCall(d) /\ d.pc = "filter" /\ d.op = op /\ d.id = id /\ d.title = title /\ d.ok /\ d.res = Nothing
      /\ \A l \in Layers : d.spans[l] = "none"
  BY <1>1 DEF NoCall, IsCall
<1>3. Stage(d)
  BY <1>2 DEF Stage, SpansOf, Served, Result
<1>4. r \notin conns /\ \A s \in Streams : lock[s] # r
  BY HoldsNothing
<1>5. ApiStep(r, d)
  BY <1>1, <1>2, <1>3, <1>4 DEF Send, Quiet, ApiStep, ApiInv, ApiTypes, InDatabase
<1>6. QED
  BY <1>2, <1>5

\* A slot that becomes free.
LEMMA FinishStep ==
  ASSUME ApiInv, NEW r \in Requests, call[r].pc \notin InDatabase, Finish(r), Quiet
  PROVE  \E d : ApiStep(r, d) /\ d.pc = "none"
<1>1. PICK d : d = NoCall
  OBVIOUS
<1>2. /\ IsCall(d) /\ d.pc = "none" /\ d.ok /\ d.res = Nothing
      /\ \A l \in Layers : d.spans[l] = "none"
  BY <1>1 DEF NoCall, IsCall
<1>3. Stage(d)
  BY <1>2 DEF Stage, SpansOf, Served, Result
<1>4. r \notin conns /\ \A s \in Streams : lock[s] # r
  BY HoldsNothing
<1>5. ApiStep(r, d)
  BY <1>1, <1>2, <1>3, <1>4 DEF Finish, Quiet, ApiStep, ApiInv, ApiTypes, InDatabase
<1>6. QED
  BY <1>2, <1>5

LEMMA LoseStep ==
  ASSUME ApiInv, NEW r \in Requests, LoseAnswer(r)
  PROVE  \E d : /\ ApiStep(r, d) /\ d.pc = "lost" /\ call[r].pc = "answered"
                /\ d.op = call[r].op /\ d.id = call[r].id /\ d.title = call[r].title
<1>1. PICK c : c = call[r]
  OBVIOUS
<1>2. PICK d : d = [c EXCEPT !.pc = "lost"]
  OBVIOUS
<1>3. /\ call' = [call EXCEPT ![r] = d] /\ c.pc = "answered" /\ IsCall(c) /\ Stage(c) /\ Fault
      /\ UNCHANGED <<history, lock, conns>>
  BY <1>1, <1>2 DEF LoseAnswer, Goto, At, ApiInv, ApiTypes
<1>4. /\ IsCall(d) /\ d.pc = "lost" /\ d.op = c.op /\ d.id = c.id /\ d.title = c.title
      /\ d.ok = c.ok /\ d.res = c.res /\ d.spans = c.spans
  <2>1. IsCall(c)
    BY <1>3
  <2>2. QED
    BY <1>2, <2>1, GotoCall
<1>5. Stage(d)
  BY <1>3, <1>4 DEF Stage, SpansOf, Served, Result
<1>6. r \notin conns /\ \A s \in Streams : lock[s] # r
  BY <1>1, <1>3, HoldsNothing DEF InDatabase
<1>7. ApiStep(r, d)
  BY <1>3, <1>4, <1>5, <1>6 DEF ApiStep, ApiInv, ApiTypes, InDatabase
<1>8. QED
  BY <1>1, <1>3, <1>4, <1>7

\* What follows an accepted update still follows it when the histories have grown.
LEMMA FollowsKept ==
  ASSUME Grown, ApiTypes, NEW q \in Requests, acked[q] \in Shown, acked'[q] = acked[q], NEW t, FollowsAcked(q, t)
  PROVE  FollowsAcked(q, t)'
<1>1. PICK k \in Streams, u \in Titles : k = acked[q].id /\ u = acked[q].title
  BY DEF Shown
<1>2. PICK h, g : h = history[k] /\ g = history'[k]
  OBVIOUS
<1>3. /\ Len(h) \in Nat /\ Len(g) \in Nat /\ Len(h) <= Len(g) /\ \A i \in 1..Len(h) : g[i] = h[i]
  BY <1>2 DEF Grown
<1>4. DOMAIN h = 1..Len(h) /\ DOMAIN g = 1..Len(g)
  BY <1>2, LenProperties DEF Grown, ApiTypes
<1>5. PICK i, j \in DOMAIN h : i <= j /\ h[i] = u /\ h[j] = t
  BY <1>1, <1>2 DEF FollowsAcked
<1>6. i \in DOMAIN g /\ j \in DOMAIN g /\ g[i] = u /\ g[j] = t
  BY <1>3, <1>4, <1>5
<1>7. QED
  BY <1>1, <1>2, <1>5, <1>6 DEF FollowsAcked

\* An accepted update stays in the history.
LEMMA AckedKept ==
  ASSUME Grown, ApiTypes, NEW k \in Streams, NEW u, \E i \in DOMAIN history[k] : history[k][i] = u
  PROVE  \E i \in DOMAIN history'[k] : history'[k][i] = u
<1>1. PICK h, g : h = history[k] /\ g = history'[k]
  OBVIOUS
<1>2. /\ Len(h) \in Nat /\ Len(g) \in Nat /\ Len(h) <= Len(g) /\ \A i \in 1..Len(h) : g[i] = h[i]
  BY <1>1 DEF Grown
<1>3. DOMAIN h = 1..Len(h) /\ DOMAIN g = 1..Len(g)
  BY <1>1, LenProperties DEF Grown, ApiTypes
<1>4. QED
  BY <1>1, <1>2, <1>3

\* The other slots keep their purpose.
LEMMA OtherSlots ==
  ASSUME BInv, NEW r \in Requests, NEW d, ApiStep(r, d),
         \A q \in Requests \ {r} : role'[q] = role[q] /\ acked'[q] = acked[q],
         selected # Nothing => selected' # Nothing
  PROVE  \A q \in Requests \ {r} : Purpose(q)' /\ Refetch(q)'
<1>1. Grown
  BY ApiStepKeeps DEF BInv
<1>2. ApiTypes /\ \A q \in Requests \ {r} : call'[q] = call[q]
  BY DEF BInv, ApiInv, ApiTypes, ApiStep
<1>3. ASSUME NEW q \in Requests \ {r} PROVE Purpose(q)'
  BY <1>2 DEF BInv, PageInv, Purpose
<1>4. ASSUME NEW q \in Requests \ {r} PROVE Refetch(q)'
  <2>1. SUFFICES ASSUME role[q] = "relist" PROVE Refetch(q)'
    BY DEF Refetch
  <2>2. /\ acked[q] \in Shown /\ acked[q].id \in Streams
        /\ \E i \in DOMAIN history[acked[q].id] : history[acked[q].id][i] = acked[q].title
    BY <2>1 DEF BInv, PageInv, Refetch, Shown
  <2>3. \E i \in DOMAIN history'[acked[q].id] : history'[acked[q].id][i] = acked[q].title
    BY <1>1, <1>2, <2>2, AckedKept
  <2>4. call[q].pc = "return" /\ call[q].ok => FollowsAcked(q, call[q].res[acked[q].id].Title)'
    <3>1. PICK t : t = call[q].res[acked[q].id].Title
      OBVIOUS
    <3>2. call[q].pc = "return" /\ call[q].ok => FollowsAcked(q, t)'
      BY <1>1, <1>2, <2>1, <2>2, <3>1, FollowsKept DEF BInv, PageInv, Refetch
    <3>3. t = call'[q].res[acked'[q].id].Title
      BY <1>2, <3>1
    <3>4. QED
      BY <3>2, <3>3 DEF FollowsAcked
  <2>5. call[q].pc = "answered" /\ call[q].ok => FollowsAcked(q, call[q].res.streams[acked[q].id].title)'
    <3>1. PICK t : t = call[q].res.streams[acked[q].id].title
      OBVIOUS
    <3>2. call[q].pc = "answered" /\ call[q].ok => FollowsAcked(q, t)'
      BY <1>1, <1>2, <2>1, <2>2, <3>1, FollowsKept DEF BInv, PageInv, Refetch
    <3>3. t = call'[q].res.streams[acked'[q].id].title
      BY <1>2, <3>1
    <3>4. QED
      BY <3>2, <3>3 DEF FollowsAcked
  <2>6. QED
    BY <1>2, <2>2, <2>3, <2>4, <2>5 DEF Refetch
<1>5. QED
  BY <1>3, <1>4

\* The slot that moves, the other slots and the page make up the invariant.
LEMMA SlotStep ==
  ASSUME BInv, NEW r \in Requests, NEW d, ApiStep(r, d),
         \A q \in Requests \ {r} : role'[q] = role[q] /\ acked'[q] = acked[q],
         selected # Nothing => selected' # Nothing,
         PageTypes', SelectionShown', FormKept', Purpose(r)', Refetch(r)'
  PROVE  BInv'
<1>1. ApiInv'
  BY ApiStepKeeps DEF BInv
<1>2. \A q \in Requests \ {r} : Purpose(q)' /\ Refetch(q)'
  BY OtherSlots
<1>3. \A q \in Requests : Purpose(q)' /\ Refetch(q)'
  BY <1>2
<1>4. QED
  BY <1>1, <1>3 DEF BInv, PageInv

\* The page stands still while the server works.
LEMMA PageStands ==
  ASSUME BInv, UNCHANGED <<role, submits, pageVars>>
  PROVE  PageTypes' /\ SelectionShown' /\ FormKept'
  BY DEF BInv, PageInv, PageTypes, SelectionShown, FormKept, pageVars

LEMMA ServerKeeps ==
  ASSUME BInv, NEW r \in Requests, Serve(r) \/ Break(r), UNCHANGED <<role, submits, pageVars>>
  PROVE  BInv'
<1>1. PICK d : ApiStep(r, d) /\ Serves(r, d)
  BY ServerStep DEF BInv
<1>2. call'[r] = d /\ Grown /\ ApiTypes /\ ApiTypes'
  BY <1>1, ApiStepKeeps DEF BInv, ApiInv, ApiTypes, ApiStep
<1>3. UNCHANGED <<role, acked, selected>>
  BY DEF pageVars
<1>4. Purpose(r)'
  <2>1. Purpose(r)
    BY DEF BInv, PageInv
  <2>2. d.pc # "none" /\ call[r].pc # "none" /\ d.op = call[r].op /\ d.title = call[r].title
        /\ (d.id = call[r].id \/ d.op = "list")
    BY <1>1 DEF Serves
  <2>3. QED
    BY <1>2, <1>3, <2>1, <2>2 DEF Purpose
<1>5. Refetch(r)'
  <2>1. SUFFICES ASSUME role[r] = "relist" PROVE Refetch(r)'
    BY <1>3 DEF Refetch
  <2>2. PICK a : a = acked[r]
    OBVIOUS
  <2>3. /\ a \in Shown /\ a.id \in Streams
        /\ \E i \in DOMAIN history[a.id] : history[a.id][i] = a.title
    BY <2>1, <2>2 DEF BInv, PageInv, Refetch, Shown
  <2>4. d.op = "list"
    BY <1>1, <2>1 DEF BInv, PageInv, Purpose, Serves
  <2>5. \E i \in DOMAIN history'[a.id] : history'[a.id][i] = a.title
    BY <1>2, <2>3, AckedKept
  <2>6. ASSUME d.pc = "return", d.ok PROVE FollowsAcked(r, d.res[a.id].Title)'
    <3>1. UNCHANGED history /\ d.res[a.id].Title = Last(history[a.id])
      BY <1>1, <2>3, <2>4, <2>6 DEF Serves
    <3>2. /\ Len(history[a.id]) \in 1..Len(history[a.id])
          /\ Last(history[a.id]) = history[a.id][Len(history[a.id])] /\ DOMAIN history[a.id] = 1..Len(history[a.id])
      BY <1>2, <2>3, LastTitle
    <3>3. PICK h : h = history[a.id]
      OBVIOUS
    <3>4. PICK i \in 1..Len(h) : h[i] = a.title
      BY <2>3, <3>2, <3>3
    <3>5. i <= Len(h) /\ Len(h) \in DOMAIN h /\ i \in DOMAIN h /\ h[Len(h)] = d.res[a.id].Title
      BY <3>1, <3>2, <3>3, <3>4
    <3>6. QED
      BY <1>3, <2>2, <3>1, <3>3, <3>4, <3>5 DEF FollowsAcked
  <2>7. ASSUME d.pc = "answered", d.ok PROVE FollowsAcked(r, d.res.streams[a.id].title)'
    <3>1. /\ UNCHANGED history /\ call[r].pc = "return" /\ call[r].ok
          /\ d.res.streams[a.id].title = call[r].res[a.id].Title
      BY <1>1, <2>3, <2>4, <2>7 DEF Serves
    <3>2. FollowsAcked(r, call[r].res[a.id].Title)
      BY <2>1, <2>2, <3>1 DEF BInv, PageInv, Refetch
    <3>3. QED
      BY <1>3, <3>1, <3>2 DEF FollowsAcked
  <2>8. PICK t : t = d.res[a.id].Title
    OBVIOUS
  <2>9. PICK u : u = d.res.streams[a.id].title
    OBVIOUS
  <2>10. QED
    BY <1>2, <1>3, <2>1, <2>2, <2>3, <2>5, <2>6, <2>7 DEF Refetch
<1>6. QED
  BY <1>1, <1>3, <1>4, <1>5, PageStands, SlotStep

\* A request of the page or of another client that is sent in a free slot.
LEMMA NewRequestKeeps ==
  ASSUME BInv, NEW r \in Requests,
         FetchStreams(r) \/ UpdateStreamForm(r)
           \/ \E op \in {"get", "update"}, id \in Streams \cup {UnknownId, MalformedId} : CallDirectly(r, op, id)
  PROVE  BInv'
<1>1. call[r].pc \notin InDatabase
  BY DEF FetchStreams, UpdateStreamForm, CallDirectly, Use, BInv, PageInv, Purpose, InDatabase
<1>2. submits' \in 0..MaxSubmits
  BY SubmitsAssumption DEF FetchStreams, UpdateStreamForm, CallDirectly, NewTitle, BInv, PageInv, PageTypes
<1>3. role \in [Requests -> Roles] /\ role[r] = "free"
  BY DEF FetchStreams, UpdateStreamForm, CallDirectly, Use, BInv, PageInv, PageTypes
<1>4. CASE FetchStreams(r)
  <2>1. PICK d : ApiStep(r, d) /\ d.pc = "filter" /\ d.op = "list"
    BY <1>1, <1>4, SendStep DEF FetchStreams, BInv
  <2>2. /\ role' = [role EXCEPT ![r] = "list"] /\ UNCHANGED <<submits, pageVars>> /\ call'[r] = d
    BY <1>4, <2>1 DEF FetchStreams, Use, ApiStep, BInv, ApiInv, ApiTypes
  <2>3. PageTypes' /\ SelectionShown' /\ FormKept'
    <3>1. PageTypes'
      BY <1>3, <2>2 DEF BInv, PageInv, PageTypes, pageVars, Roles
    <3>2. SelectionShown' /\ FormKept'
      BY <1>3, <2>2 DEF BInv, PageInv, SelectionShown, FormKept, pageVars
    <3>3. QED
      BY <3>1, <3>2
  <2>4. Purpose(r)' /\ Refetch(r)'
    BY <1>3, <2>1, <2>2 DEF Purpose, Refetch
  <2>5. QED
    BY <1>3, <2>1, <2>2, <2>3, <2>4, SlotStep DEF pageVars
<1>5. CASE UpdateStreamForm(r)
  <2>1. selected # Nothing /\ selected.id \in Streams
    BY <1>5 DEF UpdateStreamForm, BInv, PageInv, PageTypes, FormKept, Shown
  <2>2. PICK d : ApiStep(r, d) /\ d.pc = "filter" /\ d.op = "options" /\ d.id = selected.id /\ d.title = submits'
    BY <1>1, <1>2, <1>5, <2>1, SendStep DEF UpdateStreamForm, BInv, Titles
  <2>3. /\ role' = [role EXCEPT ![r] = "preflight"] /\ UNCHANGED <<list, active, selected, label, acked>>
        /\ form' = Nothing /\ call'[r] = d
    BY <1>5, <2>2 DEF UpdateStreamForm, Use, ApiStep, BInv, ApiInv, ApiTypes
  <2>4. PageTypes'
    BY <1>2, <1>3, <2>3 DEF BInv, PageInv, PageTypes, Roles
  <2>5. SelectionShown' /\ FormKept'
    BY <1>3, <2>3 DEF BInv, PageInv, SelectionShown, FormKept
  <2>6. Purpose(r)' /\ Refetch(r)'
    BY <1>2, <1>3, <2>1, <2>2, <2>3 DEF Purpose, Refetch, Titles
  <2>7. QED
    BY <1>3, <2>1, <2>2, <2>3, <2>4, <2>5, <2>6, SlotStep
<1>6. ASSUME NEW op \in {"get", "update"}, NEW id \in Streams \cup {UnknownId, MalformedId}, CallDirectly(r, op, id)
      PROVE  BInv'
  <2>1. PICK title \in Titles \cup {Nothing} : Send(r, op, id, title)
    BY <1>2, <1>6 DEF CallDirectly, Titles
  <2>2. PICK d : ApiStep(r, d) /\ d.pc = "filter" /\ d.op = op
    <3>1. Quiet /\ op \in {"list", "get", "update", "options"}
      BY <1>6 DEF CallDirectly
    <3>2. id \in Streams \cup {UnknownId, MalformedId, Nothing}
      BY <1>6
    <3>3. QED
      BY <1>1, <2>1, <3>1, <3>2, SendStep DEF BInv
  <2>3. /\ role' = [role EXCEPT ![r] = "other"] /\ UNCHANGED pageVars /\ call'[r] = d
    BY <1>6, <2>2 DEF CallDirectly, Use, ApiStep, BInv, ApiInv, ApiTypes
  <2>4. PageTypes'
    BY <1>2, <1>3, <2>3 DEF BInv, PageInv, PageTypes, pageVars, Roles
  <2>5. SelectionShown' /\ FormKept'
    BY <1>3, <2>3 DEF BInv, PageInv, SelectionShown, FormKept, pageVars
  <2>6. Purpose(r)' /\ Refetch(r)'
    BY <1>3, <2>2, <2>3 DEF Purpose, Refetch
  <2>7. QED
    BY <1>3, <2>2, <2>3, <2>4, <2>5, <2>6, SlotStep DEF pageVars
<1>7. QED
  BY <1>4, <1>5, <1>6

\* The selection and the dialog change without a request.
LEMMA ClickKeeps ==
  ASSUME BInv, (\E s \in Streams : SelectStream(s)) \/ OpenEditModal \/ CancelEdit
  PROVE  BInv'
<1>1. UNCHANGED <<apiVars, role, submits, list, acked>>
  BY DEF SelectStream, OpenEditModal, CancelEdit
<1>2. ApiInv'
  <2>1. ApiTypes'
    BY <1>1 DEF apiVars, BInv, ApiInv, ApiTypes
  <2>2. Held' /\ Committed' /\ \A r \in Requests : Stage(call'[r])
    BY <1>1 DEF apiVars, BInv, ApiInv, Held, Committed
  <2>3. QED
    BY <2>1, <2>2 DEF ApiInv
<1>3. selected # Nothing => selected' # Nothing
  BY NothingAssumption DEF SelectStream, OpenEditModal, CancelEdit, BInv, PageInv, PageTypes, Shown, Titles
<1>4. \A r \in Requests : Purpose(r)' /\ Refetch(r)'
  BY <1>1, <1>3 DEF apiVars, BInv, PageInv, Purpose, Refetch, FollowsAcked
<1>5. PageTypes' /\ SelectionShown' /\ FormKept'
  <2>1. ASSUME NEW s \in Streams, SelectStream(s) PROVE PageTypes' /\ SelectionShown' /\ FormKept'
    <3>1. /\ selected' = list[s] /\ label' = list[s] /\ active' = {s} /\ form' = form /\ form = Nothing
          /\ list[s] \in Shown /\ list[s].id = s /\ list[s] # Nothing
      BY <2>1, NothingAssumption DEF SelectStream, BInv, PageInv, PageTypes, Shown, Titles
    <3>2. PageTypes'
      BY <1>1, <3>1 DEF BInv, PageInv, PageTypes
    <3>3. SelectionShown' /\ FormKept'
      BY <3>1 DEF SelectionShown, FormKept
    <3>4. QED
      BY <3>2, <3>3
  <2>2. CASE OpenEditModal \/ CancelEdit
    <3>1. UNCHANGED <<selected, label, active>> /\ (form' = Nothing \/ (form' = selected /\ selected # Nothing))
      BY <2>2 DEF OpenEditModal, CancelEdit
    <3>2. PageTypes'
      BY <1>1, <3>1 DEF BInv, PageInv, PageTypes
    <3>3. SelectionShown' /\ FormKept'
      BY <1>1, <3>1 DEF BInv, PageInv, SelectionShown, FormKept
    <3>4. QED
      BY <3>2, <3>3
  <2>3. QED
    BY <2>1, <2>2
<1>6. QED
  BY <1>2, <1>4, <1>5 DEF BInv, PageInv

\* A request whose answer is read becomes free.
LEMMA FreedSlot ==
  ASSUME BInv, NEW r \in Requests, Finish(r), Quiet, call[r].pc \notin InDatabase
  PROVE  /\ \E d : ApiStep(r, d)
         /\ role' = [role EXCEPT ![r] = "free"] /\ role \in [Requests -> Roles]
         /\ Purpose(r)' /\ Refetch(r)'
<1>1. PICK d : ApiStep(r, d) /\ d.pc = "none"
  BY FinishStep DEF BInv
<1>2. /\ role' = [role EXCEPT ![r] = "free"] /\ call'[r] = d /\ role \in [Requests -> Roles]
  BY <1>1 DEF Finish, ApiStep, BInv, PageInv, PageTypes, ApiInv, ApiTypes
<1>3. QED
  BY <1>1, <1>2 DEF Purpose, Refetch

LEMMA LoseKeeps ==
  ASSUME BInv, NEW r \in Requests, LoseAnswer(r)
  PROVE  BInv'
<1>1. PICK d : /\ ApiStep(r, d) /\ d.pc = "lost" /\ call[r].pc = "answered"
               /\ d.op = call[r].op /\ d.id = call[r].id /\ d.title = call[r].title
  BY LoseStep DEF BInv
<1>2. call'[r] = d /\ UNCHANGED <<role, submits, pageVars>>
  BY <1>1 DEF LoseAnswer, ApiStep, BInv, ApiInv, ApiTypes
<1>3. Purpose(r)'
  BY <1>1, <1>2 DEF BInv, PageInv, Purpose, pageVars
<1>4. Refetch(r)'
  <2>1. ASSUME role[r] = "relist"
        PROVE  acked[r] \in Shown /\ \E i \in DOMAIN history'[acked[r].id] : history'[acked[r].id][i] = acked[r].title
    BY <1>1, <2>1, ApiStepKeeps, AckedKept DEF BInv, ApiInv, PageInv, Refetch, Shown
  <2>2. QED
    BY <1>1, <1>2, <2>1 DEF Refetch, pageVars
<1>5. QED
  BY <1>1, <1>2, <1>3, <1>4, PageStands, SlotStep DEF pageVars

\* The answer of the preflight request, and of another client's.
LEMMA PreflightKeeps ==
  ASSUME BInv, NEW r \in Requests, SendPut(r) \/ DirectAnswer(r)
  PROVE  BInv'
<1>1. call[r].pc \notin InDatabase /\ role[r] \in {"preflight", "other"} /\ UNCHANGED <<submits, pageVars>> /\ Quiet
  BY DEF SendPut, DirectAnswer, Arrived, InDatabase
<1>2. ASSUME role' = [role EXCEPT ![r] = "put"] \/ role' = [role EXCEPT ![r] = "free"]
      PROVE  PageTypes' /\ SelectionShown' /\ FormKept'
             /\ \A q \in Requests \ {r} : role'[q] = role[q] /\ acked'[q] = acked[q]
  <2>1. role \in [Requests -> Roles]
    BY DEF BInv, PageInv, PageTypes
  <2>2. role' \in [Requests -> Roles] /\ \A q \in Requests \ {r} : role'[q] = role[q]
    BY <1>2, <2>1 DEF Roles
  <2>3. PageTypes'
    BY <1>1, <2>2 DEF BInv, PageInv, PageTypes, pageVars
  <2>4. SelectionShown' /\ FormKept'
    BY <1>1, <2>2 DEF BInv, PageInv, SelectionShown, FormKept, pageVars
  <2>5. QED
    BY <1>1, <2>2, <2>3, <2>4 DEF pageVars
<1>3. CASE SendPut(r) /\ Got(r)
  <2>1. role[r] = "preflight" /\ role' = [role EXCEPT ![r] = "put"] /\ Send(r, "update", call[r].id, call[r].title)
    BY <1>3 DEF SendPut, Arrived
  <2>2. call[r].id \in Streams /\ call[r].title \in Titles /\ selected # Nothing /\ role \in [Requests -> Roles]
    BY <2>1 DEF BInv, PageInv, PageTypes, Purpose
  <2>3. PICK d : ApiStep(r, d) /\ d.pc = "filter" /\ d.op = "update"
    BY <1>1, <2>1, <2>2, SendStep DEF BInv
  <2>4. call'[r] = d /\ role'[r] = "put" /\ UNCHANGED selected
    BY <1>1, <2>1, <2>2, <2>3 DEF ApiStep, BInv, ApiInv, ApiTypes, pageVars
  <2>5. Purpose(r)' /\ Refetch(r)'
    BY <2>2, <2>3, <2>4 DEF Purpose, Refetch
  <2>6. QED
    BY <1>2, <2>1, <2>2, <2>3, <2>4, <2>5, SlotStep
<1>4. CASE ~(SendPut(r) /\ Got(r))
  <2>1. Finish(r)
    BY <1>4 DEF SendPut, DirectAnswer
  <2>2. /\ \E d : ApiStep(r, d)
        /\ role' = [role EXCEPT ![r] = "free"] /\ Purpose(r)' /\ Refetch(r)'
    BY <1>1, <2>1, FreedSlot
  <2>3. QED
    BY <1>1, <1>2, <2>2, SlotStep DEF pageVars
<1>5. QED
  BY <1>3, <1>4

\* The list the server returned.
LEMMA ListAnswer ==
  ASSUME BInv, NEW r \in Requests, role[r] \in {"list", "relist"}, Got(r)
  PROVE  /\ call[r].res.streams \in [Streams -> Shown]
         /\ \A s \in Streams : call[r].res.streams[s].id = s
<1>1. PICK c : c = call[r]
  OBVIOUS
<1>2. Stage(c) /\ c.pc = "answered" /\ c.ok /\ c.op = "list"
  BY <1>1 DEF Got, At, BInv, ApiInv, PageInv, Purpose
<1>3. c.res \in [streams : [Streams -> Shown]] /\ \A s \in Streams : c.res.streams[s].id = s
  BY <1>2 DEF Stage, Result
<1>4. QED
  BY <1>1, <1>3

LEMMA StreamsArriveKeeps ==
  ASSUME BInv, NEW r \in Requests, StreamsArrive(r)
  PROVE  BInv'
<1>1. /\ call[r].pc \notin InDatabase /\ role[r] = "list" /\ Finish(r) /\ Quiet
      /\ UNCHANGED <<submits, selected, label, form, acked>>
  BY DEF StreamsArrive, Arrived, InDatabase
<1>2. /\ \E d : ApiStep(r, d)
      /\ role' = [role EXCEPT ![r] = "free"] /\ role \in [Requests -> Roles] /\ Purpose(r)' /\ Refetch(r)'
  BY <1>1, FreedSlot
<1>3. role' \in [Requests -> Roles] /\ \A q \in Requests \ {r} : role'[q] = role[q]
  BY <1>2 DEF Roles
<1>4. \/ UNCHANGED <<list, active>>
      \/ Got(r) /\ list' = call[r].res.streams /\ active' = Marked
  BY DEF StreamsArrive, RenderStreams
<1>5. selected # Nothing => selected.id \in Streams
  BY DEF BInv, PageInv, PageTypes, Shown
<1>6. list' # Nothing => list' \in [Streams -> Shown] /\ \A s \in Streams : list'[s].id = s
  <2>1. CASE UNCHANGED list
    BY <2>1 DEF BInv, PageInv, PageTypes
  <2>2. CASE Got(r) /\ list' = call[r].res.streams
    <3>1. PICK x : x = call[r].res.streams
      OBVIOUS
    <3>2. x \in [Streams -> Shown] /\ \A s \in Streams : x[s].id = s
      BY <1>1, <2>2, <3>1, ListAnswer
    <3>3. QED
      BY <2>2, <3>1, <3>2
  <2>3. QED
    BY <1>4, <2>1, <2>2
<1>7. PageTypes'
  <2>1. active' \subseteq Streams
    BY <1>4, <1>5 DEF BInv, PageInv, PageTypes, Marked
  <2>2. QED
    BY <1>1, <1>3, <1>6, <2>1 DEF BInv, PageInv, PageTypes
<1>8. SelectionShown' /\ FormKept'
  <2>1. selected # Nothing => active' = {selected.id}
    BY <1>4 DEF Marked, BInv, PageInv, SelectionShown
  <2>2. (\E q \in Requests : role[q] = "relist") => \E q \in Requests : role'[q] = "relist"
    BY <1>1, <1>3
  <2>3. SelectionShown'
    BY <1>1, <2>1, <2>2 DEF BInv, PageInv, SelectionShown
  <2>4. FormKept'
    BY <1>1 DEF BInv, PageInv, FormKept
  <2>5. QED
    BY <2>3, <2>4
<1>9. QED
  BY <1>1, <1>2, <1>3, <1>7, <1>8, SlotStep

LEMMA RelistArrivesKeeps ==
  ASSUME BInv, NEW r \in Requests, RelistArrives(r)
  PROVE  BInv'
<1>1. /\ call[r].pc \notin InDatabase /\ role[r] = "relist" /\ Finish(r) /\ Quiet
      /\ UNCHANGED <<submits, selected, form>> /\ label' = selected
      /\ acked' = [acked EXCEPT ![r] = Nothing]
  BY DEF RelistArrives, Arrived, InDatabase
<1>2. /\ \E d : ApiStep(r, d)
      /\ role' = [role EXCEPT ![r] = "free"] /\ role \in [Requests -> Roles] /\ Purpose(r)' /\ Refetch(r)'
  BY <1>1, FreedSlot
<1>3. /\ role' \in [Requests -> Roles]
      /\ \A q \in Requests \ {r} : role'[q] = role[q] /\ acked'[q] = acked[q]
      /\ acked' = [q \in Requests |-> acked'[q]]
  BY <1>1, <1>2 DEF Roles, BInv, PageInv, PageTypes
<1>4. selected # Nothing /\ selected \in Shown /\ selected.id \in Streams /\ active = {selected.id}
  BY <1>1 DEF BInv, PageInv, Purpose, PageTypes, SelectionShown, Shown
<1>5. active' = {selected.id}
  BY <1>4 DEF RelistArrives, Marked
<1>6. list' # Nothing => list' \in [Streams -> Shown] /\ \A s \in Streams : list'[s].id = s
  <2>1. CASE ~Got(r)
    BY <2>1 DEF RelistArrives, BInv, PageInv, PageTypes
  <2>2. CASE Got(r)
    <3>1. PICK x : x = call[r].res.streams
      OBVIOUS
    <3>2. x \in [Streams -> Shown] /\ \A s \in Streams : x[s].id = s
      BY <1>1, <2>2, <3>1, ListAnswer
    <3>3. list' = x
      BY <2>2, <3>1 DEF RelistArrives
    <3>4. QED
      BY <3>2, <3>3
  <2>3. QED
    BY <2>1, <2>2
<1>7. PageTypes'
  BY <1>1, <1>3, <1>4, <1>5, <1>6 DEF BInv, PageInv, PageTypes
<1>8. SelectionShown' /\ FormKept'
  BY <1>1, <1>4, <1>5 DEF BInv, PageInv, SelectionShown, FormKept
<1>9. QED
  BY <1>1, <1>2, <1>3, <1>7, <1>8, SlotStep

LEMMA UpdateArrivesKeeps ==
  ASSUME BInv, NEW r \in Requests, UpdateArrives(r)
  PROVE  BInv'
<1>1. /\ call[r].pc \notin InDatabase /\ role[r] = "put" /\ Quiet
      /\ UNCHANGED <<submits, list, active, label, form>>
  BY DEF UpdateArrives, Arrived, InDatabase
<1>2. role \in [Requests -> Roles] /\ selected # Nothing /\ selected \in Shown
  BY <1>1 DEF BInv, PageInv, PageTypes, Purpose
<1>3. CASE ~Got(r)
  <2>1. Finish(r) /\ UNCHANGED <<selected, acked>>
    BY <1>3 DEF UpdateArrives
  <2>2. /\ \E d : ApiStep(r, d)
        /\ role' = [role EXCEPT ![r] = "free"] /\ Purpose(r)' /\ Refetch(r)'
    BY <1>1, <2>1, FreedSlot
  <2>3. role' \in [Requests -> Roles] /\ \A q \in Requests \ {r} : role'[q] = role[q]
    BY <1>2, <2>2 DEF Roles
  <2>4. PageTypes'
    BY <1>1, <2>1, <2>3 DEF BInv, PageInv, PageTypes
  <2>5. SelectionShown' /\ FormKept'
    BY <1>1, <2>1, <2>3 DEF BInv, PageInv, SelectionShown, FormKept
  <2>6. QED
    BY <2>1, <2>2, <2>3, <2>4, <2>5, SlotStep
<1>4. CASE Got(r)
  <2>1. PICK c : c = call[r]
    OBVIOUS
  <2>2. Stage(c) /\ c.pc = "answered" /\ c.ok /\ c.op = "update" /\ c.title \in ToSet(history[c.id])
    BY <1>1, <1>4, <2>1 DEF Got, At, BInv, ApiInv, Committed, PageInv, Purpose
  <2>3. c.id \in Streams /\ c.title \in Titles /\ c.res = [stream |-> [id |-> c.id, title |-> c.title]]
    BY <2>2 DEF Stage, Result
  <2>4. PICK u : u = [id |-> c.id, title |-> c.title]
    OBVIOUS
  <2>5. c.res.stream = u /\ u \in Shown /\ u.id = c.id /\ u.title = c.title /\ u # Nothing
    BY <2>3, <2>4, NothingAssumption DEF Shown, Titles
  <2>6. /\ selected' = Adopt(u) /\ acked' = [acked EXCEPT ![r] = u]
        /\ Send(r, "list", Nothing, Nothing) /\ role' = [role EXCEPT ![r] = "relist"]
    BY <1>4, <2>1, <2>5 DEF UpdateArrives
  <2>7. selected' \in Shown /\ selected' # Nothing /\ selected'.id = selected.id
    BY <1>2, <2>5, <2>6 DEF Adopt
  <2>8. PICK d : ApiStep(r, d) /\ d.pc = "filter" /\ d.op = "list"
    BY <1>1, <2>6, SendStep DEF BInv
  <2>9. /\ call'[r] = d /\ role'[r] = "relist" /\ acked'[r] = u /\ role' \in [Requests -> Roles]
        /\ acked' = [q \in Requests |-> acked'[q]]
        /\ \A q \in Requests \ {r} : role'[q] = role[q] /\ acked'[q] = acked[q]
    BY <1>2, <2>6, <2>8 DEF ApiStep, Roles, BInv, PageInv, PageTypes, ApiInv, ApiTypes
  <2>10. Purpose(r)'
    BY <2>7, <2>8, <2>9 DEF Purpose
  <2>11. Refetch(r)'
    <3>1. \E i \in DOMAIN history[u.id] : history[u.id][i] = u.title
      BY <2>2, <2>5 DEF ToSet
    <3>2. UNCHANGED history
      BY <1>1 DEF Quiet
    <3>3. QED
      BY <2>5, <2>8, <2>9, <3>1, <3>2 DEF Refetch
  <2>12. PageTypes'
    BY <1>1, <2>7, <2>9 DEF BInv, PageInv, PageTypes
  <2>13. SelectionShown' /\ FormKept'
    BY <1>1, <1>2, <2>7, <2>9 DEF BInv, PageInv, SelectionShown, FormKept
  <2>14. QED
    BY <2>7, <2>8, <2>9, <2>10, <2>11, <2>12, <2>13, SlotStep
<1>5. QED
  BY <1>3, <1>4

-----------------------------------------------------------------------------
(***************************************************************************)
(* The theorems                                                            *)
(***************************************************************************)
LEMMA InitBInv == Init => BInv
<1> SUFFICES ASSUME Init PROVE BInv
  OBVIOUS
<1>1. ApiTypes
  <2>1. IsFiniteSet({}) /\ Cardinality({}) = 0
    BY FS_EmptySet
  <2>2. <<0>> \in Seq(Titles) /\ <<0>> # <<>>
    BY SubmitsAssumption DEF Titles
  <2>3. IsCall(NoCall)
    BY DEF IsCall, NoCall
  <2>4. QED
    BY <2>1, <2>2, <2>3, ConnsAssumption DEF Init, ApiInit, ApiTypes
<1>2. Stage(NoCall)
  BY DEF NoCall, Stage, SpansOf, Served, Result
<1>3. Held /\ Committed
  BY NamesAssumption DEF Init, ApiInit, NoCall, Held, Committed
<1>4. PageInv
  BY SubmitsAssumption DEF Init, ApiInit, NoCall, PageInv, PageTypes, SelectionShown, FormKept, Purpose, Refetch, Roles
<1>5. QED
  BY <1>1, <1>2, <1>3, <1>4 DEF Init, ApiInit, BInv, ApiInv

LEMMA NextBInv == BInv /\ [Next]_vars => BInv'
<1> SUFFICES ASSUME BInv, [Next]_vars PROVE BInv'
  OBVIOUS
<1>1. CASE User
  BY <1>1, NewRequestKeeps, ClickKeeps DEF User
<1>2. ASSUME NEW r \in Requests, Page(r) \/ LoseAnswer(r) PROVE BInv'
  BY <1>2, PreflightKeeps, StreamsArriveKeeps, UpdateArrivesKeeps, RelistArrivesKeeps, LoseKeeps DEF Page
<1>3. ASSUME NEW r \in Requests, Serve(r) \/ Break(r), UNCHANGED <<role, submits, pageVars>> PROVE BInv'
  BY <1>3, ServerKeeps
<1>4. CASE Others /\ UNCHANGED <<role, submits, pageVars>>
  <2>1. ApiInv' /\ UNCHANGED <<history, call>>
    BY <1>4, OthersStep DEF BInv
  <2>2. \A r \in Requests : Purpose(r)' /\ Refetch(r)'
    BY <1>4, <2>1 DEF BInv, PageInv, Purpose, Refetch, FollowsAcked, pageVars
  <2>3. QED
    BY <1>4, <2>1, <2>2, PageStands DEF BInv, PageInv
<1>5. CASE UNCHANGED vars
  <2>1. ApiTypes' /\ Held' /\ Committed' /\ \A r \in Requests : Stage(call'[r])
    BY <1>5 DEF vars, apiVars, BInv, ApiInv, ApiTypes, Held, Committed
  <2>2. \A r \in Requests : Purpose(r)' /\ Refetch(r)'
    BY <1>5 DEF vars, apiVars, BInv, PageInv, Purpose, Refetch, FollowsAcked, pageVars
  <2>3. PageTypes' /\ SelectionShown' /\ FormKept'
    BY <1>5, PageStands DEF vars
  <2>4. QED
    BY <2>1, <2>2, <2>3 DEF BInv, ApiInv, PageInv
<1>6. QED
  BY <1>1, <1>2, <1>3, <1>4, <1>5 DEF Next

LEMMA Invariant == Spec => []BInv
  BY InitBInv, NextBInv, PTL DEF Spec

\* Types, of the page and of the server; the pool never has more connections than its limit.
THEOREM TypeCorrect == Spec => []TypeOK
<1>1. BInv => TypeOK
  BY DEF BInv, ApiInv, ApiTypes, PageInv, PageTypes, Shown, Titles, TypeOK
<1>2. QED
  BY <1>1, Invariant, PTL

\* An update that is answered without error has been committed with its title, and the
\* answer is the row it wrote; a failed one, also one whose commit failed, shows no row.
THEOREM AnswerTrueCorrect == Spec => []AnswerTrue
<1>1. BInv => AnswerTrue
  <2> SUFFICES ASSUME BInv, NEW r \in Requests, At(r, "answered"), call[r].op = "update"
               PROVE  IF call[r].ok
                      THEN /\ call[r].title \in ToSet(history[call[r].id])
                           /\ call[r].res.stream = [id |-> call[r].id, title |-> call[r].title]
                      ELSE call[r].res = Nothing
    BY DEF AnswerTrue
  <2>1. Result(call[r]) /\ call[r].pc = "answered"
    BY DEF BInv, ApiInv, Stage, At
  <2>2. call[r].ok => call[r].title \in ToSet(history[call[r].id])
    BY <2>1 DEF BInv, ApiInv, Committed
  <2>3. QED
    BY <2>1, <2>2 DEF Result
<1>2. QED
  BY <1>1, Invariant, PTL

\* Whatever failed, a request that returns holds no connection and no row.
THEOREM NothingHeldCorrect == Spec => []NothingHeld
<1>1. BInv => NothingHeld
  BY DEF BInv, ApiInv, Held, NothingHeld
<1>2. QED
  BY <1>1, Invariant, PTL

\* When a request is answered every span is over, and those around an error carry it.
THEOREM SpansTrueCorrect == Spec => []SpansTrue
<1>1. BInv => SpansTrue
  BY DEF BInv, ApiInv, Stage, SpansOf, SpansTrue, At
<1>2. QED
  BY <1>1, Invariant, PTL

\* The active item and the label are those of the stream the buttons act on, whatever
\* answers arrive and in whatever order.
THEOREM SelectionShownCorrect == Spec => []SelectionShown
<1>1. BInv => SelectionShown
  BY DEF BInv, PageInv
<1>2. QED
  BY <1>1, Invariant, PTL

\* The open dialog edits the stream that the update will be sent for.
THEOREM EditsSelectedCorrect == Spec => []EditsSelected
<1>1. BInv => EditsSelected
  BY DEF BInv, PageInv, FormKept, EditsSelected
<1>2. QED
  BY <1>1, Invariant, PTL

\* The list fetched after an accepted update shows it, or a later one of the same stream,
\* however many clients update it.
THEOREM RefetchSeesUpdateCorrect == Spec => []RefetchSeesUpdate
<1>1. BInv => RefetchSeesUpdate
  <2> SUFFICES ASSUME BInv, NEW r \in Requests, role[r] = "relist", Got(r)
               PROVE  LET s == acked[r].id
                          titles == history[s]
                      IN  \E i, j \in DOMAIN titles :
                            i <= j /\ titles[i] = acked[r].title /\ titles[j] = call[r].res.streams[s].title
    BY DEF RefetchSeesUpdate
  <2>1. FollowsAcked(r, call[r].res.streams[acked[r].id].title)
    BY DEF BInv, PageInv, Refetch, Got, At
  <2>2. QED
    BY <2>1 DEF FollowsAcked
<1>2. QED
  BY <1>1, Invariant, PTL


-----------------------------------------------------------------------------
(***************************************************************************)
(* The server implements the register                                      *)
(***************************************************************************)
\* The refinement mapping, variable by variable.
TitleBar   == [s \in Streams |-> Title(s)]
RequestBar == [r \in Requests |-> RequestOf(call[r])]

RegisterStep == [Register!Next]_<<TitleBar, RequestBar>>

\* A step of the register that changes a request is one of its steps.
LEMMA StepTaken ==
  ASSUME NEW r \in Requests, RequestBar'[r] # RequestBar[r],
         \/ Register!List(r) \/ Register!Get(r) \/ Register!Update(r)
         \/ Register!Fail(r) \/ Register!Forget(r) \/ Register!Call(r)
  PROVE  RegisterStep
BY DEF RegisterStep, Register!Next, RequestBar

LEMMA TitlesKept ==
  ASSUME UNCHANGED history
  PROVE  UNCHANGED TitleBar
  BY DEF TitleBar, Title

\* The title stored last is the title of the stream.
LEMMA TitleStored ==
  ASSUME ApiTypes, NEW r \in Requests, IsCall(call[r]), call[r].title \in Titles, Stored(r)
  PROVE  TitleBar' = [TitleBar EXCEPT ![call[r].id] = call[r].title]
<1>1. PICK k \in Streams, t \in Titles : k = call[r].id /\ t = call[r].title
  BY DEF Stored
<1>2. PICK h : h = history
  OBVIOUS
<1>3. history' = [h EXCEPT ![k] = Append(h[k], t)] /\ h \in [Streams -> Seq(Titles)]
  BY <1>1, <1>2 DEF Stored, Write, ApiTypes
<1>4. Last(Append(h[k], t)) = t
  <2>1. PICK g \in Seq(Titles) : g = h[k]
    BY <1>3
  <2>2. Append(g, t)[Len(g) + 1] = t /\ Len(Append(g, t)) = Len(g) + 1
    BY AppendProperties
  <2>3. QED
    BY <2>1, <2>2 DEF Last
<1>5. \A s \in Streams : history'[s] = IF s = k THEN Append(h[k], t) ELSE h[s]
  BY <1>3
<1>6. \A s \in Streams : Last(history'[s]) = IF s = k THEN t ELSE Last(history[s])
  BY <1>2, <1>4, <1>5
<1>7. QED
  BY <1>1, <1>6 DEF TitleBar, Title

\* A step that changes one call changes the request in its slot.
LEMMA RequestMoved ==
  ASSUME ApiTypes, NEW r \in Requests, NEW d, call' = [call EXCEPT ![r] = d]
  PROVE  /\ RequestBar' = [RequestBar EXCEPT ![r] = RequestOf(d)]
         /\ RequestBar[r] = RequestOf(call[r])
         /\ RequestOf(d) = RequestOf(call[r]) => UNCHANGED RequestBar
<1>1. \A q \in Requests : call'[q] = IF q = r THEN d ELSE call[q]
  BY DEF ApiTypes
<1>2. RequestBar' = [q \in Requests |-> RequestOf(call'[q])]
  BY DEF RequestBar, RequestOf, Unasked, Decided, Told, AskedFor, NoCall, Layers, ToApiStreamResponseList, ToApiStreamResponse
<1>3. RequestBar = [q \in Requests |-> RequestOf(call[q])]
  BY DEF RequestBar
<1>4. QED
  BY <1>1, <1>2, <1>3

\* A call that waits for its answer is a request that was called.
LEMMA WaitingCalled ==
  ASSUME NEW c, Waiting(c)
  PROVE  RequestOf(c) = AskedFor(c, "called", Nothing)
  BY DEF Waiting, RequestOf, Unasked, Decided

\* What the server does for a call is a step of the register, or none.
LEMMA TellsStep ==
  ASSUME ApiInv, NEW r \in Requests, NEW d, ApiStep(r, d), Tells(r, d)
  PROVE  RegisterStep
<1>1. ApiTypes /\ IsCall(call[r]) /\ Stage(call[r]) /\ call' = [call EXCEPT ![r] = d]
  BY DEF ApiInv, ApiTypes, ApiStep
<1>2. PICK c : c = call[r]
  OBVIOUS
<1>3. /\ RequestBar' = [RequestBar EXCEPT ![r] = RequestOf(d)] /\ RequestBar[r] = RequestOf(c)
      /\ RequestOf(d) = RequestOf(c) => UNCHANGED RequestBar
  BY <1>1, <1>2, RequestMoved
<1>4. CASE RequestOf(d) = RequestOf(c) /\ UNCHANGED history
  BY <1>3, <1>4, TitlesKept DEF RegisterStep
<1>5. ASSUME Waiting(c)
      PROVE  RequestBar[r] = AskedFor(c, "called", Nothing)
  BY <1>3, <1>5, WaitingCalled
<1> DEFINE Over(phase, told) ==
             [RequestBar EXCEPT ![r] = [phase |-> phase, op |-> RequestBar[r].op, id |-> RequestBar[r].id,
                                        new |-> RequestBar[r].new, told |-> told]]
<1>6. ASSUME Waiting(c), NEW phase, NEW told, RequestOf(d) = AskedFor(c, phase, told)
       PROVE  /\ RequestBar' = Over(phase, told)
              /\ RequestBar[r].phase = "called" /\ RequestBar[r].op = c.op
              /\ c.op # "list" => RequestBar[r].id = c.id
              /\ RequestBar[r].new = c.title
  <2>1. /\ RequestBar[r].phase = "called" /\ RequestBar[r].op = c.op /\ RequestBar[r].new = c.title
        /\ RequestBar[r].id = IF c.op = "list" THEN Nothing ELSE c.id
    BY <1>5, <1>6 DEF AskedFor
  <2>2. AskedFor(c, phase, told) = [phase |-> phase, op |-> RequestBar[r].op, id |-> RequestBar[r].id,
                                    new |-> RequestBar[r].new, told |-> told]
    BY <2>1 DEF AskedFor
  <2>3. RequestBar' = Over(phase, told)
    BY <1>3, <1>6, <2>2
  <2>4. QED
    BY <2>1, <2>3
<1>7. ASSUME NEW phase, NEW told, RequestBar' = Over(phase, told), RequestBar[r].phase # phase
      PROVE  RequestBar'[r] # RequestBar[r]
  BY <1>7 DEF RequestBar
<1>8. ASSUME Waiting(c), Stored(r)
      PROVE  Register!Store(r)
  <2>1. c.op = "update" /\ c.id \in Streams /\ c.title \in Titles
    BY <1>1, <1>2, <1>8 DEF Stored, At, Stage, Served
  <2>2. QED
    BY <1>1, <1>2, <1>5, <1>8, <2>1, TitleStored DEF Register!Store, Register!Waits, AskedFor, TitleBar, RequestBar
<1>9. CASE /\ RequestOf(d) = AskedFor(c, "failed", Nothing)
           /\ Waiting(c) /\ (UNCHANGED history \/ Stored(r))
  <2>1. Register!Store(r) \/ UNCHANGED TitleBar
    BY <1>8, <1>9, TitlesKept
  <2>2. RequestBar' = Over("failed", Nothing) /\ RequestBar[r].phase = "called"
    BY <1>9, <1>6
  <2>3. Register!Fail(r)
    BY <2>1, <2>2 DEF Register!Fail, Register!Tell, TitleBar, RequestBar
  <2>4. QED
    BY <1>7, <2>2, <2>3, StepTaken
<1>10. CASE /\ RequestOf(d) = AskedFor(c, "done", [s \in Streams |-> Shows(s)])
           /\ Waiting(c) /\ c.op = "list" /\ UNCHANGED history
  <2>1. /\ RequestBar' = Over("done", [s \in Streams |-> Shows(s)])
        /\ RequestBar[r].phase = "called" /\ RequestBar[r].op = "list"
    BY <1>10, <1>6
  <2>2. [s \in Streams |-> Shows(s)] = [s \in Streams |-> Register!Shows(s)]
    BY DEF Shows, Register!Shows
  <2>3. UNCHANGED TitleBar
    BY <1>10, TitlesKept
  <2>4. Register!List(r)
    BY <2>1, <2>2, <2>3 DEF Register!List, Register!Waits, Register!Tell, TitleBar, RequestBar
  <2>5. QED
    BY <1>7, <2>1, <2>4, StepTaken
<1>11. CASE /\ RequestOf(d) = AskedFor(c, "done", Shows(c.id))
           /\ Waiting(c) /\ c.op = "get" /\ c.id \in Streams /\ UNCHANGED history
  <2>1. /\ RequestBar' = Over("done", Shows(c.id))
        /\ RequestBar[r].phase = "called" /\ RequestBar[r].op = "get" /\ RequestBar[r].id = c.id
    BY <1>11, <1>6
  <2>2. Shows(c.id) = Register!Shows(c.id)
    BY <1>11 DEF Shows, Register!Shows
  <2>3. UNCHANGED TitleBar
    BY <1>11, TitlesKept
  <2>4. Register!Get(r)
    BY <1>11, <2>1, <2>2, <2>3 DEF Register!Get, Register!Waits, Register!Tell, TitleBar, RequestBar
  <2>5. QED
    BY <1>7, <2>1, <2>4, StepTaken
<1>12. CASE /\ RequestOf(d) = AskedFor(c, "done", [id |-> c.id, title |-> c.title])
            /\ Waiting(c) /\ Stored(r)
  <2>1. c.op = "update"
    BY <1>2, <1>12 DEF Stored
  <2>2. /\ RequestBar' = Over("done", [id |-> c.id, title |-> c.title])
        /\ RequestBar[r].phase = "called" /\ RequestBar[r].id = c.id /\ RequestBar[r].new = c.title
    BY <1>12, <1>6, <2>1
  <2>3. Register!Update(r)
    BY <1>8, <1>12, <2>2 DEF Register!Update, Register!Tell, TitleBar, RequestBar
  <2>4. QED
    BY <1>7, <2>2, <2>3, StepTaken
<1>13. QED
  BY <1>2, <1>4, <1>9, <1>10, <1>11, <1>12 DEF Tells

LEMMA CallsKept ==
  ASSUME UNCHANGED <<history, call>>
  PROVE  RegisterStep
<1>1. UNCHANGED RequestBar
  BY DEF RequestBar, RequestOf, Unasked, Decided, Told, AskedFor, NoCall, Layers, ToApiStreamResponseList, ToApiStreamResponse
<1>2. QED
  BY <1>1, TitlesKept DEF RegisterStep

\* A slot that is used anew: the page or another client calls.
LEMMA SendMapped ==
  ASSUME ApiTypes, NEW r \in Requests, call[r].pc \in {"none", "answered", "lost"}, UNCHANGED history,
         NEW op \in {"list", "get", "update"},
         NEW id \in Streams \cup {UnknownId, MalformedId, Nothing},
         NEW new \in Titles \cup {Nothing},
         Send(r, op, id, new)
  PROVE  RegisterStep
<1>1. PICK d : d = [NoCall EXCEPT !.pc = "filter", !.op = op, !.id = id, !.title = new]
  OBVIOUS
<1>2. call' = [call EXCEPT ![r] = d]
  BY <1>1 DEF Send
<1>3. d.pc = "filter" /\ d.op = op /\ d.id = id /\ d.title = new
  BY <1>1 DEF NoCall
<1>4. RequestOf(d) = [phase |-> "called", op |-> op, id |-> IF op = "list" THEN Nothing ELSE id, new |-> new,
                      told |-> Nothing]
  BY <1>3 DEF RequestOf, Unasked, Decided, AskedFor
<1>5. RequestOf(d) \in Register!Calls
  BY <1>4 DEF Register!Calls, Titles
<1>6. RequestOf(call[r]).phase # "called"
  BY DEF RequestOf, Unasked, Decided, AskedFor
<1>7. RequestBar' = [RequestBar EXCEPT ![r] = RequestOf(d)] /\ RequestBar[r] = RequestOf(call[r])
  BY <1>2, RequestMoved
<1>8. RequestBar'[r] = RequestOf(d)
  BY <1>7 DEF RequestBar
<1>9. RequestBar' = [RequestBar EXCEPT ![r] = RequestBar'[r]] /\ RequestBar'[r] \in Register!Calls
      /\ RequestBar[r].phase # "called"
  BY <1>5, <1>6, <1>7, <1>8
<1>10. Register!Call(r)
  BY <1>9, TitlesKept DEF Register!Call, TitleBar, RequestBar
<1>11. RequestBar'[r] # RequestBar[r]
  BY <1>4, <1>8, <1>9
<1>12. QED
  BY <1>10, <1>11, StepTaken

\* A preflight asks for nothing.
LEMMA PreflightMapped ==
  ASSUME ApiTypes, NEW r \in Requests, call[r].pc = "none", UNCHANGED history, NEW id, NEW new,
         Send(r, "options", id, new)
  PROVE  RegisterStep
<1>1. PICK d : d = [NoCall EXCEPT !.pc = "filter", !.op = "options", !.id = id, !.title = new]
  OBVIOUS
<1>2. call' = [call EXCEPT ![r] = d] /\ d.op = "options"
  BY <1>1 DEF Send, NoCall
<1>3. RequestOf(d) = RequestOf(call[r])
  BY <1>2 DEF RequestOf, Unasked, Decided
<1>4. QED
  BY <1>2, <1>3, RequestMoved, TitlesKept DEF RegisterStep

\* A slot that becomes free.
LEMMA FinishMapped ==
  ASSUME ApiTypes, NEW r \in Requests, call[r].pc \in {"answered", "lost"}, UNCHANGED history, Finish(r)
  PROVE  RegisterStep
<1>1. call' = [call EXCEPT ![r] = NoCall]
  BY DEF Finish
<1>2. RequestOf(NoCall) = AskedFor(NoCall, "none", Nothing)
  BY DEF RequestOf, Unasked, Decided, NoCall
<1>3. AskedFor(NoCall, "none", Nothing) = Register!None
  BY DEF AskedFor, NoCall, Register!None
<1>4. /\ RequestBar' = [RequestBar EXCEPT ![r] = Register!None] /\ RequestBar[r] = RequestOf(call[r])
      /\ RequestOf(call[r]) = RequestOf(NoCall) => UNCHANGED RequestBar
  BY <1>1, <1>2, <1>3, RequestMoved
<1>5. CASE call[r].op = "options"
  <2>1. RequestOf(call[r]) = RequestOf(NoCall)
    BY <1>2, <1>5 DEF RequestOf, Unasked, Decided
  <2>2. QED
    BY <1>4, <2>1, TitlesKept DEF RegisterStep
<1>6. CASE call[r].op # "options"
  <2>1. RequestBar[r].phase \in {"done", "failed"}
    BY <1>4, <1>6 DEF RequestOf, Unasked, Decided, AskedFor
  <2>2. Register!Forget(r)
    BY <1>4, <2>1, TitlesKept DEF Register!Forget, TitleBar, RequestBar
  <2>3. RequestBar'[r] # RequestBar[r]
    BY <1>4, <2>1 DEF RequestBar, Register!None
  <2>4. QED
    BY <2>2, <2>3, StepTaken
<1>7. QED
  BY <1>5, <1>6

\* An answer that is lost: its client is told nothing.
LEMMA LoseMapped ==
  ASSUME ApiInv, NEW r \in Requests, LoseAnswer(r)
  PROVE  RegisterStep
<1>1. PICK c : c = call[r]
  OBVIOUS
<1>2. PICK d : d = [c EXCEPT !.pc = "lost"]
  OBVIOUS
<1>3. /\ call' = [call EXCEPT ![r] = d] /\ c.pc = "answered" /\ IsCall(c) /\ UNCHANGED history /\ ApiTypes
  BY <1>1, <1>2 DEF LoseAnswer, Goto, At, ApiInv, ApiTypes
<1>4. d.pc = "lost" /\ d.op = c.op /\ d.id = c.id /\ d.title = c.title
  <2>1. IsCall(c)
    BY <1>3
  <2>2. QED
    BY <1>2, <2>1, GotoCall
<1>5. /\ RequestBar' = [RequestBar EXCEPT ![r] = RequestOf(d)] /\ RequestBar[r] = RequestOf(c)
      /\ RequestOf(d) = RequestOf(c) => UNCHANGED RequestBar
  BY <1>1, <1>3, RequestMoved
<1>6. CASE c.op = "options" \/ ~c.ok
  <2>1. RequestOf(d) = RequestOf(c)
    BY <1>3, <1>4, <1>6 DEF RequestOf, Unasked, Decided, AskedFor
  <2>2. QED
    BY <1>3, <1>5, <2>1, TitlesKept DEF RegisterStep
<1>7. CASE c.op # "options" /\ c.ok
  <2>1. RequestOf(d) = AskedFor(c, "failed", Nothing)
    BY <1>4, <1>7 DEF RequestOf, Unasked, Decided, AskedFor
  <2>2. RequestOf(c) = AskedFor(c, "done", Told(c))
    BY <1>3, <1>7 DEF RequestOf, Unasked, Decided
  <2>3. /\ RequestBar[r].phase = "done" /\ RequestBar[r].op = c.op /\ RequestBar[r].new = c.title
        /\ RequestBar[r].id = IF c.op = "list" THEN Nothing ELSE c.id
    BY <1>5, <2>2 DEF AskedFor
  <2>4. RequestOf(d) = [phase |-> "failed", op |-> RequestBar[r].op, id |-> RequestBar[r].id,
                        new |-> RequestBar[r].new, told |-> Nothing]
    BY <2>1, <2>3 DEF AskedFor
  <2>5. RequestBar' = [RequestBar EXCEPT ![r] =
                         [phase |-> "failed", op |-> RequestBar[r].op, id |-> RequestBar[r].id,
                          new |-> RequestBar[r].new, told |-> Nothing]]
    BY <1>5, <2>4
  <2>6. Register!Fail(r)
    BY <1>3, <2>3, <2>5, TitlesKept DEF Register!Fail, Register!Tell, TitleBar, RequestBar
  <2>7. RequestBar'[r] # RequestBar[r]
    BY <2>3, <2>5 DEF RequestBar
  <2>8. QED
    BY <2>6, <2>7, StepTaken
<1>8. QED
  BY <1>6, <1>7

\* Every action of the page, of the other clients and of the server.
LEMMA StepMapped ==
  ASSUME BInv, [Next]_vars
  PROVE  RegisterStep
<1>1. ApiInv /\ ApiTypes /\ \A r \in Requests : Purpose(r)
  BY DEF BInv, ApiInv, PageInv
<1>2. CASE UNCHANGED <<history, call>>
  BY <1>2, CallsKept
<1>3. ASSUME NEW r \in Requests, Serve(r) \/ Break(r)
      PROVE  RegisterStep
  <2>1. PICK d : ApiStep(r, d) /\ Serves(r, d) /\ Tells(r, d)
    BY <1>1, <1>3, ServerStep
  <2>2. QED
    BY <1>1, <2>1, TellsStep
<1>4. ASSUME NEW r \in Requests, LoseAnswer(r)
      PROVE  RegisterStep
  BY <1>1, <1>4, LoseMapped
<1>5. ASSUME NEW r \in Requests, FetchStreams(r)
      PROVE  RegisterStep
  <2>1. call[r].pc = "none" /\ UNCHANGED history /\ Send(r, "list", Nothing, Nothing)
    BY <1>1, <1>5 DEF FetchStreams, Use, Purpose, Quiet
  <2>2. QED
    BY <1>1, <2>1, SendMapped
<1>6. ASSUME NEW r \in Requests, UpdateStreamForm(r)
      PROVE  RegisterStep
  <2>1. call[r].pc = "none" /\ UNCHANGED history /\ Send(r, "options", selected.id, submits')
    BY <1>1, <1>6 DEF UpdateStreamForm, Use, Purpose, Quiet
  <2>2. QED
    BY <1>1, <2>1, PreflightMapped
<1>7. ASSUME NEW r \in Requests, NEW op \in {"get", "update"},
             NEW id \in Streams \cup {UnknownId, MalformedId}, CallDirectly(r, op, id)
      PROVE  RegisterStep
  <2>1. call[r].pc = "none" /\ UNCHANGED history
    BY <1>1, <1>7 DEF CallDirectly, Use, Purpose, Quiet
  <2>2. PICK new \in Titles \cup {Nothing} : Send(r, op, id, new)
    <3>1. op = "update" => submits' \in Titles
      BY <1>7, SubmitsAssumption DEF CallDirectly, NewTitle, BInv, PageInv, PageTypes, Titles
    <3>2. QED
      BY <1>7, <3>1 DEF CallDirectly
  <2>3. QED
    BY <1>1, <2>1, <2>2, SendMapped
<1>8. ASSUME NEW r \in Requests, SendPut(r)
      PROVE  RegisterStep
  <2>1. call[r].pc \in {"answered", "lost"} /\ UNCHANGED history
        /\ (Send(r, "update", call[r].id, call[r].title) \/ Finish(r))
    BY <1>8 DEF SendPut, Arrived, Quiet
  <2>2. PICK id \in Streams, new \in Titles : id = call[r].id /\ new = call[r].title
    BY <1>1, <1>8 DEF SendPut, Arrived, Purpose
  <2>3. QED
    BY <1>1, <2>1, <2>2, SendMapped, FinishMapped
<1>9. ASSUME NEW r \in Requests, UpdateArrives(r)
      PROVE  RegisterStep
  <2>1. call[r].pc \in {"answered", "lost"} /\ UNCHANGED history
        /\ (Send(r, "list", Nothing, Nothing) \/ Finish(r))
    BY <1>9 DEF UpdateArrives, Arrived, Quiet
  <2>2. QED
    BY <1>1, <2>1, SendMapped, FinishMapped
<1>10. ASSUME NEW r \in Requests, StreamsArrive(r) \/ RelistArrives(r) \/ DirectAnswer(r)
       PROVE  RegisterStep
  <2>1. call[r].pc \in {"answered", "lost"} /\ UNCHANGED history /\ Finish(r)
    BY <1>10 DEF StreamsArrive, RelistArrives, DirectAnswer, Arrived, Quiet
  <2>2. QED
    BY <1>1, <2>1, FinishMapped
<1>11. CASE (\E s \in Streams : SelectStream(s)) \/ OpenEditModal \/ CancelEdit \/ UNCHANGED vars
  <2>1. UNCHANGED <<history, call>>
    BY <1>11 DEF SelectStream, OpenEditModal, CancelEdit, vars, apiVars
  <2>2. QED
    BY <1>2, <2>1
<1>12. CASE Others
  BY <1>1, <1>2, <1>12, OthersStep
<1>13. QED
  BY <1>3, <1>4, <1>5, <1>6, <1>7, <1>8, <1>9, <1>10, <1>11, <1>12 DEF Next, User, Page

\* The REST server is linearizable for any requests, streams, connections, submissions and
\* failures: what a client is told is what the register would have told it, at one moment
\* between its call and its answer.
THEOREM RegisterImplemented == Spec => ImplementsRegister
<1>1. Init => Register!Init
  <2> SUFFICES ASSUME Init PROVE Register!Init
    OBVIOUS
  <2>1. ASSUME NEW s \in Streams
        PROVE  Title(s) = 0
    <3>1. history[s] = <<0>>
      BY DEF Init, ApiInit
    <3>2. QED
      BY <3>1 DEF Title, Last
  <2>2. ASSUME NEW r \in Requests
        PROVE  RequestOf(call[r]) = Register!None
    <3>1. call[r] = NoCall
      BY DEF Init, ApiInit
    <3>2. QED
      BY <3>1 DEF RequestOf, Unasked, Decided, AskedFor, NoCall, Register!None
  <2>3. QED
    BY <2>1, <2>2 DEF Register!Init
<1>2. BInv /\ [Next]_vars => [Register!Next]_Register!vars
  <2>1. RegisterStep => [Register!Next]_Register!vars
    BY DEF RegisterStep, Register!vars, TitleBar, RequestBar
  <2>2. QED
    BY <2>1, StepMapped
<1>3. QED
  BY <1>1, <1>2, Invariant, PTL DEF Spec, ImplementsRegister, Register!Spec

-----------------------------------------------------------------------------
(***************************************************************************)
(* No standstill                                                           *)
(***************************************************************************)
\* Whoever holds a connection is ready, or waits for a row that a request which is ready
\* or a lost transaction holds.
LEMMA HolderReady ==
  ASSUME ApiInv, NEW r \in Requests, call[r].pc \in InDatabase, \A s \in Streams : lock[s] # Orphan
  PROVE  \E q \in Requests : Ready(q)
<1>1. CASE call[r].pc \in {"query", "commit"} \/ call[r].id \notin Streams
  BY <1>1 DEF Ready, At, InDatabase
<1>2. CASE call[r].pc = "statement" /\ call[r].id \in Streams
  <2>1. r \in conns
    BY <1>2 DEF ApiInv, Held
  <2>2. CASE lock[call[r].id] = NoRequest
    BY <1>2, <2>1, <2>2 DEF Ready, At, WithTx
  <2>3. CASE lock[call[r].id] # NoRequest
    <3>1. PICK q \in Requests : lock[call[r].id] = q
      BY <1>2, <2>3 DEF ApiInv, ApiTypes
    <3>2. call[q].pc = "commit"
      BY <1>2, <3>1 DEF ApiInv, Held
    <3>3. QED
      BY <3>2 DEF Ready
  <2>4. QED
    BY <2>2, <2>3
<1>3. QED
  BY <1>1, <1>2 DEF InDatabase

\* A request that waits for a connection waits for one that is ready, or for a load.
LEMMA SomeoneReady ==
  ASSUME ApiInv, NEW r \in Requests, call[r].pc \notin {"none", "answered", "lost"},
         \A s \in Streams : lock[s] # Orphan, Playback \notin conns
  PROVE  \E q \in Requests : Ready(q)
<1>1. call[r].pc \in {"filter", "return", "acquire"} \cup InDatabase
  BY DEF ApiInv, ApiTypes, IsCall, InDatabase
<1>2. CASE call[r].pc = "acquire"
  <2>1. CASE Cardinality(conns) < MaxConns
    BY <1>2, <2>1 DEF Ready, At
  <2>2. CASE ~(Cardinality(conns) < MaxConns)
    <3>1. conns # {}
      BY <2>2, FS_EmptySet, ConnsAssumption
    <3>2. PICK q \in Requests : q \in conns
      BY <3>1 DEF ApiInv, ApiTypes
    <3>3. call[q].pc \in InDatabase
      BY <3>2 DEF ApiInv, Held, InDatabase
    <3>4. QED
      BY <3>3, HolderReady
  <2>3. QED
    BY <2>1, <2>2
<1>3. QED
  BY <1>1, <1>2, HolderReady DEF Ready

\* Requests never wait for each other in a circle, for any number of requests, streams and
\* connections: a request that waits for a row has its connection already, one that waits
\* for a connection has no row, and one that has a row waits for nothing.
THEOREM NoCircularWait == Spec => []Unblocked
<1>1. BInv => Unblocked
  BY SomeoneReady DEF BInv, Unblocked
<1>2. QED
  BY <1>1, Invariant, PTL

=============================================================================
