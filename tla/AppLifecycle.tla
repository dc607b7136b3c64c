---------------------------- MODULE AppLifecycle ----------------------------
(***************************************************************************)
(* The process, from main through initApp and the application's run to its *)
(* exit (backend/cmd/streams), with the two servers, the connection pool   *)
(* and the health checks, and with the requests and the hijacked WebSocket *)
(* sessions that use them.  The container restarts a process that ended.   *)
(*                                                                         *)
(* The application framework runs, for each server, a goroutine that       *)
(* starts it and one that stops it when the run's context is done; the run *)
(* ends when all of them have, with the first error.                       *)
(*                                                                         *)
(* Abstracted: what a configuration value is, but for the switch of the    *)
(* metrics server and whether a value is missing or wrong.                 *)
(***************************************************************************)
EXTENDS Integers, FiniteSets

CONSTANTS
  Users,        \* clients, one request or session each at a time
  MaxConns,     \* connections in the pool
  MaxOutages,   \* bound on the database's outages
  MaxFailures,  \* bound on failing steps of the start and failing servers
  MaxStarts     \* bound on starts of the process

ASSUME ConnsAssumption  == MaxConns \in Nat \ {0} /\ MaxOutages \in Nat
ASSUME StartsAssumption == MaxStarts \in Nat \ {0} /\ MaxFailures \in Nat

VARIABLES
  main,       \* where main is
  metricsOn,  \* PROMETHEUS_ENABLED of this start
  exit,       \* how the process ended, or none
  http,       \* the HTTP server
  metrics,    \* the metrics server
  done,       \* the run's context is done
  err,        \* the run's first error is set
  pool,       \* the connection pool
  user,       \* user[u]: what the client does at this process
  conns,      \* clients whose request or session holds a connection
  dbUp, outages, failures, starts

process == <<metricsOn, exit, http, metrics, done, err>>
env     == <<dbUp, outages, failures, starts>>
vars    == <<main, process, pool, user, conns, env>>

\* A client in a handler, one the HTTP server waits for when it stops, and one
\* whose connection was hijacked, which it does not wait for.
InHandler(u) == user[u] \in {"live", "ready", "query", "metadata"}

Hijacked(u) == user[u] = "session"

Running == exit = "none"

Boot ==
  /\ main' = "config"
  /\ metricsOn' \in BOOLEAN
  /\ exit' = "none" /\ http' = "off" /\ metrics' = "off"
  /\ done' = FALSE /\ err' = FALSE /\ pool' = "none"
  /\ user' = [u \in Users |-> "none"] /\ conns' = {}

Init ==
  /\ main = "config"
  /\ metricsOn \in BOOLEAN
  /\ exit = "none" /\ http = "off" /\ metrics = "off"
  /\ done = FALSE /\ err = FALSE /\ pool = "none"
  /\ user = [u \in Users |-> "none"] /\ conns = {}
  /\ dbUp = TRUE /\ outages = 0 /\ failures = 0 /\ starts = 1

-----------------------------------------------------------------------------
(***************************************************************************)
(* main and initApp                                                        *)
(***************************************************************************)
At(l) == Running /\ main = l

\* The process is gone, and with it its connections and its clients.
Exit(how) ==
  /\ main' = "exited" /\ exit' = how
  /\ http' = "off" /\ metrics' = "off"
  /\ pool' = "none" /\ conns' = {}
  /\ user' = [u \in Users |-> "none"]
  /\ UNCHANGED <<metricsOn, done, err>>

Fatalf == Exit("fatal") /\ UNCHANGED <<dbUp, outages, starts>>

Fails == failures < MaxFailures /\ failures' = failures + 1

Goto(l) == main' = l

\* A required variable that is missing or a value that does not parse is fatal.
NewConfig ==
  /\ At("config")
  /\ \/ Goto("meter") /\ UNCHANGED <<process, pool, user, conns, env>>
     \/ Fails /\ Fatalf

NewMeterProvider ==
  /\ At("meter")
  /\ \/ Goto("clients") /\ UNCHANGED <<process, pool, user, conns, env>>
     \/ Fails /\ Fatalf

\* The pool is made, and the database must answer a ping.
NewClients ==
  /\ At("clients")
  /\ IF dbUp
     THEN Goto("wire") /\ pool' = "open" /\ UNCHANGED <<process, user, conns, env>>
     ELSE Fatalf /\ UNCHANGED failures

\* The HTTP server with its routes, filter, address and timeout; it does not listen yet.
NewHTTPStreamServer == "made"

\* A meter's instrument fails: newHTTPServer returns nil, to which the routes are added.
RoutesOnNil == Fails /\ Exit("panic") /\ UNCHANGED <<dbUp, outages, starts>>

\* No server, a nil interface, when the metrics are switched off.
NewMetricsServer == IF metricsOn THEN "made" ELSE "nil"

\* initApp wires the rest, and newApp takes both servers.
InitApp ==
  /\ At("wire")
  /\ \/ Goto("listen")
        /\ http' = NewHTTPStreamServer /\ metrics' = NewMetricsServer
        /\ UNCHANGED <<metricsOn, exit, done, err, pool, user, conns, env>>
     \/ RoutesOnNil

\* Run asks the HTTP server for its endpoint: it listens, or Run returns the error.
Listen ==
  /\ At("listen")
  /\ \/ Goto("run") /\ http' = "listening"
        /\ UNCHANGED <<metricsOn, exit, metrics, done, err, pool, user, conns, env>>
     \/ Fails /\ Fatalf

-----------------------------------------------------------------------------
(***************************************************************************)
(* The goroutines of Run                                                   *)
(***************************************************************************)
\* The first error ends the run's context.
StartHTTP ==
  /\ At("run") /\ http = "listening"
  /\ http' = "serving"
  /\ UNCHANGED <<main, metricsOn, exit, metrics, done, err, pool, user, conns, env>>

ServeFails ==
  /\ At("run") /\ http = "serving" /\ Fails
  /\ http' = "failed" /\ done' = TRUE /\ err' = TRUE
  /\ UNCHANGED <<main, metricsOn, exit, metrics, pool, user, conns, dbUp, outages, starts>>

\* Start returns at once; that the metrics server cannot listen is logged.
StartMetrics ==
  /\ At("run") /\ metrics = "made"
  /\ \/ metrics' = "serving" /\ UNCHANGED failures
     \/ metrics' = "failed" /\ Fails
  /\ UNCHANGED <<main, metricsOn, exit, http, done, err, pool, user, conns, dbUp, outages, starts>>

\* Start of a nil interface.
StartNothing ==
  /\ At("run") /\ metrics = "nil"
  /\ Exit("panic")
  /\ UNCHANGED env

\* SIGTERM or SIGINT; before Run subscribes to them they end the process.
Signal ==
  /\ At("run") /\ ~done
  /\ done' = TRUE
  /\ UNCHANGED <<main, metricsOn, exit, http, metrics, err, pool, user, conns, env>>

KilledEarly ==
  /\ Running /\ main \notin {"run", "cleanup"}
  /\ Exit("killed")
  /\ UNCHANGED env

\* Shutdown closes the listener.
StopHTTP ==
  /\ At("run") /\ done /\ http \in {"listening", "serving", "failed"}
  /\ http' = "stopping"
  /\ UNCHANGED <<main, metricsOn, exit, metrics, done, err, pool, user, conns, env>>

\* Mutant of StoppedHTTP: the server is closed, not shut down.
StoppedHTTPClosed ==
  /\ At("run") /\ http = "stopping"
  /\ http' = "stopped"
  /\ UNCHANGED <<main, metricsOn, exit, metrics, done, err, pool, user, conns, env>>

\* Shutdown has waited for the requests, without a time limit.
StoppedHTTP ==
  /\ At("run") /\ http = "stopping" /\ ~\E u \in Users : InHandler(u)
  /\ http' = "stopped"
  /\ UNCHANGED <<main, metricsOn, exit, metrics, done, err, pool, user, conns, env>>

\* A start that comes after the stop does nothing.
StopMetrics ==
  /\ At("run") /\ done /\ metrics \in {"made", "serving", "failed"}
  /\ metrics' = "stopped"
  /\ UNCHANGED <<main, metricsOn, exit, http, done, err, pool, user, conns, env>>

\* Mutant of RunReturns: main returns whatever Run returned.
RunReturnsAnyway ==
  /\ At("run") /\ http = "stopped" /\ metrics = "stopped"
  /\ Goto("cleanup") /\ pool' = "closing" /\ UNCHANGED <<process, user, conns, env>>

\* Run returns when all goroutines have.  Fatalf skips the deferred cleanup.
RunReturns ==
  /\ At("run") /\ http = "stopped" /\ metrics = "stopped"
  /\ IF err
     THEN Exit("fatal") /\ UNCHANGED env
     ELSE Goto("cleanup") /\ pool' = "closing" /\ UNCHANGED <<process, user, conns, env>>

\* Close waits for the connections that are in use.
PoolCloses ==
  /\ At("cleanup") /\ conns = {}
  /\ Exit("ok")
  /\ UNCHANGED env

\* The container is restarted.
Restart ==
  /\ ~Running /\ starts < MaxStarts
  /\ starts' = starts + 1
  /\ Boot
  /\ UNCHANGED <<dbUp, outages, failures>>

-----------------------------------------------------------------------------
(***************************************************************************)
(* Clients                                                                 *)
(***************************************************************************)
Become(u, what) == user' = [user EXCEPT ![u] = what]

\* The HTTP server takes a request.
Accept(u, what) ==
  /\ Running /\ http = "serving" /\ user[u] = "none"
  /\ Become(u, what)
  /\ UNCHANGED <<main, process, pool, conns, env>>

\* A liveness check, which is answered without the database.
Live(u) == Accept(u, "live")

\* A readiness check, a request of the API, the metadata of a session.
Connect(u) == \E what \in {"ready", "query", "metadata"} : Accept(u, what)

\* Mutant of TakeConn: nobody waits for a connection.
TakeConnAlways(u) ==
  /\ pool = "open" /\ u \notin conns
  /\ conns' = conns \cup {u}

\* The pool gives out a connection, when it has one.
TakeConn(u) ==
  /\ pool = "open" /\ u \notin conns /\ Cardinality(conns) < MaxConns
  /\ conns' = conns \cup {u}

\* The readiness check pings the database.
Ready(u) ==
  /\ Running /\ user[u] = "ready"
  /\ TakeConn(u)
  /\ UNCHANGED <<main, process, pool, user, env>>

\* A query, or a load of the session's chunks.
Query(u) ==
  /\ Running /\ user[u] \in {"query", "metadata", "session"}
  /\ TakeConn(u)
  /\ UNCHANGED <<main, process, pool, user, env>>

\* What a client becomes by the answer of its query.  With the metadata it is
\* upgraded, unless the stream has no frames; a session goes on also when its
\* load failed, and tries again in its next slot.
Answered(u) ==
  CASE user[u] = "session"           -> {"session"}
    [] user[u] = "metadata" /\ dbUp -> {"session", "none"}
    [] OTHER                         -> {"none"}

\* Mutant of Done: a query that failed keeps its connection.
DoneLeaking(u) ==
  /\ Running /\ u \in conns
  /\ conns' = IF dbUp THEN conns \ {u} ELSE conns
  /\ \E what \in Answered(u) : Become(u, what)
  /\ UNCHANGED <<main, process, pool, env>>

\* The query is over, and its connection goes back.
Done(u) ==
  /\ Running /\ u \in conns
  /\ conns' = conns \ {u}
  /\ \E what \in Answered(u) : Become(u, what)
  /\ UNCHANGED <<main, process, pool, env>>

\* The request's timeout, also of one that waits for a connection, ends it; a
\* session may play from the cache, until its end or that timeout.
End(u) ==
  /\ Running /\ (InHandler(u) \/ Hijacked(u)) /\ u \notin conns
  /\ Become(u, "none")
  /\ UNCHANGED <<main, process, pool, conns, env>>

DbFails ==
  /\ dbUp /\ outages < MaxOutages
  /\ dbUp' = FALSE /\ outages' = outages + 1
  /\ UNCHANGED <<main, process, pool, user, conns, failures, starts>>

DbRecovers ==
  /\ ~dbUp
  /\ dbUp' = TRUE
  /\ UNCHANGED <<main, process, pool, user, conns, outages, failures, starts>>

-----------------------------------------------------------------------------
Start == NewConfig \/ NewMeterProvider \/ NewClients \/ InitApp \/ Listen

Stop == StopHTTP \/ StoppedHTTP \/ StopMetrics \/ RunReturns \/ PoolCloses

Next ==
  \/ Start \/ StartHTTP \/ ServeFails \/ StartMetrics \/ StartNothing
  \/ Signal \/ KilledEarly \/ Stop \/ Restart
  \/ \E u \in Users : Live(u) \/ Connect(u) \/ Ready(u) \/ Query(u) \/ Done(u) \/ End(u)
  \/ DbFails \/ DbRecovers

Spec == Init /\ [][Next]_vars

\* Goroutines run, and the request timeout bounds every request and session.
FairSpec ==
  /\ Spec
  /\ WF_vars(Stop) /\ WF_vars(StartMetrics) /\ WF_vars(StartNothing)
  /\ \A u \in Users : WF_vars(Done(u)) /\ WF_vars(End(u))

-----------------------------------------------------------------------------
(***************************************************************************)
(* Properties                                                              *)
(***************************************************************************)
\* Types.
TypeOK ==
  /\ main \in {"config", "meter", "clients", "wire", "listen", "run", "cleanup", "exited"}
  /\ exit \in {"none", "ok", "fatal", "killed", "panic"} /\ (main = "exited" <=> ~Running)
  /\ http \in {"off", "made", "listening", "serving", "failed", "stopping", "stopped"}
  /\ metrics \in {"off", "nil", "made", "serving", "failed", "stopped"}
  /\ pool \in {"none", "open", "closing"}
  /\ user \in [Users -> {"none", "live", "ready", "query", "metadata", "session"}]
  /\ conns \subseteq Users /\ Cardinality(conns) <= MaxConns
  /\ metricsOn \in BOOLEAN /\ done \in BOOLEAN /\ err \in BOOLEAN /\ dbUp \in BOOLEAN

\* The pool outlives the requests: while a handler that the server waits for is
\* running, nobody has begun to close the pool.
PoolOutlivesRequests == (\E u \in Users : InHandler(u)) => pool = "open"

\* The exit tells how the run ended: a process that reports success was asked to
\* stop and its HTTP server never failed in serving, also not while it was being
\* stopped; one that was asked to stop reports failure only when that server had
\* failed.  The metrics server has no part in it: its failure is only logged.
ExitTold ==
  /\ exit = "ok" => done /\ ~err
  /\ exit = "fatal" /\ done => err

\* A stop completes: the process ends after the signal or the first failing
\* server, although requests are under way and sessions hold connections.
StopCompletes == done ~> ~Running

=============================================================================
