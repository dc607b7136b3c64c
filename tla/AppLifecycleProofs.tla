-------------------------- MODULE AppLifecycleProofs --------------------------
(***************************************************************************)
(* Proofs about AppLifecycle, for any clients, any size of the pool and    *)
(* any numbers of faults and restarts.                                     *)
(***************************************************************************)
EXTENDS AppLifecycle, FiniteSetTheorems, TLAPS

-----------------------------------------------------------------------------
(***************************************************************************)
(* The inductive invariant                                                 *)
(***************************************************************************)
\* The HTTP server is there only while main is in Run, and a server that has
\* begun to stop was told to.
ServerInRun ==
  /\ http \in {"listening", "serving", "failed", "stopping"} => main = "run"
  /\ http \in {"stopping", "stopped"} => done

\* The pool is open from its making to the deferred cleanup.
PoolOpen == main \in {"wire", "listen", "run"} => pool = "open"

\* A handler that the server waits for keeps the server from being stopped.
HandlerServed == \A u \in Users : InHandler(u) => http \in {"serving", "failed", "stopping"}

\* The cleanup is reached only by a run that was asked to end and did not fail.
CleanupEarned == main = "cleanup" => done /\ ~err

\* Before Run nobody has asked for the end and nothing has failed in serving.
NotYetRun == main \in {"config", "meter", "clients", "wire", "listen"} => ~done /\ ~err

IInv ==
  /\ TypeOK /\ IsFiniteSet(conns)
  /\ ServerInRun /\ PoolOpen /\ HandlerServed /\ CleanupEarned /\ NotYetRun /\ ExitTold

\* The types, in parts.
Switches == metricsOn \in BOOLEAN /\ done \in BOOLEAN /\ err \in BOOLEAN /\ dbUp \in BOOLEAN

Places ==
  /\ main \in {"config", "meter", "clients", "wire", "listen", "run", "cleanup", "exited"}
  /\ exit \in {"none", "ok", "fatal", "killed", "panic"} /\ (main = "exited" <=> ~Running)
  /\ http \in {"off", "made", "listening", "serving", "failed", "stopping", "stopped"}
  /\ metrics \in {"off", "nil", "made", "serving", "failed", "stopped"}
  /\ pool \in {"none", "open", "closing"}

Pooled ==
  /\ user \in [Users -> {"none", "live", "ready", "query", "metadata", "session"}]
  /\ conns \subseteq Users /\ Cardinality(conns) <= MaxConns /\ IsFiniteSet(conns)

\* Every part but the types.
Order == ServerInRun /\ PoolOpen /\ HandlerServed /\ CleanupEarned /\ NotYetRun
           /\ ExitTold

-----------------------------------------------------------------------------
LEMMA TypeParts == TypeOK /\ IsFiniteSet(conns) <=> Switches /\ Places /\ Pooled
  BY DEF TypeOK, Switches, Places, Pooled

\* A process that has just started, at first or again.
Fresh ==
  /\ main = "config" /\ exit = "none" /\ http = "off" /\ metrics = "off" /\ metricsOn \in BOOLEAN
  /\ done = FALSE /\ err = FALSE /\ pool = "none"
  /\ user = [u \in Users |-> "none"] /\ conns = {} /\ dbUp \in BOOLEAN

LEMMA FreshProcess == Fresh => IInv
<1> SUFFICES ASSUME Fresh PROVE IInv
  OBVIOUS
<1> USE DEF Fresh
<1>1. TypeOK /\ IsFiniteSet(conns)
  <2>1. Switches
    BY DEF Switches
  <2>2. Places
    BY DEF Places, Running
  <2>3. Pooled
    BY FS_EmptySet, ConnsAssumption DEF Pooled
  <2>4. QED
    BY <2>1, <2>2, <2>3, TypeParts
<1>2. Order
  BY DEF Order, ServerInRun, PoolOpen, HandlerServed, InHandler, CleanupEarned, NotYetRun, ExitTold
<1>3. QED
  BY <1>1, <1>2 DEF IInv, Order

LEMMA InitIInv == Init => IInv
  BY FreshProcess DEF Init, Fresh

\* The end of the process leaves no connection and no client behind.
LEMMA ExitKeeps ==
  ASSUME IInv, NEW how \in {"ok", "fatal", "killed", "panic"}, Exit(how), UNCHANGED dbUp,
         how = "ok" => done /\ ~err, how = "fatal" /\ done => err
  PROVE  IInv'
<1> USE DEF IInv, Exit
<1>1. TypeOK' /\ IsFiniteSet(conns')
  BY FS_EmptySet, ConnsAssumption DEF TypeOK, Running
<1>2. ServerInRun' /\ PoolOpen' /\ HandlerServed' /\ CleanupEarned' /\ NotYetRun'
  BY DEF ServerInRun, PoolOpen, HandlerServed, InHandler, CleanupEarned, NotYetRun
<1>3. ExitTold'
  BY DEF ExitTold
<1>4. QED
  BY <1>1, <1>2, <1>3

\* A step of the start, none of which has a client.
LEMMA StartKeeps ==
  ASSUME IInv, Start
  PROVE  IInv'
<1>1. At("config") \/ At("meter") \/ At("clients") \/ At("wire") \/ At("listen")
  BY DEF Start, NewConfig, NewMeterProvider, NewClients, InitApp, Listen
<1>2. ~done
  BY <1>1 DEF At, IInv, NotYetRun
<1>3. CASE \E how \in {"fatal", "panic"} : Exit(how) /\ UNCHANGED dbUp
  BY <1>2, <1>3, ExitKeeps
<1>4. CASE /\ UNCHANGED <<metricsOn, exit, done, err, user, conns, dbUp>>
           /\ \/ main' \in {"meter", "clients"} /\ UNCHANGED <<http, metrics, pool>>
              \/ main' = "wire" /\ pool' = "open" /\ UNCHANGED <<http, metrics>>
              \/ main' = "listen" /\ http' = "made" /\ metrics' \in {"made", "nil"} /\ At("wire") /\ UNCHANGED pool
              \/ main' = "run" /\ http' = "listening" /\ At("listen") /\ UNCHANGED <<metrics, pool>>
  <2>1. TypeOK' /\ IsFiniteSet(conns')
    BY <1>1, <1>4 DEF At, IInv, TypeOK, Running
  <2>2. NotYetRun' /\ CleanupEarned' /\ ExitTold'
    BY <1>1, <1>4 DEF At, IInv, NotYetRun, CleanupEarned, ExitTold
  <2>3. ServerInRun' /\ PoolOpen' /\ HandlerServed'
    BY <1>1, <1>4 DEF At, IInv, ServerInRun, PoolOpen, HandlerServed, InHandler
  <2>4. QED
    BY <2>1, <2>2, <2>3 DEF IInv
<1>5. QED
  BY <1>3, <1>4 DEF Start, NewConfig, NewMeterProvider, NewClients, InitApp, Listen, Goto, At, process, env,
     Fatalf, RoutesOnNil, NewHTTPStreamServer, NewMetricsServer

\* A step of the run's goroutines that does not end the process.
LEMMA RunKeeps ==
  ASSUME IInv, StartHTTP \/ ServeFails \/ StartMetrics \/ Signal \/ StopHTTP \/ StoppedHTTP \/ StopMetrics
  PROVE  IInv'
<1> USE DEF At, Fails, StartHTTP, ServeFails, StartMetrics, Signal, StopHTTP, StoppedHTTP, StopMetrics
<1>1. TypeOK' /\ IsFiniteSet(conns')
  <2>1. Switches /\ Places /\ Pooled
    BY TypeParts DEF IInv
  <2>2. Switches'
    <3>1. UNCHANGED <<metricsOn, dbUp>>
      BY DEF env
    <3>2. done' = done \/ done' = TRUE
      OBVIOUS
    <3>3. err' = err \/ err' = TRUE
      OBVIOUS
    <3>4. QED
      BY <2>1, <3>1, <3>2, <3>3, Zenon DEF Switches
  <2>3. Places'
    BY <2>1 DEF Places, Running
  <2>4. Pooled'
    BY <2>1 DEF Pooled
  <2>5. QED
    BY <2>2, <2>3, <2>4 DEF TypeOK, Switches, Places, Pooled
<1>2. Order'
  BY DEF IInv, Order, Running, ServerInRun, PoolOpen, HandlerServed, InHandler, CleanupEarned, NotYetRun,
     ExitTold
<1>3. QED
  BY <1>1, <1>2 DEF IInv, Order

\* The end of the run, the cleanup, and the ends of the process.
LEMMA EndKeeps ==
  ASSUME IInv, StartNothing \/ KilledEarly \/ RunReturns \/ PoolCloses
  PROVE  IInv'
<1> USE DEF At, env
<1>1. CASE StartNothing
  BY <1>1, ExitKeeps DEF StartNothing, IInv, NotYetRun
<1>2. CASE KilledEarly
  BY <1>2, ExitKeeps DEF KilledEarly
<1>3. CASE PoolCloses
  BY <1>3, ExitKeeps DEF PoolCloses, IInv, CleanupEarned
<1>4. CASE RunReturns /\ err
  BY <1>4, ExitKeeps DEF RunReturns
<1>5. CASE RunReturns /\ ~err
  <2>1. TypeOK' /\ IsFiniteSet(conns')
    BY <1>5 DEF RunReturns, Goto, process, IInv, TypeOK, Running
  <2>2. Order'
    BY <1>5 DEF RunReturns, Goto, process, IInv, Order, Running, ServerInRun, PoolOpen, HandlerServed,
       InHandler, CleanupEarned, NotYetRun, ExitTold
  <2>3. QED
    BY <2>1, <2>2 DEF IInv, Order
<1>6. QED
  BY <1>1, <1>2, <1>3, <1>4, <1>5

\* A restart begins like the first start.
LEMMA RestartKeeps ==
  ASSUME IInv, Restart
  PROVE  IInv'
<1>1. metricsOn' \in BOOLEAN /\ dbUp' \in BOOLEAN
  BY DEF Restart, Boot, IInv, TypeOK
<1>2. Fresh'
  BY <1>1 DEF Restart, Boot, Fresh
<1>3. (Fresh => IInv)'
  BY FreshProcess, PTL
<1>4. QED
  BY <1>2, <1>3

\* What a client does to itself and to the pool's connections.
LEMMA ClientKeeps ==
  ASSUME IInv, NEW u \in Users, Live(u) \/ Connect(u) \/ Ready(u) \/ Query(u) \/ Done(u) \/ End(u)
  PROVE  IInv'
<1> USE DEF process, env
<1>1. UNCHANGED <<main, process, pool, env>>
  BY DEF Live, Connect, Accept, Ready, Query, Done, End
<1>2. IsFiniteSet(conns') /\ conns' \subseteq Users /\ Cardinality(conns') <= MaxConns
  <2>1. CASE conns' = conns
    BY <2>1 DEF IInv, TypeOK
  <2>2. CASE conns' = conns \cup {u} /\ u \notin conns /\ Cardinality(conns) < MaxConns
    <3>1. IsFiniteSet(conns') /\ Cardinality(conns') = Cardinality(conns) + 1 /\ Cardinality(conns) \in Nat
      BY <2>2, FS_AddElement, FS_CardinalityType DEF IInv
    <3>2. QED
      BY <2>2, <3>1, ConnsAssumption DEF IInv, TypeOK
  <2>3. CASE conns' = conns \ {u} /\ u \in conns
    <3>1. IsFiniteSet(conns') /\ Cardinality(conns') = Cardinality(conns) - 1 /\ Cardinality(conns) \in Nat
      BY <2>3, FS_RemoveElement, FS_CardinalityType DEF IInv
    <3>2. QED
      BY <2>3, <3>1, ConnsAssumption DEF IInv, TypeOK
  <2>4. QED
    BY <2>1, <2>2, <2>3 DEF Live, Connect, Accept, Ready, Query, Done, End, TakeConn
<1>3. PICK what \in {"none", "live", "ready", "query", "metadata", "session"} :
        /\ user' = user \/ user' = [user EXCEPT ![u] = what]
        /\ what \in {"live", "ready", "query", "metadata"} /\ user' # user => http = "serving"
  <2>1. Answered(u) \subseteq {"session", "none"}
    BY DEF Answered
  <2>2. QED
    BY <2>1 DEF Live, Connect, Accept, Ready, Query, Done, End, Become
<1>4. TypeOK'
  BY <1>1, <1>2, <1>3 DEF IInv, TypeOK, Running
<1>5. HandlerServed'
  BY <1>1, <1>3 DEF IInv, TypeOK, HandlerServed, InHandler
<1>6. QED
  BY <1>1, <1>2, <1>4, <1>5 DEF IInv, ServerInRun, PoolOpen, CleanupEarned, NotYetRun, ExitTold

\* The database fails and recovers on its own.
LEMMA DbKeeps ==
  ASSUME IInv, DbFails \/ DbRecovers
  PROVE  IInv'
<1>1. TypeOK' /\ IsFiniteSet(conns')
  BY DEF DbFails, DbRecovers, process, IInv, TypeOK, Running
<1>2. Order'
  BY DEF DbFails, DbRecovers, process, IInv, Order, ServerInRun, PoolOpen, HandlerServed, InHandler,
     CleanupEarned, NotYetRun, ExitTold
<1>3. QED
  BY <1>1, <1>2 DEF IInv, Order

LEMMA StutterKeeps ==
  ASSUME IInv, UNCHANGED vars
  PROVE  IInv'
  BY DEF vars, process, env, IInv, TypeOK, Running, ServerInRun, PoolOpen, HandlerServed, InHandler,
     CleanupEarned, NotYetRun, ExitTold

LEMMA NextIInv == IInv /\ [Next]_vars => IInv'
  BY StartKeeps, RunKeeps, EndKeeps, RestartKeeps, ClientKeeps, DbKeeps, StutterKeeps DEF Next, Stop

LEMMA Invariant == Spec => []IInv
  BY InitIInv, NextIInv, PTL DEF Spec

-----------------------------------------------------------------------------
(***************************************************************************)
(* Theorems                                                                *)
(***************************************************************************)
\* The process keeps its types; the pool never gives out more than it has.
THEOREM LifecycleTypes == Spec => []TypeOK
<1>1. IInv => TypeOK
  BY DEF IInv
<1>2. QED
  BY <1>1, Invariant, PTL

\* main's deferred cleanup runs after the last handler the server waits for.
THEOREM PoolOutlives == Spec => []PoolOutlivesRequests
<1>1. IInv => PoolOutlivesRequests
  BY DEF IInv, HandlerServed, ServerInRun, PoolOpen, PoolOutlivesRequests
<1>2. QED
  BY <1>1, Invariant, PTL

\* Exit code zero means a requested stop and an HTTP server that had not failed;
\* an error code after a requested stop means that this server had failed.
THEOREM ExitIsTold == Spec => []ExitTold
<1>1. IInv => ExitTold
  BY DEF IInv
<1>2. QED
  BY <1>1, Invariant, PTL

=============================================================================
