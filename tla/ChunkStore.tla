----------------------------- MODULE ChunkStore -----------------------------
(***************************************************************************)
(* The shared LRU cache of frame chunks                                    *)
(* (backend/internal/biz/session/store_pool/store.go).                     *)
(*                                                                         *)
(* Clients are the goroutines of the streaming sessions.  Each of them     *)
(* calls GetChunk, uses the chunk and calls ReleaseChunk.  One action is   *)
(* one critical section of cs.mu, one critical section of the singleflight *)
(* group, or one atomic operation on a chunk's counters, so that clients   *)
(* interleave exactly where the code lets them.  The eviction loop runs    *)
(* with cs.mu held, one action per victim, because chunk.refs is changed   *)
(* by other clients without that mutex.                                    *)
(*                                                                         *)
(* Abstracted: a chunk's frames are one unit of memory BytesCap[k] that    *)
(* depends on its key only; usedLenB moves with usedCapB and is left out.  *)
(* An address of Chunks is reused only once nothing points at it, as the   *)
(* garbage collector does.                                                 *)
(***************************************************************************)
EXTENDS Integers, FiniteSets, SequencesExt

CONSTANTS
  Clients,             \* session goroutines
  Keys,                \* ChunkKey values: (stream, index)
  Chunks,              \* heap addresses of *Chunk
  NoClient, NoKey, NoChunk,
  BytesCap,            \* BytesCap[k]: cap bytes of the chunk loaded for k
  LimitB,              \* the cap budget (CacheCapBytes)
  PressureGuardFactor

ASSUME ClientsAssumption == IsFiniteSet(Clients) /\ NoClient \notin Clients
ASSUME NamesAssumption   == NoKey \notin Keys /\ NoChunk \notin Chunks
ASSUME BytesCapAssumption == BytesCap \in [Keys -> Nat]
ASSUME LimitAssumption   == LimitB \in Nat /\ PressureGuardFactor \in Nat \ {0}

VARIABLES
  mu,        \* holder of cs.mu across steps, or NoClient
  lru,       \* cs.lru, front first
  items,     \* cs.items
  usedCapB,  \* cs.usedCapB
  keyOf,     \* the key each chunk was loaded for
  refs,      \* chunk.refs
  evicted,   \* chunks whose evicted flag is 1
  freed,     \* chunks whose buffers went back to the pools (or never allocated)
  flight,    \* flight[k]: client running the singleflight call for k, or NoClient
  pc,        \* program location of each client
  want,      \* the key each client asked for
  chunk,     \* the *Chunk each client points at, NoChunk also standing for an error
  victim,    \* the chunk the eviction loop just took off the list
  underLock  \* history: clients whose reference was taken with cs.mu held

storeVars  == <<mu, lru, items, usedCapB>>
heapVars   == <<keyOf, refs, evicted, freed>>
clientVars == <<pc, want, chunk, victim, underLock>>
vars == <<storeVars, heapVars, flight, clientVars>>

(***************************************************************************)
(* container/list                                                          *)
(***************************************************************************)
PushFront(s, c) == <<c>> \o s

IndexIn(s, c) == CHOOSE i \in 1..Len(s) : s[i] = c

Detach(s, c) == IF c \in ToSet(s) THEN RemoveAt(s, IndexIn(s, c)) ELSE s

MoveToFront(s, c) == PushFront(Detach(s, c), c)

-----------------------------------------------------------------------------
Locations == {"idle", "lookup", "flight", "wait", "recheck", "guard", "load",
              "insert", "evict", "finalize", "publish", "got", "held",
              "checkEvicted", "reclaim"}

\* The leader of a singleflight call, from entering fn to the delivery.
Leading == {"recheck", "guard", "load", "insert", "evict", "finalize", "publish"}

\* What keeps a chunk from being collected: the list and the clients' pointers.
Reachable == ToSet(lru) \cup {chunk[p] : p \in Clients} \cup {victim[p] : p \in Clients}

Goto(p, l) == pc' = [pc EXCEPT ![p] = l]

Init ==
  /\ mu = NoClient
  /\ lru = <<>>
  /\ items = [k \in Keys |-> NoChunk]
  /\ usedCapB = 0
  /\ keyOf = [c \in Chunks |-> NoKey]
  /\ refs = [c \in Chunks |-> 0]
  /\ evicted = {}
  /\ freed = Chunks
  /\ flight = [k \in Keys |-> NoClient]
  /\ pc = [p \in Clients |-> "idle"]
  /\ want = [p \in Clients |-> NoKey]
  /\ chunk = [p \in Clients |-> NoChunk]
  /\ victim = [p \in Clients |-> NoChunk]
  /\ underLock = {}

-----------------------------------------------------------------------------
(***************************************************************************)
(* GetChunk, step 1: look the key up under cs.mu; a hit takes the          *)
(* reference inside the same critical section.                             *)
(***************************************************************************)
GetChunk(p, k) ==
  /\ pc[p] = "idle"
  /\ Goto(p, "lookup")
  /\ want' = [want EXCEPT ![p] = k]
  /\ UNCHANGED <<storeVars, heapVars, flight, chunk, victim, underLock>>

\* Mutant of LookupHit: the reference is not counted.
LookupHitUncounted(p) ==
  LET c == items[want[p]] IN
  /\ pc[p] = "lookup" /\ mu = NoClient
  /\ c # NoChunk
  /\ lru' = MoveToFront(lru, c)
  /\ chunk' = [chunk EXCEPT ![p] = c]
  /\ underLock' = underLock \cup {p}
  /\ Goto(p, "held")
  /\ UNCHANGED <<mu, items, usedCapB, heapVars, flight, want, victim>>

LookupHit(p) ==
  LET c == items[want[p]] IN
  /\ pc[p] = "lookup" /\ mu = NoClient
  /\ c # NoChunk
  /\ lru' = MoveToFront(lru, c)
  /\ refs' = [refs EXCEPT ![c] = @ + 1]
  /\ chunk' = [chunk EXCEPT ![p] = c]
  /\ underLock' = underLock \cup {p}
  /\ Goto(p, "held")
  /\ UNCHANGED <<mu, items, usedCapB, keyOf, evicted, freed, flight, want, victim>>

LookupMiss(p) ==
  /\ pc[p] = "lookup" /\ mu = NoClient
  /\ items[want[p]] = NoChunk
  /\ Goto(p, "flight")
  /\ UNCHANGED <<storeVars, heapVars, flight, want, chunk, victim, underLock>>

(***************************************************************************)
(* GetChunk, step 2: singleflight.Do.  The first caller for a key runs fn, *)
(* the others wait for its result.                                         *)
(***************************************************************************)
Join(p) ==
  /\ pc[p] = "flight"
  /\ flight[want[p]] # NoClient
  /\ Goto(p, "wait")
  /\ UNCHANGED <<storeVars, heapVars, flight, want, chunk, victim, underLock>>

\* Mutant of Lead: no duplicate suppression.
LeadAnyway(p) ==
  /\ pc[p] = "flight"
  /\ flight' = [flight EXCEPT ![want[p]] = p]
  /\ Goto(p, "recheck")
  /\ UNCHANGED <<storeVars, heapVars, want, chunk, victim, underLock>>

Lead(p) ==
  /\ pc[p] = "flight"
  /\ flight[want[p]] = NoClient
  /\ flight' = [flight EXCEPT ![want[p]] = p]
  /\ Goto(p, "recheck")
  /\ UNCHANGED <<storeVars, heapVars, want, chunk, victim, underLock>>

\* fn's double-check.  Unlike LookupHit it takes no reference.
RecheckHit(p) ==
  LET c == items[want[p]] IN
  /\ pc[p] = "recheck" /\ mu = NoClient
  /\ c # NoChunk
  /\ lru' = MoveToFront(lru, c)
  /\ chunk' = [chunk EXCEPT ![p] = c]
  /\ Goto(p, "publish")
  /\ UNCHANGED <<mu, items, usedCapB, heapVars, flight, want, victim, underLock>>

\* Mutant of RecheckMiss: fn loads without looking again.
RecheckMissUnchecked(p) ==
  /\ pc[p] = "recheck" /\ mu = NoClient
  /\ Goto(p, "guard")
  /\ UNCHANGED <<storeVars, heapVars, flight, want, chunk, victim, underLock>>

RecheckMiss(p) ==
  /\ pc[p] = "recheck" /\ mu = NoClient
  /\ items[want[p]] = NoChunk
  /\ Goto(p, "guard")
  /\ UNCHANGED <<storeVars, heapVars, flight, want, chunk, victim, underLock>>

OverPressure == usedCapB > LimitB * PressureGuardFactor

\* The budget guard in front of the load; a rejection is fn returning an error.
PressureGuard(p) ==
  /\ pc[p] = "guard" /\ mu = NoClient
  /\ Goto(p, IF OverPressure THEN "publish" ELSE "load")
  /\ UNCHANGED <<storeVars, heapVars, flight, want, chunk, victim, underLock>>

\* loadChunk fails: the database, its 500ms timeout, or the leader's context.
LoadFail(p) ==
  /\ pc[p] = "load"
  /\ Goto(p, "publish")
  /\ UNCHANGED <<storeVars, heapVars, flight, want, chunk, victim, underLock>>

LoadChunk(p) ==
  /\ pc[p] = "load"
  /\ \E c \in Chunks \ Reachable :
       /\ keyOf' = [keyOf EXCEPT ![c] = want[p]]
       /\ refs' = [refs EXCEPT ![c] = 0]
       /\ evicted' = evicted \ {c}
       /\ freed' = freed \ {c}
       /\ chunk' = [chunk EXCEPT ![p] = c]
  /\ Goto(p, "insert")
  /\ UNCHANGED <<storeVars, flight, want, victim, underLock>>

Insert(p) ==
  /\ pc[p] = "insert" /\ mu = NoClient
  /\ mu' = p
  /\ lru' = PushFront(lru, chunk[p])
  /\ items' = [items EXCEPT ![want[p]] = chunk[p]]
  /\ usedCapB' = usedCapB + BytesCap[keyOf[chunk[p]]]
  /\ Goto(p, "evict")
  /\ UNCHANGED <<heapVars, flight, want, chunk, victim, underLock>>

(***************************************************************************)
(* evictLocked: take chunks off the tail while the budget is exceeded, and *)
(* finalize each of them at once when nobody holds it.                     *)
(***************************************************************************)
\* Mutant of EvictionDue: the chunk just inserted is spared.
EvictionDueSparingLast == usedCapB > LimitB /\ Len(lru) > 1

EvictionDue == usedCapB > LimitB /\ lru # <<>>

\* Mutant of EvictTail: the map entry stays behind.
EvictTailKeepingItem(p) ==
  LET c == Last(lru) IN
  /\ pc[p] = "evict" /\ mu = p
  /\ EvictionDue
  /\ lru' = Front(lru)
  /\ evicted' = evicted \cup {c}
  /\ victim' = [victim EXCEPT ![p] = c]
  /\ Goto(p, "finalize")
  /\ UNCHANGED <<mu, items, usedCapB, keyOf, refs, freed, flight, want, chunk, underLock>>

EvictTail(p) ==
  LET c == Last(lru) IN
  /\ pc[p] = "evict" /\ mu = p
  /\ EvictionDue
  /\ items' = [items EXCEPT ![keyOf[c]] = NoChunk]
  /\ lru' = Front(lru)
  /\ evicted' = evicted \cup {c}
  /\ victim' = [victim EXCEPT ![p] = c]
  /\ Goto(p, "finalize")
  /\ UNCHANGED <<mu, usedCapB, keyOf, refs, freed, flight, want, chunk, underLock>>

\* Mutants of CanFinalize: freed is not consulted; refs is not consulted.
CanFinalizeAgain(c) == c \in evicted /\ refs[c] = 0
CanFinalizeInUse(c) == c \notin freed /\ c \in evicted

CanFinalize(c) == c \notin freed /\ c \in evicted /\ refs[c] = 0

ClampedToZero(n) == IF n < 0 THEN 0 ELSE n

\* tryFinalizeChunkLocked: buffers back to the pools, budget corrected.
TryFinalize(c) ==
  IF CanFinalize(c)
  THEN /\ freed' = freed \cup {c}
       /\ usedCapB' = ClampedToZero(usedCapB - BytesCap[keyOf[c]])
  ELSE UNCHANGED <<freed, usedCapB>>

\* Mutant of FinalizeVictim: reclaiming is left to ReleaseChunk alone.
FinalizeVictimLater(p) ==
  /\ pc[p] = "finalize" /\ mu = p
  /\ victim' = [victim EXCEPT ![p] = NoChunk]
  /\ Goto(p, "evict")
  /\ UNCHANGED <<storeVars, heapVars, flight, want, chunk, underLock>>

FinalizeVictim(p) ==
  /\ pc[p] = "finalize" /\ mu = p
  /\ TryFinalize(victim[p])
  /\ victim' = [victim EXCEPT ![p] = NoChunk]
  /\ Goto(p, "evict")
  /\ UNCHANGED <<mu, lru, items, keyOf, refs, evicted, flight, want, chunk, underLock>>

\* The eviction loop has ended: keep the chunk, or undo the insertion.
FinishInsert(p) ==
  /\ pc[p] = "evict" /\ mu = p
  /\ ~EvictionDue
  /\ mu' = NoClient
  /\ IF OverPressure
     THEN /\ items' = [items EXCEPT ![want[p]] = NoChunk]
          /\ lru' = Detach(lru, chunk[p])
          /\ usedCapB' = usedCapB - BytesCap[keyOf[chunk[p]]]
          /\ chunk' = [chunk EXCEPT ![p] = NoChunk]
     ELSE UNCHANGED <<items, lru, usedCapB, chunk>>
  /\ Goto(p, "publish")
  /\ UNCHANGED <<heapVars, flight, want, victim, underLock>>

\* Mutant of Served: waiters of every key are woken.
ServedAny(p) == {p} \cup {q \in Clients : pc[q] = "wait"}

Served(p) == {p} \cup {q \in Clients : pc[q] = "wait" /\ want[q] = want[p]}

\* Mutant of Publish: the finished call stays in the group's map.
PublishKeepingCall(p) ==
  /\ pc[p] = "publish"
  /\ pc' = [q \in Clients |-> IF q \in Served(p) THEN "got" ELSE pc[q]]
  /\ chunk' = [q \in Clients |-> IF q \in Served(p) THEN chunk[p] ELSE chunk[q]]
  /\ UNCHANGED <<storeVars, heapVars, flight, want, victim, underLock>>

\* singleflight.doCall returns: every waiter of the call gets the same result.
Publish(p) ==
  /\ pc[p] = "publish"
  /\ flight' = [flight EXCEPT ![want[p]] = NoClient]
  /\ pc' = [q \in Clients |-> IF q \in Served(p) THEN "got" ELSE pc[q]]
  /\ chunk' = [q \in Clients |-> IF q \in Served(p) THEN chunk[p] ELSE chunk[q]]
  /\ UNCHANGED <<storeVars, heapVars, want, victim, underLock>>

\* After Do: an error is returned, a chunk gets its reference -- without cs.mu.
GetError(p) ==
  /\ pc[p] = "got" /\ chunk[p] = NoChunk
  /\ Goto(p, "idle")
  /\ want' = [want EXCEPT ![p] = NoKey]
  /\ UNCHANGED <<storeVars, heapVars, flight, chunk, victim, underLock>>

TakeRef(p) ==
  /\ pc[p] = "got" /\ chunk[p] # NoChunk
  /\ refs' = [refs EXCEPT ![chunk[p]] = @ + 1]
  /\ Goto(p, "held")
  /\ UNCHANGED <<storeVars, keyOf, evicted, freed, flight, want, chunk, victim, underLock>>

-----------------------------------------------------------------------------
(***************************************************************************)
(* ReleaseChunk: the last reference to an evicted chunk reclaims it.       *)
(***************************************************************************)
ReleaseDone(p) ==
  /\ Goto(p, "idle")
  /\ want' = [want EXCEPT ![p] = NoKey]
  /\ chunk' = [chunk EXCEPT ![p] = NoChunk]

DropRef(p) ==
  /\ pc[p] = "held"
  /\ refs' = [refs EXCEPT ![chunk[p]] = @ - 1]
  /\ underLock' = underLock \ {p}
  /\ IF refs[chunk[p]] = 1
     THEN Goto(p, "checkEvicted") /\ UNCHANGED <<want, chunk>>
     ELSE ReleaseDone(p)
  /\ UNCHANGED <<storeVars, keyOf, evicted, freed, flight, victim>>

\* Mutant of CheckEvicted: the release never reclaims.
CheckEvictedNever(p) ==
  /\ pc[p] = "checkEvicted"
  /\ ReleaseDone(p)
  /\ UNCHANGED <<storeVars, heapVars, flight, victim, underLock>>

CheckEvicted(p) ==
  /\ pc[p] = "checkEvicted"
  /\ IF chunk[p] \in evicted
     THEN Goto(p, "reclaim") /\ UNCHANGED <<want, chunk>>
     ELSE ReleaseDone(p)
  /\ UNCHANGED <<storeVars, heapVars, flight, victim, underLock>>

Reclaim(p) ==
  /\ pc[p] = "reclaim" /\ mu = NoClient
  /\ TryFinalize(chunk[p])
  /\ ReleaseDone(p)
  /\ UNCHANGED <<mu, lru, items, keyOf, refs, evicted, flight, victim, underLock>>

-----------------------------------------------------------------------------
\* Steps a scheduled goroutine takes without waiting for cs.mu.
RunStep(p) ==
  \/ Join(p) \/ Lead(p) \/ LoadFail(p) \/ LoadChunk(p)
  \/ EvictTail(p) \/ FinalizeVictim(p) \/ FinishInsert(p)
  \/ Publish(p) \/ GetError(p) \/ TakeRef(p) \/ DropRef(p) \/ CheckEvicted(p)

\* Steps that begin by locking cs.mu.
LockStep(p) ==
  \/ LookupHit(p) \/ LookupMiss(p) \/ RecheckHit(p) \/ RecheckMiss(p)
  \/ PressureGuard(p) \/ Insert(p) \/ Reclaim(p)

Next ==
  \E p \in Clients :
    \/ \E k \in Keys : GetChunk(p, k)
    \/ RunStep(p)
    \/ LockStep(p)

Spec == Init /\ [][Next]_vars

\* The Go scheduler runs every runnable goroutine; sync.Mutex hands the lock
\* to a waiter that has starved for 1ms, hence strong fairness on locking.
\* Sessions end, and Run defers the release, hence DropRef is fair as well.
Fairness == \A p \in Clients : WF_vars(RunStep(p)) /\ SF_vars(LockStep(p))

FairSpec == Spec /\ Fairness

-----------------------------------------------------------------------------
(***************************************************************************)
(* Properties                                                              *)
(***************************************************************************)

\* Types; in particular chunk.refs and usedCapB never go negative, although
\* every holder decrements refs on its own and two paths subtract the budget.
TypeOK ==
  /\ mu \in Clients \cup {NoClient}
  /\ lru \in Seq(Chunks)
  /\ items \in [Keys -> Chunks \cup {NoChunk}]
  /\ usedCapB \in Nat
  /\ keyOf \in [Chunks -> Keys \cup {NoKey}]
  /\ refs \in [Chunks -> Nat]
  /\ evicted \subseteq Chunks
  /\ freed \subseteq Chunks
  /\ flight \in [Keys -> Clients \cup {NoClient}]
  /\ pc \in [Clients -> Locations]
  /\ want \in [Clients -> Keys \cup {NoKey}]
  /\ chunk \in [Clients -> Chunks \cup {NoChunk}]
  /\ victim \in [Clients -> Chunks \cup {NoChunk}]
  /\ underLock \subseteq Clients

\* The list and the map always describe the same cache: each listed chunk is
\* listed once, is the map's entry of its own key, and is neither evicted nor
\* freed, so a hit never finds memory that went back to the pools.
CacheIndex ==
  /\ \A i, j \in 1..Len(lru) : lru[i] = lru[j] => i = j
  /\ \A c \in ToSet(lru) :
       /\ keyOf[c] \in Keys /\ items[keyOf[c]] = c
       /\ c \notin evicted /\ c \notin freed
  /\ \A k \in Keys : items[k] # NoChunk => items[k] \in ToSet(lru) /\ keyOf[items[k]] = k

\* One load at a time: two clients never run fn for the same key, and between
\* the double-check and the insertion nobody else caches that key.
SoleLoader ==
  /\ \A p, q \in Clients :
       pc[p] \in Leading /\ pc[q] \in Leading /\ want[p] = want[q] => p = q
  /\ \A p \in Clients : pc[p] \in {"guard", "load", "insert"} => items[want[p]] = NoChunk

\* A caller of GetChunk is handed a chunk of the key it asked for, also when
\* the result came from another client's singleflight call.
OwnKey ==
  \A p \in Clients :
    pc[p] \in {"got", "held"} /\ chunk[p] # NoChunk => keyOf[chunk[p]] = want[p]

\* With cs.mu free the budget is respected: evictLocked ends below the limit
\* even when every other chunk is held, because it then takes back the chunk
\* it has just inserted.  Hence neither pressure guard can ever reject.
BudgetHeld == mu = NoClient => usedCapB <= LimitB /\ ~OverPressure

\* However many loads passed the guard together, before any of them was charged,
\* the budget is exceeded only while a chunk is inserted and by no more than that
\* chunk; evicting brings it back, so that no insertion is undone.
ExcessIsNewChunk ==
  /\ usedCapB > LimitB =>
       \E p \in Clients : pc[p] \in {"evict", "finalize"} /\ usedCapB <= LimitB + BytesCap[want[p]]
  /\ \A p \in Clients : pc[p] = "evict" /\ ~EvictionDue => ~OverPressure

\* usedCapB is the memory of the inserted chunks whose buffers are not back
\* in the pools: each chunk is added once and subtracted once, whichever of
\* the evictor and the last releaser finalizes it.
Charged == {c \in Chunks \ freed : \A p \in Clients : pc[p] = "insert" => chunk[p] # c}

AccountingExact == usedCapB = MapThenSumSet(LAMBDA c : BytesCap[keyOf[c]], Charged)

\* A reference taken inside cs.mu keeps the buffers: a chunk obtained by an
\* LRU hit is not freed before its holder releases it.
HitProtects == \A p \in underLock : pc[p] = "held" /\ chunk[p] \notin freed

Finalizing(p, c) ==
  \/ pc[p] = "finalize" /\ victim[p] = c
  \/ pc[p] \in {"checkEvicted", "reclaim"} /\ chunk[p] = c

\* No chunk leaks: memory not yet returned is cached, about to be inserted,
\* or evicted with a holder or a client on its way to finalizing it.  The
\* release and the eviction may interleave in any order.
NoLeak ==
  \A c \in Chunks \ freed :
    \/ c \in ToSet(lru)
    \/ \E p \in Clients : pc[p] = "insert" /\ chunk[p] = c
    \/ /\ c \in evicted
       /\ \E p \in Clients : (pc[p] = "held" /\ chunk[p] = c) \/ Finalizing(p, c)

\* Every GetChunk returns, with a chunk or an error: no waiter is forgotten
\* by the singleflight leader and nobody waits for cs.mu forever.
GetReturns == \A p \in Clients : pc[p] = "lookup" ~> pc[p] \in {"held", "idle"}

\* Evicted memory is eventually returned to the pools.
EvictedIsFreed == \A c \in Chunks : c \in evicted ~> c \in freed

-----------------------------------------------------------------------------
(***************************************************************************)
(* The abstract specification this one implements                          *)
(***************************************************************************)
LifeOf(c) ==
  CASE c \in freed -> "free"
    [] c \notin freed /\ c \in evicted -> "evicted"
    [] c \notin freed /\ c \notin evicted /\ c \in ToSet(lru) -> "cached"
    [] OTHER -> "loaded"

\* Only a reference taken with cs.mu held is a pin.
PinOf(p) == IF p \in underLock THEN chunk[p] ELSE NoChunk

Life == INSTANCE ChunkLife WITH
  life <- [c \in Chunks |-> LifeOf(c)],
  key  <- [c \in Chunks |-> IF c \in freed THEN NoKey ELSE keyOf[c]],
  pins <- [p \in Clients |-> PinOf(p)]

\* The store, with its list, map, counters and two ways to finalize a chunk,
\* leads every chunk through the life that ChunkLife allows: loaded once for a
\* key nobody else loads or caches, evicted once, freed once and never while
\* pinned.
ImplementsChunkLife == Life!Spec

(***************************************************************************)
(* What the repository says and the code does not do                       *)
(***************************************************************************)

\* store_test.go: "chunks should not be freed while refs > 0".
NotFreedWhileReferenced == \A c \in Chunks : refs[c] > 0 => c \notin freed

=============================================================================
