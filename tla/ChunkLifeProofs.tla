--------------------------- MODULE ChunkLifeProofs ---------------------------
(***************************************************************************)
(* ChunkStore implements ChunkLife, for any numbers of clients, keys and   *)
(* chunks, any chunk sizes and any budget.                                 *)
(***************************************************************************)
EXTENDS ChunkStoreProofs

\* The refinement mapping of ChunkStore, variable by variable.
LifeBar == [c \in Chunks |-> LifeOf(c)]
KeyBar  == [c \in Chunks |-> IF c \in freed THEN NoKey ELSE keyOf[c]]
PinsBar == [p \in Clients |-> PinOf(p)]

LifeStep == [Life!Next]_<<LifeBar, KeyBar, PinsBar>>

-----------------------------------------------------------------------------
(***************************************************************************)
(* What leaves the mapped variables as they are                            *)
(***************************************************************************)
\* A chunk's life depends on the list's elements and on the two flags only.
LEMMA LivesKept ==
  ASSUME UNCHANGED <<freed, evicted, keyOf>>, ToSet(lru') = ToSet(lru)
  PROVE  UNCHANGED <<LifeBar, KeyBar>>
  BY DEF LifeBar, KeyBar, LifeOf

\* Pins change only with the clients under the lock and with what they point at.
LEMMA PinsKept ==
  ASSUME underLock' = underLock, \A q \in underLock : chunk'[q] = chunk[q]
  PROVE  UNCHANGED PinsBar
  BY DEF PinsBar, PinOf

\* A pinned chunk is held, and its reference is among those counted.
LEMMA PinnedIsCounted ==
  ASSUME IInv, NEW q \in Clients, PinsBar[q] # NoChunk
  PROVE  /\ q \in underLock /\ pc[q] = "held" /\ PinsBar[q] = chunk[q]
         /\ chunk[q] \in Chunks /\ refs[chunk[q]] # 0
<1>1. q \in underLock /\ PinsBar[q] = chunk[q]
  BY DEF PinsBar, PinOf
<1>2. pc[q] = "held"
  BY <1>1 DEF IInv, HitProtects
<1>3. QED
  BY <1>1, <1>2, HeldIsCounted

\* A client that is not in the middle of "held" has no pin.
LEMMA UnheldUnpinned ==
  ASSUME IInv, NEW p \in Clients, pc[p] # "held"
  PROVE  p \notin underLock
  BY DEF IInv, HitProtects

\* An address that nothing points at is free: no memory was forgotten there.
LEMMA UnreachableIsFree ==
  ASSUME IInv, NEW c \in Chunks \ Reachable
  PROVE  c \in freed
<1>1. c \notin ToSet(lru) /\ \A p \in Clients : chunk[p] # c /\ victim[p] # c
  BY DEF Reachable
<1>2. QED
  BY <1>1 DEF IInv, NoLeak, Finalizing

-----------------------------------------------------------------------------
(***************************************************************************)
(* The steps that move a chunk from one stage of its life to the next      *)
(***************************************************************************)
\* An LRU hit pins a cached chunk.
LEMMA LookupHitPins ==
  ASSUME IInv, NEW p \in Clients, LookupHit(p)
  PROVE  LifeStep
<1> DEFINE c == items[want[p]]
<1>1. want[p] \in Keys /\ c # NoChunk
  BY DEF LookupHit, IInv, PointersSet
<1>2. c \in Chunks /\ LifeOf(c) = "cached"
  BY <1>1, ItemIsListed DEF LifeOf
<1>3. UNCHANGED <<LifeBar, KeyBar>>
  <2>1. ToSet(lru') = ToSet(lru)
    BY <1>1, HitReorders DEF LookupHit
  <2>2. QED
    BY <2>1, LivesKept DEF LookupHit
<1>4. PinsBar[p] = NoChunk
  <2>1. p \notin underLock
    BY UnheldUnpinned DEF LookupHit
  <2>2. QED
    BY <2>1 DEF PinsBar, PinOf
<1>5. PinsBar' = [PinsBar EXCEPT ![p] = c]
  BY DEF PinsBar, PinOf, LookupHit, IInv, TypeOK
<1>6. LifeBar[c] = "cached"
  BY <1>2 DEF LifeBar
<1>7. Life!Pin(p, c)
  BY <1>3, <1>4, <1>5, <1>6 DEF Life!Pin, LifeBar, KeyBar, PinsBar
<1>8. QED
  BY <1>2, <1>7 DEF Life!Next, LifeStep

\* A release ends the pin, if there was one.
LEMMA DropRefUnpins ==
  ASSUME IInv, NEW p \in Clients, DropRef(p)
  PROVE  LifeStep
<1>1. UNCHANGED <<LifeBar, KeyBar>>
  BY LivesKept DEF DropRef, storeVars
<1>2. \A q \in Clients \ {p} : chunk'[q] = chunk[q] /\ (q \in underLock' <=> q \in underLock)
  BY DEF DropRef, ReleaseDone, IInv, TypeOK
<1>3. p \notin underLock'
  BY DEF DropRef
<1>4. CASE p \in underLock
  <2>1. PinsBar[p] # NoChunk
    <3>1. chunk[p] \in Chunks
      BY HeldIsCounted DEF DropRef
    <3>2. QED
      BY <1>4, <3>1, NamesAssumption DEF PinsBar, PinOf
  <2>2. PinsBar' = [PinsBar EXCEPT ![p] = NoChunk]
    BY <1>2, <1>3 DEF PinsBar, PinOf
  <2>3. Life!Unpin(p)
    BY <1>1, <2>1, <2>2 DEF Life!Unpin, LifeBar, KeyBar, PinsBar
  <2>4. QED
    BY <2>3 DEF Life!Next, LifeStep
<1>5. CASE p \notin underLock
  <2>1. UNCHANGED PinsBar
    BY <1>2, <1>3, <1>5 DEF PinsBar, PinOf
  <2>2. QED
    BY <1>1, <2>1 DEF LifeStep
<1>6. QED
  BY <1>4, <1>5

\* No chunk that is loaded or cached has the key that is being loaded.
LEMMA KeyIsUnused ==
  ASSUME IInv, NEW p \in Clients, pc[p] = "load",
         NEW d \in Chunks, LifeOf(d) \in {"loaded", "cached"}
  PROVE  keyOf[d] # want[p]
<1>1. want[p] \in Keys /\ items[want[p]] = NoChunk
  BY DEF IInv, PointersSet, SoleLoader
<1>2. d \notin freed /\ d \notin evicted
  BY DEF LifeOf
<1>3. CASE d \in ToSet(lru)
  BY <1>1, <1>3, NamesAssumption DEF IInv, CacheIndex
<1>4. CASE d \notin ToSet(lru)
  <2>1. PICK q \in Clients : pc[q] = "insert" /\ chunk[q] = d
    BY <1>2, <1>4 DEF IInv, NoLeak
  <2>2. keyOf[d] = want[q] /\ pc[q] \in Leading /\ pc[p] \in Leading /\ p # q
    BY <2>1, NamesAssumption DEF IInv, PointersSet, Leading
  <2>3. QED
    BY <2>2 DEF IInv, SoleLoader
<1>5. QED
  BY <1>3, <1>4

\* A load takes a free chunk for a key that nobody loads or caches.
LEMMA LoadChunkLoads ==
  ASSUME IInv, NEW p \in Clients, LoadChunk(p)
  PROVE  LifeStep
<1>1. pc[p] = "load" /\ want[p] \in Keys
  BY DEF LoadChunk, IInv, PointersSet
<1>2. PICK c \in Chunks \ Reachable :
        /\ keyOf' = [keyOf EXCEPT ![c] = want[p]]
        /\ evicted' = evicted \ {c}
        /\ freed' = freed \ {c}
        /\ chunk' = [chunk EXCEPT ![p] = c]
  BY DEF LoadChunk
<1>3. c \in freed /\ c \notin ToSet(lru)
  BY UnreachableIsFree DEF Reachable
<1>4. lru' = lru /\ underLock' = underLock
  BY DEF LoadChunk, storeVars
<1>5. UNCHANGED PinsBar
  <2>1. p \notin underLock
    BY <1>1, UnheldUnpinned
  <2>2. \A q \in underLock : chunk'[q] = chunk[q]
    BY <1>2, <2>1 DEF IInv, TypeOK
  <2>3. QED
    BY <1>4, <2>2, PinsKept
<1>6. LifeBar' = [LifeBar EXCEPT ![c] = "loaded"]
  BY <1>2, <1>3, <1>4 DEF LifeBar, LifeOf
<1>7. KeyBar' = [KeyBar EXCEPT ![c] = want[p]]
  BY <1>2 DEF KeyBar, IInv, TypeOK
<1>8. LifeBar[c] = "free"
  BY <1>3 DEF LifeBar, LifeOf
<1>9. ASSUME NEW d \in Chunks, LifeBar[d] \in {"loaded", "cached"}
      PROVE  KeyBar[d] # want[p]
  <2>1. LifeOf(d) \in {"loaded", "cached"} /\ d \notin freed
    BY <1>9 DEF LifeBar, LifeOf
  <2>2. QED
    BY <1>1, <2>1, KeyIsUnused DEF KeyBar
<1>10. PICK k \in Keys : k = want[p]
  BY <1>1
<1>11. Life!Load(c, k)
  BY <1>5, <1>6, <1>7, <1>8, <1>9, <1>10 DEF Life!Load, LifeBar, KeyBar, PinsBar
<1>12. QED
  BY <1>11 DEF Life!Next, LifeStep

\* The insertion offers the loaded chunk.
LEMMA InsertCaches ==
  ASSUME IInv, NEW p \in Clients, Insert(p)
  PROVE  LifeStep
<1>1. chunk[p] \in Chunks /\ LifeOf(chunk[p]) = "loaded"
  BY NewChunkUnheld DEF Insert, IInv, NewChunkFresh, LifeOf
<1>2. ToSet(lru') = ToSet(lru) \cup {chunk[p]}
  BY <1>1, PushFrontElements DEF Insert, IInv, TypeOK
<1>3. UNCHANGED <<keyOf, evicted, freed, chunk, underLock>>
  BY DEF Insert, heapVars
<1>4. LifeBar' = [LifeBar EXCEPT ![chunk[p]] = "cached"]
  BY <1>1, <1>2, <1>3 DEF LifeBar, LifeOf
<1>5. UNCHANGED <<KeyBar, PinsBar>>
  BY <1>3 DEF KeyBar, PinsBar, PinOf
<1>6. LifeBar[chunk[p]] = "loaded"
  BY <1>1 DEF LifeBar
<1>7. Life!Cache(chunk[p])
  BY <1>4, <1>5, <1>6 DEF Life!Cache, LifeBar, KeyBar, PinsBar
<1>8. QED
  BY <1>1, <1>7 DEF Life!Next, LifeStep

\* The eviction loop takes a cached chunk off the cache.
LEMMA EvictTailEvicts ==
  ASSUME IInv, NEW p \in Clients, EvictTail(p)
  PROVE  LifeStep
<1> DEFINE c == Last(lru)
<1>1. /\ c \in Chunks /\ c \in ToSet(lru) /\ c \notin evicted /\ c \notin freed
      /\ ToSet(lru') = ToSet(lru) \ {c}
  BY TailLeaves DEF EvictTail
<1>2. UNCHANGED <<keyOf, freed, chunk, underLock>> /\ evicted' = evicted \cup {c}
  BY DEF EvictTail
<1> HIDE DEF c
<1>3. LifeBar' = [LifeBar EXCEPT ![c] = "evicted"]
  BY <1>1, <1>2 DEF LifeBar, LifeOf
<1>4. UNCHANGED <<KeyBar, PinsBar>>
  BY <1>2 DEF KeyBar, PinsBar, PinOf
<1>5. LifeBar[c] = "cached"
  BY <1>1 DEF LifeBar, LifeOf
<1>6. Life!Evict(c)
  BY <1>3, <1>4, <1>5 DEF Life!Evict, LifeBar, KeyBar, PinsBar
<1>7. QED
  BY <1>1, <1>6 DEF Life!Next, LifeStep

\* Finalizing frees an evicted chunk that nobody pinned, or does nothing.
LEMMA TryFinalizeFrees ==
  ASSUME IInv, NEW c \in Chunks, TryFinalize(c),
         UNCHANGED <<lru, keyOf, evicted>>, UNCHANGED PinsBar
  PROVE  LifeStep
<1>1. CASE CanFinalize(c)
  <2>1. freed' = freed \cup {c} /\ c \notin freed /\ c \in evicted /\ refs[c] = 0
    BY <1>1 DEF TryFinalize, CanFinalize
  <2>2. LifeBar' = [LifeBar EXCEPT ![c] = "free"] /\ LifeBar[c] = "evicted"
    BY <2>1 DEF LifeBar, LifeOf
  <2>3. KeyBar' = [KeyBar EXCEPT ![c] = NoKey]
    BY <2>1 DEF KeyBar
  <2>4. \A q \in Clients : PinsBar[q] # c
    BY <2>1, PinnedIsCounted, NamesAssumption
  <2>5. Life!Free(c)
    BY <2>2, <2>3, <2>4 DEF Life!Free, LifeBar, KeyBar, PinsBar
  <2>6. QED
    BY <2>5 DEF Life!Next, LifeStep
<1>2. CASE ~CanFinalize(c)
  <2>1. freed' = freed
    BY <1>2 DEF TryFinalize
  <2>2. QED
    BY <2>1, LivesKept DEF LifeStep
<1>3. QED
  BY <1>1, <1>2

-----------------------------------------------------------------------------
(***************************************************************************)
(* Every step is a step of ChunkLife or none                               *)
(***************************************************************************)
\* A step that changes no flag, no key and no list, and no pinned pointer.
LEMMA QuietStep ==
  ASSUME UNCHANGED <<lru, freed, evicted, keyOf, underLock>>,
         \A q \in underLock : chunk'[q] = chunk[q]
  PROVE  LifeStep
  BY LivesKept, PinsKept DEF LifeStep

LEMMA StepMapped ==
  ASSUME IInv, NEW p \in Clients, StoreStep(p)
  PROVE  LifeStep
<1> USE DEF Goto, storeVars, heapVars
<1>1. ASSUME \/ \E k \in Keys : GetChunk(p, k)
             \/ LookupMiss(p) \/ Join(p) \/ Lead(p) \/ RecheckMiss(p) \/ PressureGuard(p)
             \/ LoadFail(p) \/ GetError(p) \/ TakeRef(p)
      PROVE  LifeStep
  <2>1. UNCHANGED <<lru, freed, evicted, keyOf, underLock, chunk>>
    BY <1>1 DEF GetChunk, LookupMiss, Join, Lead, RecheckMiss, PressureGuard, LoadFail, GetError, TakeRef
  <2>2. QED
    BY <2>1, QuietStep
<1>2. ASSUME LookupHit(p) PROVE LifeStep
  BY <1>2, LookupHitPins
<1>3. ASSUME RecheckHit(p) PROVE LifeStep
  <2>1. p \notin underLock /\ want[p] \in Keys
    BY <1>3, UnheldUnpinned DEF RecheckHit, IInv, PointersSet
  <2>2. ToSet(lru') = ToSet(lru)
    BY <1>3, <2>1, HitReorders DEF RecheckHit
  <2>3. UNCHANGED <<LifeBar, KeyBar>>
    BY <1>3, <2>2, LivesKept DEF RecheckHit
  <2>4. \A q \in underLock : chunk'[q] = chunk[q]
    BY <1>3, <2>1 DEF RecheckHit, IInv, TypeOK
  <2>5. UNCHANGED PinsBar
    BY <1>3, <2>4, PinsKept DEF RecheckHit
  <2>6. QED
    BY <2>3, <2>5 DEF LifeStep
<1>4. ASSUME LoadChunk(p) PROVE LifeStep
  BY <1>4, LoadChunkLoads
<1>5. ASSUME Insert(p) PROVE LifeStep
  BY <1>5, InsertCaches
<1>6. ASSUME EvictTail(p) PROVE LifeStep
  BY <1>6, EvictTailEvicts
<1>7. ASSUME FinalizeVictim(p) PROVE LifeStep
  <2>1. victim[p] \in Chunks
    BY <1>7 DEF FinalizeVictim, IInv, VictimSet, TypeOK
  <2>2. UNCHANGED PinsBar
    BY <1>7, PinsKept DEF FinalizeVictim
  <2>3. QED
    BY <1>7, <2>1, <2>2, TryFinalizeFrees DEF FinalizeVictim
<1>8. ASSUME FinishInsert(p) PROVE LifeStep
  <2>1. ~OverPressure
    BY <1>8, NoUndo DEF FinishInsert
  <2>2. UNCHANGED <<lru, freed, evicted, keyOf, underLock, chunk>>
    BY <1>8, <2>1 DEF FinishInsert
  <2>3. QED
    BY <2>2, QuietStep
<1>9. ASSUME Publish(p) PROVE LifeStep
  <2>1. \A q \in underLock : q \in Clients /\ pc[q] = "held"
    BY DEF IInv, HitProtects, TypeOK
  <2>2. \A q \in underLock : q \notin Served(p)
    BY <1>9, <2>1 DEF Publish, Served
  <2>3. \A q \in underLock : chunk'[q] = chunk[q]
    BY <1>9, <2>1, <2>2 DEF Publish
  <2>4. QED
    BY <1>9, <2>3, QuietStep DEF Publish
<1>10. ASSUME DropRef(p) PROVE LifeStep
  BY <1>10, DropRefUnpins
<1>11. ASSUME CheckEvicted(p) PROVE LifeStep
  <2>1. p \notin underLock
    BY <1>11, UnheldUnpinned DEF CheckEvicted
  <2>2. \A q \in underLock : chunk'[q] = chunk[q]
    BY <1>11, <2>1 DEF CheckEvicted, ReleaseDone, IInv, TypeOK
  <2>3. QED
    BY <1>11, <2>2, QuietStep DEF CheckEvicted, ReleaseDone
<1>12. ASSUME Reclaim(p) PROVE LifeStep
  <2>1. p \notin underLock /\ chunk[p] \in Chunks
    BY <1>12, UnheldUnpinned DEF Reclaim, IInv, PointersSet, TypeOK
  <2>2. \A q \in underLock : chunk'[q] = chunk[q]
    BY <1>12, <2>1 DEF Reclaim, ReleaseDone, IInv, TypeOK
  <2>3. UNCHANGED PinsBar
    BY <1>12, <2>2, PinsKept DEF Reclaim
  <2>4. QED
    BY <1>12, <2>1, <2>3, TryFinalizeFrees DEF Reclaim
<1>13. QED
  BY <1>1, <1>2, <1>3, <1>4, <1>5, <1>6, <1>7, <1>8, <1>9, <1>10, <1>11, <1>12
     DEF StoreStep, RunStep, LockStep

\* store.go leads every chunk through the life ChunkLife allows: loaded for a
\* key that nobody else loads or caches, evicted once, freed once, and never
\* while a client that got it by an LRU hit has not released it.
THEOREM ChunkLifeImplemented == Spec => ImplementsChunkLife
<1>1. Init => Life!Init
  BY DEF Init, Life!Init, LifeOf, PinOf
<1>2. IInv /\ [Next]_vars => [Life!Next]_Life!vars
  <2>1. ASSUME IInv, Next
        PROVE  LifeStep
    BY <2>1, StepMapped DEF Next, StoreStep
  <2>2. ASSUME UNCHANGED vars
        PROVE  LifeStep
    BY <2>2, QuietStep DEF vars, storeVars, heapVars, clientVars
  <2>3. LifeStep => [Life!Next]_Life!vars
    BY DEF LifeStep, Life!vars, LifeBar, KeyBar, PinsBar
  <2>4. QED
    BY <2>1, <2>2, <2>3
<1>3. QED
  BY <1>1, <1>2, Invariant, PTL DEF Spec, ImplementsChunkLife, Life!Spec

=============================================================================
