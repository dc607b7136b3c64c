------------------------- MODULE FrameBuffersProofs -------------------------
(***************************************************************************)
(* Proofs about FrameBuffers, for any sessions, chunks, frame sizes,       *)
(* buckets and budget.                                                     *)
(***************************************************************************)
EXTENDS FrameBuffers, ChunkStoreProofs

(***************************************************************************)
(* The inductive invariant, on top of the store's                          *)
(***************************************************************************)
Slots == Buffers \cup {Nil}

FTypes ==
  /\ idle \subseteq Buffers
  /\ bufCap = [b \in Buffers |-> bufCap[b]]
  /\ filling \in [Clients -> Seq(Slots)]
  /\ frames \in [Chunks -> Seq(Slots)]
  /\ returning \in [Clients -> Chunks \cup {NoChunk}]
  /\ pos \in [Clients -> Nat]
  /\ writing \in [Clients -> [at : Nat, buf : Slots, torn : BOOLEAN]]

\* What Get returned for a frame of length n.
Fits(b, n) == IF n <= 0 THEN b = Nil ELSE b \in Buffers /\ bufCap[b] = CapFor(n)

\* A slice that holds, so far, the frames of chunk k.
FitsAll(s, k) == \A i \in DOMAIN s : Fits(s[i], Kept(k)[i])

\* A load has taken the buffers of the rows it has read; nobody else has any.
FillingMatches ==
  \A p \in Clients : IF pc[p] = "load" THEN FitsAll(filling[p], want[p]) ELSE filling[p] = <<>>

\* A chunk that was not finalized has all the frames of its key.
FramesMatch ==
  \A c \in Chunks \ freed :
    Len(frames[c]) = Len(Kept(keyOf[c])) /\ FitsAll(frames[c], keyOf[c])

\* Buffers are put back for chunks that were finalized.
ReturningFreed == \A p \in Clients : returning[p] # NoChunk => returning[p] \in freed

\* Frames are written by holders; one with a hit writes from a frame of its chunk.
WritingOwn ==
  \A p \in Clients : writing[p] # NoFrame =>
    /\ pc[p] = "held"
    /\ p \in underLock =>
         /\ writing[p].at \in DOMAIN frames[chunk[p]]
         /\ writing[p].buf = frames[chunk[p]][writing[p].at]
         /\ writing[p].buf # Nil => ~writing[p].torn

FInv == FTypes /\ OneOwner /\ FillingMatches /\ FramesMatch /\ ReturningFreed /\ WritingOwn

-----------------------------------------------------------------------------
(***************************************************************************)
(* The pool, and the buffers the model calls used                          *)
(***************************************************************************)
LEMMA NilIsNoBuffer == Nil \notin Buffers
  BY SizesAssumption DEF Nil, Buffers

\* Every buffer in a slice, or being written from, is used.
LEMMA UsedCovers ==
  ASSUME FTypes, NEW b \in Buffers, b \notin Used
  PROVE  /\ \A o \in Chunks \cup Clients : \A i \in DOMAIN Slices[o] : Slices[o][i] # b
         /\ \A p \in Clients : writing[p].buf # b
<1>1. ASSUME NEW S, NEW s \in S, NEW i \in DOMAIN s, s[i] = b, s \in Seq(Slots)
      PROVE  b \in Owned(S)
  <2>1. i \in 1..Len(s)
    BY <1>1, LenProperties
  <2>2. b \in ToSet(s)
    BY <1>1, <2>1 DEF ToSet
  <2>3. QED
    BY <2>2, NilIsNoBuffer DEF Owned
<1>2. ASSUME NEW o \in Chunks, NEW i \in DOMAIN frames[o]
      PROVE  frames[o][i] # b
  <2> DEFINE S == {frames[c] : c \in Chunks}
  <2>1. frames[o] \in S /\ frames[o] \in Seq(Slots)
    BY DEF FTypes
  <2>2. b \notin Owned(S)
    BY DEF Used
  <2> HIDE DEF S
  <2>3. QED
    BY <1>1, <2>1, <2>2
<1>3. ASSUME NEW o \in Clients, NEW i \in DOMAIN filling[o]
      PROVE  filling[o][i] # b
  <2> DEFINE S == {filling[c] : c \in Clients}
  <2>1. filling[o] \in S /\ filling[o] \in Seq(Slots)
    BY DEF FTypes
  <2>2. b \notin Owned(S)
    BY DEF Used
  <2> HIDE DEF S
  <2>3. QED
    BY <1>1, <2>1, <2>2
<1>4. \A p \in Clients : writing[p].buf # b
  BY DEF Used
<1>5. QED
  BY <1>2, <1>3, <1>4 DEF Slices

\* A new buffer gets an unused address or one that was in the pools.
LEMMA GetEffect ==
  ASSUME FTypes, NEW n, NEW b \in Slots, Get(n, Used, b)
  PROVE  \/ n <= 0 /\ b = Nil /\ UNCHANGED poolVars
         \/ /\ ~(n <= 0) /\ b \in Buffers
            /\ b \in idle \/ b \notin Used
            /\ idle' = idle \ {b}
            /\ bufCap' = [bufCap EXCEPT ![b] = CapFor(n)]
<1>1. CASE n <= 0
  BY <1>1 DEF Get
<1>2. CASE ~(n <= 0) /\ b \in Reusable(n) /\ idle' = idle \ {b} /\ UNCHANGED bufCap
  <2>1. b \in idle /\ b \in Buffers /\ bufCap[b] = CapFor(n)
    BY <1>2 DEF Reusable, CapFor, FTypes
  <2>2. bufCap = [bufCap EXCEPT ![b] = CapFor(n)]
    BY <2>1 DEF FTypes
  <2>3. QED
    BY <1>2, <2>1, <2>2
<1>3. CASE /\ ~(n <= 0) /\ b \in IF Fresh(Used) # {} THEN {Min(Fresh(Used))} ELSE idle
           /\ idle' = idle \ {b} /\ bufCap' = [bufCap EXCEPT ![b] = CapFor(n)]
  <2>1. Fresh(Used) # {} => Min(Fresh(Used)) \in Fresh(Used)
    <3>1. SUFFICES ASSUME Fresh(Used) # {} PROVE Min(Fresh(Used)) \in Fresh(Used)
      OBVIOUS
    <3>2. PICK T : T = Fresh(Used)
      OBVIOUS
    <3>3. T \subseteq Nat /\ T # {}
      BY <3>1, <3>2, SizesAssumption DEF Fresh, Buffers
    <3>4. \E m \in T : \A k \in T : m <= k
      BY <3>3, LeastNat
    <3>5. Min(T) \in T
      BY <3>4 DEF Min
    <3>6. QED
      BY <3>2, <3>5
  <2>2. b \in Buffers /\ (b \in idle \/ b \notin Used)
    BY <1>3, <2>1 DEF Fresh, FTypes
  <2>3. QED
    BY <1>3, <2>2
<1>4. QED
  BY <1>1, <1>2, <1>3 DEF Get

-----------------------------------------------------------------------------
(***************************************************************************)
(* The store under the buffers                                             *)
(***************************************************************************)
\* Steps that leave the buffers, the slices and the writes alone.
Aside(p) ==
  /\ returning[p] = NoChunk
  /\ \/ PlainStep(p) \/ StartReturn(p) \/ InsertFinished(p) \/ LeaveChunk(p) \/ Panics(p)
     \/ \E k \in Keys : Request(p, k)

FramesStep(p) == Step(p) \/ (returning[p] = NoChunk /\ \E k \in Keys : Request(p, k))

\* The store sees a step of its own, or none.
LEMMA StepOfStore ==
  ASSUME NEW p \in Clients, FramesStep(p)
  PROVE  StoreStep(p) \/ UNCHANGED vars
  BY DEF FramesStep, Step, Request, PlainStep, StartReturn, InsertFinished, FillFrame, ChunkFilled, FillFails,
     TakeFrame, FrameWritten, LeaveChunk, Panics, ReturnBuffer, ReturnDone, StoreStep, RunStep, LockStep

\* With the buffers taken away, the composition is the store: whatever holds of
\* ChunkStore holds here.
THEOREM FramesImplementStore == FramesSpec => Spec
<1>1. FramesInit => Init
  BY DEF FramesInit
<1>2. [FramesNext]_allVars => [Next]_vars
  BY StepOfStore DEF FramesNext, FramesStep, allVars, Next, StoreStep
<1>3. QED
  BY <1>1, <1>2, PTL DEF FramesSpec, Spec

\* What such a step does to loads, finalized chunks, holders and hits.
LEMMA AsideMoves ==
  ASSUME IInv, NEW p \in Clients, Aside(p)
  PROVE  /\ UNCHANGED <<poolVars, filling, frames, writing, keyOf>> /\ freed \subseteq freed'
         /\ \A q \in Clients : pc'[q] = "load" => want'[q] = want[q] /\ pc[q] \in {"load", "guard"}
         /\ \A q \in Clients : pc[q] = "load" => pc'[q] = "load"
         /\ \A q \in Clients : pc[q] = "held" =>
              (pc'[q] = "held" /\ chunk'[q] = chunk[q]) \/ writing[q] = NoFrame
         /\ \A q \in underLock' : q \in underLock \/ pc[q] = "lookup"
<1> USE DEF Goto, storeVars, heapVars, clientVars
<1>0. TypeOK
  BY DEF IInv
<1>1. /\ UNCHANGED <<poolVars, filling, frames, writing>>
      /\ \/ StartReturn(p) \/ InsertFinished(p) \/ LeaveChunk(p) \/ Panics(p)
         \/ GetChunk(p, want'[p]) \/ Publish(p)
         \/ LookupHit(p) \/ LookupMiss(p) \/ RecheckHit(p) \/ RecheckMiss(p)
         \/ Join(p) \/ Lead(p) \/ PressureGuard(p) \/ EvictTail(p) \/ Insert(p)
         \/ GetError(p) \/ TakeRef(p) \/ CheckEvicted(p)
  BY <1>0 DEF Aside, PlainStep, StartReturn, InsertFinished, LeaveChunk, Panics, Request, GetChunk, frameVars, poolVars, TypeOK
<1>2. CASE \/ GetChunk(p, want'[p])
           \/ LookupHit(p) \/ LookupMiss(p) \/ RecheckHit(p) \/ RecheckMiss(p)
           \/ Join(p) \/ Lead(p) \/ PressureGuard(p) \/ EvictTail(p) \/ Insert(p)
           \/ GetError(p) \/ TakeRef(p) \/ CheckEvicted(p)
  <2>1. /\ UNCHANGED <<keyOf, freed>>
        /\ \A q \in Clients \ {p} : pc'[q] = pc[q] /\ chunk'[q] = chunk[q] /\ want'[q] = want[q]
    BY <1>0, <1>2 DEF TypeOK, GetChunk, LookupHit, LookupMiss, RecheckHit, RecheckMiss, Join,
       Lead, PressureGuard, EvictTail, Insert, GetError, TakeRef, CheckEvicted, ReleaseDone
  <2>2. /\ pc[p] \notin {"load", "held"}
        /\ pc'[p] = "load" => pc[p] = "guard" /\ want'[p] = want[p]
        /\ underLock' = underLock \/ (pc[p] = "lookup" /\ underLock' = underLock \cup {p})
    BY <1>0, <1>2 DEF TypeOK, GetChunk, LookupHit, LookupMiss, RecheckHit, RecheckMiss, Join,
       Lead, PressureGuard, EvictTail, Insert, GetError, TakeRef, CheckEvicted, ReleaseDone
  <2>3. QED
    BY <1>1, <2>1, <2>2
<1>3. CASE Publish(p)
  <2>1. /\ UNCHANGED <<keyOf, freed, want, underLock>> /\ pc[p] = "publish" /\ pc'[p] = "got"
        /\ \A q \in Clients \ {p} : \/ pc'[q] = pc[q] /\ chunk'[q] = chunk[q]
                                    \/ pc[q] = "wait" /\ pc'[q] = "got"
    BY <1>0, <1>3 DEF TypeOK, Publish, Served
  <2>2. QED
    BY <1>1, <2>1
<1>4. CASE LeaveChunk(p) \/ Panics(p)
  <2>1. /\ UNCHANGED <<keyOf, freed>> /\ writing[p] = NoFrame /\ pc[p] = "held" /\ pc'[p] # "load"
        /\ \A q \in Clients \ {p} : pc'[q] = pc[q] /\ chunk'[q] = chunk[q] /\ want'[q] = want[q]
        /\ underLock' \subseteq underLock
    BY <1>0, <1>4 DEF TypeOK, LeaveChunk, Panics, DropRef, ReleaseDone
  <2>2. QED
    BY <1>1, <2>1
<1>5. CASE StartReturn(p)
  <2>1. /\ UNCHANGED <<keyOf, underLock>> /\ freed \subseteq freed'
        /\ pc[p] \in {"finalize", "reclaim"} /\ pc'[p] # "load"
        /\ \A q \in Clients \ {p} : pc'[q] = pc[q] /\ chunk'[q] = chunk[q] /\ want'[q] = want[q]
    BY <1>0, <1>5 DEF TypeOK, StartReturn, FinalizeVictim, Reclaim, TryFinalize, ReleaseDone
  <2>2. QED
    BY <1>1, <2>1
<1>6. CASE InsertFinished(p)
  <2>1. /\ UNCHANGED <<keyOf, freed, underLock>> /\ pc[p] = "evict" /\ pc'[p] = "publish"
        /\ \A q \in Clients \ {p} : pc'[q] = pc[q] /\ chunk'[q] = chunk[q] /\ want'[q] = want[q]
    BY <1>0, <1>6 DEF TypeOK, InsertFinished, FinishInsert
  <2>2. QED
    BY <1>1, <2>1
<1>7. QED
  BY <1>1, <1>2, <1>3, <1>4, <1>5, <1>6

-----------------------------------------------------------------------------
(***************************************************************************)
(* Types, and one place for each buffer                                    *)
(***************************************************************************)
\* One turn of the row loop: a buffer that fits, and that no slice has.
LEMMA FillEffect ==
  ASSUME FTypes, OneOwner, NEW p \in Clients, FillFrame(p)
  PROVE  \E b \in Slots :
           /\ pc[p] = "load" /\ UNCHANGED <<vars, frames, returning, pos>>
           /\ filling' = [filling EXCEPT ![p] = Append(@, b)]
           /\ writing' = [q \in Clients |->
                [writing[q] EXCEPT !.torn = @ \/ (b # Nil /\ writing[q].buf = b)]]
           /\ idle' \subseteq idle /\ b \notin idle'
           /\ \/ b = Nil /\ Kept(want[p])[Len(filling[p]) + 1] <= 0
              \/ /\ b \in Buffers /\ ~(Kept(want[p])[Len(filling[p]) + 1] <= 0)
                 /\ bufCap'[b] = CapFor(Kept(want[p])[Len(filling[p]) + 1])
           /\ b # Nil => \A o \in Chunks \cup Clients : \A i \in DOMAIN Slices[o] : Slices[o][i] # b
           /\ bufCap' = [x \in Buffers |-> bufCap'[x]]
           /\ \A x \in Buffers \ {b} : bufCap'[x] = bufCap[x]
<1>1. PICK b \in Slots :
        /\ Get(Kept(want[p])[Len(filling[p]) + 1], Used, b)
        /\ filling' = [filling EXCEPT ![p] = Append(@, b)]
        /\ writing' = [q \in Clients |->
             [writing[q] EXCEPT !.torn = @ \/ (b # Nil /\ writing[q].buf = b)]]
  BY DEF FillFrame, Slots
<1>2. PICK n : n = Kept(want[p])[Len(filling[p]) + 1]
  OBVIOUS
<1>3. \/ n <= 0 /\ b = Nil /\ UNCHANGED poolVars
      \/ /\ ~(n <= 0) /\ b \in Buffers
         /\ b \in idle \/ b \notin Used
         /\ idle' = idle \ {b}
         /\ bufCap' = [bufCap EXCEPT ![b] = CapFor(n)]
  BY <1>1, <1>2, GetEffect
<1>4. b # Nil => \A o \in Chunks \cup Clients : \A i \in DOMAIN Slices[o] : Slices[o][i] # b
  <2>1. SUFFICES ASSUME b # Nil, NEW o \in Chunks \cup Clients, NEW i \in DOMAIN Slices[o]
                 PROVE  Slices[o][i] # b
    OBVIOUS
  <2>2. CASE b \in idle
    BY <2>1, <2>2 DEF OneOwner
  <2>3. CASE b \in Buffers /\ b \notin Used
    BY <2>1, <2>3, UsedCovers
  <2>4. QED
    BY <1>3, <2>1, <2>2, <2>3
<1>5. /\ idle' \subseteq idle /\ b \notin idle'
      /\ bufCap' = [x \in Buffers |-> bufCap'[x]]
      /\ \A x \in Buffers \ {b} : bufCap'[x] = bufCap[x]
  BY <1>3, NilIsNoBuffer DEF FTypes, poolVars
<1>6. \/ b = Nil /\ n <= 0
      \/ b \in Buffers /\ ~(n <= 0) /\ bufCap'[b] = CapFor(n)
  BY <1>3 DEF FTypes
<1>7. pc[p] = "load" /\ UNCHANGED <<vars, frames, returning, pos>>
  BY DEF FillFrame
<1>8. QED
  BY <1>1, <1>2, <1>4, <1>5, <1>6, <1>7

\* Every step keeps the types.
LEMMA FTypesStep ==
  ASSUME IInv, FTypes, OneOwner, NEW p \in Clients, FramesStep(p)
  PROVE  FTypes'
<1>0. TypeOK /\ Nil \in Slots
  BY DEF IInv, Slots
<1>1. CASE Aside(p)
  <2>1. UNCHANGED <<poolVars, filling, frames, writing>>
    BY <1>1, AsideMoves
  <2>2. returning' \in [Clients -> Chunks \cup {NoChunk}]
    <3>1. \/ UNCHANGED returning
          \/ \E c \in Chunks \cup {NoChunk} : returning' = [returning EXCEPT ![p] = c]
      BY <1>0, <1>1 DEF TypeOK, Aside, PlainStep, StartReturn, InsertFinished, LeaveChunk, Panics, Request,
         frameVars, ReturnsWhen
    <3>2. QED
      BY <3>1 DEF FTypes
  <2>3. pos' \in [Clients -> Nat]
    <3>1. pos[p] \in Nat
      BY DEF FTypes
    <3>2. UNCHANGED pos \/ \E n \in Nat : pos' = [pos EXCEPT ![p] = n]
      BY <1>1, <3>1 DEF Aside, PlainStep, StartReturn, InsertFinished, LeaveChunk, Panics, Request, frameVars
    <3>3. QED
      BY <3>2 DEF FTypes
  <2>4. QED
    BY <2>1, <2>2, <2>3 DEF FTypes, poolVars
<1>2. CASE FillFrame(p)
  <2>1. PICK b \in Slots :
           /\ UNCHANGED <<vars, frames, returning, pos>>
           /\ filling' = [filling EXCEPT ![p] = Append(@, b)]
           /\ writing' = [q \in Clients |->
                [writing[q] EXCEPT !.torn = @ \/ (b # Nil /\ writing[q].buf = b)]]
           /\ idle' \subseteq idle
           /\ bufCap' = [x \in Buffers |-> bufCap'[x]]
    BY <1>2, FillEffect
  <2>2. Append(filling[p], b) \in Seq(Slots)
    BY AppendProperties DEF FTypes
  <2>3. writing' \in [Clients -> [at : Nat, buf : Slots, torn : BOOLEAN]]
    <3>1. \A q \in Clients : [writing[q] EXCEPT !.torn = @ \/ (b # Nil /\ writing[q].buf = b)]
                               \in [at : Nat, buf : Slots, torn : BOOLEAN]
      BY DEF FTypes
    <3>2. QED
      BY <2>1, <3>1
  <2>4. filling' \in [Clients -> Seq(Slots)]
    BY <2>1, <2>2 DEF FTypes
  <2>5. QED
    BY <2>1, <2>3, <2>4 DEF FTypes
<1>3. CASE ChunkFilled(p) \/ FillFails(p)
  <2>1. <<>> \in Seq(Slots)
    OBVIOUS
  <2>2. filling' \in [Clients -> Seq(Slots)] /\ frames' \in [Chunks -> Seq(Slots)]
    BY <1>3, <2>1 DEF FTypes, ChunkFilled, FillFails
  <2>3. UNCHANGED <<returning, pos, writing, bufCap>> /\ idle' \subseteq Buffers
    <3>1. filling[p] \in Seq(Slots) => ToSet(filling[p]) \subseteq Slots
      BY DEF ToSet
    <3>2. QED
      BY <1>3, <3>1 DEF FTypes, ChunkFilled, FillFails, Put, poolVars, Slots
  <2>4. QED
    BY <2>2, <2>3 DEF FTypes
<1>4. CASE ReturnBuffer(p)
  <2>1. PICK i \in DOMAIN frames[returning[p]] :
          /\ Put({frames[returning[p]][i]})
          /\ frames' = [frames EXCEPT ![returning[p]][i] = Nil]
    BY <1>4 DEF ReturnBuffer
  <2>2. returning[p] \in Chunks /\ UNCHANGED <<filling, returning, pos, writing>>
    BY <1>4 DEF FTypes, ReturnBuffer
  <2>3. frames[returning[p]][i] \in Slots /\ [frames[returning[p]] EXCEPT ![i] = Nil] \in Seq(Slots)
    BY <1>0, <2>1, <2>2, ExceptSeq, LenProperties DEF FTypes
  <2>4. frames' \in [Chunks -> Seq(Slots)]
    BY <2>1, <2>2, <2>3 DEF FTypes
  <2>5. idle' \subseteq Buffers /\ UNCHANGED bufCap
    BY <2>1, <2>3 DEF FTypes, Put, Slots
  <2>6. QED
    BY <2>2, <2>4, <2>5 DEF FTypes
<1>5. CASE ReturnDone(p)
  <2>1. <<>> \in Seq(Slots)
    OBVIOUS
  <2>2. QED
    BY <1>5, <2>1 DEF FTypes, ReturnDone, poolVars
<1>6. CASE TakeFrame(p)
  <2>1. chunk[p] \in Chunks
    BY <1>0, <1>6 DEF IInv, TypeOK, PointersSet, TakeFrame
  <2>2. pos[p] + 1 \in 1..Len(frames[chunk[p]]) /\ frames[chunk[p]] \in Seq(Slots)
    BY <1>6, <2>1, LenProperties DEF FTypes, TakeFrame
  <2>3. frames[chunk[p]][pos[p] + 1] \in Slots
    BY <2>2, ElementOfSeq
  <2>4. QED
    BY <1>6, <2>2, <2>3 DEF FTypes, TakeFrame, poolVars
<1>7. CASE FrameWritten(p)
  BY <1>0, <1>7 DEF FTypes, FrameWritten, poolVars, NoFrame
<1>8. QED
  BY <1>1, <1>2, <1>3, <1>4, <1>5, <1>6, <1>7 DEF FramesStep, Step, Aside

\* Whichever slice a buffer moves between, it is in one, and not in the pools.
LEMMA OneOwnerStep ==
  ASSUME IInv, FTypes, OneOwner, NEW p \in Clients, FramesStep(p)
  PROVE  OneOwner'
<1>0. p \notin Chunks /\ Nil \notin Buffers
  BY DistinctAssumption, NilIsNoBuffer
<1>1. CASE UNCHANGED <<poolVars, filling, frames>>
  <2>1. Slices' = Slices /\ idle' = idle
    BY <1>1 DEF Slices, poolVars
  <2>2. QED
    BY <2>1 DEF OneOwner
<1>2. CASE FillFrame(p)
  <2>1. PICK b \in Slots :
           /\ UNCHANGED frames
           /\ filling' = [filling EXCEPT ![p] = Append(@, b)]
           /\ idle' \subseteq idle /\ b \notin idle'
           /\ b # Nil => \A o \in Chunks \cup Clients : \A i \in DOMAIN Slices[o] : Slices[o][i] # b
    BY <1>2, FillEffect
  <2> DEFINE s == filling[p]
             n == Len(filling[p])
  <2>2. /\ filling[p] \in Seq(Slots)
        /\ Slices[p] = filling[p] /\ Slices'[p] = Append(filling[p], b)
    BY <1>0, <2>1 DEF Slices, FTypes
  <2>3. /\ Len(filling[p]) \in Nat /\ DOMAIN Slices'[p] = 1..(n + 1) /\ DOMAIN Slices[p] = 1..n
        /\ Slices'[p][n + 1] = b /\ \A i \in 1..n : Slices'[p][i] = Slices[p][i]
    BY <2>2, AppendProperties, LenProperties
  <2>4. \A o \in Chunks \cup Clients : o # p => Slices'[o] = Slices[o]
    BY <2>1 DEF Slices, FTypes
  <2>5. \A o \in Chunks \cup Clients : \A i \in DOMAIN Slices'[o] :
          \/ i \in DOMAIN Slices[o] /\ Slices'[o][i] = Slices[o][i]
          \/ o = p /\ i = n + 1 /\ Slices'[o][i] = b
    BY <2>3, <2>4
  <2> HIDE DEF n, s
  <2>6. SUFFICES ASSUME NEW o \in Chunks \cup Clients, NEW q \in Chunks \cup Clients,
                        NEW i \in DOMAIN Slices'[o], NEW j \in DOMAIN Slices'[q],
                        Slices'[o][i] # Nil
                 PROVE  /\ Slices'[o][i] \notin idle'
                        /\ Slices'[o][i] = Slices'[q][j] => o = q /\ i = j
    BY DEF OneOwner
  <2>7. CASE i \in DOMAIN Slices[o] /\ Slices'[o][i] = Slices[o][i]
    <3>1. Slices[o][i] # b /\ Slices[o][i] \notin idle'
      BY <2>1, <2>6, <2>7 DEF OneOwner
    <3>2. QED
      BY <2>5, <2>6, <2>7, <3>1 DEF OneOwner
  <2>8. CASE o = p /\ i = n + 1 /\ Slices'[o][i] = b
    BY <2>1, <2>5, <2>6, <2>8
  <2>9. QED
    BY <2>5, <2>7, <2>8
<1>3. CASE ChunkFilled(p)
  <2>1. PICK c \in Chunks : chunk' = [chunk EXCEPT ![p] = c]
    BY <1>3 DEF ChunkFilled, LoadChunk
  <2>2. /\ filling' = [filling EXCEPT ![p] = <<>>] /\ UNCHANGED poolVars
        /\ frames' = [frames EXCEPT ![c] = filling[p]]
    BY <1>3, <2>1 DEF ChunkFilled, IInv, TypeOK
  <2>3. Slices'[c] = Slices[p] /\ Slices'[p] = <<>>
    BY <1>0, <2>2 DEF Slices, FTypes
  <2>4. \A o \in Chunks \cup Clients : o \notin {p, c} => Slices'[o] = Slices[o]
    BY <2>2 DEF Slices, FTypes
  <2>5. \A o \in Chunks \cup Clients : \A i \in DOMAIN Slices'[o] :
          \/ o \notin {p, c} /\ i \in DOMAIN Slices[o] /\ Slices'[o][i] = Slices[o][i]
          \/ o = c /\ i \in DOMAIN Slices[p] /\ Slices'[o][i] = Slices[p][i]
    BY <2>3, <2>4
  <2>6. QED
    BY <2>2, <2>5 DEF OneOwner, poolVars
<1>4. CASE FillFails(p)
  <2>1. /\ filling' = [filling EXCEPT ![p] = <<>>] /\ UNCHANGED frames
        /\ idle' \subseteq idle \cup (ToSet(filling[p]) \ {Nil})
    BY <1>4 DEF FillFails, Put
  <2>2. Slices'[p] = <<>> /\ Slices[p] = filling[p]
    BY <1>0, <2>1 DEF Slices, FTypes
  <2>3. \A o \in Chunks \cup Clients : o # p => Slices'[o] = Slices[o]
    BY <2>1 DEF Slices, FTypes
  <2>4. \A o \in Chunks \cup Clients : \A i \in DOMAIN Slices'[o] :
          o # p /\ i \in DOMAIN Slices[o] /\ Slices'[o][i] = Slices[o][i]
    BY <2>2, <2>3
  <2>5. \A x \in idle' : x \in idle \/ (x # Nil /\ \E j \in DOMAIN Slices[p] : x = Slices[p][j])
    <3>1. DOMAIN filling[p] = 1..Len(filling[p])
      BY LenProperties DEF FTypes
    <3>2. QED
      BY <2>1, <2>2, <3>1 DEF ToSet
  <2>6. QED
    BY <2>4, <2>5 DEF OneOwner
<1>5. CASE ReturnBuffer(p)
  <2>0. PICK c : c = returning[p]
    OBVIOUS
  <2>1. PICK k \in DOMAIN frames[c] :
          /\ frames[c][k] # Nil
          /\ Put({frames[c][k]})
          /\ frames' = [frames EXCEPT ![c][k] = Nil]
    BY <1>5, <2>0 DEF ReturnBuffer
  <2>2. c \in Chunks /\ UNCHANGED filling
    BY <1>5, <2>0 DEF FTypes, ReturnBuffer
  <2>3. Slices[c] = frames[c] /\ Slices'[c] = [Slices[c] EXCEPT ![k] = Nil]
    BY <2>1, <2>2 DEF Slices, FTypes
  <2>4. \A o \in Chunks \cup Clients : o # c => Slices'[o] = Slices[o]
    BY <2>1, <2>2 DEF Slices, FTypes
  <2>5. \A o \in Chunks \cup Clients : \A i \in DOMAIN Slices'[o] :
          \/ Slices'[o][i] = Nil
          \/ ~(o = c /\ i = k) /\ i \in DOMAIN Slices[o] /\ Slices'[o][i] = Slices[o][i]
    BY <2>3, <2>4
  <2>6. idle' \subseteq idle \cup {Slices[c][k]} /\ Slices[c][k] # Nil /\ k \in DOMAIN Slices[c]
    BY <2>1, <2>3 DEF Put
  <2>7. QED
    BY <2>2, <2>5, <2>6 DEF OneOwner
<1>6. CASE ReturnDone(p)
  <2>1. returning[p] \in Chunks /\ UNCHANGED <<poolVars, filling>>
        /\ frames' = [frames EXCEPT ![returning[p]] = <<>>]
    BY <1>6 DEF FTypes, ReturnDone
  <2>2. \A o \in Chunks \cup Clients : Slices'[o] = Slices[o] \/ Slices'[o] = <<>>
    BY <2>1 DEF Slices, FTypes
  <2>3. QED
    BY <2>1, <2>2 DEF OneOwner, poolVars
<1>7. CASE TakeFrame(p) \/ FrameWritten(p)
  BY <1>1, <1>7 DEF TakeFrame, FrameWritten
<1>8. CASE Aside(p)
  BY <1>1, <1>8, AsideMoves
<1>9. QED
  BY <1>2, <1>3, <1>4, <1>5, <1>6, <1>7, <1>8 DEF FramesStep, Step, Aside

-----------------------------------------------------------------------------
(***************************************************************************)
(* The slices hold the frames they are for                                 *)
(***************************************************************************)
\* The buffers of a slice keep their capacity, whatever any client allocates.
LEMMA CapsKept ==
  ASSUME IInv, FTypes, OneOwner, NEW p \in Clients, FramesStep(p)
  PROVE  \A o \in Chunks \cup Clients : \A i \in DOMAIN Slices[o] :
           Slices[o][i] \in Buffers => bufCap'[Slices[o][i]] = bufCap[Slices[o][i]]
<1>1. CASE FillFrame(p)
  <2>1. PICK b \in Slots :
          /\ b # Nil => \A o \in Chunks \cup Clients : \A i \in DOMAIN Slices[o] : Slices[o][i] # b
          /\ \A x \in Buffers \ {b} : bufCap'[x] = bufCap[x]
    BY <1>1, FillEffect
  <2>2. QED
    BY <2>1, NilIsNoBuffer
<1>2. CASE Aside(p)
  <2>1. UNCHANGED bufCap
    BY <1>2, AsideMoves DEF poolVars
  <2>2. QED
    BY <2>1
<1>3. CASE ~FillFrame(p) /\ ~Aside(p)
  <2>1. UNCHANGED bufCap
    BY <1>3 DEF FramesStep, Step, Aside, ChunkFilled, FillFails, ReturnBuffer, ReturnDone, TakeFrame,
       FrameWritten, Put, poolVars
  <2>2. QED
    BY <2>1
<1>4. QED
  BY <1>1, <1>2, <1>3

\* The same, slice by slice.
LEMMA FitsKept ==
  ASSUME IInv, FTypes, OneOwner, NEW p \in Clients, FramesStep(p)
  PROVE  /\ \A c \in Chunks : \A k \in Keys : FitsAll(frames[c], k) =>
              \A i \in DOMAIN frames[c] : IF Kept(k)[i] <= 0 THEN frames[c][i] = Nil
                ELSE frames[c][i] \in Buffers /\ bufCap'[frames[c][i]] = CapFor(Kept(k)[i])
         /\ \A q \in Clients : \A k \in Keys : FitsAll(filling[q], k) =>
              \A i \in DOMAIN filling[q] : IF Kept(k)[i] <= 0 THEN filling[q][i] = Nil
                ELSE filling[q][i] \in Buffers /\ bufCap'[filling[q][i]] = CapFor(Kept(k)[i])
<1>1. \A c \in Chunks : Slices[c] = frames[c]
  BY DEF Slices
<1>2. \A q \in Clients : Slices[q] = filling[q]
  BY DistinctAssumption DEF Slices
<1>3. QED
  BY <1>1, <1>2, CapsKept DEF FitsAll, Fits

\* A load's list grows by a buffer for the next row, and is emptied when it ends.
LEMMA FillingMatchesStep ==
  ASSUME IInv, FTypes, OneOwner, FillingMatches, NEW p \in Clients, FramesStep(p)
  PROVE  FillingMatches'
<1> USE DEF Fits, FitsAll
<1>0. TypeOK /\ \A q \in Clients : pc[q] = "load" => want[q] \in Keys
  BY DEF IInv, PointersSet
<1>1. CASE Aside(p)
  <2>1. /\ UNCHANGED filling
        /\ \A q \in Clients : pc'[q] = "load" => want'[q] = want[q] /\ pc[q] \in {"load", "guard"}
        /\ \A q \in Clients : pc[q] = "load" => pc'[q] = "load"
    BY <1>1, AsideMoves
  <2>2. QED
    BY <1>0, <2>1, FitsKept DEF FillingMatches
<1>2. CASE FillFrame(p)
  <2>1. PICK b \in Slots :
           /\ pc[p] = "load" /\ UNCHANGED vars
           /\ filling' = [filling EXCEPT ![p] = Append(@, b)]
           /\ \/ b = Nil /\ Kept(want[p])[Len(filling[p]) + 1] <= 0
              \/ /\ b \in Buffers /\ ~(Kept(want[p])[Len(filling[p]) + 1] <= 0)
                 /\ bufCap'[b] = CapFor(Kept(want[p])[Len(filling[p]) + 1])
    BY <1>2, FillEffect
  <2>2. UNCHANGED <<pc, want>>
    BY <2>1 DEF vars, clientVars
  <2>3. PICK n : n = Len(filling[p])
    OBVIOUS
  <2>4. /\ n \in Nat /\ DOMAIN filling'[p] = 1..(n + 1) /\ DOMAIN filling[p] = 1..n
        /\ filling'[p][n + 1] = b /\ \A i \in 1..n : filling'[p][i] = filling[p][i]
    BY <2>1, <2>3, AppendProperties, LenProperties DEF FTypes
  <2>5. ASSUME NEW i \in DOMAIN filling'[p] PROVE Fits(filling[p][i], Kept(want[p])[i])'
    <3>1. CASE i \in 1..n
      BY <1>0, <2>1, <2>2, <2>4, <3>1, FitsKept DEF FillingMatches
    <3>2. CASE i = n + 1
      BY <2>1, <2>2, <2>3, <2>4, <3>2
    <3>3. QED
      BY <2>4, <3>1, <3>2
  <2>6. \A q \in Clients : q # p => filling'[q] = filling[q]
    BY <2>1 DEF FTypes
  <2>7. QED
    BY <1>0, <2>1, <2>2, <2>5, <2>6, FitsKept DEF FillingMatches
<1>3. CASE ChunkFilled(p) \/ FillFails(p)
  <2>1. /\ filling' = [filling EXCEPT ![p] = <<>>] /\ pc[p] = "load" /\ pc'[p] # "load"
        /\ \A q \in Clients \ {p} : pc'[q] = pc[q] /\ want'[q] = want[q]
    BY <1>0, <1>3 DEF ChunkFilled, FillFails, LoadChunk, LoadFail, Goto, TypeOK
  <2>2. filling'[p] = <<>> /\ \A q \in Clients : q # p => filling'[q] = filling[q]
    BY <2>1 DEF FTypes
  <2>3. QED
    BY <1>0, <2>1, <2>2, FitsKept DEF FillingMatches
<1>4. CASE ReturnBuffer(p) \/ ReturnDone(p) \/ TakeFrame(p) \/ FrameWritten(p)
  <2>1. UNCHANGED <<filling, pc, want>>
    BY <1>4 DEF ReturnBuffer, ReturnDone, TakeFrame, FrameWritten, vars, clientVars
  <2>2. QED
    BY <1>0, <2>1, FitsKept DEF FillingMatches
<1>5. QED
  BY <1>1, <1>2, <1>3, <1>4 DEF FramesStep, Step, Aside

\* A chunk that is not finalized was loaded for a key.
LEMMA LoadedHasKey ==
  ASSUME IInv, NEW c \in Chunks \ freed
  PROVE  keyOf[c] \in Keys
<1>1. \/ c \in ToSet(lru)
      \/ \E q \in Clients : pc[q] = "insert" /\ chunk[q] = c
      \/ \E q \in Clients : (pc[q] = "held" /\ chunk[q] = c) \/ Finalizing(q, c)
  BY DEF IInv, NoLeak
<1>2. QED
  BY <1>1, NamesAssumption DEF IInv, TypeOK, CacheIndex, PointersSet, VictimSet, Finalizing

\* Only a chunk that is finalized loses frames, and only a load gives any.
LEMMA FramesMatchStep ==
  ASSUME IInv, FTypes, OneOwner, FillingMatches, FramesMatch, ReturningFreed,
         NEW p \in Clients, FramesStep(p)
  PROVE  FramesMatch'
<1> USE DEF Fits, FitsAll
<1>0. TypeOK
  BY DEF IInv
<1>1. \A c \in Chunks \ freed : keyOf[c] \in Keys
  BY LoadedHasKey
<1>2. ASSUME freed \subseteq freed', UNCHANGED keyOf,
             \A c \in Chunks \ freed : frames'[c] = frames[c]
      PROVE  FramesMatch'
  BY <1>1, <1>2, FitsKept DEF FramesMatch
<1>3. CASE Aside(p)
  BY <1>2, <1>3, AsideMoves
<1>4. CASE FillFrame(p) \/ FillFails(p) \/ TakeFrame(p) \/ FrameWritten(p)
  <2>1. UNCHANGED <<frames, freed, keyOf>>
    BY <1>4 DEF FillFrame, FillFails, LoadFail, TakeFrame, FrameWritten, vars, heapVars
  <2>2. QED
    BY <1>2, <2>1
<1>5. CASE ReturnBuffer(p) \/ ReturnDone(p)
  <2>1. /\ returning[p] \in freed /\ UNCHANGED <<freed, keyOf>>
        /\ \A c \in Chunks : c # returning[p] => frames'[c] = frames[c]
    BY <1>5 DEF ReturnBuffer, ReturnDone, ReturningFreed, FTypes, vars, heapVars
  <2>2. QED
    BY <1>2, <2>1
<1>6. CASE ChunkFilled(p)
  <2>1. PICK d \in Chunks :
          /\ chunk' = [chunk EXCEPT ![p] = d] /\ freed' = freed \ {d}
          /\ keyOf' = [keyOf EXCEPT ![d] = want[p]]
    BY <1>6 DEF ChunkFilled, LoadChunk
  <2>2. /\ pc[p] = "load" /\ Len(filling[p]) = Len(Kept(want[p]))
        /\ frames' = [frames EXCEPT ![d] = filling[p]]
    BY <1>0, <1>6, <2>1 DEF ChunkFilled, LoadChunk, TypeOK
  <2>3. want[p] \in Keys /\ FitsAll(filling[p], want[p])
    BY <2>2 DEF IInv, PointersSet, FillingMatches
  <2>4. frames'[d] = filling[p] /\ keyOf'[d] = want[p]
    BY <1>0, <2>1, <2>2 DEF FTypes, TypeOK
  <2>5. \A c \in Chunks : c # d => frames'[c] = frames[c] /\ keyOf'[c] = keyOf[c]
    BY <1>0, <2>1, <2>2 DEF FTypes, TypeOK
  <2>6. QED
    BY <1>1, <2>1, <2>2, <2>3, <2>4, <2>5, FitsKept DEF FramesMatch
<1>7. QED
  BY <1>3, <1>4, <1>5, <1>6 DEF FramesStep, Step, Aside

\* Nobody reuses the address of a chunk whose buffers are on their way back.
LEMMA ReturningFreedStep ==
  ASSUME IInv, FTypes, ReturningFreed, NEW p \in Clients, FramesStep(p)
  PROVE  ReturningFreed'
<1>0. TypeOK
  BY DEF IInv
<1>1. ASSUME freed \subseteq freed', UNCHANGED returning
      PROVE  ReturningFreed'
  BY <1>1 DEF ReturningFreed
<1>2. CASE StartReturn(p)
  <2>1. PICK c : /\ returning' = IF CanFinalize(c) THEN [returning EXCEPT ![p] = c] ELSE returning
                 /\ TryFinalize(c)
    BY <1>2 DEF StartReturn, ReturnsWhen, FinalizeVictim, Reclaim
  <2>2. freed \subseteq freed' /\ (CanFinalize(c) => c \in freed')
    BY <2>1 DEF TryFinalize
  <2>3. QED
    BY <2>1, <2>2 DEF ReturningFreed, FTypes
<1>3. CASE InsertFinished(p)
  <2>1. pc[p] = "evict" /\ mu = p /\ ~EvictionDue
    BY <1>3 DEF InsertFinished, FinishInsert
  <2>2. ~OverPressure
    BY <2>1, NoUndo
  <2>3. UNCHANGED <<freed, returning>>
    BY <1>3, <2>2 DEF InsertFinished, FinishInsert, ReturnsWhen, heapVars
  <2>4. QED
    BY <1>1, <2>3
<1>4. CASE Aside(p) /\ ~StartReturn(p) /\ ~InsertFinished(p)
  <2>1. freed \subseteq freed'
    BY <1>4, AsideMoves
  <2>2. UNCHANGED returning
    BY <1>4 DEF Aside, PlainStep, LeaveChunk, Panics, Request, frameVars
  <2>3. QED
    BY <1>1, <2>1, <2>2
<1>5. CASE ChunkFilled(p)
  <2>1. PICK d \in Chunks : chunk' = [chunk EXCEPT ![p] = d] /\ freed' = freed \ {d}
    BY <1>5 DEF ChunkFilled, LoadChunk
  <2>2. UNCHANGED returning /\ \A q \in Clients : returning[q] # d
    BY <1>0, <1>5, <2>1 DEF ChunkFilled, TypeOK
  <2>3. QED
    BY <2>1, <2>2 DEF ReturningFreed
<1>6. CASE ReturnDone(p)
  BY <1>6 DEF ReturnDone, ReturningFreed, FTypes, vars, heapVars
<1>7. CASE FillFrame(p) \/ FillFails(p) \/ ReturnBuffer(p) \/ TakeFrame(p) \/ FrameWritten(p)
  BY <1>1, <1>7 DEF FillFrame, FillFails, LoadFail, ReturnBuffer, TakeFrame, FrameWritten, vars, heapVars
<1>8. QED
  BY <1>2, <1>3, <1>4, <1>5, <1>6, <1>7 DEF FramesStep, Step, Aside

\* A session with a hit keeps writing from a frame its chunk still has.
LEMMA WritingOwnStep ==
  ASSUME IInv, FTypes, OneOwner, ReturningFreed, WritingOwn, NEW p \in Clients, FramesStep(p)
  PROVE  WritingOwn'
<1>0. TypeOK /\ \A q \in underLock : q \in Clients /\ chunk[q] \in Chunks \ freed
  BY DEF IInv, TypeOK, HitProtects, PointersSet
<1>1. CASE Aside(p)
  <2>1. /\ UNCHANGED <<frames, writing>>
        /\ \A q \in Clients : pc[q] = "held" =>
              (pc'[q] = "held" /\ chunk'[q] = chunk[q]) \/ writing[q] = NoFrame
        /\ \A q \in underLock' : q \in underLock \/ pc[q] = "lookup"
    BY <1>1, AsideMoves
  <2>2. QED
    BY <2>1 DEF WritingOwn
<1>2. CASE FillFrame(p)
  <2>1. PICK b \in Slots :
           /\ UNCHANGED <<vars, frames>>
           /\ writing' = [q \in Clients |->
                [writing[q] EXCEPT !.torn = @ \/ (b # Nil /\ writing[q].buf = b)]]
           /\ b # Nil => \A o \in Chunks \cup Clients : \A i \in DOMAIN Slices[o] : Slices[o][i] # b
    BY <1>2, FillEffect
  <2>2. UNCHANGED <<pc, chunk, underLock, frames>>
    BY <2>1 DEF vars, clientVars
  <2>3. SUFFICES ASSUME NEW q \in Clients, writing'[q] # NoFrame
                 PROVE  /\ pc[q] = "held"
                        /\ q \in underLock =>
                             /\ writing'[q].at \in DOMAIN frames[chunk[q]]
                             /\ writing'[q].buf = frames[chunk[q]][writing'[q].at]
                             /\ writing'[q].buf # Nil => ~writing'[q].torn
    BY <2>2 DEF WritingOwn
  <2>4. /\ writing[q] \in [at : Nat, buf : Slots, torn : BOOLEAN]
        /\ writing'[q] = [writing[q] EXCEPT !.torn = @ \/ (b # Nil /\ writing[q].buf = b)]
    BY <2>1 DEF FTypes
  <2>5. /\ writing'[q].at = writing[q].at /\ writing'[q].buf = writing[q].buf
        /\ writing'[q].torn <=> writing[q].torn \/ (b # Nil /\ writing[q].buf = b)
    BY <2>4
  <2>6. writing[q] # NoFrame
    <3>1. SUFFICES ASSUME writing[q] = NoFrame PROVE FALSE
      OBVIOUS
    <3>2. writing[q].buf = Nil /\ writing[q].torn = FALSE
      BY <3>1 DEF NoFrame
    <3>3. writing'[q] = writing[q]
      BY <2>4, <3>2
    <3>4. QED
      BY <2>3, <3>1, <3>3
  <2>7. pc[q] = "held"
    BY <2>6 DEF WritingOwn
  <2>8. ASSUME q \in underLock
        PROVE  /\ writing[q].at \in DOMAIN frames[chunk[q]]
               /\ writing[q].buf = frames[chunk[q]][writing[q].at]
               /\ writing[q].buf # Nil => ~writing'[q].torn
    <3>1. /\ writing[q].at \in DOMAIN frames[chunk[q]]
          /\ writing[q].buf = frames[chunk[q]][writing[q].at]
          /\ writing[q].buf # Nil => ~writing[q].torn
      BY <2>6, <2>8 DEF WritingOwn
    <3>2. Slices[chunk[q]] = frames[chunk[q]] /\ chunk[q] \in Chunks
      BY <1>0, <2>8 DEF Slices
    <3>3. b # Nil => writing[q].buf # b
      BY <2>1, <3>1, <3>2
    <3>4. QED
      BY <2>5, <3>1, <3>3
  <2>9. QED
    BY <2>5, <2>7, <2>8
<1>3. CASE ChunkFilled(p)
  <2>1. PICK d \in Chunks \ Reachable : chunk' = [chunk EXCEPT ![p] = d]
    BY <1>3 DEF ChunkFilled, LoadChunk
  <2>2. /\ pc[p] = "load" /\ UNCHANGED <<writing, underLock>>
        /\ \A q \in Clients : q # p => pc'[q] = pc[q] /\ chunk'[q] = chunk[q]
        /\ \A c \in Chunks : c # d => frames'[c] = frames[c]
    BY <1>0, <1>3, <2>1 DEF ChunkFilled, LoadChunk, Goto, TypeOK, FTypes
  <2>3. \A q \in Clients : chunk[q] # d
    BY <2>1 DEF Reachable
  <2>4. QED
    BY <1>0, <2>2, <2>3 DEF WritingOwn
<1>4. CASE FillFails(p)
  <2>1. /\ pc[p] = "load" /\ UNCHANGED <<writing, underLock, frames, chunk>>
        /\ \A q \in Clients : q # p => pc'[q] = pc[q]
    BY <1>0, <1>4 DEF FillFails, LoadFail, Goto, TypeOK
  <2>2. QED
    BY <2>1 DEF WritingOwn
<1>5. CASE ReturnBuffer(p) \/ ReturnDone(p)
  <2>1. /\ returning[p] \in freed /\ UNCHANGED <<pc, chunk, underLock, writing>>
        /\ \A c \in Chunks : c # returning[p] => frames'[c] = frames[c]
    BY <1>5 DEF ReturnBuffer, ReturnDone, ReturningFreed, FTypes, vars, clientVars
  <2>2. QED
    BY <1>0, <2>1 DEF WritingOwn
<1>6. CASE TakeFrame(p)
  <2>1. /\ pc[p] = "held" /\ UNCHANGED <<pc, chunk, underLock, frames>>
        /\ pos[p] < Len(frames[chunk[p]])
        /\ writing'[p] = [at |-> pos[p] + 1, buf |-> frames[chunk[p]][pos[p] + 1], torn |-> FALSE]
        /\ \A q \in Clients : q # p => writing'[q] = writing[q]
    BY <1>6 DEF TakeFrame, FTypes, vars, clientVars
  <2>2. chunk[p] \in Chunks
    BY <1>0, <2>1 DEF IInv, TypeOK, PointersSet
  <2>3. pos[p] + 1 \in DOMAIN frames[chunk[p]]
    BY <2>1, <2>2, LenProperties DEF FTypes
  <2>4. QED
    BY <2>1, <2>3 DEF WritingOwn
<1>7. CASE FrameWritten(p)
  <2>1. /\ UNCHANGED <<pc, chunk, underLock, frames>> /\ writing'[p] = NoFrame
        /\ \A q \in Clients : q # p => writing'[q] = writing[q]
    BY <1>7 DEF FrameWritten, FTypes, vars, clientVars
  <2>2. QED
    BY <2>1 DEF WritingOwn
<1>8. QED
  BY <1>1, <1>2, <1>3, <1>4, <1>5, <1>6, <1>7 DEF FramesStep, Step, Aside

-----------------------------------------------------------------------------
(***************************************************************************)
(* Theorems                                                                *)
(***************************************************************************)
\* No frame is loaded and no buffer taken when the store is created.
LEMMA InitFInv == FramesInit => FInv
<1> SUFFICES ASSUME FramesInit PROVE FInv
  OBVIOUS
<1>1. \A s \in {<<>>} : s \in Seq(Slots) /\ DOMAIN s = {}
  OBVIOUS
<1>2. FTypes
  BY <1>1 DEF FramesInit, PoolInit, FTypes, Slots, NoFrame
<1>3. \A o \in Chunks \cup Clients : DOMAIN Slices[o] = {}
  BY <1>1 DEF FramesInit, Slices
<1>4. OneOwner
  BY <1>3 DEF OneOwner
<1>5. FillingMatches /\ FramesMatch /\ ReturningFreed /\ WritingOwn
  BY DEF FramesInit, Init, FillingMatches, FramesMatch, ReturningFreed, WritingOwn
<1>6. QED
  BY <1>2, <1>4, <1>5 DEF FInv

\* Every step preserves it, given that the store's invariant holds.
LEMMA NextFInv == IInv /\ FInv /\ [FramesNext]_allVars => FInv'
<1>1. ASSUME IInv, FInv, NEW p \in Clients, FramesStep(p)
      PROVE  FInv'
  BY <1>1, FTypesStep, OneOwnerStep, FillingMatchesStep, FramesMatchStep, ReturningFreedStep,
     WritingOwnStep DEF FInv
<1>2. ASSUME IInv, FInv, UNCHANGED allVars
      PROVE  FInv'
  <2>1. UNCHANGED <<poolVars, filling, frames, returning, pos, writing>>
        /\ UNCHANGED <<pc, want, chunk, underLock, keyOf, freed>>
    BY <1>2 DEF allVars, frameVars, vars, heapVars, clientVars
  <2>2. FTypes' /\ OneOwner'
    <3>1. Slices' = Slices
      BY <2>1 DEF Slices
    <3>2. QED
      BY <1>2, <2>1, <3>1 DEF FInv, FTypes, OneOwner, poolVars
  <2>3. FillingMatches' /\ FramesMatch' /\ ReturningFreed' /\ WritingOwn'
    BY <1>2, <2>1 DEF FInv, FillingMatches, FramesMatch, FitsAll, Fits, ReturningFreed, WritingOwn, poolVars
  <2>4. QED
    BY <2>2, <2>3 DEF FInv
<1>3. QED
  BY <1>1, <1>2 DEF FramesNext, FramesStep

\* The invariant of the store, its accounting, and that of the buffers.
LEMMA FramesInvariant == FramesSpec => [](IInv /\ Accounting /\ FInv)
<1>1. FramesSpec => [](IInv /\ Accounting)
  BY FramesImplementStore, Invariant, AccountingInvariant, PTL
<1>2. QED
  BY <1>1, InitFInv, NextFInv, PTL DEF FramesSpec

\* No buffer is put back twice, nor handed out while a chunk or a load has it.
THEOREM OneOwnerCorrect == FramesSpec => []OneOwner
<1>1. FInv => OneOwner
  BY DEF FInv
<1>2. QED
  BY <1>1, FramesInvariant, PTL

\* A session that got its chunk by an LRU hit sends its own frames, all of them.
THEOREM HitPlaysOwnCorrect == FramesSpec => []HitPlaysOwn
<1>1. IInv /\ FInv => HitPlaysOwn
  <2>1. SUFFICES ASSUME IInv, FInv, NEW p \in underLock
                 PROVE  /\ writing[p] # NoFrame => OwnFrame(p)
                        /\ Len(frames[chunk[p]]) = Len(Kept(want[p]))
    BY DEF HitPlaysOwn
  <2>2. p \in Clients /\ chunk[p] \in Chunks \ freed /\ keyOf[chunk[p]] = want[p]
    BY <2>1, NamesAssumption DEF IInv, TypeOK, HitProtects, PointersSet
  <2>3. Len(frames[chunk[p]]) = Len(Kept(want[p])) /\ FitsAll(frames[chunk[p]], want[p])
    BY <2>1, <2>2 DEF FInv, FramesMatch
  <2>4. writing[p] # NoFrame => OwnFrame(p)
    BY <2>1, <2>2, <2>3, NilIsNoBuffer DEF FInv, WritingOwn, FitsAll, Fits, OwnFrame
  <2>5. QED
    BY <2>3, <2>4
<1>2. QED
  BY <1>1, FramesInvariant, PTL

\* The sum the properties take of a function is the one the lemmas are about.
LEMMA SumIsSumOf == \A f : SumFunction(f) = SumOf(f, DOMAIN f)
  BY DEF SumFunction, SumFunctionOnSet, FoldFunctionOnSet, SumOf, MapThenSumSet

\* The buffers of a chunk that was not finalized have the capacity it was charged.
LEMMA ChunkCap ==
  ASSUME IInv, FInv, NEW c \in Chunks \ freed
  PROVE  CapOf(c) = BytesCap[keyOf[c]]
<1> DEFINE k == keyOf[c]
           held == [i \in DOMAIN frames[c] |-> IF frames[c][i] = Nil THEN 0 ELSE bufCap[frames[c][i]]]
           due == [i \in 1..Len(Kept(k)) |-> CapFor(Kept(k)[i])]
<1>1. k \in Keys /\ Len(frames[c]) = Len(Kept(k)) /\ FitsAll(frames[c], k)
  BY LoadedHasKey DEF FInv, FramesMatch
<1>2. DOMAIN frames[c] = 1..Len(Kept(k)) /\ IsFiniteSet(DOMAIN frames[c])
  <2>1. frames[c] \in Seq(Slots)
    BY DEF FInv, FTypes
  <2>2. Len(frames[c]) \in Nat /\ DOMAIN frames[c] = 1..Len(frames[c])
    BY <2>1, LenProperties
  <2>3. IsFiniteSet(1..Len(frames[c]))
    BY <2>2, FS_Interval
  <2>4. QED
    BY <1>1, <2>2, <2>3
<1>3. ASSUME NEW i \in DOMAIN frames[c] PROVE held[i] = due[i]
  BY <1>1, <1>2, NilIsNoBuffer DEF FitsAll, Fits, CapFor
<1>4. DOMAIN held = DOMAIN frames[c] /\ DOMAIN due = DOMAIN frames[c]
  BY <1>2
<1>5. CapOf(c) = SumOf(held, DOMAIN frames[c])
  BY <1>4, SumIsSumOf DEF CapOf
<1>6. BytesCap[k] = SumOf(due, DOMAIN frames[c])
  BY <1>1, <1>4, SumIsSumOf, TotalCapAssumption
<1> HIDE DEF held, due
<1>7. SumOf(held, DOMAIN frames[c]) = SumOf(due, DOMAIN frames[c])
  BY <1>2, <1>3, SumCongruent
<1>8. QED
  BY <1>5, <1>6, <1>7

\* usedCapB is the capacity of the buffers that cached and evicted chunks hold.
THEOREM BudgetIsMemoryCorrect == FramesSpec => []BudgetIsMemory
<1>1. IInv /\ Accounting /\ FInv => BudgetIsMemory
  <2> SUFFICES ASSUME IInv, Accounting, FInv
               PROVE  usedCapB = SumFunction([c \in Charged |-> CapOf(c)])
    BY DEF BudgetIsMemory
  <2> DEFINE held == [c \in Charged |-> CapOf(c)]
  <2>1. Charged \subseteq Chunks \ freed /\ IsFiniteSet(Charged)
    BY FS_Subset DEF Charged, Accounting, LoadedFinite
  <2>2. \A c \in Charged : Cap[c] = held[c]
    BY <2>1, ChunkCap DEF Cap
  <2>3. SumFunction(held) = SumOf(held, Charged)
    BY SumIsSumOf
  <2> HIDE DEF held
  <2>4. SumOf(Cap, Charged) = SumOf(held, Charged)
    BY <2>1, <2>2, SumCongruent
  <2>5. QED
    BY <2>3, <2>4 DEF Accounting, held
<1>2. QED
  BY <1>1, FramesInvariant, PTL

=============================================================================
