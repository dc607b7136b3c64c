---------------------------- MODULE FrameBuffers ----------------------------
(***************************************************************************)
(* The frames of the cached chunks and the buffers they are kept in: the   *)
(* composition of ChunkStore and ByteBucketPool with the sessions that     *)
(* write the frames to their sockets                                       *)
(* (backend/internal/biz/session/store_pool/store.go, session.go).         *)
(*                                                                         *)
(* A step of the store that finalizes a chunk decides to do so on refs;    *)
(* the buffers go back one by one after that decision, with cs.mu held.    *)
(* A session writes a frame from the chunk's own buffer, without a lock.   *)
(***************************************************************************)
EXTENDS ChunkStore, ByteBucketPool

CONSTANTS
  FrameLens,      \* FrameLens[k]: the payload sizes of the rows of chunk k
  MaxFrameBytes

ASSUME FrameLensAssumption == FrameLens \in [Keys -> Seq(Nat)] /\ MaxFrameBytes \in Nat
ASSUME DistinctAssumption == Chunks \cap Clients = {}

VARIABLES
  filling,    \* filling[p]: the buffers loadChunk has taken so far
  frames,     \* frames[c]: chunk.Frames, by buffer; empty for a nil slice
  returning,  \* returning[p]: the chunk whose buffers p puts back, or NoChunk
  pos,        \* pos[p]: frames of its chunk the session has taken
  writing     \* writing[p]: the frame's index, its buffer, and whether another frame
              \* was copied into that buffer since; or NoFrame

frameVars == <<filling, frames, returning, pos, writing>>

NoFrame == [at |-> 0, buf |-> Nil, torn |-> FALSE]

\* Frames above MaxFrameBytes are passed over.
Kept(k) == SelectSeq(FrameLens[k], LAMBDA n : n <= MaxFrameBytes)

\* loadChunk adds up in totalCap the capacities Get returned.
ASSUME TotalCapAssumption ==
  \A k \in Keys : BytesCap[k] = SumFunction([i \in 1..Len(Kept(k)) |-> CapFor(Kept(k)[i])])

Owned(S) == (UNION {ToSet(s) : s \in S}) \ {Nil}

\* The buffers that are not free to be allocated.
Used ==
  Owned({frames[c] : c \in Chunks}) \cup Owned({filling[p] : p \in Clients})
    \cup {writing[p].buf : p \in Clients}

Unlocked == \A p \in Clients : returning[p] = NoChunk

FramesInit ==
  /\ Init /\ PoolInit
  /\ filling = [p \in Clients |-> <<>>]
  /\ frames = [c \in Chunks |-> <<>>]
  /\ returning = [p \in Clients |-> NoChunk]
  /\ pos = [p \in Clients |-> 0]
  /\ writing = [p \in Clients |-> NoFrame]

-----------------------------------------------------------------------------
(***************************************************************************)
(* loadChunk                                                               *)
(***************************************************************************)
\* One turn of the loop over the rows: a buffer, and the copy into it.
FillFrame(p) ==
  LET i == Len(filling[p]) + 1 IN
  /\ pc[p] = "load" /\ i <= Len(Kept(want[p]))
  /\ \E b \in Buffers \cup {Nil} :
       /\ Get(Kept(want[p])[i], Used, b)
       /\ filling' = [filling EXCEPT ![p] = Append(@, b)]
       /\ writing' = [q \in Clients |-> [writing[q] EXCEPT !.torn = @ \/ (b # Nil /\ writing[q].buf = b)]]
  /\ UNCHANGED <<vars, frames, returning, pos>>

\* All rows are read: the chunk gets the buffers.  Its address is not that of a
\* chunk whose buffers are still being put back.
ChunkFilled(p) ==
  /\ LoadChunk(p)
  /\ \A q \in Clients : returning[q] # chunk'[p]
  /\ Len(filling[p]) = Len(Kept(want[p]))
  /\ frames' = [frames EXCEPT ![chunk'[p]] = filling[p]]
  /\ filling' = [filling EXCEPT ![p] = <<>>]
  /\ UNCHANGED <<poolVars, returning, pos, writing>>

\* Mutant of FillFails: the list that is rolled back is kept by the next load.
FillFailsKeeping(p) ==
  /\ LoadFail(p)
  /\ Put(ToSet(filling[p]))
  /\ UNCHANGED <<filling, frames, returning, pos, writing>>

\* The query, a row or the context fails: the buffers taken so far go back.
FillFails(p) ==
  /\ LoadFail(p)
  /\ Put(ToSet(filling[p]))
  /\ filling' = [filling EXCEPT ![p] = <<>>]
  /\ UNCHANGED <<frames, returning, pos, writing>>

-----------------------------------------------------------------------------
(***************************************************************************)
(* tryFinalizeChunkLocked, after its tests                                 *)
(***************************************************************************)
ReturnsWhen(p, cond, c) ==
  returning' = IF cond THEN [returning EXCEPT ![p] = c] ELSE returning

StartReturn(p) ==
  /\ \/ FinalizeVictim(p) /\ ReturnsWhen(p, CanFinalize(victim[p]), victim[p])
     \/ Unlocked /\ Reclaim(p) /\ ReturnsWhen(p, CanFinalize(chunk[p]), chunk[p])
  /\ pos' = [pos EXCEPT ![p] = IF pc[p] = "reclaim" THEN 0 ELSE @]
  /\ UNCHANGED <<poolVars, filling, frames, writing>>

\* One frame's buffer goes back; the frame keeps its place in the slice.
ReturnBuffer(p) ==
  LET c == returning[p] IN
  /\ c # NoChunk
  /\ \E i \in DOMAIN frames[c] :
       /\ frames[c][i] # Nil
       /\ \A j \in 1..(i - 1) : frames[c][j] = Nil
       /\ Put({frames[c][i]})
       /\ frames' = [frames EXCEPT ![c][i] = Nil]
  /\ UNCHANGED <<vars, filling, returning, pos, writing>>

\* chunk.Frames becomes nil.
ReturnDone(p) ==
  LET c == returning[p] IN
  /\ c # NoChunk
  /\ ToSet(frames[c]) \subseteq {Nil}
  /\ frames' = [frames EXCEPT ![c] = <<>>]
  /\ returning' = [returning EXCEPT ![p] = NoChunk]
  /\ UNCHANGED <<vars, poolVars, filling, pos, writing>>

\* An undone insertion gives its buffers back as well, after unlocking.
InsertFinished(p) ==
  /\ FinishInsert(p)
  /\ ReturnsWhen(p, OverPressure, chunk[p])
  /\ UNCHANGED <<poolVars, filling, frames, pos, writing>>

-----------------------------------------------------------------------------
(***************************************************************************)
(* The session                                                             *)
(***************************************************************************)
\* Whether chunk.Frames is nil although frames of the key are left to play: the
\* reference was counted after the test on refs, and the chunk finalized since.
FramesLost(p) == pos[p] < Len(Kept(want[p])) /\ frames[chunk[p]] = <<>>

\* get returns the next frame of the chunk, a copy of its slice header, and
\* the session starts writing it.
TakeFrame(p) ==
  LET c == chunk[p] IN
  /\ pc[p] = "held" /\ writing[p] = NoFrame
  /\ pos[p] < Len(frames[c])
  /\ pos' = [pos EXCEPT ![p] = @ + 1]
  /\ writing' = [writing EXCEPT ![p] = [at |-> pos[p] + 1, buf |-> frames[c][pos[p] + 1], torn |-> FALSE]]
  /\ UNCHANGED <<vars, poolVars, filling, frames, returning>>

\* A chunk that lost its frames: get lets go of one it has just been given; on one
\* it kept, the index in get or advance panics, and Run's deferred release lets go.
Panics(p) ==
  /\ DropRef(p)
  /\ FramesLost(p)
  /\ writing[p] = NoFrame
  /\ pos' = [pos EXCEPT ![p] = 0]
  /\ UNCHANGED <<poolVars, filling, frames, returning, writing>>

\* WriteMessage has returned, with the frame sent or an error.
FrameWritten(p) ==
  /\ writing[p] # NoFrame
  /\ writing' = [writing EXCEPT ![p] = NoFrame]
  /\ UNCHANGED <<vars, poolVars, filling, frames, returning, pos>>

\* The session is done with the chunk: it played it, skips past it, or ends.
LeaveChunk(p) ==
  /\ DropRef(p)
  /\ writing[p] = NoFrame
  /\ pos' = [pos EXCEPT ![p] = 0]
  /\ UNCHANGED <<poolVars, filling, frames, returning, writing>>

-----------------------------------------------------------------------------
\* Steps of the store that touch no buffer.
PlainStep(p) ==
  /\ \/ Join(p) \/ Lead(p) \/ EvictTail(p) \/ Publish(p) \/ GetError(p) \/ TakeRef(p) \/ CheckEvicted(p)
     \/ /\ Unlocked
        /\ LookupHit(p) \/ LookupMiss(p) \/ RecheckHit(p) \/ RecheckMiss(p) \/ PressureGuard(p) \/ Insert(p)
  /\ UNCHANGED <<poolVars, frameVars>>

Request(p, k) == GetChunk(p, k) /\ UNCHANGED <<poolVars, frameVars>>

\* A client that puts buffers back does nothing else.
Step(p) ==
  \/ ReturnBuffer(p) \/ ReturnDone(p)
  \/ /\ returning[p] = NoChunk
     /\ \/ PlainStep(p) \/ StartReturn(p) \/ InsertFinished(p)
        \/ FillFrame(p) \/ ChunkFilled(p) \/ FillFails(p)
        \/ TakeFrame(p) \/ Panics(p) \/ FrameWritten(p) \/ LeaveChunk(p)

FramesNext ==
  \E p \in Clients : Step(p) \/ (returning[p] = NoChunk /\ \E k \in Keys : Request(p, k))

allVars == <<vars, poolVars, frameVars>>

FramesSpec == FramesInit /\ [][FramesNext]_allVars

-----------------------------------------------------------------------------
(***************************************************************************)
(* Properties                                                              *)
(***************************************************************************)
\* The slices that own buffers: the frames of a chunk, a load in progress.
Slices == [o \in Chunks \cup Clients |-> IF o \in Chunks THEN frames[o] ELSE filling[o]]

\* A buffer is in one place: whatever fails during a load and whoever finalizes
\* a chunk, it is never put back twice, nor pooled while a chunk points at it.
OneOwner ==
  \A o, q \in Chunks \cup Clients :
    \A i \in DOMAIN Slices[o], j \in DOMAIN Slices[q] :
      Slices[o][i] # Nil =>
        /\ Slices[o][i] \notin idle
        /\ Slices[o][i] = Slices[q][j] => o = q /\ i = j

CapOf(c) ==
  SumFunction([i \in DOMAIN frames[c] |-> IF frames[c][i] = Nil THEN 0 ELSE bufCap[frames[c][i]]])

\* The budget is the memory: with cs.mu free, usedCapB is the capacity of the
\* buffers that cached and evicted chunks hold, whichever bucket each came from.
BudgetIsMemory ==
  mu = NoClient /\ Unlocked => usedCapB = SumFunction([c \in Charged |-> CapOf(c)])

\* What p is writing is the frame it took: its buffer was not filled with
\* another one, nor was it taken away before.
OwnFrame(p) ==
  LET f == writing[p] IN IF f.buf = Nil THEN Kept(want[p])[f.at] <= 0 ELSE ~f.torn

\* A session that got its chunk by an LRU hit writes the bytes of its own frame
\* until the write is over, and finds the chunk's frames there for the next one.
HitPlaysOwn ==
  \A p \in underLock :
    /\ writing[p] # NoFrame => OwnFrame(p)
    /\ Len(frames[chunk[p]]) = Len(Kept(want[p]))

(***************************************************************************)
(* What the repository says and the code does not do                       *)
(***************************************************************************)

\* store.go on evictLocked: buffers are freed only when nobody holds the chunk,
\* so what a session writes is its own frame.
PlaysOwn == \A p \in Clients : ~writing[p].torn

=============================================================================
