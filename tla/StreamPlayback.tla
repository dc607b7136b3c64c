--------------------------- MODULE StreamPlayback ---------------------------
(***************************************************************************)
(* Playing one stream (backend/internal/biz/session/session.go) over the   *)
(* chunk cache and the frames table.                                       *)
(*                                                                         *)
(* A session is one WebSocket connection: it takes a snapshot of the       *)
(* stream's bounds, then Run walks the time slots, skipping frames to      *)
(* catch up and sending one frame per slot.  The frames come from chunks   *)
(* that ChunkManager.get obtains from the store.                           *)
(*                                                                         *)
(* The store is reduced to what GetChunk can answer (ChunkStore has its    *)
(* inside): the cached chunk of the index, a chunk loaded from the table,  *)
(* an error, or a chunk that is being finalized: its frames are gone, or   *)
(* will be while the session reads them.  The frames table is written by   *)
(* other programs; the writes a run allows are in TableWrites.  Frames are *)
(* their sequence numbers.  Time is counted in slots of s.interval, each   *)
(* session by its own clock.                                               *)
(***************************************************************************)
EXTENDS Integers, FiniteSetsExt, SequencesExt

CONSTANTS
  Sessions,
  Peers,        \* further sessions, of which only the use of the store is modelled
  LastSeq,      \* sequence numbers are 0..LastSeq
  ChunkN,       \* frames per chunk
  Oversize,     \* frames above MaxFrameBytes
  TableWrites,  \* the external writes: subset of {"append", "trim"}
  Reclaims,     \* TRUE when GetChunk may return a chunk that is finalized or about to be
  MaxEvents,    \* bound on failing loads, cancellations and external writes
  MaxElapsed,   \* bound on the clock of a session
  NoChunk

ASSUME SeqAssumption   == LastSeq \in Nat /\ Oversize \subseteq 0..LastSeq
ASSUME ChunkAssumption == ChunkN \in Nat \ {0}
ASSUME EnvAssumption   == /\ TableWrites \subseteq {"append", "trim"} /\ Reclaims \in BOOLEAN
                          /\ MaxEvents \in Nat /\ MaxElapsed \in Nat

VARIABLES
  table,     \* sequences of the stream's rows in frames
  cache,     \* cache[i]: the chunk the store has for index i, or NoChunk
  snapshot,  \* snapshot[q]: the bounds a peer saw when it connected, or NotConnected
  events,    \* failures and external writes so far
  pc,        \* location of each session in Run and get
  minSeq, maxSeq,   \* meta.MinSeq, meta.MaxSeq
  seq, pos, chunk, emptyRuns,  \* the ChunkManager
  slots,     \* s.slots
  target,    \* targetSlots of the current round
  elapsed,   \* slots of time since s.base
  ctxDone,   \* sessions whose context ended
  outcome,   \* how Run ended: "eos" for nil, "error", or a "panic"
  late,      \* history: sessions with a failed get in the current round
  due        \* history: playable frames of the snapshot, neither sent nor skipped

managerVars == <<minSeq, maxSeq, seq, pos, chunk, emptyRuns>>
paceVars    == <<slots, target, elapsed, late>>
storeVars   == <<table, cache, snapshot>>
vars == <<storeVars, events, pc, managerVars, paceVars, ctxDone, outcome, due>>

-----------------------------------------------------------------------------
Seqs == 0..LastSeq

Chunks == [start : Nat, frames : Seq(Seqs), finalizing : BOOLEAN]

ASSUME NoChunkAssumption == NoChunk \notin Chunks

\* The indexes of ChunkKey.
Indexes == 0..(LastSeq \div ChunkN)

EmptyChunkGuard == 3

NotConnected == [MinSeq |-> 0, MaxSeq |-> -1]

\* The sequence of the members of S in ascending order.
Sorted(S) == CHOOSE s \in [1..Cardinality(S) -> S] : \A i, j \in DOMAIN s : i < j => s[i] < s[j]

\* The rows a query with this start returns: LIMIT counts oversize rows too.
Rows(start) ==
  {s \in table : s >= start /\ Cardinality({r \in table : start <= r /\ r < s}) < ChunkN}

\* loadChunk: oversize frames are dropped after the query.
Loaded(start) ==
  [start |-> start, frames |-> Sorted(Rows(start) \ Oversize), finalizing |-> FALSE]

\* A chunk whose finalization began, refs being 0, before this reference was counted.
Finalizing(c) == [start |-> c.start, frames |-> c.frames, finalizing |-> TRUE]

\* The same chunk at the end of its finalization: Frames is nil.
Reclaimed(c) == [start |-> c.start, frames |-> <<>>, finalizing |-> FALSE]

\* The first position at or after which the frames reach s (sort.Search).
SearchPos(frames, s) == Cardinality({i \in DOMAIN frames : frames[i] < s}) + 1

Goto(p, l) == pc' = [pc EXCEPT ![p] = l]

Init ==
  /\ table \in SUBSET Seqs
  /\ cache = [i \in Indexes |-> NoChunk]
  /\ snapshot = [q \in Peers |-> NotConnected]
  /\ events = 0
  /\ pc = [p \in Sessions |-> "idle"]
  /\ minSeq = [p \in Sessions |-> 0] /\ maxSeq = [p \in Sessions |-> 0]
  /\ seq = [p \in Sessions |-> 0]
  /\ pos = [p \in Sessions |-> 1]
  /\ chunk = [p \in Sessions |-> NoChunk]
  /\ emptyRuns = [p \in Sessions |-> 0]
  /\ slots = [p \in Sessions |-> 0]
  /\ target = [p \in Sessions |-> 0]
  /\ elapsed = [p \in Sessions |-> 0]
  /\ late = {}
  /\ ctxDone = {}
  /\ outcome = [p \in Sessions |-> "none"]
  /\ due = [p \in Sessions |-> {}]

\* The snapshot of the stream's bounds; without frames they are 0 and -1.
LoadStreamMeta ==
  [MinSeq |-> IF table = {} THEN 0 ELSE Min(table),
   MaxSeq |-> IF table = {} THEN -1 ELSE Max(table),
   Count  |-> Cardinality(table)]

-----------------------------------------------------------------------------
(***************************************************************************)
(* The environment                                                         *)
(***************************************************************************)
\* Another session takes its snapshot.
PeerConnects(q) ==
  LET meta == LoadStreamMeta IN
  /\ snapshot[q] = NotConnected
  /\ meta.Count # 0
  /\ snapshot' = [snapshot EXCEPT ![q] = [MinSeq |-> meta.MinSeq, MaxSeq |-> meta.MaxSeq]]
  /\ UNCHANGED <<table, cache, events, pc, managerVars, paceVars, ctxDone, outcome, due>>

\* It plays on and has the store load one of its chunks, cut by its own snapshot.
PeerLoads(q) ==
  /\ snapshot[q] # NotConnected
  /\ \E i \in 0..((snapshot[q].MaxSeq - snapshot[q].MinSeq) \div ChunkN) :
       /\ cache[i] = NoChunk
       /\ cache' = [cache EXCEPT ![i] = Loaded(snapshot[q].MinSeq + i * ChunkN)]
  /\ UNCHANGED <<table, snapshot, events, pc, managerVars, paceVars, ctxDone, outcome, due>>

\* One more of the bounded events.
HappensNow == events < MaxEvents /\ events' = events + 1

\* The store evicts a chunk; the sessions that were counted under cs.mu keep its frames.
Evict(i) ==
  /\ cache[i] # NoChunk
  /\ cache' = [cache EXCEPT ![i] = NoChunk]
  /\ UNCHANGED <<table, snapshot, events, pc, managerVars, paceVars, ctxDone, outcome, due>>

\* The evictor reaches the end of tryFinalizeChunkLocked for a chunk that this
\* session has taken meanwhile.  The evictor holds cs.mu until then; that others
\* wait for it is left out, so they may be further here than in the program.
LoseFrames(p) ==
  /\ chunk[p] # NoChunk /\ chunk[p].finalizing
  /\ chunk' = [chunk EXCEPT ![p] = Reclaimed(chunk[p])]
  /\ UNCHANGED <<storeVars, events, pc, minSeq, maxSeq, seq, pos, emptyRuns, paceVars, ctxDone, outcome, due>>

AppendRow ==
  /\ "append" \in TableWrites
  /\ \E s \in Seqs : (\A r \in table : r < s) /\ table' = table \cup {s}
  /\ HappensNow
  /\ UNCHANGED <<cache, snapshot, pc, managerVars, paceVars, ctxDone, outcome, due>>

TrimFirst ==
  /\ "trim" \in TableWrites /\ table # {}
  /\ table' = table \ {Min(table)}
  /\ due' = [p \in Sessions |-> due[p] \ {Min(table)}]
  /\ HappensNow
  /\ UNCHANGED <<cache, snapshot, pc, managerVars, paceVars, ctxDone, outcome>>

\* Time passes.  It is enough to let it pass where the session reads its clock:
\* ticks commute with every step in between.
Tick(p) ==
  /\ pc[p] \in {"top", "asleep"} /\ elapsed[p] < MaxElapsed
  /\ elapsed' = [elapsed EXCEPT ![p] = @ + 1]
  /\ UNCHANGED <<storeVars, events, pc, managerVars, slots, target, late, ctxDone, outcome, due>>

\* The request context ends: the server's request timeout, or a disconnect.
CancelContext(p) ==
  /\ pc[p] \notin {"idle", "done"} /\ p \notin ctxDone
  /\ ctxDone' = ctxDone \cup {p}
  /\ HappensNow
  /\ UNCHANGED <<storeVars, pc, managerVars, paceVars, outcome, due>>

-----------------------------------------------------------------------------
(***************************************************************************)
(* Run                                                                     *)
(***************************************************************************)
\* The cursor starts at the first frame, the clock at zero.
NewStreamSession(p, meta) ==
  /\ minSeq' = [minSeq EXCEPT ![p] = meta.MinSeq]
  /\ maxSeq' = [maxSeq EXCEPT ![p] = meta.MaxSeq]
  /\ seq' = [seq EXCEPT ![p] = meta.MinSeq]
  /\ UNCHANGED <<pos, chunk, emptyRuns, paceVars>>

\* WSStreamHandler up to Run; without frames it answers 204.
Connect(p) ==
  LET meta == LoadStreamMeta IN
  /\ pc[p] = "idle"
  /\ meta.Count # 0 /\ meta.MaxSeq >= meta.MinSeq
  /\ NewStreamSession(p, meta)
  /\ due' = [due EXCEPT ![p] = table \ Oversize]
  /\ Goto(p, "top")
  /\ UNCHANGED <<storeVars, events, ctxDone, outcome>>

\* Run ends; the deferred release drops the chunk.
Finish(p, result) ==
  /\ chunk' = [chunk EXCEPT ![p] = NoChunk]
  /\ outcome' = [outcome EXCEPT ![p] = result]
  /\ Goto(p, "done")

AtEnd(p) == seq[p] > maxSeq[p]

StartRound(p) ==
  /\ pc[p] = "top"
  /\ late' = late \ {p}
  /\ IF AtEnd(p)
     THEN Finish(p, "eos") /\ UNCHANGED target
     ELSE /\ target' = [target EXCEPT ![p] = elapsed[p]]
          /\ Goto(p, "skip")
          /\ UNCHANGED <<chunk, outcome>>
  /\ UNCHANGED <<storeVars, events, minSeq, maxSeq, seq, pos, emptyRuns, slots, elapsed, ctxDone, due>>

\* Mutant of Behind: the catch-up loop gives up one slot too early.
BehindByTwo(p) == slots[p] + 1 < target[p] /\ ~AtEnd(p)

Behind(p) == slots[p] < target[p] /\ ~AtEnd(p)

\* A turn of the catch-up loop asks for a frame to skip.
CatchUp(p) ==
  /\ pc[p] = "skip" /\ Behind(p)
  /\ Goto(p, "getSkip")
  /\ UNCHANGED <<storeVars, events, managerVars, paceVars, ctxDone, outcome, due>>

\* The current slot, after the loop's condition failed or its break.
CurrentSlot(p) ==
  /\ pc[p] = "slot" \/ (pc[p] = "skip" /\ ~Behind(p))
  /\ IF AtEnd(p) THEN Finish(p, "eos")
     ELSE Goto(p, "getSend") /\ UNCHANGED <<chunk, outcome>>
  /\ UNCHANGED <<storeVars, events, minSeq, maxSeq, seq, pos, emptyRuns, paceVars, ctxDone, due>>

\* Mutant of Advance: only the sequence moves.
AdvanceSeqOnly(p) ==
  LET f == chunk[p].frames[pos[p]] IN
  /\ seq' = [seq EXCEPT ![p] = f + 1]
  /\ due' = [due EXCEPT ![p] = @ \ {f}]
  /\ UNCHANGED pos

\* advance: the cursor moves behind the frame at pos.
Advance(p) ==
  LET f == chunk[p].frames[pos[p]] IN
  /\ seq' = [seq EXCEPT ![p] = f + 1]
  /\ pos' = [pos EXCEPT ![p] = @ + 1]
  /\ due' = [due EXCEPT ![p] = @ \ {f}]

\* The frames of the chunk at hand are gone.
FramesLost(p) == chunk[p] # NoChunk /\ chunk[p].frames = <<>>

SkipFrame(p) ==
  /\ pc[p] = "skipFrame" /\ ~FramesLost(p)
  /\ Advance(p)
  /\ slots' = [slots EXCEPT ![p] = @ + 1]
  /\ Goto(p, "skip")
  /\ UNCHANGED <<storeVars, events, minSeq, maxSeq, chunk, emptyRuns, target, elapsed, late, ctxDone, outcome>>

WriteFrame(p) ==
  /\ pc[p] = "write" /\ ~FramesLost(p)
  /\ Advance(p)
  /\ slots' = [slots EXCEPT ![p] = @ + 1]
  /\ Goto(p, "pace")
  /\ UNCHANGED <<storeVars, events, minSeq, maxSeq, chunk, emptyRuns, target, elapsed, late, ctxDone, outcome>>

\* The client is gone, or did not take the frame within the write deadline.
WriteError(p) ==
  /\ pc[p] = "write"
  /\ Finish(p, "error")
  /\ UNCHANGED <<storeVars, events, minSeq, maxSeq, seq, pos, emptyRuns, paceVars, ctxDone, due>>

\* Mutant of Ahead: a round never waits for its slot.
AheadNever(p) == FALSE

Ahead(p) == slots[p] > elapsed[p]

\* After the slot: sleep when its successor has not begun yet.
Pace(p) ==
  /\ pc[p] = "pace"
  /\ Goto(p, IF Ahead(p) THEN "asleep" ELSE "top")
  /\ UNCHANGED <<storeVars, events, managerVars, paceVars, ctxDone, outcome, due>>

TimerFires(p) ==
  /\ pc[p] = "asleep" /\ slots[p] <= elapsed[p]
  /\ Goto(p, "top")
  /\ UNCHANGED <<storeVars, events, managerVars, paceVars, ctxDone, outcome, due>>

SeeCancelled(p) ==
  /\ pc[p] = "asleep" /\ p \in ctxDone
  /\ Finish(p, "error")
  /\ UNCHANGED <<storeVars, events, minSeq, maxSeq, seq, pos, emptyRuns, paceVars, ctxDone, due>>

-----------------------------------------------------------------------------
(***************************************************************************)
(* ChunkManager.get, called by the catch-up loop and for the current slot. *)
(* The recursive call after an empty chunk is a step of its own.           *)
(***************************************************************************)
InGet(p) == pc[p] \in {"getSkip", "getSend"}

\* Where Run continues when get found a frame.
GotFrame(p) == Goto(p, IF pc[p] = "getSkip" THEN "skipFrame" ELSE "write")

\* Mutant of GotNothing: a slot without a frame is not counted.
GotNothingFreeSlot(p) ==
  IF emptyRuns[p] >= EmptyChunkGuard
  THEN Finish(p, "eos") /\ UNCHANGED slots
  ELSE /\ Goto(p, IF pc[p] = "getSkip" THEN "slot" ELSE "pace")
       /\ UNCHANGED <<slots, outcome>>

\* get returned false: Run ends when chunks were empty in a row; otherwise the
\* catch-up loop breaks, or the slot passes without a frame.
GotNothing(p) ==
  IF emptyRuns[p] >= EmptyChunkGuard
  THEN Finish(p, "eos") /\ UNCHANGED slots
  ELSE /\ IF pc[p] = "getSkip"
          THEN Goto(p, "slot") /\ UNCHANGED slots
          ELSE Goto(p, "pace") /\ slots' = [slots EXCEPT ![p] = @ + 1]
       /\ UNCHANGED outcome

\* A jump over empty chunks has reached the end inside get.
GetPastEnd(p) ==
  /\ InGet(p) /\ AtEnd(p)
  /\ GotNothing(p)
  /\ emptyRuns[p] < EmptyChunkGuard => UNCHANGED chunk
  /\ UNCHANGED <<storeVars, events, minSeq, maxSeq, seq, pos, emptyRuns, target, elapsed, late, ctxDone, due>>

\* An index into frames that are gone: get when it looks at the last frame or hands
\* one out, advance for the frame just skipped or written.  The handler's goroutine
\* unwinds, the deferred release included.
Panics(p) ==
  /\ FramesLost(p)
  /\ pc[p] \in {"skipFrame", "write"} \/ (InGet(p) /\ ~AtEnd(p))
  /\ Finish(p, "panic")
  /\ UNCHANGED <<storeVars, events, minSeq, maxSeq, seq, pos, emptyRuns, paceVars, ctxDone, due>>

Exhausted(p) == chunk[p] # NoChunk => seq[p] > Last(chunk[p].frames)

\* The chunk at hand still reaches seq.
GetCurrent(p) ==
  /\ InGet(p) /\ ~AtEnd(p) /\ ~FramesLost(p) /\ ~Exhausted(p)
  /\ GotFrame(p)
  /\ UNCHANGED <<storeVars, events, managerVars, paceVars, ctxDone, outcome, due>>

\* Mutant of WantSeq: the cursor is bounded from the wrong side.
WantSeqBelow(p) == IF seq[p] > minSeq[p] THEN minSeq[p] ELSE seq[p]

\* GetChunk's wantSeq: a cursor below the snapshot asks for its first chunk.
WantSeq(p) == IF seq[p] < minSeq[p] THEN minSeq[p] ELSE seq[p]

\* GetChunk's key, from the session's own snapshot.
IndexOf(p) == (WantSeq(p) - minSeq[p]) \div ChunkN

StartOf(p) == minSeq[p] + IndexOf(p) * ChunkN

\* Mutant of Obtain: the jump starts from the cursor, not from the chunk.
ObtainFromCursor(p, c) ==
  LET n == SearchPos(c.frames, seq[p]) IN
  IF n > Len(c.frames)
  THEN /\ seq' = [seq EXCEPT ![p] = @ + ChunkN]
       /\ pos' = [pos EXCEPT ![p] = 1]
       /\ chunk' = [chunk EXCEPT ![p] = NoChunk]
       /\ emptyRuns' = [emptyRuns EXCEPT ![p] = Min({@ + 1, EmptyChunkGuard})]
       /\ UNCHANGED pc
  ELSE /\ chunk' = [chunk EXCEPT ![p] = c]
       /\ pos' = [pos EXCEPT ![p] = n]
       /\ emptyRuns' = [emptyRuns EXCEPT ![p] = 0]
       /\ GotFrame(p)
       /\ UNCHANGED seq

\* Mutant of Obtain: the jump forgets the chunk's size.
ObtainFromStart(p, c) ==
  LET n == SearchPos(c.frames, seq[p]) IN
  IF n > Len(c.frames)
  THEN /\ seq' = [seq EXCEPT ![p] = c.start]
       /\ pos' = [pos EXCEPT ![p] = 1]
       /\ chunk' = [chunk EXCEPT ![p] = NoChunk]
       /\ emptyRuns' = [emptyRuns EXCEPT ![p] = Min({@ + 1, EmptyChunkGuard})]
       /\ UNCHANGED pc
  ELSE /\ chunk' = [chunk EXCEPT ![p] = c]
       /\ pos' = [pos EXCEPT ![p] = n]
       /\ emptyRuns' = [emptyRuns EXCEPT ![p] = 0]
       /\ GotFrame(p)
       /\ UNCHANGED seq

\* The chunk GetChunk returned has a frame for the cursor, or is passed over.
\* Beyond the guard emptyRuns is not told apart, so it is capped there.
Obtain(p, c) ==
  LET n == SearchPos(c.frames, seq[p]) IN
  IF n > Len(c.frames)
  THEN /\ seq' = [seq EXCEPT ![p] = c.start + ChunkN]
       /\ pos' = [pos EXCEPT ![p] = 1]
       /\ chunk' = [chunk EXCEPT ![p] = NoChunk]
       /\ emptyRuns' = [emptyRuns EXCEPT ![p] = Min({@ + 1, EmptyChunkGuard})]
       /\ UNCHANGED pc
  ELSE /\ chunk' = [chunk EXCEPT ![p] = c]
       /\ pos' = [pos EXCEPT ![p] = n]
       /\ emptyRuns' = [emptyRuns EXCEPT ![p] = 0]
       /\ GotFrame(p)
       /\ UNCHANGED seq

NeedsChunk(p) == InGet(p) /\ ~AtEnd(p) /\ ~FramesLost(p) /\ Exhausted(p)

GetCached(p) ==
  /\ NeedsChunk(p) /\ cache[IndexOf(p)] # NoChunk
  /\ Obtain(p, cache[IndexOf(p)])
  /\ UNCHANGED <<storeVars, events, minSeq, maxSeq, paceVars, ctxDone, outcome, due>>

\* Another session may lead the load this one waits for.
MayJoin(p) == Peers # {} \/ Sessions # {p}

\* A session whose context has ended can only share another's load.
GetLoaded(p) ==
  /\ NeedsChunk(p) /\ cache[IndexOf(p)] = NoChunk
  /\ p \in ctxDone => MayJoin(p)
  /\ cache' = [cache EXCEPT ![IndexOf(p)] = Loaded(StartOf(p))]
  /\ Obtain(p, Loaded(StartOf(p)))
  /\ UNCHANGED <<table, snapshot, events, minSeq, maxSeq, paceVars, ctxDone, outcome, due>>

\* The store evicts the chunk before the reference is counted.  The frames are gone when
\* the session's own load did not fit the budget, or the load it joined was followed by
\* another; they go later when the count falls into another session's finalization.
GetEvicted(p) ==
  LET c == IF cache[IndexOf(p)] = NoChunk THEN Loaded(StartOf(p)) ELSE cache[IndexOf(p)] IN
  /\ Reclaims /\ NeedsChunk(p)
  /\ cache[IndexOf(p)] # NoChunk \/ p \in ctxDone => MayJoin(p)
  /\ \/ Obtain(p, Reclaimed(c))
     \/ MayJoin(p) /\ Obtain(p, Finalizing(c))
  /\ cache' = [cache EXCEPT ![IndexOf(p)] = NoChunk]
  /\ UNCHANGED <<table, snapshot, events, minSeq, maxSeq, paceVars, ctxDone, outcome, due>>

\* The load fails: a database error, its timeout, memory pressure, or a context that has ended,
\* this session's or that of the session that leads the shared load.
GetFails(p) ==
  /\ NeedsChunk(p) /\ cache[IndexOf(p)] = NoChunk
  /\ IF p \in ctxDone THEN UNCHANGED events ELSE HappensNow
  /\ GotNothing(p)
  /\ chunk' = [chunk EXCEPT ![p] = NoChunk]
  /\ late' = late \cup {p}
  /\ UNCHANGED <<storeVars, minSeq, maxSeq, seq, pos, emptyRuns, target, elapsed, ctxDone, due>>

-----------------------------------------------------------------------------
\* The steps the session's goroutine takes on its own.
RunStep(p) ==
  \/ StartRound(p) \/ CatchUp(p) \/ CurrentSlot(p) \/ SkipFrame(p)
  \/ WriteFrame(p) \/ WriteError(p) \/ Pace(p) \/ TimerFires(p) \/ SeeCancelled(p) \/ Panics(p)
  \/ GetPastEnd(p) \/ GetCurrent(p) \/ GetCached(p) \/ GetLoaded(p) \/ GetEvicted(p) \/ GetFails(p)

Environment ==
  \/ \E i \in Indexes : Evict(i)
  \/ \E q \in Peers : PeerConnects(q) \/ PeerLoads(q)
  \/ AppendRow \/ TrimFirst
  \/ \E p \in Sessions : CancelContext(p) \/ LoseFrames(p)

Next ==
  \/ Environment
  \/ \E p \in Sessions : Connect(p) \/ Tick(p) \/ RunStep(p)

Spec == Init /\ [][Next]_vars

\* The goroutine is scheduled, and time passes.
Fairness == \A p \in Sessions : WF_vars(RunStep(p)) /\ WF_vars(Tick(p))

FairSpec == Spec /\ Fairness

-----------------------------------------------------------------------------
(***************************************************************************)
(* Properties                                                              *)
(***************************************************************************)
Locations == {"idle", "top", "skip", "slot", "getSkip", "getSend", "skipFrame", "write",
              "pace", "asleep", "done"}

IsChunk(c) == c = NoChunk \/ c \in Chunks

\* Types, and the index a session asks for is one of the stream's chunks.
TypeOK ==
  /\ table \subseteq Seqs
  /\ \A i \in Indexes : IsChunk(cache[i])
  /\ snapshot \in [Peers -> [MinSeq : Seqs, MaxSeq : Seqs \cup {-1}]]
  /\ events \in 0..MaxEvents
  /\ pc \in [Sessions -> Locations]
  /\ \A p \in Sessions :
       /\ minSeq[p] \in Seqs /\ maxSeq[p] \in Seqs
       /\ seq[p] \in Nat /\ pos[p] \in Nat \ {0}
       /\ IsChunk(chunk[p])
       /\ InGet(p) /\ ~AtEnd(p) => IndexOf(p) \in Indexes
  /\ emptyRuns \in [Sessions -> 0..EmptyChunkGuard]
  /\ slots \in [Sessions -> Nat] /\ target \in [Sessions -> Nat]
  /\ elapsed \in [Sessions -> 0..MaxElapsed]
  /\ late \subseteq Sessions /\ ctxDone \subseteq Sessions
  /\ outcome \in [Sessions -> {"none", "eos", "error", "panic"}]
  /\ due \in [Sessions -> SUBSET Seqs]

\* The two cursors agree: the frame handed out is the first of the chunk that
\* is not behind seq, although pos and seq are advanced separately.  Only frames
\* that were taken away after they were found leave the position without one.
CursorInSync ==
  \A p \in Sessions : pc[p] \in {"skipFrame", "write"} =>
    /\ chunk[p] # NoChunk
    /\ FramesLost(p) \/ (pos[p] \in DOMAIN chunk[p].frames /\ pos[p] = SearchPos(chunk[p].frames, seq[p]))

\* All sessions began at the same frame: nothing was deleted at the front of the
\* stream between their snapshots.
SameStart(p) ==
  /\ \A q \in Sessions : pc[q] # "idle" => minSeq[q] = minSeq[p]
  /\ \A q \in Peers : snapshot[q] # NotConnected => snapshot[q].MinSeq = minSeq[p]

\* get hands out every frame: over a table that does not change, no playable
\* frame of the snapshot is behind the cursor without having been sent or skipped
\* for the schedule.  Over a table that grows the code breaks it.
NothingJumped == \A p \in Sessions : \A f \in due[p] : f >= seq[p]

\* A session that ends with "end of stream" has sent or skipped every frame, as
\* long as no load fails after a row of empty chunks.
EndComplete == \A p \in Sessions : outcome[p] = "eos" => due[p] = {}

Playing(p) == pc[p] \notin {"idle", "done"}

\* session.go on ChunkManager.seq: it moves strictly forward.  That holds while all
\* sessions began at the same frame, whatever was appended or deleted since and whatever
\* the store answers; a chunk cut by another first frame can send the cursor back.
SeqForward == [][\A p \in Sessions : Playing(p) /\ SameStart(p) => seq'[p] >= seq[p]]_vars

\* No frame is sent before its slot begins.
NeverAhead == \A p \in Sessions : pc[p] = "write" => slots[p] <= elapsed[p]

\* No frame is sent for a slot that had passed when the round began, unless a
\* load failed in that round: playback does not lag behind its clock.
OnTime == \A p \in Sessions : pc[p] = "write" /\ p \notin late => slots[p] >= target[p]

\* Every session ends as long as all began at the same frame: at the end of the data, by
\* the guard against empty chunks, with an error or its context, or in a panic.  A chunk
\* of an earlier snapshot can keep get calling itself.
SessionEnds == \A p \in Sessions : pc[p] = "top" ~> (pc[p] = "done" \/ ~SameStart(p))

\* What the viewer of a session sees of it.
StateOf(p) ==
  IF pc[p] = "idle" THEN "idle" ELSE IF pc[p] = "done" THEN outcome[p] ELSE "playing"

\* The frame that is on its way to it.
SendingOf(p) == IF pc[p] = "write" THEN chunk[p].frames[pos[p]] ELSE -1

Viewed == INSTANCE Playout WITH
  Frames    <- Seqs,
  Failures  <- MaxEvents > 0,
  Nothing   <- -1,
  recording <- table \ Oversize,
  left      <- due,
  sending   <- [p \in Sessions |-> SendingOf(p)],
  slot      <- slots,
  clock     <- elapsed,
  state     <- [p \in Sessions |-> StateOf(p)]

\* Over a table that does not change a session plays its recording: every frame once,
\* in ascending order, sent in a slot that has begun or skipped for one that is over.
ImplementsPlayout == Viewed!Spec

=============================================================================
