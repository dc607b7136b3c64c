# Verification of the MJPEG WebSocket stream server

TLA+ models of the server under `src/backend` and of the web page in
`src/frontend`, the TLC runs that check them and the TLAPS proofs about them.
Paths below are relative to `src/`; `store.go` is
`backend/internal/biz/session/store_pool/store.go`, `session.go` is
`backend/internal/biz/session/session.go`, `app.js` is
`frontend/public/app.js`.

The server plays recorded MJPEG streams. Frames lie in PostgreSQL; a client
opens a WebSocket, and the server sends one frame per 40 ms slot, skipping
frames rather than lagging. All sessions share one LRU cache of *chunks*
(`chunkN` consecutive frames) with reference counts and a memory budget. A
small REST API lists and edits streams, and a browser client shows them.

## Inventory

| Component | State | Operations | Made correct by |
|---|---|---|---|
| Chunk store (`store.go`) | `mu`, `lru`, `items`, `usedCapB`; per chunk `refs`, `evicted`, frames; the singleflight group | `GetChunk`, `ReleaseChunk`, `loadChunk`, `evictLocked`, `tryFinalizeChunkLocked` | map and list agree, one load per key, nothing freed while used, nothing leaked, exact accounting within the budget |
| Byte bucket pool (`bytepool.go`) | one `sync.Pool` per bucket size | `Get`, `Put`, `BucketSize` | a buffer has one owner; the budget is the memory |
| Chunk manager (`session.go`) | `chunk`, `pos`, `seq`, `emptyRuns` | `get`, `advance`, `release` | every frame handed out once, in order, none passed over |
| Stream session (`session.go`) | `slots`, `base`, the manager | `Run` | neither ahead of the clock nor behind it; ends, and says truly why |
| Metadata snapshot (`store.go`, `LoadStreamMeta`) | `MinSeq`, `MaxSeq`, `Count` | one query per connection | consistent with the chunks the session then gets |
| WebSocket handler (`ws_handler.go`) | connection, reader goroutine, request context | upgrade, `readerPump`, `Run`, close | the close tells the outcome; goroutines end |
| Stream CRUD (`service`, `biz`, `repo`, `data/repo`, generated handlers) | the `streams` rows, a transaction, a pooled connection | list, get, update | an answer agrees with the commit; nothing stays held; no standstill |
| Tracing wrappers (`wrapper`) | one span per layer | a span around each call | spans end, with the call's error |
| Browser client (`app.js`) | list, selection, label, dialog; `wsConnection` | refresh, select, edit, start, stop | the page edits what it shows; one socket at a time |
| Lifecycle (`cmd/streams`), servers, database client, health | servers, pool, signal, exit code | start, serve, stop, ready | a stop waits for whom it must, completes, and the exit code is true |
| Configuration, CORS, metrics dependency, migrations | a switch, a filter, a schema | | modelled as far as another part depends on them |
| Logger, interfaces, messages, validators, gRPC | none that matters at run time | | |

How they interact. The handler takes the snapshot, starts the reader goroutine
and calls `Run` in the request's goroutine. `Run` calls `get`, which calls
`GetChunk` and `ReleaseChunk`; these are the only shared state between
sessions. `GetChunk` runs database loads inside `singleflight.Do`, under the
request context of whichever session leads the load, and takes buffers from
the pool. The frames table has no writer in this repository: rows are inserted,
and may be deleted, by other programs while sessions play and chunks stay
cached. The REST path shares the connection pool and the database with playback.
The page is a client of both.

What is hard here: critical sections of `cs.mu` interleaved with atomic
counters that change outside it (the evictor's `refs` test against the
releaser's `evicted` test); buffers that go back to a pool while somebody writes
them to a socket; the result of a shared load used after the lock was dropped;
cached chunks met by sessions with other snapshots; two cursors moved separately
over gaps, oversize rows and failures; a schedule kept under arbitrary delays;
deadlines, close messages and broken connections racing at both ends of a socket;
a commit whose outcome is unknown; answers that arrive in the other order; a stop
while hijacked connections are still playing. The list with lines is under
`hazards` in `PROJECT.json`.

## Modules

| Module | Models |
|---|---|
| `ChunkStore` | the store, with singleflight, at the grain of its critical sections |
| `ChunkLife` | the abstract specification the store implements: the life of a chunk |
| `ByteBucketPool` | the byte pool, as operators and actions |
| `FrameBuffers` | `ChunkStore`, `ByteBucketPool` and writing sessions composed, buffer by buffer |
| `StreamPlayback` | snapshot, chunk manager and session loop, over what `GetChunk` can answer |
| `Playout` | the abstract specification playback implements: a recording, slot by slot |
| `WsConnection` | the page's player, the network, the handler and its reader pump |
| `StreamApi` | the REST path from the filter to the database and back |
| `StreamRegister` | the abstract specification the REST path implements: an atomic register of titles |
| `BrowserClient` | the page's list and edit dialog, composed with `StreamApi` |
| `AppLifecycle` | the process: start, servers, pool, clients, signals, exit, restart |
| `MCChunkStore`, `MCFrameBuffers`, `MCStreamPlayback`, `MCWsConnection`, `MCBrowserClient`, `MCAppLifecycle` | TLC instances |
| `ChunkStoreProofs` | the store's inductive invariant, its sums and theorems |
| `ChunkLifeProofs` | the proof that the store implements `ChunkLife` |
| `WsConnectionProofs` | which socket is the page's current one |
| `FrameBuffersProofs` | the owners of buffers, and what a session writes |
| `StreamPlaybackProofs` | the search in a chunk, the cursor, the schedule, the end, and that playback implements `Playout` |
| `WsStreamProofs` | what is under way on a connection, how much, and what "end of stream" means |
| `BrowserClientProofs` | the server's and the page's inductive invariant, and that the server implements `StreamRegister` |
| `AppLifecycleProofs` | the process's inductive invariant and theorems |

### ChunkStore and ChunkLife

Clients are session goroutines. One action is one critical section of `cs.mu`,
one critical section of the singleflight group, or one atomic operation:

| Code | Actions |
|---|---|
| first lookup (store.go:190-199) | `LookupHit`, `LookupMiss` |
| `singleflight.Do` | `Join`, `Lead`, `Served`, `Publish` |
| double-check and guard (203-219) | `RecheckHit`, `RecheckMiss`, `PressureGuard` |
| `loadChunk` (124-179) | `LoadChunk`, `LoadFail` |
| insertion and eviction (227-256, 280-296) | `Insert`, `EvictTail`, `FinalizeVictim`, `FinishInsert` |
| `tryFinalizeChunkLocked` (299-324) | `TryFinalize`, used by `FinalizeVictim` and `Reclaim` |
| the reference after the load (257-264) | `GetError`, `TakeRef` |
| `ReleaseChunk` (266-276) | `DropRef`, `CheckEvicted`, `Reclaim` |

The eviction loop is one action per victim although it holds `cs.mu`, because
releasers change `refs` without that mutex. `mu` names the holder over those
steps. Abstracted: the frames of a chunk are one unit of memory `BytesCap[k]`
that depends on its key; `usedLenB` moves with `usedCapB` and is left out; a
chunk address is reused only when nothing points at it, as the garbage
collector does. Clients may ask for any key at any time and hold a chunk for
any time, which includes everything a session does.

`ChunkLife` says what all this is for without lists, maps, locks or counters: a
chunk is loaded for a key that nobody else loads or caches, cached, evicted,
and freed once, never while pinned. The refinement mapping reads a chunk's life
off `freed`, `evicted` and the list, and takes as pins the references counted
with the mutex held. References counted without it are no pins: that the code
promises more for them than it keeps is a finding.

### ByteBucketPool and FrameBuffers

`FrameBuffers` conjoins the store's steps with what they do to buffers.
`loadChunk` takes one buffer per row (`FillFrame`), skips rows above
`MaxFrameBytes`, and gives all back when it fails (`FillFails`). The decision
to finalize is `ChunkStore`'s step; the buffers then go back one by one
(`ReturnBuffer`) with the mutex held, which is why other lock steps wait
(`Unlocked`) but a reference can be counted in between. A session takes a slice
header (`TakeFrame`) and writes from the chunk's own memory until `FrameWritten`.
`torn` is history: another frame was copied into a buffer that is being written.
A session may find the frames of its chunk gone where its position is still within the
length it knew; the index then panics (`Panics`), and the deferred release gives the
chunk back.
A `sync.Pool` may lose a buffer or make a new one at any time.

### StreamPlayback

`pc` walks through `Run` and `get`; each turn of a loop and each recursive call
of `get` is a step of its own. The store is what `GetChunk` can answer:
`GetCached`, `GetLoaded`, `GetFails`, and `GetEvicted`. The last is a reference counted
outside `cs.mu` (store.go:262) for a chunk that was evicted before: its frames are gone
already, or the evictor has read `refs` as 0 and takes them while the session has the
chunk (`finalizing`, `LoseFrames`). Then `session.go` indexes a nil slice in lines 36, 61
or 69 and the session panics (`Panics`). The evictor holds `cs.mu` until it is done; the
model does not make other sessions wait for that, so it allows a little more than the code.

Chunks are cached by index, and the index and the start of a load come from the session's
own snapshot (`WantSeq`, `IndexOf`, `StartOf`; store.go:184-187, 221). `Peers` are other
sessions of which only that matters: they take a snapshot (`PeerConnects`) and have their
chunks loaded (`PeerLoads`), so that a session meets chunks that were cut by another first
or last frame. A load takes `ChunkN` rows and drops the oversize ones after the limit, as
the query and its loop do. `AppendRow` and `TrimFirst` are external writes, allowed run by
run. Time is counted in slots, and each session has its own clock, so any delay of a load,
a write or the scheduler is some number of ticks; ticks happen only where the code reads
its clock, as they commute with all other steps. `due` (frames of the snapshot neither sent
nor skipped) and `late` (a `get` failed in this round) are history. `emptyRuns` is capped at
`EmptyChunkGuard`: the code only compares it with that.

`Playout` is what a viewer gets, without snapshots, indexes, chunks or cursors: the
frames of a recording in ascending order, each once, one per slot. A frame is sent in
a slot that has begun, or skipped for a slot that is over; a slot passes without a
frame, and the stream ends, only when none is left or reading may fail. The refinement
mapping is small: `due` is what is left, `slots` and `elapsed` are the slot and the
clock, and the frame at the cursor is on its way while the session is in its write.

### WsConnection

Each socket has a browser side (`ws`), a handler goroutine (`handler`), a reader
goroutine (`reader`) and two FIFO directions (`down`, `up`), the first bounded by
`Window`: a client that stops reading fills it and the next write waits for its
deadline (`Full`, `WriteFails`). The page's actions are the functions of `app.js`:
`StartWebSocket`, `StopStreaming`, `cleanupWs` and the events, which reach the page
only through handlers that are still attached. At the server: refusals before the
upgrade, `Run`'s writes with their ends, the two ways of closing with the message written
or not, and the reader's (`ReadClose`, `ReadFails`, `ReadDeadline`). `Run` returns nil at
the end of the data, and also short of the last frame: after skips, and when chunks were
empty in a row (`EndOfData`, `EndsShort`; session.go:123-125, 138-140, 162-164). It returns
an error when a write fails or the context is done (`RunFails`); `err` says which, and the
handler closes accordingly. Closing with unread data
resets the connection, and then what the client has not read is lost. `wanted` is
history: the last started socket that no stop followed.

### StreamApi and BrowserClient

A request is one goroutine. `Handle` goes from the filter through the generated
handler, the three wrappers and the conversions to the first access to shared
state; then one action per access (a connection of the pool, the query, the
UPDATE with its row lock, the commit); `Return` goes all the way out. There is an
operator per layer. A failed commit may have taken place or not, and a broken
connection leaves the row locked until the database notices (`Orphan`). A failing
access is a database error, a cancelled request or the request timeout. Playback
shares the pool (`LoadBegins`, `LoadEnds`).

`BrowserClient` adds the page: one action per event handler or continuation after
an `await`, answers in any order, lost answers, and the request slots of other
clients. The dialog is modal. A row is its title, a submission number: the other
two columns are written and read together with it.

`StreamRegister` says what the API promises: every stream has one title; a list, a get
or an update takes effect at one moment between its call and its answer; one that failed
did so or not, and its client is told a failure. The mapping (`RequestOf`) reads a
request's state off its call: it is over once the call leaves the database, with what
the conversions on the way out will make of the result.

### AppLifecycle

`main` walks through `main`, `initApp` and the framework's run; `http`, `metrics`,
`pool` are the parts. Start steps may fail: with an error, which is fatal, or, when a
meter's instrument fails, with a nil HTTP server whose routes panic (`RoutesOnNil`,
http.go:34-42). Servers may fail while serving; the failure of the metrics server is only
logged. A signal comes at any time, before the run subscribed to it too. A session whose
load fails stays a session and tries again in its next slot. `StoppedHTTP` waits
for handlers and not for hijacked sessions; `PoolCloses` waits for connections in
use. A container restarts the process.

## Runs

| Run | Instance | Question and result |
|---|---|---|
| `store_contention` | three clients, two keys, a budget of one chunk | every safety property of the store and the refinement of `ChunkLife` hold |
| `store_liveness` | two clients, two keys, fairness | every `GetChunk` returns, evicted memory is returned |
| `store_buffers` | two clients, two keys whose frames fall in two buckets, one empty and one anomalous | no buffer has two owners, the budget is the memory, a session that hit the cache writes its own frames |
| `playback_vod` | two sessions on one cache, all 64 tables of six sequences, any delays | the refinement of `Playout` holds: every frame in order, complete |
| `playback_busy` | a session and a peer with a snapshot of its own, over a table of four sequences and one event: a failing load, a cancelled context, an appended or a deleted row; evicted and emptied chunks, fairness | cursor and schedule hold; with one first frame the cursor never moves back and the session ends |
| `connection` | two sockets, two frames, one message in flight, streams that end short, one vanished client, fairness | one live socket, a normal end means what it says, goroutines end |
| `editing` | two request slots, two streams, a pool of two shared with a load, two submissions, one fault | the server refines `StreamRegister`; answers are true, nothing stays held or stands still, the page edits what it shows |
| `lifecycle` | three clients on a pool of two, one outage, one failure, two starts, fairness | the stop waits for whom it must and completes, the exit is true |
| `store_self_evict`, `store_foreign_frame`, `playback_append`, `connection_timeout` | | violations, see Findings |

What the properties say:

* Store. `CacheIndex`: map and list hold the same chunks, each once, none evicted
  or freed. `SoleLoader`: one load per key, and the key stays uncached from the
  double-check to the insertion. `OwnKey`: a caller, waiter or not, gets a chunk
  of the key it asked for. `ExcessIsNewChunk`: whether `cs.mu` is held or not, the budget is
  exceeded by the chunk being inserted at most, however many loads passed the guard
  together, and no insertion is undone. `BudgetHeld`, that the budget holds when `cs.mu` is
  free, is implied, and a theorem too. `AccountingExact`: `usedCapB` is the size of the
  inserted, unfreed chunks. `HitProtects`: a reference taken with the lock held
  protects the chunk. `NoLeak`: an evicted, unfreed chunk has a holder or somebody
  about to finalize it. `GetReturns`, `EvictedIsFreed`: the liveness sides of the
  last two. `ImplementsChunkLife`: see above.
* Buffers. `OneOwner`: a buffer lies in one pool, one chunk or one load, once.
  `BudgetIsMemory`: `usedCapB` is the capacity of the buffers held. `HitPlaysOwn`:
  a session with a pin never writes bytes of another frame, nor finds the slice gone.
* Playback. `CursorInSync`: `pos` and `seq` agree whenever a frame is handed out, unless
  its chunk lost its frames since. `SeqForward`: the cursor never goes back, among sessions
  that began at one frame. `ImplementsPlayout`: each frame is sent or
  skipped once, the first that is left, and skipped only for a slot that is over; the end
  is told when nothing is left. A playable frame left behind the cursor (`NothingJumped`), or
  "end of stream" said too early (`EndComplete`), breaks it as soon as a later frame is sent
  or the end is told.
  `NeverAhead`, `OnTime`: no frame before its slot, none for a slot that had passed
  when its round began unless a load failed in it. `SessionEnds`: every session ends, in
  whatever way, among sessions that began at one frame.
* Connection. `OneLive`: at most one socket is connecting or open. `WantedKept`: no
  late event of an earlier socket drops the current one. `NormalMeansEnd`: "end of
  stream" is read only from a handler whose `Run` failed nothing, and the current socket
  has by then received every frame that was written. That every frame of the stream was
  written is not part of it: `Run` disclaims that (session.go:115).
  `GoroutinesEnd`: handler and reader end whatever the client does.
* Editing. `AnswerTrue`: what an update is told is what was committed. `NothingHeld`:
  an answered request holds neither connection nor row. `SpansTrue`: spans end, with
  the error. `NoStandstill`: while requests are under way one has the connection or
  the row it needs, or will when the database or a load is done (`Unblocked`), and a
  request that has them can go on (`ReadyServes`). `ImplementsRegister`: see above.
  `SelectionShown`, `EditsSelected`: list, label and
  dialog are about the selected stream. `RefetchSeesUpdate`: the list fetched after
  an accepted update shows it or a later one.
* Lifecycle. `PoolOutlivesRequests`: the pool is closed only after the last handler
  the server waits for. `ExitTold`: a successful exit was asked for
  and serving HTTP never failed; a failing exit after a requested stop means that it did.
  A failed metrics server shows in neither.
  `StopCompletes`: after the signal or a failure the process ends.

### Bounds

* Store: two clients suffice for every pair of racing roles (evictor, releaser,
  leader, waiter); the third inserts in between or waits for another key. `LimitB` of
  one or two chunks makes each insertion evict, held chunks included. There is an
  address for every pointer that can exist, so allocation never blocks; that fixes
  `Chunks` at clients plus keys, one less in the two-client runs, where it suffices.
* Buffers: one chunk has one frame, the other an anomalous one, one of another bucket
  and an empty one; the budget holds one of the chunks. A chunk or load has at most
  one buffer here, so `MaxBuffers` covers a load or a write of each client and the
  chunks that are alive.
* Playback: `LastSeq` gives three chunks of two (`playback_vod`) and two of two
  (`playback_busy`), with every subset of rows as the initial table, so each gap,
  each short last chunk and, with the oversize pair, an empty chunk in the middle
  occurs. `MaxElapsed` is the number of slots a session can use, so the bound never
  holds a sleeping session back. `MaxEvents` bounds failing loads, cancellations and
  external writes together: one deleted first row gives a session and its peer two
  snapshots with different starts, one appended row two with different ends. After a
  cancellation the failures of that session are not bounded. One peer is enough for chunks
  cut by another snapshot, as a chunk has one. In `playback_vod` the sessions are two, both
  in full, and nothing is written.
* Connection: two sockets are a current one and one being replaced; a third would
  meet the first only after that is closed. A window of one makes every write wait;
  two frames are a first and a last.
* Editing: two slots are two updates that meet on a row, or an update and the page's
  fetch; with the load the pool of two is exhausted. One fault can be any failing
  access or lost answer.
* Lifecycle: three clients are more than the pool has connections; two starts give a
  restart after every end.
* Symmetry is used in safety runs only (addresses and clients; request slots; streams).
* The playback, connection and lifecycle runs do not check deadlock: a session that
  was refused or has ended, sockets used up, and a process that ended for the last
  time leave the model nothing to do, where the server would wait for the next
  client. The store, buffer and editing runs check it.

### Fairness

Store: weak fairness for the steps of a running goroutine, as Go schedules all
of them; strong fairness for steps that begin by locking `cs.mu`, since
`sync.Mutex` hands the lock to a waiter that starved for a millisecond. Loads
end by `LoadChunkTimeout`. `DropRef` is fair because `Run` defers `release` and
a session ends. Playback: weak fairness for the session's goroutine (writes end
by their two-second deadline, loads by their timeout) and for time. Connection:
weak fairness for handler, reader and browser of each socket; the write deadline
is what makes a waiting write a step. No timeout has to strike and nobody has to
press a button. Lifecycle: weak fairness for the stop goroutines and for requests,
which the request timeout ends, sessions included, as it is the deadline of their
context. No fairness for faults, for the environment, nor for connecting.

## Proofs

TLAPS proves the theorems below for every value of the constants. They rest on the
assumptions named in the modules, which TLC evaluates in the runs:

* `ChunkStore`: sizes and budget are natural numbers, the clients are finitely many,
  and `NoClient`, `NoKey`, `NoChunk` are outside their sets;
* `ByteBucketPool`, `FrameBuffers`: bucket sizes are finitely many positive numbers;
  frames have lengths; a chunk is not a client, as both own slices
  (`DistinctAssumption`); `BytesCap` of a key is what its frames take out of the pool
  (`TotalCapAssumption`), as `loadChunk` adds up the capacities it gets;
* `StreamPlayback`: chunks have at least one row, and no chunk is `NoChunk`;
* `WsConnection`: sockets are numbered from 1, there are frames and a window, and
  `NoSocket` is no number;
* `StreamApi`, `BrowserClient`: the pool has a connection, the names that stand for
  something else are no requests and no streams, and `Nothing` is not a shown stream
  (`NothingAssumption`);
* `AppLifecycle`: the pool has a connection, and the process starts at least once.

| Module | Theorems | State |
|---|---|---|
| `ChunkStoreProofs` | `TypeCorrect`, `CacheIndexCorrect`, `SoleLoaderCorrect`, `OwnKeyCorrect`, `BudgetCorrect`, `AccountingCorrect`, `HitProtectsCorrect`, `NoLeakCorrect`, `ExcessCorrect` | the store's invariants |
| `ChunkLifeProofs` | `ChunkLifeImplemented` | every behaviour of the store is one of `ChunkLife` |
| `FrameBuffersProofs` | `FramesImplementStore` | every behaviour of the composition is one of the store |
| | `OneOwnerCorrect`, `HitPlaysOwnCorrect`, `BudgetIsMemoryCorrect` | the buffers' invariants |
| `StreamPlaybackProofs` | `TypeCorrect`, `CursorInSyncCorrect`, `NeverAheadCorrect`, `OnTimeCorrect` | the cursor and the schedule, whatever the table and the store do |
| | `SeqForwardCorrect`, `NothingJumpedCorrect`, `EndCompleteCorrect` | completeness and order, under the conditions below |
| | `PlayoutImplemented` | every behaviour of playback is one of `Playout` |
| `WsConnectionProofs` | `OneLiveCorrect`, `WantedKeptCorrect` | the page's sockets |
| `WsStreamProofs` | `NormalMeansEndCorrect`, `TypeCorrect` | the stream on a connection |
| `BrowserClientProofs` | `AnswerTrueCorrect`, `NothingHeldCorrect`, `SpansTrueCorrect` | the server |
| | `SelectionShownCorrect`, `EditsSelectedCorrect`, `RefetchSeesUpdateCorrect`, `TypeCorrect` | the page, over the server |
| | `RegisterImplemented` | every behaviour of page and server is one of `StreamRegister` |
| | `NoCircularWait` | what requests wait for |
| `AppLifecycleProofs` | `LifecycleTypes`, `PoolOutlives`, `ExitIsTold` | the process's invariants |

**The store.** The properties are not inductive: that the list and the map agree
after an eviction depends on which chunk the evictor's local variable points at,
and that on who holds the lock. `IInv` adds what every goroutine knows at its
place in the code:

* `RefsCounted`: `refs` is the number of goroutines between taking a reference and
  dropping it;
* `LockHeld`: `mu` is held exactly by the goroutines in the middle of an insertion;
* `CallLed`: whoever is in a load is the leader of the flight of its key;
* `PointersSet`, `VictimSet`: which locals are set where, the victim being evicted
  and in no list;
* `NewChunkPrivate`, `NewChunkFresh`: before its insertion a chunk is known to its
  loader alone;
* `BudgetMargin`: during an insertion the excess over the budget is at most the new
  chunk.

There is one lemma per part, with one step per action. `NoLeak` is the deepest: a
release that sees `evicted` unset and an evictor that sees `refs` set cannot both
leave the chunk to the other, since the evictor sets `evicted` before it reads
`refs` and the releaser drops `refs` before it reads `evicted`.

`AccountingExact` is about a sum over a set of chunks. `SumUnfolds`, `SumTakesOut`,
`SumCongruent` and `SumType` say what a sum is when an element is taken out, when two
functions agree on the set, and that it is a number. They are proved by the least
counterexample in the sizes of the sets, since an induction rule with an operator
as its parameter cannot be cited. The invariant then adds that finitely many chunks
are not freed (`LoadedFinite`). The guard in `tryFinalizeChunkLocked` that clamps the
counter to zero is never needed, because a chunk's own size is part of the sum.

**The refinement.** `StepMapped` maps each action to a step of `ChunkLife` or to a
stutter. Loading needs that the address is free (`UnreachableIsFree`) and that nobody
else loads or caches the key (`KeyIsUnused`, from `SoleLoader`); freeing needs that no
pin is left, which is `HitProtects` with `RefsCounted`.

**The buffers.** `FramesImplementStore` carries the store's invariants over. `FInv`
adds who has which buffers: a load those of the rows it has read (`FillingMatches`), a
chunk that is not finalized all those of its key (`FramesMatch`), a goroutine that
returns buffers only those of a finalized chunk (`ReturningFreed`), and a session with
a hit writes from a frame of its own chunk (`WritingOwn`). `HitPlaysOwn` then follows
from `HitProtects`: the chunk is not finalized, so no buffer of it can come out of the
pool. `BudgetIsMemory` is `AccountingExact` with `FramesMatch`, term by term.

**Playback.** `PInv` says that the cached chunks are sorted (`StoreShape`), what a
session knows at each place of its loop (`SessionShape`), that `pos` is where the search
for the cursor puts it as long as the chunk at hand has its frames (`ChunkKept`), and how
slots, target and clock are ordered (`Paced`). `SearchSplits` shows what `sort.Search`
returns: everything before it is behind the cursor, nothing from it on.

`SeqForwardCorrect` has no hypothesis about the table or the store. `Counted` says that
every cached chunk is counted from the first frame of some snapshot (`Origin`); while the
snapshots agree (`SameStart`, part of the property), the chunk that the store answers with
starts where the session's own arithmetic puts it (`AnswerStart`), so the jump over it
leads to the first sequence number behind it.

Two theorems have hypotheses, and each is needed:

* `NothingJumpedCorrect` excludes all writes to the table (the run `playback_append`
  violates it with appended rows) and chunks evicted before their reference is counted,
  which may be passed over as if they were empty. Then all snapshots are those of the table
  (`Anchored`), no session loses its frames (`FramesStay`), and `Covered` says that a cached chunk is what the
  table has there. Its core is `RowsConvex`: a chunk is a run of rows without one left
  out, so that the jump to the next index skips only numbers that no row has or that
  the chunk itself had.
* `EndCompleteCorrect` excludes failures too (`MaxEvents` = 0): a load that fails while `emptyRuns` is at
  its guard ends the session as if the data had ended. Without failures the guard ends
  no session early, however many chunks in a row are empty.

`PlayoutImplemented` has the hypotheses of `NothingJumpedCorrect` and allows failures.
`Covered` says that what is due is at or behind the cursor; `Remaining` adds the
converse, that every playable row at or behind the cursor is due. Together they make the
frame at the cursor the first one left (`AtHand`), so that nothing is sent twice or
out of order. `ViewOfOne` says that a step of one session moves the view of that session
alone; the lemmas `Seen...` map each kind of step, in terms of the variables it changes, to
its action of `Playout`, and `Unseen` the steps inside `get` to a stutter. The mapping
of a frame that has just been found needs `AtHand` in the next state, where the chunk
and the position are those that the search returned.

**The connection.** `PageInv` says that the attached handlers are those of the current
socket and that no other socket is live; `OneLive` and `WantedKept` follow.
`StreamInv` says what is under way: before the handler answers, nothing
(`PendingQuiet`); the handshake is first (`HandshakeFirst`, `ConnectingFirst`); while
the session writes, frames sent are frames received and under way (`FramesCounted`);
"end of stream" is written last and once, by a handler that is done and whose `Run` has
failed nothing (`EndedWell`, `EndInPlace`), and never beside an echo (`EchoAlone`); and a browser that heard of the
close hears of no other (`ClosingHeard`). `FramesCounted` speaks only of live sockets
whose close message was not answered: a closing browser drops frames, and an answered
close stops the session. `NormalMeansEnd` is what remains when the browser reads the
message: the place it stood at is one more than the frames received. `RoomInv` bounds
the rest: the n-th frame under way is at most the n-th of those written and not
received (`Accounted`), and only the close goes beyond the window (`WithinWindow`),
which it does once because a handler closes a connection that is still open (`OpenYet`).

**The server and the page.** `ApiInv` says what a call carries at each place
(`Served`, `Result`), which spans it has open (`SpansOf`), that a connection or a row is
held only by a call that is in the database (`Held`), and that an update which returns
without error is in the history of its stream (`Committed`). `PageInv` ties a request
slot to what the page sent it for (`Purpose`), the dialog to the selection (`FormKept`),
and a refetch to the accepted update it follows (`Refetch`): the title it returns is at
or behind that update in the history, from the moment the query read it. `RefetchSeesUpdate`
follows because a history only grows, whoever else updates.

`RegisterImplemented` goes through the steps of the server and shows for each what its
request tells before and after (`Tells`). A query, a commit and a statement without a row
are the moments of effect; the way in and out is a stutter, since `Result` says that the
conversions return what the query read. A failed commit is the abstract `Fail`, with the
title stored or not. The page's own steps change no request but by calling and by
receiving an answer, in whatever order.

`NoCircularWait` proves `Unblocked`: who waits for a row has its connection, who waits for
a connection has no row, and who has a row is at its commit and waits for nothing (`Held`,
which here needs to be an equivalence: a connection is held by those in the database and
by no others). `ReadyServes`, the other half of `NoStandstill`, says that the action of such a
request is enabled. The provers cannot look into `ENABLED`, so that half and with it the
property are model-checked only.

**The process.** `IInv` adds where `main` is when a server or the pool is in a given
state (`ServerInRun`, `PoolOpen`), that a handler in progress keeps the server from
being stopped (`HandlerServed`), that before the run nobody has asked for its end and
nothing has failed in it (`NotYetRun`), and what earns a cleanup (`CleanupEarned`).

Each inductive invariant was model-checked before it was proved. The safety properties of
the passing runs are theorems, action properties and refinements included, but for
`NoStandstill`, of which `Unblocked` is proved and `ReadyServes` left to TLC. The liveness
properties (`GetReturns`, `EvictedIsFreed`, `SessionEnds`, `GoroutinesEnd`,
`StopCompletes`), which need fairness, are model-checked only. Nothing is
claimed of `NothingJumped`, `EndComplete` and `ImplementsPlayout` on what their
theorems exclude: there they can be false, as Findings says.

## Findings

* `store_self_evict`, `NotFreedWhileReferenced` (store.go:281). The loop that makes room
  may take the chunk just inserted, whose `refs` is still 0, and free it; `GetChunk`
  then returns a chunk without frames and without an error. It takes a budget below the
  new chunk and the chunks in use: those are evicted, but stay in `usedCapB`. The
  session reads the missing frames as a gap and passes over them.
* `store_foreign_frame`, `PlaysOwn` (store.go:262). The reference of a loaded chunk is
  taken without the lock. The evictor may have read `refs` before, and puts the buffers
  back while the session writes one of them to its socket; another load then fills it.
  The client sees a torn frame. When the evictor gets to the end first, `Frames` is nil and
  the session panics in line 36, 61 or 69; `FrameBuffers` and `StreamPlayback` have both as
  `Panics`. `HitPlaysOwn` shows that sessions whose lookup hit the
  cache are safe.
* `playback_append`, `NothingJumped` (session.go:50). A partly filled last chunk stays
  cached under its index. A session that connects after more rows were inserted finds
  the short chunk, and passes over rows that its own snapshot counts.
* `connection_timeout`, `HealthyNotCut` (session.go:173). The request timeout of the HTTP
  server is the deadline of the context the session waits on: a healthy stream that
  lasts longer is cut, without a close message.

Seen while modelling, and described here without a run of their own:

* Rows deleted at the front of a stream shift the indexes of later snapshots against the
  cached chunks. session.go:22 says of `seq` "двигается строго вперёд" (it moves strictly
  forward), but a chunk that was cached for an earlier snapshot starts further in front, and
  the jump over it (session.go:50) may lead back. With chunks of two and {0, 1}, {2, 3} cached
  as indexes 0 and 1 for a session whose first row was 0, a session whose first row is 3 asks
  for index 0 at `seq` 3: no frame reaches 3 and `seq` becomes 2. The clamp of
  store.go:184-186 makes that index 0 again, and `get` calls itself with the same chunk until
  another session's load evicts it or the goroutine's stack is exhausted, which ends the
  process. If index 0 was evicted before and is loaded as {3, 4}, the session plays both, asks
  for index 1 at `seq` 5, is given {2, 3}, goes back to 4 and sends frame 4 once more.
  `SameStart` keeps these cases out of `SeqForward` and `SessionEnds`; the other
  properties of `playback_busy` are checked, and the theorems proved, with them.
* A load that fails behind three empty chunks in a row ends a session as "end of stream",
  where it would otherwise be tried again in the next slot; the playback instances have
  fewer empty chunks. Without a failing load such a row is passed over.
* With the metrics switched off `metrics.go` returns a nil server (line 25), whose methods
  guard against it (lines 50 and 64), and which is still handed to the framework: as an
  interface it is nil, and its `Start` panics before the guards (`StartNothing`). In the same
  way `http.go` drops the error of a meter's instrument and returns a nil server, to which
  the routes are then added (lines 34-42, 22; `RoutesOnNil`).
* A session whose chunk was emptied panics in its handler's goroutine. The deferred calls
  release the chunk and close the connection without a close message, and the HTTP server
  recovers the panic; `WsConnection` has it as a write that fails.
* Two edits of one stream: the later one wins and the earlier is lost without a word. A
  blank interval is written as 0 (app.js:197).
* Two list requests of the page may be answered in the other order, and the older list
  stays on the screen.

## Not modelled

* Validators, protocol buffers, gRPC stubs and the generated HTTP clients: generated code
  without state; no gRPC server is registered and nothing calls the clients. They are more than
  half of the backend's lines.
* Logger, interfaces, the wire-generated injector's plumbing, recovery and tracing
  middleware: no state that another part reads. The order in which the injector builds
  and cleans up is in `AppLifecycle`.
* Decoding and drawing of images, layout of the page.
* The migration tool: the schema is an assumption of `StreamPlayback` and `StreamApi`
  (`sequence` is unique in a stream).

## Plan

Done, in this order: the store; playback; buffers; the connection; the REST path with the
page; the process; then the proofs of the store, of its refinement, of the connection, of
the process, of the store's sums, of the buffers, of playback, and of the REST path with
the page; then the abstract specifications of playback and of the REST path, with the proofs
that they are implemented. Left, by what it would add:

1. The cursor under a table that is trimmed, for sessions with different first rows: which
   frames are sent twice or passed over, and when `get` ends.
2. An abstract specification of what the page shows of a stream, from `WsConnection` and
   `Playout` together: the frames that arrive are a prefix of those sent.
