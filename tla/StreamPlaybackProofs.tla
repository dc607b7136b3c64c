------------------------ MODULE StreamPlaybackProofs ------------------------
(***************************************************************************)
(* Proofs about StreamPlayback, for any sessions, table, chunk size,       *)
(* failures and clocks.                                                    *)
(***************************************************************************)
EXTENDS StreamPlayback, SequenceTheorems, FiniteSetTheorems, TLAPS

(***************************************************************************)
(* Sorted frames and the search in them                                    *)
(***************************************************************************)
\* A set of numbers has a least element.
LEMMA LeastNat ==
  ASSUME NEW T, T \subseteq Nat, T # {}
  PROVE  \E n \in T : \A m \in T : n <= m
<1> DEFINE R == {pair \in Nat \X Nat : pair[1] < pair[2]}
<1>1. IsWellFoundedOn(R, Nat)
  BY NatLessThanWellFounded DEF OpToRel
<1>2. \A m, n \in Nat : m < n => <<m, n>> \in R
  OBVIOUS
<1> HIDE DEF R
<1>3. PICK n \in T : \A m \in T : <<m, n>> \notin R
  BY <1>1, WFMin
<1>4. ASSUME NEW m \in T PROVE n <= m
  <2>1. m \in Nat /\ n \in Nat /\ <<m, n>> \notin R
    BY <1>3
  <2>2. ~(m < n)
    BY <1>2, <2>1
  <2>3. QED
    BY <2>1, <2>2
<1>5. QED
  BY <1>4

LEMMA SeqsFinite ==
  /\ IsFiniteSet(Seqs)
  /\ \A x \in Seqs : x \in Nat /\ x <= LastSeq
  BY SeqAssumption, FS_Interval DEF Seqs

\* A finite set of numbers that is not empty has a greatest one.
LEMMA GreatestNat ==
  ASSUME NEW T, T \subseteq Seqs, T # {}
  PROVE  \E n \in T : \A m \in T : m <= n
<1> DEFINE Gaps == {LastSeq - m : m \in T}
<1>1. Gaps \subseteq Nat /\ Gaps # {}
  BY SeqAssumption, SeqsFinite
<1> HIDE DEF Gaps
<1>2. PICK g \in Gaps : \A h \in Gaps : g <= h
  BY <1>1, LeastNat
<1>3. PICK n \in T : g = LastSeq - n
  BY DEF Gaps
<1>4. ASSUME NEW m \in T PROVE m <= n
  <2>1. LastSeq - m \in Gaps
    BY DEF Gaps
  <2>2. LastSeq - n <= LastSeq - m
    BY <1>2, <1>3, <2>1
  <2>3. m \in Nat /\ n \in Nat
    BY SeqsFinite
  <2>4. QED
    BY <2>2, <2>3, SeqAssumption
<1>5. QED
  BY <1>4

Ascending(s) == \A i, j \in DOMAIN s : i < j => s[i] < s[j]

\* A set of positions that has all those before any of its own is a prefix.
LEMMA PrefixSet ==
  ASSUME NEW L \in Nat, NEW D, D \subseteq 1..L,
         \A j \in D : \A i \in 1..L : i < j => i \in D
  PROVE  Cardinality(D) \in 0..L /\ D = 1..Cardinality(D)
<1> DEFINE T == {n \in 1..(L + 1) : n \notin D}
<1>1. T \subseteq Nat /\ L + 1 \in T
  OBVIOUS
<1>2. \E m \in T : \A n \in T : m <= n
  <2> HIDE DEF T
  <2>1. QED
    BY <1>1, LeastNat
<1>3. PICK m \in T : \A n \in T : m <= n
  BY <1>2
<1>4. m \in 1..(L + 1) /\ m \notin D
  OBVIOUS
<1>5. \A i \in 1..L : i < m => i \in D
  BY <1>3, <1>4
<1>6. \A i \in D : i < m
  BY <1>4
<1> HIDE DEF T
<1>7. D = 1..(m - 1)
  <2>1. \A i \in 1..L : i \in D <=> i < m
    BY <1>5, <1>6
  <2>2. \A i \in 1..(m - 1) : i \in 1..L /\ i < m
    BY <1>4
  <2>3. \A i \in 1..L : i < m => i \in 1..(m - 1)
    BY <1>4
  <2>4. QED
    BY <2>1, <2>2, <2>3
<1>8. Cardinality(1..(m - 1)) = m - 1
  BY <1>4, FS_Interval
<1>9. QED
  BY <1>4, <1>7, <1>8

LEMMA FramesFacts ==
  ASSUME NEW s \in Seq(Seqs)
  PROVE  /\ Len(s) \in Nat /\ DOMAIN s = 1..Len(s)
         /\ \A i \in 1..Len(s) : s[i] \in Seqs /\ s[i] \in Nat
<1>1. Len(s) \in Nat /\ DOMAIN s = 1..Len(s) /\ s \in [1..Len(s) -> Seqs]
  BY LenProperties
<1>2. QED
  BY <1>1, SeqsFinite

\* The frames before the position found, and only those, are behind the cursor.
LEMMA SearchSplits ==
  ASSUME NEW s \in Seq(Seqs), Ascending(s), NEW n \in Int
  PROVE  /\ SearchPos(s, n) \in 1..(Len(s) + 1)
         /\ \A i \in 1..Len(s) : s[i] < n <=> i < SearchPos(s, n)
<1> DEFINE D == {i \in DOMAIN s : s[i] < n}
<1>1. Len(s) \in Nat /\ DOMAIN s = 1..Len(s) /\ \A i \in 1..Len(s) : s[i] \in Nat
  BY FramesFacts
<1>2. D \subseteq 1..Len(s) /\ \A j \in D : \A i \in 1..Len(s) : i < j => i \in D
  BY <1>1 DEF Ascending
<1>3. SearchPos(s, n) = Cardinality(D) + 1
  BY DEF SearchPos
<1>4. \A i \in 1..Len(s) : i \in D <=> s[i] < n
  BY <1>1
<1> HIDE DEF D
<1>5. Cardinality(D) \in 0..Len(s) /\ D = 1..Cardinality(D)
  BY <1>1, <1>2, PrefixSet
<1>6. QED
  BY <1>1, <1>3, <1>4, <1>5

\* The search for what follows a frame finds the next position.
LEMMA SearchNext ==
  ASSUME NEW s \in Seq(Seqs), Ascending(s), NEW k \in 1..Len(s)
  PROVE  SearchPos(s, s[k] + 1) = k + 1
<1>1. Len(s) \in Nat /\ DOMAIN s = 1..Len(s) /\ \A i \in 1..Len(s) : s[i] \in Nat
  BY FramesFacts
<1>2. {i \in DOMAIN s : s[i] < s[k] + 1} = 1..k
  <2>1. ASSUME NEW i \in 1..Len(s) PROVE s[i] < s[k] + 1 <=> i <= k
    BY <1>1 DEF Ascending
  <2>2. QED
    BY <1>1, <2>1
<1>3. Cardinality(1..k) = k
  BY <1>1, FS_Interval
<1>4. QED
  BY <1>2, <1>3 DEF SearchPos

\* Any set of sequence numbers can be listed in ascending order.
LEMMA SortedExists ==
  ASSUME NEW S, S \subseteq Seqs
  PROVE  \E s \in [1..Cardinality(S) -> S] : Ascending(s)
<1> DEFINE Wrong == {r \in SUBSET S : ~ \E s \in [1..Cardinality(r) -> r] : Ascending(s)}
           Counts == {Cardinality(r) : r \in Wrong}
<1>1. \A r \in SUBSET S : IsFiniteSet(r) /\ Cardinality(r) \in Nat
  BY SeqsFinite, FS_Subset, FS_CardinalityType
<1>2. ASSUME NEW n \in Counts, \A m \in Counts : n <= m
      PROVE  FALSE
  <2>1. PICK r \in SUBSET S : n = Cardinality(r) /\ ~ \E s \in [1..Cardinality(r) -> r] : Ascending(s)
    OBVIOUS
  <2>2. CASE r = {}
    <3>1. Cardinality(r) = 0
      BY <2>2, FS_EmptySet
    <3>2. [i \in 1..0 |-> 0] \in [1..0 -> r] /\ Ascending([i \in 1..0 |-> 0])
      BY DEF Ascending
    <3>3. QED
      BY <2>1, <3>1, <3>2
  <2>3. CASE r # {}
    <3>1. PICK x \in r : \A y \in r : y <= x
      BY <2>3, GreatestNat
    <3>2. /\ n \in Nat \ {0} /\ Cardinality(r \ {x}) = n - 1
      BY <1>1, <2>1, <2>3, FS_RemoveElement, FS_EmptySet
    <3>3. n - 1 \notin Counts
      <4>1. n - 1 \in Counts => n <= n - 1
        BY <1>2
      <4>2. QED
        BY <3>2, <4>1
    <3>4. r \ {x} \notin Wrong
      BY <3>2, <3>3
    <3>5. PICK s \in [1..(n - 1) -> r \ {x}] : Ascending(s)
      BY <3>2, <3>4
    <3> HIDE DEF Wrong, Counts
    <3>6. PICK t : t = [i \in 1..n |-> IF i = n THEN x ELSE s[i]]
      OBVIOUS
    <3>7. \A i \in 1..n : IF i = n THEN t[i] = x ELSE i \in 1..(n - 1) /\ t[i] = s[i] /\ s[i] \in r \ {x}
      BY <3>2, <3>6
    <3>8. t \in [1..n -> r] /\ DOMAIN t = 1..n
      BY <3>6, <3>7
    <3>9. ASSUME NEW i \in 1..n, NEW j \in 1..n, i < j PROVE t[i] < t[j]
      <4>1. \A y \in r : y \in Nat
        BY SeqsFinite
      <4>2. i \in 1..(n - 1)
        BY <3>2, <3>9
      <4>3. CASE j = n
        BY <3>1, <3>2, <3>7, <3>9, <4>1, <4>2, <4>3
      <4>4. CASE j # n
        BY <3>5, <3>7, <3>9, <4>2, <4>4 DEF Ascending
      <4>5. QED
        BY <4>3, <4>4
    <3>10. QED
      BY <2>1, <3>8, <3>9 DEF Ascending
  <2>4. QED
    BY <2>2, <2>3
<1>3. Counts = {}
  <2>1. Counts \subseteq Nat
    BY <1>1
  <2> HIDE DEF Counts
  <2>2. QED
    BY <1>2, <2>1, LeastNat
<1>4. QED
  BY <1>3

\* Sorted lists every member once, in ascending order.
LEMMA SortedLists ==
  ASSUME NEW S, S \subseteq Seqs
  PROVE  /\ Sorted(S) \in Seq(Seqs) /\ Ascending(Sorted(S))
         /\ \A i \in 1..Len(Sorted(S)) : Sorted(S)[i] \in S
         /\ \A x \in S : \E i \in 1..Len(Sorted(S)) : Sorted(S)[i] = x
<1>1. IsFiniteSet(S) /\ Cardinality(S) \in Nat /\ S \subseteq Nat
  BY SeqsFinite, FS_Subset, FS_CardinalityType
<1>2. PICK s : s = Sorted(S)
  OBVIOUS
<1>3. s \in [1..Cardinality(S) -> S] /\ Ascending(s)
  BY <1>2, SortedExists DEF Sorted, Ascending
<1>4. s \in Seq(Seqs) /\ Len(s) = Cardinality(S)
  <2>1. s \in [1..Cardinality(S) -> Seqs]
    BY <1>3
  <2>2. s \in Seq(Seqs)
    BY <1>1, <2>1
  <2>3. 1..Len(s) = 1..Cardinality(S) /\ Len(s) \in Nat
    BY <2>1, <2>2, LenProperties
  <2>4. QED
    BY <1>1, <2>2, <2>3, FS_Interval
<1>5. s \in Injection(1..Cardinality(S), S)
  <2>1. ASSUME NEW i \in 1..Cardinality(S), NEW j \in 1..Cardinality(S), s[i] = s[j]
        PROVE  i = j
    <3>1. /\ i < j => s[i] < s[j]
          /\ j < i => s[j] < s[i]
          /\ s[i] \in Nat
      BY <1>1, <1>3 DEF Ascending
    <3>2. QED
      BY <1>1, <2>1, <3>1
  <2>2. QED
    BY <1>3, <2>1 DEF Injection, IsInjective
<1>6. Cardinality(1..Cardinality(S)) = Cardinality(S)
  BY <1>1, FS_Interval
<1>7. s \in Surjection(1..Cardinality(S), S)
  BY <1>1, <1>5, <1>6, FS_Injection
<1>8. \A x \in S : \E i \in 1..Len(s) : s[i] = x
  BY <1>4, <1>7 DEF Surjection
<1>9. QED
  BY <1>2, <1>3, <1>4, <1>8

-----------------------------------------------------------------------------
(***************************************************************************)
(* The index of a chunk                                                    *)
(***************************************************************************)
\* Integer division.
LEMMA DivisionBounds ==
  ASSUME NEW a \in Nat, NEW d \in Nat \ {0}
  PROVE  a \div d \in Nat /\ (a \div d) * d <= a /\ a < (a \div d) * d + d
  OBVIOUS

\* A smaller number has no greater quotient.
LEMMA DivisionMonotone ==
  ASSUME NEW a \in Nat, NEW b \in Nat, NEW d \in Nat \ {0}, a <= b
  PROVE  a \div d <= b \div d
<1>1. PICK q \in Nat : q = a \div d
  BY DivisionBounds
<1>2. PICK r \in Nat : r = b \div d
  BY DivisionBounds
<1>3. q * d <= a /\ b < r * d + d
  BY <1>1, <1>2, DivisionBounds
<1>4. ASSUME r + 1 <= q PROVE FALSE
  <2>1. (r + 1) * d <= q * d
    BY <1>4
  <2>2. (r + 1) * d = r * d + d
    OBVIOUS
  <2>3. QED
    BY <1>3, <2>1, <2>2
<1>5. QED
  BY <1>1, <1>2, <1>4

\* The first sequence number of the chunk that the cursor n is in, for a snapshot from m.
LEMMA ChunkStart ==
  ASSUME NEW m \in Nat, NEW n \in Nat, m <= n
  PROVE  /\ (n - m) \div ChunkN \in Nat
         /\ m + ((n - m) \div ChunkN) * ChunkN \in Nat
         /\ m + ((n - m) \div ChunkN) * ChunkN <= n
         /\ n < m + ((n - m) \div ChunkN) * ChunkN + ChunkN
<1>1. ChunkN \in Nat \ {0}
  BY ChunkAssumption
<1>2. PICK a \in Nat : a = n - m
  OBVIOUS
<1>3. PICK q \in Nat : q = a \div ChunkN
  BY <1>1, DivisionBounds
<1>4. q * ChunkN <= a /\ a < q * ChunkN + ChunkN
  BY <1>1, <1>3, DivisionBounds
<1>5. PICK b \in Nat : b = q * ChunkN
  BY <1>1
<1>6. (n - m) \div ChunkN = q
  BY <1>2, <1>3
<1>7. QED
  BY <1>1, <1>2, <1>4, <1>5, <1>6

-----------------------------------------------------------------------------
(***************************************************************************)
(* The inductive invariant                                                 *)
(***************************************************************************)
GoodChunk(c) == c \in Chunks /\ Ascending(c.frames)

StoreShape ==
  /\ table \subseteq Seqs
  /\ cache = [i \in Indexes |-> cache[i]]
  /\ \A i \in Indexes : cache[i] # NoChunk => GoodChunk(cache[i])
  /\ snapshot \in [Peers -> [MinSeq : Seqs, MaxSeq : Seqs \cup {-1}]]

SessionShape ==
  /\ events \in 0..MaxEvents
  /\ pc \in [Sessions -> Locations]
  /\ minSeq \in [Sessions -> Seqs] /\ maxSeq \in [Sessions -> Seqs]
  /\ seq \in [Sessions -> Nat] /\ pos \in [Sessions -> Nat \ {0}]
  /\ chunk = [p \in Sessions |-> chunk[p]]
  /\ emptyRuns \in [Sessions -> 0..EmptyChunkGuard]
  /\ slots \in [Sessions -> Nat] /\ target \in [Sessions -> Nat]
  /\ elapsed \in [Sessions -> 0..MaxElapsed]
  /\ late \subseteq Sessions /\ ctxDone \subseteq Sessions
  /\ outcome \in [Sessions -> {"none", "eos", "error", "panic"}]
  /\ due \in [Sessions -> SUBSET Seqs]

\* While the chunk a session keeps has its frames, the position is where a search for
\* seq would put it; before a frame is handed out there is one at the position.
ChunkKept ==
  \A p \in Sessions :
    /\ pc[p] = "idle" => chunk[p] = NoChunk
    /\ pc[p] \in {"skipFrame", "write"} => chunk[p] # NoChunk
    /\ chunk[p] # NoChunk => GoodChunk(chunk[p])
    /\ chunk[p] # NoChunk /\ chunk[p].frames # <<>> =>
         /\ pos[p] = SearchPos(chunk[p].frames, seq[p])
         /\ pc[p] \in {"skipFrame", "write"} => pos[p] \in 1..Len(chunk[p].frames)

\* Where a session stands between its slots and its clock, location by location.
Paced ==
  \A p \in Sessions :
    /\ pc[p] \in {"idle", "top"} => slots[p] <= elapsed[p]
    /\ pc[p] \in {"skip", "slot", "getSend", "write"} => slots[p] <= target[p] /\ target[p] <= elapsed[p]
    /\ pc[p] \in {"getSkip", "skipFrame"} => slots[p] < target[p] /\ target[p] <= elapsed[p]
    /\ pc[p] = "slot" => p \in late \/ AtEnd(p)
    /\ pc[p] \in {"getSend", "write"} /\ p \notin late => slots[p] >= target[p]

PInv == StoreShape /\ SessionShape /\ ChunkKept /\ Paced

-----------------------------------------------------------------------------
(***************************************************************************)
(* ChunkManager.get                                                        *)
(***************************************************************************)
LEMMA GoodIsChunk == \A c : GoodChunk(c) => c # NoChunk
  BY NoChunkAssumption DEF GoodChunk

LEMMA GoodHasFrames ==
  ASSUME NEW c, GoodChunk(c)
  PROVE  c.start \in Nat /\ c.frames \in Seq(Seqs) /\ Ascending(c.frames)
  BY DEF GoodChunk, Chunks

\* What loadChunk returns.
LEMMA LoadedGood ==
  ASSUME StoreShape, NEW start \in Nat
  PROVE  GoodChunk(Loaded(start))
<1>1. Rows(start) \ Oversize \subseteq Seqs
  BY DEF StoreShape, Rows
<1>2. QED
  BY <1>1, SortedLists DEF GoodChunk, Chunks, Loaded

\* So is what remains of a chunk that is evicted before the session is counted.
LEMMA EvictedGood ==
  ASSUME NEW c, GoodChunk(c)
  PROVE  /\ GoodChunk(Reclaimed(c)) /\ Reclaimed(c).start = c.start /\ Reclaimed(c).frames = <<>>
         /\ GoodChunk(Finalizing(c)) /\ Finalizing(c).start = c.start
<1>1. c.start \in Nat /\ c.frames \in Seq(Seqs) /\ Ascending(c.frames)
  BY GoodHasFrames
<1>2. <<>> \in Seq(Seqs) /\ Ascending(<<>>)
  BY DEF Ascending
<1>3. QED
  BY <1>1, <1>2 DEF GoodChunk, Chunks, Reclaimed, Finalizing

\* The index of a cursor within the bounds of the snapshot is one of the store's.
LEMMA IndexInRange ==
  ASSUME SessionShape, NEW p \in Sessions, ~AtEnd(p)
  PROVE  /\ IndexOf(p) \in Indexes /\ StartOf(p) \in Nat
         /\ minSeq[p] <= seq[p] => StartOf(p) <= seq[p] /\ seq[p] < StartOf(p) + ChunkN
<1>1. PICK n, m, x \in Nat : n = seq[p] /\ m = minSeq[p] /\ x = maxSeq[p] /\ n <= x /\ m <= LastSeq /\ x <= LastSeq
  BY SeqsFinite, SeqAssumption DEF SessionShape, AtEnd
<1>2. PICK w \in Nat : w = WantSeq(p) /\ m <= w /\ w - m <= LastSeq /\ (m <= n => w = n)
  BY <1>1, SeqAssumption DEF WantSeq
<1>3. IndexOf(p) = (w - m) \div ChunkN /\ StartOf(p) = m + ((w - m) \div ChunkN) * ChunkN
  BY <1>1, <1>2 DEF IndexOf, StartOf
<1>4. /\ (w - m) \div ChunkN \in Nat
      /\ m + ((w - m) \div ChunkN) * ChunkN \in Nat
      /\ m + ((w - m) \div ChunkN) * ChunkN <= w
      /\ w < m + ((w - m) \div ChunkN) * ChunkN + ChunkN
  BY <1>2, ChunkStart
<1>5. (w - m) \div ChunkN <= LastSeq \div ChunkN /\ LastSeq \div ChunkN \in Nat
  <2>1. w - m \in Nat /\ LastSeq \in Nat /\ ChunkN \in Nat \ {0}
    BY <1>2, SeqAssumption, ChunkAssumption
  <2>2. QED
    BY <1>2, <2>1, DivisionMonotone, DivisionBounds
<1>6. IndexOf(p) \in Indexes /\ StartOf(p) \in Nat
  BY <1>3, <1>4, <1>5 DEF Indexes
<1>7. minSeq[p] <= seq[p] => w = seq[p]
  BY <1>1, <1>2
<1>8. QED
  BY <1>3, <1>4, <1>6, <1>7

\* The chunk has nothing from the cursor on: the cursor jumps behind the chunk.
Jump(p, c) ==
  /\ \A i \in 1..Len(c.frames) : c.frames[i] < seq[p]
  /\ seq' = [seq EXCEPT ![p] = c.start + ChunkN]
  /\ pos' = [pos EXCEPT ![p] = 1]
  /\ chunk' = [chunk EXCEPT ![p] = NoChunk]
  /\ UNCHANGED pc

\* The chunk has a frame for the cursor.
Take(p, c) ==
  /\ SearchPos(c.frames, seq[p]) \in 1..Len(c.frames)
  /\ chunk' = [chunk EXCEPT ![p] = c]
  /\ pos' = [pos EXCEPT ![p] = SearchPos(c.frames, seq[p])]
  /\ pc' = [pc EXCEPT ![p] = IF pc[p] = "getSkip" THEN "skipFrame" ELSE "write"]
  /\ UNCHANGED seq

LEMMA ObtainEffect ==
  ASSUME SessionShape, NEW p \in Sessions, NEW c, GoodChunk(c), Obtain(p, c)
  PROVE  Jump(p, c) \/ Take(p, c)
<1>1. c.frames \in Seq(Seqs) /\ Ascending(c.frames) /\ seq[p] \in Int
  BY GoodHasFrames DEF SessionShape
<1>2. Len(c.frames) \in Nat
  BY <1>1, FramesFacts
<1>3. /\ SearchPos(c.frames, seq[p]) \in 1..(Len(c.frames) + 1)
      /\ \A i \in 1..Len(c.frames) : c.frames[i] < seq[p] <=> i < SearchPos(c.frames, seq[p])
  BY <1>1, SearchSplits
<1>4. CASE SearchPos(c.frames, seq[p]) > Len(c.frames)
  BY <1>2, <1>3, <1>4 DEF Obtain, Jump
<1>5. CASE ~(SearchPos(c.frames, seq[p]) > Len(c.frames))
  BY <1>2, <1>3, <1>5 DEF Obtain, Take, GotFrame, Goto
<1>6. QED
  BY <1>4, <1>5

\* A get that asks the store: the answer comes from the table or the cache, or
\* from a chunk that is evicted.
Answered(p, c) ==
  /\ GoodChunk(c) /\ InGet(p) /\ ~AtEnd(p)
  /\ IndexOf(p) \in Indexes /\ StartOf(p) \in Nat
  /\ Jump(p, c) \/ Take(p, c)
  /\ emptyRuns' \in [Sessions -> 0..EmptyChunkGuard]
  /\ UNCHANGED <<table, snapshot, events, minSeq, maxSeq, paceVars, ctxDone, outcome, due>>
  /\ \/ UNCHANGED cache
     \/ cache' = [cache EXCEPT ![IndexOf(p)] = NoChunk]
     \/ cache' = [cache EXCEPT ![IndexOf(p)] = Loaded(StartOf(p))]
  /\ \/ cache[IndexOf(p)] # NoChunk /\ c = cache[IndexOf(p)]
     \/ c = Loaded(StartOf(p))
     \/ /\ Reclaims
        /\ \/ c.start = StartOf(p)
           \/ cache[IndexOf(p)] # NoChunk /\ c.start = cache[IndexOf(p)].start

GetAnswer(p) == GetCached(p) \/ GetLoaded(p) \/ GetEvicted(p)

LEMMA GetIsAnswered ==
  ASSUME StoreShape, SessionShape, NEW p \in Sessions, GetAnswer(p)
  PROVE  \E c : Answered(p, c)
<1> DEFINE i == IndexOf(p)
<1>1. InGet(p) /\ ~AtEnd(p) /\ i \in Indexes /\ StartOf(p) \in Nat
  BY IndexInRange DEF GetAnswer, GetCached, GetLoaded, GetEvicted, NeedsChunk
<1>2. cache[i] # NoChunk => GoodChunk(cache[i])
  BY <1>1 DEF StoreShape
<1>3. UNCHANGED <<table, snapshot, events, minSeq, maxSeq, paceVars, ctxDone, outcome, due>>
  BY DEF GetAnswer, GetCached, GetLoaded, GetEvicted, storeVars
<1>4. PICK c :
        /\ GoodChunk(c) /\ Obtain(p, c)
        /\ \/ UNCHANGED cache
           \/ cache' = [cache EXCEPT ![i] = NoChunk]
           \/ cache' = [cache EXCEPT ![i] = Loaded(StartOf(p))]
        /\ \/ cache[i] # NoChunk /\ c = cache[i]
           \/ c = Loaded(StartOf(p))
           \/ Reclaims /\ (c.start = StartOf(p) \/ (cache[i] # NoChunk /\ c.start = cache[i].start))
  <2>1. CASE GetCached(p)
    BY <1>2, <2>1 DEF GetCached, storeVars
  <2>2. CASE GetLoaded(p)
    BY <1>1, <2>2, LoadedGood DEF GetLoaded
  <2>3. CASE GetEvicted(p)
    <3>1. PICK d : d = IF cache[i] = NoChunk THEN Loaded(StartOf(p)) ELSE cache[i]
      OBVIOUS
    <3>2. GoodChunk(d) /\ (d.start = StartOf(p) \/ (cache[i] # NoChunk /\ d.start = cache[i].start))
      BY <1>1, <1>2, <3>1, LoadedGood DEF Loaded
    <3>3. PICK e \in {Reclaimed(d), Finalizing(d)} :
            Reclaims /\ Obtain(p, e) /\ cache' = [cache EXCEPT ![i] = NoChunk]
      BY <2>3, <3>1 DEF GetEvicted
    <3>4. GoodChunk(e) /\ e.start = d.start
      BY <3>2, EvictedGood
    <3>5. QED
      BY <3>2, <3>3, <3>4
  <2>4. QED
    BY <2>1, <2>2, <2>3 DEF GetAnswer
<1>5. Jump(p, c) \/ Take(p, c)
  BY <1>4, ObtainEffect
<1>6. emptyRuns' \in [Sessions -> 0..EmptyChunkGuard]
  <2>1. Min({emptyRuns[p] + 1, EmptyChunkGuard}) \in 0..EmptyChunkGuard
    <3>1. PICK e \in 0..3 : e = emptyRuns[p]
      BY DEF SessionShape, EmptyChunkGuard
    <3>2. \E m \in {e + 1, 3} : \A n \in {e + 1, 3} : m <= n
      OBVIOUS
    <3>3. Min({e + 1, 3}) \in {e + 1, 3} /\ Min({e + 1, 3}) <= 3
      BY <3>2 DEF Min
    <3>4. QED
      BY <3>1, <3>3 DEF EmptyChunkGuard
  <2>2. 0 \in 0..EmptyChunkGuard
    BY DEF EmptyChunkGuard
  <2>3. QED
    BY <1>4, <2>1, <2>2 DEF Obtain, SessionShape
<1>7. QED
  BY <1>1, <1>3, <1>4, <1>5, <1>6 DEF Answered

-----------------------------------------------------------------------------
(***************************************************************************)
(* Every step preserves each part of the invariant                         *)
(***************************************************************************)
\* The steps of a session besides those in which the store answers.
PlainStep(p) ==
  \/ Connect(p) \/ Tick(p) \/ CancelContext(p) \/ LoseFrames(p) \/ Panics(p)
  \/ StartRound(p) \/ CatchUp(p) \/ CurrentSlot(p) \/ SkipFrame(p)
  \/ WriteFrame(p) \/ WriteError(p) \/ Pace(p) \/ TimerFires(p) \/ SeeCancelled(p)
  \/ GetPastEnd(p) \/ GetCurrent(p) \/ GetFails(p)

\* The steps of other programs on the table, the evictions of the store, and what the peers
\* make it load.
StoreMoves ==
  \/ \E i \in Indexes : Evict(i)
  \/ \E q \in Peers : PeerConnects(q) \/ PeerLoads(q)
  \/ AppendRow \/ TrimFirst

LEMMA NextCases ==
  ASSUME Next
  PROVE  StoreMoves \/ \E p \in Sessions : PlainStep(p) \/ GetAnswer(p)
  BY DEF Next, Environment, RunStep, StoreMoves, PlainStep, GetAnswer

\* The rest of the sessions stand still.
Others(p) ==
  \A q \in Sessions \ {p} :
    /\ pc'[q] = pc[q] /\ chunk'[q] = chunk[q] /\ seq'[q] = seq[q] /\ pos'[q] = pos[q]
    /\ minSeq'[q] = minSeq[q] /\ maxSeq'[q] = maxSeq[q]
    /\ slots'[q] = slots[q] /\ target'[q] = target[q] /\ elapsed'[q] = elapsed[q]
    /\ q \in late' <=> q \in late
    /\ outcome'[q] = outcome[q] /\ due'[q] = due[q]

LEMMA OthersStand ==
  ASSUME SessionShape, NEW p \in Sessions, PlainStep(p)
  PROVE  Others(p) /\ UNCHANGED storeVars
<1> USE DEF SessionShape, Others, managerVars, paceVars, storeVars, Goto, Finish
<1>1. CASE Connect(p) \/ Tick(p) \/ CancelContext(p) \/ LoseFrames(p) \/ Panics(p)
  BY <1>1 DEF Connect, NewStreamSession, Tick, CancelContext, LoseFrames, Panics
<1>2. CASE \/ StartRound(p) \/ CatchUp(p) \/ CurrentSlot(p)
           \/ SkipFrame(p) \/ WriteFrame(p) \/ WriteError(p) \/ Pace(p) \/ TimerFires(p) \/ SeeCancelled(p)
  BY <1>2 DEF StartRound, CatchUp, CurrentSlot, SkipFrame, WriteFrame, Advance, WriteError, Pace, TimerFires,
     SeeCancelled
<1>3. CASE GetPastEnd(p) \/ GetCurrent(p) \/ GetFails(p)
  <2>1. emptyRuns[p] >= EmptyChunkGuard \/ emptyRuns[p] < EmptyChunkGuard
    BY DEF EmptyChunkGuard
  <2>2. CASE GetPastEnd(p)
    BY <2>1, <2>2 DEF GetPastEnd, GotNothing
  <2>3. CASE GetCurrent(p)
    BY <2>3 DEF GetCurrent, GotFrame
  <2>4. CASE GetFails(p)
    BY <2>4 DEF GetFails, GotNothing
  <2>5. QED
    BY <1>3, <2>2, <2>3, <2>4
<1>4. QED
  BY <1>1, <1>2, <1>3 DEF PlainStep

\* The bounds of a snapshot are sequence numbers of the table.
LEMMA TableBounds ==
  ASSUME table \subseteq Seqs, table # {}
  PROVE  /\ Min(table) \in table /\ \A r \in table : Min(table) <= r
         /\ Max(table) \in table /\ \A r \in table : r <= Max(table)
<1>1. PICK T : T = table
  OBVIOUS
<1>2. T \subseteq Nat /\ T \subseteq Seqs /\ T # {}
  BY <1>1, SeqsFinite
<1>3. /\ \E n \in T : \A m \in T : n <= m
      /\ \E n \in T : \A m \in T : m <= n
  BY <1>2, LeastNat, GreatestNat
<1>4. \E n \in T : \A m \in T : n >= m
  BY <1>2, <1>3
<1>5. Min(T) \in T /\ (\A m \in T : Min(T) <= m) /\ Max(T) \in T /\ \A m \in T : Max(T) >= m
  BY <1>3, <1>4 DEF Min, Max
<1>6. QED
  BY <1>1, <1>2, <1>5

\* The frame a session is about to send or skip.
LEMMA FrameAtHand ==
  ASSUME SessionShape, ChunkKept, NEW p \in Sessions, pc[p] \in {"skipFrame", "write"}, ~FramesLost(p)
  PROVE  /\ GoodChunk(chunk[p]) /\ pos[p] \in 1..Len(chunk[p].frames)
         /\ chunk[p].frames[pos[p]] \in Seqs /\ chunk[p].frames[pos[p]] \in Nat
         /\ chunk[p].frames[pos[p]] >= seq[p]
         /\ SearchPos(chunk[p].frames, chunk[p].frames[pos[p]] + 1) = pos[p] + 1
<1>1. GoodChunk(chunk[p]) /\ pos[p] \in 1..Len(chunk[p].frames) /\ pos[p] = SearchPos(chunk[p].frames, seq[p])
  BY DEF ChunkKept, FramesLost
<1>2. PICK s : s = chunk[p].frames
  OBVIOUS
<1>3. s \in Seq(Seqs) /\ Ascending(s) /\ seq[p] \in Nat
  BY <1>1, <1>2, GoodHasFrames DEF SessionShape
<1>4. PICK k \in 1..Len(s), n \in Nat : k = pos[p] /\ n = seq[p]
  BY <1>1, <1>2, <1>3
<1>5. Len(s) \in Nat /\ s[k] \in Seqs /\ s[k] \in Nat
  BY <1>3, FramesFacts
<1>6. s[k] < n <=> k < SearchPos(s, n)
  BY <1>3, SearchSplits
<1>7. SearchPos(s, s[k] + 1) = k + 1
  BY <1>3, SearchNext
<1>8. k = SearchPos(s, n) /\ ~(k < k)
  BY <1>1, <1>2, <1>4, <1>5
<1>9. QED
  BY <1>1, <1>2, <1>4, <1>5, <1>6, <1>7, <1>8

\* A table with rows has its bounds among the sequence numbers.
LEMMA MetaBounds ==
  ASSUME table \subseteq Seqs, LoadStreamMeta.Count # 0
  PROVE  /\ table # {} /\ LoadStreamMeta.MinSeq = Min(table) /\ LoadStreamMeta.MaxSeq = Max(table)
         /\ Min(table) \in Seqs /\ Max(table) \in Seqs /\ Min(table) \in Nat
<1>1. table # {}
  <2>1. Cardinality({}) = 0
    BY FS_EmptySet
  <2>2. QED
    BY <2>1 DEF LoadStreamMeta
<1>2. QED
  BY <1>1, TableBounds, SeqsFinite DEF LoadStreamMeta

LEMMA StoreShapeStep ==
  ASSUME StoreShape, SessionShape, Next
  PROVE  StoreShape'
<1>1. CASE StoreMoves
  <2>1. table' \subseteq Seqs
    BY <1>1 DEF StoreShape, StoreMoves, Evict, PeerConnects, PeerLoads, AppendRow, TrimFirst
  <2>2. /\ cache' = [i \in Indexes |-> cache'[i]]
        /\ \A i \in Indexes : cache'[i] # NoChunk => GoodChunk(cache'[i])
    <3>1. CASE \E q \in Peers : PeerLoads(q)
      <4>1. PICK q \in Peers : PeerLoads(q)
        BY <3>1
      <4>2. PICK i \in 0..((snapshot[q].MaxSeq - snapshot[q].MinSeq) \div ChunkN) :
              cache' = [cache EXCEPT ![i] = Loaded(snapshot[q].MinSeq + i * ChunkN)]
        BY <4>1 DEF PeerLoads
      <4>3. snapshot[q].MinSeq \in Nat /\ i \in Nat
        BY SeqsFinite DEF StoreShape
      <4>4. snapshot[q].MinSeq + i * ChunkN \in Nat
        BY <4>3, ChunkAssumption
      <4>5. GoodChunk(Loaded(snapshot[q].MinSeq + i * ChunkN))
        BY <4>4, LoadedGood
      <4>6. QED
        BY <4>2, <4>5 DEF StoreShape
    <3>2. CASE ~(\E q \in Peers : PeerLoads(q))
      <4>1. UNCHANGED cache \/ \E i \in Indexes : cache' = [cache EXCEPT ![i] = NoChunk]
        BY <1>1, <3>2 DEF StoreMoves, Evict, PeerConnects, AppendRow, TrimFirst
      <4>2. QED
        BY <4>1 DEF StoreShape
    <3>3. QED
      BY <3>1, <3>2
  <2>3. snapshot' \in [Peers -> [MinSeq : Seqs, MaxSeq : Seqs \cup {-1}]]
    <3>1. CASE \E q \in Peers : PeerConnects(q)
      <4>1. PICK q \in Peers : PeerConnects(q)
        BY <3>1
      <4>2. PICK low, high \in Seqs : low = LoadStreamMeta.MinSeq /\ high = LoadStreamMeta.MaxSeq
        BY <4>1, MetaBounds DEF PeerConnects, StoreShape
      <4>3. snapshot' = [snapshot EXCEPT ![q] = [MinSeq |-> low, MaxSeq |-> high]]
        BY <4>1, <4>2 DEF PeerConnects
      <4>4. QED
        BY <4>3 DEF StoreShape
    <3>2. CASE ~(\E q \in Peers : PeerConnects(q))
      BY <1>1, <3>2 DEF StoreMoves, Evict, PeerLoads, AppendRow, TrimFirst, StoreShape
    <3>3. QED
      BY <3>1, <3>2
  <2>4. QED
    BY <2>1, <2>2, <2>3 DEF StoreShape
<1>2. ASSUME NEW p \in Sessions, PlainStep(p) PROVE StoreShape'
  BY <1>2, OthersStand DEF StoreShape, storeVars
<1>3. ASSUME NEW p \in Sessions, GetAnswer(p) PROVE StoreShape'
  <2>1. PICK c : Answered(p, c)
    BY <1>3, GetIsAnswered
  <2>2. UNCHANGED <<table, snapshot>> /\ IndexOf(p) \in Indexes /\ GoodChunk(Loaded(StartOf(p)))
    BY <2>1, LoadedGood DEF Answered
  <2>3. UNCHANGED cache \/ \E i \in Indexes, d \in {NoChunk, Loaded(StartOf(p))} : cache' = [cache EXCEPT ![i] = d]
    BY <2>1 DEF Answered
  <2>4. QED
    BY <2>2, <2>3 DEF StoreShape
<1>4. QED
  BY <1>1, <1>2, <1>3, NextCases

LEMMA SessionShapeStep ==
  ASSUME StoreShape, SessionShape, ChunkKept, Next
  PROVE  SessionShape'
<1> USE DEF managerVars, paceVars, storeVars, Goto, Finish
<1>1. CASE StoreMoves
  <2>1. UNCHANGED <<pc, managerVars, paceVars, ctxDone, outcome>>
        /\ (UNCHANGED due \/ due' = [p \in Sessions |-> due[p] \ {Min(table)}])
    BY <1>1 DEF StoreMoves, Evict, PeerConnects, PeerLoads, AppendRow, TrimFirst
  <2>2. UNCHANGED events \/ HappensNow
    BY <1>1 DEF StoreMoves, Evict, PeerConnects, PeerLoads, AppendRow, TrimFirst
  <2>3. events' \in 0..MaxEvents
    <3>1. events \in 0..MaxEvents /\ MaxEvents \in Nat
      BY EnvAssumption DEF SessionShape
    <3>2. QED
      BY <2>2, <3>1 DEF HappensNow
  <2>4. QED
    BY <2>1, <2>3 DEF SessionShape
<1>2. ASSUME NEW p \in Sessions, PlainStep(p) PROVE SessionShape'
  <2>1. events' \in 0..MaxEvents /\ ctxDone' \subseteq Sessions /\ late' \subseteq Sessions
    <3>1. events \in 0..MaxEvents /\ MaxEvents \in Nat
      BY EnvAssumption DEF SessionShape
    <3>2. UNCHANGED events \/ (events < MaxEvents /\ events' = events + 1)
      BY <1>2 DEF HappensNow, PlainStep, Connect, Tick, CancelContext, LoseFrames, Panics, StartRound, CatchUp, CurrentSlot, SkipFrame,
         WriteFrame, WriteError, Pace, TimerFires, SeeCancelled, GetPastEnd, GetCurrent, GetFails
    <3>3. ctxDone' \in {ctxDone, ctxDone \cup {p}} /\ late' \in {late, late \ {p}, late \cup {p}}
      BY <1>2 DEF PlainStep, Connect, NewStreamSession, Tick, CancelContext, LoseFrames, Panics, StartRound, CatchUp,
         CurrentSlot, SkipFrame, WriteFrame, WriteError, Pace, TimerFires, SeeCancelled, GetPastEnd, GetCurrent,
         GetFails
    <3>4. QED
      BY <3>1, <3>2, <3>3 DEF SessionShape
  <2>2. pc' \in [Sessions -> Locations] /\ outcome' \in [Sessions -> {"none", "eos", "error", "panic"}]
        /\ chunk' = [q \in Sessions |-> chunk'[q]]
    <3>1. emptyRuns[p] >= EmptyChunkGuard \/ emptyRuns[p] < EmptyChunkGuard
      BY DEF SessionShape, EmptyChunkGuard
    <3>2. \E l \in Locations : pc' = [pc EXCEPT ![p] = l] \/ UNCHANGED pc
      BY <1>2 DEF Locations, PlainStep, Connect, Tick, CancelContext, LoseFrames, Panics, StartRound, CatchUp, CurrentSlot,
         SkipFrame, WriteFrame, WriteError, Pace, TimerFires, SeeCancelled, GetPastEnd, GetCurrent, GetFails,
         GotFrame, GotNothing
    <3>3. \E r \in {"none", "eos", "error", "panic"} : outcome' = [outcome EXCEPT ![p] = r] \/ UNCHANGED outcome
      BY <1>2 DEF PlainStep, Connect, Tick, CancelContext, LoseFrames, Panics, StartRound, CatchUp, CurrentSlot,
         SkipFrame, WriteFrame, WriteError, Pace, TimerFires, SeeCancelled, GetPastEnd, GetCurrent, GetFails,
         GotFrame, GotNothing
    <3>4. (\E c : chunk' = [chunk EXCEPT ![p] = c]) \/ UNCHANGED chunk
      BY <1>2, <3>1 DEF PlainStep, Connect, NewStreamSession, Tick, CancelContext, LoseFrames, Panics, StartRound, CatchUp, CurrentSlot,
         SkipFrame, WriteFrame, WriteError, Pace, TimerFires, SeeCancelled, GetPastEnd, GetCurrent, GetFails,
         GotFrame, GotNothing
    <3>5. QED
      BY <3>2, <3>3, <3>4 DEF SessionShape
  <2>3. CASE Connect(p)
    <3>1. table \subseteq Seqs /\ LoadStreamMeta.Count # 0
      BY <2>3 DEF Connect, StoreShape
    <3>2. Min(table) \in Seqs /\ Max(table) \in Seqs /\ Min(table) \in Nat
      BY <3>1, MetaBounds
    <3>3. /\ minSeq' = [minSeq EXCEPT ![p] = Min(table)] /\ maxSeq' = [maxSeq EXCEPT ![p] = Max(table)]
          /\ seq' = [seq EXCEPT ![p] = Min(table)] /\ due' = [due EXCEPT ![p] = table \ Oversize]
          /\ UNCHANGED <<pos, emptyRuns, slots, target, elapsed>>
      BY <2>3, <3>1, MetaBounds DEF Connect, NewStreamSession
    <3>4. QED
      BY <2>1, <2>2, <3>1, <3>2, <3>3 DEF SessionShape
  <2>4. CASE SkipFrame(p) \/ WriteFrame(p)
    <3>1. PICK f \in Nat : f = chunk[p].frames[pos[p]]
      BY <2>4, FrameAtHand DEF SkipFrame, WriteFrame
    <3>2. /\ seq' = [seq EXCEPT ![p] = f + 1] /\ pos' = [pos EXCEPT ![p] = pos[p] + 1]
          /\ slots' = [slots EXCEPT ![p] = slots[p] + 1] /\ due' = [due EXCEPT ![p] = due[p] \ {f}]
          /\ UNCHANGED <<minSeq, maxSeq, emptyRuns, target, elapsed>>
      BY <2>4, <3>1 DEF SkipFrame, WriteFrame, Advance
    <3>3. pos[p] \in Nat \ {0} /\ slots[p] \in Nat /\ due[p] \subseteq Seqs
      BY DEF SessionShape
    <3>4. pos[p] + 1 \in Nat \ {0} /\ slots[p] + 1 \in Nat /\ f + 1 \in Nat /\ due[p] \ {f} \subseteq Seqs
      BY <3>3
    <3>5. QED
      BY <2>1, <2>2, <3>2, <3>4 DEF SessionShape
  <2>5. CASE Tick(p) \/ StartRound(p)
    <3>1. elapsed[p] \in 0..MaxElapsed /\ MaxElapsed \in Nat
      BY EnvAssumption DEF SessionShape
    <3>2. /\ UNCHANGED <<minSeq, maxSeq, seq, pos, emptyRuns, slots, due>>
          /\ \/ UNCHANGED target
             \/ target' = [target EXCEPT ![p] = elapsed[p]]
          /\ \/ UNCHANGED elapsed
             \/ elapsed[p] < MaxElapsed /\ elapsed' = [elapsed EXCEPT ![p] = elapsed[p] + 1]
      BY <2>5 DEF Tick, StartRound
    <3>3. elapsed[p] < MaxElapsed => elapsed[p] + 1 \in 0..MaxElapsed
      BY <3>1
    <3>4. elapsed[p] \in Nat
      BY <3>1
    <3>5. QED
      BY <2>1, <2>2, <3>2, <3>3, <3>4 DEF SessionShape
  <2>6. CASE ~(Connect(p) \/ SkipFrame(p) \/ WriteFrame(p) \/ Tick(p) \/ StartRound(p))
    <3>1. /\ UNCHANGED <<minSeq, maxSeq, seq, pos, emptyRuns, target, elapsed, due>>
          /\ UNCHANGED slots \/ slots' = [slots EXCEPT ![p] = slots[p] + 1]
      BY <1>2, <2>6 DEF PlainStep, CancelContext, LoseFrames, Panics, CatchUp, CurrentSlot, WriteError, Pace, TimerFires,
         SeeCancelled, GetPastEnd, GetCurrent, GetFails, GotNothing
    <3>2. slots[p] + 1 \in Nat
      BY DEF SessionShape
    <3>3. QED
      BY <2>1, <2>2, <3>1, <3>2 DEF SessionShape
  <2>7. QED
    BY <2>3, <2>4, <2>5, <2>6
<1>3. ASSUME NEW p \in Sessions, GetAnswer(p) PROVE SessionShape'
  <2>1. PICK c : Answered(p, c)
    BY <1>3, GetIsAnswered
  <2>2. /\ UNCHANGED <<events, minSeq, maxSeq, paceVars, ctxDone, outcome, due>>
        /\ emptyRuns' \in [Sessions -> 0..EmptyChunkGuard]
        /\ Jump(p, c) \/ Take(p, c)
        /\ c.start + ChunkN \in Nat
    BY <2>1, ChunkAssumption, GoodHasFrames DEF Answered
  <2>3. CASE Jump(p, c)
    <3>1. PICK n \in Nat : n = c.start + ChunkN
      BY <2>2
    <3>2. seq' = [seq EXCEPT ![p] = n] /\ pos' = [pos EXCEPT ![p] = 1] /\ UNCHANGED pc
          /\ chunk' = [chunk EXCEPT ![p] = NoChunk]
      BY <2>3, <3>1 DEF Jump
    <3>3. seq' \in [Sessions -> Nat] /\ pos' \in [Sessions -> Nat \ {0}]
      BY <3>2 DEF SessionShape
    <3>4. QED
      BY <2>2, <3>2, <3>3 DEF SessionShape
  <2>4. CASE Take(p, c)
    <3>1. SearchPos(c.frames, seq[p]) \in Nat \ {0}
      BY <2>2, <2>4 DEF Take
    <3>2. pc' \in [Sessions -> Locations]
      BY <2>4 DEF Take, SessionShape, Locations
    <3>3. QED
      BY <2>2, <2>4, <3>1, <3>2 DEF Take, SessionShape
  <2>5. QED
    BY <2>2, <2>3, <2>4
<1>4. QED
  BY <1>1, <1>2, <1>3, NextCases

\* The position follows the cursor through every hand-over of a chunk.
LEMMA ChunkKeptStep ==
  ASSUME StoreShape, SessionShape, ChunkKept, Next
  PROVE  ChunkKept'
<1> USE DEF managerVars, paceVars, storeVars, Goto, Finish
<1>1. CASE StoreMoves
  <2>1. UNCHANGED <<pc, chunk, seq, pos>>
    BY <1>1 DEF StoreMoves, Evict, PeerConnects, PeerLoads, AppendRow, TrimFirst
  <2>2. QED
    BY <2>1 DEF ChunkKept
<1>2. ASSUME NEW p \in Sessions, PlainStep(p) PROVE ChunkKept'
  <2>1. Others(p)
    BY <1>2, OthersStand
  <2>2. ASSUME /\ pc'[p] = "idle" => chunk'[p] = NoChunk
               /\ pc'[p] \in {"skipFrame", "write"} => chunk'[p] # NoChunk
               /\ chunk'[p] # NoChunk => GoodChunk(chunk'[p])
               /\ chunk'[p] # NoChunk /\ chunk'[p].frames # <<>> =>
                    /\ pos'[p] = SearchPos(chunk'[p].frames, seq'[p])
                    /\ pc'[p] \in {"skipFrame", "write"} => pos'[p] \in 1..Len(chunk'[p].frames)
        PROVE  ChunkKept'
    BY <2>1, <2>2 DEF Others, ChunkKept
  <2>3. ASSUME UNCHANGED <<chunk, seq, pos>> \/ chunk'[p] = NoChunk,
               pc'[p] = "idle" => pc[p] = "idle",
               pc'[p] \in {"skipFrame", "write"} =>
                 chunk'[p] # NoChunk /\ (chunk'[p].frames # <<>> => pos'[p] \in 1..Len(chunk'[p].frames))
        PROVE  ChunkKept'
    <3>1. pc'[p] = "idle" => chunk'[p] = NoChunk
      BY <2>3 DEF ChunkKept
    <3>2. /\ chunk'[p] # NoChunk => GoodChunk(chunk'[p])
          /\ chunk'[p] # NoChunk /\ chunk'[p].frames # <<>> =>
               pos'[p] = SearchPos(chunk'[p].frames, seq'[p])
      BY <2>3 DEF ChunkKept
    <3>3. QED
      BY <2>2, <2>3, <3>1, <3>2
  <2>4. CASE Connect(p)
    <3>1. pc[p] = "idle" /\ pc'[p] = "top" /\ UNCHANGED chunk
      BY <2>4 DEF Connect, NewStreamSession, SessionShape
    <3>2. chunk'[p] = NoChunk
      BY <3>1 DEF ChunkKept
    <3>3. QED
      BY <2>2, <3>1, <3>2
  <2>5. CASE SkipFrame(p) \/ WriteFrame(p)
    <3>0. pc[p] \in {"skipFrame", "write"} /\ ~FramesLost(p)
      BY <2>5 DEF SkipFrame, WriteFrame
    <3>1. PICK f \in Nat : f = chunk[p].frames[pos[p]]
      BY <3>0, FrameAtHand
    <3>2. /\ seq'[p] = f + 1 /\ pos'[p] = pos[p] + 1 /\ chunk'[p] = chunk[p]
          /\ pc'[p] \in {"skip", "pace"}
      BY <2>5, <3>1 DEF SkipFrame, WriteFrame, Advance, SessionShape
    <3>3. pos'[p] = SearchPos(chunk[p].frames, seq'[p])
      BY <3>0, <3>1, <3>2, FrameAtHand
    <3>4. GoodChunk(chunk'[p])
      BY <3>0, <3>2 DEF ChunkKept
    <3>5. QED
      BY <2>2, <3>2, <3>3, <3>4
  <2>6. CASE GetCurrent(p)
    <3>1. /\ UNCHANGED <<chunk, seq, pos>> /\ pc'[p] \in {"skipFrame", "write"} /\ pc[p] # "idle"
          /\ chunk[p] # NoChunk /\ ~(seq[p] > Last(chunk[p].frames)) /\ chunk[p].frames # <<>>
      BY <2>6 DEF GetCurrent, GotFrame, Exhausted, FramesLost, InGet, SessionShape
    <3>2. PICK s : s = chunk[p].frames
      OBVIOUS
    <3>3. s \in Seq(Seqs) /\ Ascending(s) /\ s # <<>> /\ pos[p] = SearchPos(s, seq[p]) /\ seq[p] \in Nat
      BY <3>1, <3>2, GoodHasFrames DEF ChunkKept, SessionShape
    <3>4. Len(s) \in Nat /\ Len(s) # 0 /\ s[Len(s)] \in Nat
      <4>1. Len(s) # 0
        BY <3>3, EmptySeq
      <4>2. Len(s) \in 1..Len(s)
        BY <3>3, <4>1, FramesFacts
      <4>3. QED
        BY <3>3, <4>1, <4>2, FramesFacts
    <3>5. PICK n \in Nat : n = seq[p]
      BY <3>3
    <3>6. ~(s[Len(s)] < n)
      BY <3>1, <3>2, <3>4, <3>5 DEF Last
    <3>7. SearchPos(s, n) \in 1..(Len(s) + 1) /\ (s[Len(s)] < n <=> Len(s) < SearchPos(s, n))
      <4>1. n \in Int /\ Len(s) \in 1..Len(s)
        BY <3>4, <3>5
      <4>2. QED
        BY <3>3, <4>1, SearchSplits
    <3>8. pos[p] \in 1..Len(s)
      BY <3>3, <3>4, <3>5, <3>6, <3>7
    <3>9. QED
      BY <2>3, <3>1, <3>2, <3>8
  <2>7. CASE GetPastEnd(p) \/ GetFails(p)
    <3>1. emptyRuns[p] >= EmptyChunkGuard \/ emptyRuns[p] < EmptyChunkGuard
      BY DEF SessionShape, EmptyChunkGuard
    <3>2. UNCHANGED <<seq, pos>> /\ (UNCHANGED chunk \/ chunk'[p] = NoChunk)
      BY <2>7, <3>1 DEF GetPastEnd, GetFails, GotNothing, SessionShape
    <3>3. pc'[p] \in {"slot", "pace", "done"} /\ pc[p] # "idle"
      BY <2>7 DEF GetPastEnd, GetFails, GotNothing, InGet, NeedsChunk, SessionShape
    <3>4. QED
      BY <2>3, <3>2, <3>3
  <2>8. CASE Tick(p) \/ CancelContext(p)
    <3>1. UNCHANGED <<pc, chunk, seq, pos>>
      BY <2>8 DEF Tick, CancelContext
    <3>2. QED
      BY <3>1 DEF ChunkKept
  <2>9. CASE StartRound(p) \/ CatchUp(p) \/ CurrentSlot(p) \/ WriteError(p) \/ Pace(p) \/ TimerFires(p)
             \/ SeeCancelled(p) \/ Panics(p)
    <3>1. UNCHANGED <<seq, pos>> /\ (UNCHANGED chunk \/ chunk'[p] = NoChunk)
      BY <2>9 DEF StartRound, CatchUp, CurrentSlot, WriteError, Pace, TimerFires, SeeCancelled, Panics, SessionShape
    <3>2. pc'[p] \notin {"idle", "skipFrame", "write"}
      BY <2>9 DEF StartRound, CatchUp, CurrentSlot, WriteError, Pace, TimerFires, SeeCancelled, Panics, SessionShape
    <3>3. QED
      BY <2>3, <3>1, <3>2
  <2>10. CASE LoseFrames(p)
    <3>1. chunk[p] # NoChunk /\ chunk'[p] = Reclaimed(chunk[p]) /\ UNCHANGED <<pc, seq, pos>>
      BY <2>10 DEF LoseFrames, SessionShape
    <3>2. GoodChunk(chunk'[p]) /\ chunk'[p].frames = <<>> /\ chunk'[p] # NoChunk
      BY <3>1, EvictedGood, GoodIsChunk DEF ChunkKept
    <3>3. pc'[p] # "idle"
      BY <3>1 DEF ChunkKept
    <3>4. QED
      BY <2>2, <3>2, <3>3
  <2>11. QED
    BY <1>2, <2>4, <2>5, <2>6, <2>7, <2>8, <2>9, <2>10 DEF PlainStep
<1>3. ASSUME NEW p \in Sessions, GetAnswer(p) PROVE ChunkKept'
  <2>1. PICK c : Answered(p, c)
    BY <1>3, GetIsAnswered
  <2>2. GoodChunk(c) /\ pc[p] \in {"getSkip", "getSend"} /\ (Jump(p, c) \/ Take(p, c))
    BY <2>1 DEF Answered, InGet
  <2>3. CASE Jump(p, c)
    <3>1. /\ chunk'[p] = NoChunk /\ UNCHANGED pc
          /\ \A q \in Sessions \ {p} : chunk'[q] = chunk[q] /\ seq'[q] = seq[q] /\ pos'[q] = pos[q]
      BY <2>3 DEF Jump, SessionShape
    <3>2. QED
      BY <2>2, <3>1 DEF ChunkKept
  <2>4. CASE Take(p, c)
    <3>1. /\ chunk'[p] = c /\ pos'[p] = SearchPos(c.frames, seq[p]) /\ UNCHANGED seq
          /\ pc'[p] \in {"skipFrame", "write"} /\ pos'[p] \in 1..Len(c.frames)
          /\ \A q \in Sessions \ {p} : chunk'[q] = chunk[q] /\ pos'[q] = pos[q] /\ pc'[q] = pc[q]
      BY <2>4 DEF Take, SessionShape
    <3>2. c # NoChunk /\ c.frames # <<>>
      BY <2>2, <3>1, GoodIsChunk
    <3>3. QED
      BY <2>2, <3>1, <3>2 DEF ChunkKept
  <2>5. QED
    BY <2>2, <2>3, <2>4
<1>4. QED
  BY <1>1, <1>2, <1>3, NextCases

\* A session's place between its slots and its clock is kept by every step.
LEMMA PacedStep ==
  ASSUME StoreShape, SessionShape, ChunkKept, Paced, Next
  PROVE  Paced'
<1> USE DEF managerVars, paceVars, storeVars, Goto, Finish
<1>1. CASE StoreMoves
  <2>1. UNCHANGED <<pc, slots, elapsed, target, late, seq, maxSeq>>
    BY <1>1 DEF StoreMoves, Evict, PeerConnects, PeerLoads, AppendRow, TrimFirst
  <2>2. QED
    BY <2>1 DEF Paced, AtEnd
<1>2. ASSUME NEW p \in Sessions, PlainStep(p) PROVE Paced'
  <2>1. Others(p)
    BY <1>2, OthersStand
  <2>2. PICK sl, el, tg \in Nat : sl = slots[p] /\ el = elapsed[p] /\ tg = target[p]
    BY EnvAssumption DEF SessionShape
  <2>3. /\ pc[p] \in {"idle", "top"} => sl <= el
        /\ pc[p] \in {"skip", "slot", "getSend", "write"} => sl <= tg /\ tg <= el
        /\ pc[p] \in {"getSkip", "skipFrame"} => sl < tg /\ tg <= el
        /\ pc[p] = "slot" => p \in late \/ AtEnd(p)
        /\ pc[p] \in {"getSend", "write"} /\ p \notin late => sl >= tg
    BY <2>2 DEF Paced
  <2>4. ASSUME /\ pc'[p] \in {"idle", "top"} => slots'[p] <= elapsed'[p]
               /\ pc'[p] \in {"skip", "slot", "getSend", "write"} => slots'[p] <= target'[p] /\ target'[p] <= elapsed'[p]
               /\ pc'[p] \in {"getSkip", "skipFrame"} => slots'[p] < target'[p] /\ target'[p] <= elapsed'[p]
               /\ pc'[p] = "slot" => p \in late' \/ AtEnd(p)'
               /\ pc'[p] \in {"getSend", "write"} /\ p \notin late' => slots'[p] >= target'[p]
        PROVE  Paced'
    BY <2>1, <2>4 DEF Others, Paced, AtEnd
  <2>5. CASE Connect(p)
    <3>1. pc[p] = "idle" /\ pc'[p] = "top" /\ UNCHANGED <<slots, elapsed>>
      BY <2>5 DEF Connect, NewStreamSession, SessionShape
    <3>2. QED
      BY <2>2, <2>3, <2>4, <3>1
  <2>6. CASE Tick(p)
    <3>1. pc[p] \in {"top", "pace", "asleep"} /\ UNCHANGED pc /\ slots'[p] = sl /\ elapsed'[p] = el + 1
      BY <2>2, <2>6 DEF Tick, SessionShape
    <3>2. QED
      BY <2>2, <2>3, <2>4, <3>1
  <2>7. CASE StartRound(p)
    <3>1. /\ pc[p] = "top" /\ UNCHANGED <<slots, elapsed>>
          /\ pc'[p] = "done" \/ (pc'[p] = "skip" /\ target'[p] = el)
      BY <2>2, <2>7 DEF StartRound, SessionShape
    <3>2. QED
      BY <2>2, <2>3, <2>4, <3>1
  <2>8. CASE CatchUp(p) \/ CurrentSlot(p)
    <3>1. /\ UNCHANGED <<slots, elapsed, target, late, seq, maxSeq>>
          /\ \/ pc[p] = "skip" /\ pc'[p] = "getSkip" /\ Behind(p)
             \/ pc[p] \in {"slot", "skip"} /\ pc'[p] = "done"
             \/ pc[p] = "slot" /\ pc'[p] = "getSend" /\ ~AtEnd(p)
             \/ pc[p] = "skip" /\ pc'[p] = "getSend" /\ ~AtEnd(p) /\ ~Behind(p)
      BY <2>8 DEF CatchUp, CurrentSlot, SessionShape
    <3>2. Behind(p) <=> sl < tg /\ ~AtEnd(p)
      BY <2>2 DEF Behind
    <3>3. QED
      BY <2>2, <2>3, <2>4, <3>1, <3>2
  <2>9. CASE SkipFrame(p) \/ WriteFrame(p)
    <3>1. /\ UNCHANGED <<elapsed, target>> /\ slots'[p] = sl + 1
          /\ \/ pc[p] = "skipFrame" /\ pc'[p] = "skip"
             \/ pc[p] = "write" /\ pc'[p] = "pace"
      BY <2>2, <2>9 DEF SkipFrame, WriteFrame, SessionShape
    <3>2. QED
      BY <2>2, <2>3, <2>4, <3>1
  <2>10. CASE WriteError(p) \/ SeeCancelled(p) \/ Panics(p)
    <3>1. pc'[p] = "done"
      BY <2>10 DEF WriteError, SeeCancelled, Panics, SessionShape
    <3>2. QED
      BY <2>4, <3>1
  <2>11. CASE Pace(p) \/ TimerFires(p)
    <3>1. /\ UNCHANGED <<slots, elapsed>>
          /\ pc'[p] = "asleep" \/ (pc'[p] = "top" /\ ~(sl > el)) \/ (pc'[p] = "top" /\ sl <= el)
      BY <2>2, <2>11 DEF Pace, Ahead, TimerFires, SessionShape
    <3>2. QED
      BY <2>2, <2>4, <3>1
  <2>12. CASE CancelContext(p) \/ LoseFrames(p)
    <3>1. UNCHANGED <<pc, slots, elapsed, target, late, seq, maxSeq>>
      BY <2>12 DEF CancelContext, LoseFrames
    <3>2. QED
      BY <3>1 DEF Paced, AtEnd
  <2>13. CASE GetCurrent(p)
    <3>1. /\ UNCHANGED <<slots, elapsed, target, late>>
          /\ \/ pc[p] = "getSkip" /\ pc'[p] = "skipFrame"
             \/ pc[p] = "getSend" /\ pc'[p] = "write"
      BY <2>13 DEF GetCurrent, GotFrame, InGet, SessionShape
    <3>2. QED
      BY <2>2, <2>3, <2>4, <3>1
  <2>14. CASE GetPastEnd(p) \/ GetFails(p)
    <3>1. emptyRuns[p] >= EmptyChunkGuard \/ emptyRuns[p] < EmptyChunkGuard
      BY DEF SessionShape, EmptyChunkGuard
    <3>2. /\ UNCHANGED <<elapsed, target, seq, maxSeq>> /\ pc[p] \in {"getSkip", "getSend"}
          /\ \/ pc'[p] = "done"
             \/ pc[p] = "getSkip" /\ pc'[p] = "slot" /\ UNCHANGED slots
             \/ pc'[p] = "pace"
      BY <2>14, <3>1 DEF GetPastEnd, GetFails, GotNothing, InGet, NeedsChunk, SessionShape
    <3>3. p \in late' \/ AtEnd(p)
      BY <2>14 DEF GetPastEnd, GetFails
    <3>4. AtEnd(p)' <=> AtEnd(p)
      BY <3>2 DEF AtEnd
    <3>5. QED
      BY <2>2, <2>3, <2>4, <3>2, <3>3, <3>4
  <2>15. QED
    BY <1>2, <2>5, <2>6, <2>7, <2>8, <2>9, <2>10, <2>11, <2>12, <2>13, <2>14 DEF PlainStep
<1>3. ASSUME NEW p \in Sessions, GetAnswer(p) PROVE Paced'
  <2>1. PICK c : Answered(p, c)
    BY <1>3, GetIsAnswered
  <2>2. /\ UNCHANGED <<slots, elapsed, target, late, maxSeq>> /\ pc[p] \in {"getSkip", "getSend"}
        /\ Jump(p, c) \/ Take(p, c)
    BY <2>1 DEF Answered, InGet
  <2>3. \A q \in Sessions \ {p} : pc'[q] = pc[q] /\ seq'[q] = seq[q]
    BY <2>2 DEF Jump, Take, SessionShape
  <2>4. \/ pc'[p] = pc[p]
        \/ pc[p] = "getSkip" /\ pc'[p] = "skipFrame"
        \/ pc[p] = "getSend" /\ pc'[p] = "write"
    BY <2>2 DEF Jump, Take, SessionShape
  <2>5. \A q \in Sessions \ {p} :
          /\ pc'[q] = pc[q] /\ slots'[q] = slots[q] /\ elapsed'[q] = elapsed[q] /\ target'[q] = target[q]
          /\ q \in late' <=> q \in late
          /\ AtEnd(q)' <=> AtEnd(q)
    BY <2>2, <2>3 DEF AtEnd
  <2>6. QED
    BY <2>2, <2>4, <2>5 DEF Paced
<1>4. QED
  BY <1>1, <1>2, <1>3, NextCases

LEMMA InitPInv == Init => PInv
<1> SUFFICES ASSUME Init PROVE PInv
  OBVIOUS
<1>1. StoreShape
  BY SeqAssumption DEF Init, StoreShape, NotConnected, Seqs
<1>2. SessionShape
  BY SeqAssumption, EnvAssumption DEF Init, SessionShape, Locations, Seqs, EmptyChunkGuard
<1>3. ChunkKept /\ Paced
  BY DEF Init, ChunkKept, Paced
<1>4. QED
  BY <1>1, <1>2, <1>3 DEF PInv

LEMMA NextPInv == PInv /\ [Next]_vars => PInv'
<1> SUFFICES ASSUME PInv, [Next]_vars PROVE PInv'
  OBVIOUS
<1> USE DEF PInv
<1>1. CASE Next
  BY <1>1, StoreShapeStep, SessionShapeStep, ChunkKeptStep, PacedStep
<1>2. CASE UNCHANGED vars
  <2>1. StoreShape' /\ SessionShape'
    BY <1>2 DEF vars, managerVars, paceVars, storeVars, StoreShape, SessionShape
  <2>2. ChunkKept' /\ Paced'
    BY <1>2 DEF vars, managerVars, paceVars, storeVars, ChunkKept, Paced, AtEnd
  <2>3. QED
    BY <2>1, <2>2
<1>3. QED
  BY <1>1, <1>2

LEMMA Invariant == Spec => []PInv
<1>1. QED
  BY InitPInv, NextPInv, PTL DEF Spec

\* Types: among them, that whatever the cursor, the index get asks for is one of the
\* indexes of the stream's chunks, so that the bound of wantSeq is all that is needed.
THEOREM TypeCorrect == Spec => []TypeOK
<1>1. PInv => TypeOK
  <2> SUFFICES ASSUME PInv PROVE TypeOK
    OBVIOUS
  <2>1. \A i \in Indexes : IsChunk(cache[i])
    BY DEF PInv, StoreShape, GoodChunk, IsChunk
  <2>2. ASSUME NEW p \in Sessions
        PROVE  IsChunk(chunk[p]) /\ (InGet(p) /\ ~AtEnd(p) => IndexOf(p) \in Indexes)
    <3>1. IsChunk(chunk[p])
      BY DEF PInv, ChunkKept, GoodChunk, IsChunk
    <3>2. QED
      BY <3>1, IndexInRange DEF PInv
  <2>3. QED
    BY <2>1, <2>2 DEF PInv, StoreShape, SessionShape, TypeOK
<1>2. QED
  BY <1>1, Invariant, PTL

\* The frame get hands out is the first of its chunk that is not behind seq, although
\* get and advance move pos and seq separately; only frames that are taken away from a
\* session that has found them leave its position without one.
THEOREM CursorInSyncCorrect == Spec => []CursorInSync
<1>1. PInv => CursorInSync
  <2> SUFFICES ASSUME PInv, NEW p \in Sessions, pc[p] \in {"skipFrame", "write"}
               PROVE  /\ chunk[p] # NoChunk
                      /\ \/ FramesLost(p)
                         \/ /\ pos[p] \in DOMAIN chunk[p].frames
                            /\ pos[p] = SearchPos(chunk[p].frames, seq[p])
    BY DEF CursorInSync
  <2>1. chunk[p] # NoChunk /\ GoodChunk(chunk[p])
    BY DEF PInv, ChunkKept
  <2>2. ASSUME ~FramesLost(p)
        PROVE  pos[p] \in 1..Len(chunk[p].frames) /\ pos[p] = SearchPos(chunk[p].frames, seq[p])
    BY <2>1, <2>2 DEF PInv, ChunkKept, FramesLost
  <2>3. DOMAIN chunk[p].frames = 1..Len(chunk[p].frames)
    BY <2>1, GoodHasFrames, FramesFacts
  <2>4. QED
    BY <2>1, <2>2, <2>3
<1>2. QED
  BY <1>1, Invariant, PTL

\* No frame is sent before its slot begins: the catch-up loop never runs past the clock.
THEOREM NeverAheadCorrect == Spec => []NeverAhead
<1>1. PInv => NeverAhead
  <2> SUFFICES ASSUME PInv, NEW p \in Sessions, pc[p] = "write" PROVE slots[p] <= elapsed[p]
    BY DEF NeverAhead
  <2>1. slots[p] <= target[p] /\ target[p] <= elapsed[p]
    BY DEF PInv, Paced
  <2>2. slots[p] \in Nat /\ target[p] \in Nat /\ elapsed[p] \in Nat
    BY EnvAssumption DEF PInv, SessionShape
  <2>3. QED
    BY <2>1, <2>2
<1>2. QED
  BY <1>1, Invariant, PTL

\* No frame is sent for a slot that had passed when the round began, unless a get of the
\* round failed: the catch-up loop does not give up early.
THEOREM OnTimeCorrect == Spec => []OnTime
<1>1. PInv => OnTime
  BY DEF PInv, Paced, OnTime
<1>2. QED
  BY <1>1, Invariant, PTL

-----------------------------------------------------------------------------
(***************************************************************************)
(* seq moves forward, as long as all sessions began at the same frame      *)
(***************************************************************************)
\* The first frames that the snapshots of the connected sessions and peers have.
Origin(m) ==
  \/ \E p \in Sessions : pc[p] # "idle" /\ m = minSeq[p]
  \/ \E q \in Peers : snapshot[q] # NotConnected /\ m = snapshot[q].MinSeq

\* Every cached chunk is counted from the first frame of some snapshot, and as long as they
\* all agree no cursor is in front of it.
Counted ==
  /\ \A i \in Indexes : cache[i] # NoChunk => \E m : Origin(m) /\ cache[i].start = m + i * ChunkN
  /\ \A p \in Sessions : pc[p] # "idle" /\ SameStart(p) => minSeq[p] <= seq[p]

\* The chunk the store answers with starts where the session's own count puts it.
LEMMA AnswerStart ==
  ASSUME StoreShape, SessionShape, Counted, NEW p \in Sessions, SameStart(p), NEW c, Answered(p, c)
  PROVE  c.start \in Nat /\ c.start <= seq[p] /\ seq[p] < c.start + ChunkN
<1>1. pc[p] # "idle" /\ ~AtEnd(p) /\ IndexOf(p) \in Indexes /\ c.start \in Nat
  BY GoodHasFrames DEF Answered, InGet
<1>2. minSeq[p] <= seq[p]
  BY <1>1 DEF Counted
<1>3. c.start = StartOf(p)
  <2>1. \A m : Origin(m) => m = minSeq[p]
    BY DEF SameStart, Origin
  <2>2. cache[IndexOf(p)] # NoChunk => cache[IndexOf(p)].start = StartOf(p)
    BY <1>1, <2>1 DEF Counted, StartOf
  <2>3. Loaded(StartOf(p)).start = StartOf(p)
    BY DEF Loaded
  <2>4. QED
    BY <2>2, <2>3 DEF Answered
<1>4. QED
  BY <1>1, <1>2, <1>3, IndexInRange

\* A snapshot is taken once.
LEMMA SnapshotsStay ==
  ASSUME StoreShape, SessionShape, Next
  PROVE  /\ \A p \in Sessions : pc[p] # "idle" => minSeq'[p] = minSeq[p] /\ pc'[p] # "idle"
         /\ \A q \in Peers : snapshot[q] # NotConnected => snapshot'[q] = snapshot[q]
<1> USE DEF managerVars, paceVars, storeVars, Goto, Finish
<1> DEFINE Kept(q) == minSeq'[q] = minSeq[q] /\ pc'[q] # "idle"
<1>1. CASE StoreMoves
  <2>1. UNCHANGED <<minSeq, pc>>
    BY <1>1 DEF StoreMoves, Evict, PeerConnects, PeerLoads, AppendRow, TrimFirst
  <2>2. ASSUME NEW q \in Peers, snapshot[q] # NotConnected PROVE snapshot'[q] = snapshot[q]
    <3>1. UNCHANGED snapshot \/ \E r \in Peers : snapshot[r] = NotConnected /\ \E d : snapshot' = [snapshot EXCEPT ![r] = d]
      BY <1>1 DEF StoreMoves, Evict, PeerConnects, PeerLoads, AppendRow, TrimFirst
    <3>2. QED
      BY <2>2, <3>1 DEF StoreShape
  <2>3. QED
    BY <2>1, <2>2
<1>2. ASSUME NEW p \in Sessions, PlainStep(p)
      PROVE  UNCHANGED snapshot /\ \A q \in Sessions : pc[q] # "idle" => Kept(q)
  <2>1. Others(p) /\ UNCHANGED snapshot
    BY <1>2, OthersStand
  <2>2. ASSUME pc[p] # "idle" PROVE Kept(p)
    <3>1. emptyRuns[p] >= EmptyChunkGuard \/ emptyRuns[p] < EmptyChunkGuard
      BY DEF SessionShape, EmptyChunkGuard
    <3>2. UNCHANGED minSeq
      BY <1>2, <2>2 DEF PlainStep, Connect, Tick, CancelContext, LoseFrames, Panics, StartRound, CatchUp, CurrentSlot,
         SkipFrame, WriteFrame, WriteError, Pace, TimerFires, SeeCancelled, GetPastEnd, GetCurrent, GetFails
    <3>3. pc'[p] # "idle"
      BY <1>2, <2>2, <3>1 DEF PlainStep, Connect, Tick, CancelContext, LoseFrames, Panics, StartRound, CatchUp,
         CurrentSlot, SkipFrame, WriteFrame, WriteError, Pace, TimerFires, SeeCancelled, GetPastEnd, GetCurrent,
         GetFails, GotFrame, GotNothing, SessionShape
    <3>4. QED
      BY <3>2, <3>3
  <2>3. QED
    BY <2>1, <2>2 DEF Others
<1>3. ASSUME NEW p \in Sessions, GetAnswer(p)
      PROVE  UNCHANGED snapshot /\ \A q \in Sessions : pc[q] # "idle" => Kept(q)
  <2>1. PICK c : Answered(p, c)
    BY <1>3, GetIsAnswered
  <2>2. UNCHANGED <<snapshot, minSeq>> /\ (Jump(p, c) \/ Take(p, c))
    BY <2>1 DEF Answered
  <2>3. \A q \in Sessions : pc[q] # "idle" => pc'[q] # "idle"
    BY <2>2 DEF Jump, Take, SessionShape
  <2>4. QED
    BY <2>2, <2>3
<1>4. QED
  BY <1>1, <1>2, <1>3, NextCases

\* So the first frames stay, and snapshots that disagree go on doing so.
LEMMA OriginsStay ==
  ASSUME StoreShape, SessionShape, Next
  PROVE  /\ \A m : Origin(m) => Origin(m)'
         /\ \A p \in Sessions : pc[p] # "idle" /\ SameStart(p)' => SameStart(p)
<1>1. ASSUME NEW m, Origin(m) PROVE Origin(m)'
  <2>1. CASE \E p \in Sessions : pc[p] # "idle" /\ m = minSeq[p]
    <3>1. \E p \in Sessions : pc'[p] # "idle" /\ m = minSeq'[p]
      BY <2>1, SnapshotsStay
    <3>2. QED
      BY <3>1 DEF Origin
  <2>2. CASE \E q \in Peers : snapshot[q] # NotConnected /\ m = snapshot[q].MinSeq
    <3>1. \E q \in Peers : snapshot'[q] # NotConnected /\ m = snapshot'[q].MinSeq
      BY <2>2, SnapshotsStay
    <3>2. QED
      BY <3>1 DEF Origin, NotConnected
  <2>3. QED
    BY <1>1, <2>1, <2>2 DEF Origin
<1>2. ASSUME NEW p \in Sessions, pc[p] # "idle", SameStart(p)' PROVE SameStart(p)
  <2>1. \A q \in Sessions : pc[q] # "idle" => minSeq[q] = minSeq[p]
    BY <1>2, SnapshotsStay DEF SameStart
  <2>2. \A q \in Peers : snapshot[q] # NotConnected => snapshot[q].MinSeq = minSeq[p]
    <3>1. ASSUME NEW q \in Peers, snapshot[q] # NotConnected PROVE snapshot[q].MinSeq = minSeq[p]
      <4>1. snapshot'[q] = snapshot[q] /\ minSeq'[p] = minSeq[p]
        BY <1>2, <3>1, SnapshotsStay
      <4>2. snapshot'[q] # NotConnected => snapshot'[q].MinSeq = minSeq'[p]
        BY <1>2 DEF SameStart, NotConnected
      <4>3. QED
        BY <3>1, <4>1, <4>2
    <3>2. QED
      BY <3>1
  <2>3. QED
    BY <2>1, <2>2 DEF SameStart
<1>3. QED
  BY <1>1, <1>2

\* A cursor moves only behind the frame at hand, or behind the chunk it passes over.
LEMMA SeqStep ==
  ASSUME StoreShape, SessionShape, ChunkKept, Counted, Next,
         NEW q \in Sessions, pc[q] # "idle", SameStart(q)
  PROVE  seq'[q] >= seq[q]
<1> USE DEF managerVars, paceVars, storeVars, Goto, Finish
<1>1. seq[q] \in Nat
  BY DEF SessionShape
<1>2. CASE StoreMoves
  BY <1>1, <1>2 DEF StoreMoves, Evict, PeerConnects, PeerLoads, AppendRow, TrimFirst
<1>3. ASSUME NEW p \in Sessions, PlainStep(p) PROVE seq'[q] >= seq[q]
  <2>1. CASE q # p
    BY <1>1, <1>3, <2>1, OthersStand DEF Others
  <2>2. CASE q = p /\ (SkipFrame(p) \/ WriteFrame(p))
    <3>1. PICK f \in Nat : f = chunk[p].frames[pos[p]] /\ f >= seq[p]
      BY <2>2, FrameAtHand DEF SkipFrame, WriteFrame
    <3>2. seq'[p] = f + 1
      BY <2>2, <3>1 DEF SkipFrame, WriteFrame, Advance, SessionShape
    <3>3. QED
      BY <1>1, <2>2, <3>1, <3>2
  <2>3. CASE q = p /\ ~(SkipFrame(p) \/ WriteFrame(p))
    <3>1. UNCHANGED seq
      BY <1>3, <2>3 DEF PlainStep, Connect, Tick, CancelContext, LoseFrames, Panics, StartRound, CatchUp, CurrentSlot,
         WriteError, Pace, TimerFires, SeeCancelled, GetPastEnd, GetCurrent, GetFails
    <3>2. QED
      BY <1>1, <3>1
  <2>4. QED
    BY <2>1, <2>2, <2>3
<1>4. ASSUME NEW p \in Sessions, GetAnswer(p) PROVE seq'[q] >= seq[q]
  <2>1. PICK c : Answered(p, c)
    BY <1>4, GetIsAnswered
  <2>2. Jump(p, c) \/ Take(p, c)
    BY <2>1 DEF Answered
  <2>3. CASE Jump(p, c)
    <3>1. seq'[q] = IF q = p THEN c.start + ChunkN ELSE seq[q]
      BY <2>3 DEF Jump, SessionShape
    <3>2. CASE q = p
      BY <1>1, <2>1, <3>1, <3>2, AnswerStart, ChunkAssumption
    <3>3. CASE q # p
      BY <1>1, <3>1, <3>3
    <3>4. QED
      BY <3>2, <3>3
  <2>4. CASE Take(p, c)
    BY <1>1, <2>4 DEF Take
  <2>5. QED
    BY <2>2, <2>3, <2>4
<1>5. QED
  BY <1>2, <1>3, <1>4, NextCases

\* A session that connects starts at the first frame of its snapshot.
LEMMA ConnectStart ==
  ASSUME StoreShape, SessionShape, Next, NEW p \in Sessions, pc[p] = "idle", pc'[p] # "idle"
  PROVE  /\ UNCHANGED <<table, cache, snapshot>> /\ table # {} /\ Min(table) \in Nat
         /\ minSeq'[p] = Min(table) /\ seq'[p] = Min(table)
<1> USE DEF managerVars, paceVars, storeVars, Goto, Finish
<1>1. ~StoreMoves
  BY DEF StoreMoves, Evict, PeerConnects, PeerLoads, AppendRow, TrimFirst
<1>2. ASSUME NEW q \in Sessions, GetAnswer(q) PROVE FALSE
  <2>1. PICK c : Answered(q, c)
    BY <1>2, GetIsAnswered
  <2>2. pc[q] \in {"getSkip", "getSend"} /\ (Jump(q, c) \/ Take(q, c))
    BY <2>1 DEF Answered, InGet
  <2>3. pc'[p] = pc[p]
    BY <2>2 DEF Jump, Take, SessionShape
  <2>4. QED
    BY <2>3
<1>3. ASSUME NEW q \in Sessions, PlainStep(q) PROVE Connect(p)
  <2>1. q = p
    BY <1>3, OthersStand DEF Others
  <2>2. QED
    BY <1>3, <2>1 DEF PlainStep, Tick, CancelContext, LoseFrames, Panics, StartRound, CatchUp, CurrentSlot,
       SkipFrame, WriteFrame, WriteError, Pace, TimerFires, SeeCancelled, GetPastEnd, GetCurrent, GetFails,
       InGet, NeedsChunk
<1>4. Connect(p)
  BY <1>1, <1>2, <1>3, NextCases
<1>5. table \subseteq Seqs /\ LoadStreamMeta.Count # 0
  BY <1>4 DEF Connect, StoreShape
<1>6. UNCHANGED <<table, cache, snapshot>> /\ minSeq'[p] = Min(table) /\ seq'[p] = Min(table)
  BY <1>4, <1>5, MetaBounds DEF Connect, NewStreamSession, SessionShape
<1>7. QED
  BY <1>5, <1>6, MetaBounds

LEMMA CountedStep ==
  ASSUME StoreShape, SessionShape, ChunkKept, Counted, Next
  PROVE  Counted'
<1> USE DEF managerVars, paceVars, storeVars, Goto, Finish
<1>1. ASSUME NEW p \in Sessions, pc'[p] # "idle", SameStart(p)'
      PROVE  minSeq'[p] <= seq'[p]
  <2>1. CASE pc[p] # "idle"
    <3>1. SameStart(p) /\ minSeq[p] <= seq[p]
      BY <1>1, <2>1, OriginsStay DEF Counted
    <3>2. minSeq'[p] = minSeq[p] /\ seq'[p] >= seq[p]
      BY <2>1, <3>1, SnapshotsStay, SeqStep
    <3>3. seq[p] \in Nat /\ seq'[p] \in Nat /\ minSeq[p] \in Nat
      BY SessionShapeStep, SeqsFinite DEF SessionShape
    <3>4. QED
      BY <3>1, <3>2, <3>3
  <2>2. CASE pc[p] = "idle"
    BY <1>1, <2>2, ConnectStart
  <2>3. QED
    BY <2>1, <2>2
<1> DEFINE From(i) == \E m : Origin(m) /\ cache'[i].start = m + i * ChunkN
<1>2. ASSUME NEW i \in Indexes, cache'[i] # NoChunk PROVE From(i)
  <2>1. ASSUME cache[i] # NoChunk, cache'[i] = cache[i] PROVE From(i)
    BY <2>1 DEF Counted
  <2>2. CASE \E q \in Peers : PeerLoads(q)
    <3>1. PICK q \in Peers : PeerLoads(q)
      BY <2>2
    <3>2. PICK k : cache' = [cache EXCEPT ![k] = Loaded(snapshot[q].MinSeq + k * ChunkN)]
      BY <3>1 DEF PeerLoads
    <3>3. Origin(snapshot[q].MinSeq)
      BY <3>1 DEF PeerLoads, Origin
    <3>4. CASE i = k
      <4>1. cache'[i].start = snapshot[q].MinSeq + i * ChunkN
        BY <3>2, <3>4 DEF StoreShape, Loaded
      <4>2. QED
        BY <3>3, <4>1
    <3>5. CASE i # k
      <4>1. cache'[i] = cache[i]
        BY <3>2, <3>5 DEF StoreShape
      <4>2. QED
        BY <1>2, <2>1, <4>1
    <3>6. QED
      BY <3>4, <3>5
  <2>3. CASE StoreMoves /\ ~(\E q \in Peers : PeerLoads(q))
    <3>1. cache'[i] \in {NoChunk, cache[i]}
      BY <2>3 DEF StoreMoves, Evict, PeerConnects, AppendRow, TrimFirst, StoreShape
    <3>2. QED
      BY <1>2, <2>1, <3>1
  <2>4. ASSUME NEW p \in Sessions, PlainStep(p) PROVE From(i)
    <3>1. UNCHANGED cache
      BY <2>4, OthersStand
    <3>2. QED
      BY <1>2, <2>1, <3>1
  <2>5. ASSUME NEW p \in Sessions, GetAnswer(p) PROVE From(i)
    <3>1. PICK c : Answered(p, c)
      BY <2>5, GetIsAnswered
    <3>2. Origin(minSeq[p])
      BY <3>1 DEF Answered, InGet, Origin
    <3>3. \/ cache'[i] = cache[i] \/ cache'[i] = NoChunk
          \/ i = IndexOf(p) /\ cache'[i] = Loaded(StartOf(p))
      BY <3>1 DEF Answered, StoreShape
    <3>4. Loaded(StartOf(p)).start = minSeq[p] + IndexOf(p) * ChunkN
      BY DEF Loaded, StartOf
    <3>5. CASE i = IndexOf(p) /\ cache'[i] = Loaded(StartOf(p))
      BY <3>2, <3>4, <3>5
    <3>6. QED
      BY <1>2, <2>1, <3>3, <3>5
  <2>6. QED
    BY <2>2, <2>3, <2>4, <2>5, NextCases
<1>3. ASSUME NEW i \in Indexes, cache'[i] # NoChunk
      PROVE  \E m : Origin(m)' /\ cache'[i].start = m + i * ChunkN
  BY <1>2, <1>3, OriginsStay
<1>4. QED
  BY <1>1, <1>3 DEF Counted

LEMMA CountedInvariant == Spec => [](PInv /\ Counted)
<1>1. Init => Counted
  BY DEF Init, Counted
<1>2. PInv /\ Counted /\ [Next]_vars => Counted'
  <2> SUFFICES ASSUME PInv, Counted, [Next]_vars PROVE Counted'
    OBVIOUS
  <2>1. CASE Next
    BY <2>1, CountedStep DEF PInv
  <2>2. CASE UNCHANGED vars
    BY <2>2 DEF vars, managerVars, storeVars, Counted, Origin, SameStart
  <2>3. QED
    BY <2>1, <2>2
<1>3. QED
  BY <1>1, <1>2, Invariant, PTL DEF Spec

\* seq never moves back while all sessions began at the same frame, whatever is appended,
\* deleted, evicted, reclaimed or fails, and whoever loads the chunks: each is counted
\* from the first frame of a snapshot, and the snapshots agree.
THEOREM SeqForwardCorrect == Spec => SeqForward
<1> DEFINE Forward == \A p \in Sessions : Playing(p) /\ SameStart(p) => seq'[p] >= seq[p]
<1>1. PInv /\ Counted /\ [Next]_vars => [Forward]_vars
  BY SeqStep DEF PInv, Playing
<1>2. QED
  BY <1>1, CountedInvariant, PTL DEF Spec, SeqForward

-----------------------------------------------------------------------------
(***************************************************************************)
(* Nothing is jumped, over a table that does not change                    *)
(***************************************************************************)
LEMMA TableStands ==
  ASSUME TableWrites = {}, StoreShape, SessionShape, Next
  PROVE  UNCHANGED table /\ \A start : Loaded(start)' = Loaded(start)
<1>1. UNCHANGED table
  <2>1. CASE StoreMoves
    BY <2>1 DEF StoreMoves, Evict, PeerConnects, PeerLoads, AppendRow, TrimFirst
  <2>2. ASSUME NEW p \in Sessions, PlainStep(p) PROVE UNCHANGED table
    BY <2>2, OthersStand DEF storeVars
  <2>3. ASSUME NEW p \in Sessions, GetAnswer(p) PROVE UNCHANGED table
    BY <2>3, GetIsAnswered DEF Answered
  <2>4. QED
    BY <2>1, <2>2, <2>3, NextCases
<1>2. QED
  BY <1>1 DEF Loaded, Rows

\* Over such a table every snapshot begins at its first row.
Anchored ==
  /\ \A p \in Sessions : pc[p] # "idle" => minSeq[p] = Min(table)
  /\ \A q \in Peers : snapshot[q] # NotConnected => snapshot[q].MinSeq = Min(table)

LEMMA AnchoredSame ==
  ASSUME Anchored, NEW p \in Sessions, pc[p] # "idle"
  PROVE  SameStart(p)
  BY DEF Anchored, SameStart

LEMMA AnchoredStep ==
  ASSUME TableWrites = {}, StoreShape, SessionShape, Anchored, Next
  PROVE  Anchored'
<1> USE DEF managerVars, paceVars, storeVars, Goto, Finish
<1>1. UNCHANGED table
  BY TableStands
<1>2. ASSUME NEW p \in Sessions, pc'[p] # "idle" PROVE minSeq'[p] = Min(table)
  <2>1. CASE pc[p] # "idle"
    BY <2>1, SnapshotsStay DEF Anchored
  <2>2. CASE pc[p] = "idle"
    BY <1>2, <2>2, ConnectStart
  <2>3. QED
    BY <2>1, <2>2
<1>3. ASSUME NEW q \in Peers, snapshot'[q] # NotConnected PROVE snapshot'[q].MinSeq = Min(table)
  <2>1. CASE snapshot[q] # NotConnected
    BY <2>1, SnapshotsStay DEF Anchored
  <2>2. CASE snapshot[q] = NotConnected
    <3>1. CASE \E r \in Peers : PeerConnects(r)
      <4>1. PICK r \in Peers : PeerConnects(r)
        BY <3>1
      <4>2. LoadStreamMeta.MinSeq = Min(table)
        BY <4>1, MetaBounds DEF PeerConnects, StoreShape
      <4>3. PICK d : d = [MinSeq |-> LoadStreamMeta.MinSeq, MaxSeq |-> LoadStreamMeta.MaxSeq]
                     /\ snapshot' = [snapshot EXCEPT ![r] = d]
        BY <4>1 DEF PeerConnects
      <4>4. d.MinSeq = Min(table)
        BY <4>2, <4>3
      <4>5. snapshot'[q] = d \/ snapshot'[q] = snapshot[q]
        BY <4>3 DEF StoreShape
      <4>6. QED
        BY <1>3, <2>2, <4>4, <4>5
    <3>2. CASE ~(\E r \in Peers : PeerConnects(r))
      <4>1. UNCHANGED snapshot
        <5>1. CASE StoreMoves
          BY <3>2, <5>1 DEF StoreMoves, Evict, PeerLoads, AppendRow, TrimFirst
        <5>2. ASSUME NEW p \in Sessions, PlainStep(p) PROVE UNCHANGED snapshot
          BY <5>2, OthersStand
        <5>3. ASSUME NEW p \in Sessions, GetAnswer(p) PROVE UNCHANGED snapshot
          BY <5>3, GetIsAnswered DEF Answered
        <5>4. QED
          BY <5>1, <5>2, <5>3, NextCases
      <4>2. QED
        BY <1>3, <2>2, <4>1
    <3>3. QED
      BY <3>1, <3>2
  <2>3. QED
    BY <2>1, <2>2
<1>4. QED
  BY <1>1, <1>2, <1>3 DEF Anchored, NotConnected

LEMMA AnchoredInvariant ==
  ASSUME TableWrites = {}
  PROVE  Spec => [](PInv /\ Counted /\ Anchored)
<1>1. Init => Anchored
  BY DEF Init, Anchored
<1>2. PInv /\ Anchored /\ [Next]_vars => Anchored'
  <2> SUFFICES ASSUME PInv, Anchored, [Next]_vars PROVE Anchored'
    OBVIOUS
  <2>1. CASE Next
    BY <2>1, AnchoredStep DEF PInv
  <2>2. CASE UNCHANGED vars
    BY <2>2 DEF vars, managerVars, storeVars, Anchored
  <2>3. QED
    BY <2>1, <2>2
<1>3. QED
  BY <1>1, <1>2, CountedInvariant, PTL DEF Spec

\* The rows of a chunk have no gap: a row between the start and one of them is one too.
LEMMA RowsConvex ==
  ASSUME table \subseteq Seqs, NEW start \in Nat, NEW f \in Rows(start),
         NEW g \in table, start <= g, g <= f
  PROVE  g \in Rows(start)
<1>1. f \in Nat /\ g \in Nat /\ \A r \in table : r \in Nat
  BY SeqsFinite DEF Rows
<1> DEFINE B(x) == {r \in table : start <= r /\ r < x}
<1>2. B(g) \subseteq B(f) /\ B(f) \subseteq Seqs
  <2>1. ASSUME NEW r \in table, r < g PROVE r < f
    BY <1>1, <2>1
  <2>2. QED
    BY <2>1
<1>3. IsFiniteSet(B(f)) /\ Cardinality(B(f)) < ChunkN
  BY <1>2, SeqsFinite, FS_Subset DEF Rows
<1>4. /\ Cardinality(B(g)) <= Cardinality(B(f))
      /\ Cardinality(B(g)) \in Nat /\ Cardinality(B(f)) \in Nat
  BY <1>2, <1>3, FS_Subset, FS_CardinalityType
<1>5. Cardinality(B(g)) < ChunkN
  BY <1>3, <1>4, ChunkAssumption
<1>6. QED
  BY <1>1, <1>5 DEF Rows

\* Every row less than ChunkN behind the start is among the rows of the chunk.
LEMMA RowsReach ==
  ASSUME table \subseteq Seqs, NEW start \in Nat,
         NEW g \in table, start <= g, g < start + ChunkN
  PROVE  g \in Rows(start)
<1>1. g \in Nat /\ (\A r \in table : r \in Nat) /\ ChunkN \in Nat
  BY SeqsFinite, ChunkAssumption
<1> DEFINE B == {r \in table : start <= r /\ r < g}
<1>2. B \subseteq start..(g - 1)
  <2>1. ASSUME NEW r \in table, start <= r, r < g PROVE r \in start..(g - 1)
    BY <1>1, <2>1
  <2>2. QED
    BY <2>1
<1>3. IsFiniteSet(start..(g - 1)) /\ Cardinality(start..(g - 1)) = IF start > g - 1 THEN 0 ELSE (g - 1) - start + 1
  BY <1>1, FS_Interval
<1>4. Cardinality(B) <= Cardinality(start..(g - 1)) /\ Cardinality(B) \in Nat
  BY <1>2, <1>3, FS_Subset, FS_CardinalityType
<1>5. Cardinality(start..(g - 1)) < ChunkN
  BY <1>1, <1>3, ChunkAssumption
<1>6. Cardinality(B) < ChunkN
  BY <1>1, <1>3, <1>4, <1>5
<1>7. QED
  BY <1>6 DEF Rows

\* The frames of a loaded chunk are its rows without the oversize ones.
LEMMA LoadedFrames ==
  ASSUME table \subseteq Seqs, NEW start \in Nat
  PROVE  /\ \A i \in 1..Len(Loaded(start).frames) : Loaded(start).frames[i] \in Rows(start) \ Oversize
         /\ \A x \in Rows(start) \ Oversize :
              \E i \in 1..Len(Loaded(start).frames) : Loaded(start).frames[i] = x
<1>1. PICK S : S = Rows(start) \ Oversize
  OBVIOUS
<1>2. PICK s : s = Sorted(S)
  OBVIOUS
<1>3. S \subseteq Seqs
  BY <1>1 DEF Rows
<1>4. (\A i \in 1..Len(s) : s[i] \in S) /\ \A x \in S : \E i \in 1..Len(s) : s[i] = x
  BY <1>2, <1>3, SortedLists
<1>5. Loaded(start).frames = s
  BY <1>1, <1>2 DEF Loaded
<1>6. QED
  BY <1>1, <1>4, <1>5

\* Chunks are what the table says; the one a session keeps has its frames and starts at
\* or before its cursor, and what is due lies ahead.
Covered ==
  /\ \A i \in Indexes : cache[i] # NoChunk => cache[i] = Loaded(cache[i].start)
  /\ \A p \in Sessions :
       /\ chunk[p] # NoChunk =>
            chunk[p] = Loaded(chunk[p].start) /\ chunk[p].start <= seq[p] /\ chunk[p].frames # <<>>
       /\ due[p] \subseteq table \ Oversize
       /\ \A f \in due[p] : f >= seq[p]

\* No session loses its frames, now or later.
LEMMA FramesStay ==
  ASSUME Covered, NEW p \in Sessions
  PROVE  ~FramesLost(p) /\ ~LoseFrames(p) /\ ~Panics(p)
<1>1. ~FramesLost(p)
  BY DEF Covered, FramesLost
<1>2. ASSUME LoseFrames(p) PROVE FALSE
  <2>1. chunk[p] = Loaded(chunk[p].start) /\ chunk[p].finalizing
    BY <1>2 DEF Covered, LoseFrames
  <2>2. Loaded(chunk[p].start).finalizing = FALSE
    BY DEF Loaded
  <2>3. QED
    BY <2>1, <2>2
<1>3. QED
  BY <1>1, <1>2 DEF Panics

\* The frame at hand is the first of those that are due.
LEMMA FirstDue ==
  ASSUME StoreShape, SessionShape, ChunkKept, Covered, NEW p \in Sessions,
         pc[p] \in {"skipFrame", "write"}, NEW g \in due[p]
  PROVE  g >= chunk[p].frames[pos[p]]
<1>1. PICK k, f \in Nat : k = pos[p] /\ f = chunk[p].frames[pos[p]]
  BY FrameAtHand, FramesStay DEF SessionShape
<1>2. PICK c : c = chunk[p]
  OBVIOUS
<1>3. /\ GoodChunk(c) /\ k \in 1..Len(c.frames) /\ f = c.frames[k] /\ k = SearchPos(c.frames, seq[p])
      /\ c = Loaded(c.start) /\ c.start <= seq[p] /\ c.start \in Nat
      /\ c.frames \in Seq(Seqs) /\ Ascending(c.frames)
  <2>1. chunk[p] # NoChunk /\ chunk[p].frames # <<>> /\ GoodChunk(chunk[p])
        /\ pos[p] \in 1..Len(chunk[p].frames) /\ pos[p] = SearchPos(chunk[p].frames, seq[p])
    BY DEF ChunkKept, Covered
  <2>2. c = Loaded(c.start) /\ c.start <= seq[p]
    BY <1>2, <2>1 DEF Covered
  <2>3. QED
    BY <1>1, <1>2, <2>1, <2>2, GoodHasFrames
<1>4. PICK n \in Nat : n = seq[p]
  BY DEF SessionShape
<1>5. g \in table \ Oversize /\ g >= n /\ g \in Nat
  BY <1>4, SeqsFinite DEF Covered, StoreShape
<1>6. PICK st \in Nat : st = c.start
  BY <1>3
<1>7. f \in Rows(st)
  BY <1>3, <1>6, LoadedFrames DEF StoreShape
<1>8. ASSUME g < f PROVE FALSE
  <2>1. g \in Rows(st)
    <3>1. st <= g /\ g <= f
      BY <1>1, <1>3, <1>4, <1>5, <1>6, <1>8
    <3>2. QED
      BY <1>5, <1>7, <3>1, RowsConvex DEF StoreShape
  <2>2. PICK i \in 1..Len(c.frames) : c.frames[i] = g
    BY <1>3, <1>5, <1>6, <2>1, LoadedFrames DEF StoreShape
  <2>3. Len(c.frames) \in Nat /\ DOMAIN c.frames = 1..Len(c.frames)
    BY <1>3, FramesFacts
  <2>4. c.frames[i] < n <=> i < k
    <3>1. PICK s : s = c.frames
      OBVIOUS
    <3>2. s \in Seq(Seqs) /\ Ascending(s) /\ i \in 1..Len(s) /\ n \in Int /\ k = SearchPos(s, n)
      BY <1>3, <1>4, <3>1
    <3>3. s[i] < n <=> i < SearchPos(s, n)
      BY <3>2, SearchSplits
    <3>4. QED
      BY <3>1, <3>2, <3>3
  <2>5. ~(i < k)
    BY <1>5, <2>2, <2>4
  <2>6. k < i
    BY <1>3, <1>8, <2>2, <2>3, <2>5
  <2>7. f < g
    BY <1>3, <2>2, <2>3, <2>6 DEF Ascending
  <2>8. QED
    BY <1>1, <1>5, <1>8, <2>7
<1>9. QED
  BY <1>1, <1>5, <1>8

\* A chunk that is passed over has nothing that is due, nor has the table up to
\* where the cursor lands.
LEMMA NothingPassed ==
  ASSUME ~Reclaims, StoreShape, SessionShape, Counted, Anchored, Covered,
         NEW p \in Sessions, NEW c, Answered(p, c), Jump(p, c), NEW g \in due[p]
  PROVE  g >= c.start + ChunkN
<1>1. PICK st \in Nat : st = c.start
  BY GoodHasFrames DEF Answered
<1>2. PICK n \in Nat : n = seq[p]
  BY DEF SessionShape
<1>3. st <= n /\ n < st + ChunkN
  <2>1. SameStart(p)
    BY AnchoredSame DEF Answered, InGet
  <2>2. QED
    BY <1>1, <1>2, <2>1, AnswerStart
<1>4. c = Loaded(st)
  <2>1. cache[IndexOf(p)] # NoChunk => cache[IndexOf(p)] = Loaded(cache[IndexOf(p)].start)
    BY DEF Covered, Answered
  <2>2. Loaded(StartOf(p)).start = StartOf(p)
    BY DEF Loaded
  <2>3. QED
    BY <1>1, <2>1, <2>2 DEF Answered
<1>5. g \in table \ Oversize /\ g >= n /\ g \in Nat
  BY <1>2, SeqsFinite DEF Covered, StoreShape
<1>6. ASSUME g < st + ChunkN PROVE FALSE
  <2>1. st <= g
    BY <1>3, <1>5
  <2>2. g \in Rows(st) \ Oversize
    BY <1>5, <1>6, <2>1, RowsReach DEF StoreShape
  <2>3. PICK i \in 1..Len(c.frames) : c.frames[i] = g
    BY <1>4, <2>2, LoadedFrames DEF StoreShape
  <2>4. c.frames[i] < n
    BY <1>2 DEF Jump
  <2>5. QED
    BY <1>5, <2>3, <2>4
<1>7. QED
  BY <1>1, <1>5, <1>6, ChunkAssumption

LEMMA CoveredStep ==
  ASSUME TableWrites = {}, ~Reclaims, StoreShape, SessionShape, ChunkKept, Counted, Anchored, Covered, Next
  PROVE  Covered'
<1> USE DEF managerVars, paceVars, storeVars, Goto, Finish
<1>1. UNCHANGED table /\ \A start : Loaded(start)' = Loaded(start)
  BY TableStands
<1> DEFINE Session(q) ==
             /\ chunk'[q] # NoChunk =>
                  chunk'[q] = Loaded(chunk'[q].start) /\ chunk'[q].start <= seq'[q] /\ chunk'[q].frames # <<>>
             /\ due'[q] \subseteq table \ Oversize
             /\ \A f \in due'[q] : f >= seq'[q]
<1>2. ASSUME NEW q \in Sessions, UNCHANGED <<chunk[q], seq[q], due[q]>> PROVE Session(q)
  BY <1>2 DEF Covered
<1>3. ASSUME NEW i \in Indexes, cache'[i] # NoChunk PROVE cache'[i] = Loaded(cache'[i].start)
  <2>1. ASSUME cache'[i] \in {NoChunk, cache[i]} PROVE cache'[i] = Loaded(cache'[i].start)
    BY <1>3, <2>1 DEF Covered
  <2>2. CASE StoreMoves
    <3>1. cache'[i] \in {NoChunk, cache[i]} \/ \E start : cache'[i] = Loaded(start)
      BY <2>2 DEF StoreMoves, Evict, PeerConnects, PeerLoads, AppendRow, TrimFirst, StoreShape
    <3>2. \A start : Loaded(start).start = start
      BY DEF Loaded
    <3>3. QED
      BY <2>1, <3>1, <3>2
  <2>3. ASSUME NEW p \in Sessions, PlainStep(p) PROVE cache'[i] = Loaded(cache'[i].start)
    BY <2>1, <2>3, OthersStand
  <2>4. ASSUME NEW p \in Sessions, GetAnswer(p) PROVE cache'[i] = Loaded(cache'[i].start)
    <3>1. PICK c : Answered(p, c)
      BY <2>4, GetIsAnswered
    <3>2. cache'[i] \in {NoChunk, cache[i]} \/ cache'[i] = Loaded(StartOf(p))
      BY <3>1 DEF Answered, StoreShape
    <3>3. Loaded(StartOf(p)).start = StartOf(p)
      BY DEF Loaded
    <3>4. QED
      BY <2>1, <3>2, <3>3
  <2>5. QED
    BY <2>2, <2>3, <2>4, NextCases
<1>4. ASSUME StoreMoves, NEW q \in Sessions PROVE Session(q)
  <2>1. UNCHANGED <<chunk, seq, due>>
    BY <1>4 DEF StoreMoves, Evict, PeerConnects, PeerLoads, AppendRow, TrimFirst
  <2>2. QED
    BY <1>2, <2>1
<1>5. ASSUME NEW p \in Sessions, PlainStep(p), NEW q \in Sessions PROVE Session(q)
  <2>1. CASE q # p
    BY <1>2, <1>5, <2>1, OthersStand DEF Others
  <2>2. CASE q = p /\ Connect(p)
    <3>1. LoadStreamMeta.Count # 0 /\ table \subseteq Seqs
      BY <2>2 DEF Connect, StoreShape
    <3>2. chunk'[p] = NoChunk /\ due'[p] = table \ Oversize /\ seq'[p] = Min(table)
      BY <2>2, <3>1, MetaBounds DEF Connect, NewStreamSession, ChunkKept, SessionShape
    <3>3. Min(table) \in Nat /\ \A f \in table : f \in Nat /\ Min(table) <= f
      BY <3>1, MetaBounds, TableBounds, SeqsFinite
    <3>4. QED
      BY <2>2, <3>2, <3>3
  <2>3. CASE q = p /\ (SkipFrame(p) \/ WriteFrame(p))
    <3>1. pc[p] \in {"skipFrame", "write"}
      BY <2>3 DEF SkipFrame, WriteFrame
    <3>2. PICK f \in Nat : f = chunk[p].frames[pos[p]] /\ f >= seq[p]
      BY <3>1, FrameAtHand, FramesStay
    <3>3. /\ seq'[p] = f + 1 /\ due'[p] = due[p] \ {f} /\ chunk'[p] = chunk[p]
      BY <2>3, <3>2 DEF SkipFrame, WriteFrame, Advance, SessionShape
    <3>4. \A g \in due[p] : g >= f /\ g \in Nat
      BY <3>1, <3>2, FirstDue, SeqsFinite DEF SessionShape
    <3>5. chunk[p] # NoChunk => chunk[p].start \in Nat /\ chunk[p].start <= f + 1
      <4>1. chunk[p] # NoChunk => chunk[p].start <= seq[p]
        BY DEF Covered
      <4>2. chunk[p] # NoChunk => chunk[p].start \in Nat
        BY GoodHasFrames DEF ChunkKept
      <4>3. seq[p] \in Nat
        BY DEF SessionShape
      <4>4. QED
        BY <3>2, <4>1, <4>2, <4>3
    <3>6. due[p] \subseteq table \ Oversize
      BY DEF Covered
    <3>7. \A g \in due'[p] : g >= f + 1
      BY <3>3, <3>4
    <3>8. chunk[p] # NoChunk => chunk[p] = Loaded(chunk[p].start) /\ chunk[p].frames # <<>>
      BY DEF Covered
    <3>9. QED
      BY <2>3, <3>3, <3>5, <3>6, <3>7, <3>8
  <2>4. CASE q = p /\ ~(Connect(p) \/ SkipFrame(p) \/ WriteFrame(p))
    <3>1. emptyRuns[p] >= EmptyChunkGuard \/ emptyRuns[p] < EmptyChunkGuard
      BY DEF SessionShape, EmptyChunkGuard
    <3>2. UNCHANGED <<seq, due>>
      BY <1>5, <2>4, FramesStay DEF PlainStep, Tick, CancelContext, StartRound, CatchUp, CurrentSlot,
         WriteError, Pace, TimerFires, SeeCancelled, GetPastEnd, GetCurrent, GetFails
    <3>3. chunk'[p] \in {NoChunk, chunk[p]}
      BY <1>5, <2>4, <3>1, FramesStay DEF PlainStep, Tick, CancelContext, StartRound, CatchUp, CurrentSlot,
         WriteError, Pace, TimerFires, SeeCancelled, GetPastEnd, GetCurrent, GetFails, GotFrame, GotNothing,
         SessionShape
    <3>4. QED
      BY <2>4, <3>2, <3>3 DEF Covered
  <2>5. QED
    BY <2>1, <2>2, <2>3, <2>4
<1>6. ASSUME NEW p \in Sessions, GetAnswer(p), NEW q \in Sessions PROVE Session(q)
  <2>1. PICK c : Answered(p, c)
    BY <1>6, GetIsAnswered
  <2>2. UNCHANGED due /\ (Jump(p, c) \/ Take(p, c))
    BY <2>1 DEF Answered
  <2>3. CASE Jump(p, c)
    <3>1. PICK n \in Nat : n = c.start + ChunkN
      BY <2>1, ChunkAssumption, GoodHasFrames DEF Answered
    <3>2. seq' = [seq EXCEPT ![p] = n] /\ chunk' = [chunk EXCEPT ![p] = NoChunk]
      BY <2>3, <3>1 DEF Jump
    <3>3. CASE q = p
      <4>1. seq'[q] = n /\ chunk'[q] = NoChunk
        BY <3>2, <3>3 DEF SessionShape
      <4>2. \A g \in due[q] : g >= n
        BY <2>1, <2>3, <3>1, <3>3, NothingPassed
      <4>3. QED
        BY <2>2, <4>1, <4>2 DEF Covered
    <3>4. CASE q # p
      BY <1>2, <2>2, <3>2, <3>4 DEF SessionShape
    <3>5. QED
      BY <3>3, <3>4
  <2>4. CASE Take(p, c)
    <3>0. c.start <= seq[p] /\ c.frames # <<>>
      <4>1. SameStart(p)
        BY <2>1, AnchoredSame DEF Answered, InGet
      <4>2. c.start <= seq[p]
        BY <2>1, <4>1, AnswerStart
      <4>3. Len(<<>>) = 0 /\ SearchPos(c.frames, seq[p]) \in 1..Len(c.frames)
        BY <2>4 DEF Take
      <4>4. c.frames # <<>>
        BY <4>3
      <4>5. QED
        BY <4>2, <4>4
    <3>1. c = Loaded(c.start)
      <4>1. cache[IndexOf(p)] # NoChunk => cache[IndexOf(p)] = Loaded(cache[IndexOf(p)].start)
        BY <2>1 DEF Covered, Answered
      <4>2. Loaded(StartOf(p)).start = StartOf(p)
        BY DEF Loaded
      <4>3. QED
        BY <2>1, <4>1, <4>2 DEF Answered
    <3>2. UNCHANGED seq /\ chunk' = [chunk EXCEPT ![p] = c]
      BY <2>4 DEF Take
    <3>3. CASE q = p
      BY <2>2, <3>0, <3>1, <3>2, <3>3 DEF Covered, SessionShape
    <3>4. CASE q # p
      BY <1>2, <2>2, <3>2, <3>4 DEF SessionShape
    <3>5. QED
      BY <3>3, <3>4
  <2>5. QED
    BY <2>2, <2>3, <2>4
<1>7. \A q \in Sessions : Session(q)
  BY <1>4, <1>5, <1>6, NextCases
<1>8. \A i \in Indexes : cache'[i] # NoChunk => cache'[i] = Loaded(cache'[i].start)
  BY <1>3
<1>9. QED
  BY <1>1, <1>7, <1>8 DEF Covered

LEMMA CoveredInvariant ==
  ASSUME TableWrites = {}, ~Reclaims
  PROVE  Spec => [](PInv /\ Counted /\ Anchored /\ Covered)
<1>1. Init => Covered
  BY DEF Init, Covered
<1>2. PInv /\ Counted /\ Anchored /\ Covered /\ [Next]_vars => Covered'
  <2> SUFFICES ASSUME PInv, Counted, Anchored, Covered, [Next]_vars PROVE Covered'
    OBVIOUS
  <2>1. CASE Next
    BY <2>1, CoveredStep DEF PInv
  <2>2. CASE UNCHANGED vars
    BY <2>2 DEF vars, managerVars, storeVars, Covered, Loaded, Rows
  <2>3. QED
    BY <2>1, <2>2
<1>3. Spec => [](PInv /\ Counted /\ Anchored)
  BY AnchoredInvariant
<1>4. QED
  BY <1>1, <1>2, <1>3, PTL DEF Spec

\* Over a table that does not change, and while no chunk is reclaimed under a session, no
\* playable frame of the snapshot falls behind the cursor before it is sent or skipped:
\* gaps in the numbering and oversize frames make chunks overlap, never leave a row between.
THEOREM NothingJumpedCorrect ==
  ASSUME TableWrites = {}, ~Reclaims
  PROVE  Spec => []NothingJumped
<1>1. Covered => NothingJumped
  BY DEF Covered, NothingJumped
<1>2. QED
  BY <1>1, CoveredInvariant, PTL

-----------------------------------------------------------------------------
(***************************************************************************)
(* The end of a stream                                                     *)
(***************************************************************************)
\* A session that has not begun has no outcome, nothing due is behind the last frame of
\* the snapshot, and one that ended by itself has nothing due.
Ended ==
  /\ ctxDone = {}
  /\ \A p \in Sessions :
       /\ pc[p] = "idle" => outcome[p] = "none"
       /\ \A f \in due[p] : f <= maxSeq[p]
       /\ outcome[p] = "eos" => due[p] = {}

\* Nothing is due once the cursor is behind the last frame of the snapshot.
LEMMA NothingAfterEnd ==
  ASSUME SessionShape, Covered, Ended, NEW p \in Sessions, AtEnd(p)
  PROVE  due[p] = {}
<1>1. seq[p] \in Nat /\ maxSeq[p] \in Nat /\ \A f \in due[p] : f \in Nat
  BY SeqsFinite DEF SessionShape
<1>2. \A f \in due[p] : f >= seq[p] /\ f <= maxSeq[p]
  BY DEF Covered, Ended
<1>3. QED
  BY <1>1, <1>2 DEF AtEnd

LEMMA EndedStep ==
  ASSUME TableWrites = {}, MaxEvents = 0, StoreShape, SessionShape, ChunkKept, Covered, Ended, Next
  PROVE  Ended'
<1> USE DEF managerVars, paceVars, storeVars, Goto, Finish
<1> DEFINE Session(q) ==
             /\ pc'[q] = "idle" => outcome'[q] = "none"
             /\ \A f \in due'[q] : f <= maxSeq'[q]
             /\ outcome'[q] = "eos" => due'[q] = {}
<1>1. ~HappensNow
  BY DEF SessionShape, HappensNow
<1>2. ASSUME NEW q \in Sessions, UNCHANGED <<pc[q], outcome[q], due[q], maxSeq[q]>> PROVE Session(q)
  BY <1>2 DEF Ended
<1>3. CASE StoreMoves
  <2>1. UNCHANGED <<pc, outcome, due, maxSeq, ctxDone>>
    BY <1>3 DEF StoreMoves, Evict, PeerConnects, PeerLoads, AppendRow, TrimFirst
  <2>2. QED
    BY <2>1 DEF Ended
<1>4. ASSUME NEW p \in Sessions, PlainStep(p) PROVE Ended'
  <2>1. UNCHANGED ctxDone
    BY <1>1, <1>4, FramesStay DEF PlainStep, Connect, Tick, CancelContext, StartRound, CatchUp, CurrentSlot, SkipFrame,
       WriteFrame, WriteError, Pace, TimerFires, SeeCancelled, GetPastEnd, GetCurrent, GetFails
  <2>2. ASSUME Session(p) PROVE Ended'
    <3>1. \A q \in Sessions \ {p} : Session(q)
      BY <1>2, <1>4, OthersStand DEF Others
    <3>2. QED
      BY <2>1, <2>2, <3>1 DEF Ended
  <2>3. CASE Connect(p)
    <3>1. LoadStreamMeta.Count # 0 /\ table \subseteq Seqs
      BY <2>3 DEF Connect, StoreShape
    <3>2. /\ due'[p] = table \ Oversize /\ maxSeq'[p] = Max(table)
          /\ pc'[p] = "top" /\ pc[p] = "idle" /\ outcome'[p] = outcome[p]
      BY <2>3, <3>1, MetaBounds DEF Connect, NewStreamSession, SessionShape
    <3>3. QED
      BY <2>2, <3>1, <3>2, MetaBounds, TableBounds DEF Ended
  <2>4. CASE SkipFrame(p) \/ WriteFrame(p)
    <3>1. due'[p] \subseteq due[p] /\ UNCHANGED <<maxSeq, outcome>> /\ pc'[p] # "idle"
      BY <2>4 DEF SkipFrame, WriteFrame, Advance, SessionShape
    <3>2. QED
      BY <2>2, <3>1 DEF Ended
  <2>5. ASSUME UNCHANGED <<due, maxSeq>>, pc'[p] # "idle" \/ UNCHANGED <<pc, outcome>>,
               outcome'[p] \in {outcome[p], "error"} \/ (outcome'[p] = "eos" /\ AtEnd(p))
        PROVE  Ended'
    <3>1. outcome'[p] = "eos" => due'[p] = {}
      BY <2>5, NothingAfterEnd DEF Ended
    <3>2. Session(p)
      BY <2>5, <3>1 DEF Ended
    <3>3. QED
      BY <2>2, <3>2
  <2>6. CASE GetPastEnd(p)
    <3>1. emptyRuns[p] >= EmptyChunkGuard \/ emptyRuns[p] < EmptyChunkGuard
      BY DEF SessionShape, EmptyChunkGuard
    <3>2. /\ UNCHANGED <<due, maxSeq>> /\ pc'[p] # "idle" /\ AtEnd(p)
          /\ outcome'[p] = outcome[p] \/ outcome'[p] = "eos"
      BY <2>6, <3>1 DEF GetPastEnd, GotNothing, SessionShape
    <3>3. QED
      BY <2>5, <3>2
  <2>7. ~GetFails(p)
    BY <1>1 DEF GetFails, Ended
  <2>8. CASE StartRound(p) \/ CurrentSlot(p)
    <3>1. /\ UNCHANGED <<due, maxSeq>> /\ pc'[p] # "idle"
          /\ outcome'[p] = outcome[p] \/ (outcome'[p] = "eos" /\ AtEnd(p))
      BY <2>8 DEF StartRound, CurrentSlot, SessionShape
    <3>2. QED
      BY <2>5, <3>1
  <2>9. CASE WriteError(p) \/ SeeCancelled(p)
    <3>1. UNCHANGED <<due, maxSeq>> /\ pc'[p] # "idle" /\ outcome'[p] = "error"
      BY <2>9 DEF WriteError, SeeCancelled, SessionShape
    <3>2. QED
      BY <2>5, <3>1
  <2>10. CASE Tick(p) \/ CancelContext(p)
    <3>1. UNCHANGED <<due, maxSeq, pc, outcome>>
      BY <2>10 DEF Tick, CancelContext
    <3>2. QED
      BY <2>5, <3>1
  <2>11. CASE CatchUp(p) \/ Pace(p) \/ TimerFires(p) \/ GetCurrent(p)
    <3>1. UNCHANGED <<due, maxSeq, outcome>> /\ pc'[p] # "idle"
      BY <2>11 DEF CatchUp, Pace, TimerFires, GetCurrent, GotFrame, SessionShape
    <3>2. QED
      BY <2>5, <3>1
  <2>12. QED
    BY <1>4, <2>3, <2>4, <2>6, <2>7, <2>8, <2>9, <2>10, <2>11, FramesStay DEF PlainStep
<1>5. ASSUME NEW p \in Sessions, GetAnswer(p) PROVE Ended'
  <2>1. PICK c : Answered(p, c)
    BY <1>5, GetIsAnswered
  <2>2. /\ UNCHANGED <<due, maxSeq, outcome, ctxDone>> /\ pc[p] \in {"getSkip", "getSend"}
        /\ Jump(p, c) \/ Take(p, c)
    BY <2>1 DEF Answered, InGet
  <2>3. \A q \in Sessions : pc'[q] = "idle" => pc[q] = "idle"
    BY <2>2 DEF Jump, Take, SessionShape
  <2>4. QED
    BY <2>2, <2>3 DEF Ended
<1>6. QED
  BY <1>3, <1>4, <1>5, NextCases

\* A session that ends with "end of stream" has sent or skipped every playable frame of its
\* snapshot, when the table does not change, nothing is reclaimed and nothing fails: a load
\* that fails after a row of empty chunks also ends the session that way.
THEOREM EndCompleteCorrect ==
  ASSUME TableWrites = {}, ~Reclaims, MaxEvents = 0
  PROVE  Spec => []EndComplete
<1>1. Init => Ended
  BY DEF Init, Ended
<1>2. PInv /\ Covered /\ Ended /\ [Next]_vars => Ended'
  <2> SUFFICES ASSUME PInv, Covered, Ended, [Next]_vars PROVE Ended'
    OBVIOUS
  <2>1. CASE Next
    BY <2>1, EndedStep DEF PInv
  <2>2. CASE UNCHANGED vars
    BY <2>2 DEF vars, managerVars, Ended
  <2>3. QED
    BY <2>1, <2>2
<1>3. Ended => EndComplete
  BY DEF Ended, EndComplete
<1>4. Spec => [](PInv /\ Counted /\ Anchored /\ Covered)
  BY CoveredInvariant
<1>5. QED
  BY <1>1, <1>2, <1>3, <1>4, PTL DEF Spec

-----------------------------------------------------------------------------
(***************************************************************************)
(* What the viewer sees                                                    *)
(***************************************************************************)
\* Whatever of the table is at or behind the cursor is still due, and the snapshot
\* reaches to the table's last frame; contexts end only where something may fail.
Remaining ==
  /\ ctxDone # {} => MaxEvents > 0
  /\ \A p \in Sessions : pc[p] # "idle" =>
       \A f \in table \ Oversize : f <= maxSeq[p] /\ (f >= seq[p] => f \in due[p])

LEMMA RemainingStep ==
  ASSUME TableWrites = {}, StoreShape, SessionShape, ChunkKept, Counted, Anchored, Covered, Remaining, Next
  PROVE  Remaining'
<1> USE DEF managerVars, paceVars, storeVars, Goto, Finish
<1> DEFINE Session(q) ==
             pc'[q] # "idle" =>
               \A f \in table \ Oversize : f <= maxSeq'[q] /\ (f >= seq'[q] => f \in due'[q])
<1>1. UNCHANGED table
  BY TableStands
<1>2. ASSUME NEW q \in Sessions, UNCHANGED <<pc[q], seq[q], maxSeq[q], due[q]>> PROVE Session(q)
  BY <1>2 DEF Remaining
<1>3. ASSUME StoreMoves, NEW q \in Sessions PROVE Session(q) /\ UNCHANGED ctxDone
  <2>1. UNCHANGED <<pc, seq, maxSeq, due, ctxDone>>
    BY <1>3 DEF StoreMoves, Evict, PeerConnects, PeerLoads, AppendRow, TrimFirst
  <2>2. QED
    BY <1>2, <2>1
<1>4. ASSUME NEW p \in Sessions, PlainStep(p), NEW q \in Sessions PROVE Session(q)
  <2>1. CASE q # p
    BY <1>2, <1>4, <2>1, OthersStand DEF Others
  <2>2. CASE q = p /\ Connect(p)
    <3>1. LoadStreamMeta.Count # 0 /\ table \subseteq Seqs
      BY <2>2 DEF Connect, StoreShape
    <3>2. due'[p] = table \ Oversize /\ maxSeq'[p] = Max(table)
      BY <2>2, <3>1, MetaBounds DEF Connect, NewStreamSession, SessionShape
    <3>3. \A f \in table : f <= Max(table)
      BY <3>1, MetaBounds, TableBounds
    <3>4. QED
      BY <2>2, <3>2, <3>3
  <2>3. CASE q = p /\ (SkipFrame(p) \/ WriteFrame(p))
    <3>1. pc[p] \in {"skipFrame", "write"}
      BY <2>3 DEF SkipFrame, WriteFrame
    <3>2. PICK f \in Nat : f = chunk[p].frames[pos[p]] /\ f >= seq[p]
      BY <3>1, FrameAtHand, FramesStay
    <3>3. seq'[p] = f + 1 /\ due'[p] = due[p] \ {f} /\ maxSeq'[p] = maxSeq[p]
      BY <2>3, <3>2 DEF SkipFrame, WriteFrame, Advance, SessionShape
    <3>4. ASSUME NEW g \in table \ Oversize
          PROVE  g <= maxSeq'[p] /\ (g >= seq'[p] => g \in due'[p])
      <4>1. g \in Nat /\ seq[p] \in Nat
        BY SeqsFinite DEF StoreShape, SessionShape
      <4>2. g <= maxSeq[p] /\ (g >= seq[p] => g \in due[p])
        BY <3>1 DEF Remaining
      <4>3. g >= f + 1 => g >= seq[p] /\ g # f
        BY <3>2, <4>1
      <4>4. QED
        BY <3>3, <4>2, <4>3
    <3>5. QED
      BY <2>3, <3>4
  <2>4. CASE q = p /\ ~(Connect(p) \/ SkipFrame(p) \/ WriteFrame(p))
    <3>1. UNCHANGED <<seq, maxSeq, due>> /\ pc[p] # "idle"
      BY <1>4, <2>4, FramesStay DEF PlainStep, Tick, CancelContext, StartRound, CatchUp, CurrentSlot,
         WriteError, Pace, TimerFires, SeeCancelled, GetPastEnd, GetCurrent, GetFails, InGet, NeedsChunk
    <3>2. QED
      BY <2>4, <3>1 DEF Remaining
  <2>5. QED
    BY <2>1, <2>2, <2>3, <2>4
<1>5. ASSUME NEW p \in Sessions, GetAnswer(p), NEW q \in Sessions PROVE Session(q) /\ UNCHANGED ctxDone
  <2>1. PICK c : Answered(p, c)
    BY <1>5, GetIsAnswered
  <2>2. /\ UNCHANGED <<due, maxSeq, ctxDone>>
        /\ pc[p] # "idle" /\ (Jump(p, c) \/ Take(p, c))
    BY <2>1 DEF Answered, InGet
  <2>3. pc'[q] # "idle" => pc[q] # "idle"
    BY <2>2 DEF Jump, Take, SessionShape
  <2>4. ASSUME pc'[q] # "idle", NEW f \in table \ Oversize
        PROVE  f <= maxSeq'[q] /\ (f >= seq'[q] => f \in due'[q])
    <3>1. f \in Nat /\ seq[q] \in Nat /\ seq'[q] >= seq[q]
      <4>1. SameStart(q)
        BY <2>3, <2>4, AnchoredSame
      <4>2. QED
        BY <2>3, <2>4, <4>1, SeqStep, SeqsFinite DEF StoreShape, SessionShape
    <3>2. f <= maxSeq[q] /\ (f >= seq[q] => f \in due[q])
      BY <2>3, <2>4 DEF Remaining
    <3>3. seq'[q] \in Nat
      <4>1. PICK n \in Nat : n = c.start + ChunkN
        BY <2>1, ChunkAssumption, GoodHasFrames DEF Answered
      <4>2. seq' = seq \/ seq' = [seq EXCEPT ![p] = n]
        BY <2>2, <4>1 DEF Jump, Take
      <4>3. QED
        BY <3>1, <4>2 DEF SessionShape
    <3>4. f >= seq'[q] => f >= seq[q]
      BY <3>1, <3>3
    <3>5. QED
      BY <2>2, <3>2, <3>4
  <2>5. QED
    BY <2>2, <2>4
<1>6. ctxDone' # {} => MaxEvents > 0
  <2>1. events \in Nat /\ MaxEvents \in Nat
    BY EnvAssumption DEF SessionShape
  <2>2. ASSUME NEW p \in Sessions, PlainStep(p) PROVE ctxDone' = ctxDone \/ MaxEvents > 0
    <3>1. CASE CancelContext(p)
      BY <2>1, <3>1 DEF CancelContext, HappensNow
    <3>2. CASE ~CancelContext(p)
      BY <2>2, <3>2, FramesStay DEF PlainStep, Connect, Tick, StartRound, CatchUp, CurrentSlot, SkipFrame,
         WriteFrame, WriteError, Pace, TimerFires, SeeCancelled, GetPastEnd, GetCurrent, GetFails
    <3>3. QED
      BY <3>1, <3>2
  <2>3. CASE StoreMoves
    BY <2>3 DEF Remaining, StoreMoves, Evict, PeerConnects, PeerLoads, AppendRow, TrimFirst
  <2>4. ASSUME NEW p \in Sessions, GetAnswer(p) PROVE ctxDone' = ctxDone
    BY <1>5, <2>4
  <2>5. QED
    BY <2>2, <2>3, <2>4, NextCases DEF Remaining
<1>7. \A q \in Sessions : Session(q)
  BY <1>3, <1>4, <1>5, NextCases
<1>8. QED
  BY <1>1, <1>6, <1>7 DEF Remaining

\* The first frame that is due is the one at hand.
LEMMA AtHandIsNext ==
  ASSUME StoreShape, SessionShape, ChunkKept, Covered, Remaining, NEW p \in Sessions,
         pc[p] \in {"skipFrame", "write"}
  PROVE  /\ chunk[p].frames[pos[p]] \in due[p] /\ chunk[p].frames[pos[p]] \in Nat
         /\ \A g \in due[p] : chunk[p].frames[pos[p]] <= g
<1>1. PICK f \in Nat : f = chunk[p].frames[pos[p]] /\ f >= seq[p]
  BY FrameAtHand, FramesStay
<1>2. f \in table \ Oversize
  <2>1. PICK c : c = chunk[p]
    OBVIOUS
  <2>2. GoodChunk(c) /\ pos[p] \in 1..Len(c.frames) /\ c = Loaded(c.start) /\ c.start \in Nat
    BY <2>1, FrameAtHand, FramesStay, GoodHasFrames DEF ChunkKept, Covered
  <2>3. PICK st \in Nat : st = c.start
    BY <2>2
  <2>4. \A i \in 1..Len(Loaded(st).frames) : Loaded(st).frames[i] \in Rows(st) \ Oversize
    BY LoadedFrames DEF StoreShape
  <2>5. c.frames[pos[p]] \in Rows(st) \ Oversize
    BY <2>2, <2>3, <2>4
  <2>6. QED
    BY <1>1, <2>1, <2>5 DEF Rows
<1>3. f \in due[p]
  BY <1>1, <1>2 DEF Remaining
<1>4. ASSUME NEW g \in due[p] PROVE f <= g
  <2>1. g >= f /\ g \in Nat
    BY <1>1, FirstDue, SeqsFinite DEF SessionShape
  <2>2. QED
    BY <2>1
<1>5. QED
  BY <1>1, <1>3, <1>4

\* Nothing is due once the cursor is behind the last frame of the snapshot.
LEMMA NothingRemains ==
  ASSUME SessionShape, Covered, Remaining, NEW p \in Sessions, pc[p] # "idle", AtEnd(p)
  PROVE  due[p] = {}
<1>1. seq[p] \in Nat /\ maxSeq[p] \in Nat /\ \A f \in due[p] : f \in Nat
  BY SeqsFinite DEF SessionShape
<1>2. \A f \in due[p] : f >= seq[p] /\ f <= maxSeq[p]
  BY DEF Covered, Remaining
<1>3. QED
  BY <1>1, <1>2 DEF AtEnd

\* A session about to skip or send a frame does so with the first that is due, in a slot
\* that has begun.
AtHand ==
  \A p \in Sessions : pc[p] \in {"skipFrame", "write"} =>
    /\ chunk[p].frames[pos[p]] \in due[p] /\ chunk[p].frames[pos[p]] # -1
    /\ \A g \in due[p] : chunk[p].frames[pos[p]] <= g
    /\ slots[p] <= elapsed[p]

LEMMA AlwaysAtHand == PInv /\ Covered /\ Remaining => AtHand
<1> SUFFICES ASSUME PInv, Covered, Remaining, NEW p \in Sessions, pc[p] \in {"skipFrame", "write"}
             PROVE  /\ chunk[p].frames[pos[p]] \in due[p] /\ chunk[p].frames[pos[p]] # -1
                    /\ \A g \in due[p] : chunk[p].frames[pos[p]] <= g
                    /\ slots[p] <= elapsed[p]
  BY DEF AtHand
<1>1. PICK f \in Nat : f = chunk[p].frames[pos[p]] /\ f \in due[p] /\ \A g \in due[p] : f <= g
  BY AtHandIsNext DEF PInv
<1>2. f # -1
  BY <1>1
<1>3. PICK s, t, e \in Nat : s = slots[p] /\ t = target[p] /\ e = elapsed[p]
  BY DEF PInv, SessionShape
<1>4. s <= t /\ t <= e
  BY <1>3 DEF PInv, Paced
<1>5. slots[p] <= elapsed[p]
  BY <1>3, <1>4
<1>6. QED
  BY <1>1, <1>2, <1>5

\* The views the viewer has of the sessions.
Sendings == [p \in Sessions |-> SendingOf(p)]

States == [p \in Sessions |-> StateOf(p)]

\* A step of one session changes the view of that one.
LEMMA ViewOfOne ==
  ASSUME NEW p \in Sessions, Others(p)
  PROVE  /\ Sendings' = [Sendings EXCEPT ![p] = SendingOf(p)']
         /\ States' = [States EXCEPT ![p] = StateOf(p)']
<1>1. \A q \in Sessions \ {p} : SendingOf(q)' = SendingOf(q) /\ StateOf(q)' = StateOf(q)
  BY DEF Others, SendingOf, StateOf
<1>2. /\ Sendings' = [q \in Sessions |-> SendingOf(q)']
      /\ States' = [q \in Sessions |-> StateOf(q)']
  BY DEF Sendings, States
<1>3. QED
  BY <1>1, <1>2 DEF Sendings, States

\* A step within get, or between its steps, that changes nothing the viewer sees.
LEMMA Unseen ==
  ASSUME NEW p \in Sessions, Others(p), UNCHANGED <<table, due, slots, elapsed>>,
         SendingOf(p)' = SendingOf(p), StateOf(p)' = StateOf(p)
  PROVE  UNCHANGED Viewed!vars
<1>1. Sendings' = Sendings /\ States' = States
  BY ViewOfOne DEF Sendings, States
<1>2. QED
  BY <1>1 DEF Viewed!vars, Sendings, States

\* A session that plays before and after a step.
LEMMA PlaysOn ==
  ASSUME NEW p \in Sessions, Others(p),
         pc[p] \notin {"idle", "done"}, pc'[p] \notin {"idle", "done"}
  PROVE  /\ States' = States /\ States[p] = "playing"
         /\ Sendings' = [Sendings EXCEPT ![p] = SendingOf(p)'] /\ Sendings[p] = SendingOf(p)
         /\ pc[p] # "write" => Sendings[p] = -1
         /\ pc[p] # "write" /\ pc'[p] # "write" => Sendings' = Sendings
<1>1. StateOf(p) = "playing" /\ StateOf(p)' = "playing"
  BY DEF StateOf
<1>2. /\ pc[p] # "write" => SendingOf(p) = -1
      /\ pc'[p] # "write" => SendingOf(p)' = -1
  BY DEF SendingOf
<1>3. QED
  BY <1>1, <1>2, ViewOfOne DEF Sendings, States

\* The steps a viewer sees of a session p, in terms of the sessions' variables.
LEMMA SeenOpen ==
  ASSUME NEW p \in Sessions, Others(p), UNCHANGED <<table, slots, elapsed>>,
         due' = [due EXCEPT ![p] = table \ Oversize],
         pc[p] = "idle", pc'[p] = "top"
  PROVE  Viewed!Open(p)
<1>1. Sendings' = Sendings /\ States' = [States EXCEPT ![p] = "playing"] /\ States[p] = "idle"
  BY ViewOfOne DEF Sendings, States, SendingOf, StateOf
<1>2. QED
  BY <1>1 DEF Viewed!Open, Sendings, States

LEMMA SeenTick ==
  ASSUME NEW p \in Sessions, Others(p), UNCHANGED <<table, due, slots, pc>>,
         elapsed' = [elapsed EXCEPT ![p] = @ + 1],
         pc[p] \notin {"idle", "done", "write"}
  PROVE  Viewed!Tick(p)
<1>1. Sendings' = Sendings /\ States' = States /\ States[p] = "playing" /\ Sendings[p] = -1
  BY ViewOfOne DEF Sendings, States, SendingOf, StateOf
<1>2. QED
  BY <1>1 DEF Viewed!Tick, Viewed!Waits, Viewed!Playing, Sendings, States

LEMMA SeenEnd ==
  ASSUME NEW p \in Sessions, Others(p), UNCHANGED <<table, due, slots, elapsed>>,
         pc[p] \notin {"idle", "done", "write"}, pc'[p] = "done", outcome'[p] = "eos",
         due[p] = {} \/ MaxEvents > 0
  PROVE  Viewed!EndOfStream(p)
<1>1. /\ Sendings' = Sendings /\ States' = [States EXCEPT ![p] = "eos"]
      /\ States[p] = "playing" /\ Sendings[p] = -1
  BY ViewOfOne DEF Sendings, States, SendingOf, StateOf
<1>2. QED
  BY <1>1 DEF Viewed!EndOfStream, Viewed!Waits, Viewed!Playing, Sendings, States

LEMMA SeenPass ==
  ASSUME NEW p \in Sessions, Others(p), UNCHANGED <<table, due, elapsed>>,
         slots' = [slots EXCEPT ![p] = @ + 1], slots[p] <= elapsed[p],
         pc[p] \notin {"idle", "done", "write"}, pc'[p] = "pace",
         due[p] = {} \/ MaxEvents > 0
  PROVE  Viewed!Pass(p)
<1>1. Sendings' = Sendings /\ States' = States /\ States[p] = "playing" /\ Sendings[p] = -1
  BY PlaysOn
<1>2. QED
  BY <1>1 DEF Viewed!Pass, Viewed!Passes, Viewed!Waits, Viewed!Playing, Sendings, States

LEMMA SeenBreak ==
  ASSUME NEW p \in Sessions, Others(p), UNCHANGED <<table, due, slots, elapsed>>,
         pc[p] \notin {"idle", "done"}, pc'[p] = "done", outcome'[p] = "error",
         SendingOf(p) # -1 \/ MaxEvents > 0
  PROVE  Viewed!Break(p)
<1>1. /\ Sendings' = [Sendings EXCEPT ![p] = -1] /\ States' = [States EXCEPT ![p] = "error"]
      /\ States[p] = "playing" /\ Sendings[p] = SendingOf(p)
  BY ViewOfOne DEF Sendings, States, SendingOf, StateOf
<1>2. QED
  BY <1>1 DEF Viewed!Break, Viewed!Playing, Sendings, States

\* The frame f is handed to the connection.
LEMMA SeenSend ==
  ASSUME NEW p \in Sessions, Others(p), UNCHANGED <<table, due, slots, elapsed>>,
         pc[p] \notin {"idle", "done", "write"}, pc'[p] = "write", slots[p] <= elapsed[p],
         NEW f \in due[p], f = SendingOf(p)', \A g \in due[p] : f <= g
  PROVE  Viewed!Send(p)
<1>1. /\ Sendings' = [Sendings EXCEPT ![p] = f] /\ States' = States
      /\ States[p] = "playing" /\ Sendings[p] = -1
  BY PlaysOn
<1>2. QED
  BY <1>1 DEF Viewed!Send, Viewed!First, Viewed!Waits, Viewed!Playing, Sendings, States

\* The frame f has been sent.
LEMMA SeenSent ==
  ASSUME NEW p \in Sessions, Others(p), UNCHANGED <<table, elapsed>>,
         slots' = [slots EXCEPT ![p] = @ + 1], due' = [due EXCEPT ![p] = @ \ {SendingOf(p)}],
         pc[p] = "write", pc'[p] = "pace", SendingOf(p) # -1
  PROVE  Viewed!Sent(p)
<1>1. /\ Sendings' = [Sendings EXCEPT ![p] = -1] /\ States' = States
      /\ States[p] = "playing" /\ Sendings[p] = SendingOf(p)
  BY ViewOfOne DEF Sendings, States, SendingOf, StateOf
<1>2. QED
  BY <1>1 DEF Viewed!Sent, Viewed!Passes, Viewed!Playing, Sendings, States

\* The frame f is skipped for a slot that is over.
LEMMA SeenSkip ==
  ASSUME NEW p \in Sessions, Others(p), UNCHANGED <<table, elapsed>>,
         slots' = [slots EXCEPT ![p] = @ + 1], slots[p] < elapsed[p],
         NEW f \in due[p], due' = [due EXCEPT ![p] = @ \ {f}], \A g \in due[p] : f <= g,
         pc[p] = "skipFrame", pc'[p] = "skip"
  PROVE  Viewed!Skip(p)
<1>1. Sendings' = Sendings /\ States' = States /\ States[p] = "playing" /\ Sendings[p] = -1
  BY PlaysOn
<1>2. QED
  BY <1>1 DEF Viewed!Skip, Viewed!First, Viewed!Passes, Viewed!Waits, Viewed!Playing, Sendings, States

\* A get that found a frame: to be skipped, which the viewer does not see yet, or to be sent.
LEMMA FrameIsSeen ==
  ASSUME AtHand', NEW p \in Sessions, Others(p),
         UNCHANGED <<table, due, slots, elapsed>>, pc[p] \in {"getSkip", "getSend"},
         pc'[p] = IF pc[p] = "getSkip" THEN "skipFrame" ELSE "write"
  PROVE  Viewed!Next \/ UNCHANGED Viewed!vars
<1>1. CASE pc[p] = "getSkip"
  BY <1>1, Unseen DEF SendingOf, StateOf
<1>2. CASE pc[p] = "getSend"
  <2>1. pc'[p] = "write"
    BY <1>2
  <2>2. PICK f : f = (chunk[p].frames[pos[p]])' /\ f \in due'[p] /\ \A g \in due'[p] : f <= g
    BY <2>1 DEF AtHand
  <2>3. f = SendingOf(p)' /\ f \in due[p] /\ \A g \in due[p] : f <= g
    BY <2>1, <2>2 DEF SendingOf
  <2>4. slots[p] <= elapsed[p]
    BY <2>1 DEF AtHand
  <2>5. QED
    BY <1>2, <2>1, <2>3, <2>4, SeenSend DEF Viewed!Next
<1>3. QED
  BY <1>1, <1>2

\* An answer of the store concerns one session.
LEMMA AnswerOfOne ==
  ASSUME SessionShape, NEW p \in Sessions, NEW c, Answered(p, c)
  PROVE  Others(p)
<1>1. /\ UNCHANGED <<minSeq, maxSeq, paceVars, outcome, due>>
      /\ Jump(p, c) \/ Take(p, c)
  BY DEF Answered
<1>2. CASE Jump(p, c)
  BY <1>1, <1>2 DEF Jump, Others, SessionShape, paceVars
<1>3. CASE Take(p, c)
  BY <1>1, <1>3 DEF Take, Others, SessionShape, paceVars
<1>4. QED
  BY <1>1, <1>2, <1>3

\* The steps of Run are steps of the view or change nothing in it.
LEMMA PlainStepSeen ==
  ASSUME PInv, Covered, Remaining, AtHand, AtHand', NEW p \in Sessions, PlainStep(p)
  PROVE  Viewed!Next \/ UNCHANGED Viewed!vars
<1> USE DEF managerVars, paceVars, storeVars, Goto, Finish
<1>1. Others(p) /\ UNCHANGED table /\ SessionShape
  BY OthersStand DEF PInv
<1>2. AtEnd(p) /\ pc[p] # "idle" => due[p] = {}
  BY NothingRemains DEF PInv
<1>3. ASSUME pc[p] \in {"skipFrame", "write"}
      PROVE  \E f \in due[p] : f = chunk[p].frames[pos[p]] /\ f # -1 /\ \A g \in due[p] : f <= g
  BY <1>3 DEF AtHand
<1>4. CASE Connect(p)
  <2>1. /\ UNCHANGED <<slots, elapsed>> /\ due' = [due EXCEPT ![p] = table \ Oversize]
        /\ pc[p] = "idle" /\ pc'[p] = "top"
    BY <1>1, <1>4 DEF Connect, NewStreamSession, SessionShape
  <2>2. QED
    BY <1>1, <2>1, SeenOpen DEF Viewed!Next
<1>5. CASE Tick(p)
  <2>1. /\ UNCHANGED <<due, slots, pc>> /\ elapsed' = [elapsed EXCEPT ![p] = @ + 1]
        /\ pc[p] \notin {"idle", "done", "write"}
    BY <1>5 DEF Tick
  <2>2. QED
    BY <1>1, <2>1, SeenTick DEF Viewed!Next
<1>6. CASE StartRound(p) \/ CurrentSlot(p)
  <2>1. UNCHANGED <<due, slots, elapsed>> /\ pc[p] \notin {"idle", "done", "write"}
    BY <1>6 DEF StartRound, CurrentSlot
  <2>2. CASE AtEnd(p)
    <3>1. pc'[p] = "done" /\ outcome'[p] = "eos" /\ due[p] = {}
      BY <1>1, <1>2, <1>6, <2>1, <2>2 DEF StartRound, CurrentSlot, SessionShape
    <3>2. QED
      BY <1>1, <2>1, <3>1, SeenEnd DEF Viewed!Next
  <2>3. CASE ~AtEnd(p)
    <3>1. pc'[p] \in {"skip", "getSend"}
      BY <1>1, <1>6, <2>3 DEF StartRound, CurrentSlot, SessionShape
    <3>2. QED
      BY <1>1, <2>1, <3>1, Unseen DEF SendingOf, StateOf
  <2>4. QED
    BY <2>2, <2>3
<1>7. CASE CatchUp(p) \/ Pace(p) \/ TimerFires(p)
  <2>1. /\ UNCHANGED <<due, slots, elapsed>> /\ pc[p] \notin {"idle", "done", "write"}
        /\ pc'[p] \in {"getSkip", "asleep", "top"}
    BY <1>1, <1>7 DEF CatchUp, Pace, TimerFires, SessionShape
  <2>2. QED
    BY <1>1, <2>1, Unseen DEF SendingOf, StateOf
<1>8. CASE CancelContext(p)
  <2>1. UNCHANGED <<due, slots, elapsed, pc, chunk, pos, outcome>>
    BY <1>8 DEF CancelContext
  <2>2. QED
    BY <1>1, <2>1, Unseen DEF SendingOf, StateOf
<1>9. CASE SkipFrame(p)
  <2>1. pc[p] = "skipFrame" /\ pc'[p] = "skip" /\ UNCHANGED elapsed
    BY <1>1, <1>9 DEF SkipFrame, SessionShape
  <2>2. PICK f \in due[p] : f = chunk[p].frames[pos[p]] /\ \A g \in due[p] : f <= g
    BY <1>3, <2>1
  <2>3. slots' = [slots EXCEPT ![p] = @ + 1] /\ due' = [due EXCEPT ![p] = @ \ {f}]
    BY <1>9, <2>2 DEF SkipFrame, Advance
  <2>4. slots[p] < elapsed[p]
    <3>1. PICK s, t, e \in Nat : s = slots[p] /\ t = target[p] /\ e = elapsed[p]
      BY <1>1 DEF SessionShape
    <3>2. s < t /\ t <= e
      BY <2>1, <3>1 DEF PInv, Paced
    <3>3. QED
      BY <3>1, <3>2
  <2>5. QED
    BY <1>1, <2>1, <2>2, <2>3, <2>4, SeenSkip DEF Viewed!Next
<1>10. CASE WriteFrame(p)
  <2>1. pc[p] = "write" /\ pc'[p] = "pace" /\ UNCHANGED elapsed
    BY <1>1, <1>10 DEF WriteFrame, SessionShape
  <2>2. SendingOf(p) = chunk[p].frames[pos[p]] /\ SendingOf(p) # -1
    BY <1>3, <2>1 DEF SendingOf
  <2>3. slots' = [slots EXCEPT ![p] = @ + 1] /\ due' = [due EXCEPT ![p] = @ \ {SendingOf(p)}]
    BY <1>10, <2>2 DEF WriteFrame, Advance
  <2>4. QED
    BY <1>1, <2>1, <2>2, <2>3, SeenSent DEF Viewed!Next
<1>11. CASE WriteError(p)
  <2>1. UNCHANGED <<due, slots, elapsed>> /\ pc[p] = "write" /\ pc'[p] = "done" /\ outcome'[p] = "error"
    BY <1>1, <1>11 DEF WriteError, SessionShape
  <2>2. SendingOf(p) # -1
    BY <1>3, <2>1 DEF SendingOf
  <2>3. QED
    BY <1>1, <2>1, <2>2, SeenBreak DEF Viewed!Next
<1>12. CASE SeeCancelled(p)
  <2>1. /\ UNCHANGED <<due, slots, elapsed>> /\ pc[p] = "asleep" /\ pc'[p] = "done" /\ outcome'[p] = "error"
        /\ MaxEvents > 0
    BY <1>1, <1>12 DEF SeeCancelled, SessionShape, Remaining
  <2>2. QED
    BY <1>1, <2>1, SeenBreak DEF Viewed!Next
<1>13. CASE GetPastEnd(p) \/ GetFails(p)
  <2>1. /\ UNCHANGED <<due, elapsed>> /\ pc[p] \in {"getSkip", "getSend"} /\ GotNothing(p)
    BY <1>13 DEF GetPastEnd, GetFails, NeedsChunk, InGet
  <2>2. due[p] = {} \/ MaxEvents > 0
    <3>1. CASE GetPastEnd(p)
      BY <1>2, <2>1, <3>1 DEF GetPastEnd
    <3>2. CASE GetFails(p)
      <4>1. events \in Nat /\ MaxEvents \in Nat
        BY <1>1, EnvAssumption DEF SessionShape
      <4>2. ctxDone # {} \/ events < MaxEvents
        BY <3>2 DEF GetFails, HappensNow
      <4>3. QED
        BY <4>1, <4>2 DEF Remaining
    <3>3. QED
      BY <1>13, <3>1, <3>2
  <2>3. CASE emptyRuns[p] >= EmptyChunkGuard
    <3>1. pc'[p] = "done" /\ outcome'[p] = "eos" /\ UNCHANGED slots
      BY <1>1, <2>1, <2>3 DEF GotNothing, SessionShape
    <3>2. QED
      BY <1>1, <2>1, <2>2, <3>1, SeenEnd DEF Viewed!Next
  <2>4. CASE ~(emptyRuns[p] >= EmptyChunkGuard)
    <3>1. CASE pc[p] = "getSkip"
      <4>1. pc'[p] = "slot" /\ UNCHANGED slots
        BY <1>1, <2>1, <2>4, <3>1 DEF GotNothing, SessionShape
      <4>2. QED
        BY <1>1, <2>1, <3>1, <4>1, Unseen DEF SendingOf, StateOf
    <3>2. CASE pc[p] = "getSend"
      <4>1. pc'[p] = "pace" /\ slots' = [slots EXCEPT ![p] = @ + 1]
        BY <1>1, <2>1, <2>4, <3>2 DEF GotNothing, SessionShape
      <4>2. slots[p] <= elapsed[p]
        <5>1. PICK s, t, e \in Nat : s = slots[p] /\ t = target[p] /\ e = elapsed[p]
          BY <1>1 DEF SessionShape
        <5>2. s <= t /\ t <= e
          BY <3>2, <5>1 DEF PInv, Paced
        <5>3. QED
          BY <5>1, <5>2
      <4>3. QED
        BY <1>1, <2>1, <2>2, <3>2, <4>1, <4>2, SeenPass DEF Viewed!Next
    <3>3. QED
      BY <2>1, <3>1, <3>2
  <2>5. QED
    BY <2>3, <2>4
<1>14. CASE GetCurrent(p)
  <2>1. /\ UNCHANGED <<due, slots, elapsed>> /\ pc[p] \in {"getSkip", "getSend"}
        /\ pc'[p] = IF pc[p] = "getSkip" THEN "skipFrame" ELSE "write"
    BY <1>1, <1>14 DEF GetCurrent, GotFrame, InGet, SessionShape
  <2>2. QED
    BY <1>1, <2>1, FrameIsSeen
<1>15. QED
  BY <1>4, <1>5, <1>6, <1>7, <1>8, <1>9, <1>10, <1>11, <1>12, <1>13, <1>14, FramesStay DEF PlainStep

\* Every step of playback is a step of the view or changes nothing in it.
LEMMA StepSeen ==
  ASSUME TableWrites = {}, PInv, Covered, Remaining, AtHand, AtHand', Next
  PROVE  Viewed!Next \/ UNCHANGED Viewed!vars
<1>1. CASE StoreMoves
  <2>1. UNCHANGED <<table, pc, chunk, pos, due, slots, elapsed, outcome>>
    BY <1>1, TableStands DEF StoreMoves, Evict, PeerConnects, PeerLoads, AppendRow, TrimFirst, PInv, managerVars, paceVars, storeVars
  <2>2. Sendings' = Sendings /\ States' = States
    BY <2>1 DEF Sendings, States, SendingOf, StateOf
  <2>3. QED
    BY <2>1, <2>2 DEF Viewed!vars, Sendings, States
<1>2. ASSUME NEW p \in Sessions, GetAnswer(p)
      PROVE  Viewed!Next \/ UNCHANGED Viewed!vars
  <2>1. PICK c : Answered(p, c)
    BY <1>2, GetIsAnswered DEF PInv
  <2>2. Others(p) /\ SessionShape
    BY <2>1, AnswerOfOne DEF PInv
  <2>3. /\ UNCHANGED <<table, due, slots, elapsed>> /\ pc[p] \in {"getSkip", "getSend"}
        /\ Jump(p, c) \/ Take(p, c)
    BY <2>1 DEF Answered, InGet, paceVars
  <2>4. CASE Jump(p, c)
    <3>1. UNCHANGED pc
      BY <2>4 DEF Jump
    <3>2. QED
      BY <2>2, <2>3, <3>1, Unseen DEF SendingOf, StateOf
  <2>5. CASE Take(p, c)
    <3>1. pc'[p] = IF pc[p] = "getSkip" THEN "skipFrame" ELSE "write"
      BY <2>2, <2>5 DEF Take, SessionShape
    <3>2. QED
      BY <2>2, <2>3, <3>1, FrameIsSeen
  <2>6. QED
    BY <2>3, <2>4, <2>5
<1>3. QED
  BY <1>1, <1>2, PlainStepSeen, NextCases

\* Over a table that does not change, and while no chunk is reclaimed under a session,
\* playback implements the abstract specification, whatever is cached, evicted, shared,
\* delayed or fails: a viewer gets the frames of the recording in order, each once, in a
\* slot that has begun, or misses one for a slot that was over.
THEOREM PlayoutImplemented ==
  ASSUME TableWrites = {}, ~Reclaims
  PROVE  Spec => ImplementsPlayout
<1>1. Init => Remaining /\ Viewed!Init
  <2>1. ASSUME Init PROVE Remaining
    BY <2>1 DEF Init, Remaining
  <2>2. ASSUME Init PROVE Viewed!Init
    <3>1. table \ Oversize \in SUBSET Seqs
      BY <2>2 DEF Init
    <3>2. Sendings = [p \in Sessions |-> -1] /\ States = [p \in Sessions |-> "idle"]
      BY <2>2 DEF Init, Sendings, States, SendingOf, StateOf
    <3>3. QED
      BY <2>2, <3>1, <3>2 DEF Init, Viewed!Init, Sendings, States
  <2>3. QED
    BY <2>1, <2>2
<1>2. PInv /\ Counted /\ Anchored /\ Covered /\ Remaining /\ [Next]_vars => Remaining'
  <2> SUFFICES ASSUME PInv, Counted, Anchored, Covered, Remaining, [Next]_vars PROVE Remaining'
    OBVIOUS
  <2>1. CASE Next
    BY <2>1, RemainingStep DEF PInv
  <2>2. CASE UNCHANGED vars
    BY <2>2 DEF vars, managerVars, storeVars, Remaining
  <2>3. QED
    BY <2>1, <2>2
<1>3. PInv /\ Covered /\ Remaining /\ AtHand /\ AtHand' /\ [Next]_vars
      => [Viewed!Next]_(Viewed!vars)
  <2> SUFFICES ASSUME PInv, Covered, Remaining, AtHand, AtHand', [Next]_vars
               PROVE  Viewed!Next \/ UNCHANGED Viewed!vars
    OBVIOUS
  <2>1. CASE Next
    BY <2>1, StepSeen
  <2>2. CASE UNCHANGED vars
    <3>1. UNCHANGED <<table, pc, chunk, pos, due, slots, elapsed, outcome>>
      BY <2>2 DEF vars, managerVars, paceVars, storeVars
    <3>2. Sendings' = Sendings /\ States' = States
      BY <3>1 DEF Sendings, States, SendingOf, StateOf
    <3>3. QED
      BY <3>1, <3>2 DEF Viewed!vars, Sendings, States
  <2>3. QED
    BY <2>1, <2>2
<1>4. Spec => [](PInv /\ Counted /\ Anchored /\ Covered)
  BY CoveredInvariant
<1>5. QED
  BY <1>1, <1>2, <1>3, <1>4, AlwaysAtHand, PTL DEF Spec, ImplementsPlayout, Viewed!Spec

=============================================================================
