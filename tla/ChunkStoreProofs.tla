-------------------------- MODULE ChunkStoreProofs --------------------------
(***************************************************************************)
(* Proofs about ChunkStore, for any numbers of clients, keys and chunks,   *)
(* any chunk sizes and any budget.                                         *)
(***************************************************************************)
EXTENDS ChunkStore, SequenceTheorems, FiniteSetTheorems, TLAPS

-----------------------------------------------------------------------------
(***************************************************************************)
(* container/list: what the list operations do to the set of elements      *)
(***************************************************************************)
NoDuplicates(s) == \A i, j \in 1..Len(s) : s[i] = s[j] => i = j

\* The set of a sequence's elements is its range.
LEMMA ToSetIsRange ==
  ASSUME NEW S, NEW s \in Seq(S)
  PROVE  /\ ToSet(s) \subseteq S
         /\ \A x : x \in ToSet(s) <=> \E i \in 1..Len(s) : x = s[i]
  BY DEF ToSet

\* list.PushFront adds one element and keeps the others.
LEMMA PushFrontElements ==
  ASSUME NEW S, NEW s \in Seq(S), NEW c \in S
  PROVE  /\ PushFront(s, c) \in Seq(S)
         /\ ToSet(PushFront(s, c)) = ToSet(s) \cup {c}
         /\ NoDuplicates(s) /\ c \notin ToSet(s) => NoDuplicates(PushFront(s, c))
<1> DEFINE t == PushFront(s, c)
<1>1. <<c>> \in Seq(S) /\ Len(<<c>>) = 1 /\ <<c>>[1] = c
  OBVIOUS
<1>2. /\ t \in Seq(S)
      /\ Len(t) = Len(s) + 1
      /\ t[1] = c
      /\ \A i \in 2..Len(t) : i - 1 \in 1..Len(s) /\ t[i] = s[i - 1]
  BY <1>1 DEF PushFront
<1> HIDE DEF t
<1>3. \A i \in 1..Len(s) : i + 1 \in 2..Len(t) /\ t[i + 1] = s[i]
  BY <1>2
<1>4. ToSet(t) = ToSet(s) \cup {c}
  <2>1. ASSUME NEW x \in ToSet(t)
        PROVE  x \in ToSet(s) \cup {c}
    <3>1. PICK i \in 1..Len(t) : x = t[i]
      BY <1>2, ToSetIsRange
    <3>2. i = 1 \/ i \in 2..Len(t)
      BY <1>2
    <3>3. QED
      BY <1>2, <3>1, <3>2, ToSetIsRange
  <2>2. c \in ToSet(t)
    <3>1. 1 \in 1..Len(t)
      BY <1>2
    <3>2. QED
      BY <1>2, <3>1, ToSetIsRange
  <2>3. ASSUME NEW x \in ToSet(s)
        PROVE  x \in ToSet(t)
    <3>1. PICK i \in 1..Len(s) : x = s[i]
      BY ToSetIsRange
    <3>2. i + 1 \in 1..Len(t) /\ t[i + 1] = x
      BY <1>2, <1>3, <3>1
    <3>3. QED
      BY <1>2, <3>2, ToSetIsRange
  <2>4. QED
    BY <2>1, <2>2, <2>3
<1>5. NoDuplicates(s) /\ c \notin ToSet(s) => NoDuplicates(t)
  BY <1>2, ToSetIsRange DEF NoDuplicates
<1>6. QED
  BY <1>2, <1>4, <1>5 DEF t

\* Taking list.Back off the list removes exactly that element.
LEMMA FrontElements ==
  ASSUME NEW S, NEW s \in Seq(S), s # <<>>
  PROVE  /\ Last(s) \in ToSet(s)
         /\ Front(s) \in Seq(S)
         /\ ToSet(s) \ {Last(s)} \subseteq ToSet(Front(s))
         /\ NoDuplicates(s) => /\ ToSet(Front(s)) = ToSet(s) \ {Last(s)}
                               /\ NoDuplicates(Front(s))
<1> DEFINE t == Front(s)
<1> HIDE DEF t
<1>1. Len(s) \in Nat /\ Len(s) >= 1
  BY EmptySeq
<1>2. /\ t \in Seq(S)
      /\ Len(t) = Len(s) - 1
      /\ \A i \in 1..Len(t) : i \in 1..Len(s) /\ t[i] = s[i]
  <2>1. PICK n \in Nat : n = Len(s) - 1
    BY <1>1
  <2>2. t = SubSeq(s, 1, n)
    BY <2>1 DEF Front, t
  <2>3. \A i \in 1..n : i \in 1..Len(s) /\ s[i] \in S
    BY <1>1, <2>1, ElementOfSeq
  <2>4. /\ t \in Seq(S)
        /\ Len(t) = (IF 1 <= n THEN n - 1 + 1 ELSE 0)
        /\ \A i \in 1..(n - 1 + 1) : t[i] = s[1 + i - 1]
    BY <2>2, <2>3, SubSeqProperties
  <2>5. Len(t) = n
    BY <2>1, <2>4
  <2>6. \A i \in 1..n : t[i] = s[i]
    BY <2>1, <2>4
  <2>7. QED
    BY <2>1, <2>3, <2>4, <2>5, <2>6
<1>3. Last(s) = s[Len(s)] /\ Last(s) \in ToSet(s)
  BY <1>1, ToSetIsRange DEF Last
<1>4. ToSet(s) \ {Last(s)} \subseteq ToSet(t)
  <2>1. SUFFICES ASSUME NEW x \in ToSet(s), x # Last(s)
                 PROVE  x \in ToSet(t)
    OBVIOUS
  <2>2. PICK i \in 1..Len(s) : x = s[i]
    BY ToSetIsRange
  <2>3. i \in 1..Len(t) /\ x = t[i]
    BY <1>1, <1>2, <1>3, <2>1, <2>2
  <2>4. QED
    BY <1>2, <2>3, ToSetIsRange
<1>5. ASSUME NoDuplicates(s)
      PROVE  ToSet(t) \subseteq ToSet(s) \ {Last(s)} /\ NoDuplicates(t)
  <2>1. NoDuplicates(t)
    BY <1>2, <1>5 DEF NoDuplicates
  <2>2. ASSUME NEW x \in ToSet(t)
        PROVE  x \in ToSet(s) /\ x # Last(s)
    <3>1. PICK i \in 1..Len(t) : x = t[i]
      BY <1>2, ToSetIsRange
    <3>2. i \in 1..Len(s) /\ x = s[i] /\ i # Len(s)
      BY <1>1, <1>2, <3>1
    <3>3. QED
      BY <1>1, <1>3, <1>5, <3>2, ToSetIsRange DEF NoDuplicates
  <2>3. QED
    BY <2>1, <2>2
<1>6. QED
  BY <1>2, <1>3, <1>4, <1>5 DEF t

\* list.Remove removes exactly the element it is given.
LEMMA DetachElements ==
  ASSUME NEW S, NEW s \in Seq(S), NEW c
  PROVE  /\ Detach(s, c) \in Seq(S)
         /\ ToSet(s) \ {c} \subseteq ToSet(Detach(s, c))
         /\ NoDuplicates(s) => /\ ToSet(Detach(s, c)) = ToSet(s) \ {c}
                               /\ NoDuplicates(Detach(s, c))
<1>1. CASE c \notin ToSet(s)
  BY <1>1 DEF Detach
<1>2. CASE c \in ToSet(s)
  <2> DEFINE n == IndexIn(s, c)
             a == SubSeq(s, 1, n - 1)
             b == SubSeq(s, n + 1, Len(s))
             t == Detach(s, c)
  <2>1. n \in 1..Len(s) /\ s[n] = c
    BY <1>2, ToSetIsRange DEF IndexIn
  <2>2. Len(s) \in Nat /\ n \in Nat
    BY <2>1
  <2> HIDE DEF n
  <2>3. a \in Seq(S) /\ Len(a) = n - 1 /\ \A i \in 1..(n - 1) : a[i] = s[i]
    <3>1. \A i \in 1..(n - 1) : s[i] \in S
      BY <2>1, <2>2, ElementOfSeq
    <3>2. QED
      BY <2>1, <2>2, <3>1, SubSeqProperties
  <2>4. b \in Seq(S) /\ Len(b) = Len(s) - n /\ \A i \in 1..(Len(s) - n) : b[i] = s[n + i]
    <3>1. \A i \in (n + 1)..Len(s) : s[i] \in S
      BY <2>1, <2>2, ElementOfSeq
    <3>2. /\ b \in Seq(S)
          /\ Len(b) = (IF n + 1 <= Len(s) THEN Len(s) - (n + 1) + 1 ELSE 0)
          /\ \A i \in 1..(Len(s) - (n + 1) + 1) : b[i] = s[n + 1 + i - 1]
      BY <2>2, <3>1, SubSeqProperties
    <3>3. QED
      BY <2>1, <2>2, <3>2
  <2>5. t = a \o b
    BY <1>2 DEF Detach, RemoveAt, n
  <2> HIDE DEF a, b, t
  <2>6. /\ t \in Seq(S)
        /\ Len(t) = Len(s) - 1
        /\ \A i \in 1..Len(t) : t[i] = (IF i < n THEN s[i] ELSE s[i + 1])
    <3>1. /\ t \in Seq(S)
          /\ Len(t) = Len(a) + Len(b)
          /\ \A i \in 1..(Len(a) + Len(b)) : t[i] = IF i <= Len(a) THEN a[i] ELSE b[i - Len(a)]
      BY <2>3, <2>4, <2>5, ConcatProperties
    <3>2. QED
      BY <2>1, <2>2, <2>3, <2>4, <3>1
  <2>7. ToSet(s) \ {c} \subseteq ToSet(t)
    <3>1. SUFFICES ASSUME NEW x \in ToSet(s), x # c
                   PROVE  \E i \in 1..Len(t) : x = t[i]
      BY <2>6, ToSetIsRange
    <3>2. PICK i \in 1..Len(s) : x = s[i]
      BY ToSetIsRange
    <3>3. CASE i < n
      BY <2>1, <2>2, <2>6, <3>2, <3>3
    <3>4. CASE i > n
      <4>1. i - 1 \in 1..Len(t) /\ ~(i - 1 < n) /\ (i - 1) + 1 = i
        BY <2>1, <2>2, <2>6, <3>2, <3>4
      <4>2. QED
        BY <2>6, <3>2, <4>1
    <3>5. QED
      BY <2>1, <2>2, <3>1, <3>2, <3>3, <3>4
  <2>8. ASSUME NoDuplicates(s)
        PROVE  ToSet(t) \subseteq ToSet(s) \ {c} /\ NoDuplicates(t)
    <3>1. ASSUME NEW i \in 1..Len(t)
          PROVE  \E j \in 1..Len(s) : /\ j = (IF i < n THEN i ELSE i + 1)
                                      /\ t[i] = s[j] /\ j # n
      BY <2>2, <2>6
    <3>2. NoDuplicates(t)
      BY <2>2, <2>6, <2>8, <3>1 DEF NoDuplicates
    <3>3. ToSet(t) \subseteq ToSet(s) \ {c}
      BY <2>1, <2>6, <2>8, <3>1, ToSetIsRange DEF NoDuplicates
    <3>4. QED
      BY <3>2, <3>3
  <2>9. QED
    BY <2>6, <2>7, <2>8 DEF t
<1>3. QED
  BY <1>1, <1>2

\* list.MoveToFront keeps the set of elements.
LEMMA MoveToFrontElements ==
  ASSUME NEW S, NEW s \in Seq(S), NEW c \in ToSet(s)
  PROVE  /\ MoveToFront(s, c) \in Seq(S)
         /\ ToSet(s) \subseteq ToSet(MoveToFront(s, c))
         /\ NoDuplicates(s) => /\ ToSet(MoveToFront(s, c)) = ToSet(s)
                               /\ NoDuplicates(MoveToFront(s, c))
<1>1. c \in S
  BY ToSetIsRange
<1> DEFINE d == Detach(s, c)
<1> HIDE DEF d
<1>2. /\ d \in Seq(S)
      /\ ToSet(s) \ {c} \subseteq ToSet(d)
      /\ NoDuplicates(s) => ToSet(d) = ToSet(s) \ {c} /\ NoDuplicates(d)
  BY DetachElements DEF d
<1>3. /\ PushFront(d, c) \in Seq(S)
      /\ ToSet(PushFront(d, c)) = ToSet(d) \cup {c}
      /\ NoDuplicates(d) /\ c \notin ToSet(d) => NoDuplicates(PushFront(d, c))
  BY <1>1, <1>2, PushFrontElements
<1>4. QED
  BY <1>2, <1>3 DEF MoveToFront, d

-----------------------------------------------------------------------------
(***************************************************************************)
(* MapThenSumSet: how a sum over a finite set changes with the set.  Its   *)
(* fold is a recursive function on the subsets; the facts about it are     *)
(* proved by a smallest counterexample.                                    *)
(***************************************************************************)
\* The induction all of them use: a set of numbers has a least element.
LEMMA LeastNat ==
  ASSUME NEW T, T \subseteq Nat, T # {}
  PROVE  \E n \in T : \A m \in T : n <= m
<1> DEFINE R == {pair \in Nat \X Nat : pair[1] < pair[2]}
<1>1. IsWellFoundedOn(R, Nat)
  BY NatLessThanWellFounded DEF OpToRel
<1>2. \A m, n \in Nat : m < n => <<m, n>> \in R
  OBVIOUS
<1> HIDE DEF R
<1>3. PICK n \in T : \A m \in T : <<m, n>> \notin R
  BY <1>1, WFMin
<1>4. ASSUME NEW m \in T PROVE n <= m
  <2>1. m \in Nat /\ n \in Nat /\ <<m, n>> \notin R
    BY <1>3
  <2>2. ~(m < n)
    BY <1>2, <2>1
  <2>3. QED
    BY <2>1, <2>2
<1>5. QED
  BY <1>4

\* The sum of f over a finite set, as the properties take it.
SumOf(f, S) == MapThenSumSet(LAMBDA x : f[x], S)

Picked(s) == CHOOSE x \in s : TRUE

\* The table a fold is computed with, for the subsets in D.
Iterates(it, f, D) ==
  it = [s \in D |-> IF s = {} THEN 0 ELSE f[Picked(s)] + it[s \ {Picked(s)}]]

\* A sum is the entry of its whole set in such a table.
LEMMA SumDef ==
  ASSUME NEW f, NEW S
  PROVE  SumOf(f, S) = (CHOOSE it : Iterates(it, f, SUBSET S))[S]
  BY DEF SumOf, MapThenSumSet, MapThenFoldSet, Iterates, Picked

\* The element a fold picks leaves a smaller set.
LEMMA PickedLeaves ==
  ASSUME NEW s, IsFiniteSet(s), s # {}
  PROVE  /\ Picked(s) \in s
         /\ IsFiniteSet(s \ {Picked(s)})
         /\ Cardinality(s) \in Nat \ {0} /\ Cardinality(s \ {Picked(s)}) = Cardinality(s) - 1
<1>1. Picked(s) \in s
  BY DEF Picked
<1>2. QED
  BY <1>1, FS_RemoveElement, FS_CardinalityType, FS_EmptySet

\* There is such a table.
LEMMA TableExists ==
  ASSUME NEW f, NEW S, IsFiniteSet(S)
  PROVE  \E it : Iterates(it, f, SUBSET S)
<1> DEFINE D(n) == {s \in SUBSET S : Cardinality(s) <= n}
           Missing == {n \in Nat : ~ \E it : Iterates(it, f, D(n))}
<1>1. \A s \in SUBSET S : IsFiniteSet(s) /\ Cardinality(s) \in Nat /\ Cardinality(s) <= Cardinality(S)
  BY FS_Subset, FS_CardinalityType
<1>2. ASSUME NEW n \in Missing, \A m \in Missing : n <= m
      PROVE  FALSE
  <2>1. n \in Nat /\ ~ \E it : Iterates(it, f, D(n))
    OBVIOUS
  <2>2. CASE n = 0
    <3>1. \A s \in D(0) : s = {}
      BY <1>1, FS_EmptySet
    <3>2. Iterates([s \in D(0) |-> 0], f, D(0))
      BY <3>1 DEF Iterates
    <3>3. QED
      BY <2>1, <2>2, <3>2
  <2>3. CASE n # 0
    <3>1. n - 1 \in Nat /\ n - 1 \notin Missing
      <4>1. n - 1 \in Nat /\ ~(n <= n - 1)
        BY <2>1, <2>3
      <4> HIDE DEF Missing
      <4>2. QED
        BY <1>2, <4>1
    <3>2. PICK it : Iterates(it, f, D(n - 1))
      BY <3>1
    <3> DEFINE next == [s \in D(n) |-> IF s = {} THEN 0 ELSE f[Picked(s)] + it[s \ {Picked(s)}]]
    <3>3. ASSUME NEW s \in D(n), s # {}
          PROVE  next[s \ {Picked(s)}] = it[s \ {Picked(s)}]
      <4> DEFINE t == s \ {Picked(s)}
      <4>1. s \in SUBSET S /\ IsFiniteSet(s) /\ Cardinality(s) \in Nat /\ Cardinality(s) <= n
        BY <1>1
      <4>2. t \in SUBSET S /\ Cardinality(t) = Cardinality(s) - 1
        BY <3>3, <4>1, PickedLeaves
      <4>3. t \in D(n - 1) /\ t \in D(n)
        BY <2>1, <4>1, <4>2
      <4> HIDE DEF t, D
      <4>4. it[t] = IF t = {} THEN 0 ELSE f[Picked(t)] + it[t \ {Picked(t)}]
        BY <3>2, <4>3 DEF Iterates
      <4>5. next[t] = IF t = {} THEN 0 ELSE f[Picked(t)] + it[t \ {Picked(t)}]
        BY <4>3
      <4>6. QED
        BY <4>4, <4>5 DEF t
    <3> HIDE DEF D
    <3>4. next = [s \in D(n) |-> IF s = {} THEN 0 ELSE f[Picked(s)] + next[s \ {Picked(s)}]]
      BY <3>3
    <3>5. QED
      BY <2>1, <3>4 DEF Iterates
  <2>4. QED
    BY <2>2, <2>3
<1>3. Missing = {}
  <2>1. Missing \subseteq Nat
    OBVIOUS
  <2> HIDE DEF Missing
  <2>2. QED
    BY <1>2, <2>1, LeastNat
<1>4. Cardinality(S) \in Nat /\ D(Cardinality(S)) = SUBSET S
  BY <1>1, FS_CardinalityType
<1>5. QED
  BY <1>3, <1>4

\* Two tables agree on the sets on which their functions do.
LEMMA TablesAgree ==
  ASSUME NEW f, NEW g, NEW S, NEW T, NEW it, NEW jt, IsFiniteSet(S), IsFiniteSet(T),
         Iterates(it, f, SUBSET S), Iterates(jt, g, SUBSET T),
         NEW s \in SUBSET (S \cap T), \A x \in s : f[x] = g[x]
  PROVE  it[s] = jt[s]
<1> DEFINE Differ == {r \in SUBSET s : it[r] # jt[r]}
           Sizes == {Cardinality(r) : r \in Differ}
<1>1. \A r \in SUBSET s : IsFiniteSet(r) /\ Cardinality(r) \in Nat /\ r \in SUBSET S /\ r \in SUBSET T
  BY FS_Subset, FS_CardinalityType
<1>2. ASSUME NEW n \in Sizes, \A m \in Sizes : n <= m
      PROVE  FALSE
  <2>1. PICK r \in SUBSET s : it[r] # jt[r] /\ n = Cardinality(r)
    OBVIOUS
  <2>2. /\ it[r] = IF r = {} THEN 0 ELSE f[Picked(r)] + it[r \ {Picked(r)}]
        /\ jt[r] = IF r = {} THEN 0 ELSE g[Picked(r)] + jt[r \ {Picked(r)}]
    BY <1>1 DEF Iterates
  <2>3. r # {}
    BY <2>1, <2>2
  <2>4. Picked(r) \in r /\ Cardinality(r) \in Nat /\ Cardinality(r \ {Picked(r)}) = Cardinality(r) - 1
    BY <1>1, <2>3, PickedLeaves
  <2>5. f[Picked(r)] = g[Picked(r)]
    BY <2>1, <2>4
  <2>6. r \ {Picked(r)} \in Differ
    BY <2>1, <2>2, <2>3, <2>5
  <2>7. Cardinality(r) - 1 \in Sizes
    BY <2>4, <2>6
  <2>8. QED
    BY <1>2, <2>1, <2>4, <2>7
<1>3. Sizes = {}
  <2>1. Sizes \subseteq Nat
    BY <1>1
  <2> HIDE DEF Sizes
  <2>2. QED
    BY <1>2, <2>1, LeastNat
<1>4. QED
  BY <1>3

\* An empty sum is zero; any other is its picked element and the rest.
LEMMA SumUnfolds ==
  ASSUME NEW f, NEW S, IsFiniteSet(S)
  PROVE  SumOf(f, S) = IF S = {} THEN 0 ELSE f[Picked(S)] + SumOf(f, S \ {Picked(S)})
<1> DEFINE R == S \ {Picked(S)}
           it == CHOOSE t : Iterates(t, f, SUBSET S)
           jt == CHOOSE t : Iterates(t, f, SUBSET R)
<1>1. IsFiniteSet(R)
  BY FS_Subset
<1>2. Iterates(it, f, SUBSET S)
  BY TableExists
<1>3. Iterates(jt, f, SUBSET R)
  BY <1>1, TableExists
<1>4. SumOf(f, S) = it[S] /\ SumOf(f, R) = jt[R]
  BY SumDef
<1> HIDE DEF it, jt
<1>5. it[S] = IF S = {} THEN 0 ELSE f[Picked(S)] + it[S \ {Picked(S)}]
  BY <1>2 DEF Iterates
<1>6. it[R] = jt[R]
  <2>1. R \in SUBSET (S \cap R)
    OBVIOUS
  <2> HIDE DEF R
  <2>2. QED
    BY <1>1, <1>2, <1>3, <2>1, TablesAgree
<1>7. QED
  BY <1>4, <1>5, <1>6

\* Equal summands, equal sums.
LEMMA SumCongruent ==
  ASSUME NEW f, NEW g, NEW S, IsFiniteSet(S), \A x \in S : f[x] = g[x]
  PROVE  SumOf(f, S) = SumOf(g, S)
<1> DEFINE it == CHOOSE t : Iterates(t, f, SUBSET S)
           jt == CHOOSE t : Iterates(t, g, SUBSET S)
<1>1. Iterates(it, f, SUBSET S) /\ Iterates(jt, g, SUBSET S)
  BY TableExists
<1>2. SumOf(f, S) = it[S] /\ SumOf(g, S) = jt[S]
  BY SumDef
<1> HIDE DEF it, jt
<1>3. it[S] = jt[S]
  BY <1>1, TablesAgree
<1>4. QED
  BY <1>2, <1>3

\* A sum of natural numbers is one.
LEMMA SumType ==
  ASSUME NEW f, NEW S, IsFiniteSet(S), \A x \in S : f[x] \in Nat
  PROVE  SumOf(f, S) \in Nat
<1> DEFINE Wrong == {r \in SUBSET S : SumOf(f, r) \notin Nat}
           Sizes == {Cardinality(r) : r \in Wrong}
<1>1. \A r \in SUBSET S : IsFiniteSet(r) /\ Cardinality(r) \in Nat
  BY FS_Subset, FS_CardinalityType
<1>2. ASSUME NEW n \in Sizes, \A m \in Sizes : n <= m
      PROVE  FALSE
  <2>1. PICK r \in SUBSET S : SumOf(f, r) \notin Nat /\ n = Cardinality(r)
    OBVIOUS
  <2>2. r # {} /\ SumOf(f, r) = f[Picked(r)] + SumOf(f, r \ {Picked(r)})
    BY <1>1, <2>1, SumUnfolds
  <2>3. Picked(r) \in r /\ Cardinality(r) \in Nat /\ Cardinality(r \ {Picked(r)}) = Cardinality(r) - 1
    BY <1>1, <2>2, PickedLeaves
  <2>4. r \ {Picked(r)} \in Wrong
    BY <2>1, <2>2, <2>3
  <2>5. Cardinality(r) - 1 \in Sizes
    BY <2>3, <2>4
  <2>6. QED
    BY <1>2, <2>1, <2>3, <2>5
<1>3. Sizes = {}
  <2>1. Sizes \subseteq Nat
    BY <1>1
  <2> HIDE DEF Sizes
  <2>2. QED
    BY <1>2, <2>1, LeastNat
<1>4. QED
  BY <1>3

\* Any element can be taken out of a sum.
LEMMA SumTakesOut ==
  ASSUME NEW f, NEW S, IsFiniteSet(S), \A x \in S : f[x] \in Nat, NEW e \in S
  PROVE  SumOf(f, S) = f[e] + SumOf(f, S \ {e})
<1> DEFINE Wrong == {r \in SUBSET S : \E x \in r : SumOf(f, r) # f[x] + SumOf(f, r \ {x})}
           Sizes == {Cardinality(r) : r \in Wrong}
<1>1. \A r \in SUBSET S : IsFiniteSet(r) /\ Cardinality(r) \in Nat
  BY FS_Subset, FS_CardinalityType
<1>2. \A r \in SUBSET S : SumOf(f, r) \in Nat
  BY <1>1, SumType
<1>3. ASSUME NEW n \in Sizes, \A m \in Sizes : n <= m
      PROVE  FALSE
  <2>0. PICK r \in SUBSET S : n = Cardinality(r) /\ \E x \in r : SumOf(f, r) # f[x] + SumOf(f, r \ {x})
    OBVIOUS
  <2>1. PICK x \in r : n = Cardinality(r) /\ SumOf(f, r) # f[x] + SumOf(f, r \ {x})
    BY <2>0
  <2>2. PICK p : p = Picked(r)
    OBVIOUS
  <2>3. SumOf(f, r) = f[p] + SumOf(f, r \ {p})
    BY <1>1, <2>1, <2>2, SumUnfolds
  <2>4. p \in r /\ p # x /\ Cardinality(r) \in Nat
    BY <1>1, <2>1, <2>2, <2>3, PickedLeaves
  <2>5. ASSUME NEW z \in r PROVE r \ {z} \notin Wrong
    <3>1. Cardinality(r \ {z}) = Cardinality(r) - 1
      BY <1>1, FS_RemoveElement
    <3>2. r \ {z} \in Wrong => Cardinality(r) - 1 \in Sizes
      BY <3>1
    <3> HIDE DEF Sizes, Wrong
    <3>3. QED
      BY <1>3, <2>1, <2>4, <3>2
  <2>6. SumOf(f, r \ {p}) = f[x] + SumOf(f, (r \ {p}) \ {x})
    BY <2>1, <2>4, <2>5
  <2>7. SumOf(f, r \ {x}) = f[p] + SumOf(f, (r \ {x}) \ {p})
    BY <2>1, <2>4, <2>5
  <2>8. (r \ {p}) \ {x} = (r \ {x}) \ {p}
    OBVIOUS
  <2>9. PICK rest \in Nat : rest = SumOf(f, (r \ {x}) \ {p})
    BY <1>2
  <2>10. SumOf(f, r \ {p}) = f[x] + rest /\ SumOf(f, r \ {x}) = f[p] + rest
    BY <2>6, <2>7, <2>8, <2>9
  <2>11. f[p] \in Nat /\ f[x] \in Nat
    BY <2>4
  <2>12. SumOf(f, r) = f[p] + (f[x] + rest) /\ SumOf(f, r) # f[x] + (f[p] + rest)
    BY <2>1, <2>3, <2>10
  <2>13. QED
    BY <2>9, <2>11, <2>12
<1>4. Sizes = {}
  <2>1. Sizes \subseteq Nat
    BY <1>1
  <2> HIDE DEF Sizes
  <2>2. QED
    BY <1>3, <2>1, LeastNat
<1>5. QED
  BY <1>4

-----------------------------------------------------------------------------
(***************************************************************************)
(* The inductive invariant                                                 *)
(***************************************************************************)
HoldersOf(c) == {p \in Clients : pc[p] = "held" /\ chunk[p] = c}

\* chunk.refs counts exactly the clients between the increment and the decrement.
RefsCounted == \A c \in Chunks : refs[c] = Cardinality(HoldersOf(c))

\* cs.mu is held across steps by the client in the eviction loop only.
LockHeld == \A p \in Clients : pc[p] \in {"evict", "finalize"} <=> mu = p

\* What a client points at, location by location.
PointersSet ==
  \A p \in Clients :
    /\ pc[p] # "idle" => want[p] \in Keys
    /\ pc[p] \in {"insert", "evict", "finalize", "held", "checkEvicted", "reclaim"}
         => chunk[p] # NoChunk
    /\ pc[p] \in {"idle", "lookup", "flight", "wait", "recheck", "guard", "load"}
         => chunk[p] = NoChunk
    /\ chunk[p] # NoChunk => keyOf[chunk[p]] = want[p] /\ want[p] \in Keys

\* The victim is off the list and marked, and is kept only until finalized.
VictimSet ==
  \A p \in Clients :
    IF pc[p] = "finalize"
    THEN victim[p] \in evicted \ ToSet(lru) /\ keyOf[victim[p]] \in Keys
    ELSE victim[p] = NoChunk

\* A client running fn is the one the singleflight group recorded.
CallLed == \A p \in Clients : pc[p] \in Leading => flight[want[p]] = p

\* Until fn returns, nobody else points at the chunk it loaded.
NewChunkPrivate ==
  \A p \in Clients : pc[p] \in {"insert", "evict", "finalize"} =>
    \A q \in Clients \ {p} : chunk[q] # chunk[p]

\* A chunk about to be inserted is in no list and neither evicted nor freed.
NewChunkFresh ==
  \A p \in Clients : pc[p] = "insert" =>
    chunk[p] \notin ToSet(lru) /\ chunk[p] \notin evicted /\ chunk[p] \notin freed

\* While the loop runs, the excess over the limit is at most the new chunk,
\* and as long as there is an excess that chunk can still be taken and freed.
BudgetMargin ==
  /\ mu = NoClient => usedCapB <= LimitB
  /\ \A p \in Clients :
       /\ pc[p] = "evict" =>
            \/ usedCapB <= LimitB
            \/ usedCapB <= LimitB + BytesCap[want[p]] /\ chunk[p] \in ToSet(lru)
       /\ pc[p] = "finalize" =>
            /\ usedCapB <= LimitB + BytesCap[want[p]]
            /\ chunk[p] \in ToSet(lru) \/ (victim[p] = chunk[p] /\ chunk[p] \notin freed)

IInv ==
  /\ TypeOK
  /\ RefsCounted
  /\ LockHeld
  /\ PointersSet
  /\ VictimSet
  /\ CallLed
  /\ NewChunkPrivate
  /\ NewChunkFresh
  /\ CacheIndex
  /\ BudgetMargin
  /\ SoleLoader
  /\ HitProtects
  /\ NoLeak

-----------------------------------------------------------------------------
(***************************************************************************)
(* What the invariant says of the steps that need more than one part of it *)
(***************************************************************************)
\* NewChunkStore establishes the invariant.
LEMMA InitIInv == Init => IInv
<1> SUFFICES ASSUME Init PROVE IInv
  OBVIOUS
<1>1. ToSet(lru) = {} /\ lru \in Seq(Chunks) /\ Len(lru) = 0
  BY DEF Init, ToSet
<1>2. RefsCounted
  <2>1. \A c \in Chunks : HoldersOf(c) = {}
    BY DEF Init, HoldersOf
  <2>2. QED
    BY <2>1, FS_EmptySet DEF Init, RefsCounted
<1>3. TypeOK
  BY <1>1 DEF Init, TypeOK, Locations
<1>4. LockHeld /\ PointersSet /\ VictimSet /\ CallLed /\ NewChunkPrivate /\ NewChunkFresh
  BY ClientsAssumption DEF Init, LockHeld, PointersSet, VictimSet, CallLed, NewChunkPrivate,
     NewChunkFresh, Leading
<1>5. CacheIndex /\ BudgetMargin /\ SoleLoader /\ HitProtects /\ NoLeak
  BY <1>1, LimitAssumption DEF Init, CacheIndex, BudgetMargin, SoleLoader, Leading, HitProtects, NoLeak
<1>6. QED
  BY <1>2, <1>3, <1>4, <1>5 DEF IInv

\* The set of holders is finite, and a holder makes the counter positive.
LEMMA HoldersFinite == \A c : IsFiniteSet(HoldersOf(c)) /\ Cardinality(HoldersOf(c)) \in Nat
  BY ClientsAssumption, FS_Subset, FS_CardinalityType DEF HoldersOf

\* The reference of a client that holds a chunk is among those counted.
LEMMA HeldIsCounted ==
  ASSUME IInv, NEW p \in Clients, pc[p] = "held"
  PROVE  chunk[p] \in Chunks /\ refs[chunk[p]] \in Nat /\ refs[chunk[p]] >= 1
<1>1. chunk[p] \in Chunks
  BY DEF IInv, TypeOK, PointersSet
<1>2. p \in HoldersOf(chunk[p])
  BY DEF HoldersOf
<1>3. Cardinality(HoldersOf(chunk[p])) # 0
  BY <1>2, HoldersFinite, FS_EmptySet
<1>4. QED
  BY <1>1, <1>3, HoldersFinite DEF IInv, RefsCounted

\* An entry of the map is a listed chunk of its key.
LEMMA ItemIsListed ==
  ASSUME IInv, NEW k \in Keys, items[k] # NoChunk
  PROVE  /\ items[k] \in Chunks /\ items[k] \in ToSet(lru)
         /\ keyOf[items[k]] = k
         /\ items[k] \notin evicted /\ items[k] \notin freed
  BY DEF IInv, TypeOK, CacheIndex

\* An LRU hit reorders the list and nothing else.
LEMMA HitReorders ==
  ASSUME IInv, NEW k \in Keys, items[k] # NoChunk
  PROVE  /\ MoveToFront(lru, items[k]) \in Seq(Chunks)
         /\ ToSet(MoveToFront(lru, items[k])) = ToSet(lru)
         /\ NoDuplicates(MoveToFront(lru, items[k]))
<1>1. lru \in Seq(Chunks) /\ NoDuplicates(lru)
  BY DEF IInv, TypeOK, CacheIndex, NoDuplicates
<1>2. items[k] \in ToSet(lru)
  BY ItemIsListed
<1>3. QED
  BY <1>1, <1>2, MoveToFrontElements

\* When the loop stops the budget is respected, so the insertion is never undone.
LEMMA NoUndo ==
  ASSUME IInv, NEW p \in Clients, pc[p] = "evict", mu = p, ~EvictionDue
  PROVE  usedCapB <= LimitB /\ ~OverPressure
<1>1. usedCapB \in Nat /\ want[p] \in Keys /\ BytesCap[want[p]] \in Nat
  BY BytesCapAssumption DEF IInv, TypeOK, PointersSet
<1>2. ~(usedCapB > LimitB) \/ lru = <<>>
  BY DEF EvictionDue
<1>3. lru = <<>> => ToSet(lru) = {}
  BY DEF ToSet
<1>4. usedCapB <= LimitB
  BY <1>1, <1>2, <1>3, LimitAssumption DEF IInv, BudgetMargin
<1>5. LimitB <= LimitB * PressureGuardFactor
  BY LimitAssumption
<1>6. QED
  BY <1>1, <1>4, <1>5, LimitAssumption DEF OverPressure

\* The tail of the list leaves it, and with it the map entry of its key.
LEMMA TailLeaves ==
  ASSUME IInv, EvictionDue
  PROVE  /\ Last(lru) \in Chunks /\ Last(lru) \in ToSet(lru)
         /\ keyOf[Last(lru)] \in Keys
         /\ Last(lru) \notin evicted /\ Last(lru) \notin freed
         /\ Front(lru) \in Seq(Chunks)
         /\ ToSet(Front(lru)) = ToSet(lru) \ {Last(lru)}
         /\ NoDuplicates(Front(lru))
  BY FrontElements, ToSetIsRange DEF IInv, TypeOK, CacheIndex, EvictionDue, NoDuplicates

\* The chunk fn loaded has no holder until fn returns.
LEMMA NewChunkUnheld ==
  ASSUME IInv, NEW p \in Clients, pc[p] \in {"insert", "evict", "finalize"}
  PROVE  chunk[p] \in Chunks /\ refs[chunk[p]] = 0
<1>1. chunk[p] \in Chunks
  BY DEF IInv, TypeOK, PointersSet
<1>2. HoldersOf(chunk[p]) = {}
  BY DEF IInv, NewChunkPrivate, HoldersOf
<1>3. QED
  BY <1>1, <1>2, FS_EmptySet DEF IInv, RefsCounted

\* Finalizing keeps the types, never raises the budget, and frees c at most.
LEMMA FinalizeEffect ==
  ASSUME IInv, NEW c \in Chunks, keyOf[c] \in Keys, TryFinalize(c)
  PROVE  /\ usedCapB' \in Nat /\ usedCapB' <= usedCapB
         /\ freed' = IF CanFinalize(c) THEN freed \cup {c} ELSE freed
         /\ CanFinalize(c) => \/ usedCapB' = 0
                              \/ usedCapB' = usedCapB - BytesCap[keyOf[c]]
  BY BytesCapAssumption DEF IInv, TypeOK, TryFinalize, ClampedToZero

-----------------------------------------------------------------------------
(***************************************************************************)
(* Every step of a client preserves each part of the invariant             *)
(***************************************************************************)
StoreStep(p) == (\E k \in Keys : GetChunk(p, k)) \/ RunStep(p) \/ LockStep(p)

\* No step leaves the types; in particular no counter drops below zero.
LEMMA TypeOKStep ==
  ASSUME IInv, NEW p \in Clients, StoreStep(p)
  PROVE  TypeOK'
<1> USE DEF Goto, storeVars, heapVars, clientVars, Locations
<1>0. TypeOK
  BY DEF IInv
<1>1. ASSUME NEW k \in Keys, GetChunk(p, k) PROVE TypeOK'
  BY <1>0, <1>1 DEF TypeOK, GetChunk
<1>2. CASE LookupHit(p)
  BY <1>0, <1>2, HitReorders, ItemIsListed DEF IInv, PointersSet, TypeOK, LookupHit
<1>3. CASE LookupMiss(p)
  BY <1>0, <1>3 DEF TypeOK, LookupMiss
<1>4. CASE Join(p)
  BY <1>0, <1>4 DEF TypeOK, Join
<1>5. CASE Lead(p)
  BY <1>0, <1>5 DEF TypeOK, Lead
<1>6. CASE RecheckHit(p)
  BY <1>0, <1>6, HitReorders, ItemIsListed DEF IInv, PointersSet, TypeOK, RecheckHit
<1>7. CASE RecheckMiss(p)
  BY <1>0, <1>7 DEF TypeOK, RecheckMiss
<1>8. CASE PressureGuard(p)
  BY <1>0, <1>8 DEF TypeOK, PressureGuard
<1>9. CASE LoadFail(p)
  BY <1>0, <1>9 DEF TypeOK, LoadFail
<1>10. CASE LoadChunk(p)
  BY <1>0, <1>10 DEF TypeOK, LoadChunk
<1>11. CASE Insert(p)
  <2>1. chunk[p] \in Chunks /\ want[p] \in Keys /\ BytesCap[keyOf[chunk[p]]] \in Nat
    BY <1>0, <1>11, BytesCapAssumption DEF IInv, TypeOK, PointersSet, Insert
  <2>2. PushFront(lru, chunk[p]) \in Seq(Chunks)
    BY <1>0, <2>1, PushFrontElements DEF TypeOK
  <2>3. QED
    BY <1>0, <1>11, <2>1, <2>2 DEF TypeOK, Insert
<1>12. CASE EvictTail(p)
  BY <1>0, <1>12, TailLeaves DEF TypeOK, EvictTail
<1>13. CASE FinalizeVictim(p)
  <2>1. victim[p] \in Chunks /\ keyOf[victim[p]] \in Keys
    BY <1>0, <1>13 DEF IInv, TypeOK, VictimSet, FinalizeVictim
  <2>2. usedCapB' \in Nat /\ freed' \subseteq Chunks
    BY <1>0, <1>13, <2>1, FinalizeEffect DEF TypeOK, FinalizeVictim
  <2>3. QED
    BY <1>0, <1>13, <2>2 DEF TypeOK, FinalizeVictim
<1>14. CASE FinishInsert(p)
  BY <1>0, <1>14, NoUndo DEF TypeOK, FinishInsert
<1>15. CASE Publish(p)
  BY <1>0, <1>15 DEF TypeOK, Publish
<1>16. CASE GetError(p)
  BY <1>0, <1>16 DEF TypeOK, GetError
<1>17. CASE TakeRef(p)
  BY <1>0, <1>17 DEF TypeOK, TakeRef
<1>18. CASE DropRef(p)
  <2>1. chunk[p] \in Chunks /\ refs[chunk[p]] \in Nat /\ refs[chunk[p]] >= 1
    BY <1>18, HeldIsCounted DEF DropRef
  <2>2. refs' \in [Chunks -> Nat]
    BY <1>0, <1>18, <2>1 DEF TypeOK, DropRef
  <2>3. /\ pc' \in [Clients -> Locations]
        /\ want' \in [Clients -> Keys \cup {NoKey}]
        /\ chunk' \in [Clients -> Chunks \cup {NoChunk}]
    BY <1>0, <1>18 DEF TypeOK, DropRef, ReleaseDone
  <2>4. QED
    BY <1>0, <1>18, <2>2, <2>3 DEF TypeOK, DropRef
<1>19. CASE CheckEvicted(p)
  BY <1>0, <1>19 DEF TypeOK, CheckEvicted, ReleaseDone
<1>20. CASE Reclaim(p)
  <2>1. chunk[p] \in Chunks /\ keyOf[chunk[p]] \in Keys
    BY <1>0, <1>20 DEF IInv, TypeOK, PointersSet, Reclaim
  <2>2. usedCapB' \in Nat /\ freed' \subseteq Chunks
    BY <1>0, <1>20, <2>1, FinalizeEffect DEF TypeOK, Reclaim
  <2>3. QED
    BY <1>0, <1>20, <2>2 DEF TypeOK, Reclaim, ReleaseDone
<1>21. QED
  BY <1>1, <1>2, <1>3, <1>4, <1>5, <1>6, <1>7, <1>8, <1>9, <1>10, <1>11, <1>12, <1>13, <1>14, <1>15, <1>16, <1>17, <1>18, <1>19, <1>20 DEF StoreStep, RunStep, LockStep

\* A step that changes neither the holders nor the counters.
LEMMA HoldersKept ==
  ASSUME IInv, refs' = refs,
         \A q \in Clients : /\ pc'[q] = "held" <=> pc[q] = "held"
                            /\ pc[q] = "held" => chunk'[q] = chunk[q]
  PROVE  RefsCounted'
<1>1. \A c : HoldersOf(c)' = HoldersOf(c)
  BY DEF HoldersOf
<1>2. QED
  BY <1>1 DEF IInv, RefsCounted

\* Taking a reference adds one holder and one to the counter (LookupHit, TakeRef).
LEMMA HolderAdded ==
  ASSUME IInv, NEW p \in Clients, NEW c \in Chunks,
         pc[p] # "held", pc' = [pc EXCEPT ![p] = "held"],
         chunk' = [chunk EXCEPT ![p] = c], refs' = [refs EXCEPT ![c] = @ + 1]
  PROVE  RefsCounted'
<1>1. HoldersOf(c)' = HoldersOf(c) \cup {p} /\ p \notin HoldersOf(c)
  BY DEF HoldersOf, IInv, TypeOK
<1>2. \A d \in Chunks \ {c} : HoldersOf(d)' = HoldersOf(d)
  BY DEF HoldersOf, IInv, TypeOK
<1>3. Cardinality(HoldersOf(c) \cup {p}) = Cardinality(HoldersOf(c)) + 1
  BY <1>1, HoldersFinite, FS_AddElement
<1>4. QED
  BY <1>1, <1>2, <1>3 DEF IInv, TypeOK, RefsCounted

\* Dropping a reference removes one holder and one from the counter (ReleaseChunk).
LEMMA HolderRemoved ==
  ASSUME IInv, NEW p \in Clients, DropRef(p)
  PROVE  RefsCounted'
<1>1. PICK c \in Chunks : c = chunk[p] /\ pc[p] = "held"
  BY HeldIsCounted DEF DropRef
<1>2. /\ pc'[p] # "held"
      /\ \A q \in Clients \ {p} : pc'[q] = pc[q] /\ chunk'[q] = chunk[q]
      /\ refs' = [refs EXCEPT ![c] = @ - 1]
  BY <1>1 DEF IInv, TypeOK, DropRef, ReleaseDone, Goto
<1>3. HoldersOf(c)' = HoldersOf(c) \ {p} /\ p \in HoldersOf(c)
  BY <1>1, <1>2 DEF HoldersOf
<1>4. \A d \in Chunks \ {c} : HoldersOf(d)' = HoldersOf(d)
  BY <1>1, <1>2 DEF HoldersOf
<1>5. Cardinality(HoldersOf(c) \ {p}) = Cardinality(HoldersOf(c)) - 1
  BY <1>3, HoldersFinite, FS_RemoveElement
<1>6. QED
  BY <1>2, <1>3, <1>4, <1>5 DEF IInv, TypeOK, RefsCounted

\* chunk.refs keeps counting the holders, in and outside cs.mu.
LEMMA RefsCountedStep ==
  ASSUME IInv, NEW p \in Clients, StoreStep(p)
  PROVE  RefsCounted'
<1> USE DEF Goto, storeVars, heapVars
<1>0. TypeOK /\ PointersSet
  BY DEF IInv
<1>1. CASE \/ \E k \in Keys : GetChunk(p, k)
           \/ LookupMiss(p) \/ Join(p) \/ Lead(p) \/ RecheckHit(p) \/ RecheckMiss(p)
           \/ PressureGuard(p) \/ LoadFail(p) \/ Insert(p)
  BY <1>0, <1>1, HoldersKept DEF TypeOK, GetChunk, LookupMiss, Join, Lead, RecheckHit,
     RecheckMiss, PressureGuard, LoadFail, Insert
<1>2. CASE \/ EvictTail(p) \/ FinalizeVictim(p) \/ GetError(p) \/ CheckEvicted(p) \/ Reclaim(p)
  BY <1>0, <1>2, HoldersKept DEF TypeOK, EvictTail, FinalizeVictim, GetError, CheckEvicted,
     Reclaim, ReleaseDone
<1>3. CASE FinishInsert(p)
  BY <1>0, <1>3, HoldersKept, NoUndo DEF TypeOK, FinishInsert
<1>4. CASE Publish(p)
  BY <1>0, <1>4, HoldersKept DEF TypeOK, Publish, Served
<1>5. CASE LookupHit(p)
  <2>1. items[want[p]] \in Chunks
    BY <1>0, <1>5, ItemIsListed DEF PointersSet, LookupHit
  <2>2. QED
    BY <1>5, <2>1, HolderAdded DEF LookupHit
<1>6. CASE TakeRef(p)
  <2>1. chunk[p] \in Chunks /\ chunk' = [chunk EXCEPT ![p] = chunk[p]]
    BY <1>0, <1>6 DEF TypeOK, TakeRef
  <2>2. QED
    BY <1>6, <2>1, HolderAdded DEF TakeRef
<1>7. CASE DropRef(p)
  BY <1>7, HolderRemoved
<1>8. CASE LoadChunk(p)
  <2>1. PICK c \in Chunks \ Reachable : /\ refs' = [refs EXCEPT ![c] = 0]
                                        /\ chunk' = [chunk EXCEPT ![p] = c]
    BY <1>8 DEF LoadChunk
  <2>2. HoldersOf(c)' = {}
    BY <1>0, <1>8, <2>1 DEF TypeOK, LoadChunk, HoldersOf, Reachable
  <2>3. \A d \in Chunks \ {c} : HoldersOf(d)' = HoldersOf(d)
    BY <1>0, <1>8, <2>1 DEF TypeOK, LoadChunk, HoldersOf
  <2>4. QED
    BY <1>0, <2>1, <2>2, <2>3, FS_EmptySet DEF IInv, TypeOK, RefsCounted
<1>9. QED
  BY <1>1, <1>2, <1>3, <1>4, <1>5, <1>6, <1>7, <1>8 DEF StoreStep, RunStep, LockStep

\* cs.mu is passed on only at the end of the eviction loop.
LEMMA LockHeldStep ==
  ASSUME IInv, NEW p \in Clients, StoreStep(p)
  PROVE  LockHeld'
<1> USE ClientsAssumption DEF Goto, storeVars
<1>0. TypeOK /\ LockHeld
  BY DEF IInv
<1>1. CASE \/ \E k \in Keys : GetChunk(p, k)
           \/ LookupHit(p) \/ LookupMiss(p) \/ Join(p) \/ Lead(p)
           \/ RecheckHit(p) \/ RecheckMiss(p) \/ PressureGuard(p)
  BY <1>0, <1>1 DEF TypeOK, LockHeld, GetChunk, LookupHit, LookupMiss, Join, Lead, RecheckHit,
     RecheckMiss, PressureGuard
<1>2. CASE \/ LoadFail(p) \/ LoadChunk(p) \/ GetError(p) \/ TakeRef(p) \/ DropRef(p)
           \/ CheckEvicted(p) \/ Reclaim(p)
  BY <1>0, <1>2 DEF TypeOK, LockHeld, LoadFail, LoadChunk, GetError, TakeRef, DropRef,
     CheckEvicted, Reclaim, ReleaseDone
<1>3. CASE Insert(p)
  BY <1>0, <1>3 DEF TypeOK, LockHeld, Insert
<1>4. CASE EvictTail(p) \/ FinalizeVictim(p)
  BY <1>0, <1>4 DEF TypeOK, LockHeld, EvictTail, FinalizeVictim
<1>5. CASE FinishInsert(p)
  BY <1>0, <1>5 DEF TypeOK, LockHeld, FinishInsert
<1>6. CASE Publish(p)
  BY <1>0, <1>6 DEF TypeOK, LockHeld, Publish, Served
<1>7. QED
  BY <1>1, <1>2, <1>3, <1>4, <1>5, <1>6 DEF StoreStep, RunStep, LockStep

\* Clients keep pointing at chunks of the key they want.
LEMMA PointersSetStep ==
  ASSUME IInv, NEW p \in Clients, StoreStep(p)
  PROVE  PointersSet'
<1> USE DEF Goto, storeVars, heapVars
<1>0. TypeOK /\ PointersSet
  BY DEF IInv
<1>1. CASE \/ \E k \in Keys : GetChunk(p, k)
           \/ LookupMiss(p) \/ Join(p) \/ Lead(p) \/ RecheckMiss(p) \/ PressureGuard(p) \/ LoadFail(p)
  BY <1>0, <1>1 DEF TypeOK, PointersSet, GetChunk, LookupMiss, Join, Lead, RecheckMiss,
     PressureGuard, LoadFail
<1>2. CASE LookupHit(p) \/ RecheckHit(p)
  <2>1. keyOf[items[want[p]]] = want[p] /\ want[p] \in Keys
    BY <1>0, <1>2, ItemIsListed DEF PointersSet, LookupHit, RecheckHit
  <2>2. QED
    BY <1>0, <1>2, <2>1 DEF TypeOK, PointersSet, LookupHit, RecheckHit
<1>3. CASE LoadChunk(p)
  <2>1. PICK c \in Chunks \ Reachable : /\ keyOf' = [keyOf EXCEPT ![c] = want[p]]
                                        /\ chunk' = [chunk EXCEPT ![p] = c]
    BY <1>3 DEF LoadChunk
  <2>2. \A q \in Clients : chunk[q] # c
    BY <2>1 DEF Reachable
  <2>3. QED
    BY <1>0, <1>3, <2>1, <2>2, NamesAssumption DEF TypeOK, PointersSet, LoadChunk
<1>4. CASE Insert(p) \/ EvictTail(p) \/ FinalizeVictim(p)
  BY <1>0, <1>4 DEF TypeOK, PointersSet, Insert, EvictTail, FinalizeVictim
<1>5. CASE FinishInsert(p)
  BY <1>0, <1>5, NoUndo DEF TypeOK, PointersSet, FinishInsert
<1>6. CASE Publish(p)
  BY <1>0, <1>6 DEF TypeOK, PointersSet, Publish, Served
<1>7. CASE GetError(p) \/ TakeRef(p)
  BY <1>0, <1>7 DEF TypeOK, PointersSet, GetError, TakeRef
<1>8. CASE DropRef(p) \/ CheckEvicted(p) \/ Reclaim(p)
  BY <1>0, <1>8 DEF TypeOK, PointersSet, DropRef, CheckEvicted, Reclaim, ReleaseDone
<1>9. QED
  BY <1>1, <1>2, <1>3, <1>4, <1>5, <1>6, <1>7, <1>8 DEF StoreStep, RunStep, LockStep

\* The loop's victim stays off the list and marked until it is finalized.
LEMMA VictimSetStep ==
  ASSUME IInv, NEW p \in Clients, StoreStep(p)
  PROVE  VictimSet'
<1> USE DEF Goto, storeVars, heapVars
<1>0. TypeOK /\ VictimSet /\ LockHeld
  BY DEF IInv
<1>1. CASE \/ \E k \in Keys : GetChunk(p, k)
           \/ LookupMiss(p) \/ Join(p) \/ Lead(p) \/ RecheckMiss(p) \/ PressureGuard(p)
           \/ LoadFail(p) \/ GetError(p) \/ TakeRef(p)
  BY <1>0, <1>1 DEF TypeOK, VictimSet, GetChunk, LookupMiss, Join, Lead, RecheckMiss,
     PressureGuard, LoadFail, GetError, TakeRef
<1>2. CASE LookupHit(p) \/ RecheckHit(p)
  <2>1. ToSet(lru') = ToSet(lru)
    BY <1>0, <1>2, HitReorders DEF IInv, PointersSet, LookupHit, RecheckHit
  <2>2. QED
    BY <1>0, <1>2, <2>1 DEF TypeOK, VictimSet, LookupHit, RecheckHit
<1>3. CASE LoadChunk(p)
  <2>1. PICK c \in Chunks \ Reachable : /\ keyOf' = [keyOf EXCEPT ![c] = want[p]]
                                        /\ evicted' = evicted \ {c}
    BY <1>3 DEF LoadChunk
  <2>2. \A q \in Clients : victim[q] # c
    BY <2>1 DEF Reachable
  <2>3. QED
    BY <1>0, <1>3, <2>1, <2>2 DEF TypeOK, VictimSet, LoadChunk
<1>4. CASE Insert(p)
  <2>1. \A q \in Clients : pc[q] # "finalize"
    BY <1>0, <1>4, ClientsAssumption DEF LockHeld, Insert
  <2>2. QED
    BY <1>0, <1>4, <2>1 DEF TypeOK, VictimSet, Insert
<1>5. CASE EvictTail(p)
  <2>1. \A q \in Clients \ {p} : pc[q] # "finalize"
    BY <1>0, <1>5 DEF LockHeld, EvictTail
  <2>2. QED
    BY <1>0, <1>5, <2>1, TailLeaves DEF TypeOK, VictimSet, EvictTail
<1>6. CASE FinalizeVictim(p)
  BY <1>0, <1>6 DEF TypeOK, VictimSet, FinalizeVictim
<1>7. CASE FinishInsert(p)
  BY <1>0, <1>7, NoUndo DEF TypeOK, VictimSet, FinishInsert
<1>8. CASE Publish(p)
  BY <1>0, <1>8 DEF TypeOK, VictimSet, Publish, Served
<1>9. CASE DropRef(p) \/ CheckEvicted(p) \/ Reclaim(p)
  BY <1>0, <1>9 DEF TypeOK, VictimSet, DropRef, CheckEvicted, Reclaim, ReleaseDone
<1>10. QED
  BY <1>1, <1>2, <1>3, <1>4, <1>5, <1>6, <1>7, <1>8, <1>9 DEF StoreStep, RunStep, LockStep

\* The singleflight group keeps recording the client that runs fn.
LEMMA CallLedStep ==
  ASSUME IInv, NEW p \in Clients, StoreStep(p)
  PROVE  CallLed'
<1> USE DEF Goto, storeVars, heapVars, Leading
<1>0. TypeOK /\ CallLed
  BY DEF IInv
<1>1. CASE Lead(p)
  <2>1. flight[want[p]] = NoClient
    BY <1>1 DEF Lead
  <2>2. QED
    BY <1>0, <1>1, <2>1, ClientsAssumption DEF IInv, PointersSet, TypeOK, CallLed, Lead
<1>2. CASE Publish(p)
  BY <1>0, <1>2 DEF TypeOK, CallLed, Publish, Served
<1>3. CASE \/ \E k \in Keys : GetChunk(p, k)
           \/ LookupHit(p) \/ LookupMiss(p) \/ Join(p) \/ GetError(p) \/ TakeRef(p)
           \/ DropRef(p) \/ CheckEvicted(p) \/ Reclaim(p)
  BY <1>0, <1>3 DEF TypeOK, CallLed, GetChunk, LookupHit, LookupMiss, Join, GetError, TakeRef,
     DropRef, CheckEvicted, Reclaim, ReleaseDone
<1>4. CASE RecheckHit(p) \/ RecheckMiss(p) \/ PressureGuard(p) \/ LoadFail(p) \/ LoadChunk(p)
  BY <1>0, <1>4 DEF TypeOK, CallLed, RecheckHit, RecheckMiss, PressureGuard, LoadFail, LoadChunk
<1>5. CASE Insert(p) \/ EvictTail(p) \/ FinalizeVictim(p) \/ FinishInsert(p)
  BY <1>0, <1>5 DEF TypeOK, CallLed, Insert, EvictTail, FinalizeVictim, FinishInsert
<1>6. QED
  BY <1>1, <1>2, <1>3, <1>4, <1>5 DEF StoreStep, RunStep, LockStep

\* Nobody gets hold of a chunk before fn has returned it or cs.mu is released.
LEMMA NewChunkPrivateStep ==
  ASSUME IInv, NEW p \in Clients, StoreStep(p)
  PROVE  NewChunkPrivate'
<1> USE DEF Goto, storeVars, heapVars
<1>0. TypeOK /\ NewChunkPrivate /\ PointersSet /\ LockHeld
  BY DEF IInv
<1>1. CASE \/ \E k \in Keys : GetChunk(p, k)
           \/ LookupMiss(p) \/ Join(p) \/ Lead(p) \/ RecheckMiss(p) \/ PressureGuard(p)
           \/ LoadFail(p) \/ GetError(p) \/ TakeRef(p)
  BY <1>0, <1>1 DEF TypeOK, NewChunkPrivate, GetChunk, LookupMiss, Join, Lead, RecheckMiss,
     PressureGuard, LoadFail, GetError, TakeRef
<1>2. CASE LookupHit(p) \/ RecheckHit(p)
  <2>1. items[want[p]] \in ToSet(lru)
    BY <1>0, <1>2, ItemIsListed DEF PointersSet, LookupHit, RecheckHit
  <2>2. \A q \in Clients : pc[q] \notin {"evict", "finalize"}
    BY <1>0, <1>2, ClientsAssumption DEF LockHeld, LookupHit, RecheckHit
  <2>3. \A q \in Clients : pc[q] = "insert" => chunk[q] # items[want[p]]
    BY <2>1 DEF IInv, NewChunkFresh
  <2>4. QED
    BY <1>0, <1>2, <2>2, <2>3 DEF TypeOK, NewChunkPrivate, LookupHit, RecheckHit
<1>3. CASE LoadChunk(p)
  <2>1. PICK c \in Chunks \ Reachable : chunk' = [chunk EXCEPT ![p] = c]
    BY <1>3 DEF LoadChunk
  <2>2. \A q \in Clients : chunk[q] # c
    BY <2>1 DEF Reachable
  <2>3. QED
    BY <1>0, <1>3, <2>1, <2>2 DEF TypeOK, NewChunkPrivate, LoadChunk
<1>4. CASE Insert(p) \/ EvictTail(p) \/ FinalizeVictim(p)
  BY <1>0, <1>4 DEF TypeOK, NewChunkPrivate, Insert, EvictTail, FinalizeVictim
<1>5. CASE FinishInsert(p)
  BY <1>0, <1>5, NoUndo DEF TypeOK, NewChunkPrivate, FinishInsert
<1>6. CASE Publish(p)
  <2>1. ASSUME NEW q \in Clients, pc'[q] \in {"insert", "evict", "finalize"}
        PROVE  pc[q] = pc'[q] /\ q # p /\ chunk'[q] = chunk[q]
    BY <1>0, <1>6, <2>1 DEF TypeOK, Publish, Served
  <2>2. \A q \in Clients : chunk'[q] \in {chunk[q], chunk[p]}
    BY <1>0, <1>6 DEF TypeOK, Publish
  <2>3. QED
    BY <1>0, <2>1, <2>2 DEF NewChunkPrivate
<1>7. CASE DropRef(p) \/ CheckEvicted(p) \/ Reclaim(p)
  BY <1>0, <1>7, NamesAssumption
     DEF TypeOK, PointersSet, NewChunkPrivate, DropRef, CheckEvicted, Reclaim, ReleaseDone
<1>8. QED
  BY <1>1, <1>2, <1>3, <1>4, <1>5, <1>6, <1>7 DEF StoreStep, RunStep, LockStep

\* A loaded chunk is untouched until it is inserted.
LEMMA NewChunkFreshStep ==
  ASSUME IInv, NEW p \in Clients, StoreStep(p)
  PROVE  NewChunkFresh'
<1> USE DEF Goto, storeVars, heapVars
<1>0. TypeOK /\ NewChunkFresh /\ NewChunkPrivate /\ PointersSet
  BY DEF IInv
<1>1. CASE \/ \E k \in Keys : GetChunk(p, k)
           \/ LookupMiss(p) \/ Join(p) \/ Lead(p) \/ RecheckMiss(p) \/ PressureGuard(p)
           \/ LoadFail(p) \/ GetError(p) \/ TakeRef(p)
  BY <1>0, <1>1 DEF TypeOK, NewChunkFresh, GetChunk, LookupMiss, Join, Lead, RecheckMiss,
     PressureGuard, LoadFail, GetError, TakeRef
<1>2. CASE LookupHit(p) \/ RecheckHit(p)
  <2>1. ToSet(lru') = ToSet(lru)
    BY <1>0, <1>2, HitReorders DEF PointersSet, LookupHit, RecheckHit
  <2>2. QED
    BY <1>0, <1>2, <2>1 DEF TypeOK, NewChunkFresh, LookupHit, RecheckHit
<1>3. CASE LoadChunk(p)
  <2>1. PICK c \in Chunks \ Reachable :
          /\ chunk' = [chunk EXCEPT ![p] = c]
          /\ evicted' = evicted \ {c} /\ freed' = freed \ {c}
    BY <1>3 DEF LoadChunk
  <2>2. c \notin ToSet(lru)
    BY <2>1 DEF Reachable
  <2>3. QED
    BY <1>0, <1>3, <2>1, <2>2 DEF TypeOK, NewChunkFresh, LoadChunk
<1>4. CASE Insert(p)
  <2>1. chunk[p] \in Chunks /\ ToSet(lru') = ToSet(lru) \cup {chunk[p]}
    BY <1>0, <1>4, PushFrontElements DEF TypeOK, PointersSet, Insert
  <2>2. QED
    BY <1>0, <1>4, <2>1 DEF TypeOK, NewChunkFresh, NewChunkPrivate, Insert
<1>5. CASE EvictTail(p)
  BY <1>0, <1>5, TailLeaves DEF TypeOK, NewChunkFresh, EvictTail
<1>6. CASE FinalizeVictim(p)
  BY <1>0, <1>6 DEF TypeOK, NewChunkFresh, FinalizeVictim, TryFinalize, CanFinalize
<1>7. CASE FinishInsert(p)
  BY <1>0, <1>7, NoUndo DEF TypeOK, NewChunkFresh, FinishInsert
<1>8. CASE Publish(p)
  BY <1>0, <1>8 DEF TypeOK, NewChunkFresh, Publish, Served
<1>9. CASE DropRef(p) \/ CheckEvicted(p)
  BY <1>0, <1>9 DEF TypeOK, NewChunkFresh, DropRef, CheckEvicted, ReleaseDone
<1>10. CASE Reclaim(p)
  BY <1>0, <1>10 DEF TypeOK, NewChunkFresh, Reclaim, TryFinalize, CanFinalize, ReleaseDone
<1>11. QED
  BY <1>1, <1>2, <1>3, <1>4, <1>5, <1>6, <1>7, <1>8, <1>9, <1>10 DEF StoreStep, RunStep, LockStep

\* Hits, insertions and evictions keep list and map in agreement.
LEMMA CacheIndexStep ==
  ASSUME IInv, NEW p \in Clients, StoreStep(p)
  PROVE  CacheIndex'
<1> USE DEF Goto, storeVars, heapVars
<1>0. TypeOK /\ CacheIndex /\ PointersSet /\ NewChunkFresh
  BY DEF IInv
<1>1. CASE UNCHANGED <<lru, items, keyOf, evicted, freed>>
  BY <1>0, <1>1 DEF CacheIndex
<1>2. CASE LookupHit(p) \/ RecheckHit(p)
  <2>1. ToSet(lru') = ToSet(lru) /\ NoDuplicates(lru')
    BY <1>0, <1>2, HitReorders DEF PointersSet, LookupHit, RecheckHit
  <2>2. QED
    BY <1>0, <1>2, <2>1 DEF CacheIndex, NoDuplicates, LookupHit, RecheckHit
<1>3. CASE LoadChunk(p)
  <2>1. PICK c \in Chunks \ Reachable :
          /\ keyOf' = [keyOf EXCEPT ![c] = want[p]]
          /\ evicted' = evicted \ {c} /\ freed' = freed \ {c}
    BY <1>3 DEF LoadChunk
  <2>2. c \notin ToSet(lru) /\ \A k \in Keys : items[k] # c
    BY <1>0, <2>1, NamesAssumption DEF Reachable, CacheIndex
  <2>3. QED
    BY <1>0, <1>3, <2>1, <2>2, ToSetIsRange DEF TypeOK, CacheIndex, LoadChunk
<1>4. CASE Insert(p)
  <2>1. chunk[p] \in Chunks /\ want[p] \in Keys /\ keyOf[chunk[p]] = want[p]
    BY <1>0, <1>4 DEF TypeOK, PointersSet, Insert
  <2>2. /\ chunk[p] \notin ToSet(lru) /\ chunk[p] \notin evicted /\ chunk[p] \notin freed
        /\ items[want[p]] = NoChunk
    BY <1>0, <1>4 DEF NewChunkFresh, IInv, SoleLoader, Insert
  <2>3. ToSet(lru') = ToSet(lru) \cup {chunk[p]} /\ NoDuplicates(lru')
    <3>1. lru \in Seq(Chunks) /\ NoDuplicates(lru) /\ lru' = PushFront(lru, chunk[p])
      BY <1>0, <1>4 DEF TypeOK, CacheIndex, NoDuplicates, Insert
    <3>2. QED
      BY <2>1, <2>2, <3>1, PushFrontElements
  <2>4. items' = [items EXCEPT ![want[p]] = chunk[p]] /\ UNCHANGED <<keyOf, evicted, freed>>
    BY <1>4 DEF Insert
  <2>5. \A c \in ToSet(lru) : keyOf[c] # want[p]
    BY <1>0, <2>1, <2>2, ToSetIsRange, NamesAssumption DEF TypeOK, CacheIndex
  <2>6. QED
    BY <1>0, <2>1, <2>2, <2>3, <2>4, <2>5 DEF TypeOK, CacheIndex, NoDuplicates
<1>5. CASE EvictTail(p)
  <2> DEFINE c == Last(lru)
  <2>1. c \in ToSet(lru) /\ keyOf[c] \in Keys /\ items[keyOf[c]] = c
    BY <1>0, <1>5, TailLeaves DEF CacheIndex, EvictTail
  <2>2. ToSet(lru') = ToSet(lru) \ {c} /\ NoDuplicates(lru')
    BY <1>5, TailLeaves DEF EvictTail
  <2>3. /\ items' = [items EXCEPT ![keyOf[c]] = NoChunk]
        /\ evicted' = evicted \cup {c} /\ UNCHANGED <<keyOf, freed>>
    BY <1>5 DEF EvictTail
  <2>4. \A k \in Keys : items[k] = c => k = keyOf[c]
    BY <1>0, <2>1, TailLeaves, <1>5, NamesAssumption DEF CacheIndex, EvictTail
  <2> HIDE DEF c
  <2>5. QED
    BY <1>0, <2>1, <2>2, <2>3, <2>4 DEF TypeOK, CacheIndex, NoDuplicates
<1>6. CASE FinalizeVictim(p) \/ Reclaim(p)
  BY <1>0, <1>6 DEF CacheIndex, FinalizeVictim, Reclaim, TryFinalize, CanFinalize
<1>7. CASE FinishInsert(p)
  BY <1>0, <1>7, NoUndo DEF CacheIndex, FinishInsert
<1>8. QED
  BY <1>1, <1>2, <1>3, <1>4, <1>5, <1>6, <1>7 DEF StoreStep, RunStep, LockStep, GetChunk, LookupMiss,
     Join, Lead, RecheckMiss, PressureGuard, LoadFail, Publish, GetError, TakeRef, DropRef,
     CheckEvicted

\* No second client starts loading a key, or caches it before the loader does.
LEMMA SoleLoaderStep ==
  ASSUME IInv, NEW p \in Clients, StoreStep(p)
  PROVE  SoleLoader'
<1> USE DEF Goto, storeVars, heapVars
<1>0. TypeOK /\ SoleLoader /\ CallLed
  BY DEF IInv
<1>1. \A q, r \in Clients :
        pc'[q] \in Leading /\ pc'[r] \in Leading /\ want'[q] = want'[r] => q = r
  BY CallLedStep DEF CallLed
<1>2. ASSUME NEW q \in Clients, pc'[q] \in {"guard", "load", "insert"}
      PROVE  items'[want'[q]] = NoChunk
  <2>1. CASE \/ \E k \in Keys : GetChunk(p, k)
             \/ LookupHit(p) \/ LookupMiss(p) \/ Join(p) \/ Lead(p)
             \/ RecheckHit(p) \/ RecheckMiss(p) \/ PressureGuard(p) \/ LoadFail(p) \/ LoadChunk(p)
    BY <1>0, <1>2, <2>1 DEF TypeOK, SoleLoader, GetChunk, LookupHit, LookupMiss, Join, Lead,
       RecheckHit, RecheckMiss, PressureGuard, LoadFail, LoadChunk
  <2>2. CASE Insert(p)
    <3>1. q # p /\ pc[q] = pc'[q] /\ want'[q] = want[q] /\ want[q] # want[p]
      BY <1>0, <1>2, <2>2 DEF TypeOK, SoleLoader, Leading, Insert
    <3>2. QED
      BY <1>0, <1>2, <2>2, <3>1 DEF TypeOK, SoleLoader, Insert
  <2>3. CASE EvictTail(p)
    <3>1. q # p /\ pc[q] = pc'[q] /\ want'[q] = want[q] /\ want[q] \in Keys
      BY <1>0, <1>2, <2>3 DEF IInv, PointersSet, TypeOK, EvictTail
    <3>2. QED
      BY <1>0, <1>2, <2>3, <3>1 DEF TypeOK, SoleLoader, EvictTail
  <2>4. CASE FinalizeVictim(p)
    BY <1>0, <1>2, <2>4 DEF TypeOK, SoleLoader, FinalizeVictim
  <2>5. CASE FinishInsert(p)
    BY <1>0, <1>2, <2>5, NoUndo DEF TypeOK, SoleLoader, FinishInsert
  <2>6. CASE Publish(p)
    BY <1>0, <1>2, <2>6 DEF TypeOK, SoleLoader, Publish, Served
  <2>7. CASE GetError(p) \/ TakeRef(p) \/ DropRef(p) \/ CheckEvicted(p) \/ Reclaim(p)
    BY <1>0, <1>2, <2>7 DEF TypeOK, SoleLoader, GetError, TakeRef, DropRef, CheckEvicted,
       Reclaim, ReleaseDone
  <2>8. QED
    BY <2>1, <2>2, <2>3, <2>4, <2>5, <2>6, <2>7 DEF StoreStep, RunStep, LockStep
<1>3. QED
  BY <1>1, <1>2 DEF SoleLoader

\* Finalization never takes a chunk that a hit has referenced.
LEMMA HitProtectsStep ==
  ASSUME IInv, NEW p \in Clients, StoreStep(p)
  PROVE  HitProtects'
<1> USE DEF Goto, storeVars, heapVars
<1>0. TypeOK /\ HitProtects
  BY DEF IInv
<1>1. CASE LookupHit(p)
  BY <1>0, <1>1, ItemIsListed DEF IInv, PointersSet, TypeOK, HitProtects, LookupHit
<1>2. CASE FinalizeVictim(p) \/ Reclaim(p)
  <2>1. ASSUME NEW q \in underLock
        PROVE  q \in Clients /\ pc[q] = "held" /\ chunk[q] \notin freed /\ refs[chunk[q]] # 0
    BY <1>0, HeldIsCounted DEF TypeOK, HitProtects
  <2>2. QED
    BY <1>0, <1>2, <2>1
       DEF TypeOK, HitProtects, FinalizeVictim, Reclaim, TryFinalize, CanFinalize, ReleaseDone
<1>3. CASE \/ \E k \in Keys : GetChunk(p, k)
           \/ LookupMiss(p) \/ Join(p) \/ Lead(p) \/ RecheckHit(p) \/ RecheckMiss(p)
           \/ PressureGuard(p) \/ LoadFail(p) \/ LoadChunk(p)
  BY <1>0, <1>3 DEF TypeOK, HitProtects, GetChunk, LookupMiss, Join, Lead, RecheckHit,
     RecheckMiss, PressureGuard, LoadFail, LoadChunk
<1>4. CASE Insert(p) \/ EvictTail(p) \/ GetError(p) \/ TakeRef(p) \/ DropRef(p) \/ CheckEvicted(p)
  BY <1>0, <1>4 DEF TypeOK, HitProtects, Insert, EvictTail, GetError, TakeRef, DropRef,
     CheckEvicted, ReleaseDone
<1>5. CASE FinishInsert(p)
  BY <1>0, <1>5, NoUndo DEF TypeOK, HitProtects, FinishInsert
<1>6. CASE Publish(p)
  BY <1>0, <1>6 DEF TypeOK, HitProtects, Publish, Served
<1>7. QED
  BY <1>1, <1>2, <1>3, <1>4, <1>5, <1>6 DEF StoreStep, RunStep, LockStep

\* Each turn of the eviction loop keeps the excess reclaimable.
LEMMA BudgetMarginStep ==
  ASSUME IInv, NEW p \in Clients, StoreStep(p)
  PROVE  BudgetMargin'
<1> USE ClientsAssumption DEF Goto, storeVars, heapVars
<1>0. TypeOK /\ LockHeld /\ BudgetMargin /\ PointersSet
  BY DEF IInv
<1>1. /\ LimitB \in Nat /\ usedCapB \in Nat
      /\ \A k \in Keys : BytesCap[k] \in Nat
  BY <1>0, LimitAssumption, BytesCapAssumption DEF TypeOK
<1>2. CASE \/ \E k \in Keys : GetChunk(p, k)
           \/ LookupHit(p) \/ LookupMiss(p) \/ Join(p) \/ Lead(p)
           \/ RecheckHit(p) \/ RecheckMiss(p) \/ PressureGuard(p)
  <2>1. /\ UNCHANGED <<mu, usedCapB, freed, victim>>
        /\ lru' = lru \/ mu = NoClient
        /\ pc'[p] \notin {"evict", "finalize"}
        /\ \A q \in Clients \ {p} : pc'[q] = pc[q] /\ want'[q] = want[q] /\ chunk'[q] = chunk[q]
    BY <1>0, <1>2 DEF TypeOK, GetChunk, LookupHit, LookupMiss, Join, Lead, RecheckHit,
       RecheckMiss, PressureGuard
  <2>2. QED
    BY <1>0, <2>1 DEF LockHeld, BudgetMargin
<1>3. CASE \/ LoadFail(p) \/ LoadChunk(p) \/ Publish(p) \/ GetError(p) \/ TakeRef(p)
           \/ DropRef(p) \/ CheckEvicted(p)
  <2>1. /\ UNCHANGED <<mu, usedCapB, lru, victim>> /\ freed' \subseteq freed
        /\ \A q \in Clients : pc'[q] \in {"evict", "finalize"} =>
             pc'[q] = pc[q] /\ want'[q] = want[q] /\ chunk'[q] = chunk[q]
    BY <1>0, <1>3 DEF TypeOK, LoadFail, LoadChunk, Publish, Served, GetError, TakeRef, DropRef,
       CheckEvicted, ReleaseDone
  <2>2. QED
    BY <1>0, <2>1 DEF BudgetMargin
<1>4. CASE Insert(p)
  <2>1. mu = NoClient /\ usedCapB <= LimitB
    BY <1>0, <1>4 DEF BudgetMargin, Insert
  <2>2. /\ keyOf[chunk[p]] = want[p] /\ want[p] \in Keys
        /\ chunk[p] \in Chunks /\ chunk[p] \in ToSet(PushFront(lru, chunk[p]))
    BY <1>0, <1>4, PushFrontElements DEF TypeOK, PointersSet, Insert
  <2>3. \A q \in Clients \ {p} : pc'[q] \notin {"evict", "finalize"}
    BY <1>0, <1>4, <2>1 DEF TypeOK, LockHeld, Insert
  <2>4. mu' = p /\ pc'[p] = "evict" /\ UNCHANGED <<want, chunk>>
    BY <1>0, <1>4 DEF TypeOK, Insert
  <2>5. usedCapB' <= LimitB + BytesCap[want[p]] /\ chunk[p] \in ToSet(lru')
    BY <1>1, <1>4, <2>1, <2>2 DEF Insert
  <2>6. QED
    BY <2>3, <2>4, <2>5 DEF BudgetMargin
<1>5. CASE EvictTail(p)
  <2>1. ~(usedCapB <= LimitB) /\ pc[p] = "evict" /\ mu = p
    BY <1>1, <1>5 DEF EvictTail, EvictionDue
  <2>2. usedCapB <= LimitB + BytesCap[want[p]] /\ chunk[p] \in ToSet(lru) /\ chunk[p] \notin freed
    BY <1>0, <2>1 DEF BudgetMargin, IInv, CacheIndex
  <2>3. ToSet(lru') = ToSet(lru) \ {Last(lru)} /\ victim' = [victim EXCEPT ![p] = Last(lru)]
    BY <1>5, TailLeaves DEF EvictTail
  <2>4. \A q \in Clients \ {p} : pc'[q] \notin {"evict", "finalize"}
    BY <1>0, <1>5, <2>1 DEF TypeOK, LockHeld, EvictTail
  <2>5. mu' = p /\ pc'[p] = "finalize" /\ UNCHANGED <<usedCapB, want, chunk, freed>>
    BY <1>0, <1>5 DEF TypeOK, EvictTail
  <2>6. victim'[p] = Last(lru)
    BY <1>0, <2>3 DEF TypeOK
  <2>7. QED
    BY <2>2, <2>3, <2>4, <2>5, <2>6 DEF BudgetMargin
<1>6. CASE FinalizeVictim(p)
  <2>1. pc[p] = "finalize" /\ mu = p
    BY <1>6 DEF FinalizeVictim
  <2>2. /\ usedCapB <= LimitB + BytesCap[want[p]]
        /\ chunk[p] \in ToSet(lru) \/ (victim[p] = chunk[p] /\ chunk[p] \notin freed)
    BY <1>0, <2>1 DEF BudgetMargin
  <2>3. victim[p] \in Chunks /\ keyOf[victim[p]] \in Keys /\ victim[p] \in evicted
    BY <1>0, <2>1 DEF IInv, TypeOK, VictimSet
  <2>4. /\ usedCapB' \in Nat /\ usedCapB' <= usedCapB
        /\ CanFinalize(victim[p]) => \/ usedCapB' = 0
                                     \/ usedCapB' = usedCapB - BytesCap[keyOf[victim[p]]]
    BY <1>6, <2>3, FinalizeEffect DEF FinalizeVictim
  <2>5. \A q \in Clients \ {p} : pc'[q] \notin {"evict", "finalize"}
    BY <1>0, <1>6, <2>1 DEF TypeOK, LockHeld, FinalizeVictim
  <2>6. mu' = p /\ pc'[p] = "evict" /\ UNCHANGED <<lru, want, chunk>>
    BY <1>0, <1>6 DEF TypeOK, FinalizeVictim
  <2>7. want[p] \in Keys /\ keyOf[chunk[p]] = want[p]
    BY <1>0, <2>1 DEF PointersSet
  <2>8. CASE chunk[p] \in ToSet(lru)
    <3>1. usedCapB' <= LimitB + BytesCap[want[p]]
      BY <1>1, <2>2, <2>4, <2>7
    <3>2. QED
      BY <2>5, <2>6, <2>8, <3>1 DEF BudgetMargin
  <2>9. CASE victim[p] = chunk[p] /\ chunk[p] \notin freed
    <3>1. CanFinalize(victim[p])
      BY <2>1, <2>3, <2>9, NewChunkUnheld DEF CanFinalize
    <3>2. usedCapB' <= LimitB
      BY <1>1, <2>2, <2>4, <2>7, <2>9, <3>1
    <3>3. QED
      BY <2>5, <2>6, <3>2 DEF BudgetMargin
  <2>10. QED
    BY <2>2, <2>8, <2>9
<1>7. CASE FinishInsert(p)
  <2>1. usedCapB <= LimitB /\ UNCHANGED <<usedCapB, want>> /\ mu' = NoClient
    BY <1>7, NoUndo DEF FinishInsert
  <2>2. \A q \in Clients : pc'[q] \notin {"evict", "finalize"}
    BY <1>0, <1>7 DEF TypeOK, LockHeld, FinishInsert
  <2>3. QED
    BY <2>1, <2>2 DEF BudgetMargin
<1>8. CASE Reclaim(p)
  <2>1. mu = NoClient /\ usedCapB <= LimitB /\ pc[p] = "reclaim"
    BY <1>0, <1>8 DEF BudgetMargin, Reclaim
  <2>2. chunk[p] \in Chunks /\ keyOf[chunk[p]] \in Keys
    BY <1>0, <2>1 DEF TypeOK, PointersSet
  <2>3. usedCapB' \in Nat /\ usedCapB' <= usedCapB
    BY <1>8, <2>2, FinalizeEffect DEF Reclaim
  <2>4. \A q \in Clients : pc'[q] \notin {"evict", "finalize"}
    BY <1>0, <1>8, <2>1 DEF TypeOK, LockHeld, Reclaim, ReleaseDone
  <2>5. QED
    BY <1>1, <2>1, <2>3, <2>4 DEF BudgetMargin
<1>9. QED
  BY <1>2, <1>3, <1>4, <1>5, <1>6, <1>7, <1>8 DEF StoreStep, RunStep, LockStep

\* NoLeak says of each chunk that is not freed that somebody accounts for it.
AccountedFor(c) ==
  \/ c \in ToSet(lru)
  \/ \E p \in Clients : pc[p] = "insert" /\ chunk[p] = c
  \/ c \in evicted /\ \E p \in Clients : (pc[p] = "held" /\ chunk[p] = c) \/ Finalizing(p, c)

\* A chunk that cannot be finalized although it is evicted has a holder.
LEMMA UnfinalizedIsHeld ==
  ASSUME IInv, NEW c \in Chunks, c \in evicted, c \notin freed, ~CanFinalize(c)
  PROVE  \E p \in Clients : pc[p] = "held" /\ chunk[p] = c
<1>1. Cardinality(HoldersOf(c)) # 0
  BY DEF IInv, RefsCounted, CanFinalize
<1>2. HoldersOf(c) # {}
  BY <1>1, FS_EmptySet
<1>3. QED
  BY <1>2 DEF HoldersOf

\* Every step leaves each unfreed chunk with somebody to account for it.
LEMMA NoLeakStep ==
  ASSUME IInv, NEW p \in Clients, StoreStep(p)
  PROVE  NoLeak'
<1> USE DEF Goto, storeVars, heapVars
<1>0. TypeOK /\ PointersSet /\ \A c \in Chunks \ freed : AccountedFor(c)
  BY DEF IInv, NoLeak, AccountedFor
<1>1. SUFFICES ASSUME NEW c \in Chunks, c \notin freed'
               PROVE  AccountedFor(c)'
  BY DEF NoLeak, AccountedFor
<1>2. CASE \/ \E k \in Keys : GetChunk(p, k)
           \/ LookupMiss(p) \/ Join(p) \/ Lead(p) \/ RecheckMiss(p) \/ PressureGuard(p)
           \/ LoadFail(p) \/ GetError(p) \/ TakeRef(p)
  <2>1. /\ UNCHANGED <<lru, evicted, freed, chunk, victim>>
        /\ \A q \in Clients : pc[q] \in {"insert", "held", "finalize", "checkEvicted", "reclaim"}
                                => pc'[q] = pc[q]
    BY <1>0, <1>2 DEF TypeOK, GetChunk, LookupMiss, Join, Lead, RecheckMiss, PressureGuard,
       LoadFail, GetError, TakeRef
  <2>2. QED
    BY <1>0, <1>1, <2>1 DEF AccountedFor, Finalizing
<1>3. CASE LookupHit(p) \/ RecheckHit(p) \/ Publish(p)
  <2>1. ToSet(lru') = ToSet(lru)
    BY <1>0, <1>3, HitReorders DEF PointersSet, LookupHit, RecheckHit, Publish
  <2>2. /\ UNCHANGED <<evicted, freed, victim>>
        /\ \A q \in Clients : pc[q] \in {"insert", "held", "finalize", "checkEvicted", "reclaim"}
                                => pc'[q] = pc[q] /\ chunk'[q] = chunk[q]
    BY <1>0, <1>3 DEF TypeOK, LookupHit, RecheckHit, Publish, Served
  <2>3. QED
    BY <1>0, <1>1, <2>1, <2>2 DEF AccountedFor, Finalizing
<1>4. CASE LoadChunk(p)
  <2>1. PICK d \in Chunks \ Reachable :
          /\ chunk' = [chunk EXCEPT ![p] = d]
          /\ evicted' = evicted \ {d} /\ freed' = freed \ {d}
    BY <1>4 DEF LoadChunk
  <2>2. /\ UNCHANGED <<lru, victim>> /\ pc'[p] = "insert" /\ chunk'[p] = d
        /\ \A q \in Clients \ {p} : pc'[q] = pc[q] /\ chunk'[q] = chunk[q]
        /\ pc[p] = "load"
    BY <1>0, <1>4, <2>1 DEF TypeOK, LoadChunk
  <2>3. CASE c = d
    BY <2>2, <2>3 DEF AccountedFor
  <2>4. CASE c # d
    BY <1>0, <1>1, <2>1, <2>2, <2>4 DEF AccountedFor, Finalizing
  <2>5. QED
    BY <2>3, <2>4
<1>5. CASE Insert(p)
  <2>1. ToSet(lru') = ToSet(lru) \cup {chunk[p]}
    BY <1>0, <1>5, PushFrontElements DEF TypeOK, PointersSet, Insert
  <2>2. /\ UNCHANGED <<evicted, freed, chunk, victim>> /\ pc[p] = "insert"
        /\ \A q \in Clients \ {p} : pc'[q] = pc[q]
    BY <1>0, <1>5 DEF TypeOK, Insert
  <2>3. QED
    BY <1>0, <1>1, <2>1, <2>2 DEF AccountedFor, Finalizing
<1>6. CASE EvictTail(p)
  <2>1. ToSet(lru') = ToSet(lru) \ {Last(lru)}
    BY <1>6, TailLeaves DEF EvictTail
  <2>2. /\ UNCHANGED <<freed, chunk>> /\ evicted' = evicted \cup {Last(lru)}
        /\ pc[p] = "evict" /\ pc'[p] = "finalize" /\ victim'[p] = Last(lru)
        /\ \A q \in Clients \ {p} : pc'[q] = pc[q] /\ victim'[q] = victim[q]
    BY <1>0, <1>6 DEF TypeOK, EvictTail
  <2>3. CASE c = Last(lru)
    BY <2>2, <2>3 DEF AccountedFor, Finalizing
  <2>4. CASE c # Last(lru)
    BY <1>0, <1>1, <2>1, <2>2, <2>4 DEF AccountedFor, Finalizing
  <2>5. QED
    BY <2>3, <2>4
<1>7. CASE FinalizeVictim(p)
  <2>1. /\ UNCHANGED <<lru, evicted, chunk>> /\ pc[p] = "finalize" /\ freed \subseteq freed'
        /\ CanFinalize(victim[p]) => victim[p] \in freed'
        /\ \A q \in Clients \ {p} : pc'[q] = pc[q] /\ victim'[q] = victim[q]
    BY <1>0, <1>7 DEF TypeOK, FinalizeVictim, TryFinalize
  <2>2. CASE c = victim[p]
    <3>1. c \in evicted /\ c \notin freed /\ ~CanFinalize(c)
      BY <1>1, <2>1, <2>2 DEF IInv, VictimSet
    <3>2. PICK q \in Clients : pc[q] = "held" /\ chunk[q] = c
      BY <3>1, UnfinalizedIsHeld
    <3>3. QED
      BY <2>1, <3>1, <3>2 DEF AccountedFor
  <2>3. CASE c # victim[p]
    BY <1>0, <1>1, <2>1, <2>3 DEF AccountedFor, Finalizing
  <2>4. QED
    BY <2>2, <2>3
<1>8. CASE FinishInsert(p)
  <2>1. /\ UNCHANGED <<lru, evicted, freed, chunk, victim>> /\ pc[p] = "evict"
        /\ \A q \in Clients \ {p} : pc'[q] = pc[q]
    BY <1>0, <1>8, NoUndo DEF TypeOK, FinishInsert
  <2>2. QED
    BY <1>0, <1>1, <2>1 DEF AccountedFor, Finalizing
<1>9. CASE DropRef(p)
  <2>1. /\ UNCHANGED <<lru, evicted, freed, victim>> /\ pc[p] = "held"
        /\ \A q \in Clients \ {p} : pc'[q] = pc[q] /\ chunk'[q] = chunk[q]
    BY <1>0, <1>9 DEF TypeOK, DropRef, ReleaseDone
  <2>2. CASE c # chunk[p]
    BY <1>0, <1>1, <2>1, <2>2 DEF AccountedFor, Finalizing
  <2>3. CASE c = chunk[p] /\ refs[c] = 1
    <3>1. pc'[p] = "checkEvicted" /\ chunk'[p] = c
      BY <1>0, <1>9, <2>3 DEF TypeOK, DropRef
    <3>2. QED
      BY <1>0, <1>1, <2>1, <3>1 DEF AccountedFor, Finalizing
  <2>4. CASE c = chunk[p] /\ refs[c] # 1
    <3>1. p \in HoldersOf(c) /\ Cardinality(HoldersOf(c)) # 1
      BY <2>1, <2>4 DEF HoldersOf, IInv, RefsCounted
    <3>2. HoldersOf(c) # {p}
      BY <3>1, FS_Singleton
    <3>3. PICK q \in Clients \ {p} : pc[q] = "held" /\ chunk[q] = c
      BY <3>1, <3>2 DEF HoldersOf
    <3>4. QED
      BY <1>0, <1>1, <2>1, <3>3 DEF AccountedFor, Finalizing
  <2>5. QED
    BY <2>2, <2>3, <2>4
<1>10. CASE CheckEvicted(p)
  <2>1. /\ UNCHANGED <<lru, evicted, freed, victim>> /\ pc[p] = "checkEvicted"
        /\ \A q \in Clients \ {p} : pc'[q] = pc[q] /\ chunk'[q] = chunk[q]
        /\ chunk[p] \in evicted => pc'[p] = "reclaim" /\ chunk'[p] = chunk[p]
    BY <1>0, <1>10 DEF TypeOK, CheckEvicted, ReleaseDone
  <2>2. QED
    BY <1>0, <1>1, <2>1 DEF AccountedFor, Finalizing
<1>11. CASE Reclaim(p)
  <2>1. /\ UNCHANGED <<lru, evicted, victim>> /\ pc[p] = "reclaim" /\ freed \subseteq freed'
        /\ CanFinalize(chunk[p]) => chunk[p] \in freed'
        /\ \A q \in Clients \ {p} : pc'[q] = pc[q] /\ chunk'[q] = chunk[q]
    BY <1>0, <1>11 DEF TypeOK, Reclaim, TryFinalize, ReleaseDone
  <2>2. CASE c \in evicted /\ c = chunk[p]
    <3>1. PICK q \in Clients : pc[q] = "held" /\ chunk[q] = c
      BY <1>1, <2>1, <2>2, UnfinalizedIsHeld
    <3>2. q # p
      BY <2>1, <3>1
    <3>3. QED
      BY <2>1, <2>2, <3>1, <3>2 DEF AccountedFor
  <2>3. CASE c \notin evicted \/ c # chunk[p]
    BY <1>0, <1>1, <2>1, <2>3 DEF AccountedFor, Finalizing
  <2>4. QED
    BY <2>2, <2>3
<1>12. QED
  BY <1>2, <1>3, <1>4, <1>5, <1>6, <1>7, <1>8, <1>9, <1>10, <1>11 DEF StoreStep, RunStep, LockStep

-----------------------------------------------------------------------------
(***************************************************************************)
(* Theorems                                                                *)
(***************************************************************************)

\* The parts hold together after every step, stuttering included.
LEMMA NextIInv == IInv /\ [Next]_vars => IInv'
<1>1. ASSUME IInv, NEW p \in Clients, StoreStep(p)
      PROVE  IInv'
  BY <1>1, TypeOKStep, RefsCountedStep, LockHeldStep, PointersSetStep, VictimSetStep, CallLedStep,
     NewChunkPrivateStep, NewChunkFreshStep, CacheIndexStep, BudgetMarginStep, SoleLoaderStep,
     HitProtectsStep, NoLeakStep DEF IInv
<1>2. ASSUME IInv, UNCHANGED vars
      PROVE  IInv'
  <2>1. (TypeOK /\ RefsCounted /\ LockHeld /\ PointersSet /\ VictimSet /\ CallLed)'
    BY <1>2 DEF IInv, vars, storeVars, heapVars, clientVars, TypeOK, RefsCounted, HoldersOf,
       LockHeld, PointersSet, VictimSet, CallLed
  <2>2. (NewChunkPrivate /\ NewChunkFresh /\ CacheIndex /\ BudgetMargin)'
    BY <1>2 DEF IInv, vars, storeVars, heapVars, clientVars, NewChunkPrivate, NewChunkFresh,
       CacheIndex, BudgetMargin
  <2>3. (SoleLoader /\ HitProtects /\ NoLeak)'
    BY <1>2 DEF IInv, vars, storeVars, heapVars, clientVars, SoleLoader, HitProtects, NoLeak,
       Finalizing
  <2>4. QED
    BY <2>1, <2>2, <2>3 DEF IInv
<1>3. QED
  BY <1>1, <1>2 DEF Next, StoreStep

\* The conjunction is an invariant of the store.
LEMMA Invariant == Spec => []IInv
  BY InitIInv, NextIInv, PTL DEF Spec

\* store.go keeps its types: no counter and no budget ever becomes negative.
THEOREM TypeCorrect == Spec => []TypeOK
<1>1. IInv => TypeOK
  BY DEF IInv
<1>2. QED
  BY <1>1, Invariant, PTL

\* The map and the list of store.go agree, and hold neither evicted nor freed chunks.
THEOREM CacheIndexCorrect == Spec => []CacheIndex
<1>1. IInv => CacheIndex
  BY DEF IInv
<1>2. QED
  BY <1>1, Invariant, PTL

\* The double-check inside singleflight suffices: one load per key at a time.
THEOREM SoleLoaderCorrect == Spec => []SoleLoader
<1>1. IInv => SoleLoader
  BY DEF IInv
<1>2. QED
  BY <1>1, Invariant, PTL

\* GetChunk never hands out a chunk of another key.
THEOREM OwnKeyCorrect == Spec => []OwnKey
<1>1. IInv => OwnKey
  BY DEF IInv, PointersSet, OwnKey
<1>2. QED
  BY <1>1, Invariant, PTL

\* evictLocked always ends within the budget, whatever is held: the pressure
\* guards of GetChunk compare with a bound that is never exceeded.
THEOREM BudgetCorrect == Spec => []BudgetHeld
<1>1. IInv => BudgetHeld
  <2>1. SUFFICES ASSUME IInv, mu = NoClient
                 PROVE  usedCapB <= LimitB /\ ~OverPressure
    BY DEF BudgetHeld
  <2>2. usedCapB <= LimitB /\ usedCapB \in Nat
    BY <2>1 DEF IInv, TypeOK, BudgetMargin
  <2>3. LimitB <= LimitB * PressureGuardFactor
    BY LimitAssumption
  <2>4. QED
    BY <2>2, <2>3, LimitAssumption DEF OverPressure
<1>2. QED
  BY <1>1, Invariant, PTL

\* The loads that passed the pressure guard together do not add up: each insertion brings the
\* budget back before the next one begins, for any number of clients, keys and sizes.
THEOREM ExcessCorrect == Spec => []ExcessIsNewChunk
<1>1. IInv => ExcessIsNewChunk
  <2> SUFFICES ASSUME IInv PROVE ExcessIsNewChunk
    OBVIOUS
  <2>1. usedCapB \in Nat /\ mu \in Clients \cup {NoClient}
    BY DEF IInv, TypeOK
  <2>2. ASSUME usedCapB > LimitB
        PROVE  \E p \in Clients : pc[p] \in {"evict", "finalize"} /\ usedCapB <= LimitB + BytesCap[want[p]]
    <3>1. mu \in Clients
      BY <2>1, <2>2, LimitAssumption DEF IInv, BudgetMargin
    <3>2. pc[mu] \in {"evict", "finalize"}
      BY <3>1 DEF IInv, LockHeld
    <3>3. usedCapB <= LimitB + BytesCap[want[mu]]
      BY <2>1, <2>2, <3>1, <3>2, LimitAssumption DEF IInv, BudgetMargin
    <3>4. QED
      BY <3>1, <3>2, <3>3
  <2>3. ASSUME NEW p \in Clients, pc[p] = "evict", ~EvictionDue PROVE ~OverPressure
    <3>1. mu = p
      BY <2>3 DEF IInv, LockHeld
    <3>2. QED
      BY <2>3, <3>1, NoUndo
  <2>4. QED
    BY <2>2, <2>3 DEF ExcessIsNewChunk
<1>2. QED
  BY <1>1, Invariant, PTL

\* A chunk obtained by an LRU hit keeps its buffers until it is released.
THEOREM HitProtectsCorrect == Spec => []HitProtects
<1>1. IInv => HitProtects
  BY DEF IInv
<1>2. QED
  BY <1>1, Invariant, PTL

\* However release and eviction interleave, no chunk is forgotten.
THEOREM NoLeakCorrect == Spec => []NoLeak
<1>1. IInv => NoLeak
  BY DEF IInv
<1>2. QED
  BY <1>1, Invariant, PTL

-----------------------------------------------------------------------------
(***************************************************************************)
(* The budget is the memory                                                *)
(***************************************************************************)
Cap == [c \in Chunks |-> BytesCap[keyOf[c]]]

\* The sum of the property is the one the lemmas are about.
LEMMA CapSum ==
  ASSUME NEW S, S \subseteq Chunks, IsFiniteSet(S)
  PROVE  MapThenSumSet(LAMBDA c : BytesCap[keyOf[c]], S) = SumOf(Cap, S)
<1> DEFINE Table(t) == t = [s \in SUBSET S |->
                              IF s = {} THEN 0 ELSE BytesCap[keyOf[Picked(s)]] + t[s \ {Picked(s)}]]
           it == CHOOSE t : Table(t)
           jt == CHOOSE t : Iterates(t, Cap, SUBSET S)
<1>1. MapThenSumSet(LAMBDA c : BytesCap[keyOf[c]], S) = it[S]
  BY DEF MapThenSumSet, MapThenFoldSet, Picked
<1>2. \A s \in SUBSET S : s # {} => Cap[Picked(s)] = BytesCap[keyOf[Picked(s)]]
  BY DEF Picked, Cap
<1>3. \A t : Iterates(t, Cap, SUBSET S) <=> Table(t)
  BY <1>2 DEF Iterates
<1>4. \E t : Table(t)
  BY <1>3, TableExists
<1> HIDE DEF Table
<1>5. Table(it)
  BY <1>4
<1>6. Iterates(it, Cap, SUBSET S) /\ Iterates(jt, Cap, SUBSET S)
  BY <1>3, <1>5, TableExists
<1> HIDE DEF it, jt
<1>7. it[S] = jt[S]
  BY <1>6, TablesAgree
<1>8. QED
  BY <1>1, <1>7, SumDef DEF jt

\* As many chunks are charged as there are loads, so always finitely many.
LoadedFinite == IsFiniteSet(Chunks \ freed)

Accounting == LoadedFinite /\ usedCapB = SumOf(Cap, Charged)

\* A step that neither charges nor frees changes nothing of it.
LEMMA AccountingKept ==
  ASSUME IInv, Accounting, UNCHANGED <<usedCapB, freed, keyOf>>,
         \A q \in Clients : pc[q] = "insert" \/ pc'[q] = "insert"
            => pc'[q] = pc[q] /\ chunk'[q] = chunk[q]
  PROVE  Accounting'
<1>1. Charged' = Charged
  BY DEF Charged
<1>2. Cap' = Cap
  BY DEF Cap
<1>3. QED
  BY <1>1, <1>2 DEF Accounting, LoadedFinite

\* Every charged chunk has a key, hence a size.
LEMMA CapType ==
  ASSUME IInv
  PROVE  \A c \in Charged : Cap[c] \in Nat
<1>1. \A c \in Charged : keyOf[c] \in Keys
  <2>1. SUFFICES ASSUME NEW c \in Charged PROVE keyOf[c] \in Keys
    OBVIOUS
  <2>2. c \in Chunks \ freed /\ \A p \in Clients : pc[p] = "insert" => chunk[p] # c
    BY DEF Charged
  <2>3. \/ c \in ToSet(lru)
        \/ \E p \in Clients : (pc[p] = "held" /\ chunk[p] = c) \/ Finalizing(p, c)
    BY <2>2 DEF IInv, NoLeak
  <2>4. QED
    BY <2>2, <2>3, NamesAssumption DEF IInv, TypeOK, CacheIndex, PointersSet, VictimSet, Finalizing
<1>2. QED
  BY <1>1, BytesCapAssumption DEF Cap, Charged

\* Finalizing takes a chunk's bytes off exactly when it takes the chunk off.
LEMMA AccountingFinalized ==
  ASSUME IInv, Accounting, NEW c \in Chunks, TryFinalize(c), UNCHANGED keyOf,
         \A q \in Clients : pc[q] = "insert" \/ pc'[q] = "insert"
            => pc'[q] = pc[q] /\ chunk'[q] = chunk[q]
  PROVE  Accounting'
<1>1. CASE ~CanFinalize(c)
  BY <1>1, AccountingKept DEF TryFinalize
<1>2. CASE CanFinalize(c)
  <2>1. c \in Charged
    BY <1>2 DEF CanFinalize, Charged, IInv, NewChunkFresh
  <2>2. freed' = freed \cup {c} /\ Cap' = Cap
    BY <1>2 DEF TryFinalize, Cap
  <2>3. Charged' = Charged \ {c}
    BY <2>2 DEF Charged
  <2>4. IsFiniteSet(Charged) /\ LoadedFinite'
    BY <2>2, FS_Subset DEF Accounting, LoadedFinite, Charged
  <2>5. SumOf(Cap, Charged) = Cap[c] + SumOf(Cap, Charged \ {c})
    BY <2>1, <2>4, CapType, SumTakesOut
  <2>6. Cap[c] \in Nat /\ SumOf(Cap, Charged \ {c}) \in Nat
    BY <2>1, <2>4, CapType, SumType, FS_Subset
  <2>7. usedCapB' = ClampedToZero(usedCapB - Cap[c])
    BY <1>2 DEF TryFinalize, Cap
  <2>8. usedCapB' = SumOf(Cap, Charged \ {c})
    BY <2>5, <2>6, <2>7 DEF Accounting, ClampedToZero
  <2>9. QED
    BY <2>2, <2>3, <2>4, <2>8 DEF Accounting
<1>3. QED
  BY <1>1, <1>2

\* store.go charges a chunk once and takes it off once, in every step.
LEMMA AccountingStep ==
  ASSUME IInv, Accounting, NEW p \in Clients, StoreStep(p)
  PROVE  Accounting'
<1> USE DEF Goto, storeVars, heapVars, clientVars
<1>0. TypeOK
  BY DEF IInv
<1>1. CASE \/ \E k \in Keys : GetChunk(p, k)
           \/ LookupHit(p) \/ LookupMiss(p) \/ RecheckHit(p) \/ RecheckMiss(p)
           \/ Join(p) \/ Lead(p) \/ PressureGuard(p) \/ LoadFail(p) \/ EvictTail(p)
           \/ GetError(p) \/ TakeRef(p) \/ DropRef(p) \/ CheckEvicted(p)
  <2>1. UNCHANGED <<usedCapB, freed, keyOf>>
    BY <1>1 DEF GetChunk, LookupHit, LookupMiss, RecheckHit, RecheckMiss, Join, Lead, PressureGuard,
       LoadFail, EvictTail, GetError, TakeRef, DropRef, CheckEvicted
  <2>2. /\ pc[p] # "insert" /\ pc'[p] # "insert"
        /\ \A q \in Clients \ {p} : pc'[q] = pc[q] /\ chunk'[q] = chunk[q]
    BY <1>0, <1>1 DEF TypeOK, GetChunk, LookupHit, LookupMiss, RecheckHit, RecheckMiss, Join, Lead,
       PressureGuard, LoadFail, EvictTail, GetError, TakeRef, DropRef, CheckEvicted, ReleaseDone
  <2>3. QED
    BY <2>1, <2>2, AccountingKept
<1>2. CASE Publish(p)
  <2>1. UNCHANGED <<usedCapB, freed, keyOf>>
    BY <1>2 DEF Publish
  <2>2. \A q \in Clients : pc[q] = "insert" \/ pc'[q] = "insert"
            => pc'[q] = pc[q] /\ chunk'[q] = chunk[q]
    BY <1>0, <1>2 DEF TypeOK, Publish, Served
  <2>3. QED
    BY <2>1, <2>2, AccountingKept
<1>3. CASE LoadChunk(p)
  <2>1. PICK d \in Chunks \ Reachable :
          /\ chunk' = [chunk EXCEPT ![p] = d] /\ freed' = freed \ {d}
          /\ keyOf' = [keyOf EXCEPT ![d] = want[p]]
    BY <1>3 DEF LoadChunk
  <2>2. /\ UNCHANGED usedCapB /\ pc[p] = "load" /\ pc'[p] = "insert" /\ chunk'[p] = d
        /\ \A q \in Clients \ {p} : pc'[q] = pc[q] /\ chunk'[q] = chunk[q]
    BY <1>0, <1>3, <2>1 DEF TypeOK, LoadChunk
  <2>3. d \in freed
    BY <2>1 DEF IInv, NoLeak, Reachable, Finalizing
  <2>4. Charged' = Charged
    BY <2>1, <2>2, <2>3 DEF Charged
  <2>5. d \notin Charged /\ \A c \in Charged : Cap'[c] = Cap[c]
    BY <1>0, <2>1, <2>3 DEF Charged, Cap, TypeOK
  <2>6. IsFiniteSet(Charged) /\ LoadedFinite'
    <3>1. Chunks \ freed' = (Chunks \ freed) \cup {d}
      BY <2>1
    <3>2. QED
      BY <3>1, FS_AddElement, FS_Subset DEF Accounting, LoadedFinite, Charged
  <2>7. SumOf(Cap', Charged) = SumOf(Cap, Charged)
    BY <2>5, <2>6, SumCongruent
  <2>8. QED
    BY <2>2, <2>4, <2>6, <2>7 DEF Accounting
<1>4. CASE Insert(p)
  <2> DEFINE c == chunk[p]
  <2>1. /\ UNCHANGED <<freed, keyOf, chunk>> /\ pc[p] = "insert" /\ pc'[p] = "evict"
        /\ \A q \in Clients \ {p} : pc'[q] = pc[q]
        /\ usedCapB' = usedCapB + BytesCap[keyOf[c]]
    BY <1>0, <1>4 DEF TypeOK, Insert
  <2>2. /\ c \in Chunks \ freed /\ c \notin Charged
        /\ \A q \in Clients \ {p} : chunk[q] # c
    BY <2>1 DEF IInv, TypeOK, PointersSet, NewChunkFresh, NewChunkPrivate, Charged
  <2>3. Charged' = Charged \cup {c} /\ Cap' = Cap
    BY <2>1, <2>2 DEF Charged, Cap
  <2>4. IsFiniteSet(Charged') /\ LoadedFinite'
    BY <2>1, FS_Subset DEF Accounting, LoadedFinite, Charged
  <2>5. Cap[c] \in Nat /\ Cap[c] = BytesCap[keyOf[c]]
    BY <2>1, <2>2, BytesCapAssumption DEF IInv, PointersSet, Cap
  <2>6. \A d \in Charged' : Cap[d] \in Nat
    BY <2>3, <2>5, CapType
  <2>7. SumOf(Cap, Charged') = Cap[c] + SumOf(Cap, Charged' \ {c})
    BY <2>3, <2>4, <2>6, SumTakesOut
  <2>8. Charged' \ {c} = Charged
    BY <2>2, <2>3
  <2>9. usedCapB \in Nat /\ usedCapB = SumOf(Cap, Charged)
    BY <1>0 DEF TypeOK, Accounting
  <2>10. usedCapB' = SumOf(Cap', Charged')
    <3>1. SumOf(Cap', Charged') = Cap[c] + usedCapB
      BY <2>3, <2>7, <2>8, <2>9
    <3>2. usedCapB' = usedCapB + Cap[c]
      BY <2>1, <2>5
    <3> HIDE DEF c
    <3>3. QED
      BY <2>5, <2>9, <3>1, <3>2
  <2>11. QED
    BY <2>4, <2>10 DEF Accounting
<1>5. CASE FinalizeVictim(p)
  <2>1. victim[p] \in Chunks
    BY <1>0, <1>5, NamesAssumption DEF IInv, VictimSet, TypeOK, FinalizeVictim
  <2>2. /\ TryFinalize(victim[p]) /\ UNCHANGED <<keyOf, chunk>>
        /\ pc[p] = "finalize" /\ pc'[p] = "evict" /\ \A q \in Clients \ {p} : pc'[q] = pc[q]
    BY <1>0, <1>5 DEF TypeOK, FinalizeVictim
  <2>3. QED
    BY <2>1, <2>2, AccountingFinalized
<1>6. CASE FinishInsert(p)
  <2>1. /\ UNCHANGED <<usedCapB, freed, keyOf, chunk>> /\ pc[p] = "evict" /\ pc'[p] = "publish"
        /\ \A q \in Clients \ {p} : pc'[q] = pc[q]
    BY <1>0, <1>6, NoUndo DEF TypeOK, FinishInsert
  <2>2. QED
    BY <2>1, AccountingKept
<1>7. CASE Reclaim(p)
  <2>1. chunk[p] \in Chunks
    BY <1>0, <1>7 DEF IInv, PointersSet, TypeOK, Reclaim
  <2>2. /\ TryFinalize(chunk[p]) /\ UNCHANGED keyOf /\ pc[p] = "reclaim" /\ pc'[p] = "idle"
        /\ \A q \in Clients \ {p} : pc'[q] = pc[q] /\ chunk'[q] = chunk[q]
    BY <1>0, <1>7 DEF TypeOK, Reclaim, ReleaseDone
  <2>3. QED
    BY <2>1, <2>2, AccountingFinalized
<1>8. QED
  BY <1>1, <1>2, <1>3, <1>4, <1>5, <1>6, <1>7 DEF StoreStep, RunStep, LockStep

\* An empty cache is charged nothing.
LEMMA InitAccounting == Init => Accounting
<1> SUFFICES ASSUME Init PROVE Accounting
  OBVIOUS
<1>1. Charged = {} /\ Chunks \ freed = {} /\ usedCapB = 0
  BY DEF Init, Charged
<1>2. SumOf(Cap, {}) = 0
  BY FS_EmptySet, SumUnfolds
<1>3. QED
  BY <1>1, <1>2, FS_EmptySet DEF Accounting, LoadedFinite

\* Stuttering included.
LEMMA NextAccounting == IInv /\ Accounting /\ [Next]_vars => Accounting'
<1>1. ASSUME IInv, Accounting, UNCHANGED vars
      PROVE  Accounting'
  BY <1>1, AccountingKept DEF vars, storeVars, heapVars, clientVars
<1>2. QED
  BY <1>1, AccountingStep DEF Next, StoreStep

\* The accounting is an invariant of the store.
LEMMA AccountingInvariant == Spec => []Accounting
  BY InitAccounting, NextAccounting, Invariant, PTL DEF Spec

\* usedCapB is the memory that is charged: nothing is added or taken off twice,
\* whoever finalizes a chunk.
THEOREM AccountingCorrect == Spec => []AccountingExact
<1>1. Accounting => AccountingExact
  <2>1. SUFFICES ASSUME Accounting PROVE AccountingExact
    OBVIOUS
  <2>2. Charged \subseteq Chunks /\ IsFiniteSet(Charged)
    BY <2>1, FS_Subset DEF Charged, Accounting, LoadedFinite
  <2>3. QED
    BY <2>1, <2>2, CapSum DEF Accounting, AccountingExact
<1>2. QED
  BY <1>1, AccountingInvariant, PTL

=============================================================================
