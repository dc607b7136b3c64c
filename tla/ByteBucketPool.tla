--------------------------- MODULE ByteBucketPool ---------------------------
(***************************************************************************)
(* The byte pool of the chunk store                                        *)
(* (backend/internal/biz/session/store_pool/bytepool.go): one sync.Pool    *)
(* per bucket size.  A buffer is an address of 1..MaxBuffers; Nil is the   *)
(* nil slice.  A sync.Pool may lose a buffer to the garbage collector, and *)
(* may make a new one although it has some.                                *)
(***************************************************************************)
EXTENDS Integers, FiniteSetsExt

CONSTANTS
  Sizes,      \* the capacities of the buckets
  MaxBuffers  \* bound on the buffers alive at once

ASSUME SizesAssumption == Sizes \subseteq Nat \ {0} /\ IsFiniteSet(Sizes) /\ MaxBuffers \in Nat

VARIABLES
  bufCap,  \* the capacity of each buffer
  idle     \* the buffers in the pools

poolVars == <<bufCap, idle>>

Nil == 0

Buffers == 1..MaxBuffers

PoolInit == bufCap = [b \in Buffers |-> 0] /\ idle = {}

\* The bucket for a length; 0 when it is larger than all of them.
BucketSize(n) ==
  LET fitting == {s \in Sizes : s >= n} IN IF fitting = {} THEN 0 ELSE Min(fitting)

\* The capacity of the buffer Get returns.
CapFor(n) ==
  IF n <= 0 THEN 0 ELSE IF BucketSize(n) = 0 THEN n ELSE BucketSize(n)

\* Mutant of Reusable: any large enough buffer will do.
ReusableLarger(n) == {b \in idle : bufCap[b] >= n}

\* What the pool of n's bucket may hand out again.
Reusable(n) == {b \in idle : BucketSize(n) # 0 /\ bufCap[b] = BucketSize(n)}

Fresh(used) == Buffers \ (idle \cup used)

\* Get: nothing for an empty frame, else a pooled buffer or a new one, for
\* which the collector has freed an address when there was none.  Which unused
\* address a new buffer has makes no difference.
Get(n, used, b) ==
  IF n <= 0
  THEN b = Nil /\ UNCHANGED poolVars
  ELSE \/ /\ b \in Reusable(n)
          /\ idle' = idle \ {b}
          /\ UNCHANGED bufCap
       \/ /\ b \in IF Fresh(used) # {} THEN {Min(Fresh(used))} ELSE idle
          /\ idle' = idle \ {b}
          /\ bufCap' = [bufCap EXCEPT ![b] = CapFor(n)]

\* Put: a buffer whose capacity is no bucket's is left to the collector.
Put(bs) ==
  /\ idle' = idle \cup {b \in bs : b # Nil /\ bufCap[b] \in Sizes}
  /\ UNCHANGED bufCap

=============================================================================
