---------------------------- MODULE MCChunkStore ----------------------------
(***************************************************************************)
(* Instances of ChunkStore for TLC.  There are as many chunk addresses as  *)
(* pointers that can exist at once (one per client and one per key), so    *)
(* the allocation of LoadChunk never blocks.                               *)
(***************************************************************************)
EXTENDS ChunkStore

\* All chunks of equal size.
UnitCap == [k \in Keys |-> 1]

\* A chunk larger than the whole budget of the instance.
OversizedCap == [k \in Keys |-> 3]

\* Addresses and clients are interchangeable.
FullSymmetry == Permutations(Chunks) \cup Permutations(Clients)

=============================================================================
