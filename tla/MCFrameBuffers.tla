--------------------------- MODULE MCFrameBuffers ---------------------------
(***************************************************************************)
(* Instances of FrameBuffers for TLC.                                      *)
(***************************************************************************)
EXTENDS FrameBuffers

CONSTANTS k1, k2

\* k1 has one frame; k2 an anomalous one, one of another bucket, an empty one.
MixedLens == (k1 :> <<1>>) @@ (k2 :> <<9, 2, 0>>)

\* Both keys have one frame, of the same bucket.
SameLens == (k1 :> <<1>>) @@ (k2 :> <<2>>)

LoadedCap(lens) ==
  [k \in Keys |-> LET kept == SelectSeq(lens[k], LAMBDA n : n <= MaxFrameBytes)
                  IN  SumFunction([i \in DOMAIN kept |-> CapFor(kept[i])])]

MixedCap == LoadedCap(MixedLens)

SameCap == LoadedCap(SameLens)

\* Addresses and clients are interchangeable.
FullSymmetry == Permutations(Chunks) \cup Permutations(Clients)

=============================================================================
