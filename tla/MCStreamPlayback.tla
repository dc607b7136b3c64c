-------------------------- MODULE MCStreamPlayback --------------------------
(* Instances of StreamPlayback for TLC. *)
EXTENDS StreamPlayback

\* No row is oversize.
AllPlayable == {}

\* One row above MaxFrameBytes.
OneOversize == {1}

\* A whole chunk of two oversize rows.
OversizePair == {2, 3}

=============================================================================
