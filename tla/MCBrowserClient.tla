-------------------------- MODULE MCBrowserClient --------------------------
(* Instances of BrowserClient for TLC. *)
EXTENDS BrowserClient

\* Request slots are interchangeable, and so are streams.
SlotSymmetry == Permutations(Requests) \cup Permutations(Streams)

=============================================================================
