------------------------------ MODULE Playout ------------------------------
(***************************************************************************)
(* What playing a stream means to a viewer, without snapshots, indexes,    *)
(* chunks or cursors: the frames of a recording in ascending order, each   *)
(* once, one per slot of time.  A frame is sent in a slot that has begun,  *)
(* or skipped for a slot that is over; the stream ends when none is left.  *)
(***************************************************************************)
EXTENDS Integers

CONSTANTS
  Sessions,
  Frames,
  Failures,  \* TRUE when reading the recording may fail
  Nothing

VARIABLES
  recording,  \* the frames there are
  left,       \* left[p]: those neither sent nor skipped
  sending,    \* sending[p]: the one on its way to the viewer, or Nothing
  slot,       \* slot[p]: the slot that is played
  clock,      \* clock[p]: the slots that have begun after the first
  state       \* state[p]: idle, playing, or how it ended

vars == <<recording, left, sending, slot, clock, state>>

Init ==
  /\ recording \in SUBSET Frames
  /\ left = [p \in Sessions |-> {}]
  /\ sending = [p \in Sessions |-> Nothing]
  /\ slot = [p \in Sessions |-> 0]
  /\ clock = [p \in Sessions |-> 0]
  /\ state = [p \in Sessions |-> "idle"]

Open(p) ==
  /\ state[p] = "idle"
  /\ state' = [state EXCEPT ![p] = "playing"]
  /\ left' = [left EXCEPT ![p] = recording]
  /\ UNCHANGED <<recording, sending, slot, clock>>

Playing(p) == state[p] = "playing" /\ UNCHANGED recording

Waits(p) == Playing(p) /\ sending[p] = Nothing

Tick(p) ==
  /\ Waits(p)
  /\ clock' = [clock EXCEPT ![p] = @ + 1]
  /\ UNCHANGED <<left, sending, slot, state>>

First(p, f) == f \in left[p] /\ \A g \in left[p] : f <= g

Send(p) ==
  /\ Waits(p) /\ slot[p] <= clock[p]
  /\ \E f \in left[p] : First(p, f) /\ sending' = [sending EXCEPT ![p] = f]
  /\ UNCHANGED <<left, slot, clock, state>>

Passes(p) == slot' = [slot EXCEPT ![p] = @ + 1]

Sent(p) ==
  /\ Playing(p) /\ sending[p] # Nothing
  /\ left' = [left EXCEPT ![p] = @ \ {sending[p]}]
  /\ sending' = [sending EXCEPT ![p] = Nothing]
  /\ Passes(p)
  /\ UNCHANGED <<clock, state>>

Skip(p) ==
  /\ Waits(p) /\ slot[p] < clock[p]
  /\ \E f \in left[p] : First(p, f) /\ left' = [left EXCEPT ![p] = @ \ {f}]
  /\ Passes(p)
  /\ UNCHANGED <<sending, clock, state>>

\* A slot without a frame.
Pass(p) ==
  /\ Waits(p) /\ slot[p] <= clock[p]
  /\ left[p] = {} \/ Failures
  /\ Passes(p)
  /\ UNCHANGED <<left, sending, clock, state>>

EndOfStream(p) ==
  /\ Waits(p)
  /\ left[p] = {} \/ Failures
  /\ state' = [state EXCEPT ![p] = "eos"]
  /\ UNCHANGED <<left, sending, slot, clock>>

\* The viewer is gone, or the session is cancelled.
Break(p) ==
  /\ Playing(p)
  /\ sending[p] # Nothing \/ Failures
  /\ state' = [state EXCEPT ![p] = "error"]
  /\ sending' = [sending EXCEPT ![p] = Nothing]
  /\ UNCHANGED <<left, slot, clock>>

\* Most steps of a session show nothing here.
Next ==
  \/ UNCHANGED vars
  \/ \E p \in Sessions :
       \/ Open(p) \/ Tick(p) \/ Send(p) \/ Sent(p) \/ Skip(p) \/ Pass(p)
       \/ EndOfStream(p) \/ Break(p)

Spec == Init /\ [][Next]_vars

=============================================================================
