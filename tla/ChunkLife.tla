------------------------------ MODULE ChunkLife ------------------------------
(***************************************************************************)
(* What the chunk store promises of the memory of a chunk, without lists,  *)
(* maps, locks or counters: a chunk is loaded for one key, offered to all, *)
(* taken off the cache once, and its memory goes back to the pools once,   *)
(* never under a client that pinned it while it was offered.               *)
(***************************************************************************)
EXTENDS Integers

CONSTANTS Clients, Keys, Chunks, NoKey, NoChunk

VARIABLES
  life,  \* life[c]: "free", "loaded", "cached" or "evicted"
  key,   \* key[c]: what chunk c holds, NoKey while it is free
  pins   \* pins[p]: the chunk client p pinned, or NoChunk

vars == <<life, key, pins>>

Init ==
  /\ life = [c \in Chunks |-> "free"]
  /\ key = [c \in Chunks |-> NoKey]
  /\ pins = [p \in Clients |-> NoChunk]

\* No two chunks of one key are loaded or cached at a time.
Load(c, k) ==
  /\ life[c] = "free"
  /\ \A d \in Chunks : life[d] \in {"loaded", "cached"} => key[d] # k
  /\ life' = [life EXCEPT ![c] = "loaded"]
  /\ key' = [key EXCEPT ![c] = k]
  /\ UNCHANGED pins

Cache(c) ==
  /\ life[c] = "loaded"
  /\ life' = [life EXCEPT ![c] = "cached"]
  /\ UNCHANGED <<key, pins>>

Evict(c) ==
  /\ life[c] = "cached"
  /\ life' = [life EXCEPT ![c] = "evicted"]
  /\ UNCHANGED <<key, pins>>

Free(c) ==
  /\ life[c] = "evicted"
  /\ \A p \in Clients : pins[p] # c
  /\ life' = [life EXCEPT ![c] = "free"]
  /\ key' = [key EXCEPT ![c] = NoKey]
  /\ UNCHANGED pins

Pin(p, c) ==
  /\ pins[p] = NoChunk
  /\ life[c] = "cached"
  /\ pins' = [pins EXCEPT ![p] = c]
  /\ UNCHANGED <<life, key>>

Unpin(p) ==
  /\ pins[p] # NoChunk
  /\ pins' = [pins EXCEPT ![p] = NoChunk]
  /\ UNCHANGED <<life, key>>

Next ==
  \/ \E c \in Chunks : Cache(c) \/ Evict(c) \/ Free(c) \/ \E k \in Keys : Load(c, k)
  \/ \E p \in Clients : Unpin(p) \/ \E c \in Chunks : Pin(p, c)

Spec == Init /\ [][Next]_vars

=============================================================================
