CONSTANTS
  Sessions = {p1, p2}
  Peers = {}
  LastSeq = 2
  ChunkN = 2
  Oversize <- AllPlayable
  TableWrites = {"append"}
  Reclaims = FALSE
  MaxEvents = 1
  MaxElapsed = 2
  NoChunk = NoChunk
SPECIFICATION Spec
INVARIANT NothingJumped
CHECK_DEADLOCK FALSE
