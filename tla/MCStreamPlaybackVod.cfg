CONSTANTS
  Sessions = {p1, p2}
  Peers = {}
  LastSeq = 5
  ChunkN = 2
  Oversize <- OversizePair
  TableWrites = {}
  Reclaims = FALSE
  MaxEvents = 0
  MaxElapsed = 5
  NoChunk = NoChunk
SPECIFICATION Spec
PROPERTY ImplementsPlayout
CHECK_DEADLOCK FALSE
