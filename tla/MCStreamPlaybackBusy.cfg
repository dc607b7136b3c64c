CONSTANTS
  Sessions = {p1}
  Peers = {q1}
  LastSeq = 3
  ChunkN = 2
  Oversize <- OneOversize
  TableWrites = {"append", "trim"}
  Reclaims = TRUE
  MaxEvents = 1
  MaxElapsed = 5
  NoChunk = NoChunk
SPECIFICATION FairSpec
INVARIANTS TypeOK CursorInSync NeverAhead OnTime
PROPERTIES SeqForward SessionEnds
CHECK_DEADLOCK FALSE
