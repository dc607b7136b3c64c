CONSTANTS
  Clients = {p1}
  Keys = {k1}
  Chunks = {c1, c2}
  NoClient = NoClient
  NoKey = NoKey
  NoChunk = NoChunk
  BytesCap <- OversizedCap
  LimitB = 2
  PressureGuardFactor = 2
SPECIFICATION Spec
INVARIANT NotFreedWhileReferenced
