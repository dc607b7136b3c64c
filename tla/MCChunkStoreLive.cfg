CONSTANTS
  Clients = {p1, p2}
  Keys = {k1, k2}
  Chunks = {c1, c2, c3}
  NoClient = NoClient
  NoKey = NoKey
  NoChunk = NoChunk
  BytesCap <- UnitCap
  LimitB = 1
  PressureGuardFactor = 2
SPECIFICATION FairSpec
PROPERTIES GetReturns EvictedIsFreed
