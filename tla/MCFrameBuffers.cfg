CONSTANTS
  Clients = {p1, p2}
  Keys = {k1, k2}
  Chunks = {c1, c2, c3}
  NoClient = NoClient
  NoKey = NoKey
  NoChunk = NoChunk
  k1 = k1
  k2 = k2
  FrameLens <- MixedLens
  BytesCap <- MixedCap
  LimitB = 2
  PressureGuardFactor = 2
  Sizes = {1, 2}
  MaxFrameBytes = 4
  MaxBuffers = 5
SPECIFICATION FramesSpec
SYMMETRY FullSymmetry
INVARIANTS OneOwner BudgetIsMemory HitPlaysOwn
