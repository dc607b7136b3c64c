CONSTANTS
  Clients = {p1, p2, p3}
  Keys = {k1, k2}
  Chunks = {c1, c2, c3, c4, c5}
  NoClient = NoClient
  NoKey = NoKey
  NoChunk = NoChunk
  BytesCap <- UnitCap
  LimitB = 1
  PressureGuardFactor = 2
SPECIFICATION Spec
SYMMETRY FullSymmetry
INVARIANTS TypeOK CacheIndex SoleLoader OwnKey AccountingExact HitProtects NoLeak ExcessIsNewChunk
PROPERTY ImplementsChunkLife
