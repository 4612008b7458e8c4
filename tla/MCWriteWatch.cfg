SPECIFICATION Spec
CONSTANTS
  Threads = {t1, t2}
  NoThread = NoThread
  Pages <- ThreePages
  ChunkPages = 2
  Spans <- AllSpans
  GuardedFrom = 2
  GuardsMost = 2
  MaxEpoch = 2
  DeviceSpans <- Mapped
SYMMETRY ThreadSymmetry
INVARIANTS NoWriteMissed GuardsHold ChunkedIsExact
CHECK_DEADLOCK FALSE
