SPECIFICATION Spec
CONSTANTS
  Threads = {t1, t2}
  NoThread = NoThread
  Low = 1
  PoolSize = 4
  Lens = {1, 2}
  Aligns = {2}
  Names = {2, 3}
  Spots = {2}
  HostPages = {5, 15, 18}
  ArenaBase = 12
  ArenaEnd = 15
  Depth = 1
  Retries = 2
  MaxViews = 3
  MaxRanges = 1
  MaxRegions = 3
  Edges = {0, 3}
  Rules = {"care", "apart", "once"}
SYMMETRY ThreadSymmetry
INVARIANTS ViewsStayBacked ViewsAreCounted   PoolTiles
