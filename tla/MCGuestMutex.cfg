SPECIFICATION FairSpec

CONSTANTS
  Threads = {t1, t2, t3}
  NoThread = NoThread
  MaxDepth = 2
  MaxRaises = 1

INVARIANTS MutualExclusion NoLostWakeup SignalNotMissed

PROPERTIES ForeverReturnsHolding FreeLockIsTaken ImplementsLock
