SPECIFICATION FairSpec

CONSTANTS
  Threads = {t1, t2, t3}
  MaxCount = 2
  MaxNeed = 2
  MaxRaises = 1

INVARIANTS NoCoveredSleeper

PROPERTIES ForeverReturnsServed CoveredIsServed
