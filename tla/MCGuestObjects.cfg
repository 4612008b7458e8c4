SPECIFICATION ObjectsSpec
CONSTANTS
  Threads = {t1, t2, t3}
  NoThread = NoThread
  Statics = {static, adaptive}
  Destroyed = Destroyed
  MaxHandles = 3
  Off = Off
  MaxRaises = 1
  Disciplined = TRUE
  Counts = {0, 2, 3, 4}
  CountLimit = 3
  RoundModulus = 7
  MaxLaps = 4
  a = a
  b = b
  Bits <- TwoBits
  Requests <- BothOrEither
  MaxCancels = 1
  Values = {0, 1}
  Expected = {0}
  Stores = {1}
  WakeCounts = {0, 1, 5}
SYMMETRY ObjectSymmetry
INVARIANTS
  NobodySleepsInVain CountsAreExact SleepersHearSignals LockStep
  AnnouncedWakesAll SameLock NoLeak
