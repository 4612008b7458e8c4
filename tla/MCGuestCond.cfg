SPECIFICATION CondSpec
CONSTANTS
  Threads = {t1, t2, t3}
  NoThread = NoThread
  MaxOwed = 2
  MaxRaises = 1
  MaxItems = 2
  Announcements = {"signal"}
INVARIANTS WaitingIsExact NoStrandedWake NoForgottenItem
PROPERTIES WakesAreSpent
