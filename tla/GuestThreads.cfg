\* A first thread that parks itself leaves a process with nothing to do.
CHECK_DEADLOCK FALSE
SPECIFICATION FairSpec

CONSTANTS
  Handles = {h1, h2, h3}
  Main = Main
  Nobody = Nobody

INVARIANTS JoinedOnce ValueIsKept

PROPERTIES JoinReturns
