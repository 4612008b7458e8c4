\* A first thread that parks itself leaves a process with nothing to do.
CHECK_DEADLOCK FALSE
SPECIFICATION Spec
CONSTANTS
  Handles = {h1, h2}
  Main = Main
  Nobody = Nobody
INVARIANTS ExitEndsOneThread
