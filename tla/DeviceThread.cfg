SPECIFICATION FairSpec
CONSTANTS
  Callers = {c1, c2}
  Nobody = Nobody
  Holders = {c1}
  Sizes = {1, 4}
  MostJobs = 2
  MostBytes = 3
  MaxCalls = 3
INVARIANTS WithinLimits
PROPERTIES AnsweredAfterHandOffs 
