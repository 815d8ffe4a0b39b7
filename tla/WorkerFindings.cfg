SPECIFICATION Spec
CONSTANTS
  w1 = w1
  w2 = w2
  Runs = {w1, w2}
  MaxRevision = 2
  MaxFaults = 2
  RemovalRaces = TRUE
CHECK_DEADLOCK FALSE
\* One statement at a time: exchange the comment to see another violated.
INVARIANT RunSeesBaseline
\* INVARIANT RetryResolves
