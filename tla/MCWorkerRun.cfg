SPECIFICATION FairSpec
CONSTANTS
  w1 = w1
  w2 = w2
  Runs = {w1, w2}
  MaxRevision = 2
  MaxFaults = 1
  RemovalRaces = FALSE
INVARIANTS
  PatchIsOfOneRun
  RunSeesBaseline
PROPERTIES
  WorkIsNotLost
  RemoteRunEnds
CHECK_DEADLOCK FALSE
