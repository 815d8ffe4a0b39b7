SPECIFICATION LockSpec
CONSTANTS
  x = x
  y = y
  z = z
  p = p
  q = q
  NoOne = NoOne
  Callers <- MCCallers
  Procs = {p}
  Home <- MCHome
  Pids = {1, 2, 3}
  SignalsProbe = TRUE
  MaxLaunches = 3
INVARIANTS
  MutualExclusion
PROPERTIES
  ReleaseFreesWorkspace
CHECK_DEADLOCK FALSE
