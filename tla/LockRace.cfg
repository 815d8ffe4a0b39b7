SPECIFICATION LockSpec
CONSTANTS
  x = x
  y = y
  z = z
  p = p
  q = q
  NoOne = NoOne
  Callers = {x, y}
  Home <- MCHome
  Pids = {1, 2, 3}
  MaxLaunches = 1
\* Exchange the comments of the two groups to see the other history.
\* Two processes find the same stale lock.
  Procs = {p, q}
  SignalsProbe = TRUE
\* One process on Windows, where signal 0 always fails.
\*  Procs = {p}
\*  SignalsProbe = FALSE
INVARIANT MutualExclusion
\* PROPERTY ReleaseFreesWorkspace
CHECK_DEADLOCK FALSE
