SPECIFICATION PhoneFairSpec
CONSTANTS
  Runs = {r1}
  Polls = {c1}
  Touches = {c2}
  Window = 1
  ListLimit = 2
  MaxTotal = 3
  MaxFaults = 1
  CutUploads = FALSE
CHECK_DEADLOCK FALSE
INVARIANTS
  ShownIsHosts
  HistoryKept
PROPERTIES
  RunsAreKept
  PhoneCatchesUp
