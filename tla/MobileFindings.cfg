SPECIFICATION PhoneSpec
CONSTANTS
  Runs = {r1}
  Polls = {c1}
  Touches = {c2}
  Window = 1
  ListLimit = 2
  MaxTotal = 3
  MaxFaults = 1
  CutUploads = TRUE
CHECK_DEADLOCK FALSE
\* One statement at a time: exchange the comment to see another violated.
INVARIANT HistoryKept
\* INVARIANT DeleteReachesHost
\* PROPERTY ScrollbackIsKept
\* PROPERTY DeletedStaysDeleted
