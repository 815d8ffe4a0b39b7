SPECIFICATION PhoneSpec
CONSTANTS
  Runs = {r1, r2}
  Polls = {}
  Touches = {c2}
  Window = 1
  ListLimit = 1
  MaxTotal = 3
  MaxFaults = 0
  CutUploads = FALSE
CHECK_DEADLOCK FALSE
PROPERTY RunsAreKept
