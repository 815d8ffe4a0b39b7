SPECIFICATION FairSpec
CONSTANTS
  c1 = c1
  c2 = c2
  None = None
  Calls = {c1, c2}
INVARIANTS
  WhatIsToldIsTrue
  TurnLeavesNothing
\* Not promised and not so: Codex acknowledges no answer to a question it waits on.
\* SuccessReachesCodex
PROPERTIES
  CallsReturn
CHECK_DEADLOCK FALSE
