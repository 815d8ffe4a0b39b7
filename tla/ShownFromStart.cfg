SPECIFICATION Spec
CONSTANTS
  l1 = l1
  l2 = l2
  None = None
  Loads = {l1}
  MaxTokens = 2
  MaxOpens = 2
  MaxFaults = 1
\* One statement at a time: exchange the comment to see the other violated.
INVARIANT ShownFromStart
\* INVARIANT StoredIsShown
CHECK_DEADLOCK FALSE
