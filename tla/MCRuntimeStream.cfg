SPECIFICATION FairSpec
CONSTANTS
  l1 = l1
  l2 = l2
  None = None
  Loads = {l1}
  MaxTokens = 2
  MaxOpens = 2
  MaxFaults = 1
INVARIANTS
  RevisionNamesText
  EndedIsWhole
PROPERTIES
  NoRollBack
  SaidIsStored
  EndIsShown
CHECK_DEADLOCK FALSE
