SPECIFICATION FairSpec
CONSTANTS
  Slots = {s1}
  MaxVersion = 3
  MaxFailures = 2
  OneInstance = TRUE
  CopyBackFails = FALSE
INVARIANTS
  ProvenVersionKept
PROPERTIES
  OnlyForward
  AppComesBack
