SPECIFICATION FairSpec
CONSTANTS
  window = window
  phone = phone
  m1 = m1
  m2 = m2
  j1 = j1
  j2 = j2
  NoJob = NoJob
  NoMessage = NoMessage
  Free = Free
  Hook = Hook
  MaxHooks = 2
  Clients = {window, phone}
  Messages = {m1, m2}
  Jobs = {j1, j2}
  OneResume = TRUE
  PollExpires = TRUE
INVARIANTS
  Interruptible
PROPERTIES
  FollowUpStarts
  CallsReturn
CHECK_DEADLOCK FALSE
