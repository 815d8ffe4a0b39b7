SPECIFICATION Spec
CONSTANTS
  impl = impl
  revA = revA
  revB = revB
  note = note
  NoStep = NoStep
  Human = Human
  Onecatch = Onecatch
  Steps <- MCSteps
  NextEdges <- MCNextEdges
  ReworkEdges <- MCReworkEdges
  Writers <- MCWriters
  Instructions <- MCInstructions
  Target <- MCTarget
  ReworkLimit <- MCReworkLimit
  MaxConsecutiveFailures = 2
  MaxConcurrency = 2
  LoopModes = {FALSE}
  MaxResumes = 1
  MaxCrashes = 1
INVARIANTS
  CompletionLeavesNothingRunning
  NodeStatusTracksExecution
  GuidanceIsNotLost
  PausedRunHasWork
PROPERTIES
  InboxClearedOnlyByVerdict
  FollowUpStartsATurn
  ImplementsLifecycle
SYMMETRY Reviewers
CHECK_DEADLOCK FALSE
