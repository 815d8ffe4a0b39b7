SPECIFICATION FairSpec
CONSTANTS
  impl = impl
  check = check
  hint = hint
  NoStep = NoStep
  Human = Human
  Onecatch = Onecatch
  Steps <- MCSteps
  NextEdges <- MCNextEdges
  ReworkEdges <- MCReworkEdges
  Writers <- MCWriters
  Instructions <- MCInstructions
  Target <- MCTarget
  ReworkLimit <- MCReworkLimit
  MaxConsecutiveFailures = 2
  MaxConcurrency = 2
  LoopModes = {TRUE, FALSE}
  MaxResumes = 1
  MaxCrashes = 0
INVARIANTS
  FinishedRunHasNoMail
PROPERTIES
  RoundEnds
  InterruptStops
CHECK_DEADLOCK FALSE
