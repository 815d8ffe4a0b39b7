SPECIFICATION Spec
CONSTANTS
  impl = impl
  review = review
  docs = docs
  NoStep = NoStep
  Human = Human
  Onecatch = Onecatch
  Steps <- MCSteps
  NextEdges <- MCNextEdges
  ReworkEdges <- MCReworkEdges
  Writers <- MCWriters
  Instructions = {}
  Target <- MCTarget
  ReworkLimit <- MCReworkLimit
  MaxConsecutiveFailures = 2
  MaxConcurrency = 2
  LoopModes = {FALSE}
  MaxResumes = 0
  MaxCrashes = 0
INVARIANT WritersNeverOverlap
CHECK_DEADLOCK FALSE
