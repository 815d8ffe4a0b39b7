SPECIFICATION FairSpec
CONSTANTS
  f = f
  g = g
  Names = {f, g}
  MaxWrites = 3
  MaxFaults = 2
  RenameRaces = FALSE
INVARIANTS
  AgentStartsOnProject
PROPERTIES
  LocalWorkIsKept
  RemoteWorkIsKept
  Converges
