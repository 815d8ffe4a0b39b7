SPECIFICATION Spec
CONSTANTS
  f = f
  g = g
  Names = {f, g}
  MaxWrites = 3
  MaxFaults = 2
  RenameRaces = TRUE
PROPERTIES
  LocalWorkIsKept
