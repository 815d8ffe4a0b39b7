SPECIFICATION Spec
CONSTANTS
  a = a
  b = b
  c = c
  NoTask = NoTask
  Tasks = {a, b}
  Immediate = {}
  MaxWanted = 2
  MaxEvents = 2
PROPERTIES
  ReleasedTaskIsFinished
CHECK_DEADLOCK FALSE
