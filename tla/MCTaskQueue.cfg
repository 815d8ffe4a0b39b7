SPECIFICATION FairSpec
CONSTANTS
  a = a
  b = b
  c = c
  NoTask = NoTask
  Tasks <- MCTasks
  Immediate <- MCImmediate
  MaxWanted = 2
  MaxEvents = 1
PROPERTIES
  ImplementsFifo
  QueueMoves
CHECK_DEADLOCK FALSE
