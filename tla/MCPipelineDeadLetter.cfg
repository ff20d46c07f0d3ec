SPECIFICATION Spec
CONSTANTS
  a = a
  b = b
  c = c
  z = z
  w1 = w1
  w2 = w2
  Tasks = {a, b}
  Workers = {w1, w2}
  Parents = {}
  Later = {}
  Graphs <- PairGraphs
  Schedules <- PairSchedules
  Times <- PairTimes
  Moves <- PairMoves
  Links <- NoLinks
  Faults <- DatabaseOnly
  MaxMoves = 1
  MaxEdits = 0
  MaxFaults = 1
  MaxUpsets = 1
INVARIANT
  OnlyPoisonDeadLettered
