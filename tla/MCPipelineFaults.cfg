SPECIFICATION Spec
CONSTANTS
  a = a
  b = b
  c = c
  z = z
  w1 = w1
  w2 = w2
  Tasks = {a, b}
  Workers = {w1, w2}
  Parents = {}
  Later = {}
  Graphs <- PairGraphs
  Schedules <- PairSchedules
  Times <- PairTimes
  Moves <- PairMoves
  Links <- NoLinks
  Faults <- FaultKinds
  MaxMoves = 2
  MaxEdits = 0
  MaxFaults = 2
  MaxUpsets = 2
INVARIANTS
  TypeOK
  NothingSkipped
PROPERTY
  ImplementsLedger
