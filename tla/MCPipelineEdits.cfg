SPECIFICATION Spec
CONSTANTS
  a = a
  b = b
  c = c
  z = z
  w1 = w1
  w2 = w2
  Tasks = {a, b, c, z}
  Workers = {w1, w2}
  Parents <- MCParents
  Later = {z}
  Graphs <- MCGraphs
  Schedules <- MCSchedules
  Times <- MCTimes
  Moves <- MCMoves
  Links <- MCLinks
  Faults <- MovedOnly
  MaxMoves = 2
  MaxEdits = 2
  MaxFaults = 1
  MaxUpsets = 2
SYMMETRY MCSymmetry
INVARIANTS
  Converges
PROPERTIES
  HumanEditsSurvive
