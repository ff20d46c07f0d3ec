SPECIFICATION Spec
CONSTANTS
  a = a
  b = b
  c = c
  z = z
  r1 = r1
  r2 = r2
  Tasks = {a, b, c, z}
  Requests = {r1, r2}
  Parents <- MCParents
  Later = {z}
  Links <- MCLinks
  Graphs <- MCGraphs
  Schedules <- MCSchedules
  Times <- MCTimes
  Moves <- MCMoves
  Key <- MCKey
  MaxMoves = 2
  MaxEdits = 0
  MaxCalls = 2
PROPERTIES
  EveryRequestAnswered
