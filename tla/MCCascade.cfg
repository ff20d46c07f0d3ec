SPECIFICATION Spec
CONSTANTS
  r = r
  a = a
  b = b
  c = c
  Tasks = {r, a, b, c}
  Graphs <- MCGraphs
  Schedules <- MCSchedules
INVARIANTS
  TypeOK
  LoopInvariant
  SettledStayTight
  ChangesExact
PROPERTY
  ImplementsContract
