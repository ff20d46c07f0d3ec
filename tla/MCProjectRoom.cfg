SPECIFICATION Spec
CONSTANTS
  c1 = c1
  c2 = c2
  m = m
  Changes = {c1, m}
  Reschedules = {m}
  Faults = {"drop", "rollback", "restart"}
  MaxSockets = 2
  MaxVisits = 2
  MaxRestarts = 1
INVARIANTS
  TypeOK
  NonePassedOver
  MissesOnlyRaces
PROPERTIES
  CatchesUp
