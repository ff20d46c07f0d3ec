SPECIFICATION LiveSpec
CONSTANTS
  c1 = c1
  k1 = k1
  k2 = k2
  other = other
  Changes = {c1}
  Reschedules = {}
  Faults = {}
  MaxSockets = 1
  MaxVisits = 1
  MaxRestarts = 1
  Cascades = {k1}
  Elsewhere = {other}
  MaxRecords = 2
  MaxStops = 0
  MaxTroubles = 0
PROPERTIES
  IgnoresOnlyOldNews
