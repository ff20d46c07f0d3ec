SPECIFICATION LiveSpec
CONSTANTS
  c1 = c1
  k1 = k1
  k2 = k2
  other = other
  Changes = {c1}
  Reschedules = {}
  Faults = {"drop", "restart"}
  MaxSockets = 1
  MaxVisits = 1
  MaxRestarts = 1
  Cascades = {k1}
  Elsewhere = {}
  MaxRecords = 2
  MaxStops = 1
  MaxTroubles = 1
INVARIANTS
  LiveTypeOK
  ToldIsShown
  MissesNoRequest
PROPERTIES
  StreamKept
  ReachesTheViewer
