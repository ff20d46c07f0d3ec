SPECIFICATION Spec
CONSTANTS
  r1 = r1
  r2 = r2
  Runners = {r1, r2}
  MaxCommands = 5
INVARIANTS
  TypeOK
  SchemaMatchesRevision
  HeadIsModels
PROPERTIES
  RefusedOnlyIfOvertaken
  EveryCommandEnds
