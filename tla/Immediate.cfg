SPECIFICATION FairSpec
CONSTANTS
  MaxImmediates = 4
INVARIANTS
  ImmediatesSound
PROPERTIES
  EveryImmediateRuns
CHECK_DEADLOCK FALSE
