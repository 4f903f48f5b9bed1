SPECIFICATION Spec
CONSTANTS
  Files = {"a", "b", "c"}
  MaxRoots = 2
  MayCrash = TRUE
INVARIANTS
  SchedulingSound
PROPERTIES
  LoadEnds
  LoadsClosure
CHECK_DEADLOCK FALSE
