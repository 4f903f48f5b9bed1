SPECIFICATION FairSpec
CONSTANTS
  highWaterMark = 2
  lowWaterMark = 1
  Sizes = {1, 2}
  MaxChunks = 3
  Callbacks = {TRUE, FALSE}
  MayFail = TRUE
  Reentrant = FALSE
INVARIANTS
  WrittenInOrder
  Accounted
PROPERTIES
  FinishComes
CHECK_DEADLOCK FALSE
