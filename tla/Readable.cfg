SPECIFICATION FairSpec
CONSTANTS
  highWaterMark = 2
  lowWaterMark = 1
  Amounts <- MCAmounts
  MaxBytes = 6
  MaxFrames = 4
  ReadInError = FALSE
INVARIANTS
  BytesSound
PROPERTIES
  EndComes
CHECK_DEADLOCK FALSE
