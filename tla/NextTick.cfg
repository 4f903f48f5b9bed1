SPECIFICATION FairSpec
CONSTANTS
  maxTickDepth = 2
  MaxTocks = 4
  MaxFrames = 3
  Reentrant = TRUE
INVARIANTS
  OneTicker
  TickOrder
  SpinnerArmed
  DepthBounded
PROPERTIES
  EveryTockTaken
CHECK_DEADLOCK FALSE
