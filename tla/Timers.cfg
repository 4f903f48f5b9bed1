SPECIFICATION FairSpec
CONSTANTS
  s1 = s1
  s2 = s2
  t1 = t1
  t2 = t2
  v1 = v1
  Sockets = {s1, s2}
  Timeouts = {t1, t2}
  Intervals = {v1}
  Programs <- SmallPrograms
  Delays = {0, 2, 3}
  SocketDelays = {3}
  TIMEOUT_MAX = 10
  ListIds = {1, 2, 3}
  MaxTime = 5
  Skew = 1
INVARIANTS
  ListsKept
  FiresOnce
PROPERTIES
  FiresRightly
  EveryItemExpires
CHECK_DEADLOCK FALSE
