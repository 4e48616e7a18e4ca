SPECIFICATION Spec
CONSTANTS
  c1 = c1
  c2 = c2
  Conns = {}
  NumInFlight = 1
  RoundSkip = 6
  PersistEvery = 2
  PersistDelay = 2
  NumOutgoing <- MCOutgoing
  MaxRound = 17
  MaxCrashes = 2
  MayClose = FALSE
INVARIANT UniqueWhenSaved
CHECK_DEADLOCK FALSE
