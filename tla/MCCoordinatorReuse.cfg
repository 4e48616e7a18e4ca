SPECIFICATION Spec
CONSTANTS
  c1 = c1
  c2 = c2
  Conns = {}
  NumInFlight = 2
  RoundSkip = 6
  PersistEvery = 2
  PersistDelay = 2
  NumOutgoing <- MCOutgoing
  MaxRound = 10
  MaxCrashes = 1
  MayClose = FALSE
INVARIANT RoundsUnique
CHECK_DEADLOCK FALSE
