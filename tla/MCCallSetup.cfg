SPECIFICATION Spec
CONSTANTS
  u1 = u1
  u2 = u2
  Users <- MCUsers
  RoundingIncrement = 3
  Word = 64
  Lag = 1
  FirstRound = 4
  MaxRound = 8
  MaxCalls = 1
  MaxOutages = 2
SYMMETRY MCSymmetry
INVARIANTS TypeOK TimelyCallsAgree
CHECK_DEADLOCK FALSE
