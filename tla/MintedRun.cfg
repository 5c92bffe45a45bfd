SPECIFICATION FairSpec
CONSTANTS
  N = 4
  T = 2
  Until = 1
  Settle = 2
  Budget = 5
  Lag = 2
  Lags = {0, 2}
  ProbeTime = 1
  MayRefuse = TRUE
INVARIANT ConditionedIsTrue
INVARIANT HedgesKeepTime
PROPERTY Terminates
CHECK_DEADLOCK FALSE
