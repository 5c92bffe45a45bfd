SPECIFICATION HSpec
CONSTANTS
  Ts = {1, 2}
  MaxRounds = 2
  Target = 1
  Deadline = 6
  Probe = 2
  Lag = 1
  MaxErr = 1
INVARIANT PopulationsMatch
INVARIANT StopsForItsReason
CHECK_DEADLOCK FALSE
