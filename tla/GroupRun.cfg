SPECIFICATION GFairSpec
CONSTANTS
  N = 3
  K = 2
  Offer = 1
  AckBound = 1
  TTL = 2
  Attempt = 1
  Deadline = 4
  Quarter = 1
  MaxFaults = 1
INVARIANT HonestHits
INVARIANT ConcLosesNone
PROPERTY EndsOrStalls
CHECK_DEADLOCK FALSE
