SPECIFICATION Spec
CONSTANTS
  Key = {ka, kb, kc, kd, ke}
  Burst = 2
  Bound = 1
  Limit = 16
INVARIANT LookedEachCycle
SYMMETRY Interchangeable
CHECK_DEADLOCK FALSE
