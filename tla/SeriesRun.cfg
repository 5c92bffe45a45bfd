SPECIFICATION Spec
CONSTANTS
  NSeries = 2
  N = 2
  MayRefuse = TRUE
INVARIANT OwnAnswer
INVARIANT NothingSilent
PROPERTY ImplementsSampling
CHECK_DEADLOCK FALSE
