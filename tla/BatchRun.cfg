SPECIFICATION PSpec
CONSTANTS
  Sizes <- TwoBatches
  Left = 2
  MayRefuse = TRUE
  MaxRepeat = 1
INVARIANT CurveIsOwn
INVARIANT TrialIsOwn
CHECK_DEADLOCK FALSE
