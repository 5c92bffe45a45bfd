SPECIFICATION Spec
CONSTANTS
  Cells = 2
  Want = 2
INVARIANT OneNode
INVARIANT LossAccounted
INVARIANT LossIsReal
CHECK_DEADLOCK FALSE
