SPECIFICATION Spec
CONSTANTS
  Sizes <- MCSizes
  Groups = 1
  Controls = 1
  Parity = 1
  Bound = 2
  Grain = 2
  Budget = 1
  MaxSend = 1
  MaxFaults = 1
  PerKey = 1
  ProbeTime = 1
  Thresholds = {0, 1, 2}
INVARIANT OwnAck
INVARIANT CrashSafe
INVARIANT BailIsExplained
INVARIANT HonestReads
INVARIANT SectionsAgree
INVARIANT RecoveryIsOwn
CHECK_DEADLOCK FALSE
