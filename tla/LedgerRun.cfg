SPECIFICATION FairSpec
CONSTANTS
  Keys = {k1, k2, k3}
  MaxReq = 3
  Callers <- Every
INVARIANT UnansweredReported
INVARIANT OkMeansAnswered
INVARIANT CountExact
INVARIANT KeyedExact
PROPERTY NoneLeftOutstanding
CHECK_DEADLOCK FALSE
