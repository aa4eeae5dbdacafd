CONSTANTS
  t1 = t1
  u1 = u1
  u2 = u2
  Threads = {t1}
  Rows <- BothWays
  MayRefuse = FALSE
SPECIFICATION Spec
INVARIANT AnswerIsDurable
PROPERTY PromiseKept
