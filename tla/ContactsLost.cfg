CONSTANTS
  t1 = t1
  t2 = t2
  u1 = u1
  u2 = u2
  Threads = {t1, t2}
  Rows <- BothWays
  MayRefuse = FALSE
SPECIFICATION Spec
PROPERTY RequestSurvives
