CONSTANTS
  c1 = c1
  c2 = c2
  u1 = u1
  Conns = {c1, c2}
  Users = {u1}
  None = None
  MaxNotes = 1
SPECIFICATION FairSpec
CHECK_DEADLOCK FALSE
PROPERTIES
  SoleSessionNotified
  HandlerFreed
