CONSTANTS
  c1 = c1
  c2 = c2
  u1 = u1
  u2 = u2
  Conns = {c1, c2}
  Users = {u1, u2}
  None = None
  MaxNotes = 2
SPECIFICATION Spec
SYMMETRY Symmetry
CONSTRAINT FewLoginsForTwoNotes
CHECK_DEADLOCK FALSE
INVARIANTS
  TypeOK
  SoleSessionReachable
  NoGhost
  OwnerOnly
  NotesInOrder
