CONSTANTS
  ann = ann
  bob = bob
  cyd = cyd
  Users = {ann, bob, cyd}
  Nobody = Nobody
  MaxMessages = 2
  MaxOpens = 3
SPECIFICATION Spec
CHECK_DEADLOCK FALSE
SYMMETRY Symmetry
INVARIANTS
  TypeOK
  NothingMissing
  ShownIsStored
  OwnInOrder
  AtMostTwice
