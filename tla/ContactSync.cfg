CONSTANTS
  ann = ann
  bob = bob
  Users = {ann, bob}
  MaxPresses = 4
SPECIFICATION Spec
CHECK_DEADLOCK FALSE
SYMMETRY Symmetry
INVARIANTS
  TypeOK
  RequestsShown
  SentIsPending
  FriendsAgree
  FriendsConsented
