CONSTANTS
  ann = ann
  bob = bob
  chess = chess
  poker = poker
  Users = {ann, bob}
  Names = {chess, poker}
  Nobody = Nobody
  Empty = Empty
  MaxPresses = 3
  MaxLogins = 3
SPECIFICATION Spec
CHECK_DEADLOCK FALSE
SYMMETRY Symmetry
INVARIANTS
  TypeOK
  ListedIsOwn
  InviterIsMember
  FoundedIsListed
  MembersAreFounders
