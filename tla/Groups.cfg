CONSTANTS
  ann = ann
  bob = bob
  cyd = cyd
  chess = chess
  Users = {ann, bob, cyd}
  Names = {chess}
  Nobody = Nobody
SPECIFICATION Spec
SYMMETRY Symmetry
INVARIANTS
  TypeOK
  AnswerIsTrue
PROPERTY PromiseKept
