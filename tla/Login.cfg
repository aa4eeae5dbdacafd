CONSTANTS
  t1 = t1
  t2 = t2
  n1 = n1
  n2 = n2
  p1 = p1
  p2 = p2
  NoPassword = NoPassword
  NoName = NoName
  Threads = {t1, t2}
  Names = {n1, n2}
  Passwords = {p1, p2}
  MayRefuse = TRUE
  Transactions = TRUE
  MaxPresses = 2
SPECIFICATION FairSpec
INVARIANTS
  LoginTypeOK
  IdentityAgrees
  OneMainWindow
PROPERTIES
  PasswordKept
  PromiseKept
  Answered
