CONSTANT MaxLines = 3
SPECIFICATION Spec
CHECK_DEADLOCK FALSE
INVARIANTS
  TypeOK
  LinesInOrder
  ClientGetsAll
  ServerResyncs
