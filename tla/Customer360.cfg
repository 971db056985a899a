CONSTANTS
  r1 = r1
  Requests <- MCRequests
  Asks <- MCAsks
  Attempts = 2
  Timeout = 1
SPECIFICATION Spec
INVARIANTS
  TypeOK
  AnswerHonest
PROPERTIES
  HardReadDecides
  RequestsEnd
