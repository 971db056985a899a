CONSTANTS
  c1 = c1  c2 = c2
  Calls = {c1, c2}
  Asks <- MCAsks
  Attempts = 3
  MaxRestarts = 1
SPECIFICATION Spec
INVARIANTS
  TypeOK
  AckedIsStored
  HeldHandlesFinished
CHECK_DEADLOCK FALSE
