CONSTANTS
  c1 = c1  c2 = c2
  Calls = {c1, c2}
  Asks <- AmountAsks
  Attempts = 3
  MaxRestarts = 1
SPECIFICATION Spec
INVARIANT ValuesSurvive
CHECK_DEADLOCK FALSE
