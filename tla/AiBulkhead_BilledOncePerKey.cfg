\* What the documentation says and the code does not do.
SPECIFICATION Spec
CONSTANTS
  a1 = a1  a2 = a2  a3 = a3  c1 = c1  k1 = k1
  Keys = {k1}  NoKey = NoKey  NoAnswer = NoAnswer
  Requests = {a1, a2, a3, c1}
  KindOf <- KindSame
  KeyOf <- KeySame
  Asked <- AskedSame
  BulkheadLimit = 2
  DefaultAttempts = 2
  TTL = 1
  MaxRestarts = 0
INVARIANT
  BilledOncePerKey
