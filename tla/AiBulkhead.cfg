\* Two analyses with one key and a Customer 360 queue for one permit, which they give back; a worker restart.
SPECIFICATION FairSpec
CONSTANTS
  a1 = a1  a2 = a2  a3 = a3  c1 = c1  k1 = k1
  Keys = {k1}  NoKey = NoKey  NoAnswer = NoAnswer
  Requests = {a1, a2, c1}
  KindOf <- KindMixed
  KeyOf <- KeyMixed
  Asked <- AskedMixed
  BulkheadLimit = 1
  DefaultAttempts = 2
  TTL = 0
  MaxRestarts = 1
INVARIANTS
  TypeOK
  PermitsConserved
  SettledNotSent
  GenerationsBounded
PROPERTIES
  ReplayIsFresh
  RequestsEnd
