\* Safety, refinement and liveness: three requests with two attempts each share
\* one breaker.
SPECIFICATION FairSpec
CONSTANTS
  Requests = {r1, r2, r3}
  AttemptBudgets = {2}
  FailureThreshold = 2
  ResetSeconds = 2
INVARIANTS
  TypeOK
  StateAgreesWithCount
  StragglersBounded
  AttemptsAccounted
PROPERTIES
  OpenBreakerDrains
  RefinesGate
  RefinesFairGate
  RequestsEnd
