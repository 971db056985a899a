SPECIFICATION Spec
CONSTANTS
  n1 = n1
  n2 = n2
  n3 = n3
  q1 = q1
  Requests = {n1, n2, n3, q1}
  Clients = {"noisy", "quiet"}
  ClientOf <- MCClientOf
  Peer = "peer"
  Limit = 2
  Window = 1
  Second = 3
  Horizon = 6
SYMMETRY Interchangeable
CHECK_DEADLOCK FALSE
INVARIANTS
  TypeOK
  SlidingWindow
  RetryAfterRight
PROPERTIES
  RemainingNotOverstated
