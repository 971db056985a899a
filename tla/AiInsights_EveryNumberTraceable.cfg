CONSTANTS
  r1 = r1  r2 = r2
  Requests = {r1, r2}
  Wants <- MCWants
  FactsAt <- MCFacts
  Providers = {"local", "openai"}
  Ttl = 1
  ReviewThreshold = 6000
  MaxClock = 1
  MaxFaults = 1
SPECIFICATION Spec
INVARIANT EveryNumberTraceable
CHECK_DEADLOCK FALSE
