SPECIFICATION Spec
CONSTANTS
  Articles <- MCArticles
  MaxBuilds = 2
  MaxFailures = 1
INVARIANTS TypeOK SuccessMeansComplete ChunksWhole
CHECK_DEADLOCK FALSE
