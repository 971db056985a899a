SPECIFICATION NightSpec
CONSTANTS
  Records <- MCRecords
  Keys = {1, 2}
  CreatedAt <- MCCreatedAt
  NoTime = NoTime
  EndOfTime = 20
  FirstLoad = 6
  Orders <- MCOrders
  NoVersion = NoVersion
  MaxLoads = 1
  MaxLosses = 0
CHECK_DEADLOCK FALSE
INVARIANT
  SuccessMeansLoaded
