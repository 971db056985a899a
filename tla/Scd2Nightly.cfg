SPECIFICATION NightSpec
CONSTANTS
  Records <- MCRecords
  Keys = {1, 2}
  CreatedAt <- MCCreatedAt
  NoTime = NoTime
  EndOfTime = 20
  FirstLoad = 6
  Orders <- MCOrders
  NoVersion = NoVersion
  MaxLoads = 3
  MaxLosses = 1
CHECK_DEADLOCK FALSE
INVARIANTS
  NightTypeOK
  OneCurrentVersion
  VersionsChain
  LoadedIsCurrent
  NoSpuriousVersions
  NobodyLosesCurrent
PROPERTY
  HistoryImmutable
