SPECIFICATION Spec
CONSTANTS
  Vehicles <- MCVehicles
  Api = "api"
  Scripts <- MCScripts
  DayLength = 2
  Retention = 3
  Future = 1
  MigratedRetention = 2
  MigratedFuture = 1
  Legacies <- MCLegacies
  Start = 7
  Finish = 11
  MaxIds = 2
  Never <- MCNever
INVARIANT TypeOK
INVARIANT TicksFindPartition
INVARIANT CurrentIsLatest
INVARIANT OldDaysDropped
INVARIANT MigrationsSucceed
PROPERTY HistoryRefined
CHECK_DEADLOCK FALSE
