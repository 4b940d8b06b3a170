SPECIFICATION Spec
CONSTANTS
  DayLength = 6
  MaxVehicles = 2
  Start = 5
  Finish = 18
  NoAnswer = NoAnswer
  Databases <- MCDatabases
  Windows <- MCWindows
INVARIANT TypeOK
INVARIANT EveryBusShown
INVARIANT TicksFailForLongTrips
INVARIANT BoardComplete
INVARIANT PlannerSeesBoard
INVARIANT ListedTripsRun
PROPERTY BusesMoveOn
CHECK_DEADLOCK FALSE
