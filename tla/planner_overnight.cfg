SPECIFICATION Spec
CONSTANTS
  Databases <- MCDatabases
  DayLength = 6
  Moments <- MCMoments
  StopIds <- MCStops
  Buffer = 1
  NoConn = NoConn
INVARIANT LegsRideOneBus
CHECK_DEADLOCK FALSE
