SPECIFICATION TSpec
CONSTANTS
  Stops <- FewestStops
  Trips <- FewestTrips
  Buffer = 1
  Timetables <- FewestTimetables
  DepartTimes <- MCDepartTimes
  NoConn = NoConn
INVARIANT FewestVehicles
CHECK_DEADLOCK FALSE
