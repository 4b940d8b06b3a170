SPECIFICATION TSpec
CONSTANTS
  Stops <- MCStops
  Trips <- MCTrips
  Buffer = 1
  Timetables <- TieTimetables
  DepartTimes <- MCDepartTimes
  NoConn = NoConn
INVARIANT EarliestArrival
CHECK_DEADLOCK FALSE
