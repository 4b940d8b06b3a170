SPECIFICATION TSpec
CONSTANTS
  Stops <- MCStops
  Trips <- MCTrips
  Buffer = 1
  Timetables <- GapTimetables
  DepartTimes <- MCDepartTimes
  NoConn = NoConn
INVARIANT HopsCounted
CHECK_DEADLOCK FALSE
