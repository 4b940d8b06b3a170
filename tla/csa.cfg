SPECIFICATION TSpec
CONSTANTS
  Stops <- MCStops
  Trips <- MCTrips
  Buffer = 1
  Timetables <- MCTimetables
  DepartTimes <- MCDepartTimes
  NoConn = NoConn
INVARIANTS
  TypeOK
  JourneyConnects
  LegsRidable
  WalkResolves
  VehiclesCounted
  EarliestArrival
PROPERTIES
  BoardingStopsFinal
  Returns
CHECK_DEADLOCK FALSE
