---------------------------- MODULE PlannerDays ----------------------------
(***************************************************************************)
(* PlannerService.plan: the connections of yesterday's and of today's      *)
(* services, merged on today's clock (ServiceDays), scanned by csa.plan    *)
(* (Csa).  A trip that runs on both days brings its hops twice, under one  *)
(* trip id, which is more than TimetablesAssumption of Csa allows; its     *)
(* theorems do not apply here.                                             *)
(***************************************************************************)
EXTENDS Integers, Sequences

CONSTANTS
  Databases,  \* the timetables in the database, as in ServiceDays
  DayLength,  \* DAY_S
  Moments,    \* values of depart_at
  StopIds,    \* stop ids
  Buffer,     \* transfer_buffer_seconds
  NoConn      \* None in place of a connection

VARIABLES
  db,       \* the timetable
  asked,    \* depart_at, a moment
  timetable, origin, destination, departAt, pending, labels, boarded, pc, cursor, legs

vars == <<db, asked, timetable, origin, destination, departAt,
          pending, labels, boarded, pc, cursor, legs>>

\* The queries of ServiceDays on a database.
On(d) == INSTANCE ServiceDays WITH
  db <- d, now <- 0, vehicles <- {}, aborted <- FALSE, request <- 0, answer <- 0,
  MaxVehicles <- 0, Windows <- {}, Start <- 0, Finish <- 0, NoAnswer <- 0

Trips == UNION {DOMAIN d.service : d \in Databases}

Csa == INSTANCE Csa WITH
  Timetables <- SUBSET [dep : StopIds, arr : StopIds, depTime : Int, arrTime : Int,
                        trip : Trips, seq : Nat],
  Stops <- StopIds, DepartTimes <- 0..DayLength - 1

Init ==
  /\ db \in Databases /\ asked \in Moments
  /\ timetable = On(db)!Connections(asked)
  /\ departAt = On(db)!TimeOfDay(asked)
  /\ Csa!Init

Next == Csa!Next /\ UNCHANGED <<db, asked>>

Spec == Init /\ [][Next]_vars

-----------------------------------------------------------------------------
\* The hops, on the clock of the day of asking, of the buses of that day (0) or
\* of the day before (-1).
HopsOfDay(offset) ==
  On(db)!ConnectionsForServices(On(db)!ActiveServices(On(db)!Date(asked) + offset),
                                offset * DayLength)

\* A leg is "a stretch of consecutive connections ridden on one trip" (csa.py 41):
\* the bus that is boarded, of today or of last night, is the one that is left,
\* further on.
LegsRideOneBus ==
  \A i \in DOMAIN legs :
    \E offset \in {-1, 0} : \E first, last \in HopsOfDay(offset) :
      /\ first.trip = legs[i].trip /\ last.trip = legs[i].trip /\ first.seq <= last.seq
      /\ first.dep = legs[i].board /\ first.depTime = legs[i].boardTime
      /\ last.arr = legs[i].alight /\ last.arrTime = legs[i].alightTime
=============================================================================
