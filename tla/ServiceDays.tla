---------------------------- MODULE ServiceDays ----------------------------
(***************************************************************************)
(* Service days.  A trip runs on every date its service is active, its     *)
(* times count from that date's midnight, and may exceed a day: at any     *)
(* moment buses of two service days are on the road.  The simulation's     *)
(* tick, the departure board, the trips of a date and the planner's list   *)
(* of connections each work out for themselves which ones.                 *)
(*                                                                         *)
(* A moment is a number of seconds since midnight of date 0; a second may  *)
(* be as coarse as the timetable.  The database does not change; what      *)
(* sessions see of an import is in FeedSessions.                           *)
(***************************************************************************)
EXTENDS Integers, Sequences, FiniteSetsExt, Sorting

CONSTANTS
  Databases,    \* the timetables
  DayLength,    \* DAY_S
  MaxVehicles,  \* the most vehicles a tick simulates
  Windows,      \* values of window_min, in seconds
  Start,        \* bound: the moments of the ticks
  Finish,
  NoAnswer      \* nothing has been asked since the last tick

\* The endpoint admits windows of a day at most (stops.py 69).
ASSUME DaysAssumption ==
  /\ DayLength \in Nat \ {0} /\ MaxVehicles \in Nat /\ Windows \subseteq 0..DayLength
  /\ Start \in Int /\ Finish \in Int /\ Start <= Finish

\* A timetable: calendar is a function of services, exceptions one of services
\* and dates, service and events are functions of the trips.  The events of a
\* trip are in the order of their stop_sequence, which counts from one.  Feeds are
\* validated (gtfs_validation.py 374, 398, 408): a trip has two events at least,
\* and time does not go back from one to the next.
ASSUME DatabasesAssumption ==
  \A d \in Databases :
    /\ DOMAIN d.events = DOMAIN d.service
    /\ DOMAIN d.service \subseteq Int /\ IsFiniteSet(DOMAIN d.service)
    /\ \A t \in DOMAIN d.service :
         LET e == d.events[t]
         IN  /\ Len(e) \in Nat /\ Len(e) >= 2 /\ DOMAIN e = 1..Len(e)
             /\ \A n \in 1..Len(e) :
                  /\ e[n].arrival_time \in Nat /\ e[n].departure_time \in Nat
                  /\ e[n].arrival_time <= e[n].departure_time
             /\ \A m, n \in 1..Len(e) : m < n => e[m].departure_time <= e[n].arrival_time
    /\ \A s \in DOMAIN d.calendar :
         d.calendar[s].start_date \in Int /\ d.calendar[s].end_date \in Int
    /\ \A x \in DOMAIN d.exceptions : d.exceptions[x] \in {1, 2}

VARIABLES
  db,         \* the timetable
  now,        \* the clock
  vehicles,   \* the vehicles the last tick has stored
  aborted,    \* a tick has failed; the loop's session is never rolled back
  request,    \* the last request, and its answer
  answer

vars == <<db, now, vehicles, aborted, request, answer>>

Trips == DOMAIN db.service

Services == {db.service[t] : t \in Trips}

Date(moment) == moment \div DayLength

TimeOfDay(moment) == moment % DayLength

\* 0 is Sunday.
Weekday(date) == date % 7

-----------------------------------------------------------------------------
(* Repositories *)

\* Faulty: exceptions only add.
FaultyActiveServices(date) ==
  {s \in Services :
     \/ <<s, date>> \in DOMAIN db.exceptions /\ db.exceptions[<<s, date>>] = 1
     \/ /\ s \in DOMAIN db.calendar
        /\ date \in db.calendar[s].start_date..db.calendar[s].end_date
        /\ Weekday(date) \in db.calendar[s].days}

ActiveServices(date) ==
  {s \in Services :
     IF <<s, date>> \in DOMAIN db.exceptions
       THEN db.exceptions[<<s, date>>] = 1
       ELSE /\ s \in DOMAIN db.calendar
            /\ date \in db.calendar[s].start_date..db.calendar[s].end_date
            /\ Weekday(date) \in db.calendar[s].days}

TripsOf(services) == {t \in Trips : db.service[t] \in services}

\* Each event of a trip but the last with the one that follows.
Hops(services) ==
  UNION {{[trip_id |-> t, n |-> n, dep |-> db.events[t][n], arr |-> db.events[t][n + 1]] :
            n \in 1..Len(db.events[t]) - 1} : t \in TripsOf(services)}

\* The hops under way at a clock time of their service day.
UnderWay(services, clock) ==
  {h \in Hops(services) : h.dep.departure_time <= clock /\ clock < h.arr.arrival_time}

ByTrip(hops) == {p \in hops \X hops : p[1].trip_id < p[2].trip_id}

\* One hop per trip at most; of too many, those of the first trips.
ActiveSegments(services, clock, limit) ==
  LET hops == UnderWay(services, clock)
  IN  Limited(hops, ByTrip(hops), limit)

\* The trip's last stop is no departure.
DepartsWithin(t, n, stop, from, to) ==
  /\ n < Len(db.events[t])
  /\ db.events[t][n].stop = stop
  /\ from <= db.events[t][n].departure_time /\ db.events[t][n].departure_time <= to

ScheduledDepartures(stop, services, from, to) ==
  UNION {{[trip_id |-> t, n |-> n] :
            n \in {k \in DOMAIN db.events[t] : DepartsWithin(t, k, stop, from, to)}} :
           t \in TripsOf(services)}

ConnectionsForServices(services, offset) ==
  {[dep |-> h.dep.stop, arr |-> h.arr.stop,
    depTime |-> h.dep.departure_time + offset, arrTime |-> h.arr.arrival_time + offset,
    trip |-> h.trip_id, seq |-> h.n] : h \in Hops(services)}

-----------------------------------------------------------------------------
(* The tick *)

\* Faulty: yesterday's segments are found on yesterday's clock and placed on today's.
FaultyPositioned(segment, clock, today) ==
  [trip_id |-> segment.trip_id, n |-> segment.n,
   gone    |-> TimeOfDay(clock) - segment.dep.departure_time,
   span    |-> segment.arr.arrival_time - segment.dep.departure_time,
   day     |-> today - clock \div DayLength]

\* A vehicle's place: how much of the span of its n-th hop is gone.  Its id is
\* that of the trip; of which day it is, is not part of the row.
Positioned(segment, clock, today) ==
  [trip_id |-> segment.trip_id, n |-> segment.n,
   gone    |-> clock - segment.dep.departure_time,
   span    |-> segment.arr.arrival_time - segment.dep.departure_time,
   day     |-> today - clock \div DayLength]

\* Faulty: yesterday's services are looked up at today's clock time.
FaultySegments(moment) ==
  LET clock     == TimeOfDay(moment)
      today     == ActiveSegments(ActiveServices(Date(moment)), clock, MaxVehicles)
      yesterday == ActiveSegments(ActiveServices(Date(moment) - 1), clock,
                                  MaxVehicles - Cardinality(today))
  IN  {Positioned(h, clock, Date(moment)) : h \in today}
        \cup {Positioned(h, clock + DayLength, Date(moment)) : h \in yesterday}

\* Today's vehicles and, as far as the limit allows, yesterday's.
Segments(moment) ==
  LET clock     == TimeOfDay(moment)
      today     == ActiveSegments(ActiveServices(Date(moment)), clock, MaxVehicles)
      yesterday == ActiveSegments(ActiveServices(Date(moment) - 1), clock + DayLength,
                                  MaxVehicles - Cardinality(today))
  IN  {Positioned(h, clock, Date(moment)) : h \in today}
        \cup {Positioned(h, clock + DayLength, Date(moment)) : h \in yesterday}

\* One statement cannot upsert a vehicle twice.
Upsertable(rows) == \A r, q \in rows : r.trip_id = q.trip_id => r = q

\* A second later the loop ticks again.
Tick ==
  /\ now < Finish /\ now' = now + 1
  /\ LET rows == Segments(now')
     IN  IF ~aborted /\ Upsertable(rows)
           THEN vehicles' = rows /\ aborted' = FALSE
           ELSE aborted' = TRUE /\ UNCHANGED vehicles
  /\ request' = NoAnswer /\ answer' = NoAnswer
  /\ UNCHANGED db

-----------------------------------------------------------------------------
(* Requests *)

\* Faulty: a window that just reaches the next midnight is not shifted there.
FaultyOfDay(stop, at, window, offset) ==
  LET from == TimeOfDay(at) - offset * DayLength
      to   == from + window
  IN  IF to <= 0 THEN {}
      ELSE ScheduledDepartures(stop, ActiveServices(Date(at) + offset),
                               Max({from, 0}), to)

\* The departures of one service day, with the window on that day's clock.
OfDay(stop, at, window, offset) ==
  LET from == TimeOfDay(at) - offset * DayLength
      to   == from + window
  IN  IF to < 0 THEN {}
      ELSE ScheduledDepartures(stop, ActiveServices(Date(at) + offset),
                               Max({from, 0}), to)

\* The moment of departure, then the order of the queries; rows of one query
\* that leave at once may come in any order, here by trip and place.
ByDeparture(rows) ==
  {p \in rows \X rows :
     \/ p[1].departure_at < p[2].departure_at
     \/ /\ p[1].departure_at = p[2].departure_at
        /\ \/ p[1].offset < p[2].offset
           \/ p[1].offset = p[2].offset /\ p[1].trip_id < p[2].trip_id
           \/ p[1].offset = p[2].offset /\ p[1].trip_id = p[2].trip_id /\ p[1].n < p[2].n}

\* The rows of three service days.
Departures(stop, at, window) ==
  UNION {{[trip_id |-> row.trip_id, n |-> row.n, offset |-> offset,
           departure_at |-> (Date(at) + offset) * DayLength
                              + db.events[row.trip_id][row.n].departure_time] :
            row \in OfDay(stop, at, window, offset)} : offset \in {-1, 0, 1}}

\* Sorted by the moment of departure.
Board(stop, at, window) ==
  LET rows == Departures(stop, at, window)
      list == Sorted(rows, ByDeparture(rows))
  IN  [i \in 1..Cardinality(rows) |->
         [trip_id |-> list[i].trip_id, stop_sequence |-> list[i].n,
          departure_at |-> list[i].departure_at]]

\* Faulty: a trip is taken to end with its last departure.
FaultyLastArrival(t) == db.events[t][Len(db.events[t]) - 1].departure_time

LastArrival(t) == Max({db.events[t][n].arrival_time : n \in DOMAIN db.events[t]})

FirstDeparture(t) == Min({db.events[t][n].departure_time : n \in DOMAIN db.events[t]})

\* Trips that start at once may come in any order, here by id.
ByStart(rows) ==
  {p \in rows \X rows : \/ p[1].starts_at < p[2].starts_at
                        \/ p[1].starts_at = p[2].starts_at /\ p[1].id < p[2].id}

TripsOn(date) ==
  {[id |-> t, starts_at |-> FirstDeparture(t), ends_at |-> LastArrival(t)] :
     t \in TripsOf(ActiveServices(date))}

\* The trips of a date, the first to leave first.
Listed(date) == Sorted(TripsOn(date), ByStart(TripsOn(date)))

\* Faulty: yesterday's connections keep yesterday's clock.
FaultyConnections(departAt) ==
  ConnectionsForServices(ActiveServices(Date(departAt) - 1), 0)
    \cup ConnectionsForServices(ActiveServices(Date(departAt)), 0)

\* What plan scans, on the clock of the day of departure; yesterday's hops are
\* moved back by a day.  Csa takes them in the order of departure.
Connections(departAt) ==
  ConnectionsForServices(ActiveServices(Date(departAt) - 1), - DayLength)
    \cup ConnectionsForServices(ActiveServices(Date(departAt)), 0)

Stops == UNION {{db.events[t][n].stop : n \in DOMAIN db.events[t]} : t \in Trips}

AskDepartures ==
  \E stop \in Stops, window \in Windows :
    /\ request' = [kind |-> "departures", stop |-> stop, window |-> window]
    /\ answer' = Board(stop, now, window)
    /\ UNCHANGED <<db, now, vehicles, aborted>>

AskTrips ==
  \E date \in Date(now) - 1..Date(now) + 1 :
    /\ request' = [kind |-> "trips", date |-> date]
    /\ answer' = Listed(date)
    /\ UNCHANGED <<db, now, vehicles, aborted>>

AskPlan ==
  /\ request' = [kind |-> "plan"]
  /\ answer' = Connections(now)
  /\ UNCHANGED <<db, now, vehicles, aborted>>

Init ==
  /\ db \in Databases /\ now = Start
  /\ vehicles = {} /\ aborted = FALSE
  /\ request = NoAnswer /\ answer = NoAnswer

Next == Tick \/ AskDepartures \/ AskTrips \/ AskPlan

Spec == Init /\ [][Next]_vars

-----------------------------------------------------------------------------
(* Runs, of which the program has no notion of its own: a trip on a date *)

Removed(service, date) ==
  <<service, date>> \in DOMAIN db.exceptions /\ db.exceptions[<<service, date>>] = 2

Added(service, date) ==
  <<service, date>> \in DOMAIN db.exceptions /\ db.exceptions[<<service, date>>] = 1

Regular(service, date) ==
  /\ service \in DOMAIN db.calendar
  /\ db.calendar[service].start_date <= date /\ date <= db.calendar[service].end_date
  /\ Weekday(date) \in db.calendar[service].days

\* The runs of the dates whose buses may be about, none older than a day.
RunsAbout(moment) ==
  {r \in [trip : Trips, date : Date(moment) - 1..Date(moment) + 2] :
     LET service == db.service[r.trip]
     IN  ~Removed(service, r.date) /\ (Added(service, r.date) \/ Regular(service, r.date))}

LeavesAt(run, n) == run.date * DayLength + db.events[run.trip][n].departure_time

ArrivesAt(run, n) == run.date * DayLength + db.events[run.trip][n].arrival_time

InMotion(run, moment) ==
  \E n \in 1..Len(db.events[run.trip]) - 1 :
    LeavesAt(run, n) <= moment /\ moment < ArrivesAt(run, n + 1)

Moving(moment) == {r \in RunsAbout(moment) : InMotion(r, moment)}

-----------------------------------------------------------------------------
(* Properties *)

Entries(list) == {list[i] : i \in DOMAIN list}

\* The clock, the vehicles of one tick and the kinds of answers keep their types.
TypeOK ==
  /\ db \in Databases /\ now \in Start..Finish /\ aborted \in BOOLEAN
  /\ Cardinality(vehicles) <= MaxVehicles
  /\ \A v \in vehicles : v.trip_id \in Trips /\ v.n \in Nat \ {0} /\ v.gone \in 0..v.span
  /\ request # NoAnswer /\ request.kind = "plan" =>
       \A c \in answer : c.depTime <= c.arrTime

\* A tick stores the buses that are between two stops at that moment, those of
\* last night included, each where its own day's clock puts it; beyond the limit
\* it leaves out night buses before any of today's (realtime_service.py 66-74).
EveryBusShown ==
  now > Start /\ ~aborted =>
    LET moving == Moving(now)
        shown  == {[trip |-> v.trip_id, date |-> v.day] : v \in vehicles}
    IN  /\ shown \subseteq moving
        /\ Cardinality(vehicles) = Min({Cardinality(moving), MaxVehicles})
        /\ \A left \in moving \ shown, run \in shown : left.date <= run.date

\* A tick fails, and the simulation with it, only if some trip takes a day or
\* more, so that two of its buses are on the road at once: nothing else gives two
\* rows to a vehicle (vehicle_position_repository.py 78-92).
TicksFailForLongTrips ==
  aborted =>
    \E moment \in Start..now : \E a, b \in Moving(moment) : a.trip = b.trip /\ a # b

\* From tick to tick a bus gets on along its trip, also where the service day it
\* is found under turns from today into yesterday (realtime_service.py 69-83).
BusesMoveOn ==
  [][now' # now /\ ~aborted' =>
       \A v \in vehicles, w \in vehicles' :
         v.trip_id = w.trip_id /\ v.day = w.day =>
           /\ v.n < w.n \/ (v.n = w.n /\ v.gone < w.gone)
           /\ 0 <= w.gone /\ w.gone < w.span]_vars

\* The board lists each bus that leaves the stop within the window once, sorted,
\* whichever of the three service days it belongs to (stop_service.py 51-57).
BoardComplete ==
  request # NoAnswer /\ request.kind = "departures" =>
    LET due == UNION {{[run |-> r, n |-> n] : n \in {k \in 1..Len(db.events[r.trip]) - 1 :
                         /\ db.events[r.trip][k].stop = request.stop
                         /\ now <= LeavesAt(r, k) /\ LeavesAt(r, k) <= now + request.window}} :
                      r \in RunsAbout(now)}
    IN  /\ Entries(answer) = {[trip_id |-> d.run.trip, stop_sequence |-> d.n,
                             departure_at |-> LeavesAt(d.run, d.n)] : d \in due}
        /\ Len(answer) = Cardinality(due)
        /\ \A i, j \in DOMAIN answer : i < j => answer[i].departure_at <= answer[j].departure_at

\* Of the buses that the board would announce, the planner considers exactly
\* those whose service day has begun (planner_service.py 42-45 against
\* stop_service.py 53-56).
PlannerSeesBoard ==
  request # NoAnswer /\ request.kind = "plan" =>
    \A stop \in Stops, window \in Windows :
      LET board == Entries(Board(stop, now, window))
          begun == {d \in board :
                      Date(d.departure_at - db.events[d.trip_id][d.stop_sequence].departure_time)
                        <= Date(now)}
      IN  {<<d.trip_id, d.stop_sequence, d.departure_at>> : d \in begun}
            = {<<c.trip, c.seq, Date(now) * DayLength + c.depTime>> :
                 c \in {x \in answer : /\ x.dep = stop /\ TimeOfDay(now) <= x.depTime
                                       /\ x.depTime <= TimeOfDay(now) + window}}

\* A trip listed for a date is announced at its first stop for its first
\* departure of that date, unless that is two days later or more, and its bus is on
\* the road from then until its last arrival and at no other time; no other trip's
\* bus is (route_service.py 102-116).
ListedTripsRun ==
  request # NoAnswer /\ request.kind = "trips" =>
    LET midnight == request.date * DayLength
        out == {r \in RunsAbout(midnight) : r.date = request.date}
    IN  /\ {row.id : row \in Entries(answer)} = {r.trip : r \in out}
        /\ \A row \in Entries(answer) :
             LET trip  == row.id
                 first == midnight + row.starts_at
             IN  /\ row.starts_at < 2 * DayLength =>
                      \E d \in Entries(Board(db.events[trip][1].stop, first, 0)) :
                        d.trip_id = trip /\ d.departure_at = first
                 /\ \A moment \in first - 2..midnight + 2 * DayLength :
                      InMotion([trip |-> trip, date |-> request.date], moment) =>
                        first <= moment /\ moment < midnight + row.ends_at
=============================================================================
