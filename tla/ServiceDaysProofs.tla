------------------------- MODULE ServiceDaysProofs -------------------------
(***************************************************************************)
(* Proofs about ServiceDays, in four parts.                                *)
(*                                                                         *)
(* Dates, services and hops: a moment is a date's midnight and a clock     *)
(* time, the services found for a date are those of the runs of that date, *)
(* and a trip is between two stops at one place at most.                   *)
(*                                                                         *)
(* The tick: its segments are the buses in motion, of two service days,    *)
(* and the limit keeps today's before yesterday's.                         *)
(*                                                                         *)
(* The board, the list of trips and the planner's connections: each is     *)
(* matched with the runs it should speak of.                               *)
(*                                                                         *)
(* The invariant says of vehicles and of the last answer only that they    *)
(* are what the operators give; that this is right is what the lemmas say. *)
(***************************************************************************)
EXTENDS ServiceDays, OrderLemmas, TLAPS

-----------------------------------------------------------------------------
(* Dates and clocks *)

\* A moment is a date's midnight and a clock time.
LEMMA ClockIs ==
  ASSUME NEW m \in Int
  PROVE  /\ Date(m) \in Int /\ TimeOfDay(m) \in Nat /\ TimeOfDay(m) < DayLength
         /\ TimeOfDay(m) \in Int
         /\ m = Date(m) * DayLength + TimeOfDay(m)
<1>1. DayLength \in Nat \ {0}
  BY DaysAssumption
<1>2. /\ m \div DayLength \in Int /\ m % DayLength \in Nat /\ m % DayLength < DayLength
      /\ m = (m \div DayLength) * DayLength + (m % DayLength)
  BY <1>1, DayAndClock
<1>3. m % DayLength \in Int
  BY <1>2
<1> QED BY <1>2, <1>3, Zenon DEF Date, TimeOfDay

\* The moments of a date begin with its midnight and end with the next.
LEMMA DateIs ==
  ASSUME NEW m \in Int, NEW date \in Int,
         date * DayLength <= m, m < date * DayLength + DayLength
  PROVE  Date(m) = date /\ TimeOfDay(m) = m - date * DayLength
<1>1. DayLength \in Nat \ {0}
  BY DaysAssumption
<1> DEFINE a == date * DayLength
           b == Date(m) * DayLength
<1>2. a \in Int /\ b \in Int
  BY <1>1, ClockIs
<1>3. m - a \in Nat /\ m - a < DayLength /\ a + (m - a) = m
  <2> a <= m /\ m < a + DayLength
    OBVIOUS
  <2> HIDE DEF a, b
  <2> QED BY <1>1, <1>2
<1>4. b + TimeOfDay(m) = m
  BY ClockIs
<1>5. b + TimeOfDay(m) = a + (m - a)
  <2> HIDE DEF a, b
  <2> QED BY <1>3, <1>4
<1>6. Date(m) \in Int /\ TimeOfDay(m) \in Nat /\ TimeOfDay(m) < DayLength
  BY ClockIs
<1>7. Date(m) = date /\ TimeOfDay(m) = m - a
  BY <1>1, <1>3, <1>5, <1>6, OneDay
<1> QED BY <1>7

\* Midnights are a day apart.
LEMMA Midnights ==
  ASSUME NEW date \in Int
  PROVE  /\ date * DayLength \in Int /\ DayLength \in Nat \ {0}
         /\ (date - 1) * DayLength = date * DayLength - DayLength
         /\ (date + 1) * DayLength = date * DayLength + DayLength
         /\ (date + 2) * DayLength = date * DayLength + DayLength + DayLength
         /\ 2 * DayLength = DayLength + DayLength
BY DaysAssumption

-----------------------------------------------------------------------------
(* The timetable *)

Dep(t, n) == db.events[t][n].departure_time

Arr(t, n) == db.events[t][n].arrival_time

Last(t) == Len(db.events[t])

\* A trip has two events at least, whose times do not go back.
LEMMA TripTimes ==
  ASSUME db \in Databases, NEW t \in Trips
  PROVE  /\ t \in Int /\ Last(t) \in Nat /\ Last(t) >= 2
         /\ DOMAIN db.events[t] = 1..Last(t)
         /\ \A n \in 1..Last(t) :
              /\ Arr(t, n) \in Nat /\ Dep(t, n) \in Nat /\ Arr(t, n) <= Dep(t, n)
              /\ Arr(t, n) \in Int /\ Dep(t, n) \in Int
         /\ \A m, n \in 1..Last(t) : m < n => Dep(t, m) <= Arr(t, n)
         /\ \A m, n \in 1..Last(t) : m <= n => Dep(t, m) <= Dep(t, n) /\ Arr(t, m) <= Arr(t, n)
<1>1. /\ t \in Int /\ Last(t) \in Nat /\ Last(t) >= 2
      /\ DOMAIN db.events[t] = 1..Last(t)
      /\ \A n \in 1..Last(t) :
              /\ Arr(t, n) \in Nat /\ Dep(t, n) \in Nat /\ Arr(t, n) <= Dep(t, n)
      /\ \A m, n \in 1..Last(t) : m < n => Dep(t, m) <= Arr(t, n)
  BY DatabasesAssumption DEF Trips, Dep, Arr, Last
<1>2. ASSUME NEW m \in 1..Last(t), NEW n \in 1..Last(t), m <= n
      PROVE  Dep(t, m) <= Dep(t, n) /\ Arr(t, m) <= Arr(t, n)
  <2>1. m = n \/ m < n
    BY <1>2, <1>1
  <2>2. CASE m = n
    BY <1>1, <2>2
  <2>3. CASE m < n
    <3>1. Dep(t, m) <= Arr(t, n)
      BY <1>1, <2>3
    <3> QED BY <1>1, <3>1
  <2> QED BY <2>1, <2>2, <2>3
<1> QED BY <1>1, <1>2

LEMMA TripsFinite == db \in Databases => Trips \subseteq Int /\ IsFiniteSet(Trips)
BY DatabasesAssumption DEF Trips

\* The query of active services finds those that run: the regular ones but the
\* removed, and those added.
LEMMA ServiceRuns ==
  ASSUME db \in Databases, NEW s \in Services, NEW date \in Int
  PROVE  s \in ActiveServices(date) <=>
           ~Removed(s, date) /\ (Added(s, date) \/ Regular(s, date))
<1>1. CASE <<s, date>> \in DOMAIN db.exceptions
  <2>1. db.exceptions[<<s, date>>] \in {1, 2}
    BY <1>1, DatabasesAssumption
  <2> QED BY <1>1, <2>1 DEF ActiveServices, Removed, Added
<1>2. CASE <<s, date>> \notin DOMAIN db.exceptions
  <2>1. ASSUME s \in DOMAIN db.calendar
        PROVE  /\ db.calendar[s].start_date \in Int /\ db.calendar[s].end_date \in Int
    BY <2>1, DatabasesAssumption
  <2> QED BY <1>2, <2>1 DEF ActiveServices, Removed, Added, Regular
<1> QED BY <1>1, <1>2

Run(t, date) == [trip |-> t, date |-> date]

\* A trip runs on a date if its service is active.
LEMMA RunIs ==
  ASSUME db \in Databases, NEW m \in Int, NEW t \in Trips,
         NEW date \in Date(m) - 1..Date(m) + 2
  PROVE  Run(t, date) \in RunsAbout(m) <=> t \in TripsOf(ActiveServices(date))
<1>1. date \in Int /\ db.service[t] \in Services
  BY ClockIs DEF Services
<1>2. Run(t, date) \in [trip : Trips, date : Date(m) - 1..Date(m) + 2]
  BY DEF Run
<1>3. db.service[t] \in ActiveServices(date) <=>
        ~Removed(db.service[t], date) /\ (Added(db.service[t], date) \/ Regular(db.service[t], date))
  BY <1>1, ServiceRuns
<1> QED BY <1>2, <1>3 DEF RunsAbout, Run, TripsOf

\* What a run of RunsAbout is.
LEMMA RunOf ==
  ASSUME NEW m \in Int, NEW r \in RunsAbout(m)
  PROVE  /\ r.trip \in Trips /\ r.date \in Date(m) - 1..Date(m) + 2
         /\ r.date \in Int /\ r = Run(r.trip, r.date)
BY ClockIs DEF RunsAbout, Run

-----------------------------------------------------------------------------
(* Hops *)

Hop(t, n) ==
  [trip_id |-> t, n |-> n, dep |-> db.events[t][n], arr |-> db.events[t][n + 1]]

LEMMA HopIs ==
  ASSUME NEW services, NEW h
  PROVE  h \in Hops(services) <=>
           \E t \in TripsOf(services) : \E n \in 1..Last(t) - 1 : h = Hop(t, n)
BY DEF Hops, Hop, Last

HopsOut(date, m) == UnderWay(ActiveServices(date), m - date * DayLength)

\* A hop under way: that of a trip of the date, with the clock between its ends.
LEMMA HopOut ==
  ASSUME db \in Databases, NEW date \in Int, NEW m \in Int, NEW h \in HopsOut(date, m)
  PROVE  /\ h.trip_id \in Trips /\ h.trip_id \in TripsOf(ActiveServices(date))
         /\ h.n \in 1..Last(h.trip_id) - 1 /\ h.n \in 1..Last(h.trip_id)
         /\ h.n + 1 \in 1..Last(h.trip_id) /\ h.n \in Int
         /\ h = Hop(h.trip_id, h.n)
         /\ h.dep.departure_time = Dep(h.trip_id, h.n)
         /\ h.arr.arrival_time = Arr(h.trip_id, h.n + 1)
         /\ Dep(h.trip_id, h.n) <= m - date * DayLength
         /\ m - date * DayLength < Arr(h.trip_id, h.n + 1)
<1>1. PICK t \in TripsOf(ActiveServices(date)) : \E n \in 1..Last(t) - 1 : h = Hop(t, n)
  BY HopIs DEF HopsOut, UnderWay
<1>2. PICK n \in 1..Last(t) - 1 : h = Hop(t, n)
  BY <1>1
<1>3. h.trip_id = t /\ h.n = n /\ t \in Trips
      /\ h.dep.departure_time = Dep(t, n) /\ h.arr.arrival_time = Arr(t, n + 1)
  BY <1>2 DEF Hop, TripsOf, Dep, Arr
<1>4. Last(t) \in Nat
  BY <1>3, TripTimes
<1>5. n \in 1..Last(t) /\ n + 1 \in 1..Last(t) /\ n \in Int
  BY <1>4
<1>6. h.dep.departure_time <= m - date * DayLength /\ m - date * DayLength < h.arr.arrival_time
  BY DEF HopsOut, UnderWay
<1> QED BY <1>1, <1>2, <1>3, <1>5, <1>6

\* Conversely.
LEMMA HopGoes ==
  ASSUME db \in Databases, NEW date \in Int, NEW m \in Int,
         NEW t \in TripsOf(ActiveServices(date)), NEW n \in 1..Last(t) - 1,
         Dep(t, n) <= m - date * DayLength, m - date * DayLength < Arr(t, n + 1)
  PROVE  Hop(t, n) \in HopsOut(date, m)
<1>1. Hop(t, n) \in Hops(ActiveServices(date))
  BY HopIs
<1>2. Hop(t, n).dep.departure_time = Dep(t, n) /\ Hop(t, n).arr.arrival_time = Arr(t, n + 1)
  BY DEF Hop, Dep, Arr
<1> QED BY <1>1, <1>2 DEF HopsOut, UnderWay

\* A bus is on one hop at a time.
LEMMA OneHop ==
  ASSUME db \in Databases, NEW date \in Int, NEW m \in Int,
         NEW g \in HopsOut(date, m), NEW h \in HopsOut(date, m), g.trip_id = h.trip_id
  PROVE  g = h
<1> DEFINE t == h.trip_id
           clock == m - date * DayLength
<1>0. /\ t \in Trips /\ clock \in Int
      /\ g = Hop(t, g.n) /\ h = Hop(t, h.n)
      /\ g.n \in 1..Last(t) /\ h.n \in 1..Last(t)
      /\ g.n + 1 \in 1..Last(t) /\ h.n + 1 \in 1..Last(t) /\ g.n \in Int /\ h.n \in Int
      /\ Dep(t, g.n) <= clock /\ clock < Arr(t, g.n + 1)
      /\ Dep(t, h.n) <= clock /\ clock < Arr(t, h.n + 1)
  BY HopOut, Midnights
<1> HIDE DEF clock
<1>1. ASSUME NEW i \in Int, NEW j \in Int, i \in 1..Last(t), j \in 1..Last(t),
             i + 1 \in 1..Last(t), i < j, clock < Arr(t, i + 1), Dep(t, j) <= clock
      PROVE  FALSE
  <2>1. i + 1 <= j
    BY <1>1
  <2>2. Arr(t, i + 1) <= Arr(t, j) /\ Arr(t, j) <= Dep(t, j)
    BY <1>0, <1>1, <2>1, TripTimes
  <2>3. Arr(t, i + 1) \in Int /\ Arr(t, j) \in Int /\ Dep(t, j) \in Int
    BY <1>0, <1>1, TripTimes
  <2> HIDE DEF t
  <2> QED BY <1>0, <1>1, <2>2, <2>3
<1>2. ~(g.n < h.n) /\ ~(h.n < g.n)
  BY <1>0, <1>1
<1>3. g.n = h.n
  BY <1>0, <1>2
<1> QED BY <1>0, <1>3

\* There are finitely many, and their trips put them into an order.
LEMMA HopsInOrder ==
  ASSUME db \in Databases, NEW date \in Int, NEW m \in Int
  PROVE  /\ IsFiniteSet(HopsOut(date, m))
         /\ IsStrictOrder(ByTrip(HopsOut(date, m)), HopsOut(date, m))
<1> DEFINE hops == HopsOut(date, m)
           trip == [h \in hops |-> h.trip_id]
<1>1. \A h \in hops : h.trip_id \in Trips /\ h.trip_id \in Int
  BY HopOut, TripsFinite
<1>2. \A g, h \in hops : g.trip_id = h.trip_id => g = h
  BY OneHop
<1> HIDE DEF hops
<1>3. trip \in [hops -> Trips] /\ \A g, h \in hops : trip[g] = trip[h] => g = h
  BY <1>1, <1>2
<1>4. IsFiniteSet(hops)
  <2> HIDE DEF trip
  <2> QED BY <1>3, TripsFinite, FiniteSource
<1>5. \A g, h \in hops : <<g, h>> \in ByTrip(hops) <=> g.trip_id < h.trip_id
  BY DEF ByTrip
<1>6. \A h \in hops : ~(h.trip_id < h.trip_id)
  BY <1>1
<1>7. \A g, h \in hops : g # h => g.trip_id < h.trip_id \/ h.trip_id < g.trip_id
  <2> SUFFICES ASSUME NEW g \in hops, NEW h \in hops, g # h
               PROVE  g.trip_id < h.trip_id \/ h.trip_id < g.trip_id
    OBVIOUS
  <2>1. g.trip_id # h.trip_id /\ g.trip_id \in Int /\ h.trip_id \in Int
    BY <1>1, <1>2
  <2> QED BY <2>1
<1>8. \A f, g, h \in hops : f.trip_id < g.trip_id /\ g.trip_id < h.trip_id => f.trip_id < h.trip_id
  BY <1>1
<1>9. IsStrictOrder(ByTrip(hops), hops)
  BY <1>5, <1>6, <1>7, <1>8 DEF IsStrictOrder
<1> QED BY <1>4, <1>9 DEF hops

-----------------------------------------------------------------------------
(* Buses on the road *)

\* The trip of a hop under way is on the road, if the date is one that RunsAbout
\* looks at.
LEMMA HopMoves ==
  ASSUME db \in Databases, NEW m \in Int, NEW date \in Date(m) - 1..Date(m),
         NEW h \in HopsOut(date, m)
  PROVE  Run(h.trip_id, date) \in Moving(m)
<1> DEFINE t == h.trip_id
           a == date * DayLength
<1>0. date \in Int /\ date \in Date(m) - 1..Date(m) + 2 /\ a \in Int
  BY ClockIs, Midnights
<1>1. /\ t \in Trips /\ t \in TripsOf(ActiveServices(date))
      /\ h.n \in 1..Last(t) - 1 /\ h.n \in 1..Last(t) /\ h.n + 1 \in 1..Last(t)
      /\ Dep(t, h.n) <= m - a /\ m - a < Arr(t, h.n + 1)
  BY <1>0, HopOut
<1>2. Dep(t, h.n) \in Int /\ Arr(t, h.n + 1) \in Int
  BY <1>1, TripTimes
<1>3. a + Dep(t, h.n) <= m /\ m < a + Arr(t, h.n + 1)
  <2> HIDE DEF a, t
  <2> QED BY <1>0, <1>1, <1>2
<1>4. Run(t, date) \in RunsAbout(m)
  BY <1>0, <1>1, RunIs
<1> QED BY <1>1, <1>3, <1>4 DEF Moving, InMotion, LeavesAt, ArrivesAt, Run, Dep, Arr, Last

\* A bus on the road is of today or of yesterday, and on a hop under way.
LEMMA MovesOnHop ==
  ASSUME db \in Databases, NEW m \in Int, NEW r \in Moving(m)
  PROVE  /\ r.date \in Date(m) - 1..Date(m) /\ r.date \in Int /\ r.trip \in Trips
         /\ r = Run(r.trip, r.date)
         /\ \E h \in HopsOut(r.date, m) : h.trip_id = r.trip
<1> DEFINE t == r.trip
           a == r.date * DayLength
<1>0. /\ r \in RunsAbout(m) /\ t \in Trips /\ r.date \in Date(m) - 1..Date(m) + 2
      /\ r.date \in Int /\ r = Run(t, r.date) /\ a \in Int /\ Date(m) \in Int
  BY RunOf, Midnights, ClockIs DEF Moving
<1>1. PICK n \in 1..Last(t) - 1 : a + Dep(t, n) <= m /\ m < a + Arr(t, n + 1)
  BY DEF Moving, InMotion, LeavesAt, ArrivesAt, Dep, Arr, Last
<1>2. Last(t) \in Nat
  BY <1>0, TripTimes
<1>3. n \in 1..Last(t) /\ n + 1 \in 1..Last(t)
  BY <1>2
<1>4. Dep(t, n) \in Nat /\ Arr(t, n + 1) \in Nat
  BY <1>0, <1>3, TripTimes
<1>5. r.date <= Date(m)
  <2> SUFFICES ASSUME Date(m) < r.date PROVE FALSE
    BY <1>0
  <2> DEFINE b == Date(m) * DayLength
  <2>1. r.date = Date(m) + 1 \/ r.date = Date(m) + 2
    BY <1>0
  <2>2. /\ b \in Int /\ DayLength \in Nat
        /\ (Date(m) + 1) * DayLength = b + DayLength
        /\ (Date(m) + 2) * DayLength = b + DayLength + DayLength
    BY <1>0, Midnights
  <2>3. a = b + DayLength \/ a = b + DayLength + DayLength
    BY <2>1, <2>2, Zenon
  <2>4. m = b + TimeOfDay(m) /\ TimeOfDay(m) < DayLength /\ TimeOfDay(m) \in Int
    BY ClockIs
  <2> HIDE DEF a, b
  <2> QED BY <1>0, <1>1, <1>4, <2>2, <2>3, <2>4
<1>6. Dep(t, n) <= m - a /\ m - a < Arr(t, n + 1)
  <2> HIDE DEF a, t
  <2> QED BY <1>0, <1>1, <1>4
<1>7. t \in TripsOf(ActiveServices(r.date))
  BY <1>0, RunIs
<1>8. Hop(t, n) \in HopsOut(r.date, m)
  BY <1>0, <1>6, <1>7, HopGoes
<1>9. Hop(t, n).trip_id = t
  BY DEF Hop
<1> QED BY <1>0, <1>5, <1>8, <1>9

\* As many buses of a date are on the road as hops are under way.
MovingOn(date, m) == {r \in Moving(m) : r.date = date}

LEMMA HopsAndBuses ==
  ASSUME db \in Databases, NEW m \in Int, NEW date \in Date(m) - 1..Date(m)
  PROVE  /\ IsFiniteSet(MovingOn(date, m)) /\ Cardinality(HopsOut(date, m)) \in Nat
         /\ Cardinality(MovingOn(date, m)) = Cardinality(HopsOut(date, m))
<1> DEFINE hops == HopsOut(date, m)
           run  == [h \in hops |-> Run(h.trip_id, date)]
<1>0. date \in Int
  BY ClockIs
<1>1. \A h \in hops : Run(h.trip_id, date) \in MovingOn(date, m)
  BY HopMoves DEF MovingOn, Run
<1>2. \A g, h \in hops : Run(g.trip_id, date) = Run(h.trip_id, date) => g = h
  <2>1. \A g, h \in hops : Run(g.trip_id, date) = Run(h.trip_id, date) => g.trip_id = h.trip_id
    BY DEF Run
  <2> QED BY <1>0, <2>1, OneHop
<1>3. \A r \in MovingOn(date, m) : \E h \in hops : Run(h.trip_id, date) = r
  <2> SUFFICES ASSUME NEW r \in MovingOn(date, m)
               PROVE  \E h \in hops : Run(h.trip_id, date) = r
    OBVIOUS
  <2>1. r \in Moving(m) /\ r.date = date
    BY DEF MovingOn
  <2>2. r = Run(r.trip, date) /\ \E h \in hops : h.trip_id = r.trip
    BY <2>1, MovesOnHop
  <2> QED BY <2>2
<1>4. IsFiniteSet(hops)
  BY <1>0, HopsInOrder
<1> HIDE DEF hops
<1>5. /\ run \in [hops -> MovingOn(date, m)]
      /\ \A g, h \in hops : run[g] = run[h] => g = h
      /\ \A r \in MovingOn(date, m) : \E h \in hops : run[h] = r
  BY <1>1, <1>2, <1>3
<1> HIDE DEF run
<1>6. /\ IsFiniteSet(MovingOn(date, m)) /\ Cardinality(hops) \in Nat
      /\ Cardinality(MovingOn(date, m)) = Cardinality(hops)
  BY <1>4, <1>5, SameNumber
<1> QED BY <1>6 DEF hops

LEMMA BusesOfTwoDays ==
  ASSUME db \in Databases, NEW m \in Int
  PROVE  /\ Cardinality(HopsOut(Date(m), m)) \in Nat
         /\ Cardinality(HopsOut(Date(m) - 1, m)) \in Nat
         /\ Cardinality(Moving(m)) =
              Cardinality(HopsOut(Date(m), m)) + Cardinality(HopsOut(Date(m) - 1, m))
<1> DEFINE today == MovingOn(Date(m), m)
           night == MovingOn(Date(m) - 1, m)
<1>0. Date(m) \in Int /\ Date(m) \in Date(m) - 1..Date(m) /\ Date(m) - 1 \in Date(m) - 1..Date(m)
  BY ClockIs
<1>1. /\ IsFiniteSet(today) /\ Cardinality(HopsOut(Date(m), m)) \in Nat
      /\ Cardinality(today) = Cardinality(HopsOut(Date(m), m))
  BY <1>0, HopsAndBuses
<1>2. /\ IsFiniteSet(night) /\ Cardinality(HopsOut(Date(m) - 1, m)) \in Nat
      /\ Cardinality(night) = Cardinality(HopsOut(Date(m) - 1, m))
  BY <1>0, HopsAndBuses
<1>3. Moving(m) = today \cup night
  <2>1. \A r \in Moving(m) : r.date = Date(m) \/ r.date = Date(m) - 1
    <3> SUFFICES ASSUME NEW r \in Moving(m) PROVE r.date = Date(m) \/ r.date = Date(m) - 1
      OBVIOUS
    <3>1. r.date \in Date(m) - 1..Date(m) /\ r.date \in Int
      BY MovesOnHop
    <3> QED BY <1>0, <3>1
  <2> QED BY <2>1 DEF MovingOn
<1>4. today \cap night = {}
  BY <1>0 DEF MovingOn
<1> HIDE DEF today, night
<1>5. Cardinality(today \cup night) = Cardinality(today) + Cardinality(night)
  BY <1>1, <1>2, <1>4, NumberOfUnion
<1> QED BY <1>1, <1>2, <1>3, <1>5

-----------------------------------------------------------------------------
(* The vehicles of a tick *)

Kept(date, m, limit) == Limited(HopsOut(date, m), ByTrip(HopsOut(date, m)), limit)

TodayKept(m) == Kept(Date(m), m, MaxVehicles)

NightKept(m) == Kept(Date(m) - 1, m, MaxVehicles - Cardinality(TodayKept(m)))

\* A vehicle's row, with the date and the moment in place of two clocks.
Placed(h, date, m) ==
  [trip_id |-> h.trip_id, n |-> h.n,
   gone    |-> m - date * DayLength - h.dep.departure_time,
   span    |-> h.arr.arrival_time - h.dep.departure_time,
   day     |-> date]

\* Both clocks of a tick are the moment, counted from the date's own midnight.
LEMMA SegmentsAre ==
  ASSUME NEW m \in Int
  PROVE  Segments(m) = {Placed(h, Date(m), m) : h \in TodayKept(m)}
                         \cup {Placed(h, Date(m) - 1, m) : h \in NightKept(m)}
<1> DEFINE clock == TimeOfDay(m)
<1>1. /\ clock \in Nat /\ clock < DayLength /\ DayLength \in Nat \ {0} /\ Date(m) \in Int
      /\ clock = m - Date(m) * DayLength
      /\ clock + DayLength = m - (Date(m) - 1) * DayLength
  <2> DEFINE a == Date(m) * DayLength
             b == (Date(m) - 1) * DayLength
  <2>1. /\ Date(m) \in Int /\ clock \in Nat /\ clock < DayLength /\ m = a + clock
        /\ DayLength \in Nat \ {0} /\ a \in Int /\ b = a - DayLength
    BY ClockIs, Midnights
  <2> HIDE DEF a, b, clock
  <2>2. clock = m - a /\ clock + DayLength = m - b
    BY <2>1
  <2> QED BY <2>1, <2>2 DEF a, b
<1>2. clock \div DayLength = 0 /\ (clock + DayLength) \div DayLength = 1
  <2> HIDE DEF clock
  <2>1. /\ 0 * DayLength <= clock /\ clock < 0 * DayLength + DayLength
        /\ 1 * DayLength <= clock + DayLength /\ clock + DayLength < 1 * DayLength + DayLength
        /\ clock \in Int /\ clock + DayLength \in Int
    BY <1>1
  <2>2. Date(clock) = 0 /\ Date(clock + DayLength) = 1
    BY <2>1, DateIs
  <2> QED BY <2>2 DEF Date
<1>3. ASSUME NEW h
      PROVE  /\ Positioned(h, clock, Date(m)) = Placed(h, Date(m), m)
             /\ Positioned(h, clock + DayLength, Date(m)) = Placed(h, Date(m) - 1, m)
  <2>1. Date(m) - clock \div DayLength = Date(m)
        /\ Date(m) - (clock + DayLength) \div DayLength = Date(m) - 1
    <3> HIDE DEF clock
    <3> QED BY <1>1, <1>2
  <2> HIDE DEF clock
  <2> QED BY <1>1, <2>1 DEF Positioned, Placed
<1>4. ActiveSegments(ActiveServices(Date(m)), clock, MaxVehicles) = TodayKept(m)
  BY <1>1 DEF ActiveSegments, TodayKept, Kept, HopsOut
<1>5. ActiveSegments(ActiveServices(Date(m) - 1), clock + DayLength,
                     MaxVehicles - Cardinality(TodayKept(m))) = NightKept(m)
  BY <1>1 DEF ActiveSegments, NightKept, Kept, HopsOut
<1>6. Segments(m) = {Positioned(h, clock, Date(m)) : h \in TodayKept(m)}
                      \cup {Positioned(h, clock + DayLength, Date(m)) : h \in NightKept(m)}
  BY <1>4, <1>5 DEF Segments
<1> HIDE DEF clock
<1>7. /\ {Positioned(h, clock, Date(m)) : h \in TodayKept(m)}
           = {Placed(h, Date(m), m) : h \in TodayKept(m)}
      /\ {Positioned(h, clock + DayLength, Date(m)) : h \in NightKept(m)}
           = {Placed(h, Date(m) - 1, m) : h \in NightKept(m)}
  BY <1>3, Zenon
<1> QED BY <1>6, <1>7, Zenon

\* How many hops the limit leaves: all, or as many as it says, today's first.
LEMMA KeptAre ==
  ASSUME db \in Databases, NEW m \in Int
  PROVE  LET today  == HopsOut(Date(m), m)
             night  == HopsOut(Date(m) - 1, m)
         IN  /\ TodayKept(m) \subseteq today /\ NightKept(m) \subseteq night
             /\ IsFiniteSet(TodayKept(m)) /\ IsFiniteSet(NightKept(m))
             /\ Cardinality(today) \in Nat /\ Cardinality(night) \in Nat
             /\ Cardinality(TodayKept(m)) \in Nat /\ Cardinality(NightKept(m)) \in Nat
             /\ Cardinality(today) <= MaxVehicles => TodayKept(m) = today
             /\ MaxVehicles < Cardinality(today) => Cardinality(TodayKept(m)) = MaxVehicles
             /\ Cardinality(TodayKept(m)) <= MaxVehicles
             /\ Cardinality(night) <= MaxVehicles - Cardinality(TodayKept(m))
                  => NightKept(m) = night
             /\ MaxVehicles - Cardinality(TodayKept(m)) < Cardinality(night)
                  => Cardinality(NightKept(m)) = MaxVehicles - Cardinality(TodayKept(m))
<1> DEFINE today == HopsOut(Date(m), m)
           night == HopsOut(Date(m) - 1, m)
           some  == Limited(today, ByTrip(today), MaxVehicles)
           left  == MaxVehicles - Cardinality(some)
           rest  == Limited(night, ByTrip(night), left)
<1>0. some = TodayKept(m) /\ rest = NightKept(m) /\ MaxVehicles \in Nat
  BY DaysAssumption DEF TodayKept, NightKept, Kept
<1>1. /\ IsFiniteSet(today) /\ IsStrictOrder(ByTrip(today), today)
      /\ IsFiniteSet(night) /\ IsStrictOrder(ByTrip(night), night)
  BY ClockIs, HopsInOrder
<1> HIDE DEF today, night
<1>2. /\ Cardinality(today) \in Nat /\ some \subseteq today /\ IsFiniteSet(some)
      /\ Cardinality(today) <= MaxVehicles => some = today
      /\ MaxVehicles < Cardinality(today) => Cardinality(some) = MaxVehicles
  BY <1>0, <1>1, LimitedIs
<1> HIDE DEF some
<1>3. Cardinality(some) \in Nat /\ Cardinality(some) <= MaxVehicles
  BY <1>0, <1>2, FS_CardinalityType
<1>4. left \in Nat
  BY <1>0, <1>3
<1> HIDE DEF left
<1>5. /\ Cardinality(night) \in Nat /\ rest \subseteq night /\ IsFiniteSet(rest)
      /\ Cardinality(night) <= left => rest = night
      /\ left < Cardinality(night) => Cardinality(rest) = left
  BY <1>1, <1>4, LimitedIs
<1> HIDE DEF rest
<1>6. Cardinality(rest) \in Nat
  BY <1>5, FS_CardinalityType
<1> QED BY <1>0, <1>2, <1>3, <1>5, <1>6 DEF left, today, night

\* What a row of a tick says: a bus on the road, and the hop that its own day's
\* clock puts it on.
LEMMA RowIs ==
  ASSUME db \in Databases, NEW m \in Int, NEW v \in Segments(m)
  PROVE  /\ v.day \in Date(m) - 1..Date(m) /\ v.day \in Int /\ v.trip_id \in Trips
         /\ Run(v.trip_id, v.day) \in Moving(m)
         /\ v.n \in 1..Last(v.trip_id) /\ v.n + 1 \in 1..Last(v.trip_id) /\ v.n \in Nat \ {0}
         /\ v.gone = m - v.day * DayLength - Dep(v.trip_id, v.n)
         /\ v.span = Arr(v.trip_id, v.n + 1) - Dep(v.trip_id, v.n)
         /\ v.gone \in Nat /\ v.span \in Nat /\ v.gone < v.span
         /\ \E h \in HopsOut(v.day, m) : v = Placed(h, v.day, m)
         /\ v.day = Date(m) => \E h \in TodayKept(m) : v = Placed(h, v.day, m)
         /\ v.day = Date(m) - 1 => \E h \in NightKept(m) : v = Placed(h, v.day, m)
<1>0. Date(m) \in Int /\ Date(m) \in Date(m) - 1..Date(m) /\ Date(m) - 1 \in Date(m) - 1..Date(m)
  BY ClockIs
<1>1. \/ \E h \in TodayKept(m) : v = Placed(h, Date(m), m)
      \/ \E h \in NightKept(m) : v = Placed(h, Date(m) - 1, m)
  BY SegmentsAre
<1>2. TodayKept(m) \subseteq HopsOut(Date(m), m) /\ NightKept(m) \subseteq HopsOut(Date(m) - 1, m)
  BY KeptAre
<1>3. \A h, date : Placed(h, date, m).day = date
  BY DEF Placed
<1>4. v.day \in Date(m) - 1..Date(m) /\ \E h \in HopsOut(v.day, m) : v = Placed(h, v.day, m)
  BY <1>0, <1>1, <1>2, <1>3
<1>5. v.day \in Int
  BY <1>0, <1>4
<1>6. PICK h \in HopsOut(v.day, m) : v = Placed(h, v.day, m)
  BY <1>4
<1> DEFINE t == v.trip_id
           n == v.n
           a == v.day * DayLength
<1>7. /\ t = h.trip_id /\ n = h.n
      /\ v.gone = m - a - h.dep.departure_time
      /\ v.span = h.arr.arrival_time - h.dep.departure_time
  BY <1>6 DEF Placed
<1>8. /\ t \in Trips /\ n \in 1..Last(t) - 1 /\ n \in 1..Last(t) /\ n + 1 \in 1..Last(t)
      /\ h.dep.departure_time = Dep(t, n) /\ h.arr.arrival_time = Arr(t, n + 1)
      /\ Dep(t, n) <= m - a /\ m - a < Arr(t, n + 1)
  BY <1>5, <1>7, HopOut
<1>9. Dep(t, n) \in Int /\ Arr(t, n + 1) \in Int /\ a \in Int /\ Last(t) \in Nat
  BY <1>5, <1>8, TripTimes, Midnights
<1>10. Run(t, v.day) \in Moving(m)
  BY <1>4, <1>7, HopMoves
<1>11. /\ v.day = Date(m) => \E g \in TodayKept(m) : v = Placed(g, v.day, m)
       /\ v.day = Date(m) - 1 => \E g \in NightKept(m) : v = Placed(g, v.day, m)
  BY <1>0, <1>1, <1>3
<1>12. /\ v.gone = m - a - Dep(t, n) /\ v.span = Arr(t, n + 1) - Dep(t, n)
  BY <1>7, <1>8
<1>13. v.gone \in Nat /\ v.span \in Nat /\ v.gone < v.span
  <2> HIDE DEF a, t, n
  <2> QED BY <1>8, <1>9, <1>12
<1>14. n \in Nat \ {0}
  BY <1>8, <1>9
<1> QED BY <1>4, <1>5, <1>8, <1>10, <1>11, <1>12, <1>13, <1>14

\* The rows of the hops kept of a date are as many as those hops.
LEMMA PlacedNumber ==
  ASSUME db \in Databases, NEW m \in Int, NEW date \in Int,
         NEW kept, kept \subseteq HopsOut(date, m), IsFiniteSet(kept)
  PROVE  /\ IsFiniteSet({Placed(h, date, m) : h \in kept})
         /\ Cardinality({Placed(h, date, m) : h \in kept}) = Cardinality(kept)
<1> DEFINE rows == {Placed(h, date, m) : h \in kept}
           row  == [h \in kept |-> Placed(h, date, m)]
<1>1. \A g, h \in kept : Placed(g, date, m) = Placed(h, date, m) => g = h
  <2>1. \A g, h \in kept : Placed(g, date, m) = Placed(h, date, m) => g.trip_id = h.trip_id
    BY DEF Placed
  <2> QED BY <2>1, OneHop
<1>2. /\ row \in [kept -> rows]
      /\ \A g, h \in kept : row[g] = row[h] => g = h
      /\ \A v \in rows : \E h \in kept : row[h] = v
  BY <1>1
<1> HIDE DEF rows, row
<1>3. IsFiniteSet(rows) /\ Cardinality(rows) = Cardinality(kept)
  BY <1>2, SameNumber
<1> QED BY <1>3 DEF rows

LEMMA SegmentsNumber ==
  ASSUME db \in Databases, NEW m \in Int
  PROVE  Cardinality(Segments(m)) = Cardinality(TodayKept(m)) + Cardinality(NightKept(m))
<1> DEFINE today == {Placed(h, Date(m), m) : h \in TodayKept(m)}
           night == {Placed(h, Date(m) - 1, m) : h \in NightKept(m)}
<1>0. Date(m) \in Int /\ Date(m) - 1 \in Int
  BY ClockIs
<1>1. IsFiniteSet(today) /\ Cardinality(today) = Cardinality(TodayKept(m))
  BY <1>0, KeptAre, PlacedNumber
<1>2. IsFiniteSet(night) /\ Cardinality(night) = Cardinality(NightKept(m))
  BY <1>0, KeptAre, PlacedNumber
<1>3. today \cap night = {}
  <2>1. (\A v \in today : v.day = Date(m)) /\ \A v \in night : v.day = Date(m) - 1
    BY DEF Placed
  <2> HIDE DEF today, night
  <2> QED BY <1>0, <2>1
<1>4. Segments(m) = today \cup night
  BY SegmentsAre
<1> HIDE DEF today, night
<1>5. Cardinality(today \cup night) = Cardinality(today) + Cardinality(night)
  BY <1>1, <1>2, <1>3, NumberOfUnion
<1> QED BY <1>1, <1>2, <1>4, <1>5

\* Which buses the vehicles of a moment are.
Shown(m) == {[trip |-> v.trip_id, date |-> v.day] : v \in Segments(m)}

LEMMA ShownMove ==
  ASSUME db \in Databases, NEW m \in Int
  PROVE  Shown(m) \subseteq Moving(m)
BY RowIs DEF Shown, Run

\* A bus on the road that is not shown was cut off by the limit; if it is of
\* today, no place was left for a bus of yesterday.
LEMMA NightBusesFirst ==
  ASSUME db \in Databases, NEW m \in Int,
         NEW left \in Moving(m) \ Shown(m), NEW run \in Shown(m)
  PROVE  left.date <= run.date
<1>0. Date(m) \in Int /\ MaxVehicles \in Nat
  BY ClockIs, DaysAssumption
<1>1. left.date \in Date(m) - 1..Date(m) /\ left.date \in Int /\ left = Run(left.trip, left.date)
  BY MovesOnHop
<1>2. PICK v \in Segments(m) : run = [trip |-> v.trip_id, date |-> v.day]
  BY DEF Shown
<1>3. run.date = v.day /\ v.day \in Date(m) - 1..Date(m) /\ v.day \in Int
  BY <1>2, RowIs
<1>4. SUFFICES ASSUME run.date < left.date PROVE FALSE
  BY <1>1, <1>3
<1>5. left.date = Date(m) /\ v.day = Date(m) - 1
  BY <1>0, <1>1, <1>3, <1>4
<1>6. PICK h \in HopsOut(Date(m), m) : h.trip_id = left.trip
  BY <1>5, MovesOnHop
<1>7. h \notin TodayKept(m)
  <2> SUFFICES ASSUME h \in TodayKept(m) PROVE FALSE
    OBVIOUS
  <2>1. Placed(h, Date(m), m) \in Segments(m)
    BY SegmentsAre
  <2>2. Placed(h, Date(m), m).trip_id = left.trip /\ Placed(h, Date(m), m).day = left.date
    BY <1>5, <1>6 DEF Placed
  <2>3. Run(left.trip, left.date) \in Shown(m)
    BY <2>1, <2>2 DEF Shown, Run
  <2> QED BY <1>1, <2>3
<1>8. Cardinality(TodayKept(m)) = MaxVehicles
  <2>1. TodayKept(m) # HopsOut(Date(m), m)
    BY <1>6, <1>7
  <2>2. /\ Cardinality(HopsOut(Date(m), m)) \in Nat
        /\ Cardinality(HopsOut(Date(m), m)) <= MaxVehicles => TodayKept(m) = HopsOut(Date(m), m)
        /\ MaxVehicles < Cardinality(HopsOut(Date(m), m)) => Cardinality(TodayKept(m)) = MaxVehicles
    BY KeptAre
  <2> QED BY <1>0, <2>1, <2>2
<1>9. Cardinality(NightKept(m)) = 0 /\ IsFiniteSet(NightKept(m))
  <2> DEFINE b == Cardinality(HopsOut(Date(m) - 1, m))
             left0 == MaxVehicles - Cardinality(TodayKept(m))
  <2>1. /\ b \in Nat /\ IsFiniteSet(NightKept(m))
        /\ b <= left0 => NightKept(m) = HopsOut(Date(m) - 1, m)
        /\ left0 < b => Cardinality(NightKept(m)) = left0
    BY KeptAre
  <2>2. left0 = 0
    BY <1>0, <1>8
  <2>3. CASE b <= left0
    BY <2>1, <2>2, <2>3
  <2>4. CASE left0 < b
    BY <2>1, <2>2, <2>4
  <2> QED BY <2>1, <2>2, <2>3, <2>4
<1>10. NightKept(m) = {}
  BY <1>9, FS_EmptySet
<1> QED BY <1>5, <1>10, RowIs

\* The vehicles are the buses on the road, or as many of them as the limit says.
LEMMA ShownNumber ==
  ASSUME db \in Databases, NEW m \in Int
  PROVE  Cardinality(Segments(m)) = Min({Cardinality(Moving(m)), MaxVehicles})
<1> DEFINE a == Cardinality(HopsOut(Date(m), m))
           b == Cardinality(HopsOut(Date(m) - 1, m))
           s == Cardinality(TodayKept(m))
           r == Cardinality(NightKept(m))
<1>1. /\ a \in Nat /\ b \in Nat /\ s \in Nat /\ r \in Nat /\ MaxVehicles \in Nat
      /\ a <= MaxVehicles => s = a
      /\ MaxVehicles < a => s = MaxVehicles
      /\ b <= MaxVehicles - s => r = b
      /\ MaxVehicles - s < b => r = MaxVehicles - s
  BY KeptAre, DaysAssumption
<1>2. Cardinality(Moving(m)) = a + b /\ Cardinality(Segments(m)) = s + r
  BY BusesOfTwoDays, SegmentsNumber
<1> HIDE DEF a, b, s, r
<1>3. s + r = IF a + b <= MaxVehicles THEN a + b ELSE MaxVehicles
  BY <1>1
<1>4. Min({a + b, MaxVehicles}) = IF a + b <= MaxVehicles THEN a + b ELSE MaxVehicles
  BY <1>1, LesserOfTwo
<1> QED BY <1>2, <1>3, <1>4

-----------------------------------------------------------------------------
(* The invariant *)

TwoBuses(m) == \E a, b \in Moving(m) : a.trip = b.trip /\ a # b

\* The last answer is that of its query at this moment.
Answers ==
  \/ request = NoAnswer
  \/ \E stop \in Stops, window \in Windows :
       /\ request = [kind |-> "departures", stop |-> stop, window |-> window]
       /\ answer = Board(stop, now, window)
  \/ \E date \in Date(now) - 1..Date(now) + 1 :
       request = [kind |-> "trips", date |-> date] /\ answer = Listed(date)
  \/ request = [kind |-> "plan"] /\ answer = Connections(now)

\* The vehicles are those of the last tick that went through, which is this
\* moment's until one fails.
IInv ==
  /\ db \in Databases /\ now \in Start..Finish /\ aborted \in BOOLEAN
  /\ vehicles = {} \/ \E m \in Start..now : vehicles = Segments(m)
  /\ ~aborted => vehicles = IF now = Start THEN {} ELSE Segments(now)
  /\ aborted => \E m \in Start..now : TwoBuses(m)
  /\ Answers

\* Only two buses of a trip give a vehicle two rows.
LEMMA RowsOfTwoBuses ==
  ASSUME db \in Databases, NEW m \in Int, ~Upsertable(Segments(m))
  PROVE  TwoBuses(m)
<1>1. PICK r \in Segments(m), q \in Segments(m) : r.trip_id = q.trip_id /\ r # q
  BY DEF Upsertable
<1>2. /\ Run(r.trip_id, r.day) \in Moving(m) /\ Run(q.trip_id, q.day) \in Moving(m)
      /\ r.day \in Int
  BY RowIs
<1>3. PICK g \in HopsOut(r.day, m) : r = Placed(g, r.day, m)
  BY RowIs
<1>4. PICK h \in HopsOut(q.day, m) : q = Placed(h, q.day, m)
  BY RowIs
<1>5. r.day # q.day
  <2> SUFFICES ASSUME r.day = q.day PROVE FALSE
    OBVIOUS
  <2>1. g.trip_id = r.trip_id /\ h.trip_id = q.trip_id
    BY <1>3, <1>4 DEF Placed
  <2>2. g = h
    BY <1>1, <1>2, <2>1, OneHop
  <2> QED BY <1>1, <1>3, <1>4, <2>2
<1>6. /\ Run(r.trip_id, r.day).trip = Run(q.trip_id, q.day).trip
      /\ Run(r.trip_id, r.day) # Run(q.trip_id, q.day)
  <2>1. Run(r.trip_id, r.day).date = r.day /\ Run(q.trip_id, q.day).date = q.day
    BY DEF Run
  <2>2. Run(r.trip_id, r.day).trip = r.trip_id /\ Run(q.trip_id, q.day).trip = q.trip_id
    BY DEF Run
  <2> QED BY <1>1, <1>5, <2>1, <2>2
<1> QED BY <1>2, <1>6 DEF TwoBuses

\* The queries ask nothing but the timetable.
LEMMA SameServices ==
  ASSUME UNCHANGED db
  PROVE  \A date : ActiveServices(date)' = ActiveServices(date)
BY DEF ActiveServices, Services, Trips

LEMMA SameHops ==
  ASSUME UNCHANGED db
  PROVE  \A date : Hops(ActiveServices(date))' = Hops(ActiveServices(date))
BY SameServices DEF Hops, TripsOf, Trips

LEMMA SameSegments ==
  ASSUME UNCHANGED db
  PROVE  \A m : Segments(m)' = Segments(m)
<1>1. \A date, clock, limit : ActiveSegments(ActiveServices(date), clock, limit)'
                                = ActiveSegments(ActiveServices(date), clock, limit)
  BY SameHops DEF ActiveSegments, UnderWay
<1> QED BY <1>1 DEF Segments

LEMMA SameMoving ==
  ASSUME UNCHANGED db
  PROVE  \A m : Moving(m)' = Moving(m)
<1>1. \A m : RunsAbout(m)' = RunsAbout(m)
  BY DEF RunsAbout, Removed, Added, Regular, Trips
<1> QED BY <1>1 DEF Moving, InMotion, LeavesAt, ArrivesAt

LEMMA SameAnswers ==
  ASSUME UNCHANGED db
  PROVE  /\ Stops' = Stops
         /\ \A stop, at, window : Board(stop, at, window)' = Board(stop, at, window)
         /\ \A date : Listed(date)' = Listed(date)
         /\ \A at : Connections(at)' = Connections(at)
<1>1. Stops' = Stops
  BY DEF Stops, Trips
<1>2. \A stop, at, window, offset : OfDay(stop, at, window, offset)' = OfDay(stop, at, window, offset)
  <2>1. \A stop, date, from, to : ScheduledDepartures(stop, ActiveServices(date), from, to)'
                                    = ScheduledDepartures(stop, ActiveServices(date), from, to)
    BY SameServices DEF ScheduledDepartures, TripsOf, Trips, DepartsWithin
  <2> QED BY <2>1 DEF OfDay
<1>3. \A stop, at, window : Board(stop, at, window)' = Board(stop, at, window)
  <2>1. \A stop, at, window : Departures(stop, at, window)' = Departures(stop, at, window)
    BY <1>2 DEF Departures
  <2> QED BY <2>1 DEF Board
<1>4. \A date : Listed(date)' = Listed(date)
  <2>1. \A date : TripsOn(date)' = TripsOn(date)
    <3>1. \A t : FirstDeparture(t)' = FirstDeparture(t) /\ LastArrival(t)' = LastArrival(t)
      BY DEF FirstDeparture, LastArrival
    <3>2. \A date : TripsOf(ActiveServices(date))' = TripsOf(ActiveServices(date))
      BY SameServices DEF TripsOf, Trips
    <3> QED BY <3>1, <3>2 DEF TripsOn
  <2> QED BY <2>1 DEF Listed
<1>5. \A at : Connections(at)' = Connections(at)
  BY SameHops DEF Connections, ConnectionsForServices
<1> QED BY <1>1, <1>3, <1>4, <1>5

LEMMA TickKeeps ==
  ASSUME IInv, Tick
  PROVE  IInv'
<1>0. /\ now \in Int /\ now' = now + 1 /\ now' \in Int /\ now' \in Start..Finish /\ now' # Start
      /\ db \in Databases /\ db' = db
      /\ \A m \in Start..now : m \in Start..now'
      /\ now' \in Start..now'
  BY DaysAssumption DEF IInv, Tick
<1>1. \A m : Segments(m)' = Segments(m) /\ TwoBuses(m)' = TwoBuses(m)
  BY <1>0, SameSegments, SameMoving DEF TwoBuses
<1>2. Answers'
  BY DEF Tick, Answers
<1>3. CASE ~aborted /\ Upsertable(Segments(now'))
  <2>1. vehicles' = Segments(now') /\ aborted' = FALSE
    BY <1>3 DEF Tick
  <2> QED BY <1>0, <1>1, <1>2, <2>1 DEF IInv
<1>4. CASE aborted
  <2>1. aborted' = TRUE /\ vehicles' = vehicles
    BY <1>4 DEF Tick
  <2> QED BY <1>0, <1>1, <1>2, <1>4, <2>1 DEF IInv
<1>5. CASE ~aborted /\ ~Upsertable(Segments(now'))
  <2>1. aborted' = TRUE /\ vehicles' = vehicles
    BY <1>5 DEF Tick
  <2>2. TwoBuses(now')
    BY <1>0, <1>5, RowsOfTwoBuses
  <2> QED BY <1>0, <1>1, <1>2, <2>1, <2>2 DEF IInv
<1> QED BY <1>3, <1>4, <1>5

LEMMA RequestKeeps ==
  ASSUME IInv, UNCHANGED <<db, now, vehicles, aborted>>, Answers'
  PROVE  IInv'
<1>1. \A m : Segments(m)' = Segments(m) /\ TwoBuses(m)' = TwoBuses(m)
  BY SameSegments, SameMoving DEF TwoBuses
<1> QED BY <1>1 DEF IInv

LEMMA StepKeeps == IInv /\ [Next]_vars => IInv'
<1> SUFFICES ASSUME IInv, [Next]_vars PROVE IInv'
  OBVIOUS
<1>1. CASE Tick
  BY <1>1, TickKeeps
<1>2. CASE AskDepartures
  <2>1. Answers'
    BY <1>2, SameAnswers DEF AskDepartures, Answers
  <2> QED BY <1>2, <2>1, RequestKeeps DEF AskDepartures
<1>3. CASE AskTrips
  <2>1. Answers'
    BY <1>3, SameAnswers DEF AskTrips, Answers
  <2> QED BY <1>3, <2>1, RequestKeeps DEF AskTrips
<1>4. CASE AskPlan
  <2>1. Answers'
    BY <1>4, SameAnswers DEF AskPlan, Answers
  <2> QED BY <1>4, <2>1, RequestKeeps DEF AskPlan
<1>5. CASE UNCHANGED vars
  <2>1. Answers'
    BY <1>5, SameAnswers DEF vars, Answers, IInv
  <2> QED BY <1>5, <2>1, RequestKeeps DEF vars
<1> QED BY <1>1, <1>2, <1>3, <1>4, <1>5 DEF Next

LEMMA InitKeeps == Init => IInv
<1> SUFFICES ASSUME Init PROVE IInv
  OBVIOUS
<1>1. now \in Start..Finish /\ now = Start
  BY DaysAssumption DEF Init
<1>2. aborted = FALSE /\ aborted \in BOOLEAN /\ vehicles = {} /\ db \in Databases
  BY DEF Init
<1>3. Answers
  BY DEF Init, Answers
<1> QED BY <1>1, <1>2, <1>3 DEF IInv

LEMMA DaysInvariant == Spec => []IInv
BY InitKeeps, StepKeeps, PTL DEF Spec

-----------------------------------------------------------------------------
(* Ticks *)

\* A tick fails only where two buses of one trip are on the road (TicksFailForLongTrips).
THEOREM OnlyLongTripsFail == Spec => []TicksFailForLongTrips
<1>1. IInv => TicksFailForLongTrips
  BY DEF IInv, TicksFailForLongTrips, TwoBuses
<1> QED BY <1>1, DaysInvariant, PTL

\* The vehicles are the buses between two stops, those of last night included, up
\* to the limit and those of today first (EveryBusShown).
THEOREM BusesAreShown == Spec => []EveryBusShown
<1>1. ASSUME IInv, now > Start, ~aborted
      PROVE  LET moving == Moving(now)
                 shown  == {[trip |-> v.trip_id, date |-> v.day] : v \in vehicles}
             IN  /\ shown \subseteq moving
                 /\ Cardinality(vehicles) = Min({Cardinality(moving), MaxVehicles})
                 /\ \A left \in moving \ shown, run \in shown : left.date <= run.date
  <2>1. now \in Int /\ db \in Databases /\ vehicles = Segments(now)
    BY <1>1, DaysAssumption DEF IInv
  <2>2. {[trip |-> v.trip_id, date |-> v.day] : v \in vehicles} = Shown(now)
    BY <2>1 DEF Shown
  <2>3. Shown(now) \subseteq Moving(now)
    BY <2>1, ShownMove
  <2>4. Cardinality(vehicles) = Min({Cardinality(Moving(now)), MaxVehicles})
    BY <2>1, ShownNumber
  <2>5. \A left \in Moving(now) \ Shown(now), run \in Shown(now) : left.date <= run.date
    BY <2>1, NightBusesFirst
  <2> QED BY <2>2, <2>3, <2>4, <2>5
<1>2. IInv => EveryBusShown
  BY <1>1 DEF EveryBusShown
<1> QED BY <1>2, DaysInvariant, PTL

\* A bus that is on the road at two moments is no further back at the later one.
LEMMA BusGetsOn ==
  ASSUME db \in Databases, NEW m \in Int, NEW v \in Segments(m),
         NEW next \in Int, next = m + 1, NEW w \in Segments(next), v.trip_id = w.trip_id, v.day = w.day
  PROVE  v.n < w.n \/ (v.n = w.n /\ v.gone < w.gone)
<1> DEFINE t == v.trip_id
           a == v.day * DayLength
<1>1. /\ t \in Trips /\ v.day \in Int /\ v.n \in 1..Last(t) /\ v.n + 1 \in 1..Last(t)
      /\ v.n \in Nat /\ v.gone = m - a - Dep(t, v.n) /\ v.gone \in Nat
  BY RowIs
<1>2. /\ w.n \in 1..Last(t) /\ w.n + 1 \in 1..Last(t) /\ w.n \in Nat
      /\ w.gone = next - a - Dep(t, w.n) /\ w.span = Arr(t, w.n + 1) - Dep(t, w.n)
      /\ w.gone \in Nat /\ w.gone < w.span
  <2>1. /\ w.n \in 1..Last(w.trip_id) /\ w.n + 1 \in 1..Last(w.trip_id) /\ w.n \in Nat \ {0}
        /\ w.gone = next - w.day * DayLength - Dep(w.trip_id, w.n)
        /\ w.span = Arr(w.trip_id, w.n + 1) - Dep(w.trip_id, w.n)
        /\ w.gone \in Nat /\ w.gone < w.span
    BY RowIs
  <2>2. w.trip_id = t /\ w.day * DayLength = a /\ w.n \in Nat
    BY <2>1
  <2> HIDE DEF a, t
  <2> QED BY <2>1, <2>2, Zenon
<1>3. /\ a \in Int /\ Dep(t, v.n) \in Int /\ Dep(t, w.n) \in Int /\ Arr(t, w.n + 1) \in Int
      /\ Arr(t, v.n) \in Int
  BY <1>1, <1>2, Midnights, TripTimes
<1>4. CASE w.n < v.n
  <2>1. w.n + 1 <= v.n
    BY <1>1, <1>2, <1>4
  <2>2. Arr(t, w.n + 1) <= Arr(t, v.n) /\ Arr(t, v.n) <= Dep(t, v.n)
    BY <1>1, <1>2, <2>1, TripTimes
  <2> HIDE DEF t, a
  <2> QED BY <1>1, <1>2, <1>3, <2>2
<1>5. CASE w.n = v.n
  <2>1. w.gone = next - a - Dep(t, v.n)
    BY <1>2, <1>5
  <2> HIDE DEF t, a
  <2>2. v.gone < w.gone
    BY <1>1, <1>3, <2>1
  <2> QED BY <1>5, <2>2
<1>6. CASE v.n < w.n
  BY <1>6
<1>7. w.n < v.n \/ w.n = v.n \/ v.n < w.n
  <2>1. v.n \in Nat /\ w.n \in Nat
    BY <1>1, <1>2
  <2> QED BY <2>1
<1> QED BY <1>4, <1>5, <1>6, <1>7

\* From one tick to the next a bus gets on along its trip, midnight or not (BusesMoveOn).
THEOREM BusesGetOn == Spec => BusesMoveOn
<1>1. ASSUME IInv, [Next]_vars, now' # now, ~aborted', NEW v \in vehicles, NEW w \in vehicles',
             v.trip_id = w.trip_id, v.day = w.day
      PROVE  /\ v.n < w.n \/ (v.n = w.n /\ v.gone < w.gone)
             /\ 0 <= w.gone /\ w.gone < w.span
  <2>1. Tick
    BY <1>1 DEF Next, AskDepartures, AskTrips, AskPlan, vars
  <2>2. ~aborted /\ vehicles' = Segments(now') /\ now' = now + 1
    BY <1>1, <2>1 DEF Tick
  <2>3. db \in Databases /\ now \in Int /\ now + 1 \in Int /\ v \in Segments(now)
    BY <1>1, <2>2, DaysAssumption DEF IInv
  <2>4. w \in Segments(now + 1)
    BY <2>2
  <2>5. v.n < w.n \/ (v.n = w.n /\ v.gone < w.gone)
    BY <1>1, <2>3, <2>4, BusGetsOn
  <2>6. w.gone \in Nat /\ w.gone < w.span
    BY <2>3, <2>4, RowIs
  <2> QED BY <2>5, <2>6
<1>2. IInv /\ [Next]_vars =>
        [now' # now /\ ~aborted' =>
           \A v \in vehicles, w \in vehicles' :
             v.trip_id = w.trip_id /\ v.day = w.day =>
               /\ v.n < w.n \/ (v.n = w.n /\ v.gone < w.gone)
               /\ 0 <= w.gone /\ w.gone < w.span]_vars
  BY <1>1
<1> QED BY <1>2, DaysInvariant, PTL DEF Spec, BusesMoveOn

-----------------------------------------------------------------------------
(* What the planner scans *)

Conn(t, n, offset) ==
  [dep |-> db.events[t][n].stop, arr |-> db.events[t][n + 1].stop,
   depTime |-> Dep(t, n) + offset, arrTime |-> Arr(t, n + 1) + offset, trip |-> t, seq |-> n]

LEMMA ConnectionOf ==
  ASSUME NEW services, NEW offset, NEW c
  PROVE  c \in ConnectionsForServices(services, offset) <=>
           \E t \in TripsOf(services) : \E n \in 1..Last(t) - 1 : c = Conn(t, n, offset)
<1>1. c \in ConnectionsForServices(services, offset) <=>
        \E h \in Hops(services) :
          c = [dep |-> h.dep.stop, arr |-> h.arr.stop,
               depTime |-> h.dep.departure_time + offset, arrTime |-> h.arr.arrival_time + offset,
               trip |-> h.trip_id, seq |-> h.n]
  BY DEF ConnectionsForServices
<1>2. ASSUME NEW t, NEW n
      PROVE  [dep |-> Hop(t, n).dep.stop, arr |-> Hop(t, n).arr.stop,
              depTime |-> Hop(t, n).dep.departure_time + offset,
              arrTime |-> Hop(t, n).arr.arrival_time + offset,
              trip |-> Hop(t, n).trip_id, seq |-> Hop(t, n).n] = Conn(t, n, offset)
  BY DEF Hop, Conn, Dep, Arr
<1> QED BY <1>1, <1>2, HopIs

\* Nothing but the hops of today's trips and, a day back, of yesterday's.
LEMMA ConnectionIs ==
  ASSUME NEW m, NEW c
  PROVE  c \in Connections(m) <=>
           \/ \E t \in TripsOf(ActiveServices(Date(m))) : \E n \in 1..Last(t) - 1 : c = Conn(t, n, 0)
           \/ \E t \in TripsOf(ActiveServices(Date(m) - 1)) : \E n \in 1..Last(t) - 1 :
                c = Conn(t, n, - DayLength)
BY ConnectionOf DEF Connections

LEMMA ConnectionRises ==
  ASSUME db \in Databases, NEW m \in Int, NEW c \in Connections(m)
  PROVE  c.depTime <= c.arrTime
<1>1. PICK t \in Trips, offset \in {0, - DayLength} : \E n \in 1..Last(t) - 1 : c = Conn(t, n, offset)
  BY ConnectionIs DEF TripsOf
<1>2. PICK n \in 1..Last(t) - 1 : c = Conn(t, n, offset)
  BY <1>1
<1>3. offset \in Int
  BY DaysAssumption
<1>4. n \in 1..Last(t) /\ n + 1 \in 1..Last(t) /\ n < n + 1
  <2>1. Last(t) \in Nat
    BY TripTimes
  <2> QED BY <2>1
<1>5. Dep(t, n) <= Arr(t, n + 1) /\ Dep(t, n) \in Int /\ Arr(t, n + 1) \in Int
  BY <1>4, TripTimes
<1>6. c.depTime = Dep(t, n) + offset /\ c.arrTime = Arr(t, n + 1) + offset
  BY <1>2 DEF Conn
<1> QED BY <1>3, <1>5, <1>6

\* The clock, the vehicles and the answers keep their types (TypeOK).
THEOREM DaysTypes == Spec => []TypeOK
<1>t. ASSUME IInv PROVE TypeOK
  <2>1. db \in Databases /\ now \in Start..Finish /\ now \in Int /\ aborted \in BOOLEAN
        /\ MaxVehicles \in Nat
    BY <1>t, DaysAssumption DEF IInv
  <2>2. /\ Cardinality(vehicles) <= MaxVehicles
        /\ \A v \in vehicles : v.trip_id \in Trips /\ v.n \in Nat \ {0} /\ v.gone \in 0..v.span
    <3>1. CASE vehicles = {}
      BY <2>1, <3>1, FS_EmptySet
    <3>2. CASE \E m \in Start..now : vehicles = Segments(m)
      <4>1. PICK m \in Int : vehicles = Segments(m)
        BY <2>1, <3>2, DaysAssumption
      <4>2. Cardinality(Moving(m)) \in Int
        BY <2>1, BusesOfTwoDays
      <4>3. Cardinality(vehicles) <= MaxVehicles
        <5>1. Cardinality(vehicles) = Min({Cardinality(Moving(m)), MaxVehicles})
          BY <2>1, <4>1, ShownNumber
        <5>2. MaxVehicles \in Int
          BY <2>1
        <5>3. Cardinality(vehicles) = IF Cardinality(Moving(m)) <= MaxVehicles
                                        THEN Cardinality(Moving(m)) ELSE MaxVehicles
          BY <4>2, <5>1, <5>2, LesserOfTwo, Zenon
        <5> QED BY <4>2, <5>2, <5>3
      <4>4. ASSUME NEW v \in vehicles
            PROVE  v.trip_id \in Trips /\ v.n \in Nat \ {0} /\ v.gone \in 0..v.span
        BY <2>1, <4>1, RowIs
      <4> QED BY <4>3, <4>4
    <3> QED BY <1>t, <3>1, <3>2 DEF IInv
  <2>3. ASSUME request # NoAnswer, request.kind = "plan", NEW c \in answer
        PROVE  c.depTime <= c.arrTime
    <3>1. answer = Connections(now)
      BY <1>t, <2>3 DEF IInv, Answers
    <3> QED BY <2>1, <2>3, <3>1, ConnectionRises
  <2> QED BY <2>1, <2>2, <2>3, Zenon DEF TypeOK
<1> QED BY <1>t, DaysInvariant, PTL

-----------------------------------------------------------------------------
(* The departure board *)

\* The call of a run of a date is due at a stop within a window.
DueAt(t, n, date, stop, at, window) ==
  /\ t \in TripsOf(ActiveServices(date)) /\ n \in 1..Last(t) - 1
  /\ db.events[t][n].stop = stop
  /\ at <= date * DayLength + Dep(t, n) /\ date * DayLength + Dep(t, n) <= at + window

Offsets == {-1, 0, 1}

\* The shifted and cut window of a service day is the window.
LEMMA OfDayIs ==
  ASSUME db \in Databases, NEW at \in Int, NEW window \in Nat, NEW offset \in Offsets,
         NEW stop, NEW row
  PROVE  row \in OfDay(stop, at, window, offset) <=>
           \E t \in Trips : \E n \in 1..Last(t) - 1 :
             /\ DueAt(t, n, Date(at) + offset, stop, at, window)
             /\ row = [trip_id |-> t, n |-> n]
<1> DEFINE date == Date(at) + offset
           from == TimeOfDay(at) - offset * DayLength
           to   == from + window
           a    == date * DayLength
<1>1. /\ date \in Int /\ a \in Int /\ from \in Int /\ from = at - a /\ DayLength \in Nat \ {0}
  <2> DEFINE b == Date(at) * DayLength
  <2>1. /\ Date(at) \in Int /\ b \in Int /\ at = b + TimeOfDay(at) /\ TimeOfDay(at) \in Int
        /\ (Date(at) - 1) * DayLength = b - DayLength
        /\ (Date(at) + 1) * DayLength = b + DayLength
        /\ DayLength \in Nat \ {0}
    BY ClockIs, Midnights
  <2>2. CASE offset = -1
    <3>1. date = Date(at) - 1 /\ from = TimeOfDay(at) + DayLength
      BY <2>1, <2>2
    <3>2. a = b - DayLength
      BY <2>1, <3>1, Zenon
    <3>3. date \in Int
      BY <2>1, <3>1
    <3> HIDE DEF a, b, from, date
    <3>4. a \in Int /\ from \in Int /\ from = at - a
      BY <2>1, <3>1, <3>2
    <3> QED BY <2>1, <3>3, <3>4
  <2>3. CASE offset = 0
    <3>1. date = Date(at) /\ from = TimeOfDay(at)
      BY <2>1, <2>3
    <3>2. a = b
      BY <3>1, Zenon
    <3> HIDE DEF a, b, from, date
    <3> QED BY <2>1, <3>1, <3>2
  <2>4. CASE offset = 1
    <3>1. date = Date(at) + 1 /\ from = TimeOfDay(at) - DayLength
      BY <2>1, <2>4
    <3>2. a = b + DayLength
      BY <2>1, <3>1, Zenon
    <3> HIDE DEF a, b, from, date
    <3> QED BY <2>1, <3>1, <3>2
  <2> QED BY <2>2, <2>3, <2>4 DEF Offsets
<1> HIDE DEF date, from, a
<1>2. ASSUME NEW t \in Trips, NEW n \in 1..Last(t) - 1
      PROVE  n \in 1..Last(t) /\ n \in DOMAIN db.events[t] /\ n < Last(t) /\ Dep(t, n) \in Nat
  <2>1. Last(t) \in Nat
    BY TripTimes
  <2>2. n \in 1..Last(t) /\ n < Last(t)
    BY <2>1
  <2> QED BY <2>2, TripTimes
<1>3. ASSUME NEW lo \in Int, NEW hi \in Int
      PROVE  row \in ScheduledDepartures(stop, ActiveServices(date), lo, hi) <=>
               \E t \in TripsOf(ActiveServices(date)) : \E n \in 1..Last(t) - 1 :
                 /\ db.events[t][n].stop = stop /\ lo <= Dep(t, n) /\ Dep(t, n) <= hi
                 /\ row = [trip_id |-> t, n |-> n]
  <2>1. row \in ScheduledDepartures(stop, ActiveServices(date), lo, hi) <=>
          \E t \in TripsOf(ActiveServices(date)) : \E n \in DOMAIN db.events[t] :
            DepartsWithin(t, n, stop, lo, hi) /\ row = [trip_id |-> t, n |-> n]
    BY DEF ScheduledDepartures
  <2>2. ASSUME NEW t \in Trips, NEW n
        PROVE  n \in DOMAIN db.events[t] /\ DepartsWithin(t, n, stop, lo, hi) <=>
                 /\ n \in 1..Last(t) - 1
                 /\ db.events[t][n].stop = stop /\ lo <= Dep(t, n) /\ Dep(t, n) <= hi
    <3>1. DOMAIN db.events[t] = 1..Last(t) /\ Last(t) \in Nat
      BY TripTimes
    <3>2. n \in 1..Last(t) - 1 <=> n \in 1..Last(t) /\ n < Last(t)
      BY <3>1
    <3>3. DepartsWithin(t, n, stop, lo, hi) <=>
            /\ n < Last(t) /\ db.events[t][n].stop = stop /\ lo <= Dep(t, n) /\ Dep(t, n) <= hi
      BY DEF DepartsWithin, Last, Dep
    <3> QED BY <3>1, <3>2, <3>3, Zenon
  <2>3. TripsOf(ActiveServices(date)) \subseteq Trips
    BY DEF TripsOf
  <2> QED BY <2>1, <2>2, <2>3
<1>4. to \in Int /\ Max({from, 0}) = (IF from <= 0 THEN 0 ELSE from) /\ Max({from, 0}) \in Int
  <2>1. Max({from, 0}) = IF from <= 0 THEN 0 ELSE from
    BY <1>1, GreaterOfTwo
  <2> QED BY <1>1, <2>1
<1>5. ASSUME NEW t \in Trips, NEW n \in 1..Last(t) - 1
      PROVE  /\ (at <= a + Dep(t, n) /\ a + Dep(t, n) <= at + window) <=>
                  (from <= Dep(t, n) /\ Dep(t, n) <= to)
             /\ (from <= Dep(t, n) <=> Max({from, 0}) <= Dep(t, n))
             /\ to < 0 => ~(Dep(t, n) <= to)
  <2>1. Dep(t, n) \in Nat
    BY <1>2
  <2> QED BY <1>1, <1>4, <2>1
<1>6. CASE to < 0
  <2>1. OfDay(stop, at, window, offset) = {}
    BY <1>6 DEF OfDay, from
  <2>2. ASSUME NEW t \in Trips, NEW n \in 1..Last(t) - 1
        PROVE  ~DueAt(t, n, date, stop, at, window)
    BY <1>5, <1>6 DEF DueAt, a
  <2> QED BY <2>1, <2>2 DEF date
<1>7. CASE ~(to < 0)
  <2>1. OfDay(stop, at, window, offset) =
          ScheduledDepartures(stop, ActiveServices(date), Max({from, 0}), to)
    BY <1>7 DEF OfDay, from, date
  <2>2. row \in OfDay(stop, at, window, offset) <=>
          \E t \in TripsOf(ActiveServices(date)) : \E n \in 1..Last(t) - 1 :
            /\ db.events[t][n].stop = stop /\ Max({from, 0}) <= Dep(t, n) /\ Dep(t, n) <= to
            /\ row = [trip_id |-> t, n |-> n]
    BY <1>3, <1>4, <2>1
  <2>3. ASSUME NEW t \in Trips, NEW n \in 1..Last(t) - 1
        PROVE  DueAt(t, n, date, stop, at, window) <=>
                 /\ t \in TripsOf(ActiveServices(date)) /\ db.events[t][n].stop = stop
                 /\ Max({from, 0}) <= Dep(t, n) /\ Dep(t, n) <= to
    BY <1>5 DEF DueAt, a
  <2>4. TripsOf(ActiveServices(date)) \subseteq Trips
    BY DEF TripsOf
  <2> QED BY <2>2, <2>3, <2>4 DEF date
<1> QED BY <1>1, <1>4, <1>6, <1>7

Departure(t, n, offset, at) ==
  [trip_id |-> t, n |-> n, offset |-> offset,
   departure_at |-> (Date(at) + offset) * DayLength + Dep(t, n)]

\* The rows of the board are the calls due on the three dates.
LEMMA DepartureIs ==
  ASSUME db \in Databases, NEW at \in Int, NEW window \in Nat, NEW stop, NEW row
  PROVE  row \in Departures(stop, at, window) <=>
           \E offset \in Offsets : \E t \in Trips : \E n \in 1..Last(t) - 1 :
             /\ DueAt(t, n, Date(at) + offset, stop, at, window)
             /\ row = Departure(t, n, offset, at)
<1>1. row \in Departures(stop, at, window) <=>
        \E offset \in Offsets : \E call \in OfDay(stop, at, window, offset) :
          row = Departure(call.trip_id, call.n, offset, at)
  BY DEF Departures, Departure, Offsets, Dep
<1>2. ASSUME NEW t, NEW n
      PROVE  [trip_id |-> t, n |-> n].trip_id = t /\ [trip_id |-> t, n |-> n].n = n
  OBVIOUS
<1>3. ASSUME NEW offset \in Offsets
      PROVE  (\E call \in OfDay(stop, at, window, offset) :
                row = Departure(call.trip_id, call.n, offset, at)) <=>
             \E t \in Trips : \E n \in 1..Last(t) - 1 :
               /\ DueAt(t, n, Date(at) + offset, stop, at, window)
               /\ row = Departure(t, n, offset, at)
  <2>1. ASSUME NEW call \in OfDay(stop, at, window, offset),
               row = Departure(call.trip_id, call.n, offset, at)
        PROVE  \E t \in Trips : \E n \in 1..Last(t) - 1 :
                 /\ DueAt(t, n, Date(at) + offset, stop, at, window)
                 /\ row = Departure(t, n, offset, at)
    <3>1. PICK t \in Trips : \E n \in 1..Last(t) - 1 :
            DueAt(t, n, Date(at) + offset, stop, at, window) /\ call = [trip_id |-> t, n |-> n]
      BY OfDayIs
    <3>2. PICK n \in 1..Last(t) - 1 :
            DueAt(t, n, Date(at) + offset, stop, at, window) /\ call = [trip_id |-> t, n |-> n]
      BY <3>1
    <3>3. row = Departure(t, n, offset, at)
      BY <2>1, <3>2, <1>2
    <3> QED BY <3>2, <3>3
  <2>2. ASSUME NEW t \in Trips, NEW n \in 1..Last(t) - 1,
               DueAt(t, n, Date(at) + offset, stop, at, window), row = Departure(t, n, offset, at)
        PROVE  \E call \in OfDay(stop, at, window, offset) :
                 row = Departure(call.trip_id, call.n, offset, at)
    <3>1. [trip_id |-> t, n |-> n] \in OfDay(stop, at, window, offset)
      BY <2>2, OfDayIs
    <3>2. row = Departure([trip_id |-> t, n |-> n].trip_id, [trip_id |-> t, n |-> n].n, offset, at)
      BY <2>2, <1>2, Zenon
    <3> QED BY <3>1, <3>2
  <2> QED BY <2>1, <2>2
<1> QED BY <1>1, <1>3, Zenon

\* What a row says of its call.
LEMMA RowSays ==
  ASSUME db \in Databases, NEW at \in Int, NEW window \in Nat, NEW stop,
         NEW row \in Departures(stop, at, window)
  PROVE  /\ row.offset \in Offsets /\ row.offset \in Int /\ row.trip_id \in Trips
         /\ row.trip_id \in Int /\ row.n \in 1..Last(row.trip_id) - 1
         /\ row.n \in 1..Last(row.trip_id) /\ row.n \in Int
         /\ DueAt(row.trip_id, row.n, Date(at) + row.offset, stop, at, window)
         /\ row = Departure(row.trip_id, row.n, row.offset, at)
         /\ row.departure_at = (Date(at) + row.offset) * DayLength + Dep(row.trip_id, row.n)
         /\ row.departure_at \in Int
<1>1. PICK offset \in Offsets, t \in Trips : \E n \in 1..Last(t) - 1 :
        DueAt(t, n, Date(at) + offset, stop, at, window) /\ row = Departure(t, n, offset, at)
  BY DepartureIs
<1>2. PICK n \in 1..Last(t) - 1 :
        DueAt(t, n, Date(at) + offset, stop, at, window) /\ row = Departure(t, n, offset, at)
  BY <1>1
<1>3. /\ row.offset = offset /\ row.trip_id = t /\ row.n = n
      /\ row.departure_at = (Date(at) + offset) * DayLength + Dep(t, n)
  BY <1>2 DEF Departure
<1>4. Last(t) \in Nat /\ t \in Int
  BY TripTimes
<1>5. n \in 1..Last(t) /\ n \in Int
  BY <1>4
<1>6. offset \in Int
  BY DEF Offsets
<1>7. Dep(t, n) \in Int
  BY <1>5, TripTimes
<1>8. (Date(at) + offset) * DayLength \in Int
  <2>1. Date(at) + offset \in Int
    BY <1>6, ClockIs
  <2> QED BY <2>1, Midnights
<1>9. row.departure_at \in Int
  <2> DEFINE a == (Date(at) + offset) * DayLength
  <2>1. a \in Int /\ row.departure_at = a + Dep(t, n)
    BY <1>3, <1>8
  <2> HIDE DEF a
  <2> QED BY <1>7, <2>1
<1> QED BY <1>2, <1>3, <1>4, <1>5, <1>6, <1>9, Zenon

\* There are finitely many rows, and their keys put them into an order.
LEMMA DeparturesInOrder ==
  ASSUME db \in Databases, NEW at \in Int, NEW window \in Nat, NEW stop
  PROVE  /\ IsFiniteSet(Departures(stop, at, window))
         /\ IsStrictOrder(ByDeparture(Departures(stop, at, window)), Departures(stop, at, window))
<1> DEFINE rows  == Departures(stop, at, window)
           calls == [t \in Trips |-> {t} \X (1..Last(t))]
           all   == UNION {calls[t] : t \in Trips}
           key   == [row \in rows |-> <<<<row.trip_id, row.n>>, row.offset>>]
<1>1. \A row \in rows :
        /\ row.offset \in Offsets /\ row.offset \in Int /\ row.trip_id \in Trips
        /\ row.trip_id \in Int /\ row.n \in 1..Last(row.trip_id) /\ row.n \in Int
        /\ row = Departure(row.trip_id, row.n, row.offset, at)
        /\ row.departure_at \in Int
  BY RowSays
<1> HIDE DEF rows
<1>2. IsFiniteSet(all)
  <2>1. \A t \in Trips : IsFiniteSet(calls[t])
    <3> SUFFICES ASSUME NEW t \in Trips PROVE IsFiniteSet({t} \X (1..Last(t)))
      OBVIOUS
    <3>1. IsFiniteSet({t})
      BY FS_Singleton, Zenon
    <3>t. Last(t) \in Int
      BY TripTimes
    <3>2. IsFiniteSet(1..Last(t))
      BY <3>t, FS_Interval
    <3> QED BY <3>1, <3>2, FS_Product
  <2>2. DOMAIN calls = Trips /\ calls = [t \in Trips |-> calls[t]]
    OBVIOUS
  <2> HIDE DEF calls
  <2>3. IsFiniteSet({calls[t] : t \in Trips})
    BY <2>2, TripsFinite, FiniteImage
  <2> QED BY <2>1, <2>3, FS_UNION
<1>3. IsFiniteSet(all \X Offsets)
  <2>1. IsFiniteSet(Offsets)
    <3> DEFINE low == 0 - 1
    <3>1. low \in Int /\ Offsets \subseteq low..1
      BY DEF Offsets
    <3> HIDE DEF low
    <3>2. IsFiniteSet(low..1)
      BY <3>1, FS_Interval
    <3> QED BY <3>1, <3>2, FS_Subset
  <2> QED BY <1>2, <2>1, FS_Product
<1>4. key \in [rows -> all \X Offsets]
  <2>1. \A row \in rows : <<row.trip_id, row.n>> \in all
    <3> SUFFICES ASSUME NEW row \in rows PROVE \E t \in Trips : <<row.trip_id, row.n>> \in calls[t]
      OBVIOUS
    <3>1. row.trip_id \in Trips /\ <<row.trip_id, row.n>> \in calls[row.trip_id]
      BY <1>1
    <3> QED BY <3>1
  <2> HIDE DEF all
  <2> QED BY <1>1, <2>1
<1>5. \A q, r \in rows : key[q] = key[r] => q = r
  <2> SUFFICES ASSUME NEW q \in rows, NEW r \in rows, key[q] = key[r] PROVE q = r
    OBVIOUS
  <2>1. q.trip_id = r.trip_id /\ q.n = r.n /\ q.offset = r.offset
    OBVIOUS
  <2> QED BY <1>1, <2>1
<1>6. IsFiniteSet(rows)
  <2> HIDE DEF key, all
  <2> QED BY <1>3, <1>4, <1>5, FiniteSource
<1> DEFINE Less(q, r) ==
             \/ q.departure_at < r.departure_at
             \/ /\ q.departure_at = r.departure_at
                /\ \/ q.offset < r.offset
                   \/ q.offset = r.offset /\ q.trip_id < r.trip_id
                   \/ q.offset = r.offset /\ q.trip_id = r.trip_id /\ q.n < r.n
<1>7. \A q, r \in rows : <<q, r>> \in ByDeparture(rows) <=> Less(q, r)
  BY DEF ByDeparture
<1>8. \A q \in rows : ~Less(q, q)
  BY <1>1
<1>9. \A q, r \in rows : q # r => Less(q, r) \/ Less(r, q)
  <2> SUFFICES ASSUME NEW q \in rows, NEW r \in rows, ~Less(q, r), ~Less(r, q) PROVE q = r
    OBVIOUS
  <2>1. q.trip_id = r.trip_id /\ q.n = r.n /\ q.offset = r.offset
    BY <1>1
  <2> QED BY <1>1, <2>1
<1>10. \A p, q, r \in rows : Less(p, q) /\ Less(q, r) => Less(p, r)
  BY <1>1
<1>11. IsStrictOrder(ByDeparture(rows), rows)
  <2> HIDE DEF Less
  <2> QED BY <1>7, <1>8, <1>9, <1>10 DEF IsStrictOrder
<1> QED BY <1>6, <1>11 DEF rows

Announced(row) ==
  [trip_id |-> row.trip_id, stop_sequence |-> row.n, departure_at |-> row.departure_at]

\* The board is its rows, each once, in the order of departure.
LEMMA BoardIs ==
  ASSUME db \in Databases, NEW at \in Int, NEW window \in Nat, NEW stop
  PROVE  LET rows  == Departures(stop, at, window)
             board == Board(stop, at, window)
         IN  /\ Len(board) = Cardinality(rows)
             /\ Entries(board) = {Announced(row) : row \in rows}
             /\ \A i, j \in DOMAIN board :
                  i < j => board[i].departure_at <= board[j].departure_at
<1> DEFINE rows  == Departures(stop, at, window)
           list  == Sorted(rows, ByDeparture(rows))
           board == Board(stop, at, window)
<1>1. IsFiniteSet(rows) /\ IsStrictOrder(ByDeparture(rows), rows)
  BY DeparturesInOrder
<1>2. \A row \in rows : row.departure_at \in Int
  BY RowSays
<1>3. board = [i \in 1..Cardinality(rows) |-> Announced(list[i])]
  BY DEF Board, Announced
<1> HIDE DEF rows, board
<1>4. /\ Cardinality(rows) \in Nat /\ list \in [1..Cardinality(rows) -> rows]
      /\ DOMAIN list = 1..Cardinality(rows)
      /\ \A row \in rows : \E i \in DOMAIN list : list[i] = row
      /\ \A i, j \in DOMAIN list : i < j => <<list[i], list[j]>> \in ByDeparture(rows)
  BY <1>1, SortedLists
<1> HIDE DEF list
<1>5. Len(board) = Cardinality(rows) /\ DOMAIN board = 1..Cardinality(rows)
  BY <1>3, <1>4
<1>6. Entries(board) = {Announced(row) : row \in rows}
  BY <1>3, <1>4 DEF Entries
<1>7. ASSUME NEW i \in DOMAIN board, NEW j \in DOMAIN board, i < j
      PROVE  board[i].departure_at <= board[j].departure_at
  <2>1. /\ list[i] \in rows /\ list[j] \in rows
        /\ board[i] = Announced(list[i]) /\ board[j] = Announced(list[j])
        /\ <<list[i], list[j]>> \in ByDeparture(rows)
    BY <1>3, <1>4, <1>5, <1>7
  <2>2. list[i].departure_at <= list[j].departure_at
    BY <1>2, <2>1 DEF ByDeparture
  <2>3. /\ board[i].departure_at = list[i].departure_at
        /\ board[j].departure_at = list[j].departure_at
    BY <2>1 DEF Announced
  <2> QED BY <2>2, <2>3
<1> QED BY <1>5, <1>6, <1>7 DEF rows, board

Due(stop, at, window) ==
  UNION {{[run |-> r, n |-> n] : n \in {k \in 1..Len(db.events[r.trip]) - 1 :
            /\ db.events[r.trip][k].stop = stop
            /\ at <= LeavesAt(r, k) /\ LeavesAt(r, k) <= at + window}} :
         r \in RunsAbout(at)}

\* The departures of runs within a window of a day are those of the three dates
\* that the board asks about.
LEMMA DueIs ==
  ASSUME db \in Databases, NEW at \in Int, NEW window \in 0..DayLength, NEW stop, NEW d
  PROVE  d \in Due(stop, at, window) <=>
           \E offset \in Offsets : \E t \in Trips : \E n \in 1..Last(t) - 1 :
             /\ DueAt(t, n, Date(at) + offset, stop, at, window)
             /\ d = [run |-> Run(t, Date(at) + offset), n |-> n]
<1>0. Date(at) \in Int
  BY ClockIs
<1>1. d \in Due(stop, at, window) <=>
        \E r \in RunsAbout(at) : \E n \in 1..Last(r.trip) - 1 :
          /\ db.events[r.trip][n].stop = stop
          /\ at <= LeavesAt(r, n) /\ LeavesAt(r, n) <= at + window
          /\ d = [run |-> r, n |-> n]
  BY DEF Due, Last
<1>2. ASSUME NEW r \in RunsAbout(at), NEW n \in 1..Last(r.trip) - 1,
             db.events[r.trip][n].stop = stop,
             at <= LeavesAt(r, n), LeavesAt(r, n) <= at + window,
             d = [run |-> r, n |-> n]
      PROVE  \E offset \in Offsets : \E t \in Trips : \E k \in 1..Last(t) - 1 :
               /\ DueAt(t, k, Date(at) + offset, stop, at, window)
               /\ d = [run |-> Run(t, Date(at) + offset), n |-> k]
  <2> DEFINE t == r.trip
             a == r.date * DayLength
             b == Date(at) * DayLength
             offset == r.date - Date(at)
  <2>1. /\ t \in Trips /\ r.date \in Date(at) - 1..Date(at) + 2 /\ r.date \in Int
        /\ r = Run(t, r.date)
    BY RunOf
  <2>2. Last(t) \in Nat
    BY <2>1, TripTimes
  <2>3. n \in 1..Last(t)
    BY <2>2
  <2>4. Dep(t, n) \in Nat
    BY <2>1, <2>3, TripTimes
  <2>5. LeavesAt(r, n) = a + Dep(t, n)
    BY DEF LeavesAt, Dep
  <2>6. r.date # Date(at) + 2
    <3> SUFFICES ASSUME r.date = Date(at) + 2 PROVE FALSE
      OBVIOUS
    <3>1. (Date(at) + 2) * DayLength = b + DayLength + DayLength /\ DayLength \in Nat /\ b \in Int
      BY <1>0, Midnights
    <3>2. a = b + DayLength + DayLength
      BY <3>1, Zenon
    <3>3. at = b + TimeOfDay(at) /\ TimeOfDay(at) \in Int /\ TimeOfDay(at) < DayLength
      BY ClockIs
    <3>4. window \in Int /\ window <= DayLength
      BY <3>1
    <3>5. a + Dep(t, n) <= at + window
      BY <1>2, <2>5
    <3> HIDE DEF a, b, t
    <3> QED BY <2>4, <3>1, <3>2, <3>3, <3>4, <3>5
  <2>7. offset \in Offsets /\ Date(at) + offset = r.date
    <3>1. r.date = Date(at) - 1 \/ r.date = Date(at) \/ r.date = Date(at) + 1
      BY <1>0, <2>1, <2>6
    <3> QED BY <1>0, <3>1 DEF Offsets
  <2>8. r.date \in Date(at) - 1..Date(at) + 2 /\ Run(t, r.date) \in RunsAbout(at)
    BY <2>1, Zenon
  <2>9. t \in TripsOf(ActiveServices(r.date))
    BY <2>1, <2>8, RunIs
  <2>10. DueAt(t, n, r.date, stop, at, window)
    BY <1>2, <2>5, <2>9 DEF DueAt
  <2>11. DueAt(t, n, Date(at) + offset, stop, at, window)
         /\ d = [run |-> Run(t, Date(at) + offset), n |-> n]
    BY <1>2, <2>1, <2>7, <2>10
  <2> HIDE DEF offset
  <2> QED BY <2>1, <2>7, <2>11
<1>3. ASSUME NEW offset \in Offsets, NEW t \in Trips, NEW n \in 1..Last(t) - 1,
             DueAt(t, n, Date(at) + offset, stop, at, window),
             d = [run |-> Run(t, Date(at) + offset), n |-> n]
      PROVE  d \in Due(stop, at, window)
  <2> DEFINE date == Date(at) + offset
  <2>1. date \in Date(at) - 1..Date(at) + 2
    BY <1>0 DEF Offsets
  <2>2. Run(t, date) \in RunsAbout(at)
    BY <1>3, <2>1, RunIs DEF DueAt
  <2>3. Run(t, date).trip = t /\ LeavesAt(Run(t, date), n) = date * DayLength + Dep(t, n)
    BY DEF Run, LeavesAt, Dep
  <2>4. /\ n \in 1..Last(Run(t, date).trip) - 1 /\ db.events[Run(t, date).trip][n].stop = stop
        /\ at <= LeavesAt(Run(t, date), n) /\ LeavesAt(Run(t, date), n) <= at + window
        /\ d = [run |-> Run(t, date), n |-> n]
    BY <1>3, <2>3 DEF DueAt
  <2> HIDE DEF date
  <2> QED BY <1>1, <2>2, <2>4
<1> QED BY <1>1, <1>2, <1>3

\* Each of them is one row.
LEMMA DueNumber ==
  ASSUME db \in Databases, NEW at \in Int, NEW window \in 0..DayLength, NEW stop
  PROVE  /\ Cardinality(Due(stop, at, window)) = Cardinality(Departures(stop, at, window))
         /\ {Announced(row) : row \in Departures(stop, at, window)} =
              {[trip_id |-> d.run.trip, stop_sequence |-> d.n,
                departure_at |-> LeavesAt(d.run, d.n)] : d \in Due(stop, at, window)}
<1> DEFINE rows == Departures(stop, at, window)
           due  == Due(stop, at, window)
           call == [row \in rows |-> [run |-> Run(row.trip_id, Date(at) + row.offset), n |-> row.n]]
           Says(d) == [trip_id |-> d.run.trip, stop_sequence |-> d.n,
                       departure_at |-> LeavesAt(d.run, d.n)]
<1>0. window \in Nat /\ Date(at) \in Int
  BY DaysAssumption, ClockIs
<1>1. ASSUME NEW row \in rows
      PROVE  /\ row.offset \in Int /\ row = Departure(row.trip_id, row.n, row.offset, at)
             /\ call[row] \in due /\ Says(call[row]) = Announced(row)
  <2>1. /\ row.offset \in Offsets /\ row.offset \in Int /\ row.trip_id \in Trips
        /\ row.n \in 1..Last(row.trip_id) - 1
        /\ DueAt(row.trip_id, row.n, Date(at) + row.offset, stop, at, window)
        /\ row = Departure(row.trip_id, row.n, row.offset, at)
        /\ row.departure_at = (Date(at) + row.offset) * DayLength + Dep(row.trip_id, row.n)
    BY <1>0, RowSays
  <2>2. call[row] \in due
    BY <2>1, DueIs
  <2>3. /\ call[row].run.trip = row.trip_id /\ call[row].n = row.n
        /\ call[row].run.date = Date(at) + row.offset
    BY DEF Run
  <2>4. LeavesAt(call[row].run, call[row].n) = row.departure_at
    BY <2>1, <2>3 DEF LeavesAt, Dep
  <2> HIDE DEF call
  <2> QED BY <2>1, <2>2, <2>3, <2>4 DEF Announced
<1>2. call \in [rows -> due]
  BY <1>1
<1>3. ASSUME NEW q \in rows, NEW r \in rows, call[q] = call[r] PROVE q = r
  <2>1. /\ call[q].run.trip = q.trip_id /\ call[q].n = q.n
        /\ call[q].run.date = Date(at) + q.offset
        /\ call[r].run.trip = r.trip_id /\ call[r].n = r.n
        /\ call[r].run.date = Date(at) + r.offset
    BY DEF Run
  <2>2. q.trip_id = r.trip_id /\ q.n = r.n /\ Date(at) + q.offset = Date(at) + r.offset
    <3> HIDE DEF call
    <3> QED BY <1>3, <2>1, Zenon
  <2>3. q.offset \in Int /\ r.offset \in Int
    BY <1>1
  <2> HIDE DEF call, rows
  <2>4. q.offset = r.offset
    <3>1. Date(at) + q.offset = Date(at) + r.offset
      BY <2>2
    <3> QED BY <1>0, <2>3, <3>1
  <2> QED BY <1>1, <2>2, <2>4
<1>4. ASSUME NEW d \in due PROVE \E row \in rows : call[row] = d
  <2>1. PICK offset \in Offsets, t \in Trips : \E n \in 1..Last(t) - 1 :
          /\ DueAt(t, n, Date(at) + offset, stop, at, window)
          /\ d = [run |-> Run(t, Date(at) + offset), n |-> n]
    BY DueIs
  <2>2. PICK n \in 1..Last(t) - 1 :
          /\ DueAt(t, n, Date(at) + offset, stop, at, window)
          /\ d = [run |-> Run(t, Date(at) + offset), n |-> n]
    BY <2>1
  <2>3. Departure(t, n, offset, at) \in rows
    BY <1>0, <2>2, DepartureIs
  <2>4. /\ Departure(t, n, offset, at).trip_id = t /\ Departure(t, n, offset, at).n = n
        /\ Departure(t, n, offset, at).offset = offset
    BY DEF Departure
  <2>5. call[Departure(t, n, offset, at)] = d
    BY <2>2, <2>3, <2>4
  <2> QED BY <2>3, <2>5
<1>5. IsFiniteSet(rows)
  BY <1>0, DeparturesInOrder
<1> HIDE DEF rows, due, call
<1>6. Cardinality(due) = Cardinality(rows)
  BY <1>2, <1>3, <1>4, <1>5, SameNumber
<1>7. {Announced(row) : row \in rows} = {Says(d) : d \in due}
  <2> HIDE DEF Says
  <2>1. \A row \in rows : \E d \in due : Announced(row) = Says(d)
    BY <1>1
  <2>2. \A d \in due : \E row \in rows : Announced(row) = Says(d)
    BY <1>1, <1>4
  <2> QED BY <2>1, <2>2
<1> QED BY <1>6, <1>7 DEF rows, due

\* The board lists each bus that leaves within the window once, sorted (BoardComplete).
THEOREM BoardIsComplete == Spec => []BoardComplete
<1>1. ASSUME IInv, request # NoAnswer, request.kind = "departures"
      PROVE  /\ Entries(answer) = {[trip_id |-> d.run.trip, stop_sequence |-> d.n,
                                    departure_at |-> LeavesAt(d.run, d.n)] :
                                     d \in Due(request.stop, now, request.window)}
             /\ Len(answer) = Cardinality(Due(request.stop, now, request.window))
             /\ \A i, j \in DOMAIN answer :
                  i < j => answer[i].departure_at <= answer[j].departure_at
  <2>1. PICK stop \in Stops, window \in Windows :
          /\ request = [kind |-> "departures", stop |-> stop, window |-> window]
          /\ answer = Board(stop, now, window)
    BY <1>1 DEF IInv, Answers
  <2>2. /\ now \in Int /\ db \in Databases /\ window \in 0..DayLength /\ window \in Nat
        /\ request.stop = stop /\ request.window = window
    BY <1>1, <2>1, DaysAssumption DEF IInv
  <2>3. /\ Len(answer) = Cardinality(Departures(stop, now, window))
        /\ Entries(answer) = {Announced(row) : row \in Departures(stop, now, window)}
        /\ \A i, j \in DOMAIN answer :
             i < j => answer[i].departure_at <= answer[j].departure_at
    BY <2>1, <2>2, BoardIs
  <2>4. /\ Cardinality(Due(stop, now, window)) = Cardinality(Departures(stop, now, window))
        /\ {Announced(row) : row \in Departures(stop, now, window)} =
             {[trip_id |-> d.run.trip, stop_sequence |-> d.n,
               departure_at |-> LeavesAt(d.run, d.n)] : d \in Due(stop, now, window)}
    BY <2>2, DueNumber
  <2> QED BY <2>2, <2>3, <2>4
<1>2. IInv => BoardComplete
  BY <1>1 DEF BoardComplete, Due
<1> QED BY <1>2, DaysInvariant, PTL

-----------------------------------------------------------------------------
(* The planner and the board *)

\* The announced calls of the two dates whose midnight has passed.
Begun(stop, at, window) ==
  {d \in Entries(Board(stop, at, window)) :
     Date(d.departure_at - db.events[d.trip_id][d.stop_sequence].departure_time) <= Date(at)}

\* A row tells the midnight of its run.
LEMMA BegunIs ==
  ASSUME db \in Databases, NEW at \in Int, NEW window \in Nat, NEW stop, NEW x
  PROVE  (\E d \in Begun(stop, at, window) : x = <<d.trip_id, d.stop_sequence, d.departure_at>>) <=>
         \E offset \in {-1, 0} : \E t \in Trips : \E n \in 1..Last(t) - 1 :
           /\ DueAt(t, n, Date(at) + offset, stop, at, window)
           /\ x = <<t, n, (Date(at) + offset) * DayLength + Dep(t, n)>>
<1>0. Date(at) \in Int
  BY ClockIs
<1>1. Entries(Board(stop, at, window)) =
        {Announced(row) : row \in Departures(stop, at, window)}
  BY BoardIs
<1>2. ASSUME NEW row \in Departures(stop, at, window)
      PROVE  /\ Announced(row) \in Begun(stop, at, window) <=> row.offset \in {-1, 0}
             /\ Announced(row).trip_id = row.trip_id /\ Announced(row).stop_sequence = row.n
             /\ Announced(row).departure_at = row.departure_at
  <2> DEFINE a == (Date(at) + row.offset) * DayLength
  <2>1. /\ row.offset \in Offsets /\ row.offset \in Int /\ row.trip_id \in Trips
        /\ row.n \in 1..Last(row.trip_id)
        /\ row.departure_at = a + Dep(row.trip_id, row.n)
    BY RowSays
  <2>2. Dep(row.trip_id, row.n) \in Int
    BY <2>1, TripTimes
  <2>3. Date(at) + row.offset \in Int
    BY <1>0, <2>1
  <2>4. a \in Int /\ DayLength \in Nat \ {0}
    BY <2>3, Midnights
  <2>5. row.departure_at - Dep(row.trip_id, row.n) = a
    <3> HIDE DEF a
    <3> QED BY <2>1, <2>2, <2>4
  <2>6. a <= a /\ a < a + DayLength
    <3> HIDE DEF a
    <3> QED BY <2>4
  <2>7. Date(a) = Date(at) + row.offset
    BY <2>3, <2>4, <2>6, DateIs
  <2>8. /\ Announced(row).trip_id = row.trip_id /\ Announced(row).stop_sequence = row.n
        /\ Announced(row).departure_at = row.departure_at
    BY DEF Announced
  <2>9. Announced(row) \in Begun(stop, at, window) <=> Date(at) + row.offset <= Date(at)
    <3> HIDE DEF a
    <3>1. Announced(row) \in Entries(Board(stop, at, window))
      BY <1>1
    <3>2. Date(Announced(row).departure_at
               - db.events[Announced(row).trip_id][Announced(row).stop_sequence].departure_time)
            = Date(at) + row.offset
      BY <2>5, <2>7, <2>8 DEF Dep
    <3> QED BY <3>1, <3>2 DEF Begun
  <2>10. Date(at) + row.offset <= Date(at) <=> row.offset \in {-1, 0}
    BY <1>0, <2>1 DEF Offsets
  <2> HIDE DEF a
  <2> QED BY <2>8, <2>9, <2>10
<1>3. ASSUME NEW d \in Begun(stop, at, window),
             x = <<d.trip_id, d.stop_sequence, d.departure_at>>
      PROVE  \E offset \in {-1, 0} : \E t \in Trips : \E n \in 1..Last(t) - 1 :
               /\ DueAt(t, n, Date(at) + offset, stop, at, window)
               /\ x = <<t, n, (Date(at) + offset) * DayLength + Dep(t, n)>>
  <2>1. PICK row \in Departures(stop, at, window) : d = Announced(row)
    BY <1>1 DEF Begun
  <2>2. /\ row.offset \in {-1, 0} /\ x = <<row.trip_id, row.n, row.departure_at>>
    BY <1>2, <1>3, <2>1
  <2>3. /\ row.trip_id \in Trips /\ row.n \in 1..Last(row.trip_id) - 1
        /\ DueAt(row.trip_id, row.n, Date(at) + row.offset, stop, at, window)
        /\ row.departure_at = (Date(at) + row.offset) * DayLength + Dep(row.trip_id, row.n)
    BY RowSays
  <2>4. x = <<row.trip_id, row.n, (Date(at) + row.offset) * DayLength + Dep(row.trip_id, row.n)>>
    BY <2>2, <2>3, Zenon
  <2> QED BY <2>2, <2>3, <2>4
<1>4. ASSUME NEW offset \in {-1, 0}, NEW t \in Trips, NEW n \in 1..Last(t) - 1,
             DueAt(t, n, Date(at) + offset, stop, at, window),
             x = <<t, n, (Date(at) + offset) * DayLength + Dep(t, n)>>
      PROVE  \E d \in Begun(stop, at, window) : x = <<d.trip_id, d.stop_sequence, d.departure_at>>
  <2> DEFINE row == Departure(t, n, offset, at)
  <2>1. offset \in Offsets
    BY DEF Offsets
  <2>2. row \in Departures(stop, at, window)
    BY <1>4, <2>1, DepartureIs
  <2>3. /\ row.trip_id = t /\ row.n = n /\ row.offset = offset
        /\ row.departure_at = (Date(at) + offset) * DayLength + Dep(t, n)
    BY DEF Departure
  <2> HIDE DEF row
  <2>4. /\ Announced(row) \in Begun(stop, at, window)
        /\ Announced(row).trip_id = t /\ Announced(row).stop_sequence = n
        /\ Announced(row).departure_at = (Date(at) + offset) * DayLength + Dep(t, n)
    BY <1>2, <2>2, <2>3
  <2>5. x = <<Announced(row).trip_id, Announced(row).stop_sequence, Announced(row).departure_at>>
    BY <1>4, <2>4, Zenon
  <2> QED BY <2>4, <2>5
<1> QED BY <1>3, <1>4

Near(stop, at, window) ==
  {c \in Connections(at) : /\ c.dep = stop /\ TimeOfDay(at) <= c.depTime
                           /\ c.depTime <= TimeOfDay(at) + window}

\* The planner's connections from a stop, put back on the date's own clock.
LEMMA NearIs ==
  ASSUME db \in Databases, NEW at \in Int, NEW window \in Nat, NEW stop, NEW x
  PROVE  (\E c \in Near(stop, at, window) :
            x = <<c.trip, c.seq, Date(at) * DayLength + c.depTime>>) <=>
         \E offset \in {-1, 0} : \E t \in Trips : \E n \in 1..Last(t) - 1 :
           /\ DueAt(t, n, Date(at) + offset, stop, at, window)
           /\ x = <<t, n, (Date(at) + offset) * DayLength + Dep(t, n)>>
<1> DEFINE b == Date(at) * DayLength
<1>0. /\ Date(at) \in Int /\ b \in Int /\ DayLength \in Nat \ {0} /\ TimeOfDay(at) \in Int
      /\ at = b + TimeOfDay(at)
      /\ (Date(at) - 1) * DayLength = b - DayLength
  BY ClockIs, Midnights
<1>1. ASSUME NEW offset \in {-1, 0}
      PROVE  /\ offset * DayLength = (IF offset = 0 THEN 0 ELSE - DayLength)
             /\ offset * DayLength \in Int
             /\ (Date(at) + offset) * DayLength = b + offset * DayLength
             /\ Date(at) + offset = IF offset = 0 THEN Date(at) ELSE Date(at) - 1
  <2>1. CASE offset = 0
    <3>1. Date(at) + offset = Date(at) /\ offset * DayLength = 0
      BY <1>0, <2>1
    <3>2. (Date(at) + offset) * DayLength = b
      BY <3>1, Zenon
    <3> HIDE DEF b
    <3> QED BY <1>0, <2>1, <3>1, <3>2
  <2>2. CASE offset = -1
    <3>1. Date(at) + offset = Date(at) - 1 /\ offset * DayLength = - DayLength
      BY <1>0, <2>2
    <3>2. (Date(at) + offset) * DayLength = b - DayLength
      BY <1>0, <3>1, Zenon
    <3> HIDE DEF b
    <3> QED BY <1>0, <2>2, <3>1, <3>2
  <2> QED BY <2>1, <2>2
<1>2. ASSUME NEW offset \in {-1, 0}, NEW t \in Trips, NEW n \in 1..Last(t) - 1
      PROVE  LET c == Conn(t, n, offset * DayLength)
             IN  /\ c.trip = t /\ c.seq = n
                 /\ b + c.depTime = (Date(at) + offset) * DayLength + Dep(t, n)
                 /\ t \in TripsOf(ActiveServices(Date(at) + offset)) =>
                      (/\ c.dep = stop /\ TimeOfDay(at) <= c.depTime
                       /\ c.depTime <= TimeOfDay(at) + window)
                      <=> DueAt(t, n, Date(at) + offset, stop, at, window)
  <2> DEFINE c == Conn(t, n, offset * DayLength)
             o == offset * DayLength
             a == (Date(at) + offset) * DayLength
  <2>1. /\ c.trip = t /\ c.seq = n /\ c.dep = db.events[t][n].stop /\ c.depTime = Dep(t, n) + o
    BY DEF Conn
  <2>2. Last(t) \in Nat
    BY TripTimes
  <2>3. n \in 1..Last(t)
    BY <2>2
  <2>4. Dep(t, n) \in Int
    BY <2>3, TripTimes
  <2>5. o \in Int /\ a = b + o
    BY <1>1
  <2> HIDE DEF b, c, o, a
  <2>6. /\ b + c.depTime = a + Dep(t, n)
        /\ TimeOfDay(at) <= c.depTime <=> at <= a + Dep(t, n)
        /\ c.depTime <= TimeOfDay(at) + window <=> a + Dep(t, n) <= at + window
    BY <1>0, <2>1, <2>4, <2>5
  <2>7. t \in TripsOf(ActiveServices(Date(at) + offset)) =>
          (/\ c.dep = stop /\ TimeOfDay(at) <= c.depTime
           /\ c.depTime <= TimeOfDay(at) + window)
          <=> DueAt(t, n, Date(at) + offset, stop, at, window)
    BY <2>1, <2>6 DEF DueAt, a
  <2> QED BY <2>1, <2>6, <2>7 DEF b, a, c
<1>3. ASSUME NEW c
      PROVE  c \in Connections(at) <=>
               \E offset \in {-1, 0} : \E t \in Trips : \E n \in 1..Last(t) - 1 :
                 /\ t \in TripsOf(ActiveServices(Date(at) + offset))
                 /\ c = Conn(t, n, offset * DayLength)
  <2>1. TripsOf(ActiveServices(Date(at))) \subseteq Trips
        /\ TripsOf(ActiveServices(Date(at) - 1)) \subseteq Trips
    BY DEF TripsOf
  <2>2. /\ 0 * DayLength = 0 /\ (-1) * DayLength = - DayLength
        /\ Date(at) + 0 = Date(at) /\ Date(at) + (-1) = Date(at) - 1
    BY <1>0
  <2>3. (\E offset \in {-1, 0} : \E t \in Trips : \E n \in 1..Last(t) - 1 :
           /\ t \in TripsOf(ActiveServices(Date(at) + offset))
           /\ c = Conn(t, n, offset * DayLength)) <=>
        \/ \E t \in Trips : \E n \in 1..Last(t) - 1 :
             t \in TripsOf(ActiveServices(Date(at))) /\ c = Conn(t, n, 0)
        \/ \E t \in Trips : \E n \in 1..Last(t) - 1 :
             t \in TripsOf(ActiveServices(Date(at) - 1)) /\ c = Conn(t, n, - DayLength)
    <3> DEFINE Q(offset) == \E t \in Trips : \E n \in 1..Last(t) - 1 :
                              /\ t \in TripsOf(ActiveServices(Date(at) + offset))
                              /\ c = Conn(t, n, offset * DayLength)
    <3>1. (\E offset \in {-1, 0} : Q(offset)) <=> Q(0) \/ Q(-1)
      <4> HIDE DEF Q
      <4> QED OBVIOUS
    <3>2. Q(0) <=> \E t \in Trips : \E n \in 1..Last(t) - 1 :
                     t \in TripsOf(ActiveServices(Date(at))) /\ c = Conn(t, n, 0)
      BY <2>2, Zenon
    <3>3. Q(-1) <=> \E t \in Trips : \E n \in 1..Last(t) - 1 :
                      t \in TripsOf(ActiveServices(Date(at) - 1)) /\ c = Conn(t, n, - DayLength)
      BY <2>2, Zenon
    <3> QED BY <3>1, <3>2, <3>3, Zenon
  <2> QED BY <2>1, <2>3, ConnectionIs
<1>4. ASSUME NEW c \in Near(stop, at, window), x = <<c.trip, c.seq, b + c.depTime>>
      PROVE  \E offset \in {-1, 0} : \E t \in Trips : \E n \in 1..Last(t) - 1 :
               /\ DueAt(t, n, Date(at) + offset, stop, at, window)
               /\ x = <<t, n, (Date(at) + offset) * DayLength + Dep(t, n)>>
  <2>1. PICK offset \in {-1, 0}, t \in Trips : \E n \in 1..Last(t) - 1 :
          /\ t \in TripsOf(ActiveServices(Date(at) + offset))
          /\ c = Conn(t, n, offset * DayLength)
    BY <1>3 DEF Near
  <2>2. PICK n \in 1..Last(t) - 1 :
          /\ t \in TripsOf(ActiveServices(Date(at) + offset))
          /\ c = Conn(t, n, offset * DayLength)
    BY <2>1
  <2>3. /\ c.dep = stop /\ TimeOfDay(at) <= c.depTime
        /\ c.depTime <= TimeOfDay(at) + window
    BY DEF Near
  <2>4. /\ c.trip = t /\ c.seq = n
        /\ b + c.depTime = (Date(at) + offset) * DayLength + Dep(t, n)
        /\ DueAt(t, n, Date(at) + offset, stop, at, window)
    <3> HIDE DEF b
    <3> QED BY <1>2, <2>2, <2>3
  <2>5. x = <<t, n, (Date(at) + offset) * DayLength + Dep(t, n)>>
    BY <1>4, <2>4, Zenon
  <2> QED BY <2>4, <2>5
<1>5. ASSUME NEW offset \in {-1, 0}, NEW t \in Trips, NEW n \in 1..Last(t) - 1,
             DueAt(t, n, Date(at) + offset, stop, at, window),
             x = <<t, n, (Date(at) + offset) * DayLength + Dep(t, n)>>
      PROVE  \E c \in Near(stop, at, window) : x = <<c.trip, c.seq, b + c.depTime>>
  <2> DEFINE c == Conn(t, n, offset * DayLength)
  <2>1. t \in TripsOf(ActiveServices(Date(at) + offset))
    BY <1>5 DEF DueAt
  <2>2. c \in Connections(at)
    BY <1>3, <2>1
  <2>3. /\ c.trip = t /\ c.seq = n
        /\ b + c.depTime = (Date(at) + offset) * DayLength + Dep(t, n)
        /\ c.dep = stop /\ TimeOfDay(at) <= c.depTime
        /\ c.depTime <= TimeOfDay(at) + window
    <3> HIDE DEF b
    <3> QED BY <1>2, <1>5, <2>1
  <2> HIDE DEF c, b
  <2>4. c \in Near(stop, at, window)
    BY <2>2, <2>3 DEF Near
  <2>5. x = <<c.trip, c.seq, b + c.depTime>>
    BY <1>5, <2>3, Zenon
  <2> QED BY <2>4, <2>5
<1> QED BY <1>4, <1>5

\* Of the buses that the board would announce, the planner considers exactly those
\* whose service day has begun (PlannerSeesBoard).
THEOREM PlannerSeesAnnounced == Spec => []PlannerSeesBoard
<1>1. ASSUME IInv, request # NoAnswer, request.kind = "plan", NEW stop \in Stops, NEW window \in Windows
      PROVE  {<<d.trip_id, d.stop_sequence, d.departure_at>> : d \in Begun(stop, now, window)}
               = {<<c.trip, c.seq, Date(now) * DayLength + c.depTime>> :
                    c \in {x \in answer : /\ x.dep = stop /\ TimeOfDay(now) <= x.depTime
                                          /\ x.depTime <= TimeOfDay(now) + window}}
  <2>1. answer = Connections(now)
    BY <1>1 DEF IInv, Answers
  <2>2. now \in Int /\ db \in Databases /\ window \in Nat
    BY <1>1, DaysAssumption DEF IInv
  <2>3. {x \in answer : /\ x.dep = stop /\ TimeOfDay(now) <= x.depTime
                        /\ x.depTime <= TimeOfDay(now) + window} = Near(stop, now, window)
    BY <2>1 DEF Near
  <2>4. \A x : (\E d \in Begun(stop, now, window) : x = <<d.trip_id, d.stop_sequence, d.departure_at>>)
                 <=> \E c \in Near(stop, now, window) :
                       x = <<c.trip, c.seq, Date(now) * DayLength + c.depTime>>
    <3> TAKE x
    <3> DEFINE B == \E d \in Begun(stop, now, window) :
                      x = <<d.trip_id, d.stop_sequence, d.departure_at>>
               N == \E c \in Near(stop, now, window) :
                      x = <<c.trip, c.seq, Date(now) * DayLength + c.depTime>>
               Q == \E offset \in {-1, 0} : \E t \in Trips : \E n \in 1..Last(t) - 1 :
                      /\ DueAt(t, n, Date(now) + offset, stop, now, window)
                      /\ x = <<t, n, (Date(now) + offset) * DayLength + Dep(t, n)>>
    <3>1. B <=> Q
      BY <2>2, BegunIs
    <3>2. N <=> Q
      BY <2>2, NearIs
    <3> HIDE DEF B, N, Q
    <3>3. B <=> N
      BY <3>1, <3>2
    <3> QED BY <3>3 DEF B, N
  <2>5. {<<d.trip_id, d.stop_sequence, d.departure_at>> : d \in Begun(stop, now, window)}
          = {<<c.trip, c.seq, Date(now) * DayLength + c.depTime>> : c \in Near(stop, now, window)}
    BY <2>4, Zenon
  <2> QED BY <2>3, <2>5
<1>2. IInv => PlannerSeesBoard
  BY <1>1 DEF PlannerSeesBoard, Begun
<1> QED BY <1>2, DaysInvariant, PTL

-----------------------------------------------------------------------------
(* The trips of a date *)

\* A trip starts with its first departure and ends with its last arrival.
LEMMA StartAndEnd ==
  ASSUME db \in Databases, NEW t \in Trips
  PROVE  /\ FirstDeparture(t) = Dep(t, 1) /\ LastArrival(t) = Arr(t, Last(t))
         /\ 1 \in 1..Last(t) - 1 /\ 1 \in 1..Last(t) /\ Last(t) \in 1..Last(t)
         /\ Dep(t, 1) \in Nat /\ Arr(t, Last(t)) \in Nat
<1> DEFINE deps == {Dep(t, n) : n \in DOMAIN db.events[t]}
           arrs == {Arr(t, n) : n \in DOMAIN db.events[t]}
<1>1. /\ Last(t) \in Nat /\ Last(t) >= 2 /\ DOMAIN db.events[t] = 1..Last(t)
      /\ \A n \in 1..Last(t) : Dep(t, n) \in Nat /\ Arr(t, n) \in Nat
      /\ \A m, n \in 1..Last(t) : m <= n => Dep(t, m) <= Dep(t, n) /\ Arr(t, m) <= Arr(t, n)
  BY TripTimes
<1>2. 1 \in 1..Last(t) - 1 /\ 1 \in 1..Last(t) /\ Last(t) \in 1..Last(t)
  BY <1>1
<1>3. ASSUME NEW n \in 1..Last(t) PROVE Dep(t, 1) <= Dep(t, n) /\ Arr(t, n) <= Arr(t, Last(t))
  <2>1. 1 <= n /\ n <= Last(t)
    BY <1>1
  <2> QED BY <1>1, <1>2, <2>1
<1>4. /\ deps \subseteq Int /\ Dep(t, 1) \in deps /\ \A x \in deps : Dep(t, 1) <= x
      /\ arrs \subseteq Int /\ Arr(t, Last(t)) \in arrs /\ \A x \in arrs : x <= Arr(t, Last(t))
  BY <1>1, <1>2, <1>3
<1>5. FirstDeparture(t) = Min(deps) /\ LastArrival(t) = Max(arrs)
  BY DEF FirstDeparture, LastArrival, Dep, Arr
<1>6. Dep(t, 1) \in Int /\ Arr(t, Last(t)) \in Int
  BY <1>1, <1>2
<1> HIDE DEF deps, arrs
<1>7. Min(deps) \in deps /\ \A x \in deps : Min(deps) <= x
  BY <1>4, <1>6, MinIs
<1>8. Max(arrs) \in arrs /\ \A x \in arrs : x <= Max(arrs)
  BY <1>4, <1>6, MaxIs
<1>9. Min(deps) = Dep(t, 1)
  <2>1. Min(deps) <= Dep(t, 1) /\ Dep(t, 1) <= Min(deps) /\ Min(deps) \in Int
    BY <1>4, <1>7
  <2> QED BY <1>6, <2>1
<1>10. Max(arrs) = Arr(t, Last(t))
  <2>1. Max(arrs) <= Arr(t, Last(t)) /\ Arr(t, Last(t)) <= Max(arrs) /\ Max(arrs) \in Int
    BY <1>4, <1>8
  <2> QED BY <1>6, <2>1
<1> QED BY <1>1, <1>2, <1>5, <1>9, <1>10

TripRow(t) == [id |-> t, starts_at |-> FirstDeparture(t), ends_at |-> LastArrival(t)]

\* The list has the trips of the date.
LEMMA ListedAre ==
  ASSUME db \in Databases, NEW date \in Int
  PROVE  Entries(Listed(date)) = {TripRow(t) : t \in TripsOf(ActiveServices(date))}
<1> DEFINE rows == TripsOn(date)
           list == Sorted(rows, ByStart(rows))
           id   == [row \in rows |-> row.id]
<1>1. rows = {TripRow(t) : t \in TripsOf(ActiveServices(date))}
  BY DEF TripsOn, TripRow
<1>2. ASSUME NEW row \in rows
      PROVE  row.id \in Trips /\ row.id \in Int /\ row.starts_at \in Int /\ row = TripRow(row.id)
  <2>1. PICK t \in TripsOf(ActiveServices(date)) : row = TripRow(t)
    BY <1>1
  <2>2. t \in Trips /\ row.id = t /\ row.starts_at = FirstDeparture(t)
    BY <2>1 DEF TripRow, TripsOf
  <2>3. t \in Int /\ FirstDeparture(t) \in Int
    BY <2>2, TripTimes, StartAndEnd
  <2> QED BY <2>1, <2>2, <2>3
<1> HIDE DEF rows
<1>3. id \in [rows -> Trips] /\ \A q, r \in rows : id[q] = id[r] => q = r
  BY <1>2
<1>4. IsFiniteSet(rows)
  <2> HIDE DEF id
  <2> QED BY <1>3, TripsFinite, FiniteSource
<1>5. IsStrictOrder(ByStart(rows), rows)
  <2>1. \A q, r \in rows : <<q, r>> \in ByStart(rows) <=>
          q.starts_at < r.starts_at \/ (q.starts_at = r.starts_at /\ q.id < r.id)
    BY DEF ByStart
  <2>2. \A q, r \in rows : q # r => q.id # r.id
    BY <1>2
  <2> QED BY <1>2, <2>1, <2>2 DEF IsStrictOrder
<1>6. /\ list \in [1..Cardinality(rows) -> rows] /\ DOMAIN list = 1..Cardinality(rows)
      /\ \A row \in rows : \E i \in DOMAIN list : list[i] = row
  BY <1>4, <1>5, SortedLists
<1>7. Listed(date) = list
  BY DEF Listed, rows
<1> HIDE DEF list
<1>8. Entries(list) = rows
  BY <1>6 DEF Entries
<1> QED BY <1>1, <1>7, <1>8

\* The first call of a listed trip's run is on the board, if it is made before the
\* second midnight.
LEMMA ListedAnnounced ==
  ASSUME db \in Databases, NEW date \in Int, NEW t \in TripsOf(ActiveServices(date)),
         FirstDeparture(t) < 2 * DayLength
  PROVE  LET first == date * DayLength + FirstDeparture(t)
         IN  \E d \in Entries(Board(db.events[t][1].stop, first, 0)) :
               d.trip_id = t /\ d.departure_at = first
<1> DEFINE a     == date * DayLength
           first == a + FirstDeparture(t)
           stop  == db.events[t][1].stop
<1>1. t \in Trips /\ a \in Int /\ DayLength \in Nat \ {0}
  BY Midnights DEF TripsOf
<1>2. /\ FirstDeparture(t) = Dep(t, 1) /\ LastArrival(t) = Arr(t, Last(t))
      /\ 1 \in 1..Last(t) - 1 /\ 1 \in 1..Last(t) /\ Last(t) \in 1..Last(t)
      /\ Dep(t, 1) \in Nat /\ Arr(t, Last(t)) \in Nat
  BY <1>1, StartAndEnd
<1>3. first \in Int
  <2> HIDE DEF a
  <2> QED BY <1>1, <1>2
<1>4. Dep(t, 1) < 2 * DayLength
  BY <1>2
<1>5. PICK offset \in {-1, 0} : Date(first) + offset = date
  <2>1. CASE Dep(t, 1) < DayLength
    <3>1. a <= first /\ first < a + DayLength
      <4> HIDE DEF a
      <4> QED BY <1>1, <1>2, <2>1
    <3>2. Date(first) = date
      BY <1>3, <3>1, DateIs
    <3>3. Date(first) + 0 = date
      BY <3>2
    <3> QED BY <3>3
  <2>2. CASE ~(Dep(t, 1) < DayLength)
    <3>1. (date + 1) * DayLength = a + DayLength /\ 2 * DayLength = DayLength + DayLength
      BY Midnights
    <3>2. a + DayLength <= first /\ first < a + DayLength + DayLength
      <4> HIDE DEF a
      <4> QED BY <1>1, <1>2, <1>4, <2>2, <3>1
    <3>3. date + 1 \in Int
      OBVIOUS
    <3>4. (date + 1) * DayLength <= first /\ first < (date + 1) * DayLength + DayLength
      <4> HIDE DEF a, first
      <4> QED BY <3>1, <3>2, Zenon
    <3>5. Date(first) = date + 1
      BY <1>3, <3>3, <3>4, DateIs
    <3>6. Date(first) + (-1) = date
      BY <3>5
    <3> QED BY <3>6
  <2> QED BY <2>1, <2>2
<1>6. Announced(Departure(t, 1, offset, first)) \in Entries(Board(stop, first, 0))
  <2>1. first = a + Dep(t, 1) /\ first <= first + 0
    <3> first = a + Dep(t, 1)
      BY <1>2
    <3> HIDE DEF first
    <3> QED BY <1>3
  <2>2. DueAt(t, 1, date, stop, first, 0)
    <3> HIDE DEF first
    <3>1. first <= a + Dep(t, 1) /\ a + Dep(t, 1) <= first + 0
      BY <1>3, <2>1
    <3> QED BY <1>2, <3>1 DEF DueAt
  <2>3. DueAt(t, 1, Date(first) + offset, stop, first, 0) /\ offset \in Offsets
    BY <1>5, <2>2 DEF Offsets
  <2>4. 0 \in Nat
    OBVIOUS
  <2> HIDE DEF first, stop
  <2>5. Departure(t, 1, offset, first) \in Departures(stop, first, 0)
    BY <1>1, <1>2, <1>3, <2>3, <2>4, DepartureIs
  <2>6. Entries(Board(stop, first, 0)) = {Announced(row) : row \in Departures(stop, first, 0)}
    BY <1>3, <2>4, BoardIs
  <2> QED BY <2>5, <2>6
<1>7. /\ Announced(Departure(t, 1, offset, first)).trip_id = t
      /\ Announced(Departure(t, 1, offset, first)).departure_at = first
  <2>1. (Date(first) + offset) * DayLength = a
    BY <1>5
  <2>2. /\ Announced(Departure(t, 1, offset, first)).trip_id = t
        /\ Announced(Departure(t, 1, offset, first)).departure_at
             = (Date(first) + offset) * DayLength + Dep(t, 1)
    BY DEF Announced, Departure
  <2> QED BY <1>2, <2>1, <2>2, Zenon
<1> QED BY <1>6, <1>7

\* The bus of a listed trip is on the road between its first departure and its
\* last arrival.
LEMMA ListedMoves ==
  ASSUME db \in Databases, NEW date \in Int, NEW t \in TripsOf(ActiveServices(date))
  PROVE  LET first == date * DayLength + FirstDeparture(t)
         IN  \A moment \in Int :
               InMotion(Run(t, date), moment) =>
                 first <= moment /\ moment < date * DayLength + LastArrival(t)
<1> DEFINE a     == date * DayLength
           first == a + FirstDeparture(t)
<1>1. t \in Trips /\ a \in Int
  BY Midnights DEF TripsOf
<1>2. /\ FirstDeparture(t) = Dep(t, 1) /\ LastArrival(t) = Arr(t, Last(t))
      /\ 1 \in 1..Last(t) - 1 /\ 1 \in 1..Last(t) /\ Last(t) \in 1..Last(t)
      /\ Dep(t, 1) \in Nat /\ Arr(t, Last(t)) \in Nat
  BY <1>1, StartAndEnd
<1>3. ASSUME NEW moment \in Int, InMotion(Run(t, date), moment)
      PROVE  first <= moment /\ moment < a + LastArrival(t)
  <2>1. PICK n \in 1..Last(t) - 1 : a + Dep(t, n) <= moment /\ moment < a + Arr(t, n + 1)
    BY <1>3 DEF InMotion, LeavesAt, ArrivesAt, Run, Dep, Arr, Last
  <2>2. Last(t) \in Nat
    BY <1>1, TripTimes
  <2>3. n \in 1..Last(t) /\ n + 1 \in 1..Last(t) /\ 1 <= n /\ n + 1 <= Last(t)
    BY <2>2
  <2>4. /\ Dep(t, 1) <= Dep(t, n) /\ Arr(t, n + 1) <= Arr(t, Last(t))
        /\ Dep(t, n) \in Int /\ Arr(t, n + 1) \in Int
    BY <1>1, <1>2, <2>3, TripTimes
  <2> HIDE DEF a
  <2> QED BY <1>1, <1>2, <2>1, <2>4
<1> QED BY <1>3

\* A trip listed for a date is announced for its first departure, if that is before
\* the second midnight, and its bus is on the road from then until its last arrival
\* only; no other trip's bus is
\* (ListedTripsRun).
THEOREM ListedAreOnTheRoad == Spec => []ListedTripsRun
<1>1. ASSUME IInv, request # NoAnswer, request.kind = "trips"
      PROVE  LET midnight == request.date * DayLength
                 out == {r \in RunsAbout(midnight) : r.date = request.date}
             IN  /\ {row.id : row \in Entries(answer)} = {r.trip : r \in out}
                 /\ \A row \in Entries(answer) :
                      LET trip  == row.id
                          first == midnight + row.starts_at
                      IN  /\ row.starts_at < 2 * DayLength =>
                               \E d \in Entries(Board(db.events[trip][1].stop, first, 0)) :
                                 d.trip_id = trip /\ d.departure_at = first
                          /\ \A moment \in first - 2..midnight + 2 * DayLength :
                               InMotion([trip |-> trip, date |-> request.date], moment) =>
                                 first <= moment /\ moment < midnight + row.ends_at
  <2> DEFINE date     == request.date
             midnight == date * DayLength
             out      == {r \in RunsAbout(midnight) : r.date = date}
  <2>1. request \in {[kind |-> "trips", date |-> d] : d \in Date(now) - 1..Date(now) + 1}
        /\ answer = Listed(date)
    BY <1>1 DEF IInv, Answers
  <2>2. db \in Databases /\ date \in Int
    <3>1. now \in Int /\ db \in Databases
      BY <1>1, DaysAssumption DEF IInv
    <3>2. Date(now) \in Int
      BY <3>1, ClockIs
    <3>3. PICK d \in Date(now) - 1..Date(now) + 1 : request = [kind |-> "trips", date |-> d]
      BY <2>1
    <3>4. d \in Int /\ request.date = d
      BY <3>2, <3>3
    <3> QED BY <3>1, <3>4
  <2> HIDE DEF date
  <2>3. Entries(answer) = {TripRow(t) : t \in TripsOf(ActiveServices(date))}
    BY <2>1, <2>2, ListedAre
  <2>4. midnight \in Int /\ DayLength \in Nat \ {0}
    BY <2>2, Midnights
  <2>5. Date(midnight) = date
    <3>1. date * DayLength <= midnight /\ midnight < date * DayLength + DayLength
      <4> DEFINE m == midnight
      <4>1. m \in Int
        BY <2>4
      <4> HIDE DEF m
      <4>2. m <= m /\ m < m + DayLength
        BY <2>4, <4>1
      <4> QED BY <4>2 DEF m
    <3> QED BY <2>2, <2>4, <3>1, DateIs
  <2>6. \A t : Run(t, date) \in RunsAbout(midnight) <=> t \in TripsOf(ActiveServices(date))
    <3> SUFFICES ASSUME NEW t
                 PROVE  Run(t, date) \in RunsAbout(midnight) <=> t \in TripsOf(ActiveServices(date))
      OBVIOUS
    <3>1. CASE t \in Trips
      <4>1. date \in Date(midnight) - 1..Date(midnight) + 2
        BY <2>2, <2>5
      <4> HIDE DEF midnight
      <4> QED BY <2>2, <2>4, <3>1, <4>1, RunIs
    <3>2. CASE t \notin Trips
      <4> HIDE DEF midnight
      <4> QED BY <3>2 DEF TripsOf, RunsAbout, Run
    <3> QED BY <3>1, <3>2
  <2> HIDE DEF midnight
  <2>7. {row.id : row \in Entries(answer)} = {r.trip : r \in out}
    <3>1. {row.id : row \in Entries(answer)} = TripsOf(ActiveServices(date))
      <4>1. \A t : TripRow(t).id = t
        BY DEF TripRow
      <4> QED BY <2>3, <4>1
    <3>2. {r.trip : r \in out} = TripsOf(ActiveServices(date))
      <4>1. \A t : Run(t, date).trip = t /\ Run(t, date).date = date
        BY DEF Run
      <4>2. \A r \in out : r = Run(r.trip, date)
        BY <2>4, RunOf
      <4>3. \A r \in out : r.trip \in TripsOf(ActiveServices(date))
        BY <2>6, <4>2
      <4>4. \A t \in TripsOf(ActiveServices(date)) : Run(t, date) \in out
        BY <2>6, <4>1
      <4> HIDE DEF out
      <4> QED BY <4>1, <4>3, <4>4
    <3> QED BY <3>1, <3>2
  <2>8. ASSUME NEW row \in Entries(answer)
        PROVE  LET trip  == row.id
                   first == midnight + row.starts_at
               IN  /\ row.starts_at < 2 * DayLength =>
                        \E d \in Entries(Board(db.events[trip][1].stop, first, 0)) :
                          d.trip_id = trip /\ d.departure_at = first
                   /\ \A moment \in first - 2..midnight + 2 * DayLength :
                        InMotion([trip |-> trip, date |-> date], moment) =>
                          first <= moment /\ moment < midnight + row.ends_at
    <3>1. PICK t \in TripsOf(ActiveServices(date)) : row = TripRow(t)
      BY <2>3
    <3>2. row.id = t /\ row.starts_at = FirstDeparture(t) /\ row.ends_at = LastArrival(t)
      BY <3>1 DEF TripRow
    <3> DEFINE first == midnight + FirstDeparture(t)
    <3>3. /\ FirstDeparture(t) < 2 * DayLength =>
               \E d \in Entries(Board(db.events[t][1].stop, first, 0)) :
                 d.trip_id = t /\ d.departure_at = first
          /\ \A moment \in Int :
               InMotion(Run(t, date), moment) =>
                 first <= moment /\ moment < midnight + LastArrival(t)
      BY <2>2, ListedAnnounced, ListedMoves DEF midnight
    <3>4. first \in Int
      <4>1. t \in Trips
        BY DEF TripsOf
      <4> QED BY <2>2, <2>4, <4>1, StartAndEnd
    <3>5. \A moment \in first - 2..midnight + 2 * DayLength : moment \in Int
      <4> HIDE DEF first
      <4> QED BY <2>4, <3>4
    <3> HIDE DEF first
    <3>6. \A moment \in first - 2..midnight + 2 * DayLength :
            InMotion([trip |-> t, date |-> date], moment) =>
              first <= moment /\ moment < midnight + LastArrival(t)
      BY <3>3, <3>5 DEF Run
    <3>7. midnight + row.starts_at = first
      BY <3>2 DEF first
    <3> QED BY <3>2, <3>3, <3>6, <3>7
  <2> QED BY <2>7, <2>8 DEF midnight, date
<1>2. IInv => ListedTripsRun
  BY <1>1 DEF ListedTripsRun
<1> QED BY <1>2, DaysInvariant, PTL
=============================================================================
