-------------------------- MODULE GtfsImportProofs --------------------------
(***************************************************************************)
(* Proofs about the importer, for all feeds: what an accepted feed leaves  *)
(* in the tables, part by part, so that nothing fails that a clean feed    *)
(* could not have avoided, the timetable is sound, the database implements *)
(* the store, and the patterns that requests read are those of the trips.  *)
(*                                                                         *)
(* The invariant says of every table of the transaction how its rows come  *)
(* from the rows of the feed: Stage names the tables that are loaded so    *)
(* far, Loaded all of them.  Everything else follows from Loaded, of the   *)
(* tables that the others read and the feed that was loaded last.          *)
(***************************************************************************)
EXTENDS RouteQueries, OrderLemmas, TLAPS

-----------------------------------------------------------------------------
(* Feeds *)

Files == DOMAIN Columns

LEMMA FilesAre ==
  Files = {"agency", "routes", "stops", "calendar", "calendar_dates", "shapes", "trips",
           "stop_times"}
BY DEF Files, Columns

\* The rows of a file are a sequence of functions of its columns.
LEMMA RowsAre ==
  ASSUME NEW f, IsFeed(f), NEW file \in Files
  PROVE  LET rows == Rows(f, file)
         IN  /\ Len(rows) \in Nat /\ DOMAIN rows = 1..Len(rows) /\ IsFiniteSet(DOMAIN rows)
             /\ DOMAIN rows \subseteq Nat \ {0}
             /\ RowSet(f, file) = {rows[i] : i \in DOMAIN rows}
             /\ \A i \in DOMAIN rows :
                  /\ rows[i] \in RowSet(f, file)
                  /\ DOMAIN rows[i] = Columns[file]
                  /\ \A column \in Columns[file] : IsCell(rows[i][column])
<1> DEFINE rows == Rows(f, file)
<1>1. /\ Len(rows) \in Nat /\ DOMAIN rows = 1..Len(rows)
      /\ \A i \in DOMAIN rows :
           /\ DOMAIN rows[i] = Columns[file]
           /\ \A column \in Columns[file] : IsCell(rows[i][column])
  <2>1. CASE f[file] = Missing
    BY <2>1 DEF Rows
  <2>2. CASE f[file] # Missing
    BY <2>2 DEF Rows, IsFeed, Files
  <2> QED BY <2>1, <2>2
<1>2. RowSet(f, file) = {rows[i] : i \in DOMAIN rows}
  BY DEF RowSet, ToSet
<1> HIDE DEF rows
<1>3. IsFiniteSet(DOMAIN rows) /\ DOMAIN rows \subseteq Nat \ {0}
  <2>1. IsFiniteSet(1..Len(rows))
    BY <1>1, FS_Interval
  <2> QED BY <1>1, <2>1
<1> QED BY <1>1, <1>2, <1>3 DEF rows

\* In a clean feed, a cell is its text.
LEMMA CellsAreTexts ==
  ASSUME NEW f, IsFeed(f), Clean(f), NEW file \in Files
  PROVE  \A row \in RowSet(f, file) : \A column \in Columns[file] :
           row[column] = Plain(Strip(row[column]))
<1> SUFFICES ASSUME NEW i \in DOMAIN Rows(f, file), NEW column \in Columns[file]
             PROVE  LET cell == Rows(f, file)[i][column] IN cell = Plain(Strip(cell))
  BY RowsAre
<1> DEFINE cell == Rows(f, file)[i][column]
<1>1. IsCell(cell) /\ Rows(f, file)[i] \in RowSet(f, file)
      /\ DOMAIN Rows(f, file)[i] = Columns[file]
  BY RowsAre
<1>2. ~cell.pad
  BY <1>1 DEF Clean, IsFeed, Files
<1> QED BY <1>1, <1>2 DEF IsCell, Plain, Strip

\* Rows that are told apart by some columns.
LEMMA RowsApart ==
  ASSUME NEW f, IsFeed(f), NEW file \in Files, NEW column,
         UniqueIds(f, file, column)
  PROVE  \A i, j \in DOMAIN Rows(f, file) :
           Strip(Rows(f, file)[i][column]) = Strip(Rows(f, file)[j][column]) => i = j
BY DEF UniqueIds, Distinct

\* The ids of a file.
LEMMA IdsAre ==
  ASSUME NEW f, IsFeed(f), NEW file \in Files, NEW column, NEW id \in Ids(f, file, column)
  PROVE  /\ id # Blank
         /\ \E i \in DOMAIN Rows(f, file) : Strip(Rows(f, file)[i][column]) = id
BY RowsAre DEF Ids

LEMMA IdIs ==
  ASSUME NEW f, IsFeed(f), NEW file \in Files, NEW column, NEW i \in DOMAIN Rows(f, file),
         Given(Rows(f, file)[i][column])
  PROVE  Strip(Rows(f, file)[i][column]) \in Ids(f, file, column)
BY RowsAre DEF Ids, Given

-----------------------------------------------------------------------------
(* What each part of the load leaves in the tables *)

\* The id of a table for an id of the feed.
Refers(table, id, gtfs_id) == id \in DOMAIN table /\ table[id].gtfs_id = gtfs_id

\* A table with a row for each of a set of ids.
Names(table, gtfs_ids) ==
  /\ \E n \in Nat : DOMAIN table = 1..n
  /\ \A id \in DOMAIN table : table[id].gtfs_id \in gtfs_ids
  /\ \A gtfs_id \in gtfs_ids : \E id \in DOMAIN table : table[id].gtfs_id = gtfs_id
  /\ Unique(table, {"gtfs_id"})

AgenciesLoaded(t, f) ==
  LET rows == Rows(f, "agency")
  IN  /\ DOMAIN t.agency = DOMAIN rows
      /\ \A i \in DOMAIN rows : t.agency[i].gtfs_id = rows[i].agency_id

RoutesLoaded(t, f) ==
  LET rows == Rows(f, "routes")
  IN  /\ DOMAIN t.routes = DOMAIN rows
      /\ \A i \in DOMAIN rows :
           /\ t.routes[i].gtfs_id = rows[i].route_id
           /\ t.routes[i].route_type = OrDefault(rows[i].route_type, 3)
           /\ t.routes[i].color = Optional(rows[i].route_color)
           /\ Refers(t.agency, t.routes[i].agency_id, rows[i].agency_id)

ServiceCells(f) ==
  {row.service_id : row \in RowSet(f, "calendar") \cup RowSet(f, "calendar_dates")}

ServicesLoaded(t, f) ==
  LET calendar   == Rows(f, "calendar")
      exceptions == Rows(f, "calendar_dates")
  IN  /\ Names(t.services, ServiceCells(f))
      /\ DOMAIN t.calendar = DOMAIN calendar /\ DOMAIN t.calendar_dates = DOMAIN exceptions
      /\ \A i \in DOMAIN calendar :
           /\ Refers(t.services, t.calendar[i].service_id, calendar[i].service_id)
           /\ t.calendar[i].days = {day \in Weekdays : calendar[i][day] = Plain(1)}
           /\ t.calendar[i].start_date = Strip(calendar[i].start_date).day
           /\ t.calendar[i].end_date = Strip(calendar[i].end_date).day
      /\ \A i \in DOMAIN exceptions :
           /\ Refers(t.services, t.calendar_dates[i].service_id, exceptions[i].service_id)
           /\ t.calendar_dates[i].date = Strip(exceptions[i].date).day
           /\ t.calendar_dates[i].exception_type = Strip(exceptions[i].exception_type)

StopsLoaded(t, f) ==
  LET rows == Rows(f, "stops")
  IN  /\ DOMAIN t.stops = DOMAIN rows
      /\ \A i \in DOMAIN rows :
           /\ t.stops[i].gtfs_id = rows[i].stop_id
           /\ t.stops[i].lat = Strip(rows[i].stop_lat)
           /\ t.stops[i].lon = Strip(rows[i].stop_lon)
           /\ t.stops[i].location_type = OrDefault(rows[i].location_type, 0)
           /\ IF Given(rows[i].parent_station)
                THEN Refers(t.stops, t.stops[i].parent_station_id, rows[i].parent_station)
                ELSE t.stops[i].parent_station_id = Null

ShapesLoaded(t, f) ==
  LET rows == Rows(f, "shapes")
  IN  /\ Names(t.shapes, {row.shape_id : row \in RowSet(f, "shapes")})
      /\ \A s \in DOMAIN t.shapes : DOMAIN t.shapes[s] = {"gtfs_id", "geom"}
      /\ DOMAIN t.shape_points = DOMAIN rows
      /\ \A i \in DOMAIN rows :
           /\ Refers(t.shapes, t.shape_points[i].shape_id, rows[i].shape_id)
           /\ t.shape_points[i].pt_sequence = Strip(rows[i].shape_pt_sequence)
           /\ t.shape_points[i].point
                = <<Strip(rows[i].shape_pt_lon), Strip(rows[i].shape_pt_lat)>>
           /\ t.shape_points[i].dist = Optional(rows[i].shape_dist_traveled)

\* The shape of a trip, or Null.
ShapeIs(t, row, id) ==
  IF Given(row.shape_id) /\ Has(t.shapes, Plain(Strip(row.shape_id)))
    THEN Refers(t.shapes, id, Plain(Strip(row.shape_id)))
    ELSE id = Null

\* The pattern of a trip.
KeyIs(t, f, row, key) ==
  LET stops == TripStopIds(f)[Strip(row.trip_id)]
  IN  /\ key = [route_id |-> key.route_id, direction_id |-> Optional(row.direction_id),
                shape_id |-> key.shape_id, stops |-> key.stops]
      /\ Refers(t.routes, key.route_id, row.route_id)
      /\ ShapeIs(t, row, key.shape_id)
      /\ key.stops = [n \in DOMAIN stops |-> key.stops[n]]
      /\ \A n \in DOMAIN stops : Refers(t.stops, key.stops[n], Plain(stops[n]))

TripsLoaded(t, f) ==
  LET rows == Rows(f, "trips")
  IN  /\ DOMAIN t.trips = DOMAIN rows
      /\ \A i \in DOMAIN rows :
           /\ t.trips[i].gtfs_id = rows[i].trip_id /\ ~rows[i].trip_id.pad
           /\ t.trips[i].direction_id = Optional(rows[i].direction_id)
           /\ Refers(t.routes, t.trips[i].route_id, rows[i].route_id)
           /\ Refers(t.services, t.trips[i].service_id, rows[i].service_id)
           /\ ShapeIs(t, rows[i], t.trips[i].shape_id)
           /\ t.trips[i].route_pattern_id \in DOMAIN t.route_patterns
           /\ KeyIs(t, f, rows[i], t.route_patterns[t.trips[i].route_pattern_id])
      /\ \E n \in Nat : DOMAIN t.route_patterns = 1..n
      /\ \A p \in DOMAIN t.route_patterns :
           \E i \in DOMAIN rows : KeyIs(t, f, rows[i], t.route_patterns[p])
      /\ \A p, q \in DOMAIN t.route_patterns :
           t.route_patterns[p] = t.route_patterns[q] => p = q

StopTimesLoaded(t, f) ==
  LET rows == Rows(f, "stop_times")
  IN  /\ DOMAIN t.stop_times = DOMAIN rows
      /\ \A i \in DOMAIN rows :
           /\ Refers(t.trips, t.stop_times[i].trip_id, rows[i].trip_id)
           /\ Refers(t.stops, t.stop_times[i].stop_id, rows[i].stop_id)
           /\ t.stop_times[i].stop_sequence = Strip(rows[i].stop_sequence)
           /\ t.stop_times[i].arrival_time = Strip(rows[i].arrival_time)
           /\ t.stop_times[i].departure_time = Strip(rows[i].departure_time)
           /\ t.stop_times[i].dist = Optional(rows[i].shape_dist_traveled)

\* The points of a shape.
PointsOf(t, shape) == {i \in DOMAIN t.shape_points : t.shape_points[i].shape_id = shape}

GeometriesBuilt(t) ==
  \A s \in DOMAIN t.shapes :
    t.shapes[s].geom = InOrder(t.shape_points, PointsOf(t, s), "pt_sequence", "point")

Loaded(t, f) ==
  /\ AgenciesLoaded(t, f) /\ RoutesLoaded(t, f) /\ ServicesLoaded(t, f)
  /\ StopsLoaded(t, f) /\ ShapesLoaded(t, f) /\ TripsLoaded(t, f) /\ StopTimesLoaded(t, f)
  /\ GeometriesBuilt(t)

-----------------------------------------------------------------------------
(* What is loaded of a clean feed satisfies the schema *)

\* A function that has as many values as arguments tells these apart.
LEMMA AsManyValues ==
  ASSUME NEW S, IsFiniteSet(S), NEW g, g = [x \in S |-> g[x]],
         Cardinality({g[x] : x \in S}) = Cardinality(S)
  PROVE  \A x, y \in S : g[x] = g[y] => x = y
<1> DEFINE T == {g[x] : x \in S}
<1>1. g \in Surjection(S, T) /\ g \in [S -> T]
  BY DEF Surjection
<1>2. g \in Injection(S, T)
  <2> HIDE DEF T
  <2>1. Cardinality(T) = Cardinality(S)
    BY DEF T
  <2> QED BY <1>1, <2>1, FS_Surjection
<1>3. IsInjective(g) /\ DOMAIN g = S
  BY <1>2 DEF Injection
<1> QED BY <1>3 DEF IsInjective

\* The rows of one id have different sequence numbers, which put them in order.
LEMMA GroupsApart ==
  ASSUME NEW f, IsFeed(f), NEW file \in Files, NEW column, NEW id, NEW sequence,
         LET rows  == Rows(f, file)
             group == Group(rows, column, id, sequence)
         IN  Cardinality({Strip(rows[i][sequence]) : i \in group}) = Cardinality(group)
  PROVE  LET rows  == Rows(f, file)
             group == Group(rows, column, id, sequence)
         IN  /\ IsFiniteSet(group) /\ group \subseteq DOMAIN rows
             /\ \A i \in group : Strip(rows[i][sequence]) \in Int
             /\ \A i, j \in group : Strip(rows[i][sequence]) = Strip(rows[j][sequence]) => i = j
             /\ IsStrictOrder(BySequence(rows, group, sequence), group)
<1> DEFINE rows  == Rows(f, file)
           group == Group(rows, column, id, sequence)
           g     == [i \in group |-> Strip(rows[i][sequence])]
<1>1. group \subseteq DOMAIN rows /\ \A i \in group : Strip(rows[i][sequence]) \in Int
  BY DEF Group, IsNumber
<1>2. IsFiniteSet(group)
  <2>1. IsFiniteSet(DOMAIN rows)
    BY RowsAre
  <2> HIDE DEF rows, group
  <2> QED BY <1>1, <2>1, FS_Subset
<1>3. \A i, j \in group : Strip(rows[i][sequence]) = Strip(rows[j][sequence]) => i = j
  <2>1. \A i \in group : g[i] = Strip(rows[i][sequence])
    OBVIOUS
  <2>2. {g[i] : i \in group} = {Strip(rows[i][sequence]) : i \in group}
    <3> HIDE DEF group, rows
    <3> QED OBVIOUS
  <2>3. Cardinality({g[i] : i \in group}) = Cardinality(group)
    BY <2>2
  <2>4. g = [i \in group |-> g[i]]
    OBVIOUS
  <2>5. \A i, j \in group : g[i] = g[j] => i = j
    <3> HIDE DEF g, group
    <3> QED BY <1>2, <2>3, <2>4, AsManyValues
  <2> QED BY <2>1, <2>5
<1>4. IsStrictOrder(BySequence(rows, group, sequence), group)
  <2> HIDE DEF rows, group
  <2>1. \A i, j \in group : <<i, j>> \in BySequence(rows, group, sequence) <=>
          Strip(rows[i][sequence]) < Strip(rows[j][sequence])
    BY SMTT(30) DEF BySequence
  <2> QED BY <1>1, <1>3, <2>1, SMTT(30) DEF IsStrictOrder
<1> QED BY <1>1, <1>2, <1>3, <1>4

AgenciesHold(t) == Unique(t.agency, {"gtfs_id"})

RoutesHold(t) ==
  /\ Unique(t.routes, {"gtfs_id"})
  /\ \A row \in ToSet(t.routes) :
       row.agency_id \in DOMAIN t.agency /\ row.color # Junk /\ IsSmall(row.route_type)

ServicesHold(t) ==
  /\ Unique(t.services, {"gtfs_id"})
  /\ Unique(t.calendar, {"service_id"}) /\ Unique(t.calendar_dates, {"service_id", "date"})
  /\ \A row \in ToSet(t.calendar) \cup ToSet(t.calendar_dates) :
       row.service_id \in DOMAIN t.services
  /\ \A row \in ToSet(t.calendar) : row.start_date <= row.end_date

StopsHold(t) ==
  /\ Unique(t.stops, {"gtfs_id"})
  /\ \A row \in ToSet(t.stops) : row.parent_station_id \in DOMAIN t.stops \cup {Null}
  /\ \A i \in DOMAIN t.stops :
       /\ t.stops[i].lat \in -90..90 /\ t.stops[i].lon \in -180..180
       /\ t.stops[i].location_type \in 0..4
       /\ t.stops[i].parent_station_id # i

ShapesHold(t) ==
  /\ Unique(t.shapes, {"gtfs_id"}) /\ Unique(t.shape_points, {"shape_id", "pt_sequence"})
  /\ \A point \in ToSet(t.shape_points) :
       /\ point.shape_id \in DOMAIN t.shapes
       /\ point.pt_sequence > 0 /\ point.pt_sequence <= ColumnMax
       /\ point.dist = Null \/ point.dist >= 0

TripsHold(t) ==
  /\ Unique(t.trips, {"gtfs_id"})
  /\ Unique(t.route_patterns, {"route_id", "direction_id", "shape_id", "stops"})
  /\ \A row \in ToSet(t.route_patterns) \cup ToSet(t.trips) :
       row.route_id \in DOMAIN t.routes /\ row.shape_id \in DOMAIN t.shapes \cup {Null}
  /\ \A row \in ToSet(t.trips) :
       /\ row.service_id \in DOMAIN t.services
       /\ row.route_pattern_id \in DOMAIN t.route_patterns

StopTimesHold(t) ==
  /\ Unique(t.stop_times, {"trip_id", "stop_sequence"})
  /\ \A row \in ToSet(t.stop_times) :
       /\ row.trip_id \in DOMAIN t.trips /\ row.stop_id \in DOMAIN t.stops
       /\ row.stop_sequence > 0 /\ row.stop_sequence <= ColumnMax
       /\ 0 <= row.arrival_time /\ row.arrival_time <= row.departure_time
       /\ row.dist = Null \/ row.dist >= 0

AllHold(t) ==
  /\ AgenciesHold(t) /\ RoutesHold(t) /\ ServicesHold(t) /\ StopsHold(t)
  /\ ShapesHold(t) /\ TripsHold(t) /\ StopTimesHold(t)

\* Table by table instead of constraint by constraint.
LEMMA TableByTable ==
  ASSUME NEW t, AllHold(t)
  PROVE  TablesHold(t) /\ ChecksHold(t)
<1>1. ForeignKeysHold(t)
  BY SMTT(30) DEF ForeignKeysHold, AllHold, RoutesHold, ServicesHold, StopsHold, ShapesHold,
     TripsHold, StopTimesHold
<1>2. TablesHold(t)
  <2>1. \A table \in {"agency", "routes", "services", "stops", "shapes", "trips"} :
          Unique(t[table], {"gtfs_id"})
    BY SMTT(30) DEF AllHold, AgenciesHold, RoutesHold, ServicesHold, StopsHold, ShapesHold,
       TripsHold
  <2> QED BY <1>1, <2>1, SMTT(30) DEF TablesHold, AllHold, RoutesHold, ServicesHold,
             ShapesHold, TripsHold, StopTimesHold
<1>3. ChecksHold(t)
  <2>1. \A route \in ToSet(t.routes) : route.color # Junk
    BY DEF AllHold, RoutesHold
  <2>2. \A i \in DOMAIN t.stops :
          /\ t.stops[i].lat \in -90..90 /\ t.stops[i].lon \in -180..180
          /\ t.stops[i].location_type \in 0..4
          /\ t.stops[i].parent_station_id # i
    BY DEF AllHold, StopsHold
  <2>3. \A row \in ToSet(t.calendar) : row.start_date <= row.end_date
    BY DEF AllHold, ServicesHold
  <2>4. \A point \in ToSet(t.shape_points) :
          point.pt_sequence > 0 /\ (point.dist = Null \/ point.dist >= 0)
    BY DEF AllHold, ShapesHold
  <2>5. \A event \in ToSet(t.stop_times) :
          /\ event.stop_sequence > 0
          /\ 0 <= event.arrival_time /\ event.arrival_time <= event.departure_time
          /\ event.dist = Null \/ event.dist >= 0
    BY DEF AllHold, StopTimesHold
  <2> QED BY <2>1, <2>2, <2>3, <2>4, <2>5, Zenon DEF ChecksHold
<1> QED BY <1>2, <1>3

LEMMA AgenciesFit ==
  ASSUME NEW f, IsFeed(f), ValidateFeed(f), NEW t, AgenciesLoaded(t, f)
  PROVE  AgenciesHold(t)
<1>1. UniqueIds(f, "agency", "agency_id") /\ "agency" \in Files
  BY FilesAre DEF ValidateFeed
<1> QED BY <1>1, RowsApart DEF AgenciesHold, AgenciesLoaded, Unique, Strip

LEMMA RoutesFit ==
  ASSUME NEW f, IsFeed(f), ValidateFeed(f), Clean(f), NEW t, RoutesLoaded(t, f)
  PROVE  RoutesHold(t)
<1>1. UniqueIds(f, "routes", "route_id") /\ "routes" \in Files /\ RoutesAccepted(f)
  BY FilesAre DEF ValidateFeed
<1>2. Unique(t.routes, {"gtfs_id"})
  BY <1>1, RowsApart, SMTT(30) DEF RoutesLoaded, Unique, Strip
<1>3. ASSUME NEW i \in DOMAIN t.routes
      PROVE  /\ t.routes[i].agency_id \in DOMAIN t.agency /\ t.routes[i].color # Junk
             /\ IsSmall(t.routes[i].route_type)
  <2>1. i \in DOMAIN Rows(f, "routes") /\ Rows(f, "routes")[i] \in RowSet(f, "routes")
    BY <1>1, <1>3, RowsAre DEF RoutesLoaded
  <2>2. Strip(Rows(f, "routes")[i].route_color) # Junk
    BY <1>1, <2>1 DEF RoutesAccepted
  <2>3. IsSmall(t.routes[i].route_type)
    BY <2>1 DEF RoutesLoaded, Clean
  <2> QED BY <2>1, <2>2, <2>3, NullAssumption, SMTT(30) DEF RoutesLoaded, Refers, Optional
<1> QED BY <1>2, <1>3, SMTT(30) DEF RoutesHold, ToSet

LEMMA StopsFit ==
  ASSUME NEW f, IsFeed(f), ValidateFeed(f), NEW t, StopsLoaded(t, f)
  PROVE  StopsHold(t)
<1>1. UniqueIds(f, "stops", "stop_id") /\ "stops" \in Files /\ StopsAccepted(f)
  BY FilesAre DEF ValidateFeed
<1>2. Unique(t.stops, {"gtfs_id"})
  BY <1>1, RowsApart, SMTT(30) DEF StopsLoaded, Unique, Strip
<1>3. ASSUME NEW i \in DOMAIN t.stops
      PROVE  /\ t.stops[i].parent_station_id \in DOMAIN t.stops \cup {Null}
             /\ t.stops[i].lat \in -90..90 /\ t.stops[i].lon \in -180..180
             /\ t.stops[i].location_type \in 0..4
             /\ t.stops[i].parent_station_id # i
  <2> DEFINE row == Rows(f, "stops")[i]
  <2>1. i \in DOMAIN Rows(f, "stops") /\ row \in RowSet(f, "stops") /\ i \in Nat
    BY <1>1, <1>3, RowsAre DEF StopsLoaded
  <2>2. /\ CoordinatesAccepted(row.stop_lat, row.stop_lon)
        /\ OrDefault(row.location_type, 0) \in 0..4
        /\ Given(row.parent_station) => Strip(row.parent_station) # Strip(row.stop_id)
    BY <1>1, <2>1 DEF StopsAccepted
  <2>3. /\ t.stops[i].lat = Strip(row.stop_lat) /\ t.stops[i].lon = Strip(row.stop_lon)
        /\ t.stops[i].location_type = OrDefault(row.location_type, 0)
        /\ t.stops[i].gtfs_id = row.stop_id
        /\ IF Given(row.parent_station)
             THEN Refers(t.stops, t.stops[i].parent_station_id, row.parent_station)
             ELSE t.stops[i].parent_station_id = Null
    BY <2>1 DEF StopsLoaded
  <2> HIDE DEF row
  <2>4. t.stops[i].lat \in -90..90 /\ t.stops[i].lon \in -180..180
    BY <2>2, <2>3 DEF CoordinatesAccepted
  <2>5. CASE Given(row.parent_station)
    <3>1. Strip(t.stops[i].gtfs_id) = Strip(row.stop_id)
      BY <2>3
    <3> QED BY <2>2, <2>3, <2>4, <2>5, <3>1 DEF Refers
  <2>6. CASE ~Given(row.parent_station)
    BY <2>1, <2>2, <2>3, <2>4, <2>6, NullAssumption
  <2> QED BY <2>5, <2>6
<1> QED BY <1>2, <1>3 DEF StopsHold, ToSet

LEMMA ServicesFit ==
  ASSUME NEW f, IsFeed(f), ValidateFeed(f), Clean(f), NEW t, ServicesLoaded(t, f)
  PROVE  ServicesHold(t)
<1> DEFINE calendar   == Rows(f, "calendar")
           exceptions == Rows(f, "calendar_dates")
<1>1. "calendar" \in Files /\ "calendar_dates" \in Files
  BY FilesAre
<1>2. /\ \A i \in DOMAIN calendar : calendar[i] \in RowSet(f, "calendar")
      /\ \A i \in DOMAIN exceptions : exceptions[i] \in RowSet(f, "calendar_dates")
  BY <1>1, RowsAre
<1>3. CalendarAccepted(f) /\ Distinct(calendar, {"service_id"})
  BY DEF ValidateFeed, CalendarAccepted
<1> HIDE DEF calendar, exceptions
<1>4. /\ Names(t.services, ServiceCells(f))
      /\ DOMAIN t.calendar = DOMAIN calendar /\ DOMAIN t.calendar_dates = DOMAIN exceptions
      /\ \A i \in DOMAIN calendar :
           /\ Refers(t.services, t.calendar[i].service_id, calendar[i].service_id)
           /\ t.calendar[i].start_date = Strip(calendar[i].start_date).day
           /\ t.calendar[i].end_date = Strip(calendar[i].end_date).day
      /\ \A i \in DOMAIN exceptions :
           /\ Refers(t.services, t.calendar_dates[i].service_id, exceptions[i].service_id)
           /\ t.calendar_dates[i].date = Strip(exceptions[i].date).day
  BY DEF ServicesLoaded, calendar, exceptions
<1>5. Unique(t.calendar, {"service_id"})
  <2>1. ASSUME NEW i \in DOMAIN t.calendar, NEW j \in DOMAIN t.calendar,
               t.calendar[i].service_id = t.calendar[j].service_id
        PROVE  i = j
    <3>1. calendar[i].service_id = calendar[j].service_id
      BY <1>4, <2>1 DEF Refers
    <3>2. Strip(calendar[i].service_id) = Strip(calendar[j].service_id)
      BY <3>1
    <3> QED BY <1>3, <1>4, <3>2 DEF Distinct
  <2> QED BY <2>1 DEF Unique
<1>6. Unique(t.calendar_dates, {"service_id", "date"})
  <2>1. ASSUME NEW i \in DOMAIN t.calendar_dates, NEW j \in DOMAIN t.calendar_dates,
               t.calendar_dates[i].service_id = t.calendar_dates[j].service_id,
               t.calendar_dates[i].date = t.calendar_dates[j].date
        PROVE  i = j
    <3>1. exceptions[i].service_id = exceptions[j].service_id
      BY <1>4, <2>1 DEF Refers
    <3>2. Strip(exceptions[i].service_id) = Strip(exceptions[j].service_id)
      BY <3>1
    <3>3. Strip(exceptions[i].date).day = Strip(exceptions[j].date).day
      BY <1>4, <2>1
    <3> QED BY <1>4, <3>2, <3>3 DEF Clean, exceptions
  <2> QED BY <2>1 DEF Unique
<1>7. \A i \in DOMAIN t.calendar : t.calendar[i].start_date <= t.calendar[i].end_date
  BY <1>2, <1>3, <1>4 DEF CalendarAccepted
<1>8. /\ \A i \in DOMAIN t.calendar : t.calendar[i].service_id \in DOMAIN t.services
      /\ \A i \in DOMAIN t.calendar_dates : t.calendar_dates[i].service_id \in DOMAIN t.services
  BY <1>4 DEF Refers
<1>9. Unique(t.services, {"gtfs_id"})
  BY <1>4 DEF Names
<1> QED BY <1>5, <1>6, <1>7, <1>8, <1>9 DEF ServicesHold, ToSet

LEMMA ShapesFit ==
  ASSUME NEW f, IsFeed(f), ValidateFeed(f), Clean(f), NEW t, ShapesLoaded(t, f)
  PROVE  ShapesHold(t)
<1> DEFINE rows == Rows(f, "shapes")
<1>1. "shapes" \in Files /\ ShapesAccepted(f) /\ ShapePointsAccepted(f)
  BY FilesAre DEF ValidateFeed
<1>2. \A i \in DOMAIN rows : rows[i] \in RowSet(f, "shapes")
  BY <1>1, RowsAre
<1>3. ASSUME NEW i \in DOMAIN rows
      PROVE  /\ Given(rows[i].shape_id) /\ IsNumber(rows[i].shape_pt_sequence)
             /\ Strip(rows[i].shape_pt_sequence) > 0
             /\ Strip(rows[i].shape_pt_sequence) <= ColumnMax
             /\ Given(rows[i].shape_dist_traveled) => Strip(rows[i].shape_dist_traveled) >= 0
  BY <1>1, <1>2 DEF ShapePointsAccepted, SequenceAccepted, DistanceAccepted, Clean
<1>4. \A i \in DOMAIN rows : Strip(rows[i].shape_id) \in Ids(f, "shapes", "shape_id")
  BY <1>1, <1>3, IdIs
<1>5. /\ DOMAIN t.shape_points = DOMAIN rows
      /\ Unique(t.shapes, {"gtfs_id"})
      /\ \A i \in DOMAIN rows :
           /\ Refers(t.shapes, t.shape_points[i].shape_id, rows[i].shape_id)
           /\ t.shape_points[i].pt_sequence = Strip(rows[i].shape_pt_sequence)
           /\ t.shape_points[i].dist = Optional(rows[i].shape_dist_traveled)
  BY DEF ShapesLoaded, Names
<1>6. Unique(t.shape_points, {"shape_id", "pt_sequence"})
  <2>1. ASSUME NEW i \in DOMAIN rows, NEW j \in DOMAIN rows,
               t.shape_points[i].shape_id = t.shape_points[j].shape_id,
               t.shape_points[i].pt_sequence = t.shape_points[j].pt_sequence
        PROVE  i = j
    <3> DEFINE id     == Strip(rows[i].shape_id)
               points == Group(rows, "shape_id", id, "shape_pt_sequence")
    <3>1. rows[i].shape_id = rows[j].shape_id
      BY <1>5, <2>1 DEF Refers
    <3>2. i \in points /\ j \in points
      BY <1>3, <3>1 DEF Group
    <3>3. Cardinality({Strip(rows[k].shape_pt_sequence) : k \in points}) = Cardinality(points)
      BY <1>1, <1>4 DEF ShapesAccepted
    <3>4. \A k, l \in points :
            Strip(rows[k]["shape_pt_sequence"]) = Strip(rows[l]["shape_pt_sequence"]) => k = l
      BY <1>1, <3>3, GroupsApart
    <3>5. Strip(rows[i].shape_pt_sequence) = Strip(rows[j].shape_pt_sequence)
      BY <1>5, <2>1
    <3> QED BY <3>2, <3>4, <3>5
  <2> QED BY <1>5, <2>1 DEF Unique
<1> HIDE DEF rows
<1>7. \A i \in DOMAIN t.shape_points :
        /\ t.shape_points[i].shape_id \in DOMAIN t.shapes
        /\ t.shape_points[i].pt_sequence > 0 /\ t.shape_points[i].pt_sequence <= ColumnMax
        /\ t.shape_points[i].dist = Null \/ t.shape_points[i].dist >= 0
  BY <1>3, <1>5 DEF Refers, Optional
<1> QED BY <1>5, <1>6, <1>7 DEF ShapesHold, ToSet

LEMMA TripsFit ==
  ASSUME NEW f, IsFeed(f), ValidateFeed(f), NEW t, TripsLoaded(t, f)
  PROVE  TripsHold(t)
<1> DEFINE rows == Rows(f, "trips")
<1>1. "trips" \in Files /\ UniqueIds(f, "trips", "trip_id")
  BY FilesAre DEF ValidateFeed
<1>2. Unique(t.trips, {"gtfs_id"})
  BY <1>1, RowsApart DEF TripsLoaded, Unique, Strip
<1> HIDE DEF rows
<1>3. /\ DOMAIN t.trips = DOMAIN rows
      /\ \A i \in DOMAIN rows :
           /\ Refers(t.routes, t.trips[i].route_id, rows[i].route_id)
           /\ Refers(t.services, t.trips[i].service_id, rows[i].service_id)
           /\ ShapeIs(t, rows[i], t.trips[i].shape_id)
           /\ t.trips[i].route_pattern_id \in DOMAIN t.route_patterns
      /\ \A p \in DOMAIN t.route_patterns :
           \E i \in DOMAIN rows : KeyIs(t, f, rows[i], t.route_patterns[p])
      /\ \A p, q \in DOMAIN t.route_patterns :
           t.route_patterns[p] = t.route_patterns[q] => p = q
  BY DEF TripsLoaded, rows
<1>4. Unique(t.route_patterns, {"route_id", "direction_id", "shape_id", "stops"})
  <2>1. ASSUME NEW p \in DOMAIN t.route_patterns
        PROVE  t.route_patterns[p] =
                 [route_id |-> t.route_patterns[p].route_id,
                  direction_id |-> t.route_patterns[p].direction_id,
                  shape_id |-> t.route_patterns[p].shape_id,
                  stops |-> t.route_patterns[p].stops]
    <3>1. PICK i \in DOMAIN rows : KeyIs(t, f, rows[i], t.route_patterns[p])
      BY <1>3
    <3> DEFINE key == t.route_patterns[p]
    <3>2. key = [route_id |-> key.route_id, direction_id |-> Optional(rows[i].direction_id),
                 shape_id |-> key.shape_id, stops |-> key.stops]
      BY <3>1 DEF KeyIs
    <3> HIDE DEF key
    <3>3. key.direction_id = Optional(rows[i].direction_id)
      BY <3>2
    <3> QED BY <3>2, <3>3 DEF key
  <2> QED BY <1>3, <2>1 DEF Unique
<1>5. \A p \in DOMAIN t.route_patterns :
        /\ t.route_patterns[p].route_id \in DOMAIN t.routes
        /\ t.route_patterns[p].shape_id \in DOMAIN t.shapes \cup {Null}
  BY <1>3 DEF KeyIs, ShapeIs, Refers
<1>6. \A i \in DOMAIN t.trips :
        /\ t.trips[i].route_id \in DOMAIN t.routes
        /\ t.trips[i].shape_id \in DOMAIN t.shapes \cup {Null}
        /\ t.trips[i].service_id \in DOMAIN t.services
        /\ t.trips[i].route_pattern_id \in DOMAIN t.route_patterns
  BY <1>3 DEF ShapeIs, Refers
<1> QED BY <1>2, <1>4, <1>5, <1>6 DEF TripsHold, ToSet

\* The events of a trip have different sequence numbers, in the order of time.
LEMMA TripEvents ==
  ASSUME NEW f, IsFeed(f), ValidateFeed(f), NEW id \in Ids(f, "trips", "trip_id")
  PROVE  LET rows   == Rows(f, "stop_times")
             events == Group(rows, "trip_id", id, "stop_sequence")
         IN  /\ IsFiniteSet(events) /\ events \subseteq DOMAIN rows /\ Cardinality(events) >= 2
             /\ \A i, j \in events :
                  Strip(rows[i].stop_sequence) = Strip(rows[j].stop_sequence) => i = j
             /\ \A i, j \in events :
                  Strip(rows[i].stop_sequence) < Strip(rows[j].stop_sequence) =>
                    Strip(rows[i].departure_time) <= Strip(rows[j].arrival_time)
             /\ IsStrictOrder(BySequence(rows, events, "stop_sequence"), events)
<1> DEFINE rows   == Rows(f, "stop_times")
           events == Group(rows, "trip_id", id, "stop_sequence")
<1>1. /\ Cardinality(events) >= 2
      /\ Cardinality({Strip(rows[i].stop_sequence) : i \in events}) = Cardinality(events)
      /\ \A i, j \in events :
           Strip(rows[i].stop_sequence) < Strip(rows[j].stop_sequence) =>
             Strip(rows[i].departure_time) <= Strip(rows[j].arrival_time)
  BY DEF ValidateFeed, TripEventsAccepted
<1>2. "stop_times" \in Files
  BY FilesAre
<1>3. /\ IsFiniteSet(events) /\ events \subseteq DOMAIN rows
      /\ \A i, j \in events :
           Strip(rows[i]["stop_sequence"]) = Strip(rows[j]["stop_sequence"]) => i = j
      /\ IsStrictOrder(BySequence(rows, events, "stop_sequence"), events)
  BY <1>1, <1>2, GroupsApart
<1> HIDE DEF events, rows
<1> QED BY <1>1, <1>3 DEF events, rows

\* A row of stop_times that validation has accepted.
LEMMA EventRow ==
  ASSUME NEW f, IsFeed(f), ValidateFeed(f), NEW i \in DOMAIN Rows(f, "stop_times")
  PROVE  LET row == Rows(f, "stop_times")[i]
         IN  /\ row \in RowSet(f, "stop_times")
             /\ Strip(row.trip_id) \in Ids(f, "trips", "trip_id")
             /\ Strip(row.stop_id) \in Ids(f, "stops", "stop_id")
             /\ IsNumber(row.stop_sequence) /\ Strip(row.stop_sequence) > 0
             /\ Strip(row.arrival_time) \in Nat /\ Strip(row.departure_time) \in Nat
             /\ Strip(row.arrival_time) <= Strip(row.departure_time)
             /\ Strip(row.pickup_type) \in {Blank, 0, 1, 2, 3}
             /\ Given(row.shape_dist_traveled) => Strip(row.shape_dist_traveled) >= 0
             /\ i \in Group(Rows(f, "stop_times"), "trip_id", Strip(row.trip_id),
                            "stop_sequence")
<1> DEFINE row == Rows(f, "stop_times")[i]
<1>1. "stop_times" \in Files /\ StopTimesAccepted(f)
  BY FilesAre DEF ValidateFeed
<1>2. row \in RowSet(f, "stop_times")
  BY <1>1, RowsAre
<1>3. /\ Strip(row.trip_id) \in Ids(f, "trips", "trip_id")
      /\ Strip(row.stop_id) \in Ids(f, "stops", "stop_id")
      /\ IsNumber(row.stop_sequence) /\ Strip(row.stop_sequence) > 0
      /\ Strip(row.arrival_time) \in Nat /\ Strip(row.departure_time) \in Nat
      /\ Strip(row.arrival_time) <= Strip(row.departure_time)
      /\ Strip(row.pickup_type) \in {Blank, 0, 1, 2, 3}
      /\ Given(row.shape_dist_traveled) => Strip(row.shape_dist_traveled) >= 0
  <2> HIDE DEF row
  <2> QED BY <1>1, <1>2 DEF StopTimesAccepted, SequenceAccepted, DistanceAccepted, IsTime
<1>4. i \in Group(Rows(f, "stop_times"), "trip_id", Strip(row.trip_id), "stop_sequence")
  BY <1>3 DEF Group
<1> QED BY <1>2, <1>3, <1>4

LEMMA StopTimesFit ==
  ASSUME NEW f, IsFeed(f), ValidateFeed(f), Clean(f), NEW t, StopTimesLoaded(t, f)
  PROVE  StopTimesHold(t)
<1> DEFINE rows == Rows(f, "stop_times")
<1>1. /\ DOMAIN t.stop_times = DOMAIN rows
      /\ \A i \in DOMAIN rows :
           /\ Refers(t.trips, t.stop_times[i].trip_id, rows[i].trip_id)
           /\ Refers(t.stops, t.stop_times[i].stop_id, rows[i].stop_id)
           /\ t.stop_times[i].stop_sequence = Strip(rows[i].stop_sequence)
           /\ t.stop_times[i].arrival_time = Strip(rows[i].arrival_time)
           /\ t.stop_times[i].departure_time = Strip(rows[i].departure_time)
           /\ t.stop_times[i].dist = Optional(rows[i].shape_dist_traveled)
  BY DEF StopTimesLoaded
<1>2. ASSUME NEW i \in DOMAIN rows, NEW j \in DOMAIN rows,
             t.stop_times[i].trip_id = t.stop_times[j].trip_id,
             t.stop_times[i].stop_sequence = t.stop_times[j].stop_sequence
      PROVE  i = j
  <2> DEFINE id     == Strip(rows[i].trip_id)
             events == Group(rows, "trip_id", id, "stop_sequence")
  <2>1. rows[i].trip_id = rows[j].trip_id
    BY <1>1, <1>2 DEF Refers
  <2>2. i \in events /\ j \in events /\ id \in Ids(f, "trips", "trip_id")
    BY <2>1, EventRow
  <2>3. Strip(rows[i].stop_sequence) = Strip(rows[j].stop_sequence)
    BY <1>1, <1>2
  <2> QED BY <2>2, <2>3, TripEvents
<1>3. ASSUME NEW i \in DOMAIN rows
      PROVE  /\ t.stop_times[i].trip_id \in DOMAIN t.trips
             /\ t.stop_times[i].stop_id \in DOMAIN t.stops
             /\ t.stop_times[i].stop_sequence > 0 /\ t.stop_times[i].stop_sequence <= ColumnMax
             /\ 0 <= t.stop_times[i].arrival_time
             /\ t.stop_times[i].arrival_time <= t.stop_times[i].departure_time
             /\ t.stop_times[i].dist = Null \/ t.stop_times[i].dist >= 0
  <2> DEFINE row == rows[i]
  <2>1. /\ row \in RowSet(f, "stop_times")
        /\ Strip(row.stop_sequence) > 0
        /\ Strip(row.arrival_time) \in Nat /\ Strip(row.arrival_time) <= Strip(row.departure_time)
        /\ Given(row.shape_dist_traveled) => Strip(row.shape_dist_traveled) >= 0
    BY EventRow
  <2>2. Strip(row.stop_sequence) <= ColumnMax
    BY <2>1 DEF Clean
  <2> HIDE DEF rows
  <2> QED BY <1>1, <2>1, <2>2 DEF Refers, Optional
<1> HIDE DEF rows
<1> QED BY <1>1, <1>2, <1>3 DEF StopTimesHold, Unique, ToSet

-----------------------------------------------------------------------------
(* The load, part by part *)

\* How far the load is: the tables of the parts to come are empty.
Stage(t, f, part) ==
  /\ DOMAIN t = DOMAIN EmptyTables
  /\ IF part = "agencies" THEN t.agency = <<>> ELSE AgenciesLoaded(t, f)
  /\ IF part \in {"agencies", "routes"} THEN t.routes = <<>> ELSE RoutesLoaded(t, f)
  /\ IF part \in {"agencies", "routes", "services"}
       THEN t.services = <<>> /\ t.calendar = <<>> /\ t.calendar_dates = <<>>
       ELSE ServicesLoaded(t, f)
  /\ IF part \in {"agencies", "routes", "services", "stops"}
       THEN t.stops = <<>> ELSE StopsLoaded(t, f)
  /\ IF part \in {"agencies", "routes", "services", "stops", "shapes"}
       THEN t.shapes = <<>> /\ t.shape_points = <<>> ELSE ShapesLoaded(t, f)
  /\ IF part \in {"agencies", "routes", "services", "stops", "shapes", "trips"}
       THEN t.trips = <<>> /\ t.route_patterns = <<>> ELSE TripsLoaded(t, f)
  /\ IF part \in {"agencies", "routes", "services", "stops", "shapes", "trips", "stop_times"}
       THEN t.stop_times = <<>> ELSE StopTimesLoaded(t, f)
  /\ part = "commit" => GeometriesBuilt(t)

LEMMA StageHolds ==
  ASSUME NEW f, IsFeed(f), ValidateFeed(f), Clean(f), NEW t, NEW part, Stage(t, f, part)
  PROVE  TablesHold(t) /\ ChecksHold(t)
<1>1. AgenciesHold(t)
  <2>1. t.agency = <<>> => AgenciesHold(t)
    BY DEF AgenciesHold, Unique
  <2> QED BY <2>1, AgenciesFit DEF Stage
<1>2. RoutesHold(t)
  <2>1. t.routes = <<>> => RoutesHold(t)
    BY DEF RoutesHold, Unique, ToSet
  <2> QED BY <2>1, RoutesFit DEF Stage
<1>3. ServicesHold(t)
  <2>1. t.services = <<>> /\ t.calendar = <<>> /\ t.calendar_dates = <<>> => ServicesHold(t)
    BY DEF ServicesHold, Unique, ToSet
  <2> QED BY <2>1, ServicesFit DEF Stage
<1>4. StopsHold(t)
  <2>1. t.stops = <<>> => StopsHold(t)
    BY DEF StopsHold, Unique, ToSet
  <2> QED BY <2>1, StopsFit DEF Stage
<1>5. ShapesHold(t)
  <2>1. t.shapes = <<>> /\ t.shape_points = <<>> => ShapesHold(t)
    BY DEF ShapesHold, Unique, ToSet
  <2> QED BY <2>1, ShapesFit DEF Stage
<1>6. TripsHold(t)
  <2>1. t.trips = <<>> /\ t.route_patterns = <<>> => TripsHold(t)
    BY DEF TripsHold, Unique, ToSet
  <2> QED BY <2>1, TripsFit DEF Stage
<1>7. StopTimesHold(t)
  <2>1. t.stop_times = <<>> => StopTimesHold(t)
    BY DEF StopTimesHold, Unique, ToSet
  <2> QED BY <2>1, StopTimesFit DEF Stage
<1> QED BY <1>1, <1>2, <1>3, <1>4, <1>5, <1>6, <1>7, TableByTable DEF AllHold

\* Two tables with the same ids of the feed.
SameNames(u, t) ==
  DOMAIN u = DOMAIN t /\ \A id \in DOMAIN t : u[id].gtfs_id = t[id].gtfs_id

\* What is loaded stays loaded while its tables, and those it refers to, stay.
LEMMA Kept ==
  ASSUME NEW f, NEW t, NEW u
  PROVE  /\ u.agency = t.agency /\ AgenciesLoaded(t, f) => AgenciesLoaded(u, f)
         /\ u.agency = t.agency /\ u.routes = t.routes /\ RoutesLoaded(t, f)
              => RoutesLoaded(u, f)
         /\ /\ u.services = t.services /\ u.calendar = t.calendar
            /\ u.calendar_dates = t.calendar_dates /\ ServicesLoaded(t, f)
            => ServicesLoaded(u, f)
         /\ u.stops = t.stops /\ StopsLoaded(t, f) => StopsLoaded(u, f)
         /\ u.shapes = t.shapes /\ u.shape_points = t.shape_points /\ ShapesLoaded(t, f)
              => ShapesLoaded(u, f)
         /\ /\ u.routes = t.routes /\ u.services = t.services /\ u.stops = t.stops
            /\ SameNames(u.shapes, t.shapes) /\ u.trips = t.trips
            /\ u.route_patterns = t.route_patterns /\ TripsLoaded(t, f)
            => TripsLoaded(u, f)
         /\ u.trips = t.trips /\ u.stops = t.stops /\ u.stop_times = t.stop_times
              /\ StopTimesLoaded(t, f) => StopTimesLoaded(u, f)
<1>1. u.agency = t.agency /\ AgenciesLoaded(t, f) => AgenciesLoaded(u, f)
  BY DEF AgenciesLoaded
<1>2. u.agency = t.agency /\ u.routes = t.routes /\ RoutesLoaded(t, f) => RoutesLoaded(u, f)
  BY DEF RoutesLoaded
<1>3. /\ u.services = t.services /\ u.calendar = t.calendar
      /\ u.calendar_dates = t.calendar_dates /\ ServicesLoaded(t, f)
      => ServicesLoaded(u, f)
  BY DEF ServicesLoaded
<1>4. u.stops = t.stops /\ StopsLoaded(t, f) => StopsLoaded(u, f)
  BY DEF StopsLoaded
<1>5. u.shapes = t.shapes /\ u.shape_points = t.shape_points /\ ShapesLoaded(t, f)
        => ShapesLoaded(u, f)
  BY DEF ShapesLoaded
<1>6. ASSUME u.routes = t.routes, u.services = t.services, u.stops = t.stops,
             SameNames(u.shapes, t.shapes), u.trips = t.trips,
             u.route_patterns = t.route_patterns, TripsLoaded(t, f)
      PROVE  TripsLoaded(u, f)
  <2>1. \A row, id : ShapeIs(t, row, id) => ShapeIs(u, row, id)
    BY <1>6 DEF ShapeIs, Refers, Has, SameNames
  <2>2. \A row, key : KeyIs(t, f, row, key) => KeyIs(u, f, row, key)
    BY <1>6, <2>1 DEF KeyIs
  <2> QED BY <1>6, <2>1, <2>2 DEF TripsLoaded
<1>7. u.trips = t.trips /\ u.stops = t.stops /\ u.stop_times = t.stop_times
        /\ StopTimesLoaded(t, f) => StopTimesLoaded(u, f)
  BY DEF StopTimesLoaded
<1> QED BY <1>1, <1>2, <1>3, <1>4, <1>5, <1>6, <1>7

\* The maps find what is there.
LEMMA IdOfRefers ==
  ASSUME NEW table, NEW gtfs_id, Has(table, gtfs_id)
  PROVE  Refers(table, IdOf(table, gtfs_id), gtfs_id)
BY DEF Has, IdOf, Refers

\* The elements of a finite set, one after the other.
LEMMA SequenceOfSet ==
  ASSUME NEW S, IsFiniteSet(S)
  PROVE  LET list == SetToSeq(S)
         IN  /\ Cardinality(S) \in Nat /\ list \in [1..Cardinality(S) -> S]
             /\ \A i, j \in 1..Cardinality(S) : list[i] = list[j] => i = j
             /\ \A x \in S : \E i \in 1..Cardinality(S) : list[i] = x
<1> DEFINE n    == Cardinality(S)
           list == SetToSeq(S)
<1>1. n \in Nat /\ ExistsBijection(1..n, S)
  BY FS_CardinalityType
<1>2. PICK g \in Bijection(1..n, S) : TRUE
  BY <1>1 DEF ExistsBijection
<1>3. g \in [1..n -> S] /\ IsInjective(g)
  BY <1>2 DEF Bijection, Injection
<1>4. list \in [1..n -> S] /\ IsInjective(list)
  <2>1. list = CHOOSE h \in [1..n -> S] : IsInjective(h)
    BY DEF SetToSeq
  <2> HIDE DEF n, list
  <2> QED BY <1>3, <2>1
<1> HIDE DEF n, list
<1>5. list \in Injection(1..n, S)
  BY <1>4 DEF Injection
<1>6. IsFiniteSet(1..n) /\ Cardinality(1..n) = n
  <2>1. /\ IsFiniteSet(1..n)
        /\ Cardinality(1..n) = IF 1 > n THEN 0 ELSE n - 1 + 1
    BY <1>1, FS_Interval
  <2> QED BY <1>1, <2>1
<1>7. list \in Surjection(1..n, S)
  BY <1>5, <1>6, FS_Injection DEF n
<1>8. \A i, j \in 1..n : list[i] = list[j] => i = j
  BY <1>4 DEF IsInjective
<1>9. \A x \in S : \E i \in 1..n : list[i] = x
  BY <1>7 DEF Surjection
<1> QED BY <1>1, <1>4, <1>8, <1>9 DEF n, list

\* So its names make a table.
LEMMA NamesOfSet ==
  ASSUME NEW S, IsFiniteSet(S), NEW table, DOMAIN table = DOMAIN SetToSeq(S),
         \A i \in DOMAIN table : table[i].gtfs_id = SetToSeq(S)[i]
  PROVE  Names(table, S)
BY SequenceOfSet DEF Names, Unique

\* The cells of a column are finitely many.
LEMMA ColumnFinite ==
  ASSUME NEW f, IsFeed(f), NEW file \in Files, NEW column
  PROVE  IsFiniteSet({row[column] : row \in RowSet(f, file)})
<1> DEFINE rows == Rows(f, file)
           g    == [i \in DOMAIN rows |-> rows[i][column]]
<1>1. IsFiniteSet(DOMAIN rows) /\ RowSet(f, file) = {rows[i] : i \in DOMAIN rows}
  BY RowsAre
<1> HIDE DEF rows
<1>2. IsFiniteSet({g[i] : i \in DOMAIN rows})
  <2>1. DOMAIN g = DOMAIN rows /\ g = [i \in DOMAIN rows |-> g[i]]
    OBVIOUS
  <2> HIDE DEF g
  <2> QED BY <1>1, <2>1, FiniteImage
<1>3. {row[column] : row \in RowSet(f, file)} = {g[i] : i \in DOMAIN rows}
  BY <1>1
<1> QED BY <1>2, <1>3

\* In a clean feed, what validation finds among the ids is there cell by cell.
LEMMA CellFound ==
  ASSUME NEW f, IsFeed(f), Clean(f), NEW file \in Files, NEW column \in Columns[file],
         NEW id \in Ids(f, file, column)
  PROVE  \E i \in DOMAIN Rows(f, file) : Rows(f, file)[i][column] = Plain(id)
<1>1. PICK i \in DOMAIN Rows(f, file) : Strip(Rows(f, file)[i][column]) = id
  BY IdsAre
<1>2. Rows(f, file)[i] \in RowSet(f, file)
  BY RowsAre
<1> QED BY <1>1, <1>2, CellsAreTexts

\* The stops that validation hands on are those of the trip's events, in order.
LEMMA StopsHandedOn ==
  ASSUME NEW f, IsFeed(f), ValidateFeed(f), NEW id \in Ids(f, "trips", "trip_id")
  PROVE  LET rows   == Rows(f, "stop_times")
             events == Group(rows, "trip_id", id, "stop_sequence")
             order  == Sorted(events, BySequence(rows, events, "stop_sequence"))
             stops  == TripStopIds(f)[id]
         IN  /\ Cardinality(events) \in Nat /\ DOMAIN stops = 1..Cardinality(events)
             /\ order \in [1..Cardinality(events) -> events]
             /\ \A n \in DOMAIN stops :
                  /\ stops[n] = Strip(rows[order[n]].stop_id)
                  /\ stops[n] \in Ids(f, "stops", "stop_id")
<1> DEFINE rows   == Rows(f, "stop_times")
           events == Group(rows, "trip_id", id, "stop_sequence")
           before == BySequence(rows, events, "stop_sequence")
           order  == Sorted(events, before)
           stops  == TripStopIds(f)[id]
<1>1. IsFiniteSet(events) /\ events \subseteq DOMAIN rows /\ IsStrictOrder(before, events)
  BY TripEvents
<1>2. stops = [n \in 1..Cardinality(events) |-> Strip(rows[order[n]].stop_id)]
  BY DEF TripStopIds
<1>3. Cardinality(events) \in Nat /\ order \in [1..Cardinality(events) -> events]
  <2> HIDE DEF events, before
  <2> QED BY <1>1, SortedLists
<1>4. \A i \in DOMAIN rows : Strip(rows[i].stop_id) \in Ids(f, "stops", "stop_id")
  BY EventRow
<1> HIDE DEF stops, order, events, rows
<1>5. \A n \in DOMAIN stops :
        /\ stops[n] = Strip(rows[order[n]].stop_id)
        /\ stops[n] \in Ids(f, "stops", "stop_id")
  BY <1>1, <1>2, <1>3, <1>4
<1> QED BY <1>2, <1>3, <1>5 DEF stops, order, events, rows

-----------------------------------------------------------------------------
(* The patterns *)

\* Every trip has its pattern, every pattern a trip, and no two are the same.
LEMMA PatternsAre ==
  ASSUME NEW f, IsFeed(f)
  PROVE  LET rows     == Rows(f, "trips")
             patterns == PatternsOf(rows)
         IN  /\ \E n \in Nat : DOMAIN patterns = 1..n
             /\ \A p \in DOMAIN patterns : \E i \in DOMAIN rows : patterns[p] = PatternKey(rows[i])
             /\ \A i \in DOMAIN rows : \E p \in DOMAIN patterns : patterns[p] = PatternKey(rows[i])
             /\ \A p, q \in DOMAIN patterns : patterns[p] = patterns[q] => p = q
<1> DEFINE rows     == Rows(f, "trips")
           firsts   == FirstTrips(rows)
           before   == {p \in firsts \X firsts : p[1] < p[2]}
           order    == Sorted(firsts, before)
           patterns == PatternsOf(rows)
<1>1. IsFiniteSet(DOMAIN rows) /\ DOMAIN rows \subseteq Nat \ {0} /\ DOMAIN rows = 1..Len(rows)
      /\ Len(rows) \in Nat
  BY FilesAre, RowsAre
<1> HIDE DEF rows
<1>2. firsts \subseteq DOMAIN rows /\ IsFiniteSet(firsts)
  <2>1. firsts \subseteq DOMAIN rows
    BY DEF FirstTrips
  <2> HIDE DEF firsts
  <2> QED BY <1>1, <2>1, FS_Subset
<1>3. \A i, j \in firsts : PatternKey(rows[i]) = PatternKey(rows[j]) => i = j
  <2> SUFFICES ASSUME NEW i \in firsts, NEW j \in firsts, i < j
               PROVE  PatternKey(rows[i]) # PatternKey(rows[j])
    <3> HIDE DEF firsts
    <3> QED BY <1>1, <1>2
  <2>1. i \in 1..j - 1
    <3> HIDE DEF firsts
    <3> QED BY <1>1, <1>2
  <2> QED BY <2>1 DEF FirstTrips
<1>4. ASSUME NEW i \in DOMAIN rows
      PROVE  \E j \in firsts : PatternKey(rows[j]) = PatternKey(rows[i])
  <2> DEFINE same == {j \in DOMAIN rows : PatternKey(rows[j]) = PatternKey(rows[i])}
  <2>1. PICK j \in same : \A k \in same : j <= k
    <3>1. same \subseteq Nat /\ same # {}
      BY <1>1
    <3> HIDE DEF same
    <3> QED BY <3>1, LeastNatural
  <2>2. ASSUME NEW k \in 1..j - 1 PROVE PatternKey(rows[k]) # PatternKey(rows[j])
    <3>1. k \in DOMAIN rows /\ ~(j <= k)
      BY <1>1
    <3> QED BY <2>1, <3>1
  <2>3. j \in firsts
    BY <2>2 DEF FirstTrips
  <2> QED BY <2>3
<1> HIDE DEF firsts
<1>5. IsStrictOrder(before, firsts)
  <2>1. \A i, j \in firsts : <<i, j>> \in before <=> i < j
    OBVIOUS
  <2> HIDE DEF before
  <2> QED BY <1>1, <1>2, <2>1 DEF IsStrictOrder
<1> HIDE DEF before
<1>6. /\ Cardinality(firsts) \in Nat /\ order \in [1..Cardinality(firsts) -> firsts]
      /\ \A i \in firsts : \E n \in 1..Cardinality(firsts) : order[n] = i
      /\ \A n, m \in 1..Cardinality(firsts) : order[n] = order[m] => n = m
  BY <1>2, <1>5, SortedLists
<1>7. patterns = [n \in 1..Cardinality(firsts) |-> PatternKey(rows[order[n]])]
  BY DEF PatternsOf, firsts, before
<1> HIDE DEF order, patterns
<1>8. DOMAIN patterns = 1..Cardinality(firsts)
      /\ \A n \in 1..Cardinality(firsts) : patterns[n] = PatternKey(rows[order[n]])
  BY <1>7
<1>9. \A p \in DOMAIN patterns : \E i \in DOMAIN rows : patterns[p] = PatternKey(rows[i])
  BY <1>2, <1>6, <1>8
<1>10. \A i \in DOMAIN rows : \E p \in DOMAIN patterns : patterns[p] = PatternKey(rows[i])
  BY <1>4, <1>6, <1>8
<1>11. \A p, q \in DOMAIN patterns : patterns[p] = patterns[q] => p = q
  BY <1>3, <1>6, <1>8
<1> QED BY <1>6, <1>8, <1>9, <1>10, <1>11 DEF rows, patterns

\* The key of a trip is made of what its row and its stops refer to.
LEMMA KeyFits ==
  ASSUME NEW f, IsFeed(f), ValidateFeed(f), validated = TripStopIds(f),
         NEW row, Has(tables.routes, row.route_id),
         Strip(row.trip_id) \in Ids(f, "trips", "trip_id"),
         LET stops == validated[row.trip_id.text]
         IN  \A n \in DOMAIN stops : Has(tables.stops, Plain(stops[n]))
  PROVE  /\ KeyIs(tables, f, row, PatternKey(row))
         /\ ShapeIs(tables, row, ShapeOf(row))
<1> DEFINE stops == TripStopIds(f)[Strip(row.trip_id)]
           key   == PatternKey(row)
<1>1. Refers(tables.routes, IdOf(tables.routes, row.route_id), row.route_id)
  BY IdOfRefers
<1>2. ShapeIs(tables, row, ShapeOf(row))
  BY IdOfRefers DEF ShapeIs, ShapeOf
<1>3. stops = validated[row.trip_id.text]
  BY DEF Strip
<1> HIDE DEF stops
<1>4. \A n \in DOMAIN stops : Refers(tables.stops, IdOf(tables.stops, Plain(stops[n])), Plain(stops[n]))
  BY <1>3, IdOfRefers
<1>5. /\ key = [route_id     |-> IdOf(tables.routes, row.route_id),
                direction_id |-> Optional(row.direction_id),
                shape_id     |-> ShapeOf(row),
                stops        |-> [n \in DOMAIN stops |-> IdOf(tables.stops, Plain(stops[n]))]]
  BY <1>3 DEF PatternKey, Map
<1> HIDE DEF key
<1>6. /\ key = [route_id |-> key.route_id, direction_id |-> Optional(row.direction_id),
                shape_id |-> key.shape_id, stops |-> key.stops]
      /\ Refers(tables.routes, key.route_id, row.route_id)
      /\ ShapeIs(tables, row, key.shape_id)
  BY <1>1, <1>2, <1>5
<1>7. key.stops = [n \in DOMAIN stops |-> IdOf(tables.stops, Plain(stops[n]))]
  BY <1>5
<1>8. key.stops = [n \in DOMAIN stops |-> key.stops[n]]
  BY <1>7
<1>9. \A n \in DOMAIN stops : Refers(tables.stops, key.stops[n], Plain(stops[n]))
  BY <1>4, <1>7
<1> QED BY <1>2, <1>6, <1>8, <1>9 DEF KeyIs, stops, key

-----------------------------------------------------------------------------
(* One part of the load *)

\* What a part does: it loads its tables, or the run fails, which only happens
\* with a feed that is not clean.
Loads(next) ==
  \/ /\ Stage(tables', feed, next) /\ phase' = next
     /\ UNCHANGED <<committed, feed, validated, runs, outcome, source>>
  \/ End("failed") /\ ~Clean(feed)

Fields == DOMAIN EmptyTables

LEMMA FieldsAre ==
  Fields = {"agency", "routes", "services", "calendar", "calendar_dates", "stops", "shapes",
            "shape_points", "route_patterns", "trips", "stop_times"}
BY DEF Fields, EmptyTables

LEMMA AgenciesStep ==
  ASSUME IsFeed(feed), ValidateFeed(feed), Stage(tables, feed, "agencies"), ImportAgencies
  PROVE  Loads("routes")
<1> DEFINE rows     == Rows(feed, "agency")
           readable == \A row \in ToSet(rows) :
                         NoColumn \notin {Strip(row.agency_name), Strip(row.agency_timezone)}
           after    == [tables EXCEPT !.agency = Map(rows, LAMBDA row : [gtfs_id |-> row.agency_id])]
<1>1. /\ DOMAIN after = DOMAIN tables
      /\ after.agency = Map(rows, LAMBDA row : [gtfs_id |-> row.agency_id])
      /\ \A table \in Fields \ {"agency"} : after[table] = tables[table]
  BY FieldsAre DEF Stage, Fields
<1>2. AgenciesLoaded(after, feed)
  <2> HIDE DEF after, rows
  <2> QED BY <1>1 DEF AgenciesLoaded, Map, rows
<1>3. Stage(after, feed, "routes")
  <2> HIDE DEF after
  <2> QED BY <1>1, <1>2, FieldsAre DEF Stage, Fields
<1>4. Clean(feed) => readable
  BY DEF Clean, RowSet
<1>5. Load("agencies", readable, after, "routes")
  BY DEF ImportAgencies
<1> HIDE DEF readable, after
<1>6. Clean(feed) => TablesHold(after) /\ ChecksHold(after)
  BY <1>3, StageHolds
<1> QED BY <1>3, <1>4, <1>5, <1>6 DEF Load, Loads

LEMMA RoutesStep ==
  ASSUME IsFeed(feed), ValidateFeed(feed), Stage(tables, feed, "routes"), ImportRoutes
  PROVE  Loads("services")
<1> DEFINE rows     == Rows(feed, "routes")
           readable == \A row \in ToSet(rows) :
                         Has(tables.agency, row.agency_id) /\ OrDefault(row.route_type, 3) \in Int
           after    == [tables EXCEPT !.routes = Map(rows, LAMBDA row :
                         [gtfs_id    |-> row.route_id,
                          agency_id  |-> IdOf(tables.agency, row.agency_id),
                          route_type |-> OrDefault(row.route_type, 3),
                          color      |-> Optional(row.route_color)])]
<1>1. /\ DOMAIN after = DOMAIN tables
      /\ after.routes = Map(rows, LAMBDA row :
                          [gtfs_id    |-> row.route_id,
                           agency_id  |-> IdOf(tables.agency, row.agency_id),
                           route_type |-> OrDefault(row.route_type, 3),
                           color      |-> Optional(row.route_color)])
      /\ \A table \in Fields \ {"routes"} : after[table] = tables[table]
  BY FieldsAre DEF Stage, Fields
<1>2. ASSUME readable PROVE RoutesLoaded(after, feed)
  <2>1. ASSUME NEW i \in DOMAIN rows
        PROVE  Refers(tables.agency, IdOf(tables.agency, rows[i].agency_id), rows[i].agency_id)
    BY <1>2, IdOfRefers DEF ToSet
  <2> HIDE DEF after, rows
  <2>2. /\ DOMAIN after.routes = DOMAIN rows
        /\ \A i \in DOMAIN rows :
             /\ after.routes[i].gtfs_id = rows[i].route_id
             /\ after.routes[i].agency_id = IdOf(tables.agency, rows[i].agency_id)
             /\ after.routes[i].route_type = OrDefault(rows[i].route_type, 3)
             /\ after.routes[i].color = Optional(rows[i].route_color)
    BY <1>1 DEF Map
  <2>3. after.agency = tables.agency
    BY <1>1, FieldsAre
  <2>4. ASSUME NEW i \in DOMAIN rows
        PROVE  /\ after.routes[i].gtfs_id = rows[i].route_id
               /\ after.routes[i].route_type = OrDefault(rows[i].route_type, 3)
               /\ after.routes[i].color = Optional(rows[i].route_color)
               /\ Refers(after.agency, after.routes[i].agency_id, rows[i].agency_id)
    BY <2>1, <2>2, <2>3
  <2> QED BY <2>2, <2>4 DEF RoutesLoaded, rows
<1>3. ASSUME readable PROVE Stage(after, feed, "services")
  <2>1. AgenciesLoaded(after, feed)
    <3> HIDE DEF after
    <3> QED BY <1>1, FieldsAre, Kept DEF Stage
  <2> HIDE DEF after
  <2> QED BY <1>1, <1>2, <1>3, <2>1, FieldsAre DEF Stage, Fields
<1>4. ASSUME Clean(feed) PROVE readable
  <2> SUFFICES ASSUME NEW i \in DOMAIN rows
               PROVE  Has(tables.agency, rows[i].agency_id) /\ OrDefault(rows[i].route_type, 3) \in Int
    BY DEF ToSet
  <2>1. rows[i] \in RowSet(feed, "routes") /\ rows[i].agency_id = Plain(Strip(rows[i].agency_id))
    BY <1>4, FilesAre, RowsAre, CellsAreTexts DEF Columns
  <2>2. Strip(rows[i].agency_id) \in Ids(feed, "agency", "agency_id")
    BY <2>1 DEF ValidateFeed, RoutesAccepted
  <2>3. PICK j \in DOMAIN Rows(feed, "agency") :
          Rows(feed, "agency")[j]["agency_id"] = Plain(Strip(rows[i].agency_id))
    BY <1>4, <2>2, FilesAre, CellFound DEF Columns
  <2>4. Has(tables.agency, rows[i].agency_id)
    BY <2>1, <2>3 DEF Stage, AgenciesLoaded, Has
  <2>5. OrDefault(rows[i].route_type, 3) \in Int
    BY <1>4, <2>1, SmallAssumption DEF Clean, IsSmall
  <2> QED BY <2>4, <2>5
<1>5. Load("routes", readable, after, "services")
  BY DEF ImportRoutes
<1> HIDE DEF readable, after
<1>6. ASSUME Clean(feed) PROVE TablesHold(after) /\ ChecksHold(after)
  BY <1>3, <1>4, <1>6, StageHolds
<1> QED BY <1>3, <1>4, <1>5, <1>6 DEF Load, Loads

LEMMA ServicesStep ==
  ASSUME IsFeed(feed), ValidateFeed(feed), Stage(tables, feed, "services"), ImportServices
  PROVE  Loads("stops")
<1> DEFINE calendar   == Rows(feed, "calendar")
           exceptions == Rows(feed, "calendar_dates")
           ids        == {row.service_id : row \in ToSet(calendar) \cup ToSet(exceptions)}
           services   == Map(SetToSeq(ids), LAMBDA id : [gtfs_id |-> id])
           runs_by    == Map(calendar, LAMBDA row :
                           [service_id |-> IdOf(services, row.service_id),
                            days       |-> {day \in Weekdays : row[day] = Plain(1)},
                            start_date |-> Strip(row.start_date).day,
                            end_date   |-> Strip(row.end_date).day])
           changes    == Map(exceptions, LAMBDA row :
                           [service_id     |-> IdOf(services, row.service_id),
                            date           |-> Strip(row.date).day,
                            exception_type |-> Strip(row.exception_type)])
           after      == [tables EXCEPT !.services = services, !.calendar = runs_by,
                                        !.calendar_dates = changes]
<1>1. Names(services, ids) /\ ids = ServiceCells(feed)
  <2>1. ids = ServiceCells(feed)
    BY DEF ServiceCells, RowSet
  <2>2. IsFiniteSet(ids)
    <3> DEFINE A == RowSet(feed, "calendar")
               B == RowSet(feed, "calendar_dates")
               some   == {row["service_id"] : row \in A}
               others == {row["service_id"] : row \in B}
    <3>1. IsFiniteSet(some) /\ IsFiniteSet(others)
      <4>1. "calendar" \in Files /\ "calendar_dates" \in Files
        BY FilesAre
      <4> QED BY <4>1, ColumnFinite, ZenonT(40)
    <3>2. ids = some \cup others
      BY <2>1 DEF ServiceCells
    <3> HIDE DEF ids, some, others
    <3> QED BY <3>1, <3>2, FS_Union
  <2> HIDE DEF ids
  <2>3. /\ DOMAIN services = DOMAIN SetToSeq(ids)
        /\ \A i \in DOMAIN services : services[i].gtfs_id = SetToSeq(ids)[i]
    BY DEF Map
  <2> HIDE DEF services
  <2> QED BY <2>1, <2>2, <2>3, NamesOfSet
<1> HIDE DEF ids, services
<1>2. /\ \A i \in DOMAIN calendar :
           Refers(services, IdOf(services, calendar[i].service_id), calendar[i].service_id)
      /\ \A i \in DOMAIN exceptions :
           Refers(services, IdOf(services, exceptions[i].service_id), exceptions[i].service_id)
  <2>1. /\ \A i \in DOMAIN calendar : calendar[i].service_id \in ids
        /\ \A i \in DOMAIN exceptions : exceptions[i].service_id \in ids
    BY DEF ids, ToSet
  <2>2. \A id \in ids : Has(services, id)
    BY <1>1 DEF Names, Has
  <2> QED BY <2>1, <2>2, IdOfRefers
<1> HIDE DEF calendar, exceptions
<1>3. /\ DOMAIN runs_by = DOMAIN calendar
      /\ \A i \in DOMAIN calendar :
           /\ runs_by[i].service_id = IdOf(services, calendar[i].service_id)
           /\ runs_by[i].days = {day \in Weekdays : calendar[i][day] = Plain(1)}
           /\ runs_by[i].start_date = Strip(calendar[i].start_date).day
           /\ runs_by[i].end_date = Strip(calendar[i].end_date).day
  BY DEF Map
<1>4. /\ DOMAIN changes = DOMAIN exceptions
      /\ \A i \in DOMAIN exceptions :
           /\ changes[i].service_id = IdOf(services, exceptions[i].service_id)
           /\ changes[i].date = Strip(exceptions[i].date).day
           /\ changes[i].exception_type = Strip(exceptions[i].exception_type)
  BY DEF Map
<1> HIDE DEF runs_by, changes
<1>5. /\ DOMAIN after = DOMAIN tables
      /\ after.services = services /\ after.calendar = runs_by /\ after.calendar_dates = changes
      /\ \A table \in Fields \ {"services", "calendar", "calendar_dates"} :
           after[table] = tables[table]
  BY FieldsAre DEF Stage, Fields
<1>6. Load("services", TRUE, after, "stops")
  BY DEF ImportServices, ids, services, runs_by, changes, calendar, exceptions
<1> HIDE DEF after
<1>7. ServicesLoaded(after, feed)
  BY <1>1, <1>2, <1>3, <1>4, <1>5 DEF ServicesLoaded, calendar, exceptions
<1>8. AgenciesLoaded(after, feed) /\ RoutesLoaded(after, feed)
  BY <1>5, FieldsAre, Kept DEF Stage
<1>9. Stage(after, feed, "stops")
  BY <1>5, <1>7, <1>8, FieldsAre DEF Stage, Fields
<1>10. Clean(feed) => TablesHold(after) /\ ChecksHold(after)
  BY <1>9, StageHolds
<1> QED BY <1>6, <1>9, <1>10 DEF Load, Loads

LEMMA StopsStep ==
  ASSUME IsFeed(feed), ValidateFeed(feed), Stage(tables, feed, "stops"), ImportStops
  PROVE  Loads("shapes")
<1> DEFINE rows     == Rows(feed, "stops")
           inserted == Map(rows, LAMBDA row :
             [gtfs_id |-> row.stop_id, lat |-> Strip(row.stop_lat), lon |-> Strip(row.stop_lon),
              location_type |-> OrDefault(row.location_type, 0), parent_station_id |-> Null])
           ParentOf(row) == IF Given(row.parent_station)
                              THEN IdOf(inserted, row.parent_station) ELSE Null
           readable == \A row \in ToSet(rows) :
                         Given(row.parent_station) => Has(inserted, row.parent_station)
           stops    == [i \in DOMAIN rows |->
                         [inserted[i] EXCEPT !.parent_station_id = ParentOf(rows[i])]]
           after    == [tables EXCEPT !.stops = stops]
<1>1. /\ DOMAIN inserted = DOMAIN rows
      /\ \A i \in DOMAIN rows :
           inserted[i] = [gtfs_id |-> rows[i].stop_id, lat |-> Strip(rows[i].stop_lat),
                          lon |-> Strip(rows[i].stop_lon),
                          location_type |-> OrDefault(rows[i].location_type, 0),
                          parent_station_id |-> Null]
  <2> HIDE DEF rows
  <2> QED BY DEF Map
<1>2. Load("stops", readable, after, "shapes")
  BY DEF ImportStops
<1>3. ASSUME readable, NEW i \in DOMAIN rows, Given(rows[i].parent_station)
      PROVE  Refers(inserted, IdOf(inserted, rows[i].parent_station), rows[i].parent_station)
  <2> HIDE DEF inserted
  <2> QED BY <1>3, IdOfRefers DEF ToSet
<1>4. ASSUME Clean(feed) PROVE readable
  <2> HIDE DEF inserted
  <2> SUFFICES ASSUME NEW i \in DOMAIN rows, Given(rows[i].parent_station)
               PROVE  Has(inserted, rows[i].parent_station)
    BY DEF ToSet
  <2>1. /\ rows[i] \in RowSet(feed, "stops")
        /\ rows[i].parent_station = Plain(Strip(rows[i].parent_station))
    BY <1>4, FilesAre, RowsAre, CellsAreTexts DEF Columns
  <2>2. Strip(rows[i].parent_station) \in Ids(feed, "stops", "stop_id")
    BY <2>1 DEF ValidateFeed, StopsAccepted
  <2>3. PICK j \in DOMAIN rows : rows[j]["stop_id"] = Plain(Strip(rows[i].parent_station))
    BY <1>4, <2>2, FilesAre, CellFound DEF Columns
  <2>4. inserted[j].gtfs_id = rows[j]["stop_id"]
    BY <1>1
  <2> QED BY <1>1, <2>1, <2>3, <2>4 DEF Has
<1> HIDE DEF rows, inserted
<1>5. /\ DOMAIN stops = DOMAIN rows
      /\ \A i \in DOMAIN rows :
           /\ stops[i].gtfs_id = rows[i].stop_id
           /\ stops[i].lat = Strip(rows[i].stop_lat) /\ stops[i].lon = Strip(rows[i].stop_lon)
           /\ stops[i].location_type = OrDefault(rows[i].location_type, 0)
           /\ stops[i].parent_station_id = ParentOf(rows[i])
  BY <1>1
<1> HIDE DEF stops, readable
<1>6. ASSUME readable, NEW i \in DOMAIN rows
      PROVE  IF Given(rows[i].parent_station)
               THEN Refers(stops, stops[i].parent_station_id, rows[i].parent_station)
               ELSE stops[i].parent_station_id = Null
  <2>1. DOMAIN inserted = DOMAIN stops /\ \A j \in DOMAIN stops : stops[j].gtfs_id = inserted[j].gtfs_id
    BY <1>1, <1>5
  <2>2. stops[i].parent_station_id = ParentOf(rows[i])
    BY <1>5
  <2> QED BY <1>3, <1>6, <2>1, <2>2 DEF Refers
<1> HIDE DEF ParentOf
<1>7. /\ DOMAIN after = DOMAIN tables /\ after.stops = stops
      /\ \A table \in Fields \ {"stops"} : after[table] = tables[table]
  BY FieldsAre DEF Stage, Fields
<1> HIDE DEF after
<1>8. ASSUME readable PROVE Stage(after, feed, "shapes")
  <2>1. StopsLoaded(after, feed)
    BY <1>5, <1>6, <1>7, <1>8 DEF StopsLoaded, rows
  <2>2. AgenciesLoaded(after, feed) /\ RoutesLoaded(after, feed) /\ ServicesLoaded(after, feed)
    BY <1>7, FieldsAre, Kept DEF Stage
  <2> QED BY <1>7, <2>1, <2>2, FieldsAre DEF Stage, Fields
<1>9. ASSUME Clean(feed) PROVE TablesHold(after) /\ ChecksHold(after)
  BY <1>4, <1>8, <1>9, StageHolds
<1> QED BY <1>2, <1>4, <1>8, <1>9 DEF Load, Loads

LEMMA ShapesStep ==
  ASSUME IsFeed(feed), ValidateFeed(feed), Stage(tables, feed, "shapes"), ImportShapes
  PROVE  Loads("trips")
<1> DEFINE rows   == Rows(feed, "shapes")
           ids    == {row.shape_id : row \in ToSet(rows)}
           shapes == Map(SetToSeq(ids), LAMBDA id : [gtfs_id |-> id, geom |-> Null])
           points == Map(rows, LAMBDA row :
                       [shape_id    |-> IdOf(shapes, row.shape_id),
                        pt_sequence |-> Strip(row.shape_pt_sequence),
                        point       |-> <<Strip(row.shape_pt_lon), Strip(row.shape_pt_lat)>>,
                        dist        |-> Optional(row.shape_dist_traveled)])
           after  == [tables EXCEPT !.shapes = shapes, !.shape_points = points]
<1>0. \A s \in DOMAIN shapes : DOMAIN shapes[s] = {"gtfs_id", "geom"}
  BY DEF Map
<1>1. Names(shapes, ids) /\ ids = {row.shape_id : row \in RowSet(feed, "shapes")}
  <2>1. ids = {row["shape_id"] : row \in RowSet(feed, "shapes")}
    BY DEF RowSet
  <2>2. IsFiniteSet(ids)
    <3>1. "shapes" \in Files
      BY FilesAre
    <3>2. IsFiniteSet({row["shape_id"] : row \in RowSet(feed, "shapes")})
      BY <3>1, ColumnFinite, Zenon
    <3> QED BY <2>1, <3>2
  <2> HIDE DEF ids
  <2>3. /\ DOMAIN shapes = DOMAIN SetToSeq(ids)
        /\ \A i \in DOMAIN shapes : shapes[i].gtfs_id = SetToSeq(ids)[i]
    BY DEF Map
  <2> HIDE DEF shapes
  <2> QED BY <2>1, <2>2, <2>3, NamesOfSet
<1> HIDE DEF ids, shapes
<1>2. \A i \in DOMAIN rows : Refers(shapes, IdOf(shapes, rows[i].shape_id), rows[i].shape_id)
  <2>1. \A i \in DOMAIN rows : rows[i].shape_id \in ids
    BY DEF ids, ToSet
  <2>2. \A id \in ids : Has(shapes, id)
    BY <1>1 DEF Names, Has
  <2> QED BY <2>1, <2>2, IdOfRefers
<1> HIDE DEF rows
<1>3. /\ DOMAIN points = DOMAIN rows
      /\ \A i \in DOMAIN rows :
           /\ points[i].shape_id = IdOf(shapes, rows[i].shape_id)
           /\ points[i].pt_sequence = Strip(rows[i].shape_pt_sequence)
           /\ points[i].point = <<Strip(rows[i].shape_pt_lon), Strip(rows[i].shape_pt_lat)>>
           /\ points[i].dist = Optional(rows[i].shape_dist_traveled)
  BY DEF Map
<1> HIDE DEF points
<1>4. /\ DOMAIN after = DOMAIN tables
      /\ after.shapes = shapes /\ after.shape_points = points
      /\ \A table \in Fields \ {"shapes", "shape_points"} : after[table] = tables[table]
  BY FieldsAre DEF Stage, Fields
<1>5. Load("shapes", TRUE, after, "trips")
  BY DEF ImportShapes, ids, shapes, points, rows
<1> HIDE DEF after
<1>6. ShapesLoaded(after, feed)
  BY <1>0, <1>1, <1>2, <1>3, <1>4 DEF ShapesLoaded, rows
<1>7. /\ AgenciesLoaded(after, feed) /\ RoutesLoaded(after, feed) /\ ServicesLoaded(after, feed)
      /\ StopsLoaded(after, feed)
  BY <1>4, FieldsAre, Kept DEF Stage
<1>8. Stage(after, feed, "trips")
  BY <1>4, <1>6, <1>7, FieldsAre DEF Stage, Fields
<1>9. Clean(feed) => TablesHold(after) /\ ChecksHold(after)
  BY <1>8, StageHolds
<1> QED BY <1>5, <1>8, <1>9 DEF Load, Loads

LEMMA StopTimesStep ==
  ASSUME IsFeed(feed), ValidateFeed(feed), Stage(tables, feed, "stop_times"), ImportStopTimes
  PROVE  Loads("geometries")
<1> DEFINE rows     == Rows(feed, "stop_times")
           readable == \A row \in ToSet(rows) :
                         /\ Has(tables.trips, row.trip_id) /\ Has(tables.stops, row.stop_id)
                         /\ OrDefault(row.pickup_type, 0) \in Int
           events   == Map(rows, LAMBDA row :
                         [trip_id        |-> IdOf(tables.trips, row.trip_id),
                          stop_id        |-> IdOf(tables.stops, row.stop_id),
                          stop_sequence  |-> Strip(row.stop_sequence),
                          arrival_time   |-> Strip(row.arrival_time),
                          departure_time |-> Strip(row.departure_time),
                          dist           |-> Optional(row.shape_dist_traveled)])
           after    == [tables EXCEPT !.stop_times = events]
<1>1. Load("stop_times", readable, after, "geometries")
  BY DEF ImportStopTimes
<1>2. ASSUME readable, NEW i \in DOMAIN rows
      PROVE  /\ Refers(tables.trips, IdOf(tables.trips, rows[i].trip_id), rows[i].trip_id)
             /\ Refers(tables.stops, IdOf(tables.stops, rows[i].stop_id), rows[i].stop_id)
  BY <1>2, IdOfRefers DEF ToSet
<1>3. ASSUME Clean(feed) PROVE readable
  <2> SUFFICES ASSUME NEW i \in DOMAIN rows
               PROVE  /\ Has(tables.trips, rows[i].trip_id) /\ Has(tables.stops, rows[i].stop_id)
                      /\ OrDefault(rows[i].pickup_type, 0) \in Int
    BY DEF ToSet
  <2>1. /\ rows[i] \in RowSet(feed, "stop_times")
        /\ rows[i].trip_id = Plain(Strip(rows[i].trip_id))
        /\ rows[i].stop_id = Plain(Strip(rows[i].stop_id))
        /\ rows[i].pickup_type = Plain(Strip(rows[i].pickup_type))
    BY <1>3, FilesAre, RowsAre, CellsAreTexts DEF Columns
  <2>2. /\ Strip(rows[i].trip_id) \in Ids(feed, "trips", "trip_id")
        /\ Strip(rows[i].stop_id) \in Ids(feed, "stops", "stop_id")
        /\ Strip(rows[i].pickup_type) \in {Blank, 0, 1, 2, 3}
    BY EventRow
  <2>3. PICK j \in DOMAIN Rows(feed, "trips") :
          Rows(feed, "trips")[j]["trip_id"] = Plain(Strip(rows[i].trip_id))
    BY <1>3, <2>2, FilesAre, CellFound DEF Columns
  <2>4. PICK k \in DOMAIN Rows(feed, "stops") :
          Rows(feed, "stops")[k]["stop_id"] = Plain(Strip(rows[i].stop_id))
    BY <1>3, <2>2, FilesAre, CellFound DEF Columns
  <2>5. TripsLoaded(tables, feed) /\ StopsLoaded(tables, feed)
    BY DEF Stage
  <2>6. Has(tables.trips, rows[i].trip_id)
    BY <2>1, <2>3, <2>5 DEF TripsLoaded, Has
  <2>7. Has(tables.stops, rows[i].stop_id)
    BY <2>1, <2>4, <2>5 DEF StopsLoaded, Has
  <2>8. OrDefault(rows[i].pickup_type, 0) \in Int
    BY <2>1, <2>2 DEF OrDefault
  <2> QED BY <2>6, <2>7, <2>8
<1> HIDE DEF rows
<1>4. /\ DOMAIN events = DOMAIN rows
      /\ \A i \in DOMAIN rows :
           /\ events[i].trip_id = IdOf(tables.trips, rows[i].trip_id)
           /\ events[i].stop_id = IdOf(tables.stops, rows[i].stop_id)
           /\ events[i].stop_sequence = Strip(rows[i].stop_sequence)
           /\ events[i].arrival_time = Strip(rows[i].arrival_time)
           /\ events[i].departure_time = Strip(rows[i].departure_time)
           /\ events[i].dist = Optional(rows[i].shape_dist_traveled)
  BY DEF Map
<1> HIDE DEF events, readable
<1>5. /\ DOMAIN after = DOMAIN tables /\ after.stop_times = events
      /\ \A table \in Fields \ {"stop_times"} : after[table] = tables[table]
  BY FieldsAre DEF Stage, Fields
<1> HIDE DEF after
<1>6. ASSUME readable PROVE Stage(after, feed, "geometries")
  <2>1. after.trips = tables.trips /\ after.stops = tables.stops
    BY <1>5, FieldsAre
  <2>2. StopTimesLoaded(after, feed)
    BY <1>2, <1>4, <1>5, <1>6, <2>1 DEF StopTimesLoaded, rows
  <2>3. /\ AgenciesLoaded(after, feed) /\ RoutesLoaded(after, feed)
        /\ ServicesLoaded(after, feed) /\ StopsLoaded(after, feed) /\ ShapesLoaded(after, feed)
        /\ TripsLoaded(after, feed)
    BY <1>5, FieldsAre, Kept DEF Stage, SameNames
  <2> QED BY <1>5, <2>2, <2>3, FieldsAre DEF Stage, Fields
<1>7. ASSUME Clean(feed) PROVE TablesHold(after) /\ ChecksHold(after)
  BY <1>3, <1>6, <1>7, StageHolds
<1> QED BY <1>1, <1>3, <1>6, <1>7 DEF Load, Loads

\* A row of trips that validation has accepted refers, in a clean feed, to rows
\* that have been loaded.
LEMMA TripRow ==
  ASSUME NEW f, IsFeed(f), ValidateFeed(f), NEW i \in DOMAIN Rows(f, "trips")
  PROVE  LET row == Rows(f, "trips")[i]
         IN  /\ row \in RowSet(f, "trips")
             /\ Strip(row.trip_id) \in Ids(f, "trips", "trip_id")
             /\ Strip(row.route_id) \in Ids(f, "routes", "route_id")
             /\ Strip(row.service_id) \in ServiceIds(f)
             /\ Strip(row.direction_id) \in {Blank, 0, 1}
             /\ Given(row.shape_id) => Strip(row.shape_id) \in Ids(f, "shapes", "shape_id")
<1> DEFINE row == Rows(f, "trips")[i]
<1>1. "trips" \in Files /\ TripsAccepted(f) /\ UniqueIds(f, "trips", "trip_id")
  BY FilesAre DEF ValidateFeed
<1>2. row \in RowSet(f, "trips")
  BY <1>1, RowsAre
<1>3. Given(row["trip_id"])
  BY <1>1, <1>2 DEF UniqueIds
<1>4. Strip(row["trip_id"]) \in Ids(f, "trips", "trip_id")
  BY <1>1, <1>3, IdIs
<1>5. /\ Strip(row.route_id) \in Ids(f, "routes", "route_id")
      /\ Strip(row.service_id) \in ServiceIds(f)
      /\ Strip(row.direction_id) \in {Blank, 0, 1}
      /\ Given(row.shape_id) => Strip(row.shape_id) \in Ids(f, "shapes", "shape_id")
  <2> HIDE DEF row
  <2> QED BY <1>1, <1>2 DEF TripsAccepted
<1> QED BY <1>2, <1>4, <1>5

LEMMA TripReferences ==
  ASSUME NEW f, IsFeed(f), ValidateFeed(f), Clean(f), NEW i \in DOMAIN Rows(f, "trips"),
         NEW t, RoutesLoaded(t, f), ServicesLoaded(t, f), StopsLoaded(t, f)
  PROVE  LET row   == Rows(f, "trips")[i]
             stops == TripStopIds(f)[Strip(row.trip_id)]
         IN  /\ ~row.trip_id.pad
             /\ Has(t.routes, row.route_id) /\ Has(t.services, row.service_id)
             /\ \A n \in DOMAIN stops : Has(t.stops, Plain(stops[n]))
<1> DEFINE row   == Rows(f, "trips")[i]
           stops == TripStopIds(f)[Strip(row.trip_id)]
<1>1. /\ row \in RowSet(f, "trips")
      /\ Strip(row.trip_id) \in Ids(f, "trips", "trip_id")
      /\ Strip(row.route_id) \in Ids(f, "routes", "route_id")
      /\ Strip(row.service_id) \in ServiceIds(f)
  BY TripRow
<1>2. /\ row.trip_id = Plain(Strip(row.trip_id)) /\ row.route_id = Plain(Strip(row.route_id))
      /\ row.service_id = Plain(Strip(row.service_id))
  BY <1>1, FilesAre, CellsAreTexts DEF Columns
<1> HIDE DEF row
<1>3. ~row.trip_id.pad
  BY <1>2 DEF Plain
<1>4. Has(t.routes, row.route_id)
  <2>1. PICK j \in DOMAIN Rows(f, "routes") :
          Rows(f, "routes")[j]["route_id"] = Plain(Strip(row.route_id))
    BY <1>1, FilesAre, CellFound DEF Columns
  <2> QED BY <1>2, <2>1 DEF RoutesLoaded, Has
<1>5. Has(t.services, row.service_id)
  <2>1. row.service_id \in ServiceCells(f)
    <3>1. CASE Strip(row.service_id) \in Ids(f, "calendar", "service_id")
      <4>1. PICK j \in DOMAIN Rows(f, "calendar") :
              Rows(f, "calendar")[j]["service_id"] = Plain(Strip(row.service_id))
        BY <3>1, FilesAre, CellFound DEF Columns
      <4>2. Rows(f, "calendar")[j] \in RowSet(f, "calendar")
        BY FilesAre, RowsAre
      <4> QED BY <1>2, <4>1, <4>2 DEF ServiceCells
    <3>2. CASE Strip(row.service_id) \in Ids(f, "calendar_dates", "service_id")
      <4>1. PICK j \in DOMAIN Rows(f, "calendar_dates") :
              Rows(f, "calendar_dates")[j]["service_id"] = Plain(Strip(row.service_id))
        BY <3>2, FilesAre, CellFound DEF Columns
      <4>2. Rows(f, "calendar_dates")[j] \in RowSet(f, "calendar_dates")
        BY FilesAre, RowsAre
      <4> QED BY <1>2, <4>1, <4>2 DEF ServiceCells
    <3> QED BY <1>1, <3>1, <3>2 DEF ServiceIds
  <2> QED BY <2>1 DEF ServicesLoaded, Names, Has
<1>6. ASSUME NEW n \in DOMAIN stops PROVE Has(t.stops, Plain(stops[n]))
  <2>1. stops[n] \in Ids(f, "stops", "stop_id")
    BY <1>1, StopsHandedOn
  <2> HIDE DEF stops
  <2>2. PICK j \in DOMAIN Rows(f, "stops") : Rows(f, "stops")[j]["stop_id"] = Plain(stops[n])
    BY <2>1, FilesAre, CellFound DEF Columns
  <2> QED BY <2>2 DEF StopsLoaded, Has
<1> QED BY <1>3, <1>4, <1>5, <1>6 DEF row

LEMMA TripsStep ==
  ASSUME IsFeed(feed), ValidateFeed(feed), validated = TripStopIds(feed),
         Stage(tables, feed, "trips"), ImportTrips
  PROVE  Loads("stop_times")
<1> DEFINE rows     == Rows(feed, "trips")
           patterns == PatternsOf(rows)
           readable == \A row \in ToSet(rows) :
                         /\ ~row.trip_id.pad
                         /\ \A n \in DOMAIN validated[row.trip_id.text] :
                              Has(tables.stops, Plain(validated[row.trip_id.text][n]))
                         /\ Has(tables.routes, row.route_id)
                         /\ Has(tables.services, row.service_id)
           trips    == Map(rows, LAMBDA row :
                         [gtfs_id          |-> row.trip_id,
                          route_id         |-> IdOf(tables.routes, row.route_id),
                          service_id       |-> IdOf(tables.services, row.service_id),
                          shape_id         |-> ShapeOf(row),
                          direction_id     |-> Optional(row.direction_id),
                          route_pattern_id |-> CHOOSE p \in DOMAIN patterns :
                                                 patterns[p] = PatternKey(row)])
           after    == [tables EXCEPT !.route_patterns = patterns, !.trips = trips]
<1>1. Load("trips", readable, after, "stop_times")
  BY DEF ImportTrips
<1>2. ASSUME readable, NEW i \in DOMAIN rows
      PROVE  /\ ~rows[i].trip_id.pad
             /\ Refers(tables.routes, IdOf(tables.routes, rows[i].route_id), rows[i].route_id)
             /\ Refers(tables.services, IdOf(tables.services, rows[i].service_id),
                       rows[i].service_id)
             /\ KeyIs(tables, feed, rows[i], PatternKey(rows[i]))
             /\ ShapeIs(tables, rows[i], ShapeOf(rows[i]))
  <2>1. /\ ~rows[i].trip_id.pad
        /\ \A n \in DOMAIN validated[rows[i].trip_id.text] :
             Has(tables.stops, Plain(validated[rows[i].trip_id.text][n]))
        /\ Has(tables.routes, rows[i].route_id)
        /\ Has(tables.services, rows[i].service_id)
    BY <1>2 DEF ToSet
  <2>2. Strip(rows[i].trip_id) \in Ids(feed, "trips", "trip_id")
    BY TripRow
  <2> HIDE DEF rows, readable
  <2>3. KeyIs(tables, feed, rows[i], PatternKey(rows[i])) /\ ShapeIs(tables, rows[i], ShapeOf(rows[i]))
    BY <2>1, <2>2, KeyFits
  <2> QED BY <2>1, <2>3, IdOfRefers
<1>3. ASSUME Clean(feed) PROVE readable
  <2> SUFFICES ASSUME NEW i \in DOMAIN rows
               PROVE  /\ ~rows[i].trip_id.pad
                      /\ \A n \in DOMAIN validated[rows[i].trip_id.text] :
                           Has(tables.stops, Plain(validated[rows[i].trip_id.text][n]))
                      /\ Has(tables.routes, rows[i].route_id)
                      /\ Has(tables.services, rows[i].service_id)
    BY DEF ToSet
  <2>1. RoutesLoaded(tables, feed) /\ ServicesLoaded(tables, feed) /\ StopsLoaded(tables, feed)
    BY DEF Stage
  <2>2. validated[rows[i].trip_id.text] = TripStopIds(feed)[Strip(rows[i].trip_id)]
    BY DEF Strip
  <2> QED BY <1>3, <2>1, <2>2, TripReferences
<1>4. /\ \E n \in Nat : DOMAIN patterns = 1..n
      /\ \A p \in DOMAIN patterns : \E i \in DOMAIN rows : patterns[p] = PatternKey(rows[i])
      /\ \A i \in DOMAIN rows : \E p \in DOMAIN patterns : patterns[p] = PatternKey(rows[i])
      /\ \A p, q \in DOMAIN patterns : patterns[p] = patterns[q] => p = q
  BY PatternsAre
<1> HIDE DEF rows, patterns
<1>5. /\ DOMAIN trips = DOMAIN rows
      /\ \A i \in DOMAIN rows :
           /\ trips[i].gtfs_id = rows[i].trip_id
           /\ trips[i].route_id = IdOf(tables.routes, rows[i].route_id)
           /\ trips[i].service_id = IdOf(tables.services, rows[i].service_id)
           /\ trips[i].shape_id = ShapeOf(rows[i])
           /\ trips[i].direction_id = Optional(rows[i].direction_id)
           /\ trips[i].route_pattern_id = CHOOSE p \in DOMAIN patterns :
                                            patterns[p] = PatternKey(rows[i])
  BY DEF Map
<1>6. \A i \in DOMAIN rows : /\ trips[i].route_pattern_id \in DOMAIN patterns
                             /\ patterns[trips[i].route_pattern_id] = PatternKey(rows[i])
  <2> HIDE DEF trips
  <2> QED BY <1>4, <1>5
<1> HIDE DEF trips, readable
<1>7. /\ DOMAIN after = DOMAIN tables
      /\ after.route_patterns = patterns /\ after.trips = trips
      /\ \A table \in Fields \ {"route_patterns", "trips"} : after[table] = tables[table]
  BY FieldsAre DEF Stage, Fields
<1> HIDE DEF after
<1>8. ASSUME readable PROVE Stage(after, feed, "stop_times")
  <2>1. /\ after.routes = tables.routes /\ after.services = tables.services
        /\ after.stops = tables.stops /\ after.shapes = tables.shapes
    BY <1>7, FieldsAre
  <2>2. \A row, key : KeyIs(tables, feed, row, key) => KeyIs(after, feed, row, key)
    BY <2>1 DEF KeyIs, ShapeIs
  <2>3. \A row, id : ShapeIs(tables, row, id) => ShapeIs(after, row, id)
    BY <2>1 DEF ShapeIs
  <2>4. ASSUME NEW i \in DOMAIN rows
        PROVE  /\ after.trips[i].gtfs_id = rows[i].trip_id /\ ~rows[i].trip_id.pad
               /\ after.trips[i].direction_id = Optional(rows[i].direction_id)
               /\ Refers(after.routes, after.trips[i].route_id, rows[i].route_id)
               /\ Refers(after.services, after.trips[i].service_id, rows[i].service_id)
               /\ ShapeIs(after, rows[i], after.trips[i].shape_id)
               /\ after.trips[i].route_pattern_id \in DOMAIN after.route_patterns
               /\ KeyIs(after, feed, rows[i],
                        after.route_patterns[after.trips[i].route_pattern_id])
    <3>1. /\ ~rows[i].trip_id.pad
          /\ Refers(tables.routes, IdOf(tables.routes, rows[i].route_id), rows[i].route_id)
          /\ Refers(tables.services, IdOf(tables.services, rows[i].service_id),
                    rows[i].service_id)
          /\ KeyIs(after, feed, rows[i], PatternKey(rows[i]))
          /\ ShapeIs(after, rows[i], ShapeOf(rows[i]))
      BY <1>2, <1>8, <2>2, <2>3
    <3> QED BY <1>5, <1>6, <1>7, <2>1, <3>1
  <2>5. ASSUME NEW p \in DOMAIN after.route_patterns
        PROVE  \E i \in DOMAIN rows : KeyIs(after, feed, rows[i], after.route_patterns[p])
    <3>1. PICK i \in DOMAIN rows : patterns[p] = PatternKey(rows[i])
      BY <1>4, <1>7
    <3>2. KeyIs(after, feed, rows[i], PatternKey(rows[i]))
      BY <1>2, <1>8, <2>2
    <3> QED BY <1>7, <3>1, <3>2
  <2>6. TripsLoaded(after, feed)
    BY <1>4, <1>5, <1>7, <2>4, <2>5 DEF TripsLoaded, rows
  <2>7. /\ AgenciesLoaded(after, feed) /\ RoutesLoaded(after, feed)
        /\ ServicesLoaded(after, feed) /\ StopsLoaded(after, feed) /\ ShapesLoaded(after, feed)
    BY <1>7, FieldsAre, Kept DEF Stage
  <2> QED BY <1>7, <2>6, <2>7, FieldsAre DEF Stage, Fields
<1>9. ASSUME Clean(feed) PROVE TablesHold(after) /\ ChecksHold(after)
  BY <1>3, <1>8, <1>9, StageHolds
<1> QED BY <1>1, <1>3, <1>8, <1>9 DEF Load, Loads

LEMMA GeometriesStep ==
  ASSUME IsFeed(feed), ValidateFeed(feed), Stage(tables, feed, "geometries"),
         BuildShapeGeometries
  PROVE  Loads("commit")
<1> DEFINE Line(s) == InOrder(tables.shape_points, PointsOf(tables, s), "pt_sequence", "point")
           shapes  == [s \in DOMAIN tables.shapes |-> [tables.shapes[s] EXCEPT !.geom = Line(s)]]
           after   == [tables EXCEPT !.shapes = shapes]
<1>1. Load("geometries", TRUE, after, "commit")
  BY DEF BuildShapeGeometries, PointsOf
<1>2. /\ SameNames(shapes, tables.shapes)
      /\ \A s \in DOMAIN shapes :
           shapes[s].geom = Line(s) /\ DOMAIN shapes[s] = {"gtfs_id", "geom"}
  <2>1. \A s \in DOMAIN tables.shapes : DOMAIN tables.shapes[s] = {"gtfs_id", "geom"}
    BY DEF Stage, ShapesLoaded
  <2> HIDE DEF Line
  <2> QED BY <2>1 DEF SameNames
<1> HIDE DEF shapes
<1>4. /\ DOMAIN after = DOMAIN tables /\ after.shapes = shapes
      /\ \A table \in Fields \ {"shapes"} : after[table] = tables[table]
  BY FieldsAre DEF Stage, Fields
<1> HIDE DEF after
<1>5. GeometriesBuilt(after)
  <2>1. after.shape_points = tables.shape_points
    BY <1>4, FieldsAre
  <2>2. \A s : PointsOf(after, s) = PointsOf(tables, s)
    BY <2>1 DEF PointsOf
  <2> QED BY <1>2, <1>4, <2>1, <2>2 DEF GeometriesBuilt
<1> HIDE DEF Line
<1>6. ShapesLoaded(after, feed)
  <2>1. after.shape_points = tables.shape_points /\ ShapesLoaded(tables, feed)
    BY <1>4, FieldsAre DEF Stage
  <2>2. \A S : Names(tables.shapes, S) => Names(shapes, S)
    BY <1>2 DEF Names, SameNames, Unique
  <2>3. \A id, gtfs_id : Refers(tables.shapes, id, gtfs_id) => Refers(shapes, id, gtfs_id)
    BY <1>2 DEF Refers, SameNames
  <2> QED BY <1>2, <1>4, <2>1, <2>2, <2>3 DEF ShapesLoaded
<1>7. /\ AgenciesLoaded(after, feed) /\ RoutesLoaded(after, feed) /\ ServicesLoaded(after, feed)
      /\ StopsLoaded(after, feed) /\ TripsLoaded(after, feed) /\ StopTimesLoaded(after, feed)
  BY <1>2, <1>4, FieldsAre, Kept DEF Stage
<1>8. Stage(after, feed, "commit")
  BY <1>4, <1>5, <1>6, <1>7, FieldsAre DEF Stage, Fields
<1>9. Clean(feed) => TablesHold(after) /\ ChecksHold(after)
  BY <1>8, StageHolds
<1> QED BY <1>1, <1>8, <1>9 DEF Load, Loads

-----------------------------------------------------------------------------
(* The inductive invariant *)

AnyFeed == UNION {Feeds[n] : n \in DOMAIN Feeds}

Parts == Phases \ {"idle", "validate", "truncate"}

\* The transaction holds what the parts so far have loaded of an accepted feed.
TransactionInv ==
  /\ phase # "idle" => feed \in AnyFeed
  /\ phase \notin {"idle", "validate"} => ValidateFeed(feed) /\ validated = TripStopIds(feed)
  /\ phase \in Parts => Stage(tables, feed, phase)

\* The others read nothing, or all of an accepted feed.
CommittedInv ==
  \/ committed = EmptyTables /\ source = Null
  \/ source \in AnyFeed /\ ValidateFeed(source) /\ Loaded(committed, source)

IInv == TypeOK /\ FailuresExplained /\ TransactionInv /\ CommittedInv

LEMMA FeedsAre == \A f \in AnyFeed : IsFeed(f) /\ f # Null /\ (ValidateFeed(f) => TripStopIds(f) # Null)
BY FeedsAssumption, NullAssumption DEF AnyFeed

LEMMA InitHolds == ASSUME Init PROVE IInv
<1>1. TypeOK
  BY FeedsAssumption DEF Init, TypeOK, Phases, Outcomes
<1> QED BY <1>1 DEF Init, IInv, FailuresExplained, TransactionInv, CommittedInv, Parts

\* To end restores what the invariant says of the time between two runs.
LEMMA EndHolds ==
  ASSUME IInv, NEW how \in Outcomes, End(how), how = "failed" => ~Clean(feed)
  PROVE  IInv'
<1> USE DEF IInv
<1>1. TypeOK'
  BY DEF End, TypeOK, Phases
<1>2. FailuresExplained'
  BY DEF End, FailuresExplained
<1>3. TransactionInv'
  BY DEF End, TransactionInv, Parts
<1>4. CommittedInv'
  BY DEF End, CommittedInv
<1> QED BY <1>1, <1>2, <1>3, <1>4

\* So does a part of the load.
LEMMA LoadsHolds ==
  ASSUME IInv, phase \in Parts, NEW next \in Parts, Loads(next)
  PROVE  IInv'
<1>1. CASE End("failed") /\ ~Clean(feed)
  BY <1>1, EndHolds DEF Outcomes
<1>2. CASE /\ Stage(tables', feed, next) /\ phase' = next
           /\ UNCHANGED <<committed, feed, validated, runs, outcome, source>>
  <2> USE <1>2 DEF IInv
  <2>0. phase' \in Parts /\ phase' \in Phases \ {"idle", "validate"}
    BY DEF Parts
  <2>1. TypeOK'
    BY <2>0 DEF TypeOK, Stage, Parts
  <2>2. FailuresExplained' /\ CommittedInv'
    BY DEF FailuresExplained, CommittedInv
  <2>3. TransactionInv'
    BY <2>0 DEF TransactionInv, Parts
  <2> QED BY <2>1, <2>2, <2>3
<1> QED BY <1>1, <1>2 DEF Loads

LEMMA NextHolds == ASSUME IInv, [Next]_vars PROVE IInv'
<1> USE DEF IInv
<1>0. phase \in Parts => /\ IsFeed(feed) /\ ValidateFeed(feed) /\ validated = TripStopIds(feed)
                         /\ Stage(tables, feed, phase)
  BY FeedsAre DEF TransactionInv, Parts
<1>p. /\ {"agencies", "routes", "services", "stops", "shapes", "trips", "stop_times",
          "geometries", "commit"} = Parts
  BY DEF Parts, Phases
<1>1. CASE Begin
  <2>1. feed' \in AnyFeed
    <3>1. runs + 1 \in DOMAIN Feeds
      BY <1>1, FeedsAssumption DEF Begin, TypeOK
    <3> QED BY <1>1, <3>1 DEF Begin, AnyFeed
  <2>2. TypeOK'
    BY <1>1, FeedsAssumption DEF Begin, TypeOK, Phases, Outcomes
  <2>3. FailuresExplained' /\ CommittedInv'
    BY <1>1 DEF Begin, FailuresExplained, CommittedInv
  <2>4. TransactionInv'
    BY <1>1, <2>1 DEF Begin, TransactionInv, Parts
  <2> QED BY <2>2, <2>3, <2>4
<1>2. CASE Validate
  <2>1. CASE ValidateFeed(feed)
    <3>1. /\ phase = "validate" /\ phase' = "truncate" /\ validated' = TripStopIds(feed)
          /\ UNCHANGED <<committed, tables, feed, runs, outcome, source>>
      BY <1>2, <2>1 DEF Validate
    <3>2. feed \in AnyFeed /\ TripStopIds(feed) # Null
      BY <2>1, <3>1, FeedsAre DEF TransactionInv
    <3>3. TypeOK'
      BY <3>1, <3>2 DEF TypeOK, Phases
    <3>4. FailuresExplained' /\ CommittedInv'
      BY <3>1 DEF FailuresExplained, CommittedInv
    <3>5. TransactionInv'
      BY <2>1, <3>1, <3>2 DEF TransactionInv, Parts
    <3> QED BY <3>3, <3>4, <3>5
  <2>2. CASE ~ValidateFeed(feed)
    BY <1>2, <2>2, EndHolds DEF Validate, Outcomes
  <2> QED BY <2>1, <2>2
<1>3. CASE Truncate
  <2>1. Stage(tables', feed', phase')
    <3>1. tables' = EmptyTables /\ phase' = "agencies"
      BY <1>3 DEF Truncate
    <3>2. /\ EmptyTables.agency = <<>> /\ EmptyTables.routes = <<>>
          /\ EmptyTables.services = <<>> /\ EmptyTables.calendar = <<>>
          /\ EmptyTables.calendar_dates = <<>> /\ EmptyTables.stops = <<>>
          /\ EmptyTables.shapes = <<>> /\ EmptyTables.shape_points = <<>>
          /\ EmptyTables.trips = <<>> /\ EmptyTables.route_patterns = <<>>
          /\ EmptyTables.stop_times = <<>>
      BY DEF EmptyTables
    <3> QED BY <3>1, <3>2 DEF Stage
  <2>2. TypeOK'
    BY <1>3 DEF Truncate, TypeOK, Phases
  <2>3. FailuresExplained' /\ CommittedInv'
    BY <1>3 DEF Truncate, FailuresExplained, CommittedInv
  <2>4. TransactionInv'
    BY <1>3, <2>1 DEF Truncate, TransactionInv, Parts
  <2> QED BY <2>2, <2>3, <2>4
<1>4. CASE ImportAgencies
  <2>1. phase = "agencies"
    BY <1>4 DEF ImportAgencies, Load
  <2>2. Loads("routes")
    BY <1>0, <1>p, <1>4, <2>1, AgenciesStep
  <2> QED BY <1>p, <2>1, <2>2, LoadsHolds
<1>5. CASE ImportRoutes
  <2>1. phase = "routes"
    BY <1>5 DEF ImportRoutes, Load
  <2>2. Loads("services")
    BY <1>0, <1>p, <1>5, <2>1, RoutesStep
  <2> QED BY <1>p, <2>1, <2>2, LoadsHolds
<1>6. CASE ImportServices
  <2>1. phase = "services"
    BY <1>6 DEF ImportServices, Load
  <2>2. Loads("stops")
    BY <1>0, <1>p, <1>6, <2>1, ServicesStep
  <2> QED BY <1>p, <2>1, <2>2, LoadsHolds
<1>7. CASE ImportStops
  <2>1. phase = "stops"
    BY <1>7 DEF ImportStops, Load
  <2>2. Loads("shapes")
    BY <1>0, <1>p, <1>7, <2>1, StopsStep
  <2> QED BY <1>p, <2>1, <2>2, LoadsHolds
<1>8. CASE ImportShapes
  <2>1. phase = "shapes"
    BY <1>8 DEF ImportShapes, Load
  <2>2. Loads("trips")
    BY <1>0, <1>p, <1>8, <2>1, ShapesStep
  <2> QED BY <1>p, <2>1, <2>2, LoadsHolds
<1>9. CASE ImportTrips
  <2>1. phase = "trips"
    BY <1>9 DEF ImportTrips, Load
  <2>2. Loads("stop_times")
    BY <1>0, <1>p, <1>9, <2>1, TripsStep
  <2> QED BY <1>p, <2>1, <2>2, LoadsHolds
<1>10. CASE ImportStopTimes
  <2>1. phase = "stop_times"
    BY <1>10 DEF ImportStopTimes, Load
  <2>2. Loads("geometries")
    BY <1>0, <1>p, <1>10, <2>1, StopTimesStep
  <2> QED BY <1>p, <2>1, <2>2, LoadsHolds
<1>11. CASE BuildShapeGeometries
  <2>1. phase = "geometries"
    BY <1>11 DEF BuildShapeGeometries, Load
  <2>2. Loads("commit")
    BY <1>0, <1>p, <1>11, <2>1, GeometriesStep
  <2> QED BY <1>p, <2>1, <2>2, LoadsHolds
<1>12. CASE Commit
  <2>1. phase = "commit" /\ phase \in Parts
    BY <1>12, <1>p DEF Commit
  <2>2. TypeOK' /\ FailuresExplained' /\ TransactionInv'
    BY <1>12 DEF Commit, TypeOK, Phases, Outcomes, FailuresExplained, TransactionInv, Parts
  <2>3. Loaded(tables, feed) /\ feed \in AnyFeed /\ ValidateFeed(feed)
    BY <1>0, <2>1 DEF Stage, Loaded, TransactionInv
  <2>4. CommittedInv'
    <3>1. committed' = tables /\ source' = feed
      BY <1>12 DEF Commit
    <3> QED BY <2>3, <3>1 DEF CommittedInv
  <2> QED BY <2>2, <2>4
<1>13. CASE Kill
  BY <1>13, EndHolds DEF Kill, Outcomes
<1>14. CASE UNCHANGED vars
  <2> USE <1>14 DEF vars
  <2>1. TypeOK' /\ FailuresExplained'
    BY DEF TypeOK, FailuresExplained
  <2>2. TransactionInv' /\ CommittedInv'
    BY DEF TransactionInv, CommittedInv
  <2> QED BY <2>1, <2>2
<1> QED BY <1>1, <1>2, <1>3, <1>4, <1>5, <1>6, <1>7, <1>8, <1>9, <1>10, <1>11, <1>12, <1>13,
           <1>14 DEF Next

LEMMA Invariant == Spec => []IInv
<1>1. Init => IInv
  BY InitHolds
<1>2. IInv /\ [Next]_vars => IInv'
  BY NextHolds
<1> QED BY <1>1, <1>2, PTL DEF Spec

\* Between two runs nothing is left of a transaction, however it ended (the
\* session of import_gtfs.py rolls back what it has not committed).
THEOREM ImportTypes == Spec => []TypeOK
<1>1. IInv => TypeOK
  BY DEF IInv
<1> QED BY <1>1, Invariant, PTL

\* An accepted feed loads unless it is not clean: of a clean one no lookup misses
\* a key and no constraint of the schema fails.
THEOREM CleanFeedsLoad == Spec => []FailuresExplained
<1>1. IInv => FailuresExplained
  BY DEF IInv
<1> QED BY <1>1, Invariant, PTL

-----------------------------------------------------------------------------
(* The timetable *)

\* The stop events of a trip are those that the feed has for its id.
LEMMA EventsAre ==
  ASSUME NEW f, IsFeed(f), ValidateFeed(f), NEW t, TripsLoaded(t, f), StopTimesLoaded(t, f),
         NEW trip \in DOMAIN t.trips
  PROVE  LET id == Strip(Rows(f, "trips")[trip].trip_id)
         IN  /\ id \in Ids(f, "trips", "trip_id")
             /\ EventsOf(t, trip) = Group(Rows(f, "stop_times"), "trip_id", id, "stop_sequence")
<1> DEFINE trips == Rows(f, "trips")
           rows  == Rows(f, "stop_times")
           id    == Strip(trips[trip].trip_id)
<1>1. DOMAIN t.trips = DOMAIN trips /\ \A i \in DOMAIN trips : t.trips[i].gtfs_id = trips[i].trip_id
  BY DEF TripsLoaded
<1>2. /\ DOMAIN t.stop_times = DOMAIN rows
      /\ \A i \in DOMAIN rows : Refers(t.trips, t.stop_times[i].trip_id, rows[i].trip_id)
  BY DEF StopTimesLoaded
<1>3. id \in Ids(f, "trips", "trip_id")
  BY <1>1, TripRow
<1>4. \A i, j \in DOMAIN trips : Strip(trips[i]["trip_id"]) = Strip(trips[j]["trip_id"]) => i = j
  BY FilesAre, RowsApart DEF ValidateFeed
<1>5. \A i \in DOMAIN rows : i \in Group(rows, "trip_id", Strip(rows[i].trip_id), "stop_sequence")
  BY EventRow
<1>6. ASSUME NEW i \in DOMAIN rows
      PROVE  t.stop_times[i].trip_id = trip
               <=> i \in Group(rows, "trip_id", id, "stop_sequence")
  <2>1. PICK k \in DOMAIN trips : /\ k = t.stop_times[i].trip_id
                                  /\ trips[k].trip_id = rows[i].trip_id
    BY <1>1, <1>2 DEF Refers
  <2> HIDE DEF trips, rows
  <2>2. k = trip <=> Strip(rows[i].trip_id) = id
    BY <1>1, <1>4, <2>1
  <2>3. i \in Group(rows, "trip_id", id, "stop_sequence") <=> Strip(rows[i].trip_id) = id
    BY <1>5 DEF Group
  <2> QED BY <2>1, <2>2, <2>3
<1>7. Group(rows, "trip_id", id, "stop_sequence") \subseteq DOMAIN rows
  BY DEF Group
<1> HIDE DEF rows, id
<1>8. EventsOf(t, trip) = Group(rows, "trip_id", id, "stop_sequence")
  BY <1>2, <1>6, <1>7 DEF EventsOf
<1> QED BY <1>3, <1>8 DEF rows, id

\* A trip runs by a calendar or by dates.
LEMMA TripsHaveDays ==
  ASSUME NEW f, NEW t, ServicesLoaded(t, f), TripsLoaded(t, f), NEW trip \in DOMAIN t.trips
  PROVE  \E row \in ToSet(t.calendar) \cup ToSet(t.calendar_dates) :
           row.service_id = t.trips[trip].service_id
<1> DEFINE service == t.trips[trip].service_id
           cell    == t.services[service].gtfs_id
<1>1. service \in DOMAIN t.services
  BY DEF TripsLoaded, Refers
<1>2. cell \in ServiceCells(f) /\ Unique(t.services, {"gtfs_id"})
  BY <1>1 DEF ServicesLoaded, Names
<1> HIDE DEF service
<1>3. ASSUME NEW id, Refers(t.services, id, cell) PROVE id = service
  BY <1>1, <1>2, <1>3 DEF Unique, Refers
<1>4. PICK row \in RowSet(f, "calendar") \cup RowSet(f, "calendar_dates") : row.service_id = cell
  BY <1>2 DEF ServiceCells
<1>5. CASE row \in RowSet(f, "calendar")
  <2>1. PICK i \in DOMAIN Rows(f, "calendar") : Rows(f, "calendar")[i] = row
    BY <1>5 DEF RowSet, ToSet
  <2>2. i \in DOMAIN t.calendar /\ Refers(t.services, t.calendar[i].service_id, cell)
    BY <1>4, <2>1 DEF ServicesLoaded
  <2>3. t.calendar[i] \in ToSet(t.calendar) /\ t.calendar[i].service_id = service
    BY <1>3, <2>2 DEF ToSet
  <2> QED BY <2>3 DEF service
<1>6. CASE row \in RowSet(f, "calendar_dates")
  <2>1. PICK i \in DOMAIN Rows(f, "calendar_dates") : Rows(f, "calendar_dates")[i] = row
    BY <1>6 DEF RowSet, ToSet
  <2>2. i \in DOMAIN t.calendar_dates /\ Refers(t.services, t.calendar_dates[i].service_id, cell)
    BY <1>4, <2>1 DEF ServicesLoaded
  <2>3. t.calendar_dates[i] \in ToSet(t.calendar_dates) /\ t.calendar_dates[i].service_id = service
    BY <1>3, <2>2 DEF ToSet
  <2> QED BY <2>3 DEF service
<1> QED BY <1>4, <1>5, <1>6

\* Stops lead up to a station without a circle: a ring of them would be one of the
\* feed, which validation has refused.
LEMMA NoRing ==
  ASSUME NEW f, IsFeed(f), ValidateFeed(f), NEW t, StopsLoaded(t, f),
         NEW ring \in SUBSET DOMAIN t.stops, ring # {}
  PROVE  \E stop \in ring : t.stops[stop].parent_station_id \notin ring
<1> DEFINE rows     == Rows(f, "stops")
           children == {row \in RowSet(f, "stops") : Given(row.parent_station)}
           ids      == {Strip(rows[i].stop_id) : i \in ring}
<1> SUFFICES ASSUME \A stop \in ring : t.stops[stop].parent_station_id \in ring
             PROVE  FALSE
  OBVIOUS
<1>1. /\ DOMAIN t.stops = DOMAIN rows
      /\ \A i \in DOMAIN rows :
           /\ t.stops[i].gtfs_id = rows[i].stop_id
           /\ IF Given(rows[i].parent_station)
                THEN Refers(t.stops, t.stops[i].parent_station_id, rows[i].parent_station)
                ELSE t.stops[i].parent_station_id = Null
  BY DEF StopsLoaded
<1>2. /\ DOMAIN rows \subseteq Nat
      /\ RowSet(f, "stops") = {rows[i] : i \in DOMAIN rows}
      /\ \A i, j \in DOMAIN rows : Strip(rows[i]["stop_id"]) = Strip(rows[j]["stop_id"]) => i = j
  BY FilesAre, RowsAre, RowsApart DEF ValidateFeed
<1>3. ParentsAcyclic(f)
  BY DEF ValidateFeed
<1> HIDE DEF rows
<1>4. ASSUME NEW i \in ring
      PROVE  /\ Given(rows[i].parent_station) /\ i \in DOMAIN rows
             /\ Strip(rows[i].parent_station) \in ids
  <2>1. i \in DOMAIN rows /\ t.stops[i].parent_station_id \in ring
    BY <1>1
  <2>2. t.stops[i].parent_station_id # Null
    BY <1>1, <1>2, <2>1, NullAssumption
  <2>3. Given(rows[i].parent_station) /\ Refers(t.stops, t.stops[i].parent_station_id, rows[i].parent_station)
    BY <1>1, <2>1, <2>2
  <2>4. rows[i].parent_station = rows[t.stops[i].parent_station_id].stop_id
    BY <1>1, <2>1, <2>3 DEF Refers
  <2> QED BY <2>1, <2>3, <2>4
<1>5. ids # {} /\ ids \in SUBSET {Strip(row.stop_id) : row \in children}
  BY <1>2, <1>4
<1>6. PICK row \in children : Strip(row.stop_id) \in ids /\ Strip(row.parent_station) \notin ids
  <2> HIDE DEF ids
  <2> QED BY <1>3, <1>5 DEF ParentsAcyclic
<1>7. PICK i \in ring : Strip(rows[i].stop_id) = Strip(row.stop_id)
  BY <1>6
<1>8. PICK j \in DOMAIN rows : row = rows[j]
  BY <1>2
<1>9. i = j
  BY <1>1, <1>2, <1>7, <1>8
<1> QED BY <1>4, <1>6, <1>8, <1>9

\* A timetable whose events are in time has hops that the planner can scan.
InTime(t) ==
  /\ \A i \in DOMAIN t.stop_times :
       /\ t.stop_times[i].trip_id \in DOMAIN t.trips /\ t.stop_times[i].stop_id \in DOMAIN t.stops
       /\ t.stop_times[i].stop_sequence \in Nat
       /\ t.stop_times[i].arrival_time \in Nat /\ t.stop_times[i].departure_time \in Nat
       /\ t.stop_times[i].arrival_time <= t.stop_times[i].departure_time
  /\ \A i, j \in DOMAIN t.stop_times :
       t.stop_times[i].trip_id = t.stop_times[j].trip_id =>
         /\ t.stop_times[i].stop_sequence = t.stop_times[j].stop_sequence => i = j
         /\ t.stop_times[i].stop_sequence < t.stop_times[j].stop_sequence =>
              t.stop_times[i].departure_time <= t.stop_times[j].arrival_time

\* A hop leads from an event to the next one of its trip.
HopAt(t, c, i, j) ==
  /\ i \in DOMAIN t.stop_times /\ j \in DOMAIN t.stop_times
  /\ t.stop_times[i].trip_id = t.stop_times[j].trip_id
  /\ t.stop_times[i].stop_sequence < t.stop_times[j].stop_sequence
  /\ \A k \in DOMAIN t.stop_times :
       t.stop_times[k].trip_id = t.stop_times[i].trip_id =>
         ~(/\ t.stop_times[i].stop_sequence < t.stop_times[k].stop_sequence
           /\ t.stop_times[k].stop_sequence < t.stop_times[j].stop_sequence)
  /\ c = [dep |-> t.stop_times[i].stop_id, arr |-> t.stop_times[j].stop_id,
          depTime |-> t.stop_times[i].departure_time, arrTime |-> t.stop_times[j].arrival_time,
          trip |-> t.stop_times[i].trip_id, seq |-> t.stop_times[i].stop_sequence]

LEMMA HopsAre ==
  ASSUME NEW t, NEW c \in Hops(t)
  PROVE  \E i, j \in DOMAIN t.stop_times : HopAt(t, c, i, j)
<1> DEFINE before(i, j)  == /\ t.stop_times[i].trip_id = t.stop_times[j].trip_id
                            /\ t.stop_times[i].stop_sequence < t.stop_times[j].stop_sequence
<1>1. PICK p \in (DOMAIN t.stop_times) \X (DOMAIN t.stop_times) :
        /\ before(p[1], p[2])
        /\ \A k \in DOMAIN t.stop_times : ~(before(p[1], k) /\ before(k, p[2]))
        /\ c = [dep |-> t.stop_times[p[1]].stop_id, arr |-> t.stop_times[p[2]].stop_id,
                depTime |-> t.stop_times[p[1]].departure_time,
                arrTime |-> t.stop_times[p[2]].arrival_time,
                trip |-> t.stop_times[p[1]].trip_id,
                seq |-> t.stop_times[p[1]].stop_sequence]
  BY DEF Hops
<1>2. p[1] \in DOMAIN t.stop_times /\ p[2] \in DOMAIN t.stop_times
  OBVIOUS
<1>3. HopAt(t, c, p[1], p[2])
  <2> DEFINE i == p[1]
             j == p[2]
  <2>1. /\ i \in DOMAIN t.stop_times /\ j \in DOMAIN t.stop_times
        /\ before(i, j) /\ \A k \in DOMAIN t.stop_times : ~(before(i, k) /\ before(k, j))
        /\ c = [dep |-> t.stop_times[i].stop_id, arr |-> t.stop_times[j].stop_id,
                depTime |-> t.stop_times[i].departure_time,
                arrTime |-> t.stop_times[j].arrival_time,
                trip |-> t.stop_times[i].trip_id,
                seq |-> t.stop_times[i].stop_sequence]
    BY <1>1, <1>2
  <2> HIDE DEF i, j
  <2>2. HopAt(t, c, i, j)
    BY <2>1 DEF HopAt
  <2> QED BY <2>2 DEF i, j
<1> QED BY <1>2, <1>3

LEMMA HopsInTime ==
  ASSUME NEW t, InTime(t)
  PROVE  /\ Hops(t) \subseteq [dep : DOMAIN t.stops, arr : DOMAIN t.stops,
                               depTime : Int, arrTime : Int, trip : DOMAIN t.trips, seq : Nat]
         /\ \A c \in Hops(t) : c.depTime <= c.arrTime
         /\ \A c, d \in Hops(t) : c.trip = d.trip =>
              /\ c.seq = d.seq => c = d
              /\ c.seq < d.seq => c.arrTime <= d.depTime
<1>1. ASSUME NEW c \in Hops(t)
      PROVE  /\ c \in [dep : DOMAIN t.stops, arr : DOMAIN t.stops,
                       depTime : Int, arrTime : Int, trip : DOMAIN t.trips, seq : Nat]
             /\ c.depTime <= c.arrTime
  <2>1. PICK i, j \in DOMAIN t.stop_times : HopAt(t, c, i, j)
    BY HopsAre
  <2> QED BY <2>1 DEF HopAt, InTime
<1>2. ASSUME NEW c \in Hops(t), NEW d \in Hops(t), c.trip = d.trip
      PROVE  /\ c.seq = d.seq => c = d
             /\ c.seq < d.seq => c.arrTime <= d.depTime
  <2>1. PICK i, next \in DOMAIN t.stop_times : HopAt(t, c, i, next)
    BY HopsAre
  <2>2. PICK j, later \in DOMAIN t.stop_times : HopAt(t, d, j, later)
    BY HopsAre
  <2> DEFINE event(k) == t.stop_times[k]
             n(k)     == event(k).stop_sequence
  <2>3. /\ event(i).trip_id = event(next).trip_id /\ event(j).trip_id = event(later).trip_id
        /\ event(i).trip_id = event(j).trip_id
        /\ n(i) < n(next) /\ n(j) < n(later)
        /\ ~(n(i) < n(later) /\ n(later) < n(next)) /\ ~(n(i) < n(j) /\ n(j) < n(next))
        /\ ~(n(j) < n(next) /\ n(next) < n(later))
        /\ c.seq = n(i) /\ d.seq = n(j)
        /\ c.arrTime = event(next).arrival_time /\ d.depTime = event(j).departure_time
    BY <1>2, <2>1, <2>2 DEF HopAt
  <2>4. /\ n(i) \in Nat /\ n(j) \in Nat /\ n(next) \in Nat /\ n(later) \in Nat
        /\ event(next).arrival_time \in Nat /\ event(next).departure_time \in Nat
        /\ event(j).arrival_time \in Nat /\ event(j).departure_time \in Nat
        /\ event(next).arrival_time <= event(next).departure_time
        /\ event(j).arrival_time <= event(j).departure_time
    BY DEF InTime
  <2>5. /\ n(i) = n(j) => i = j
        /\ n(next) = n(later) => next = later
        /\ n(next) = n(j) => next = j
        /\ n(next) < n(j) => event(next).departure_time <= event(j).arrival_time
    BY <2>3 DEF InTime
  <2>6. ASSUME c.seq = d.seq PROVE c = d
    <3>1. i = j /\ next = later
      BY <2>3, <2>4, <2>5, <2>6
    <3> QED BY <2>1, <2>2, <3>1 DEF HopAt
  <2>7. ASSUME c.seq < d.seq PROVE c.arrTime <= d.depTime
    <3>1. n(next) = n(j) \/ n(next) < n(j)
      BY <2>3, <2>4, <2>7
    <3>2. next = j \/ event(next).departure_time <= event(j).arrival_time
      BY <2>5, <3>1
    <3> HIDE DEF event
    <3> QED BY <2>3, <2>4, <3>2
  <2> QED BY <2>6, <2>7
<1> QED BY <1>1, <1>2

\* The events of an accepted feed are in time once they are loaded.
LEMMA LoadedInTime ==
  ASSUME NEW f, IsFeed(f), ValidateFeed(f), NEW t, StopTimesLoaded(t, f)
  PROVE  InTime(t)
<1> DEFINE rows == Rows(f, "stop_times")
<1>1. /\ DOMAIN t.stop_times = DOMAIN rows
      /\ \A i \in DOMAIN rows :
           /\ Refers(t.trips, t.stop_times[i].trip_id, rows[i].trip_id)
           /\ Refers(t.stops, t.stop_times[i].stop_id, rows[i].stop_id)
           /\ t.stop_times[i].stop_sequence = Strip(rows[i].stop_sequence)
           /\ t.stop_times[i].arrival_time = Strip(rows[i].arrival_time)
           /\ t.stop_times[i].departure_time = Strip(rows[i].departure_time)
  BY DEF StopTimesLoaded
<1>2. ASSUME NEW i \in DOMAIN rows
      PROVE  /\ t.stop_times[i].trip_id \in DOMAIN t.trips
             /\ t.stop_times[i].stop_id \in DOMAIN t.stops
             /\ t.stop_times[i].stop_sequence \in Nat
             /\ t.stop_times[i].arrival_time \in Nat /\ t.stop_times[i].departure_time \in Nat
             /\ t.stop_times[i].arrival_time <= t.stop_times[i].departure_time
  <2>1. /\ Strip(rows[i].stop_sequence) \in Int /\ Strip(rows[i].stop_sequence) > 0
        /\ Strip(rows[i].arrival_time) \in Nat /\ Strip(rows[i].departure_time) \in Nat
        /\ Strip(rows[i].arrival_time) <= Strip(rows[i].departure_time)
    BY EventRow DEF IsNumber
  <2> HIDE DEF rows
  <2> QED BY <1>1, <2>1 DEF Refers
<1>3. ASSUME NEW i \in DOMAIN rows, NEW j \in DOMAIN rows,
             t.stop_times[i].trip_id = t.stop_times[j].trip_id
      PROVE  /\ t.stop_times[i].stop_sequence = t.stop_times[j].stop_sequence => i = j
             /\ t.stop_times[i].stop_sequence < t.stop_times[j].stop_sequence =>
                  t.stop_times[i].departure_time <= t.stop_times[j].arrival_time
  <2> DEFINE id     == Strip(rows[i].trip_id)
             events == Group(rows, "trip_id", id, "stop_sequence")
  <2>1. rows[i].trip_id = rows[j].trip_id
    BY <1>1, <1>3 DEF Refers
  <2>2. i \in events /\ j \in events /\ id \in Ids(f, "trips", "trip_id")
    BY <2>1, EventRow
  <2>3. /\ Strip(rows[i].stop_sequence) = Strip(rows[j].stop_sequence) => i = j
        /\ Strip(rows[i].stop_sequence) < Strip(rows[j].stop_sequence) =>
             Strip(rows[i].departure_time) <= Strip(rows[j].arrival_time)
    BY <2>2, TripEvents
  <2> HIDE DEF rows
  <2> QED BY <1>1, <2>3
<1> HIDE DEF rows
<1> QED BY <1>1, <1>2, <1>3 DEF InTime

LEMMA LoadedIsSound ==
  ASSUME CommittedInv
  PROVE  TimetableSound
<1>1. CASE committed = EmptyTables
  <2>1. DOMAIN committed.trips = {} /\ DOMAIN committed.stops = {}
        /\ DOMAIN committed.stop_times = {}
    BY <1>1 DEF EmptyTables
  <2>2. Hops(committed) = {}
    BY <2>1, HopsAre
  <2> QED BY <2>1, <2>2 DEF TimetableSound
<1>2. CASE source \in AnyFeed /\ ValidateFeed(source) /\ Loaded(committed, source)
  <2> DEFINE t    == committed
             f    == source
  <2>1. /\ IsFeed(f) /\ ValidateFeed(f) /\ ServicesLoaded(t, f) /\ StopsLoaded(t, f)
        /\ TripsLoaded(t, f) /\ StopTimesLoaded(t, f)
    BY <1>2, FeedsAre DEF Loaded
  <2>2. ASSUME NEW trip \in DOMAIN t.trips PROVE Cardinality(EventsOf(t, trip)) >= 2
    BY <2>1, EventsAre, TripEvents
  <2>3. \A trip \in DOMAIN t.trips :
          \E row \in ToSet(t.calendar) \cup ToSet(t.calendar_dates) :
            row.service_id = t.trips[trip].service_id
    BY <2>1, TripsHaveDays
  <2>4. \A ring \in SUBSET DOMAIN t.stops :
          ring # {} => \E stop \in ring : t.stops[stop].parent_station_id \notin ring
    BY <2>1, NoRing
  <2>5. InTime(t)
    BY <2>1, LoadedInTime
  <2> QED BY <2>2, <2>3, <2>4, <2>5, HopsInTime DEF TimetableSound
<1> QED BY <1>1, <1>2 DEF CommittedInv

\* What the planner reads is a timetable that it can scan, whatever feed was loaded:
\* hops that satisfy Csa's TimetablesAssumption, of trips with two events at least, on
\* days that are given; and stops without a circle of parents.
THEOREM TimetableIsSound == Spec => []TimetableSound
<1>1. IInv => TimetableSound
  BY LoadedIsSound DEF IInv
<1> QED BY <1>1, Invariant, PTL

-----------------------------------------------------------------------------
(* The patterns, derived twice *)

\* A text leads to one row.
LEMMA RefersOnce ==
  ASSUME NEW f, IsFeed(f), ValidateFeed(f), NEW t, Loaded(t, f)
  PROVE  /\ \A i, j, c, d : Refers(t.routes, i, c) /\ Refers(t.routes, j, d) /\ Strip(c) = Strip(d)
                             => i = j
         /\ \A i, j, c, d : Refers(t.stops, i, c) /\ Refers(t.stops, j, d) /\ Strip(c) = Strip(d)
                             => i = j
         /\ \A i, j, c : Refers(t.shapes, i, c) /\ Refers(t.shapes, j, c) => i = j
<1>1. /\ \A i, j \in DOMAIN Rows(f, "routes") :
           Strip(Rows(f, "routes")[i]["route_id"]) = Strip(Rows(f, "routes")[j]["route_id"])
             => i = j
      /\ \A i, j \in DOMAIN Rows(f, "stops") :
           Strip(Rows(f, "stops")[i]["stop_id"]) = Strip(Rows(f, "stops")[j]["stop_id"])
             => i = j
  BY FilesAre, RowsApart DEF ValidateFeed
<1>2. \A i, j, c, d : Refers(t.routes, i, c) /\ Refers(t.routes, j, d) /\ Strip(c) = Strip(d)
                       => i = j
  <2> SUFFICES ASSUME NEW i, NEW j, NEW c, NEW d, Refers(t.routes, i, c), Refers(t.routes, j, d),
                      Strip(c) = Strip(d)
               PROVE  i = j
    OBVIOUS
  <2>1. i \in DOMAIN Rows(f, "routes") /\ Rows(f, "routes")[i].route_id = c
    BY DEF Loaded, RoutesLoaded, Refers
  <2>2. j \in DOMAIN Rows(f, "routes") /\ Rows(f, "routes")[j].route_id = d
    BY DEF Loaded, RoutesLoaded, Refers
  <2> QED BY <1>1, <2>1, <2>2
<1>3. \A i, j, c, d : Refers(t.stops, i, c) /\ Refers(t.stops, j, d) /\ Strip(c) = Strip(d)
                       => i = j
  <2> SUFFICES ASSUME NEW i, NEW j, NEW c, NEW d, Refers(t.stops, i, c), Refers(t.stops, j, d),
                      Strip(c) = Strip(d)
               PROVE  i = j
    OBVIOUS
  <2>1. i \in DOMAIN Rows(f, "stops") /\ Rows(f, "stops")[i].stop_id = c
    BY DEF Loaded, StopsLoaded, Refers
  <2>2. j \in DOMAIN Rows(f, "stops") /\ Rows(f, "stops")[j].stop_id = d
    BY DEF Loaded, StopsLoaded, Refers
  <2> QED BY <1>1, <2>1, <2>2
<1>4. \A i, j, c : Refers(t.shapes, i, c) /\ Refers(t.shapes, j, c) => i = j
  <2>1. Unique(t.shapes, {"gtfs_id"})
    BY DEF Loaded, ShapesLoaded, Names
  <2> QED BY <2>1 DEF Refers, Unique
<1> QED BY <1>2, <1>3, <1>4

\* The rows of stop_times for a row of trips, and their order.
EventRows(f, trip) ==
  Group(Rows(f, "stop_times"), "trip_id", Strip(Rows(f, "trips")[trip].trip_id), "stop_sequence")

EventOrder(f, trip) ==
  Sorted(EventRows(f, trip),
         BySequence(Rows(f, "stop_times"), EventRows(f, trip), "stop_sequence"))

\* The order of a trip's events in the table.
TableOrder(t, trip) ==
  Sorted(EventsOf(t, trip),
         {p \in EventsOf(t, trip) \X EventsOf(t, trip) :
            t.stop_times[p[1]]["stop_sequence"] < t.stop_times[p[2]]["stop_sequence"]})

\* It is the order that their rows have.
LEMMA SameOrder ==
  ASSUME NEW f, IsFeed(f), ValidateFeed(f), NEW t, Loaded(t, f), NEW trip \in DOMAIN t.trips
  PROVE  EventsOf(t, trip) = EventRows(f, trip) /\ TableOrder(t, trip) = EventOrder(f, trip)
<1> DEFINE rows   == Rows(f, "stop_times")
           events == EventRows(f, trip)
           before == {p \in events \X events :
                        t.stop_times[p[1]]["stop_sequence"] < t.stop_times[p[2]]["stop_sequence"]}
<1>1. EventsOf(t, trip) = events
  BY EventsAre DEF Loaded, EventRows
<1>2. events \subseteq DOMAIN rows
  BY DEF Group, EventRows
<1>3. \A i \in DOMAIN rows : t.stop_times[i].stop_sequence = Strip(rows[i].stop_sequence)
  BY DEF Loaded, StopTimesLoaded
<1> HIDE DEF events, rows
<1>4. before = BySequence(rows, events, "stop_sequence")
  BY <1>2, <1>3 DEF BySequence
<1>5. TableOrder(t, trip) = EventOrder(f, trip)
  BY <1>1, <1>4 DEF TableOrder, EventOrder, events, rows
<1> QED BY <1>1, <1>5 DEF events

\* A key that fits a trip's row is the trip's signature.
LEMMA KeyIsSignature ==
  ASSUME NEW f, IsFeed(f), ValidateFeed(f), NEW t, Loaded(t, f), NEW trip \in DOMAIN t.trips,
         NEW key, KeyIs(t, f, Rows(f, "trips")[trip], key)
  PROVE  key = Signature(t, trip)
<1> DEFINE row    == Rows(f, "trips")[trip]
           id     == Strip(row.trip_id)
           rows   == Rows(f, "stop_times")
           events == EventRows(f, trip)
           order  == EventOrder(f, trip)
           stops  == TripStopIds(f)[id]
           visits == InOrder(t.stop_times, EventsOf(t, trip), "stop_sequence", "stop_id")
<1>1. /\ key = [route_id |-> key.route_id, direction_id |-> Optional(row.direction_id),
                shape_id |-> key.shape_id, stops |-> key.stops]
      /\ Refers(t.routes, key.route_id, row.route_id)
      /\ ShapeIs(t, row, key.shape_id)
      /\ key.stops = [n \in DOMAIN stops |-> key.stops[n]]
      /\ \A n \in DOMAIN stops : Refers(t.stops, key.stops[n], Plain(stops[n]))
  BY DEF KeyIs
<1>2. /\ t.trips[trip].direction_id = Optional(row.direction_id)
      /\ Refers(t.routes, t.trips[trip].route_id, row.route_id)
      /\ ShapeIs(t, row, t.trips[trip].shape_id)
      /\ trip \in DOMAIN Rows(f, "trips")
  BY DEF Loaded, TripsLoaded
<1>3. key.route_id = t.trips[trip].route_id
  BY <1>1, <1>2, RefersOnce
<1>4. key.shape_id = t.trips[trip].shape_id
  BY <1>1, <1>2, RefersOnce DEF ShapeIs
<1>5. /\ Cardinality(events) \in Nat /\ DOMAIN stops = 1..Cardinality(events)
      /\ order \in [1..Cardinality(events) -> events]
      /\ \A n \in DOMAIN stops : stops[n] = Strip(rows[order[n]].stop_id)
  <2>1. id \in Ids(f, "trips", "trip_id")
    BY <1>2, TripRow
  <2> QED BY <2>1, StopsHandedOn DEF EventRows, EventOrder
<1>6. visits = [n \in 1..Cardinality(events) |-> t.stop_times[order[n]]["stop_id"]]
  <2>1. visits = [n \in 1..Cardinality(EventsOf(t, trip)) |->
                    t.stop_times[TableOrder(t, trip)[n]]["stop_id"]]
    BY DEF InOrder, TableOrder
  <2>2. EventsOf(t, trip) = events /\ TableOrder(t, trip) = order
    BY SameOrder
  <2> HIDE DEF visits, events, order
  <2> QED BY <2>1, <2>2
<1>7. /\ events \subseteq DOMAIN rows
      /\ \A i \in DOMAIN rows : Refers(t.stops, t.stop_times[i].stop_id, rows[i].stop_id)
  BY DEF EventRows, Group, Loaded, StopTimesLoaded
<1> HIDE DEF stops, order, events, rows, visits
<1>8. ASSUME NEW n \in DOMAIN stops PROVE key.stops[n] = visits[n]
  <2>1. order[n] \in DOMAIN rows
    BY <1>5, <1>7
  <2>2. Refers(t.stops, visits[n], rows[order[n]].stop_id)
    BY <1>5, <1>6, <1>7, <2>1
  <2>3. Strip(Plain(stops[n])) = Strip(rows[order[n]].stop_id)
    BY <1>5 DEF Strip, Plain
  <2>4. Refers(t.stops, key.stops[n], Plain(stops[n]))
    BY <1>1
  <2> QED BY <2>2, <2>3, <2>4, RefersOnce
<1>9. key.stops = visits
  BY <1>1, <1>5, <1>6, <1>8
<1> QED BY <1>1, <1>2, <1>3, <1>4, <1>9 DEF Signature, visits

LEMMA LoadedMatches ==
  ASSUME CommittedInv
  PROVE  PatternsMatch
<1>1. CASE committed = EmptyTables
  <2>1. DOMAIN committed.trips = {} /\ DOMAIN committed.route_patterns = {}
    BY <1>1 DEF EmptyTables
  <2> QED BY <2>1 DEF PatternsMatch, MigratedPatterns, ToSet
<1>2. CASE source \in AnyFeed /\ ValidateFeed(source) /\ Loaded(committed, source)
  <2> DEFINE t    == committed
             f    == source
             rows == Rows(f, "trips")
  <2>1. IsFeed(f) /\ ValidateFeed(f) /\ Loaded(t, f)
    BY <1>2, FeedsAre
  <2>2. /\ DOMAIN t.trips = DOMAIN rows
        /\ \A i \in DOMAIN rows :
             /\ t.trips[i].route_pattern_id \in DOMAIN t.route_patterns
             /\ KeyIs(t, f, rows[i], t.route_patterns[t.trips[i].route_pattern_id])
        /\ \A p \in DOMAIN t.route_patterns :
             \E i \in DOMAIN rows : KeyIs(t, f, rows[i], t.route_patterns[p])
    BY <2>1 DEF Loaded, TripsLoaded
  <2>3. \A i \in DOMAIN t.trips : \A key : KeyIs(t, f, rows[i], key) => key = Signature(t, i)
    BY <2>1, KeyIsSignature
  <2> HIDE DEF rows
  <2>4. \A trip \in DOMAIN t.trips :
          /\ t.trips[trip].route_pattern_id \in DOMAIN t.route_patterns
          /\ t.route_patterns[t.trips[trip].route_pattern_id] = Signature(t, trip)
    BY <2>2, <2>3
  <2>5. \A trip \in DOMAIN t.trips : EventsOf(t, trip) # {}
    <3> SUFFICES ASSUME NEW trip \in DOMAIN t.trips, EventsOf(t, trip) = {} PROVE FALSE
      OBVIOUS
    <3> DEFINE id == Strip(rows[trip].trip_id)
    <3>1. /\ id \in Ids(f, "trips", "trip_id")
          /\ EventsOf(t, trip) = Group(Rows(f, "stop_times"), "trip_id", id, "stop_sequence")
      BY <2>1, EventsAre DEF Loaded, rows
    <3> HIDE DEF id
    <3>2. Cardinality(EventsOf(t, trip)) >= 2
      BY <2>1, <3>1, TripEvents
    <3>3. Cardinality(EventsOf(t, trip)) = 0
      BY FS_EmptySet
    <3> QED BY <3>2, <3>3
  <2>6. ASSUME NEW p \in DOMAIN t.route_patterns
        PROVE  \E i \in DOMAIN t.trips : t.route_patterns[p] = Signature(t, i)
    BY <2>2, <2>3
  <2>7. MigratedPatterns(t) = {Signature(t, trip) : trip \in DOMAIN t.trips}
    BY <2>5 DEF MigratedPatterns
  <2>8. ToSet(t.route_patterns) = {t.route_patterns[p] : p \in DOMAIN t.route_patterns}
    BY DEF ToSet
  <2>9. ToSet(t.route_patterns) = MigratedPatterns(t)
    BY <2>4, <2>6, <2>7, <2>8
  <2> QED BY <2>4, <2>9 DEF PatternsMatch
<1> QED BY <1>1, <1>2 DEF CommittedInv

\* What the importer derives from the files, the migration derives from the tables:
\* the same patterns, and for every trip its own, also of a feed that is not clean.
THEOREM PatternsAgree == Spec => []PatternsMatch
<1>1. IInv => PatternsMatch
  BY LoadedMatches DEF IInv
<1> QED BY <1>1, Invariant, PTL

-----------------------------------------------------------------------------
(* The views of a route *)

\* What the order of the patterns is made of are numbers.
LEMMA PatternFacts ==
  ASSUME CommittedInv
  PROVE  LET t == committed
         IN  /\ IsFiniteSet(DOMAIN t.route_patterns) /\ DOMAIN t.route_patterns \subseteq Nat
             /\ IsFiniteSet(DOMAIN t.trips)
             /\ \A trip \in DOMAIN t.trips : Len(Signature(t, trip).stops) \in Nat
<1>1. CASE committed = EmptyTables
  <2>1. DOMAIN committed.trips = {} /\ DOMAIN committed.route_patterns = {}
    BY <1>1 DEF EmptyTables
  <2> QED BY <2>1, FS_EmptySet
<1>2. CASE source \in AnyFeed /\ ValidateFeed(source) /\ Loaded(committed, source)
  <2> DEFINE t == committed
             f == source
  <2>1. IsFeed(f) /\ ValidateFeed(f) /\ Loaded(t, f)
    BY <1>2, FeedsAre
  <2>2. PICK n \in Nat : DOMAIN t.route_patterns = 1..n
    BY <2>1 DEF Loaded, TripsLoaded
  <2>3. DOMAIN t.trips = DOMAIN Rows(f, "trips") /\ IsFiniteSet(DOMAIN Rows(f, "trips"))
    BY <2>1, FilesAre, RowsAre DEF Loaded, TripsLoaded
  <2>4. ASSUME NEW trip \in DOMAIN t.trips PROVE Len(Signature(t, trip).stops) \in Nat
    <3> DEFINE stops == InOrder(t.stop_times, EventsOf(t, trip), "stop_sequence", "stop_id")
               id    == Strip(Rows(f, "trips")[trip].trip_id)
    <3>1. /\ id \in Ids(f, "trips", "trip_id")
          /\ EventsOf(t, trip) = Group(Rows(f, "stop_times"), "trip_id", id, "stop_sequence")
      BY <2>1, EventsAre DEF Loaded
    <3> HIDE DEF id
    <3>2. IsFiniteSet(EventsOf(t, trip))
      BY <2>1, <3>1, TripEvents
    <3>3. Cardinality(EventsOf(t, trip)) \in Nat
      BY <3>2, FS_CardinalityType
    <3>4. DOMAIN stops = 1..Cardinality(EventsOf(t, trip))
      BY DEF InOrder
    <3>5. Len(stops) = Cardinality(EventsOf(t, trip))
      <4>1. stops = [k \in 1..Cardinality(EventsOf(t, trip)) |-> stops[k]]
        BY DEF InOrder
      <4> HIDE DEF stops
      <4> QED BY <3>3, <4>1
    <3>6. Signature(t, trip).stops = stops
      BY DEF Signature
    <3> QED BY <3>3, <3>5, <3>6
  <2>5. IsFiniteSet(1..n)
    BY FS_Interval
  <2> QED BY <2>2, <2>3, <2>4, <2>5
<1> QED BY <1>1, <1>2 DEF CommittedInv

\* Among the patterns of a direction that have trips, one comes first of two.
LEMMA PatternsInOrder ==
  ASSUME CommittedInv, NEW route, NEW direction \in {0, 1}
  PROVE  LET t      == committed
             ids    == PatternIds(t, route, direction)
             rank(p) == IF t.route_patterns[p].direction_id = Null THEN 2
                        ELSE t.route_patterns[p].direction_id
             before == {p \in ids \X ids :
                          \/ rank(p[1]) < rank(p[2])
                          \/ rank(p[1]) = rank(p[2]) /\ ComesFirst(t, p[1], p[2])}
         IN  /\ IsFiniteSet(ids) /\ ids \subseteq Nat
             /\ \A p \in ids :
                  \E trip \in DOMAIN t.trips : /\ t.trips[trip].route_pattern_id = p
                                               /\ t.route_patterns[p] = Signature(t, trip)
             /\ IsStrictOrder(before, ids)
             /\ \A p, q \in ids : <<p, q>> \in before <=> ComesFirst(t, p, q)
             /\ \A p, q \in ids : ComesFirst(t, p, q) => ~ComesFirst(t, q, p)
<1> DEFINE t       == committed
           ids     == PatternIds(t, route, direction)
           rank(p) == IF t.route_patterns[p].direction_id = Null THEN 2
                      ELSE t.route_patterns[p].direction_id
           before  == {p \in ids \X ids :
                         \/ rank(p[1]) < rank(p[2])
                         \/ rank(p[1]) = rank(p[2]) /\ ComesFirst(t, p[1], p[2])}
<1>1. /\ IsFiniteSet(DOMAIN t.route_patterns) /\ DOMAIN t.route_patterns \subseteq Nat
      /\ IsFiniteSet(DOMAIN t.trips)
      /\ \A trip \in DOMAIN t.trips : Len(Signature(t, trip).stops) \in Nat
  BY PatternFacts
<1>2. /\ ids \subseteq DOMAIN t.route_patterns
      /\ \A p \in ids : rank(p) = direction /\ TripsOf(t, p) # {}
  BY NullAssumption DEF PatternIds
<1>3. IsFiniteSet(ids) /\ ids \subseteq Nat
  <2> HIDE DEF ids
  <2> QED BY <1>1, <1>2, FS_Subset
<1> HIDE DEF ids, rank
<1>4. ASSUME NEW p \in ids
      PROVE  \E trip \in DOMAIN t.trips : /\ t.trips[trip].route_pattern_id = p
                                          /\ t.route_patterns[p] = Signature(t, trip)
  <2>1. PICK trip \in DOMAIN t.trips : t.trips[trip].route_pattern_id = p
    BY <1>2 DEF TripsOf
  <2> QED BY <2>1, LoadedMatches DEF PatternsMatch
<1> DEFINE trips(p) == Cardinality(TripsOf(t, p))
           stops(p) == Len(t.route_patterns[p].stops)
<1>5. ASSUME NEW p \in ids PROVE trips(p) \in Nat /\ stops(p) \in Nat /\ p \in Nat
  <2>1. TripsOf(t, p) \subseteq DOMAIN t.trips
    BY DEF TripsOf
  <2>2. trips(p) \in Nat
    BY <1>1, <2>1, FS_Subset, FS_CardinalityType
  <2>3. stops(p) \in Nat
    BY <1>1, <1>4
  <2> QED BY <1>3, <2>2, <2>3
<1>6. \A p, q \in ids : ComesFirst(t, p, q) <=>
        \/ trips(p) > trips(q)
        \/ trips(p) = trips(q) /\ stops(p) > stops(q)
        \/ trips(p) = trips(q) /\ stops(p) = stops(q) /\ p < q
  BY DEF ComesFirst
<1>7. \A p, q \in ids : <<p, q>> \in before <=> ComesFirst(t, p, q)
  BY <1>2
<1> HIDE DEF trips, stops, before
<1>8. IsStrictOrder(before, ids)
  <2>1. \A p \in ids : ~ComesFirst(t, p, p)
    BY <1>5, <1>6
  <2>2. \A p, q \in ids : p # q => ComesFirst(t, p, q) \/ ComesFirst(t, q, p)
    BY <1>5, <1>6
  <2>3. \A p, q, r \in ids : ComesFirst(t, p, q) /\ ComesFirst(t, q, r) => ComesFirst(t, p, r)
    BY <1>5, <1>6
  <2> QED BY <1>7, <2>1, <2>2, <2>3 DEF IsStrictOrder
<1>9. \A p, q \in ids : ComesFirst(t, p, q) => ~ComesFirst(t, q, p)
  BY <1>5, <1>6
<1> QED BY <1>3, <1>4, <1>7, <1>8, <1>9 DEF ids, rank, before

\* The default pattern is the first of the list.
LEMMA DefaultIsFirst ==
  ASSUME CommittedInv, NEW route, NEW direction \in {0, 1}
  PROVE  LET t    == committed
             ids  == PatternIds(t, route, direction)
             list == Patterns(t, route, direction)
         IN  IF ids = {} THEN list = <<>>
             ELSE list # <<>> /\ list[1] \in ids /\ DefaultPatternId(t, route, direction) = list[1]
<1> DEFINE t       == committed
           ids     == PatternIds(t, route, direction)
           list    == Patterns(t, route, direction)
           rank(p) == IF t.route_patterns[p].direction_id = Null THEN 2
                      ELSE t.route_patterns[p].direction_id
           before  == {p \in ids \X ids :
                         \/ rank(p[1]) < rank(p[2])
                         \/ rank(p[1]) = rank(p[2]) /\ ComesFirst(t, p[1], p[2])}
<1>1. /\ IsFiniteSet(ids) /\ IsStrictOrder(before, ids)
      /\ \A p, q \in ids : <<p, q>> \in before <=> ComesFirst(t, p, q)
      /\ \A p, q \in ids : ComesFirst(t, p, q) => ~ComesFirst(t, q, p)
  BY PatternsInOrder, ZenonT(40)
<1>2. list = Sorted(ids, before)
  BY DEF Patterns
<1> HIDE DEF before
<1>3. /\ Cardinality(ids) \in Nat /\ list \in [1..Cardinality(ids) -> ids]
      /\ \A p \in ids : \E i \in 1..Cardinality(ids) : list[i] = p
      /\ \A i, j \in 1..Cardinality(ids) : i < j => <<list[i], list[j]>> \in before
  <2> HIDE DEF ids, list
  <2> QED BY <1>1, <1>2, SortedLists, SMTT(30)
<1>4. DefaultPatternId(t, route, direction)
        = IF ids = {} THEN Null
          ELSE CHOOSE p \in ids : \A q \in ids \ {p} : ComesFirst(t, p, q)
  BY DEF DefaultPatternId
<1> HIDE DEF ids, list
<1>5. CASE ids = {}
  <2>1. Cardinality(ids) = 0
    BY <1>5, FS_EmptySet
  <2>2. list = <<>>
    BY <1>3, <2>1
  <2> QED BY <1>5, <2>2 DEF ids, list
<1>6. CASE ids # {}
  <2>1. 1 \in 1..Cardinality(ids) /\ Cardinality(ids) # 0
    BY <1>3, <1>6
  <2>2. list[1] \in ids /\ list # <<>>
    BY <1>3, <2>1
  <2>3. \A q \in ids \ {list[1]} : ComesFirst(t, list[1], q)
    <3> SUFFICES ASSUME NEW i \in 1..Cardinality(ids), list[i] # list[1]
                 PROVE  ComesFirst(t, list[1], list[i])
      BY <1>3
    <3>1. 1 < i
      BY <1>3
    <3>2. list[i] \in ids
      BY <1>3
    <3> QED BY <1>1, <1>3, <2>1, <2>2, <3>1, <3>2
  <2>4. \A p \in ids : (\A q \in ids \ {p} : ComesFirst(t, p, q)) => p = list[1]
    BY <1>1, <2>2, <2>3
  <2>5. DefaultPatternId(t, route, direction) = list[1]
    BY <1>4, <1>6, <2>2, <2>3, <2>4
  <2> QED BY <1>6, <2>2, <2>5 DEF ids, list
<1> QED BY <1>5, <1>6

LEMMA ViewsAgree ==
  ASSUME CommittedInv
  PROVE  RouteViewsAgree
<1> DEFINE t == committed
<1> SUFFICES ASSUME NEW route \in DOMAIN t.routes, NEW direction \in {0, 1}
             PROVE  LET ids   == Patterns(t, route, direction)
                        stops == OrderedStops(t, route, direction, Null)
                        shape == ShapeGeometry(t, route, direction, Null)
                    IN  IF ids = <<>> THEN stops = <<>> /\ shape = Junk
                        ELSE /\ stops = OrderedStops(t, route, Null, ids[1])
                             /\ shape = ShapeGeometry(t, route, Null, ids[1])
                             /\ \E trip \in DOMAIN t.trips :
                                  /\ t.trips[trip].route_id = route
                                  /\ t.trips[trip].direction_id = direction
                                  /\ stops = Signature(t, trip).stops
                                  /\ shape = IF t.trips[trip].shape_id = Null THEN Junk
                                             ELSE t.shapes[t.trips[trip].shape_id].geom
  BY DEF RouteViewsAgree
<1> DEFINE ids   == Patterns(t, route, direction)
           stops == OrderedStops(t, route, direction, Null)
           shape == ShapeGeometry(t, route, direction, Null)
           first == ids[1]
<1>0. direction # Null /\ Null # Junk
  BY NullAssumption
<1>1. IF PatternIds(t, route, direction) = {} THEN ids = <<>>
      ELSE /\ ids # <<>> /\ first \in PatternIds(t, route, direction)
           /\ DefaultPatternId(t, route, direction) = first
  BY DefaultIsFirst
<1>2. CASE PatternIds(t, route, direction) = {}
  <2>1. ResolvePatternId(t, route, direction, Null) = Null
    BY <1>2 DEF ResolvePatternId, DefaultPatternId
  <2>2. stops = <<>>
    BY <1>0, <2>1 DEF OrderedStops
  <2>3. shape = Junk
    BY <1>0, <2>1 DEF ShapeGeometry
  <2>4. ids = <<>>
    BY <1>1, <1>2
  <2> QED BY <2>2, <2>3, <2>4
<1>3. CASE PatternIds(t, route, direction) # {}
  <2> HIDE DEF ids
  <2>1. first \in PatternIds(t, route, direction) /\ ids # <<>>
    BY <1>1, <1>3
  <2>2. first \in Nat
    BY <2>1, PatternsInOrder
  <2>3. first # Null /\ first # Junk
    BY <2>2, NullAssumption, CellsAssumption
  <2>4. /\ first \in DOMAIN t.route_patterns
        /\ t.route_patterns[first].route_id = route
        /\ t.route_patterns[first].direction_id = direction
    BY <1>0, <2>1 DEF PatternIds
  <2> HIDE DEF first
  <2>5. ResolvePatternId(t, route, direction, Null) = first
    BY <1>1, <1>3 DEF ResolvePatternId
  <2>6. ResolvePatternId(t, route, Null, first) = first
    BY <2>3, <2>4 DEF ResolvePatternId
  <2>7. stops = t.route_patterns[first].stops /\ stops = OrderedStops(t, route, Null, first)
    BY <2>3, <2>5, <2>6 DEF OrderedStops
  <2>8. /\ shape = IF t.route_patterns[first].shape_id = Null THEN Junk
                   ELSE t.shapes[t.route_patterns[first].shape_id].geom
        /\ shape = ShapeGeometry(t, route, Null, first)
    BY <1>0, <2>3, <2>5, <2>6 DEF ShapeGeometry
  <2>9. PICK trip \in DOMAIN t.trips : /\ t.trips[trip].route_pattern_id = first
                                       /\ t.route_patterns[first] = Signature(t, trip)
    <3>1. TripsOf(t, first) # {}
      BY <2>1 DEF PatternIds
    <3> QED BY <3>1, LoadedMatches DEF TripsOf, PatternsMatch
  <2>10. /\ t.trips[trip].route_id = route /\ t.trips[trip].direction_id = direction
         /\ t.trips[trip].shape_id = t.route_patterns[first].shape_id
         /\ stops = Signature(t, trip).stops
    <3>1. /\ Signature(t, trip).route_id = t.trips[trip].route_id
          /\ Signature(t, trip).direction_id = t.trips[trip].direction_id
          /\ Signature(t, trip).shape_id = t.trips[trip].shape_id
      BY DEF Signature
    <3> HIDE DEF stops
    <3> QED BY <2>4, <2>7, <2>9, <3>1
  <2> HIDE DEF stops, shape
  <2> QED BY <2>1, <2>7, <2>8, <2>10 DEF first, stops, shape, ids
<1> QED BY <1>2, <1>3

\* Asked about a direction of a route, the list of patterns, the stops and the shape
\* speak of one pattern, which is that of a trip.
THEOREM ViewsOfOnePattern == Spec => []RouteViewsAgree
<1>1. IInv => RouteViewsAgree
  BY ViewsAgree DEF IInv
<1> QED BY <1>1, Invariant, PTL

-----------------------------------------------------------------------------
(* The tables say what the feed says *)

LEMMA RoutesDecoded ==
  ASSUME NEW f, IsFeed(f), NEW t, Loaded(t, f)
  PROVE  {[route |-> Strip(row.gtfs_id), agency |-> Strip(t.agency[row.agency_id].gtfs_id)] :
            row \in ToSet(t.routes)}
           = {[route |-> Strip(row.route_id), agency |-> Strip(row.agency_id)] :
                row \in RowSet(f, "routes")}
<1> DEFINE rows       == Rows(f, "routes")
           Left(row)  == [route  |-> Strip(row.gtfs_id),
                          agency |-> Strip(t.agency[row.agency_id].gtfs_id)]
           Right(row) == [route |-> Strip(row.route_id), agency |-> Strip(row.agency_id)]
<1>1. DOMAIN t.routes = DOMAIN rows /\ \A i \in DOMAIN rows : Left(t.routes[i]) = Right(rows[i])
  BY DEF Loaded, RoutesLoaded, Refers
<1> HIDE DEF Left, Right
<1>2. {Left(row) : row \in ToSet(t.routes)} = {Right(row) : row \in RowSet(f, "routes")}
  BY <1>1 DEF ToSet, RowSet
<1> QED BY <1>2 DEF Left, Right

LEMMA StopsDecoded ==
  ASSUME NEW f, IsFeed(f), NEW t, Loaded(t, f)
  PROVE  {[stop   |-> Strip(row.gtfs_id),
           parent |-> IF row.parent_station_id = Null THEN Null
                      ELSE Strip(t.stops[row.parent_station_id].gtfs_id)] :
            row \in ToSet(t.stops)}
           = {[stop |-> Strip(row.stop_id), parent |-> Optional(row.parent_station)] :
                row \in RowSet(f, "stops")}
<1> DEFINE rows       == Rows(f, "stops")
           Left(row)  == [stop   |-> Strip(row.gtfs_id),
                          parent |-> IF row.parent_station_id = Null THEN Null
                                     ELSE Strip(t.stops[row.parent_station_id].gtfs_id)]
           Right(row) == [stop |-> Strip(row.stop_id), parent |-> Optional(row.parent_station)]
<1>1. /\ DOMAIN t.stops = DOMAIN rows
      /\ \A i \in DOMAIN rows :
           /\ t.stops[i].gtfs_id = rows[i].stop_id
           /\ IF Given(rows[i].parent_station)
                THEN Refers(t.stops, t.stops[i].parent_station_id, rows[i].parent_station)
                ELSE t.stops[i].parent_station_id = Null
  BY DEF Loaded, StopsLoaded
<1>2. DOMAIN rows \subseteq Nat
  BY FilesAre, RowsAre
<1>3. ASSUME NEW i \in DOMAIN rows PROVE Left(t.stops[i]) = Right(rows[i])
  <2>1. CASE Given(rows[i].parent_station)
    <3>1. Refers(t.stops, t.stops[i].parent_station_id, rows[i].parent_station)
      BY <1>1, <2>1
    <3>2. t.stops[i].parent_station_id # Null
      BY <1>1, <1>2, <3>1, NullAssumption DEF Refers
    <3> HIDE DEF rows
    <3> QED BY <1>1, <2>1, <3>1, <3>2 DEF Refers, Optional
  <2>2. CASE ~Given(rows[i].parent_station)
    <3> HIDE DEF rows
    <3> QED BY <1>1, <2>2 DEF Optional
  <2> QED BY <2>1, <2>2
<1> HIDE DEF Left, Right
<1>4. {Left(row) : row \in ToSet(t.stops)} = {Right(row) : row \in RowSet(f, "stops")}
  BY <1>1, <1>3 DEF ToSet, RowSet
<1> QED BY <1>4 DEF Left, Right

LEMMA CalendarDecoded ==
  ASSUME NEW f, IsFeed(f), Clean(f), NEW t, Loaded(t, f)
  PROVE  {[service |-> Strip(t.services[row.service_id].gtfs_id), days |-> row.days,
           dates   |-> <<row.start_date, row.end_date>>] : row \in ToSet(t.calendar)}
           = {[service |-> Strip(row.service_id),
               days    |-> {day \in Weekdays : Strip(row[day]) = 1},
               dates   |-> <<Strip(row.start_date).day, Strip(row.end_date).day>>] :
                row \in RowSet(f, "calendar")}
<1> DEFINE rows       == Rows(f, "calendar")
           Left(row)  == [service |-> Strip(t.services[row.service_id].gtfs_id),
                          days    |-> row.days,
                          dates   |-> <<row.start_date, row.end_date>>]
           Right(row) == [service |-> Strip(row.service_id),
                          days    |-> {day \in Weekdays : Strip(row[day]) = 1},
                          dates   |-> <<Strip(row.start_date).day, Strip(row.end_date).day>>]
<1>1. /\ DOMAIN t.calendar = DOMAIN rows
      /\ \A i \in DOMAIN rows :
           /\ Refers(t.services, t.calendar[i].service_id, rows[i].service_id)
           /\ t.calendar[i].days = {day \in Weekdays : rows[i][day] = Plain(1)}
           /\ t.calendar[i].start_date = Strip(rows[i].start_date).day
           /\ t.calendar[i].end_date = Strip(rows[i].end_date).day
  BY DEF Loaded, ServicesLoaded
<1>2. ASSUME NEW i \in DOMAIN rows
      PROVE  t.calendar[i].days = {day \in Weekdays : Strip(rows[i][day]) = 1}
  <2>1. \A day \in Weekdays : rows[i][day] = Plain(Strip(rows[i][day]))
    <3>1. "calendar" \in Files /\ Weekdays \subseteq Columns["calendar"]
      BY FilesAre DEF Columns
    <3> QED BY <3>1, RowsAre, CellsAreTexts
  <2>2. \A text : Plain(text) = Plain(1) <=> text = 1
    BY DEF Plain
  <2> HIDE DEF rows
  <2> QED BY <1>1, <2>1, <2>2
<1>3. ASSUME NEW i \in DOMAIN rows PROVE Left(t.calendar[i]) = Right(rows[i])
  <2> HIDE DEF rows
  <2> QED BY <1>1, <1>2 DEF Refers
<1> HIDE DEF Left, Right
<1>4. {Left(row) : row \in ToSet(t.calendar)} = {Right(row) : row \in RowSet(f, "calendar")}
  BY <1>1, <1>3 DEF ToSet, RowSet
<1> QED BY <1>4 DEF Left, Right

LEMMA ExceptionsDecoded ==
  ASSUME NEW f, IsFeed(f), NEW t, Loaded(t, f)
  PROVE  {[service |-> Strip(t.services[row.service_id].gtfs_id), date |-> row.date,
           type    |-> row.exception_type] : row \in ToSet(t.calendar_dates)}
           = {[service |-> Strip(row.service_id), date |-> Strip(row.date).day,
               type    |-> Strip(row.exception_type)] : row \in RowSet(f, "calendar_dates")}
<1> DEFINE rows       == Rows(f, "calendar_dates")
           Left(row)  == [service |-> Strip(t.services[row.service_id].gtfs_id),
                          date    |-> row.date, type |-> row.exception_type]
           Right(row) == [service |-> Strip(row.service_id), date |-> Strip(row.date).day,
                          type    |-> Strip(row.exception_type)]
<1>1. /\ DOMAIN t.calendar_dates = DOMAIN rows
      /\ \A i \in DOMAIN rows : Left(t.calendar_dates[i]) = Right(rows[i])
  BY DEF Loaded, ServicesLoaded, Refers
<1> HIDE DEF Left, Right
<1>2. {Left(row) : row \in ToSet(t.calendar_dates)}
        = {Right(row) : row \in RowSet(f, "calendar_dates")}
  BY <1>1 DEF ToSet, RowSet
<1> QED BY <1>2 DEF Left, Right

\* The line of a shape goes through the points that the feed has for its id.
LEMMA LineDecoded ==
  ASSUME NEW f, IsFeed(f), ValidateFeed(f), Clean(f), NEW t, Loaded(t, f),
         NEW shape \in DOMAIN t.shapes
  PROVE  t.shapes[shape].geom
           = Map(Ordered(Rows(f, "shapes"), "shape_id", Strip(t.shapes[shape].gtfs_id),
                         "shape_pt_sequence"),
                 LAMBDA point : <<Strip(point.shape_pt_lon), Strip(point.shape_pt_lat)>>)
<1> DEFINE rows   == Rows(f, "shapes")
           cell   == t.shapes[shape].gtfs_id
           points == Group(rows, "shape_id", Strip(cell), "shape_pt_sequence")
           order  == Sorted(points, BySequence(rows, points, "shape_pt_sequence"))
           before == {p \in points \X points :
                        t.shape_points[p[1]]["pt_sequence"] < t.shape_points[p[2]]["pt_sequence"]}
<1>1. /\ DOMAIN t.shape_points = DOMAIN rows
      /\ \A i \in DOMAIN rows :
           /\ Refers(t.shapes, t.shape_points[i].shape_id, rows[i].shape_id)
           /\ t.shape_points[i].pt_sequence = Strip(rows[i].shape_pt_sequence)
           /\ t.shape_points[i].point = <<Strip(rows[i].shape_pt_lon), Strip(rows[i].shape_pt_lat)>>
      /\ Unique(t.shapes, {"gtfs_id"})
      /\ cell \in {row.shape_id : row \in RowSet(f, "shapes")}
  BY DEF Loaded, ShapesLoaded, Names
<1>2. "shapes" \in Files /\ "shape_id" \in Columns["shapes"]
  BY FilesAre DEF Columns
<1>3. ASSUME NEW i \in DOMAIN rows
      PROVE  IsNumber(rows[i].shape_pt_sequence) /\ Strip(rows[i].shape_pt_sequence) \in Int
  <2>1. rows[i] \in RowSet(f, "shapes") /\ ShapePointsAccepted(f)
    BY <1>2, RowsAre DEF ValidateFeed
  <2> HIDE DEF rows
  <2> QED BY <2>1 DEF ShapePointsAccepted, SequenceAccepted, IsNumber
<1>4. /\ \A i \in DOMAIN rows : rows[i].shape_id = Plain(Strip(rows[i].shape_id))
      /\ cell = Plain(Strip(cell))
  <2>1. \A row \in RowSet(f, "shapes") : row["shape_id"] = Plain(Strip(row["shape_id"]))
    BY <1>2, CellsAreTexts
  <2>2. \A i \in DOMAIN rows : rows[i] \in RowSet(f, "shapes")
    BY <1>2, RowsAre
  <2> HIDE DEF rows, cell
  <2> QED BY <1>1, <2>1, <2>2
<1> HIDE DEF rows
<1>5. \A i \in DOMAIN rows : t.shape_points[i].shape_id = shape <=> rows[i].shape_id = cell
  BY <1>1 DEF Refers, Unique
<1> HIDE DEF cell
<1>6. PointsOf(t, shape) = points
  <2>1. ASSUME NEW i \in DOMAIN rows
        PROVE  t.shape_points[i].shape_id = shape
                 <=> Strip(rows[i]["shape_id"]) = Strip(cell) /\ IsNumber(rows[i]["shape_pt_sequence"])
    BY <1>3, <1>4, <1>5
  <2> QED BY <1>1, <2>1 DEF PointsOf, Group
<1>7. points \subseteq DOMAIN rows
  BY DEF Group
<1> HIDE DEF points
<1>8. before = BySequence(rows, points, "shape_pt_sequence")
  BY <1>1, <1>7 DEF BySequence
<1>9. IsFiniteSet(points) /\ IsStrictOrder(BySequence(rows, points, "shape_pt_sequence"), points)
  <2>1. Strip(cell) \in Ids(f, "shapes", "shape_id")
    <3>1. PICK row \in RowSet(f, "shapes") : row.shape_id = cell
      BY <1>1
    <3>2. Given(row.shape_id)
      BY <3>1 DEF ValidateFeed, ShapePointsAccepted
    <3> QED BY <3>1, <3>2 DEF Ids, Given
  <2>2. Cardinality({Strip(rows[i]["shape_pt_sequence"]) : i \in points}) = Cardinality(points)
    BY <2>1 DEF ValidateFeed, ShapesAccepted, points, rows
  <2> QED BY <1>2, <2>2, GroupsApart, SMTT(30) DEF points, rows
<1>10. Cardinality(points) \in Nat /\ order \in [1..Cardinality(points) -> points]
  BY <1>9, SortedLists
<1>11. t.shapes[shape].geom
         = [n \in 1..Cardinality(points) |-> t.shape_points[order[n]]["point"]]
  BY <1>6, <1>8 DEF Loaded, GeometriesBuilt, InOrder
<1> DEFINE list == [n \in 1..Cardinality(points) |-> rows[order[n]]]
<1>12. Ordered(rows, "shape_id", Strip(cell), "shape_pt_sequence") = list
  BY DEF Ordered, points
<1> HIDE DEF order
<1>13. Map(list, LAMBDA point : <<Strip(point.shape_pt_lon), Strip(point.shape_pt_lat)>>)
         = [n \in 1..Cardinality(points) |->
              <<Strip(rows[order[n]].shape_pt_lon), Strip(rows[order[n]].shape_pt_lat)>>]
  BY DEF Map
<1>14. \A n \in 1..Cardinality(points) :
         t.shape_points[order[n]]["point"]
           = <<Strip(rows[order[n]].shape_pt_lon), Strip(rows[order[n]].shape_pt_lat)>>
  BY <1>1, <1>7, <1>10
<1> HIDE DEF list
<1> QED BY <1>11, <1>12, <1>13, <1>14 DEF rows, cell

\* A trip's events are those that the feed has for its id.
LEMMA EventsDecoded ==
  ASSUME NEW f, IsFeed(f), ValidateFeed(f), NEW t, Loaded(t, f), NEW trip \in DOMAIN t.trips
  PROVE  LET Column(column) == InOrder(t.stop_times, EventsOf(t, trip), "stop_sequence", column)
         IN  [n \in 1..Cardinality(EventsOf(t, trip)) |->
                <<Strip(t.stops[Column("stop_id")[n]].gtfs_id),
                  Column("arrival_time")[n], Column("departure_time")[n]>>]
               = Map(Ordered(Rows(f, "stop_times"), "trip_id",
                             Strip(Rows(f, "trips")[trip].trip_id), "stop_sequence"),
                     LAMBDA event : <<Strip(event.stop_id), Strip(event.arrival_time),
                                      Strip(event.departure_time)>>)
<1> DEFINE rows   == Rows(f, "stop_times")
           id     == Strip(Rows(f, "trips")[trip].trip_id)
           events == EventRows(f, trip)
           order  == EventOrder(f, trip)
           Column(column) == InOrder(t.stop_times, EventsOf(t, trip), "stop_sequence", column)
           list   == [n \in 1..Cardinality(events) |-> rows[order[n]]]
<1>1. /\ EventsOf(t, trip) = events
      /\ Column("stop_id") = [n \in 1..Cardinality(events) |-> t.stop_times[order[n]]["stop_id"]]
      /\ Column("arrival_time")
           = [n \in 1..Cardinality(events) |-> t.stop_times[order[n]]["arrival_time"]]
      /\ Column("departure_time")
           = [n \in 1..Cardinality(events) |-> t.stop_times[order[n]]["departure_time"]]
  <2>1. EventsOf(t, trip) = events /\ TableOrder(t, trip) = order
    BY SameOrder
  <2>2. /\ Column("stop_id") = [n \in 1..Cardinality(EventsOf(t, trip)) |->
                                t.stop_times[TableOrder(t, trip)[n]]["stop_id"]]
        /\ Column("arrival_time") = [n \in 1..Cardinality(EventsOf(t, trip)) |->
                                     t.stop_times[TableOrder(t, trip)[n]]["arrival_time"]]
        /\ Column("departure_time") = [n \in 1..Cardinality(EventsOf(t, trip)) |->
                                       t.stop_times[TableOrder(t, trip)[n]]["departure_time"]]
    BY DEF InOrder, TableOrder
  <2> HIDE DEF events, order, Column
  <2> QED BY <2>1, <2>2
<1>2. /\ events \subseteq DOMAIN rows
      /\ \A i \in DOMAIN rows :
           /\ Refers(t.stops, t.stop_times[i].stop_id, rows[i].stop_id)
           /\ t.stop_times[i].arrival_time = Strip(rows[i].arrival_time)
           /\ t.stop_times[i].departure_time = Strip(rows[i].departure_time)
  BY DEF EventRows, Group, Loaded, StopTimesLoaded
<1>3. IsFiniteSet(events) /\ IsStrictOrder(BySequence(rows, events, "stop_sequence"), events)
  <2>1. id \in Ids(f, "trips", "trip_id")
    BY TripRow DEF Loaded, TripsLoaded
  <2> QED BY <2>1, TripEvents DEF EventRows
<1>4. Cardinality(events) \in Nat /\ order \in [1..Cardinality(events) -> events]
  BY <1>3, SortedLists DEF EventOrder
<1>5. Ordered(rows, "trip_id", id, "stop_sequence") = list
  BY DEF Ordered, EventRows, EventOrder
<1> HIDE DEF events, order, rows, Column
<1>6. Map(list, LAMBDA event : <<Strip(event.stop_id), Strip(event.arrival_time),
                                 Strip(event.departure_time)>>)
        = [n \in 1..Cardinality(events) |->
             <<Strip(rows[order[n]].stop_id), Strip(rows[order[n]].arrival_time),
               Strip(rows[order[n]].departure_time)>>]
  BY DEF Map
<1>7. ASSUME NEW n \in 1..Cardinality(events)
      PROVE  /\ Strip(t.stops[Column("stop_id")[n]].gtfs_id) = Strip(rows[order[n]].stop_id)
             /\ Column("arrival_time")[n] = Strip(rows[order[n]].arrival_time)
             /\ Column("departure_time")[n] = Strip(rows[order[n]].departure_time)
  <2>1. order[n] \in DOMAIN rows
    BY <1>2, <1>4
  <2> QED BY <1>1, <1>2, <2>1 DEF Refers
<1>8. [n \in 1..Cardinality(EventsOf(t, trip)) |->
         <<Strip(t.stops[Column("stop_id")[n]].gtfs_id),
           Column("arrival_time")[n], Column("departure_time")[n]>>]
        = [n \in 1..Cardinality(events) |->
             <<Strip(rows[order[n]].stop_id), Strip(rows[order[n]].arrival_time),
               Strip(rows[order[n]].departure_time)>>]
  BY <1>1, <1>7
<1> HIDE DEF list, id
<1> QED BY <1>5, <1>6, <1>8 DEF rows, id, Column

\* A trip's line, if it has one.
LEMMA TripLineDecoded ==
  ASSUME NEW f, IsFeed(f), ValidateFeed(f), Clean(f), NEW t, Loaded(t, f),
         NEW trip \in DOMAIN t.trips
  PROVE  LET row == Rows(f, "trips")[trip]
         IN  (IF t.trips[trip].shape_id = Null THEN Null
              ELSE t.shapes[t.trips[trip].shape_id].geom)
             = (IF Given(row.shape_id)
                  THEN Map(Ordered(Rows(f, "shapes"), "shape_id", Strip(row.shape_id),
                                   "shape_pt_sequence"),
                           LAMBDA point : <<Strip(point.shape_pt_lon), Strip(point.shape_pt_lat)>>)
                  ELSE Null)
<1> DEFINE row   == Rows(f, "trips")[trip]
           shape == t.trips[trip].shape_id
           text  == Strip(row.shape_id)
<1>1. ShapeIs(t, row, shape) /\ trip \in DOMAIN Rows(f, "trips")
  BY DEF Loaded, TripsLoaded
<1>2. CASE Given(row.shape_id)
  <2>1. text \in Ids(f, "shapes", "shape_id")
    BY <1>1, <1>2, TripRow
  <2>2. Names(t.shapes, {r.shape_id : r \in RowSet(f, "shapes")})
    BY DEF Loaded, ShapesLoaded
  <2> HIDE DEF row, text
  <2>3. PICK j \in DOMAIN Rows(f, "shapes") : Rows(f, "shapes")[j]["shape_id"] = Plain(text)
    BY <2>1, FilesAre, CellFound DEF Columns
  <2>4. Plain(text) \in {r.shape_id : r \in RowSet(f, "shapes")}
    BY <2>3 DEF RowSet, ToSet
  <2>5. Has(t.shapes, Plain(text))
    BY <2>2, <2>4 DEF Names, Has
  <2>6. Refers(t.shapes, shape, Plain(text))
    BY <1>1, <1>2, <2>5 DEF ShapeIs, text
  <2>7. shape \in DOMAIN t.shapes /\ Strip(t.shapes[shape].gtfs_id) = text /\ shape # Null
    <3>1. DOMAIN t.shapes \subseteq Nat
      BY <2>2 DEF Names
    <3> HIDE DEF shape
    <3> QED BY <2>6, <3>1, NullAssumption DEF Refers, Strip, Plain
  <2>8. t.shapes[shape].geom
          = Map(Ordered(Rows(f, "shapes"), "shape_id", Strip(t.shapes[shape].gtfs_id),
                        "shape_pt_sequence"),
                LAMBDA point : <<Strip(point.shape_pt_lon), Strip(point.shape_pt_lat)>>)
    BY <2>7, LineDecoded
  <2> DEFINE line(id) ==
        Map(Ordered(Rows(f, "shapes"), "shape_id", id, "shape_pt_sequence"),
            LAMBDA point : <<Strip(point.shape_pt_lon), Strip(point.shape_pt_lat)>>)
  <2>9. t.shapes[shape].geom = line(Strip(t.shapes[shape].gtfs_id))
    BY <2>8
  <2> HIDE DEF line
  <2>10. t.shapes[shape].geom = line(text)
    BY <2>7, <2>9
  <2>11. (IF shape = Null THEN Null ELSE t.shapes[shape].geom)
           = (IF Given(row.shape_id) THEN line(text) ELSE Null)
    BY <1>2, <2>7, <2>10
  <2> QED BY <2>11 DEF line, row, text
<1>3. CASE ~Given(row.shape_id)
  BY <1>1, <1>3 DEF ShapeIs
<1> QED BY <1>2, <1>3

LEMMA TripsDecoded ==
  ASSUME NEW f, IsFeed(f), ValidateFeed(f), Clean(f), NEW t, Loaded(t, f)
  PROVE  Decoded(t).trips = Says(f).trips
<1> DEFINE rows == Rows(f, "trips")
           Column(i, column) == InOrder(t.stop_times, EventsOf(t, i), "stop_sequence", column)
           LeftLine(i) == IF t.trips[i].shape_id = Null THEN Null
                          ELSE t.shapes[t.trips[i].shape_id].geom
           RightLine(row) == IF Given(row.shape_id)
                               THEN Map(Ordered(Rows(f, "shapes"), "shape_id",
                                                Strip(row.shape_id), "shape_pt_sequence"),
                                        LAMBDA point : <<Strip(point.shape_pt_lon),
                                                         Strip(point.shape_pt_lat)>>)
                               ELSE Null
           LeftEvents(i) == [n \in 1..Cardinality(EventsOf(t, i)) |->
                              <<Strip(t.stops[Column(i, "stop_id")[n]].gtfs_id),
                                Column(i, "arrival_time")[n], Column(i, "departure_time")[n]>>]
           RightEvents(row) == Map(Ordered(Rows(f, "stop_times"), "trip_id",
                                           Strip(row.trip_id), "stop_sequence"),
                                   LAMBDA event : <<Strip(event.stop_id),
                                                    Strip(event.arrival_time),
                                                    Strip(event.departure_time)>>)
           Left(i) == [trip      |-> Strip(t.trips[i].gtfs_id),
                       route     |-> Strip(t.routes[t.trips[i].route_id].gtfs_id),
                       service   |-> Strip(t.services[t.trips[i].service_id].gtfs_id),
                       direction |-> t.trips[i].direction_id,
                       line      |-> LeftLine(i), events |-> LeftEvents(i)]
           Right(row) == [trip      |-> Strip(row.trip_id), route |-> Strip(row.route_id),
                          service   |-> Strip(row.service_id),
                          direction |-> Optional(row.direction_id),
                          line      |-> RightLine(row), events |-> RightEvents(row)]
<1>1. /\ DOMAIN t.trips = DOMAIN rows
      /\ \A i \in DOMAIN rows :
           /\ t.trips[i].gtfs_id = rows[i].trip_id
           /\ t.trips[i].direction_id = Optional(rows[i].direction_id)
           /\ Refers(t.routes, t.trips[i].route_id, rows[i].route_id)
           /\ Refers(t.services, t.trips[i].service_id, rows[i].service_id)
  BY DEF Loaded, TripsLoaded
<1>2. \A i \in DOMAIN t.trips : LeftLine(i) = RightLine(rows[i])
  BY TripLineDecoded
<1>3. \A i \in DOMAIN t.trips : LeftEvents(i) = RightEvents(rows[i])
  BY EventsDecoded
<1>4. Decoded(t).trips = {Left(i) : i \in DOMAIN t.trips}
  BY DEF Decoded
<1>5. Says(f).trips = {Right(row) : row \in RowSet(f, "trips")}
  BY DEF Says
<1> HIDE DEF LeftLine, RightLine, LeftEvents, RightEvents, rows
<1>6. \A i \in DOMAIN rows : Left(i) = Right(rows[i])
  BY <1>1, <1>2, <1>3 DEF Refers
<1> HIDE DEF Left, Right
<1>7. RowSet(f, "trips") = {rows[i] : i \in DOMAIN rows}
  BY DEF RowSet, ToSet, rows
<1> QED BY <1>1, <1>4, <1>5, <1>6, <1>7

LEMMA LoadedIsSaid ==
  ASSUME NEW f, IsFeed(f), ValidateFeed(f), Clean(f), NEW t, Loaded(t, f)
  PROVE  Decoded(t) = Says(f)
<1> DEFINE d == Decoded(t)
           s == Says(f)
<1>1. d.routes = s.routes
  BY RoutesDecoded DEF Decoded, Says
<1>2. d.stops = s.stops
  BY StopsDecoded DEF Decoded, Says
<1>3. d.calendar = s.calendar
  BY CalendarDecoded DEF Decoded, Says
<1>4. d.exceptions = s.exceptions
  BY ExceptionsDecoded DEF Decoded, Says
<1>5. d.trips = s.trips
  BY TripsDecoded
<1>6. d = [routes |-> d.routes, stops |-> d.stops, calendar |-> d.calendar,
           exceptions |-> d.exceptions, trips |-> d.trips]
  BY DEF Decoded
<1>7. s = [routes |-> s.routes, stops |-> s.stops, calendar |-> s.calendar,
           exceptions |-> s.exceptions, trips |-> s.trips]
  BY DEF Says
<1> HIDE DEF d, s
<1>8. d = s
  BY <1>1, <1>2, <1>3, <1>4, <1>5, <1>6, <1>7
<1> QED BY <1>8 DEF d, s

-----------------------------------------------------------------------------
(* The refinement *)

\* To begin with, and whenever something is committed, the database holds what the
\* store may hold; all other steps leave it alone.
LEMMA InitIsStore == Init => Store!Init
BY DEF Init, Store!Init, Promised

LEMMA StepIsStore ==
  ASSUME IInv, [Next]_vars
  PROVE  [Store!Next]_(Promised(source, Decoded(committed)))
<1> DEFINE content == Promised(source, Decoded(committed))
<1>1. CASE Commit
  <2>1. /\ committed' = tables /\ source' = feed /\ phase = "commit"
    BY <1>1 DEF Commit
  <2>2. /\ IsFeed(feed) /\ ValidateFeed(feed) /\ feed \in AnyFeed /\ feed # Null
        /\ Loaded(tables, feed)
    BY <2>1, FeedsAre DEF IInv, TransactionInv, Parts, Phases, Stage, Loaded
  <2>3. content' = Promised(feed, Decoded(tables))
    BY <2>1
  <2>4. Promised(feed, Decoded(tables)) = Promised(feed, Says(feed))
    BY <2>2, LoadedIsSaid DEF Promised
  <2>5. content' \in AcceptableContents
    BY <2>2, <2>3, <2>4 DEF AcceptableContents, AnyFeed
  <2> QED BY <2>5 DEF Store!Next, Store!Replace
<1>2. ASSUME UNCHANGED <<committed, source>>
      PROVE  UNCHANGED content
  BY <1>2
<1>3. ASSUME ~Commit PROVE UNCHANGED <<committed, source>>
  BY <1>3 DEF Next, vars, Begin, Validate, Truncate, ImportAgencies, ImportRoutes,
       ImportServices, ImportStops, ImportShapes, ImportTrips, ImportStopTimes,
       BuildShapeGeometries, Load, End, Kill
<1> QED BY <1>1, <1>2, <1>3

\* Every behaviour of the importer is one of the store: the others read nothing, or
\* of one accepted feed all that its files say.
THEOREM ImporterImplementsStore == Spec => StoreRefined
<1>1. Init => Store!Init
  BY InitIsStore
<1>2. IInv /\ [Next]_vars => [Store!Next]_(Promised(source, Decoded(committed)))
  BY StepIsStore
<1> QED BY <1>1, <1>2, Invariant, PTL DEF Spec, StoreRefined, Store!Spec
=============================================================================
