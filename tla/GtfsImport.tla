----------------------------- MODULE GtfsImport -----------------------------
(***************************************************************************)
(* The importer: scripts/import_gtfs.py validates a feed and replaces the  *)
(* content of the database in one transaction, and the queries that read   *)
(* the route patterns it derives.                                          *)
(*                                                                         *)
(* A table is a sequence of rows, the index of a row is its id: TRUNCATE   *)
(* restarts the identities.  Ids of the feed are kept as the cell the      *)
(* importer reads, with blanks around it if the file has them, since that  *)
(* is what its lookup maps are keyed by.  What sessions see of each other  *)
(* is in FeedSessions; here the others see `committed`.                    *)
(***************************************************************************)
EXTENDS GtfsValidation

CONSTANTS
  Feeds,       \* Feeds[n]: what the n-th run of the script may find; bounds the runs
  ColumnMax,   \* the largest value of an integer column
  SmallMax,    \* and of a smallint column
  Null         \* SQL's NULL, Python's None

ASSUME SmallAssumption == SmallMax \in Int

ASSUME FeedsAssumption ==
  /\ Len(Feeds) \in Nat /\ DOMAIN Feeds = 1..Len(Feeds)
  /\ \A n \in DOMAIN Feeds : \A f \in Feeds[n] : IsFeed(f)

\* Null is no number, no feed, and nothing that validation hands on.
ASSUME NullAssumption ==
  /\ Null \notin Int /\ Null # Junk
  /\ \A n \in DOMAIN Feeds : \A f \in Feeds[n] :
       f # Null /\ (ValidateFeed(f) => TripStopIds(f) # Null)

VARIABLES
  committed,   \* the tables as other sessions read them
  tables,      \* the tables as the importer's transaction has them
  feed,        \* the feed of the run
  validated,   \* the stops of each trip, as validation has read them
  phase,       \* what the script does next
  runs,        \* runs begun so far
  outcome,     \* how the last run ended
  source       \* history: the feed that was last loaded

vars == <<committed, tables, feed, validated, phase, runs, outcome, source>>

Phases == {"idle", "validate", "truncate", "agencies", "routes", "services", "stops",
           "shapes", "trips", "stop_times", "geometries", "commit"}

Outcomes == {"none", "rejected", "failed", "killed", "loaded"}

EmptyTables ==
  [agency |-> <<>>, routes |-> <<>>, services |-> <<>>, calendar |-> <<>>,
   calendar_dates |-> <<>>, stops |-> <<>>, shapes |-> <<>>, shape_points |-> <<>>,
   route_patterns |-> <<>>, trips |-> <<>>, stop_times |-> <<>>]

Init ==
  /\ committed = EmptyTables /\ tables = EmptyTables
  /\ feed = Null /\ validated = Null /\ source = Null
  /\ phase = "idle" /\ runs = 0 /\ outcome = "none"

-----------------------------------------------------------------------------
(* The database *)

Unique(rows, columns) ==
  \A i, j \in DOMAIN rows : (\A c \in columns : rows[i][c] = rows[j][c]) => i = j

IsSmall(number) == number \in -SmallMax - 1..SmallMax

\* Every row refers to rows that are there.
ForeignKeysHold(t) ==
  /\ \A row \in ToSet(t.routes) : row.agency_id \in DOMAIN t.agency
  /\ \A row \in ToSet(t.stops) : row.parent_station_id \in DOMAIN t.stops \cup {Null}
  /\ \A row \in ToSet(t.calendar) \cup ToSet(t.calendar_dates) :
       row.service_id \in DOMAIN t.services
  /\ \A row \in ToSet(t.shape_points) : row.shape_id \in DOMAIN t.shapes
  /\ \A row \in ToSet(t.route_patterns) \cup ToSet(t.trips) :
       row.route_id \in DOMAIN t.routes /\ row.shape_id \in DOMAIN t.shapes \cup {Null}
  /\ \A row \in ToSet(t.trips) :
       /\ row.service_id \in DOMAIN t.services
       /\ row.route_pattern_id \in DOMAIN t.route_patterns
  /\ \A row \in ToSet(t.stop_times) :
       row.trip_id \in DOMAIN t.trips /\ row.stop_id \in DOMAIN t.stops

\* Keys and column types of the schema.
TablesHold(t) ==
  /\ ForeignKeysHold(t)
  /\ \A table \in {"agency", "routes", "services", "stops", "shapes", "trips"} :
       Unique(t[table], {"gtfs_id"})
  /\ Unique(t.calendar, {"service_id"})
  /\ Unique(t.calendar_dates, {"service_id", "date"})
  /\ Unique(t.shape_points, {"shape_id", "pt_sequence"})
  /\ Unique(t.route_patterns, {"route_id", "direction_id", "shape_id", "stops"})
  /\ Unique(t.stop_times, {"trip_id", "stop_sequence"})
  /\ \A route \in ToSet(t.routes) : IsSmall(route.route_type)
  /\ \A point \in ToSet(t.shape_points) : point.pt_sequence <= ColumnMax
  /\ \A event \in ToSet(t.stop_times) : event.stop_sequence <= ColumnMax

\* The checks that migration 0002 adds.
ChecksHold(t) ==
  /\ \A route \in ToSet(t.routes) : route.color # Junk
  /\ \A i \in DOMAIN t.stops :
       /\ t.stops[i].lat \in -90..90 /\ t.stops[i].lon \in -180..180
       /\ t.stops[i].location_type \in 0..4
       /\ t.stops[i].parent_station_id # i
  /\ \A row \in ToSet(t.calendar) : row.start_date <= row.end_date
  /\ \A point \in ToSet(t.shape_points) :
       point.pt_sequence > 0 /\ (point.dist = Null \/ point.dist >= 0)
  /\ \A event \in ToSet(t.stop_times) :
       /\ event.stop_sequence > 0
       /\ 0 <= event.arrival_time /\ event.arrival_time <= event.departure_time
       /\ event.dist = Null \/ event.dist >= 0

\* The importer's maps from the ids of the feed to those of the table.
Has(table, gtfs_id) == \E i \in DOMAIN table : table[i].gtfs_id = gtfs_id

IdOf(table, gtfs_id) == CHOOSE i \in DOMAIN table : table[i].gtfs_id = gtfs_id

Optional(cell) == IF Given(cell) THEN Strip(cell) ELSE Null

\* Rows are inserted, or read, one after the other.
Map(rows, RowOf(_)) == [i \in DOMAIN rows |-> RowOf(rows[i])]

-----------------------------------------------------------------------------
(* A run of the script *)

Begin ==
  /\ phase = "idle" /\ runs < Len(Feeds)
  /\ \E f \in Feeds[runs + 1] : feed' = f
  /\ phase' = "validate" /\ runs' = runs + 1 /\ outcome' = "none"
  /\ UNCHANGED <<committed, tables, validated, source>>

\* Faulty: the session is kept, with what it has not committed.
FaultyEnd(how) ==
  /\ phase' = "idle" /\ outcome' = how /\ validated' = Null
  /\ UNCHANGED <<committed, tables, feed, runs, source>>

\* The script ends, and its session rolls back what it has not committed.
End(how) ==
  /\ phase' = "idle" /\ outcome' = how
  /\ tables' = committed /\ validated' = Null
  /\ UNCHANGED <<committed, feed, runs, source>>

Validate ==
  /\ phase = "validate"
  /\ IF ValidateFeed(feed)
       THEN /\ validated' = TripStopIds(feed) /\ phase' = "truncate"
            /\ UNCHANGED <<committed, tables, feed, runs, outcome, source>>
       ELSE End("rejected")

\* Faulty: the truncation commits.
FaultyTruncate ==
  /\ phase = "truncate" /\ phase' = "agencies"
  /\ tables' = EmptyTables /\ committed' = EmptyTables
  /\ UNCHANGED <<feed, validated, runs, outcome, source>>

Truncate ==
  /\ phase = "truncate" /\ phase' = "agencies" /\ tables' = EmptyTables
  /\ UNCHANGED <<committed, feed, validated, runs, outcome, source>>

\* A part of the load: if nothing raises and the schema holds, the next part.
Load(part, readable, after, next) ==
  /\ phase = part
  /\ LET loaded == after
     IN  IF readable /\ TablesHold(loaded) /\ ChecksHold(loaded)
           THEN /\ tables' = loaded /\ phase' = next
                /\ UNCHANGED <<committed, feed, validated, runs, outcome, source>>
           ELSE End("failed")

ImportAgencies ==
  LET rows == Rows(feed, "agency")
  IN  Load("agencies",
           \A row \in ToSet(rows) :
             NoColumn \notin {Strip(row.agency_name), Strip(row.agency_timezone)},
           [tables EXCEPT !.agency = Map(rows, LAMBDA row : [gtfs_id |-> row.agency_id])],
           "routes")

ImportRoutes ==
  LET rows == Rows(feed, "routes")
  IN  Load("routes",
           \A row \in ToSet(rows) :
             Has(tables.agency, row.agency_id) /\ OrDefault(row.route_type, 3) \in Int,
           [tables EXCEPT !.routes = Map(rows, LAMBDA row :
             [gtfs_id    |-> row.route_id,
              agency_id  |-> IdOf(tables.agency, row.agency_id),
              route_type |-> OrDefault(row.route_type, 3),
              color      |-> Optional(row.route_color)])],
           "services")

\* A service for each id in either file, as it is spelled there; a day runs
\* only if its cell is exactly "1".
ImportServices ==
  LET calendar   == Rows(feed, "calendar")
      exceptions == Rows(feed, "calendar_dates")
      services   == Map(SetToSeq({row.service_id : row \in ToSet(calendar) \cup ToSet(exceptions)}),
                        LAMBDA id : [gtfs_id |-> id])
  IN  Load("services", TRUE,
           [tables EXCEPT
             !.services = services,
             !.calendar = Map(calendar, LAMBDA row :
               [service_id |-> IdOf(services, row.service_id),
                days       |-> {day \in Weekdays : row[day] = Plain(1)},
                start_date |-> Strip(row.start_date).day,
                end_date   |-> Strip(row.end_date).day]),
             !.calendar_dates = Map(exceptions, LAMBDA row :
               [service_id     |-> IdOf(services, row.service_id),
                date           |-> Strip(row.date).day,
                exception_type |-> Strip(row.exception_type)])],
           "stops")

\* Parents are set in a second pass: a station may come after its stops.
ImportStops ==
  LET rows == Rows(feed, "stops")
      inserted == Map(rows, LAMBDA row :
        [gtfs_id |-> row.stop_id, lat |-> Strip(row.stop_lat), lon |-> Strip(row.stop_lon),
         location_type |-> OrDefault(row.location_type, 0), parent_station_id |-> Null])
      ParentOf(row) == IF Given(row.parent_station)
                         THEN IdOf(inserted, row.parent_station) ELSE Null
  IN  Load("stops",
           \A row \in ToSet(rows) :
             Given(row.parent_station) => Has(inserted, row.parent_station),
           [tables EXCEPT !.stops =
             [i \in DOMAIN rows |-> [inserted[i] EXCEPT !.parent_station_id = ParentOf(rows[i])]]],
           "shapes")

ImportShapes ==
  LET rows   == Rows(feed, "shapes")
      shapes == Map(SetToSeq({row.shape_id : row \in ToSet(rows)}),
                    LAMBDA id : [gtfs_id |-> id, geom |-> Null])
  IN  Load("shapes", TRUE,
           [tables EXCEPT
             !.shapes = shapes,
             !.shape_points = Map(rows, LAMBDA row :
               [shape_id    |-> IdOf(shapes, row.shape_id),
                pt_sequence |-> Strip(row.shape_pt_sequence),
                point       |-> <<Strip(row.shape_pt_lon), Strip(row.shape_pt_lat)>>,
                dist        |-> Optional(row.shape_dist_traveled)])],
           "trips")

\* A shape that is not found under the stripped id is left out.
ShapeOf(row) ==
  LET id == Plain(Strip(row.shape_id))
  IN  IF Given(row.shape_id) /\ Has(tables.shapes, id) THEN IdOf(tables.shapes, id) ELSE Null

\* Faulty: the direction does not count.
FaultyPatternKey(row) ==
  [route_id     |-> IdOf(tables.routes, row.route_id),
   direction_id |-> Null,
   shape_id     |-> ShapeOf(row),
   stops        |-> Map(validated[row.trip_id.text], LAMBDA id : IdOf(tables.stops, Plain(id)))]

\* What tells patterns apart; the stops are stored twice, as the signature and
\* in route_pattern_stops.
PatternKey(row) ==
  [route_id     |-> IdOf(tables.routes, row.route_id),
   direction_id |-> Optional(row.direction_id),
   shape_id     |-> ShapeOf(row),
   stops        |-> Map(validated[row.trip_id.text], LAMBDA id : IdOf(tables.stops, Plain(id)))]

\* The trips whose key is new.
FirstTrips(rows) ==
  {i \in DOMAIN rows : \A j \in 1..i - 1 : PatternKey(rows[j]) # PatternKey(rows[i])}

\* A pattern for each key, in the order of the trips that bring them.
PatternsOf(rows) ==
  LET firsts == FirstTrips(rows)
      order  == Sorted(firsts, {p \in firsts \X firsts : p[1] < p[2]})
  IN  [n \in 1..Cardinality(firsts) |-> PatternKey(rows[order[n]])]

ImportTrips ==
  LET rows     == Rows(feed, "trips")
      patterns == PatternsOf(rows)
  IN  Load("trips",
           \A row \in ToSet(rows) :
             /\ ~row.trip_id.pad
             /\ \A n \in DOMAIN validated[row.trip_id.text] :
                  Has(tables.stops, Plain(validated[row.trip_id.text][n]))
             /\ Has(tables.routes, row.route_id)
             /\ Has(tables.services, row.service_id),
           [tables EXCEPT
             !.route_patterns = patterns,
             !.trips = Map(rows, LAMBDA row :
               [gtfs_id          |-> row.trip_id,
                route_id         |-> IdOf(tables.routes, row.route_id),
                service_id       |-> IdOf(tables.services, row.service_id),
                shape_id         |-> ShapeOf(row),
                direction_id     |-> Optional(row.direction_id),
                route_pattern_id |-> CHOOSE p \in DOMAIN patterns :
                                       patterns[p] = PatternKey(row)])],
           "stop_times")

ImportStopTimes ==
  LET rows == Rows(feed, "stop_times")
  IN  Load("stop_times",
           \A row \in ToSet(rows) :
             /\ Has(tables.trips, row.trip_id) /\ Has(tables.stops, row.stop_id)
             /\ OrDefault(row.pickup_type, 0) \in Int,
           [tables EXCEPT !.stop_times = Map(rows, LAMBDA row :
             [trip_id        |-> IdOf(tables.trips, row.trip_id),
              stop_id        |-> IdOf(tables.stops, row.stop_id),
              stop_sequence  |-> Strip(row.stop_sequence),
              arrival_time   |-> Strip(row.arrival_time),
              departure_time |-> Strip(row.departure_time),
              dist           |-> Optional(row.shape_dist_traveled)])],
           "geometries")

\* The values of the rows of a table in the set of indices, by sequence number.
InOrder(rows, indices, sequence, column) ==
  LET order == Sorted(indices, {p \in indices \X indices :
                                  rows[p[1]][sequence] < rows[p[2]][sequence]})
  IN  [n \in 1..Cardinality(indices) |-> rows[order[n]][column]]

BuildShapeGeometries ==
  LET points(shape) == {i \in DOMAIN tables.shape_points :
                          tables.shape_points[i].shape_id = shape}
  IN  Load("geometries", TRUE,
           [tables EXCEPT !.shapes = [s \in DOMAIN tables.shapes |->
             [tables.shapes[s] EXCEPT
                !.geom = InOrder(tables.shape_points, points(s), "pt_sequence", "point")]]],
           "commit")

Commit ==
  /\ phase = "commit"
  /\ committed' = tables /\ source' = feed
  /\ phase' = "idle" /\ outcome' = "loaded" /\ validated' = Null
  /\ UNCHANGED <<tables, feed, runs>>

\* The process is killed, or the connection is lost.
Kill == phase # "idle" /\ End("killed")

Next ==
  \/ Begin \/ Validate \/ Truncate
  \/ ImportAgencies \/ ImportRoutes \/ ImportServices \/ ImportStops \/ ImportShapes
  \/ ImportTrips \/ ImportStopTimes \/ BuildShapeGeometries
  \/ Commit \/ Kill

Spec == Init /\ [][Next]_vars

-----------------------------------------------------------------------------
(* What a feed says, in its own ids *)

\* Nothing in the feed depends on how it is spelled: no blanks around a value,
\* every date of a service spelled one way, numbers that fit their columns, and
\* the columns that validation does not look at in order.
Clean(f) ==
  LET calendar_dates == Rows(f, "calendar_dates")
  IN  /\ \A file \in DOMAIN f : \A row \in RowSet(f, file) :
           \A column \in DOMAIN row : ~row[column].pad
      /\ \A row \in RowSet(f, "agency") :
           NoColumn \notin {Strip(row.agency_name), Strip(row.agency_timezone)}
      /\ \A row \in RowSet(f, "routes") : IsSmall(OrDefault(row.route_type, 3))
      /\ \A i, j \in DOMAIN calendar_dates :
           /\ Strip(calendar_dates[i].service_id) = Strip(calendar_dates[j].service_id)
           /\ Strip(calendar_dates[i].date).day = Strip(calendar_dates[j].date).day
           => i = j
      /\ \A row \in RowSet(f, "shapes") : Strip(row.shape_pt_sequence) <= ColumnMax
      /\ \A row \in RowSet(f, "stop_times") : Strip(row.stop_sequence) <= ColumnMax

\* The rows of a file that have the id in the column, by sequence number.
Ordered(rows, column, id, sequence) ==
  LET indices == Group(rows, column, id, sequence)
      order   == Sorted(indices, BySequence(rows, indices, sequence))
  IN  [n \in 1..Cardinality(indices) |-> rows[order[n]]]

Says(f) ==
  [routes |-> {[route |-> Strip(row.route_id), agency |-> Strip(row.agency_id)] :
                 row \in RowSet(f, "routes")},
   stops |-> {[stop |-> Strip(row.stop_id), parent |-> Optional(row.parent_station)] :
                row \in RowSet(f, "stops")},
   calendar |-> {[service |-> Strip(row.service_id),
                  days    |-> {day \in Weekdays : Strip(row[day]) = 1},
                  dates   |-> <<Strip(row.start_date).day, Strip(row.end_date).day>>] :
                   row \in RowSet(f, "calendar")},
   exceptions |-> {[service |-> Strip(row.service_id), date |-> Strip(row.date).day,
                    type    |-> Strip(row.exception_type)] :
                     row \in RowSet(f, "calendar_dates")},
   trips |-> {[trip      |-> Strip(row.trip_id), route |-> Strip(row.route_id),
               service   |-> Strip(row.service_id),
               direction |-> Optional(row.direction_id),
               line      |-> IF Given(row.shape_id)
                               THEN Map(Ordered(Rows(f, "shapes"), "shape_id",
                                                Strip(row.shape_id), "shape_pt_sequence"),
                                        LAMBDA point : <<Strip(point.shape_pt_lon),
                                                         Strip(point.shape_pt_lat)>>)
                               ELSE Null,
               events    |-> Map(Ordered(Rows(f, "stop_times"), "trip_id",
                                         Strip(row.trip_id), "stop_sequence"),
                                 LAMBDA event : <<Strip(event.stop_id),
                                                  Strip(event.arrival_time),
                                                  Strip(event.departure_time)>>)] :
                row \in RowSet(f, "trips")}]

\* The indices of a trip's stop events.
EventsOf(t, trip) == {i \in DOMAIN t.stop_times : t.stop_times[i].trip_id = trip}

\* The hops the planner reads: each stop event of a trip with the next one.
Hops(t) ==
  LET indices       == DOMAIN t.stop_times
      event(i)      == t.stop_times[i]
      before(i, j)  == /\ event(i).trip_id = event(j).trip_id
                       /\ event(i).stop_sequence < event(j).stop_sequence
      follows(i, j) == before(i, j) /\ \A k \in indices : ~(before(i, k) /\ before(k, j))
  IN  {[dep |-> event(p[1]).stop_id, arr |-> event(p[2]).stop_id,
        depTime |-> event(p[1]).departure_time, arrTime |-> event(p[2]).arrival_time,
        trip |-> event(p[1]).trip_id, seq |-> event(p[1]).stop_sequence] :
         p \in {q \in indices \X indices : follows(q[1], q[2])}}

\* What the tables say, in the ids of the feed.
Decoded(t) ==
  LET Name(table, id) == Strip(table[id].gtfs_id)
      Column(trip, column) == InOrder(t.stop_times, EventsOf(t, trip), "stop_sequence", column)
  IN  [routes |-> {[route |-> Strip(row.gtfs_id), agency |-> Name(t.agency, row.agency_id)] :
                     row \in ToSet(t.routes)},
       stops |-> {[stop   |-> Strip(row.gtfs_id),
                   parent |-> IF row.parent_station_id = Null THEN Null
                              ELSE Name(t.stops, row.parent_station_id)] :
                    row \in ToSet(t.stops)},
       calendar |-> {[service |-> Name(t.services, row.service_id), days |-> row.days,
                      dates   |-> <<row.start_date, row.end_date>>] : row \in ToSet(t.calendar)},
       exceptions |-> {[service |-> Name(t.services, row.service_id), date |-> row.date,
                        type    |-> row.exception_type] : row \in ToSet(t.calendar_dates)},
       trips |-> {[trip      |-> Strip(t.trips[i].gtfs_id),
                   route     |-> Name(t.routes, t.trips[i].route_id),
                   service   |-> Name(t.services, t.trips[i].service_id),
                   direction |-> t.trips[i].direction_id,
                   line      |-> IF t.trips[i].shape_id = Null THEN Null
                                 ELSE t.shapes[t.trips[i].shape_id].geom,
                   events    |-> [n \in 1..Cardinality(EventsOf(t, i)) |->
                                    <<Name(t.stops, Column(i, "stop_id")[n]),
                                      Column(i, "arrival_time")[n],
                                      Column(i, "departure_time")[n]>>]] :
                    i \in DOMAIN t.trips}]

\* Of a feed that is not clean nothing is promised.
Promised(f, said) == IF f = Null \/ Clean(f) THEN said ELSE Junk

AcceptableContents ==
  {Promised(f, Says(f)) :
     f \in {g \in UNION {Feeds[n] : n \in DOMAIN Feeds} : ValidateFeed(g)}}

Store == INSTANCE FeedStore WITH
  content  <- Promised(source, Decoded(committed)),
  Contents <- AcceptableContents,
  Nothing  <- Decoded(EmptyTables)

-----------------------------------------------------------------------------
(* Properties *)

\* The states of the script; between two runs nothing is left of a transaction.
TypeOK ==
  /\ phase \in Phases /\ outcome \in Outcomes /\ runs \in 0..Len(Feeds)
  /\ DOMAIN tables = DOMAIN EmptyTables /\ DOMAIN committed = DOMAIN EmptyTables
  /\ (validated = Null) <=> (phase \in {"idle", "validate"})
  /\ phase = "idle" => tables = committed

\* What validation accepts can be loaded: no key is missing and no constraint of
\* the schema fails, unless a cell is such as validation does not look for: blanks,
\* a column that is missing, a number too large, a date spelled in two ways
\* (gtfs_validation.py 1, "preflight").
FailuresExplained == outcome = "failed" => ~Clean(feed)

\* The timetable in the database is one that the planner can scan (Csa's
\* TimetablesAssumption): of its hops none ends before it begins, the numbers of a
\* trip's hops tell them apart and rise with the time, gaps or not.  Every trip has
\* two events at least and runs by a calendar or by dates; stops lead up to a station
\* without a circle.
TimetableSound ==
  LET t == committed
  IN  /\ Hops(t) \subseteq [dep : DOMAIN t.stops, arr : DOMAIN t.stops, depTime : Int, arrTime : Int,
                             trip : DOMAIN t.trips, seq : Nat]
      /\ \A c \in Hops(t) : c.depTime <= c.arrTime
      /\ \A c, d \in Hops(t) : c.trip = d.trip =>
           /\ c.seq = d.seq => c = d
           /\ c.seq < d.seq => c.arrTime <= d.depTime
      /\ \A trip \in DOMAIN t.trips :
           /\ Cardinality(EventsOf(t, trip)) >= 2
           /\ \E row \in ToSet(t.calendar) \cup ToSet(t.calendar_dates) :
                row.service_id = t.trips[trip].service_id
      /\ \A ring \in SUBSET DOMAIN t.stops :
           ring # {} => \E stop \in ring : t.stops[stop].parent_station_id \notin ring

\* The database implements the store: whatever is killed, refused or fails, the
\* others read the old feed or the new one, and of the new one exactly what its
\* files say, through every id that was replaced on the way
\* (gtfs_import_service.py 6-9, "a GTFS feed is a coherent snapshot").
StoreRefined == Store!Spec
=============================================================================
