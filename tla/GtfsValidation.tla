--------------------------- MODULE GtfsValidation ---------------------------
(***************************************************************************)
(* The preflight validation of a GTFS feed, which decides whether the      *)
(* importer may touch the database.                                        *)
(*                                                                         *)
(* A feed gives for each file its rows in order, or Missing.  A row maps   *)
(* columns to cells.  A cell is its text without surrounding blanks, and   *)
(* whether the file has such blanks around it: validation strips them,     *)
(* the importer only sometimes.  Numbers, times and coordinates are        *)
(* integers, a date is a day and a way to spell it, everything else is a   *)
(* name.  Blank is a cell with nothing in it, Junk one that cannot be      *)
(* parsed as what its column holds, NoColumn a column the file has not; of *)
(* those it has, every row has a cell.                                     *)
(*                                                                         *)
(* The program collects every issue; here only whether there is one.       *)
(***************************************************************************)
EXTENDS Integers, FiniteSets, SequencesExt, Sorting

CONSTANTS
  Blank, Junk, NoColumn,  \* cells without a value
  Missing,                \* a file that the feed does not have
  Weekdays                \* the columns of calendar.txt that stand for days

\* What stands for no value is no number.
ASSUME CellsAssumption ==
  Blank \notin Int /\ Junk \notin Int /\ NoColumn \notin Int /\ Blank # Junk

\* The columns that are read of each file.
Columns ==
  [agency |-> {"agency_id", "agency_name", "agency_timezone"},
   routes |-> {"route_id", "agency_id", "route_type", "route_short_name", "route_long_name",
               "route_color"},
   stops |-> {"stop_id", "stop_name", "stop_lat", "stop_lon", "location_type",
              "parent_station"},
   calendar |-> {"service_id", "start_date", "end_date"} \cup Weekdays,
   calendar_dates |-> {"service_id", "date", "exception_type"},
   shapes |-> {"shape_id", "shape_pt_sequence", "shape_pt_lat", "shape_pt_lon",
               "shape_dist_traveled"},
   trips |-> {"trip_id", "route_id", "service_id", "direction_id", "shape_id"},
   stop_times |-> {"trip_id", "stop_id", "stop_sequence", "arrival_time", "departure_time",
                   "pickup_type", "shape_dist_traveled"}]

IsCell(cell) == cell = [text |-> cell.text, pad |-> cell.pad] /\ cell.pad \in BOOLEAN

IsFeed(f) ==
  /\ DOMAIN f = DOMAIN Columns
  /\ \A file \in DOMAIN Columns :
       f[file] # Missing =>
         /\ Len(f[file]) \in Nat /\ DOMAIN f[file] = 1..Len(f[file])
         /\ \A i \in DOMAIN f[file] :
              /\ DOMAIN f[file][i] = Columns[file]
              /\ \A column \in Columns[file] : IsCell(f[file][i][column])

Plain(text) == [text |-> text, pad |-> FALSE]

Padded(text) == [text |-> text, pad |-> TRUE]

Strip(cell) == cell.text

\* Python's "cell or default": only the empty cell gives way, not one of blanks.
OrDefault(cell, default) == IF cell = Plain(Blank) THEN default ELSE Strip(cell)

Given(cell) == Strip(cell) # Blank

IsNumber(cell) == Strip(cell) \in Int

IsTime(cell) == Strip(cell) \in Nat

IsDate(cell) == Strip(cell) \notin {Blank, Junk}

Rows(f, file) == IF f[file] = Missing THEN <<>> ELSE f[file]

RowSet(f, file) == ToSet(Rows(f, file))

FilesPresent(f) ==
  Missing \notin {f.agency, f.routes, f.stops, f.trips, f.stop_times}

Ids(f, file, column) ==
  {Strip(row[column]) : row \in RowSet(f, file)} \ {Blank}

\* No two rows have the same texts in the columns.
Distinct(rows, columns) ==
  \A i, j \in DOMAIN rows :
    (\A c \in columns : Strip(rows[i][c]) = Strip(rows[j][c])) => i = j

UniqueIds(f, file, column) ==
  /\ \A row \in RowSet(f, file) : Given(row[column])
  /\ Distinct(Rows(f, file), {column})

ServiceIds(f) ==
  Ids(f, "calendar", "service_id") \cup Ids(f, "calendar_dates", "service_id")

ServicesDefined(f) ==
  /\ \A row \in RowSet(f, "calendar") \cup RowSet(f, "calendar_dates") :
       Given(row.service_id)
  /\ ServiceIds(f) # {}

RoutesAccepted(f) ==
  \A row \in RowSet(f, "routes") :
    /\ Strip(row.agency_id) \in Ids(f, "agency", "agency_id")
    /\ Given(row.route_short_name) \/ Given(row.route_long_name)
    /\ Strip(row.route_color) # Junk

\* Latitude and longitude; a NaN is refused like one that is out of range.
CoordinatesAccepted(lat, lon) ==
  /\ IsNumber(lat) /\ Strip(lat) \in -90..90
  /\ IsNumber(lon) /\ Strip(lon) \in -180..180

StopsAccepted(f) ==
  \A row \in RowSet(f, "stops") :
    /\ Given(row.stop_name)
    /\ CoordinatesAccepted(row.stop_lat, row.stop_lon)
    /\ OrDefault(row.location_type, 0) \in 0..4
    /\ Given(row.parent_station) =>
         /\ Strip(row.parent_station) \in Ids(f, "stops", "stop_id")
         /\ Strip(row.parent_station) # Strip(row.stop_id)

\* Faulty: only two stops that are each other's parents are found.
FaultyParentsAcyclic(f) ==
  \A r, s \in RowSet(f, "stops") :
    ~(/\ Strip(r.parent_station) = Strip(s.stop_id)
      /\ Strip(s.parent_station) = Strip(r.stop_id))

\* Walking up from a child never comes back: no set of stops leads into itself.
ParentsAcyclic(f) ==
  LET children == {row \in RowSet(f, "stops") : Given(row.parent_station)}
  IN  \A ring \in SUBSET {Strip(row.stop_id) : row \in children} :
        ring # {} =>
          \E row \in children :
            Strip(row.stop_id) \in ring /\ Strip(row.parent_station) \notin ring

CalendarAccepted(f) ==
  /\ Distinct(Rows(f, "calendar"), {"service_id"})
  /\ \A row \in RowSet(f, "calendar") :
       /\ IsDate(row.start_date) /\ IsDate(row.end_date)
       /\ Strip(row.start_date).day <= Strip(row.end_date).day
       /\ \A weekday \in Weekdays : Strip(row[weekday]) \in {0, 1}

\* Exceptions are told apart by the text of their dates.
ExceptionsAccepted(f) ==
  /\ Distinct(Rows(f, "calendar_dates"), {"service_id", "date"})
  /\ \A row \in RowSet(f, "calendar_dates") :
       /\ IsDate(row.date)
       /\ Strip(row.exception_type) \in {1, 2}

DistanceAccepted(cell) == Given(cell) => IsNumber(cell) /\ Strip(cell) >= 0

\* Along the rows (indices) by sequence, distances that are given never fall.
DistancesRise(rows, indices, sequence) ==
  \A i, j \in indices :
    LET from == rows[i].shape_dist_traveled
        to   == rows[j].shape_dist_traveled
    IN  /\ Strip(rows[i][sequence]) < Strip(rows[j][sequence])
        /\ IsNumber(from) /\ IsNumber(to)
        => Strip(from) <= Strip(to)

\* Faulty: any number will do.
FaultySequenceAccepted(cell) == IsNumber(cell)

SequenceAccepted(cell) == IsNumber(cell) /\ Strip(cell) > 0

ShapePointsAccepted(f) ==
  \A row \in RowSet(f, "shapes") :
    /\ Given(row.shape_id)
    /\ SequenceAccepted(row.shape_pt_sequence)
    /\ CoordinatesAccepted(row.shape_pt_lat, row.shape_pt_lon)
    /\ DistanceAccepted(row.shape_dist_traveled)

\* The indices of the rows that have the id in the column, and a sequence number.
Group(rows, column, id, sequence) ==
  {i \in DOMAIN rows : Strip(rows[i][column]) = id /\ IsNumber(rows[i][sequence])}

\* Their order.
BySequence(rows, indices, sequence) ==
  {p \in indices \X indices : Strip(rows[p[1]][sequence]) < Strip(rows[p[2]][sequence])}

ShapesAccepted(f) ==
  LET rows == Rows(f, "shapes")
  IN  \A id \in Ids(f, "shapes", "shape_id") :
        LET points == Group(rows, "shape_id", id, "shape_pt_sequence")
        IN  /\ Cardinality({Strip(rows[i].shape_pt_sequence) : i \in points}) = Cardinality(points)
            /\ Cardinality(points) >= 2
            /\ DistancesRise(rows, points, "shape_pt_sequence")

TripsAccepted(f) ==
  \A row \in RowSet(f, "trips") :
    /\ Strip(row.route_id) \in Ids(f, "routes", "route_id")
    /\ Strip(row.service_id) \in ServiceIds(f)
    /\ Strip(row.direction_id) \in {Blank, 0, 1}
    /\ Given(row.shape_id) => Strip(row.shape_id) \in Ids(f, "shapes", "shape_id")

StopTimesAccepted(f) ==
  \A row \in RowSet(f, "stop_times") :
    /\ Strip(row.trip_id) \in Ids(f, "trips", "trip_id")
    /\ Strip(row.stop_id) \in Ids(f, "stops", "stop_id")
    /\ SequenceAccepted(row.stop_sequence)
    /\ IsTime(row.arrival_time) /\ IsTime(row.departure_time)
    /\ Strip(row.arrival_time) <= Strip(row.departure_time)
    /\ Strip(row.pickup_type) \in {Blank, 0, 1, 2, 3}
    /\ DistanceAccepted(row.shape_dist_traveled)

\* The events of each trip by sequence: two at least, one per number, and a bus
\* never arrives before it has left the stop before.
TripEventsAccepted(f) ==
  LET rows == Rows(f, "stop_times")
  IN  \A id \in Ids(f, "trips", "trip_id") :
        LET events == Group(rows, "trip_id", id, "stop_sequence")
        IN  /\ Cardinality(events) >= 2
            /\ Cardinality({Strip(rows[i].stop_sequence) : i \in events}) = Cardinality(events)
            /\ \A i, j \in events :
                 Strip(rows[i].stop_sequence) < Strip(rows[j].stop_sequence) =>
                   Strip(rows[i].departure_time) <= Strip(rows[j].arrival_time)
            /\ DistancesRise(rows, events, "stop_sequence")

ValidateFeed(f) ==
  /\ FilesPresent(f)
  /\ UniqueIds(f, "agency", "agency_id")
  /\ UniqueIds(f, "routes", "route_id")
  /\ UniqueIds(f, "stops", "stop_id")
  /\ UniqueIds(f, "trips", "trip_id")
  /\ ServicesDefined(f)
  /\ RoutesAccepted(f)
  /\ StopsAccepted(f) /\ ParentsAcyclic(f)
  /\ CalendarAccepted(f) /\ ExceptionsAccepted(f)
  /\ ShapePointsAccepted(f) /\ ShapesAccepted(f)
  /\ TripsAccepted(f)
  /\ StopTimesAccepted(f) /\ TripEventsAccepted(f)

\* What validation hands to the importer: each trip's stops in order.
TripStopIds(f) ==
  LET rows       == Rows(f, "stop_times")
      events(id) == Group(rows, "trip_id", id, "stop_sequence")
      order(id)  == Sorted(events(id), BySequence(rows, events(id), "stop_sequence"))
  IN  [id \in Ids(f, "trips", "trip_id") |->
        [n \in 1..Cardinality(events(id)) |-> Strip(rows[order(id)[n]].stop_id)]]
=============================================================================
