--------------------------- MODULE MCRouteQueries ---------------------------
(***************************************************************************)
(* A small feed, and the feeds that differ from it in a cell of those      *)
(* listed, or in two, of one file or one of them accepted by itself.       *)
(***************************************************************************)
EXTENDS RouteQueries

Date(day) == Plain([day |-> day, spelled |-> "in full"])

Stop(id, parent) ==
  [stop_id |-> Plain(id), stop_name |-> Plain(id), stop_lat |-> Plain(42), stop_lon |-> Plain(21),
   location_type |-> Plain(Blank), parent_station |-> Plain(parent)]

Point(sequence, lat, dist) ==
  [shape_id |-> Plain("line"), shape_pt_sequence |-> Plain(sequence), shape_pt_lat |-> Plain(lat),
   shape_pt_lon |-> Plain(21), shape_dist_traveled |-> Plain(dist)]

Trip(id, service, direction, shape) ==
  [trip_id |-> Plain(id), route_id |-> Plain("5"), service_id |-> Plain(service),
   direction_id |-> Plain(direction), shape_id |-> Plain(shape)]

Event(trip, sequence, stop, arrival, departure) ==
  [trip_id |-> Plain(trip), stop_id |-> Plain(stop), stop_sequence |-> Plain(sequence),
   arrival_time |-> Plain(arrival), departure_time |-> Plain(departure),
   pickup_type |-> Plain(Blank), shape_dist_traveled |-> Plain(Blank)]

\* Two trips of one pattern and one of another; rows out of order, gaps in the
\* sequences, a station after its stop, a service that has only dates.
Base ==
  [agency |-> <<[agency_id |-> Plain("jsp"), agency_name |-> Plain("JSP"),
                 agency_timezone |-> Plain("Skopje")]>>,
   routes |-> <<[route_id |-> Plain("5"), agency_id |-> Plain("jsp"), route_type |-> Plain(Blank),
                 route_short_name |-> Plain("5"), route_long_name |-> Plain(Blank),
                 route_color |-> Plain(Blank)]>>,
   stops |-> <<Stop("a", "c"), Stop("b", Blank), Stop("c", Blank)>>,
   calendar |-> <<[service_id |-> Plain("week"), start_date |-> Date(1), end_date |-> Date(1),
                   monday |-> Plain(1), sunday |-> Plain(0)]>>,
   calendar_dates |-> <<[service_id |-> Plain("week"), date |-> Date(1), exception_type |-> Plain(2)],
                        [service_id |-> Plain("feast"), date |-> Date(1), exception_type |-> Plain(1)]>>,
   shapes |-> <<Point(2, 43, 1), Point(1, 42, Blank)>>,
   trips |-> <<Trip("t", "week", 0, "line"), Trip("u", "feast", 0, "line"),
               Trip("v", "week", Blank, Blank)>>,
   stop_times |-> <<Event("t", 3, "b", 2, 2), Event("t", 1, "a", 0, 1),
                    Event("u", 1, "a", 3, 3), Event("u", 2, "b", 4, 4),
                    Event("v", 1, "b", 0, 0), Event("v", 2, "c", 1, 1), Event("v", 3, "b", 2, 2)>>]

\* For each file, row and column the cells to put there.
Edit(file, row, columns, cells) ==
  {[file |-> file, row |-> row, column |-> column, cell |-> cell] : column \in columns, cell \in cells}

Cells(texts) == {Plain(text) : text \in texts}

Edits == UNION {
  Edit("agency", 1, {"agency_id"}, {Padded("jsp"), Plain(Blank)}),
  Edit("agency", 1, {"agency_name", "agency_timezone"}, {Plain(NoColumn)}),
  Edit("routes", 1, {"agency_id"}, {Padded("jsp"), Plain("x")}),
  Edit("routes", 1, {"route_type"}, {Padded(Blank), Plain(9), Plain(10), Plain(-11)}),
  Edit("routes", 1, {"route_short_name"}, {Plain(Blank)}),
  Edit("routes", 1, {"route_color"}, {Plain(Junk)}),
  Edit("stops", 1, {"stop_id"}, {Padded("a"), Plain("b")}),
  Edit("stops", 2, {"parent_station"}, Cells({"a", "b", "x"}) \cup {Padded("c")}),
  Edit("stops", 3, {"parent_station"}, Cells({"a", "b"})),
  Edit("stops", 2, {"stop_lat"}, Cells({91, Junk})),
  Edit("stops", 2, {"location_type"}, {Plain(5), Padded(Blank)}),
  Edit("calendar", 1, {"service_id"}, {Padded("week"), Plain("feast")}),
  Edit("calendar", 1, {"monday"}, {Padded(1), Plain(0), Plain(Blank)}),
  Edit("calendar", 1, {"start_date"}, {Date(2)}),
  Edit("calendar_dates", 1, {"service_id"}, {Plain("feast"), Padded("week")}),
  Edit("calendar_dates", 1, {"date"}, {Plain([day |-> 1, spelled |-> "short"]), Date(2)}),
  Edit("calendar_dates", 2, {"exception_type"}, Cells({3})),
  Edit("shapes", 1, {"shape_id"}, {Padded("line"), Plain("other")}),
  Edit("shapes", 2, {"shape_pt_sequence"}, Cells({0, 2, 5, 100, Junk})),
  Edit("shapes", 2, {"shape_dist_traveled"}, Cells({0, 2})),
  Edit("trips", 1, {"trip_id"}, {Padded("t")}),
  Edit("trips", 1, {"direction_id"}, {Plain(1), Plain(Blank)}),
  Edit("trips", 3, {"direction_id"}, {Plain(0), Plain(2)}),
  Edit("trips", 2, {"shape_id"}, {Plain(Blank), Padded("line"), Plain("x")}),
  Edit("trips", 2, {"service_id"}, {Padded("feast"), Plain("week"), Plain("x")}),
  Edit("stop_times", 1, {"stop_sequence"}, Cells({0, 1, 100, Junk})),
  Edit("stop_times", 1, {"arrival_time"}, Cells({0, 1, -1})),
  Edit("stop_times", 2, {"departure_time"}, Cells({2, 3, Blank})),
  Edit("stop_times", 3, {"stop_id"}, {Plain("c"), Padded("a"), Plain("x")}),
  Edit("stop_times", 4, {"trip_id"}, {Plain("t"), Padded("u")}),
  Edit("stop_times", 4, {"pickup_type"}, {Padded(Blank), Plain(4), Plain(1)})}

Edited(f, e) == [f EXCEPT ![e.file][e.row][e.column] = e.cell]

\* Edits that validation accepts, one by one.
Accepted == {e \in Edits : ValidateFeed(Edited(Base, e))}

FeedsByRun == <<
  {Base},
  {Edited(Base, e) : e \in Edits}
    \cup {Edited(Edited(Base, d), e) : d \in Edits, e \in Accepted}
    \cup {Edited(Edited(Base, p[1]), p[2]) :
            p \in {q \in Edits \X Edits : q[1].file = q[2].file}}
    \cup {[Base EXCEPT ![file] = Missing] : file \in DOMAIN Base}>>

\* TLC keeps the value of a definition, not that of a constant's replacement.
MCFeeds == FeedsByRun

MCWeekdays == {"monday", "sunday"}
=============================================================================
