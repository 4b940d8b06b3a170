--------------------------- MODULE MCServiceDays ---------------------------
(***************************************************************************)
(* Timetables of a few trips on days of six time units.                    *)
(***************************************************************************)
EXTENDS ServiceDays, TLC

Event(stop, arrival, departure) ==
  [stop |-> stop, arrival_time |-> arrival, departure_time |-> departure]

\* A morning trip; one that stands at a stop until midnight and goes on; one past
\* midnight altogether; one that takes a day and more; one that comes back to its
\* first stop; one of which validation lets through that it leaves two days later.
Morning == <<Event("a", 1, 1), Event("b", 3, 3)>>
Night   == <<Event("a", 4, 4), Event("b", 5, 6), Event("c", 8, 8)>>
Late    == <<Event("b", 7, 7), Event("c", 9, 9), Event("b", 10, 10)>>
Long    == <<Event("a", 1, 1), Event("c", 8, 8)>>
Circle  == <<Event("a", 0, 0), Event("b", 2, 2), Event("a", 4, 5), Event("b", 6, 6)>>
Remote  == <<Event("a", 12, 13), Event("b", 14, 14)>>

TripSets == {<<Morning, Night, Late>>, <<Night, Night, Circle>>, <<Long, Morning, Night>>,
             <<Late, Remote, Circle>>}

\* The first trip runs on a service of weekdays, the others on one for which
\* there may be no calendar at all.
Calendars ==
  {[s \in {"week"} |-> [days |-> 0..6, start_date |-> 1, end_date |-> 2]],
   [s \in {"week", "feast"} |-> [days |-> IF s = "week" THEN {0, 1, 3} ELSE {2},
                                start_date |-> 0, end_date |-> 3]],
   [s \in {"week", "feast"} |-> [days |-> 0..6, start_date |-> 0, end_date |-> 9]]}

Exceptions ==
  {<<>>, (<<"week", 1>> :> 2) @@ (<<"feast", 1>> :> 1), (<<"feast", 2>> :> 2) @@ (<<"week", 2>> :> 1)}

MCDatabases ==
  {[service |-> <<"week", "feast", "feast">>, events |-> trips,
    calendar |-> calendar, exceptions |-> exceptions] :
     trips \in TripSets, calendar \in Calendars, exceptions \in Exceptions}

MCWindows == {1, 4, 6}
=============================================================================
