--------------------------- MODULE MCPlannerDays ---------------------------
(***************************************************************************)
(* One bus a day that goes round through midnight, on days of six units.   *)
(***************************************************************************)
EXTENDS PlannerDays

Event(stop, time) == [stop |-> stop, arrival_time |-> time, departure_time |-> time]

\* The bus is at b and c after midnight, and at a and d in the evening.
MCDatabases ==
  {[service |-> <<"week">>,
    events |-> <<<<Event("a", 3), Event("d", 4), Event("b", 7), Event("c", 8)>>>>,
    calendar |-> [s \in {"week"} |-> [days |-> 0..6, start_date |-> 0, end_date |-> 9]],
    exceptions |-> [x \in {} |-> 0]]}

MCMoments == 6..11

MCStops == {"a", "b", "c", "d"}
=============================================================================
