---------------------------- MODULE MCTraveller ----------------------------
(***************************************************************************)
(* Small timetables for the planner: every trip runs a line of the network *)
(* at every combination of a start time and of hop durations.              *)
(***************************************************************************)
EXTENDS Traveller

\* The hops of a trip that serves the stops of "line", leaves at "start" and
\* takes times[i] for the i-th hop.
RECURSIVE LeavesAt(_, _, _)
LeavesAt(start, times, i) ==
  IF i = 1 THEN start ELSE LeavesAt(start, times, i - 1) + times[i - 1]

Run(trip, line, start, times) ==
  {[dep |-> line[i], arr |-> line[i + 1],
    depTime |-> LeavesAt(start, times, i),
    arrTime |-> LeavesAt(start, times, i) + times[i],
    trip |-> trip, seq |-> i] : i \in 1..(Len(line) - 1)}

Runs(trip, lines, starts, durations) ==
  UNION {{Run(trip, line, start, times) :
            start \in starts, times \in [1..(Len(line) - 1) -> durations]} :
         line \in lines}

MCStops == {"a", "b", "c"}
MCTrips == {"t1", "t2", "t3"}
MCDepartTimes == {1}

\* A through line and its reverse, a feeder, an express.  The reverse may leave
\* late enough to be boarded from the through line and again at the origin it
\* comes by, where it saves a vehicle.
MCTimetables ==
  {r1 \cup r2 \cup r3 :
     r1 \in Runs("t1", {<<"a", "b", "c">>}, 0..2, 1..2),
     r2 \in Runs("t2", {<<"c", "b", "a">>, <<"a", "c", "b">>}, {1, 3}, 1..2),
     r3 \in Runs("t3", {<<"a", "b">>, <<"b", "c">>, <<"a", "c">>}, 2..4, 1..2)}

\* A stop that is reached late on one vehicle or early on two, before the only
\* bus onwards leaves it.
FewestStops == {"a", "b", "c", "d"}
FewestTrips == {"t1", "t2", "t3", "t4"}
FewestTimetables ==
  {Run("t1", <<"a", "c">>, 1, <<d>>) \cup Run("t2", <<"a", "b">>, 1, <<1>>)
     \cup Run("t3", <<"b", "c">>, 3, <<1>>) \cup Run("t4", <<"c", "d">>, s, <<1>>) :
     d \in 1..5, s \in 4..8}

\* Timetables kept to the minute may let two stops share their time: a hop
\* then takes no time.
TieTimetables ==
  {r1 \cup r2 :
     r1 \in Runs("t1", {<<"a", "b", "c">>}, 1..2, 0..1),
     r2 \in Runs("t2", {<<"b", "c">>, <<"a", "c">>}, 2..4, 0..1)}

\* A feed may number the stops of a trip by tens.
GapTimetables ==
  {{[hop EXCEPT !.seq = 10 * hop.seq] : hop \in run} :
     run \in Runs("t1", {<<"a", "b", "c">>}, 1..2, 1..2)}

=============================================================================
