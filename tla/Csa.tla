-------------------------------- MODULE Csa --------------------------------
(***************************************************************************)
(* The Connection Scan Algorithm of backend/app/services/csa.py: one pass  *)
(* over the hops of a day in departure order that keeps the best label of  *)
(* every stop, then a walk back along the labels that yields the ride      *)
(* legs.  One connection is scanned, or one leg is walked, per step.       *)
(*                                                                         *)
(* The caller sorts the connections by departure time alone, so hops that  *)
(* depart at the same second come in any order: the scan takes any pending *)
(* hop none of the others departs before.                                  *)
(***************************************************************************)
EXTENDS Integers, Sequences, FiniteSets

CONSTANTS
  Stops,        \* stop ids
  Trips,        \* trip ids
  Buffer,       \* transfer_buffer, the seconds a change of vehicles takes
  Timetables,   \* the sets of connections a query may be asked on
  DepartTimes,  \* the values of depart_at
  NoConn        \* None in place of a connection

\* Connection; route_id is left out, a trip has one route.
Connection == [dep : Stops, arr : Stops, depTime : Int, arrTime : Int,
               trip : Trips, seq : Nat]

ASSUME BufferAssumption == Buffer \in Nat

ASSUME DepartTimesAssumption == DepartTimes \subseteq Int

ASSUME NoConnAssumption == NoConn \notin Connection

\* What the importer's validation leaves (gtfs_validation.py 394-434): stop
\* sequences rise along a trip and time never runs backwards.  A hop may still
\* take no time at all.
ASSUME TimetablesAssumption ==
  \A tt \in Timetables :
    /\ tt \subseteq Connection
    /\ \A c \in tt : c.depTime <= c.arrTime
    /\ \A c, d \in tt : c.trip = d.trip =>
         /\ c.seq = d.seq => c = d
         /\ c.seq < d.seq => c.arrTime <= d.depTime

Label == [arr : Int, trips : Nat, alight : Connection \cup {NoConn},
          entry : Connection \cup {NoConn}]

TripState == [trips : Nat, entry : Connection]

Leg == [trip : Trips, board : Stops, boardTime : Int, alight : Stops,
        alightTime : Int, numStops : Int]

VARIABLES
  timetable, origin, destination, departAt,  \* the query, fixed
  pending,   \* the connections not scanned yet
  labels,    \* dict: stop -> Label
  boarded,   \* dict: trip -> TripState
  pc,        \* "scan", "select", "walk", and the answers "found", "none"
  cursor,    \* the stop the walk has come back to
  legs       \* the ride legs, in travel order

query == <<timetable, origin, destination, departAt>>
vars == <<query, pending, labels, boarded, pc, cursor, legs>>

-----------------------------------------------------------------------------
\* dict[k] = v
Put(dict, k, v) == [x \in DOMAIN dict \cup {k} |-> IF x = k THEN v ELSE dict[x]]

EmptyDict == [x \in {} |-> NoConn]

\* The connection the sorted list yields next.
Following(c) == c \in pending /\ \A d \in pending : c.depTime <= d.depTime

\* Faulty: the buffer is charged at the origin and not at the changes.
FaultyBufferAt(s) == IF labels[s].alight = NoConn THEN Buffer ELSE 0

\* Seconds needed at stop s before a vehicle can be boarded there.
BufferAt(s) == IF labels[s].alight = NoConn THEN 0 ELSE Buffer

\* Faulty: a vehicle that leaves the moment the buffer is over is missed.
FaultyCanBoard(c) == /\ c.dep \in DOMAIN labels
                     /\ labels[c.dep].arr + BufferAt(c.dep) < c.depTime

CanBoard(c) == /\ c.dep \in DOMAIN labels
               /\ labels[c.dep].arr + BufferAt(c.dep) <= c.depTime

BoardsFresh(c) ==
  /\ CanBoard(c)
  /\ c.trip \in DOMAIN boarded => labels[c.dep].trips + 1 < boarded[c.trip].trips

\* The tuple comparison (arr_time, trips_used) < (arr_time, trips_used).
Better(arr1, trips1, arr2, trips2) ==
  arr1 < arr2 \/ (arr1 = arr2 /\ trips1 < trips2)

\* Faulty: the last hop to arrive at a stop wins.
FaultyImproves(arr, trips, s) == TRUE

Improves(arr, trips, s) ==
  s \in DOMAIN labels => Better(arr, trips, labels[s].arr, labels[s].trips)

-----------------------------------------------------------------------------
Init ==
  /\ timetable \in Timetables
  /\ origin \in Stops
  /\ destination \in Stops
  /\ departAt \in DepartTimes
  /\ pending = timetable
  /\ labels = Put(EmptyDict, origin,
                  [arr |-> departAt, trips |-> 0, alight |-> NoConn, entry |-> NoConn])
  /\ boarded = EmptyDict
  /\ pc = "scan"
  /\ cursor = destination
  /\ legs = <<>>

\* A hop that leaves before the traveller is passed over.
SkipEarly(c) ==
  /\ pc = "scan" /\ Following(c)
  /\ c.depTime < departAt
  /\ pending' = pending \ {c}
  /\ UNCHANGED <<query, labels, boarded, pc, cursor, legs>>

\* A hop that leaves after the best arrival so far ends the scan.
PastBest(c) == /\ destination \in DOMAIN labels
               /\ c.depTime > labels[destination].arr

Cutoff(c) ==
  /\ pc = "scan" /\ Following(c)
  /\ c.depTime >= departAt
  /\ PastBest(c)
  /\ pc' = "select"
  /\ UNCHANGED <<query, pending, labels, boarded, cursor, legs>>

\* Faulty: the connection the trip was boarded at is not kept.
FaultyStateAfter(c) ==
  IF BoardsFresh(c) THEN [trips |-> labels[c.dep].trips + 1, entry |-> NoConn]
                    ELSE boarded[c.trip]

\* Faulty: a trip that is boarded again keeps the connection of the first time.
StaleStateAfter(c) ==
  IF BoardsFresh(c)
    THEN [trips |-> labels[c.dep].trips + 1,
          entry |-> IF c.trip \in DOMAIN boarded THEN boarded[c.trip].entry ELSE c]
    ELSE boarded[c.trip]

\* The trip's state after c: boarded afresh at c, or what it was.
StateAfter(c) ==
  IF BoardsFresh(c) THEN [trips |-> labels[c.dep].trips + 1, entry |-> c]
                    ELSE boarded[c.trip]

\* A hop nobody can be on: its stop is not reached in time and its trip has
\* not been boarded earlier.
PassBy(c) ==
  /\ pc = "scan" /\ Following(c)
  /\ c.depTime >= departAt /\ ~ PastBest(c)
  /\ ~ BoardsFresh(c) /\ c.trip \notin DOMAIN boarded
  /\ pending' = pending \ {c}
  /\ UNCHANGED <<query, labels, boarded, pc, cursor, legs>>

\* A hop that is ridden: board it (or stay on board), and improve the label of
\* the stop it arrives at.
Relax(c) ==
  /\ pc = "scan" /\ Following(c)
  /\ c.depTime >= departAt /\ ~ PastBest(c)
  /\ BoardsFresh(c) \/ c.trip \in DOMAIN boarded
  /\ LET state == StateAfter(c)
     IN  /\ boarded' = Put(boarded, c.trip, state)
         /\ labels' =
              IF Improves(c.arrTime, state.trips, c.arr)
                THEN Put(labels, c.arr, [arr |-> c.arrTime, trips |-> state.trips,
                                         alight |-> c, entry |-> state.entry])
                ELSE labels
  /\ pending' = pending \ {c}
  /\ UNCHANGED <<query, pc, cursor, legs>>

ScanEnds ==
  /\ pc = "scan" /\ pending = {}
  /\ pc' = "select"
  /\ UNCHANGED <<query, pending, labels, boarded, cursor, legs>>

\* Faulty: any other stop than the origin counts as reached.
FaultyReached == destination # origin

Reached == /\ destination \in DOMAIN labels
           /\ labels[destination].alight # NoConn

\* Faulty: a destination without a label is not provided for.
FaultyNoRide ==
  /\ pc = "select" /\ ~ Reached /\ destination \in DOMAIN labels
  /\ pc' = IF destination # origin THEN "none" ELSE "found"
  /\ UNCHANGED <<query, pending, labels, boarded, cursor, legs>>

\* No ride reaches the destination: None, or the empty journey of a traveller
\* who is already there.
NoRide ==
  /\ pc = "select" /\ ~ Reached
  /\ pc' = IF destination # origin THEN "none" ELSE "found"
  /\ UNCHANGED <<query, pending, labels, boarded, cursor, legs>>

StartWalk ==
  /\ pc = "select" /\ Reached
  /\ pc' = "walk"
  /\ cursor' = destination
  /\ UNCHANGED <<query, pending, labels, boarded, legs>>

\* Faulty: the leg ends where its last hop begins.
FaultyLegOf(last, entry) ==
  [trip |-> last.trip, board |-> entry.dep, boardTime |-> entry.depTime,
   alight |-> last.dep, alightTime |-> last.arrTime,
   numStops |-> last.seq + 1 - entry.seq]

LegOf(last, entry) ==
  [trip |-> last.trip, board |-> entry.dep, boardTime |-> entry.depTime,
   alight |-> last.arr, alightTime |-> last.arrTime,
   numStops |-> last.seq + 1 - entry.seq]

\* One turn of the backward loop.  The list is reversed when the loop ends;
\* here each leg is put in front of the later ones at once.
WalkBack ==
  /\ pc = "walk" /\ cursor # origin
  /\ legs' = <<LegOf(labels[cursor].alight, labels[cursor].entry)>> \o legs
  /\ cursor' = labels[cursor].entry.dep
  /\ UNCHANGED <<query, pending, labels, boarded, pc>>

WalkEnds ==
  /\ pc = "walk" /\ cursor = origin
  /\ pc' = "found"
  /\ UNCHANGED <<query, pending, labels, boarded, cursor, legs>>

Scan == \E c \in pending : SkipEarly(c) \/ Cutoff(c) \/ PassBy(c) \/ Relax(c)

Next == Scan \/ ScanEnds \/ NoRide \/ StartWalk \/ WalkBack \/ WalkEnds

\* plan is one function call: it runs until it returns.
Spec == Init /\ [][Next]_vars /\ WF_vars(Next)

-----------------------------------------------------------------------------
\* Every variable keeps its type; labels and boarded are dicts whose keys are
\* stops and trips (csa.py 26-63, 81-84).
TypeOK ==
  /\ timetable \subseteq Connection /\ pending \subseteq timetable
  /\ origin \in Stops /\ destination \in Stops /\ departAt \in DepartTimes
  /\ DOMAIN labels \subseteq Stops /\ labels \in [DOMAIN labels -> Label]
  /\ DOMAIN boarded \subseteq Trips /\ boarded \in [DOMAIN boarded -> TripState]
  /\ pc \in {"scan", "select", "walk", "found", "none"}
  /\ cursor \in Stops
  /\ legs \in Seq(Leg)

\* The legs fit together into one journey that ends at the destination, begins
\* at the origin once the walk is over, leaves no earlier than asked and gives
\* the traveller the buffer at every change (csa.py 66-79, 123-144).  Labels
\* are replaced during the scan after later labels were derived from them, and
\* the walk reads only the labels that are left.
JourneyConnects ==
  /\ pc = "found" => cursor = origin
  /\ legs = <<>> => cursor = destination
  /\ legs # <<>> => /\ legs[1].board = cursor
                   /\ legs[Len(legs)].alight = destination
                   /\ legs[1].boardTime >= departAt
  /\ \A i \in 2..Len(legs) :
       /\ legs[i - 1].alight = legs[i].board
       /\ legs[i - 1].alightTime + Buffer <= legs[i].boardTime

\* A leg boards its trip and leaves it at a later hop of the same trip: no leg
\* rides a vehicle backwards or mixes two trips (csa.py 39-63, 112-117).
LegsRidable ==
  \A i \in 1..Len(legs) :
    \E first, last \in timetable :
      /\ first.trip = legs[i].trip /\ last.trip = legs[i].trip
      /\ first.seq <= last.seq
      /\ first.dep = legs[i].board /\ first.depTime = legs[i].boardTime
      /\ last.arr = legs[i].alight /\ last.arrTime = legs[i].alightTime

\* The assertion of the backward walk (csa.py 130), and the dict lookup before
\* it: every stop the walk comes to has a label with both connections.
WalkResolves ==
  pc = "walk" /\ cursor # origin =>
    /\ cursor \in DOMAIN labels
    /\ labels[cursor].alight # NoConn /\ labels[cursor].entry # NoConn

\* The label's vehicle count, which the tie-break compares, is the number of
\* legs the walk then finds (csa.py 10-14, 101-117).
VehiclesCounted ==
  pc = "found" => Len(legs) = labels[destination].trips

\* The label a traveller boarded from is final: no later step replaces the
\* label of a stop some trip in use was boarded at, so the walk comes back
\* along the very labels the vehicle counts were computed from
\* (csa.py 94-117).
BoardingStopsFinal ==
  [][\A t \in DOMAIN boarded :
       labels'[boarded[t].entry.dep] = labels[boarded[t].entry.dep]]_vars

\* "hops ridden (stops visited excluding the boarding stop)" is what num_stops
\* says (csa.py 49, 139).
HopsCounted ==
  \A i \in 1..Len(legs) :
    legs[i].numStops =
      Cardinality({c \in timetable : /\ c.trip = legs[i].trip
                                     /\ c.depTime >= legs[i].boardTime
                                     /\ c.arrTime <= legs[i].alightTime})

\* plan returns (csa.py 119-144): the backward loop never goes round in
\* circles.
Returns == <>(pc \in {"found", "none"})

=============================================================================
