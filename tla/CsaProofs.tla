----------------------------- MODULE CsaProofs -----------------------------
(***************************************************************************)
(* Proofs about the connection scan: its types, and that the answer it     *)
(* walks out of its labels is a journey the buses really make.             *)
(***************************************************************************)
EXTENDS Csa, TLAPS

\* What a dict is after dict[k] = v.
LEMMA PutIs ==
  ASSUME NEW K, NEW V, NEW dict, NEW k \in K, NEW v \in V,
         DOMAIN dict \subseteq K, dict \in [DOMAIN dict -> V]
  PROVE  /\ DOMAIN Put(dict, k, v) = DOMAIN dict \cup {k}
         /\ DOMAIN Put(dict, k, v) \subseteq K
         /\ Put(dict, k, v) \in [DOMAIN Put(dict, k, v) -> V]
         /\ Put(dict, k, v)[k] = v
         /\ \A x \in DOMAIN dict : x # k => Put(dict, k, v)[x] = dict[x]
BY DEF Put

\* A leg made of two connections is a leg.
LEMMA LegOfType ==
  ASSUME NEW c \in Connection, NEW d \in Connection
  PROVE  LegOf(c, d) \in Leg
BY DEF LegOf, Leg, Connection

\* A query starts with one label, the origin's, and nothing boarded.
LEMMA InitTypeOK == Init => TypeOK
<1> SUFFICES ASSUME Init PROVE TypeOK
  OBVIOUS
<1>1. timetable \subseteq Connection
  BY TimetablesAssumption DEF Init
<1>2. departAt \in Int
  BY DepartTimesAssumption DEF Init
<1> DEFINE here == [arr |-> departAt, trips |-> 0, alight |-> NoConn, entry |-> NoConn]
<1>3. here \in Label
  BY <1>2 DEF Label
<1>4. DOMAIN EmptyDict = {} /\ EmptyDict \in [{} -> Label]
  BY DEF EmptyDict
<1>5. DOMAIN labels \subseteq Stops /\ labels \in [DOMAIN labels -> Label]
  <2>1. labels = Put(EmptyDict, origin, here) /\ origin \in Stops
    BY DEF Init
  <2> HIDE DEF here
  <2>2. DOMAIN EmptyDict \subseteq Stops /\ EmptyDict \in [DOMAIN EmptyDict -> Label]
    BY <1>4
  <2>3. QED
    BY <1>3, <2>1, <2>2, PutIs
<1>6. QED
  BY <1>1, <1>4, <1>5 DEF Init, TypeOK, EmptyDict

\* The trip state a scanned hop leaves behind.
LEMMA StateAfterType ==
  ASSUME TypeOK, NEW c \in pending, BoardsFresh(c) \/ c.trip \in DOMAIN boarded
  PROVE  c \in Connection /\ c.trip \in Trips /\ c.arr \in Stops /\ c.dep \in Stops
         /\ StateAfter(c) \in TripState
<1>1. c \in Connection
  BY DEF TypeOK
<1>2. CASE BoardsFresh(c)
  <2>1. labels[c.dep] \in Label
    BY <1>2 DEF TypeOK, BoardsFresh, CanBoard
  <2>2. labels[c.dep].trips + 1 \in Nat
    BY <2>1 DEF Label
  <2>3. QED
    BY <1>1, <1>2, <2>2 DEF StateAfter, TripState, Connection
<1>3. CASE ~ BoardsFresh(c)
  BY <1>1, <1>3 DEF StateAfter, TypeOK, Connection
<1>4. QED
  BY <1>2, <1>3

\* Relaxing a hop keeps the two dicts well typed.
LEMMA RelaxTypeOK ==
  ASSUME TypeOK, NEW c \in pending, Relax(c)
  PROVE  TypeOK'
<1> DEFINE state == StateAfter(c)
           label == [arr |-> c.arrTime, trips |-> state.trips,
                     alight |-> c, entry |-> state.entry]
<1>1. /\ c \in Connection /\ c.trip \in Trips /\ c.arr \in Stops
      /\ state \in TripState
  BY StateAfterType DEF Relax
<1>2. label \in Label
  BY <1>1 DEF Label, TripState, Connection
<1>3. boarded' = Put(boarded, c.trip, state)
  BY DEF Relax
<1>4. labels' = labels \/ labels' = Put(labels, c.arr, label)
  BY DEF Relax
<1>5. UNCHANGED <<timetable, origin, destination, departAt, pc, cursor, legs>>
      /\ pending' = pending \ {c}
  BY DEF Relax, query
<1> HIDE DEF state, label
<1>0. /\ DOMAIN labels \subseteq Stops /\ labels \in [DOMAIN labels -> Label]
      /\ DOMAIN boarded \subseteq Trips /\ boarded \in [DOMAIN boarded -> TripState]
  BY DEF TypeOK
<1>6. DOMAIN boarded' \subseteq Trips /\ boarded' \in [DOMAIN boarded' -> TripState]
  BY <1>1, <1>3, <1>0 DEF Put
<1>7. DOMAIN labels' \subseteq Stops /\ labels' \in [DOMAIN labels' -> Label]
  BY <1>1, <1>2, <1>4, <1>0 DEF Put
<1>8. QED
  BY <1>5, <1>6, <1>7 DEF TypeOK

-----------------------------------------------------------------------------
(***************************************************************************)
(* The inductive invariant.  Labels and trip states are replaced while     *)
(* others that were computed from them stay, so it says of every label and *)
(* every trip state that it is still justified by the labels there are     *)
(* now: its trip was boarded at a hop that can be boarded.                 *)
(***************************************************************************)
\* CanBoard, by a given dict of labels.
Boardable(lab, e) ==
  /\ e.dep \in DOMAIN lab
  /\ lab[e.dep].arr + (IF lab[e.dep].alight = NoConn THEN 0 ELSE Buffer) <= e.depTime

OriginLabel == /\ origin \in DOMAIN labels
               /\ labels[origin].arr = departAt /\ labels[origin].trips = 0
               /\ labels[origin].alight = NoConn

RideTo(s) == LET l == labels[s]
             IN  /\ l.alight \in timetable /\ l.entry \in timetable
                 /\ l.alight.trip = l.entry.trip
                 /\ l.alight.arr = s /\ l.alight.arrTime = l.arr
                 /\ l.entry.depTime <= l.alight.depTime
                 /\ Boardable(labels, l.entry)

LabelsJustified == \A s \in DOMAIN labels : s # origin => RideTo(s)

TripsJustified == \A t \in DOMAIN boarded : /\ boarded[t].entry \in timetable
                                             /\ boarded[t].entry.trip = t
                                             /\ Boardable(labels, boarded[t].entry)

\* The scan never comes back before a hop that was boarded.
InOrder == pc = "scan" =>
             \A t \in DOMAIN boarded, c \in pending :
               boarded[t].entry.depTime <= c.depTime

\* A stop other than the origin is reached only later than the departure.
NoEarlier == \A s \in DOMAIN labels : labels[s].arr >= departAt

Walked == /\ pc \in {"scan", "select", "none"} => legs = <<>> /\ cursor = destination
          /\ pc \in {"walk", "found"} =>
               /\ destination \in DOMAIN labels /\ cursor \in DOMAIN labels
               /\ legs = <<>> \/ labels[cursor].arr + BufferAt(cursor) <= legs[1].boardTime

ScanInv == /\ timetable \in Timetables
           /\ TypeOK /\ OriginLabel /\ LabelsJustified /\ TripsJustified
           /\ InOrder /\ NoEarlier
IInv == ScanInv /\ Walked /\ JourneyConnects

-----------------------------------------------------------------------------
\* The label a relaxed hop offers the stop it arrives at.
Offer(c) == [arr |-> c.arrTime, trips |-> StateAfter(c).trips,
             alight |-> c, entry |-> StateAfter(c).entry]

\* Relaxing a hop replaces one label by a better one, or none.
LEMMA RelaxLabels ==
  ASSUME TypeOK, NEW c \in pending, Relax(c)
  PROVE  /\ DOMAIN labels \subseteq DOMAIN labels'
         /\ \A s \in DOMAIN labels' :
              \/ s \in DOMAIN labels /\ labels'[s] = labels[s]
              \/ /\ s = c.arr /\ labels'[s] = Offer(c)
                 /\ Improves(c.arrTime, StateAfter(c).trips, s)
<1>1. CASE Improves(c.arrTime, StateAfter(c).trips, c.arr)
  <2>1. labels' = Put(labels, c.arr, Offer(c))
    BY <1>1 DEF Relax, Offer
  <2>2. QED
    BY <1>1, <2>1 DEF Put
<1>2. CASE ~ Improves(c.arrTime, StateAfter(c).trips, c.arr)
  <2>1. labels' = labels
    BY <1>2 DEF Relax
  <2>2. QED
    BY <2>1
<1>3. QED
  BY <1>1, <1>2

\* Relaxing a hop gives its own trip a state and leaves the others alone.
LEMMA RelaxTrips ==
  ASSUME TypeOK, NEW c \in pending, Relax(c)
  PROVE  /\ DOMAIN boarded' = DOMAIN boarded \cup {c.trip}
         /\ boarded'[c.trip] = StateAfter(c)
         /\ \A t \in DOMAIN boarded : t # c.trip => boarded'[t] = boarded[t]
<1>1. boarded' = Put(boarded, c.trip, StateAfter(c))
  BY DEF Relax
<1>2. QED
  BY <1>1 DEF Put

\* Arrivals only get earlier, the origin keeps its label, and a stop keeps on
\* costing the buffer or not.
LEMMA LabelsImprove ==
  ASSUME ScanInv, NEW c \in pending, Relax(c)
  PROVE  /\ labels'[origin] = labels[origin]
         /\ \A s \in DOMAIN labels :
              labels'[s].arr <= labels[s].arr /\ BufferAt(s)' = BufferAt(s)
<1>1. /\ c \in Connection /\ StateAfter(c) \in TripState /\ c.depTime <= c.arrTime
      /\ c.depTime >= departAt /\ c.arrTime \in Int /\ c.depTime \in Int
      /\ StateAfter(c).trips \in Nat /\ departAt \in Int
  <2>1. c \in Connection /\ StateAfter(c) \in TripState
    BY StateAfterType DEF Relax, ScanInv
  <2>2. c.depTime <= c.arrTime
    BY TimetablesAssumption DEF ScanInv, TypeOK
  <2>3. QED
    BY <2>1, <2>2, DepartTimesAssumption DEF Relax, Connection, TripState, ScanInv, TypeOK
<1>2. labels'[origin] = labels[origin]
  <2>1. ~ Improves(c.arrTime, StateAfter(c).trips, origin)
    BY <1>1 DEF Improves, Better, ScanInv, OriginLabel
  <2>2. QED
    BY <2>1, RelaxLabels DEF ScanInv, OriginLabel
<1>3. ASSUME NEW s \in DOMAIN labels
      PROVE  labels'[s].arr <= labels[s].arr /\ BufferAt(s)' = BufferAt(s)
  <2>1. labels[s] \in Label
    BY DEF ScanInv, TypeOK
  <2>2. CASE labels'[s] = labels[s]
    BY <2>1, <2>2 DEF Label, BufferAt
  <2>3. CASE /\ s = c.arr /\ labels'[s] = Offer(c)
             /\ Improves(c.arrTime, StateAfter(c).trips, s) /\ s # origin
    <3>1. labels'[s].arr <= labels[s].arr
      BY <1>1, <2>1, <2>3 DEF Offer, Improves, Better, Label
    <3>2. labels[s].alight # NoConn /\ labels'[s].alight # NoConn
      BY <1>1, <2>3, NoConnAssumption DEF ScanInv, LabelsJustified, RideTo, TypeOK, Offer
    <3>3. QED
      BY <3>1, <3>2 DEF BufferAt
  <2>4. QED
    BY <1>2, <2>2, <2>3, RelaxLabels DEF ScanInv
<1>4. QED
  BY <1>2, <1>3

\* What could be boarded can still be boarded.
LEMMA BoardableStays ==
  ASSUME ScanInv, NEW c \in pending, Relax(c), NEW e \in Connection,
         Boardable(labels, e)
  PROVE  Boardable(labels', e)
<1>1. e.dep \in DOMAIN labels /\ e.dep \in DOMAIN labels'
  BY RelaxLabels DEF Boardable, ScanInv
<1>2. labels'[e.dep].arr <= labels[e.dep].arr /\ BufferAt(e.dep)' = BufferAt(e.dep)
  BY <1>1, LabelsImprove
<1>3. labels[e.dep] \in Label /\ labels'[e.dep] \in Label
  BY <1>1, RelaxTypeOK DEF ScanInv, TypeOK
<1>4. e.depTime \in Int /\ BufferAt(e.dep) \in Int
  BY BufferAssumption DEF Connection, BufferAt
<1>5. QED
  BY <1>1, <1>2, <1>3, <1>4 DEF Boardable, Label, BufferAt

\* The hop a rider of c boarded at can be boarded by the labels after c.
LEMMA StateAfterJustified ==
  ASSUME ScanInv, NEW c \in pending, Relax(c)
  PROVE  LET e == StateAfter(c).entry
         IN  /\ e \in timetable /\ e.trip = c.trip /\ e.depTime <= c.depTime
             /\ Boardable(labels, e) /\ Boardable(labels', e)
<1> DEFINE e == StateAfter(c).entry
<1>1. c \in timetable /\ c \in Connection /\ c.depTime \in Int
  BY DEF ScanInv, TypeOK, Connection
<1>2. /\ e \in timetable /\ e.trip = c.trip /\ e.depTime <= c.depTime /\ Boardable(labels, e)
  <2>1. CASE BoardsFresh(c)
    BY <1>1, <2>1 DEF StateAfter, BoardsFresh, CanBoard, BufferAt, Boardable
  <2>2. CASE ~ BoardsFresh(c)
    <3>1. c.trip \in DOMAIN boarded /\ e = boarded[c.trip].entry /\ pc = "scan"
      BY <2>2 DEF StateAfter, Relax
    <3>2. QED
      BY <3>1 DEF ScanInv, TripsJustified, InOrder
  <2>3. QED
    BY <2>1, <2>2
<1> HIDE DEF e
<1>3. e \in Connection
  BY <1>2 DEF ScanInv, TypeOK
<1>4. Boardable(labels', e)
  BY <1>2, <1>3, BoardableStays
<1>5. QED
  BY <1>2, <1>4 DEF e

\* Relaxing a hop keeps every label and every trip state justified.
LEMMA RelaxScanInv ==
  ASSUME ScanInv, NEW c \in pending, Relax(c)
  PROVE  ScanInv'
<1>1. TypeOK' /\ (timetable \in Timetables)'
  BY RelaxTypeOK DEF ScanInv, Relax, query
<1>2. /\ UNCHANGED <<timetable, origin, destination, departAt, pc, cursor, legs>>
      /\ pending' = pending \ {c} /\ pc = "scan" /\ Following(c)
      /\ c \in Connection /\ timetable \subseteq Connection
  BY DEF Relax, query, ScanInv, TypeOK
<1>3. OriginLabel'
  BY <1>2, LabelsImprove, RelaxLabels DEF ScanInv, OriginLabel
<1>4. LabelsJustified'
  <2> SUFFICES ASSUME NEW s \in DOMAIN labels', s # origin PROVE RideTo(s)'
    BY <1>2 DEF LabelsJustified
  <2>1. CASE s \in DOMAIN labels /\ labels'[s] = labels[s]
    <3>1. RideTo(s)
      BY <2>1 DEF ScanInv, LabelsJustified
    <3>2. labels[s].entry \in Connection /\ Boardable(labels, labels[s].entry)
      BY <1>2, <3>1 DEF RideTo
    <3>3. Boardable(labels', labels[s].entry)
      BY <3>2, BoardableStays
    <3>4. QED
      BY <1>2, <2>1, <3>1, <3>3 DEF RideTo
  <2>2. CASE s = c.arr /\ labels'[s] = Offer(c)
    <3>1. c \in timetable
      BY DEF ScanInv, TypeOK
    <3>2. QED
      BY <1>2, <2>2, <3>1, StateAfterJustified DEF RideTo, Offer
  <2>3. QED
    BY <2>1, <2>2, RelaxLabels DEF ScanInv
<1>5. TripsJustified'
  <2> SUFFICES ASSUME NEW t \in DOMAIN boarded'
               PROVE  /\ boarded'[t].entry \in timetable' /\ boarded'[t].entry.trip = t
                      /\ Boardable(labels', boarded'[t].entry)
    BY DEF TripsJustified
  <2>1. CASE t = c.trip
    BY <1>2, <2>1, RelaxTrips, StateAfterJustified DEF ScanInv
  <2>2. CASE t # c.trip
    <3>1. t \in DOMAIN boarded /\ boarded'[t] = boarded[t]
      BY <2>2, RelaxTrips DEF ScanInv
    <3>2. /\ boarded[t].entry \in timetable /\ boarded[t].entry.trip = t
          /\ Boardable(labels, boarded[t].entry) /\ boarded[t].entry \in Connection
      BY <1>2, <3>1 DEF ScanInv, TripsJustified
    <3>3. QED
      BY <1>2, <3>1, <3>2, BoardableStays
  <2>3. QED
    BY <2>1, <2>2
<1>6. InOrder'
  <2> SUFFICES ASSUME NEW t \in DOMAIN boarded', NEW d \in pending'
               PROVE  boarded'[t].entry.depTime <= d.depTime
    BY <1>2 DEF InOrder
  <2>1. d \in pending /\ c.depTime <= d.depTime /\ d.depTime \in Int /\ c.depTime \in Int
    BY <1>2 DEF Following, ScanInv, TypeOK, Connection
  <2>2. CASE t = c.trip
    <3>1. /\ boarded'[t].entry.depTime <= c.depTime /\ boarded'[t].entry \in Connection
      BY <1>2, <2>2, RelaxTrips, StateAfterJustified DEF ScanInv
    <3>2. QED
      BY <2>1, <3>1 DEF Connection
  <2>3. CASE t # c.trip
    BY <1>2, <2>1, <2>3, RelaxTrips DEF ScanInv, InOrder
  <2>4. QED
    BY <2>2, <2>3
<1>7. NoEarlier'
  <2> SUFFICES ASSUME NEW s \in DOMAIN labels' PROVE labels'[s].arr >= departAt
    BY <1>2 DEF NoEarlier
  <2>1. c.arrTime >= departAt
    <3>1. c.depTime <= c.arrTime /\ c.depTime >= departAt
      BY TimetablesAssumption DEF ScanInv, TypeOK, Relax
    <3>2. QED
      BY <1>2, <3>1, DepartTimesAssumption DEF Connection, ScanInv, TypeOK
  <2>2. QED
    BY <2>1, RelaxLabels DEF Offer, ScanInv, NoEarlier
<1>8. QED
  BY <1>1, <1>3, <1>4, <1>5, <1>6, <1>7 DEF ScanInv

\* Nothing but Relax touches labels, trips or the query; the other steps only
\* take hops off the list or move on.
LEMMA QuietScanInv ==
  ASSUME ScanInv, UNCHANGED <<query, labels, boarded>>, pending' \subseteq pending,
         pc' \in {"scan", "select", "walk", "found", "none"},
         pc' = "scan" => pc = "scan", cursor' \in Stops, legs' \in Seq(Leg)
  PROVE  ScanInv'
<1>1. UNCHANGED <<timetable, origin, destination, departAt, labels, boarded>>
  BY DEF query
<1>2. TypeOK' /\ (timetable \in Timetables)'
  BY <1>1 DEF ScanInv, TypeOK
<1>3. OriginLabel' /\ LabelsJustified' /\ TripsJustified' /\ NoEarlier'
  BY <1>1 DEF ScanInv, OriginLabel, LabelsJustified, TripsJustified, NoEarlier,
              RideTo
<1>4. InOrder'
  BY <1>1 DEF ScanInv, InOrder
<1>5. QED
  BY <1>2, <1>3, <1>4 DEF ScanInv

-----------------------------------------------------------------------------
\* What a list is after an element was put in front of it.
LEMMA Prepend ==
  ASSUME NEW S, NEW x \in S, NEW q \in Seq(S)
  PROVE  /\ <<x>> \o q \in Seq(S) /\ Len(<<x>> \o q) = Len(q) + 1
         /\ (<<x>> \o q)[1] = x
         /\ \A i \in 1..Len(q) : (<<x>> \o q)[i + 1] = q[i]
OBVIOUS

\* The invariant holds when a query starts.
LEMMA InitIInv == Init => IInv
<1> SUFFICES ASSUME Init PROVE IInv
  OBVIOUS
<1>1. TypeOK /\ timetable \in Timetables
  BY InitTypeOK DEF Init
<1>2. /\ DOMAIN labels = {origin} /\ boarded = EmptyDict /\ DOMAIN EmptyDict = {}
      /\ labels[origin] = [arr |-> departAt, trips |-> 0, alight |-> NoConn, entry |-> NoConn]
  BY DEF Init, Put, EmptyDict
<1>3. departAt \in Int
  BY DepartTimesAssumption DEF Init
<1>4. OriginLabel /\ LabelsJustified /\ TripsJustified /\ InOrder /\ NoEarlier
  BY <1>2, <1>3 DEF OriginLabel, LabelsJustified, TripsJustified, InOrder, NoEarlier
<1>5. Walked /\ JourneyConnects
  BY DEF Init, Walked, JourneyConnects
<1>6. QED
  BY <1>1, <1>4, <1>5 DEF IInv, ScanInv

\* The backward walk takes the label of the stop it is at, which is justified,
\* and puts its ride in front of the others.
LEMMA WalkBackIInv ==
  ASSUME IInv, WalkBack
  PROVE  IInv'
<1> DEFINE last == labels[cursor].alight
           entry == labels[cursor].entry
           leg == LegOf(last, entry)
<1>1. /\ pc = "walk" /\ cursor # origin /\ legs' = <<leg>> \o legs
      /\ cursor' = entry.dep /\ pc' = pc
      /\ UNCHANGED <<timetable, origin, destination, departAt, pending, labels, boarded>>
  BY DEF WalkBack, query
<1>2. /\ cursor \in DOMAIN labels /\ destination \in DOMAIN labels
      /\ legs \in Seq(Leg) /\ timetable \subseteq Connection
      /\ labels \in [DOMAIN labels -> Label] /\ departAt \in Int
  BY <1>1, DepartTimesAssumption DEF IInv, Walked, ScanInv, TypeOK
<1>3. /\ last \in timetable /\ entry \in timetable /\ last.arr = cursor
      /\ last.arrTime = labels[cursor].arr /\ Boardable(labels, entry)
  BY <1>1, <1>2 DEF IInv, ScanInv, LabelsJustified, RideTo
<1>4. last \in Connection /\ entry \in Connection /\ leg \in Leg
  BY <1>2, <1>3, LegOfType
<1>5. /\ entry.dep \in DOMAIN labels /\ entry.dep \in Stops
      /\ labels[entry.dep].arr + BufferAt(entry.dep) <= leg.boardTime
      /\ leg.board = entry.dep /\ leg.boardTime = entry.depTime
      /\ leg.alight = cursor /\ leg.alightTime = labels[cursor].arr
  BY <1>3, <1>4 DEF Boardable, BufferAt, LegOf, Connection
<1>6. BufferAt(cursor) = Buffer
  BY <1>1, <1>2, <1>3, <1>4, NoConnAssumption DEF BufferAt
<1>7. entry.depTime >= departAt
  <2>1. labels[entry.dep].arr >= departAt /\ labels[entry.dep].arr \in Int
    BY <1>2, <1>5 DEF IInv, ScanInv, NoEarlier, Label
  <2>2. BufferAt(entry.dep) \in Nat /\ entry.depTime \in Int
    BY <1>4, BufferAssumption DEF BufferAt, Connection
  <2>3. QED
    BY <1>2, <1>5, <2>1, <2>2
<1> HIDE DEF last, entry, leg
<1>8. /\ legs' \in Seq(Leg) /\ Len(legs') = Len(legs) + 1 /\ legs'[1] = leg
      /\ \A i \in 1..Len(legs) : legs'[i + 1] = legs[i]
  BY <1>1, <1>2, <1>4, Prepend
<1>9. ScanInv'
  BY <1>1, <1>5, <1>8, QuietScanInv DEF IInv, ScanInv, TypeOK, query
<1>10. Walked'
  <2>1. BufferAt(cursor)' = BufferAt(entry.dep)
    BY <1>1 DEF BufferAt
  <2>2. QED
    BY <1>1, <1>2, <1>5, <1>8, <2>1 DEF Walked
<1>11. JourneyConnects'
  <2>1. legs' # <<>> /\ legs'[1].board = cursor' /\ legs'[1].boardTime >= departAt
    BY <1>1, <1>5, <1>7, <1>8
  <2>2. legs'[Len(legs')].alight = destination
    <3>1. CASE legs = <<>>
      BY <1>1, <1>5, <1>8, <3>1 DEF IInv, JourneyConnects
    <3>2. CASE legs # <<>>
      <4>1. Len(legs) \in 1..Len(legs)
        BY <1>2, <3>2
      <4>2. QED
        BY <1>8, <3>2, <4>1 DEF IInv, JourneyConnects
    <3>3. QED
      BY <3>1, <3>2
  <2>3. ASSUME NEW i \in 2..Len(legs')
        PROVE  /\ legs'[i - 1].alight = legs'[i].board
               /\ legs'[i - 1].alightTime + Buffer <= legs'[i].boardTime
    <3>1. CASE i = 2
      <4>1. legs # <<>> /\ legs'[2] = legs[1]
        BY <1>2, <1>8, <3>1
      <4>2. QED
        BY <1>1, <1>5, <1>6, <1>8, <3>1, <4>1 DEF IInv, JourneyConnects, Walked
    <3>2. CASE i # 2
      <4>1. /\ i - 1 \in 2..Len(legs) /\ i - 2 \in 1..Len(legs)
            /\ legs'[i] = legs[i - 1] /\ legs'[i - 1] = legs[i - 2]
        <5>1. i - 1 \in 2..Len(legs) /\ i - 1 \in 1..Len(legs) /\ i - 2 \in 1..Len(legs)
          BY <1>2, <1>8, <3>2
        <5>2. legs'[(i - 1) + 1] = legs[i - 1] /\ legs'[(i - 2) + 1] = legs[i - 2]
          BY <1>8, <5>1
        <5>3. QED
          BY <5>1, <5>2
      <4>2. QED
        BY <4>1 DEF IInv, JourneyConnects
    <3>3. QED
      BY <3>1, <3>2
  <2>4. QED
    BY <1>1, <1>8, <2>1, <2>2, <2>3 DEF JourneyConnects
<1>12. QED
  BY <1>9, <1>10, <1>11 DEF IInv

\* Every step of the planner keeps the invariant.
LEMMA StepIInv == IInv /\ [Next]_vars => IInv'
<1> SUFFICES ASSUME IInv, [Next]_vars PROVE IInv'
  OBVIOUS
<1>0. /\ cursor \in Stops /\ legs \in Seq(Leg) /\ destination \in Stops
      /\ ScanInv /\ Walked /\ JourneyConnects /\ origin \in DOMAIN labels
  BY DEF IInv, ScanInv, TypeOK, OriginLabel
<1>1. ASSUME NEW c \in pending, SkipEarly(c) \/ Cutoff(c) \/ PassBy(c) PROVE IInv'
  <2>1. /\ UNCHANGED <<query, labels, boarded, cursor, legs>> /\ pending' \subseteq pending
        /\ pc = "scan" /\ pc' \in {"scan", "select"}
    BY <1>1 DEF SkipEarly, Cutoff, PassBy
  <2>2. ScanInv'
    BY <1>0, <2>1, QuietScanInv
  <2>3. Walked' /\ JourneyConnects'
    BY <1>0, <2>1 DEF Walked, JourneyConnects, query
  <2>4. QED
    BY <2>2, <2>3 DEF IInv
<1>2. ASSUME NEW c \in pending, Relax(c) PROVE IInv'
  <2>1. pc = "scan" /\ pc' = pc /\ UNCHANGED <<query, cursor, legs>>
    BY <1>2 DEF Relax
  <2>2. Walked' /\ JourneyConnects'
    BY <1>0, <2>1 DEF Walked, JourneyConnects, query
  <2>3. QED
    BY <1>0, <1>2, <2>2, RelaxScanInv DEF IInv
<1>3. CASE ScanEnds
  <2>1. /\ UNCHANGED <<query, labels, boarded, pending, cursor, legs>>
        /\ pc = "scan" /\ pc' = "select"
    BY <1>3 DEF ScanEnds
  <2>2. ScanInv'
    BY <1>0, <2>1, QuietScanInv
  <2>3. Walked' /\ JourneyConnects'
    BY <1>0, <2>1 DEF Walked, JourneyConnects, query
  <2>4. QED
    BY <2>2, <2>3 DEF IInv
<1>4. CASE NoRide
  <2>1. /\ UNCHANGED <<query, labels, boarded, pending, cursor, legs>>
        /\ pc = "select" /\ pc' \in {"none", "found"}
        /\ pc' = "found" => destination = origin
    BY <1>4 DEF NoRide
  <2>2. ScanInv'
    BY <1>0, <2>1, QuietScanInv
  <2>3. Walked' /\ JourneyConnects'
    BY <1>0, <2>1 DEF Walked, JourneyConnects, query
  <2>4. QED
    BY <2>2, <2>3 DEF IInv
<1>5. CASE StartWalk
  <2>1. /\ UNCHANGED <<query, labels, boarded, pending, legs>> /\ cursor' = destination
        /\ pc = "select" /\ pc' = "walk" /\ destination \in DOMAIN labels
    BY <1>5 DEF StartWalk, Reached
  <2>2. ScanInv'
    BY <1>0, <2>1, QuietScanInv
  <2>3. Walked' /\ JourneyConnects'
    BY <1>0, <2>1 DEF Walked, JourneyConnects, query
  <2>4. QED
    BY <2>2, <2>3 DEF IInv
<1>6. CASE WalkBack
  BY <1>6, WalkBackIInv
<1>7. CASE WalkEnds
  <2>1. /\ UNCHANGED <<query, labels, boarded, pending, cursor, legs>>
        /\ pc = "walk" /\ pc' = "found" /\ cursor = origin
    BY <1>7 DEF WalkEnds
  <2>2. ScanInv'
    BY <1>0, <2>1, QuietScanInv
  <2>3. Walked' /\ JourneyConnects'
    BY <1>0, <2>1 DEF Walked, JourneyConnects, query, BufferAt
  <2>4. QED
    BY <2>2, <2>3 DEF IInv
<1>8. CASE UNCHANGED vars
  <2>1. UNCHANGED <<query, labels, boarded, pending, pc, cursor, legs>>
    BY <1>8 DEF vars
  <2>2. ScanInv'
    BY <1>0, <2>1, QuietScanInv DEF ScanInv, TypeOK
  <2>3. Walked' /\ JourneyConnects'
    BY <1>0, <2>1 DEF Walked, JourneyConnects, query, BufferAt
  <2>4. QED
    BY <2>2, <2>3 DEF IInv
<1>9. QED
  BY <1>1, <1>2, <1>3, <1>4, <1>5, <1>6, <1>7, <1>8 DEF Next, Scan

\* The invariant holds of every query on every timetable the importer accepts.
THEOREM Invariance == Spec => []IInv
<1>1. Init => IInv
  BY InitIInv
<1>2. IInv /\ [Next]_vars => IInv'
  BY StepIInv
<1>3. QED
  BY <1>1, <1>2, PTL DEF Spec

\* Every variable keeps its type, whatever the network and the query: the dict
\* lookups of csa.py 96-139 return what the code takes them for.
THEOREM TypesHold == Spec => []TypeOK
<1>1. IInv => TypeOK
  BY DEF IInv, ScanInv
<1>2. QED
  BY <1>1, Invariance, PTL

\* The legs csa.plan returns join up into a journey from the origin to the
\* destination with the buffer at every change (csa.py 66-79, 123-144).
THEOREM JourneysConnect == Spec => []JourneyConnects
<1>1. IInv => JourneyConnects
  BY DEF IInv
<1>2. QED
  BY <1>1, Invariance, PTL

\* The walk never comes to a stop without a label, and its assertion
\* (csa.py 130) never fails.
THEOREM WalksResolve == Spec => []WalkResolves
<1>1. IInv => WalkResolves
  BY NoConnAssumption DEF IInv, ScanInv, TypeOK, Walked, LabelsJustified, RideTo, WalkResolves
<1>2. QED
  BY <1>1, Invariance, PTL

=============================================================================
