------------------------------ MODULE CsaExact ------------------------------
(***************************************************************************)
(* Proofs about the connection scan on timetables whose hops take time:    *)
(* the counts it compares are the legs it returns, every leg is a ride,    *)
(* and no traveller arrives earlier than the journey it plans.             *)
(***************************************************************************)
EXTENDS Traveller, CsaProofs

\* No hop departs and arrives at the same second.
StrictHops == \A tt \in Timetables : \A c \in tt : c.depTime < c.arrTime

Scanned == timetable \ pending

\* Every label and trip counts one vehicle more than the stop it was boarded at.
CountsMatch ==
  /\ \A s \in DOMAIN labels : s # origin =>
       labels[s].trips = labels[labels[s].entry.dep].trips + 1
  /\ \A t \in DOMAIN boarded :
       boarded[t].trips = labels[boarded[t].entry.dep].trips + 1

\* Hops come in departure order, and a scan that ended early left only hops
\* that depart too late to matter.
HopsInOrder ==
  /\ pc = "scan" => \A e \in Scanned, d \in pending : e.depTime <= d.depTime
  /\ pc # "scan" => \A d \in pending : PastBest(d)

\* Labels were boarded at hops scanned already.
LabelsScanned ==
  /\ \A s \in DOMAIN labels : s # origin => labels[s].entry \in Scanned
  /\ \A t \in DOMAIN boarded : boarded[t].entry \in Scanned

\* Whoever can board a scanned hop is on board its trip, and every later hop
\* of the trip scanned so far has been relaxed for them.
OnBoard == \A e \in Scanned : Boardable(labels, e) => e.trip \in DOMAIN boarded

Relaxed ==
  \A e, l \in Scanned :
    e.trip = l.trip /\ e.seq <= l.seq /\ Boardable(labels, e) =>
      l.arr \in DOMAIN labels /\ labels[l.arr].arr <= l.arrTime

Remaining ==
  /\ pc = "none" => destination \notin DOMAIN labels
  /\ pc \in {"walk", "found"} =>
       Len(legs) + labels[cursor].trips = labels[destination].trips
  /\ legs # <<>> => legs[Len(legs)].alightTime = labels[destination].arr

XScan == CountsMatch /\ HopsInOrder /\ LabelsScanned /\ OnBoard /\ Relaxed
XInv == IInv /\ XScan /\ Remaining /\ LegsRidable

-----------------------------------------------------------------------------
\* The label of a stop that a hop in the past could be boarded at is final.
LEMMA BoardedLabelFinal ==
  ASSUME StrictHops, ScanInv, NEW c \in pending, Relax(c), NEW e \in Connection,
         Boardable(labels, e), e.depTime <= c.depTime
  PROVE  labels'[e.dep] = labels[e.dep]
<1>1. /\ c.depTime < c.arrTime /\ c \in Connection /\ labels[e.dep] \in Label
      /\ e.dep \in DOMAIN labels /\ e.dep \in DOMAIN labels'
  BY RelaxLabels DEF StrictHops, ScanInv, TypeOK, Boardable
<1>2. labels[e.dep].arr <= e.depTime
  BY <1>1, BufferAssumption DEF Boardable, Label, Connection
<1>3. labels[e.dep].arr < c.arrTime
  BY <1>1, <1>2 DEF Label, Connection
<1>4. ~ (Improves(c.arrTime, StateAfter(c).trips, e.dep))
  BY <1>1, <1>3 DEF Improves, Better, Label, Connection
<1>5. QED
  BY <1>1, <1>4, RelaxLabels DEF ScanInv

\* Relaxing a hop makes no hop boardable that departed by then.
LEMMA NoneNewBoardable ==
  ASSUME StrictHops, ScanInv, NEW c \in pending, Relax(c), NEW e \in Connection,
         Boardable(labels', e), e.depTime <= c.depTime
  PROVE  Boardable(labels, e)
<1>1. /\ c.depTime < c.arrTime /\ c \in Connection /\ e.dep \in DOMAIN labels'
      /\ labels'[e.dep] \in Label
  BY RelaxTypeOK DEF StrictHops, ScanInv, TypeOK, Boardable
<1>2. labels'[e.dep].arr < c.arrTime
  BY <1>1, BufferAssumption DEF Boardable, Label, Connection
<1>3. e.dep \in DOMAIN labels /\ labels'[e.dep] = labels[e.dep]
  BY <1>1, <1>2, RelaxLabels DEF Offer, ScanInv, Connection
<1>4. QED
  BY <1>3 DEF Boardable

\* Two hops of one trip scanned in departure order come in travel order.
LEMMA TravelOrder ==
  ASSUME StrictHops, ScanInv, NEW e \in timetable, NEW l \in timetable,
         e.trip = l.trip
  PROVE  (e.depTime <= l.depTime) <=> (e.seq <= l.seq)
<1>1. /\ e \in Connection /\ l \in Connection
      /\ e.depTime < e.arrTime /\ l.depTime < l.arrTime
      /\ e.seq = l.seq => e = l
      /\ e.seq < l.seq => e.arrTime <= l.depTime
      /\ l.seq < e.seq => l.arrTime <= e.depTime
  BY TimetablesAssumption DEF StrictHops, ScanInv, TypeOK
<1>2. QED
  BY <1>1 DEF Connection

\* Relaxing a hop keeps the counts right and leaves no scanned ride unrelaxed.
LEMMA RelaxXScan ==
  ASSUME StrictHops, ScanInv, XScan, NEW c \in pending, Relax(c)
  PROVE  XScan'
<1>1. /\ UNCHANGED <<timetable, origin, destination, departAt, pc, cursor, legs>>
      /\ pending' = pending \ {c} /\ pc = "scan" /\ Following(c)
      /\ c \in Connection /\ timetable \subseteq Connection /\ c \in timetable
      /\ Scanned' = Scanned \cup {c} /\ Scanned \subseteq timetable
      /\ pending \subseteq timetable
  BY DEF Relax, query, ScanInv, TypeOK, Scanned
<1>2. \A e \in Scanned' : e \in Connection /\ e.depTime <= c.depTime
  BY <1>1 DEF XScan, HopsInOrder, Connection
<1>3. /\ StateAfter(c).entry \in Scanned' /\ StateAfter(c).entry \in Connection
      /\ Boardable(labels, StateAfter(c).entry)
      /\ StateAfter(c).trips = labels[StateAfter(c).entry.dep].trips + 1
  <2>1. CASE BoardsFresh(c)
    BY <1>1, <2>1, StateAfterJustified DEF StateAfter
  <2>2. CASE ~ BoardsFresh(c)
    BY <1>1, <2>2, StateAfterJustified
      DEF StateAfter, Relax, XScan, LabelsScanned, CountsMatch
  <2>3. QED
    BY <2>1, <2>2
<1>4. labels'[StateAfter(c).entry.dep] = labels[StateAfter(c).entry.dep]
  BY <1>2, <1>3, BoardedLabelFinal
<1>5. CountsMatch'
  <2>1. ASSUME NEW s \in DOMAIN labels', s # origin
        PROVE  labels'[s].trips = labels'[labels'[s].entry.dep].trips + 1
    <3>1. CASE s \in DOMAIN labels /\ labels'[s] = labels[s]
      <4>1. /\ labels[s].entry \in Connection /\ Boardable(labels, labels[s].entry)
            /\ labels[s].entry.depTime <= c.depTime
        BY <1>1, <1>2, <2>1, <3>1
          DEF ScanInv, LabelsJustified, RideTo, XScan, LabelsScanned
      <4>2. labels'[labels[s].entry.dep] = labels[labels[s].entry.dep]
        BY <4>1, BoardedLabelFinal
      <4>3. QED
        BY <2>1, <3>1, <4>2 DEF XScan, CountsMatch
    <3>2. CASE s = c.arr /\ labels'[s] = Offer(c)
      BY <1>3, <1>4, <3>2 DEF Offer
    <3>3. QED
      BY <3>1, <3>2, RelaxLabels DEF ScanInv
  <2>2. ASSUME NEW t \in DOMAIN boarded'
        PROVE  boarded'[t].trips = labels'[boarded'[t].entry.dep].trips + 1
    <3>1. CASE t = c.trip
      BY <1>3, <1>4, <3>1, RelaxTrips DEF ScanInv
    <3>2. CASE t # c.trip
      <4>1. t \in DOMAIN boarded /\ boarded'[t] = boarded[t]
        BY <3>2, RelaxTrips DEF ScanInv
      <4>2. /\ boarded[t].entry \in Connection /\ Boardable(labels, boarded[t].entry)
            /\ boarded[t].entry.depTime <= c.depTime
        BY <1>1, <1>2, <4>1 DEF ScanInv, TripsJustified, XScan, LabelsScanned
      <4>3. labels'[boarded[t].entry.dep] = labels[boarded[t].entry.dep]
        BY <4>2, BoardedLabelFinal
      <4>4. QED
        BY <4>1, <4>3 DEF XScan, CountsMatch
    <3>3. QED
      BY <3>1, <3>2
  <2>3. QED
    BY <1>1, <2>1, <2>2 DEF CountsMatch
<1>6. HopsInOrder'
  BY <1>1, <1>2 DEF HopsInOrder, XScan, Following
<1>7. LabelsScanned'
  <2>1. \A s \in DOMAIN labels' : s # origin => labels'[s].entry \in Scanned'
    BY <1>1, <1>3, RelaxLabels DEF XScan, LabelsScanned, Offer, ScanInv
  <2>2. \A t \in DOMAIN boarded' : boarded'[t].entry \in Scanned'
    BY <1>1, <1>3, RelaxTrips DEF XScan, LabelsScanned, ScanInv
  <2>3. QED
    BY <1>1, <2>1, <2>2 DEF LabelsScanned
<1>8. OnBoard'
  <2> SUFFICES ASSUME NEW e \in Scanned', Boardable(labels', e)
               PROVE  e.trip \in DOMAIN boarded'
    BY DEF OnBoard, Boardable
  <2>1. Boardable(labels, e)
    BY <1>2, NoneNewBoardable
  <2>2. QED
    BY <1>1, <2>1, RelaxTrips DEF XScan, OnBoard, ScanInv
<1>9. Relaxed'
  <2> SUFFICES ASSUME NEW e \in Scanned', NEW l \in Scanned', e.trip = l.trip,
                      e.seq <= l.seq, Boardable(labels', e)
               PROVE  l.arr \in DOMAIN labels' /\ labels'[l.arr].arr <= l.arrTime
    BY DEF Relaxed
  <2>1. Boardable(labels, e) /\ e \in timetable /\ l \in timetable
    BY <1>1, <1>2, NoneNewBoardable
  <2>2. CASE l = c
    <3>1. CASE Improves(c.arrTime, StateAfter(c).trips, c.arr)
      <4>1. labels' = Put(labels, c.arr, Offer(c))
        BY <3>1 DEF Relax, Offer
      <4>2. QED
        BY <1>1, <2>2, <4>1 DEF Put, Offer, Connection
    <3>2. CASE ~ Improves(c.arrTime, StateAfter(c).trips, c.arr)
      <4>1. labels' = labels
        BY <3>2 DEF Relax
      <4>2. c.arr \in DOMAIN labels /\ labels[c.arr] \in Label
        BY <3>2 DEF Improves, ScanInv, TypeOK
      <4>3. QED
        BY <1>1, <2>2, <3>2, <4>1, <4>2 DEF Improves, Better, Label, Connection
    <3>3. QED
      BY <3>1, <3>2
  <2>3. CASE l # c
    <3>1. l \in Scanned /\ l.depTime <= c.depTime
      BY <1>1, <1>2, <2>3
    <3>2. e # c
      <4>1. e.depTime <= l.depTime
        BY <2>1, TravelOrder
      <4>2. SUFFICES ASSUME e = c PROVE FALSE
        OBVIOUS
      <4>3. c.depTime = l.depTime
        BY <1>1, <3>1, <4>1, <4>2 DEF Connection
      <4>4. l.seq <= c.seq /\ c.seq <= l.seq
        BY <1>1, <2>1, <4>2, <4>3, TravelOrder DEF Connection
      <4>5. QED
        BY <1>1, <2>1, <2>3, <4>2, <4>4, TimetablesAssumption DEF Connection, ScanInv
    <3>3. l.arr \in DOMAIN labels /\ labels[l.arr].arr <= l.arrTime
      BY <1>1, <2>1, <3>1, <3>2 DEF XScan, Relaxed
    <3>4. /\ l.arr \in DOMAIN labels' /\ labels'[l.arr].arr <= labels[l.arr].arr
          /\ labels[l.arr] \in Label /\ labels'[l.arr] \in Label /\ l.arrTime \in Int
      BY <1>1, <2>1, <3>3, RelaxLabels, LabelsImprove, RelaxTypeOK
        DEF ScanInv, TypeOK, Connection
    <3>5. QED
      BY <3>3, <3>4 DEF Label
  <2>4. QED
    BY <2>2, <2>3
<1>10. QED
  BY <1>5, <1>6, <1>7, <1>8, <1>9 DEF XScan

\* So does passing a hop over, because it leaves too early or because nobody
\* can be on it.
LEMMA PassXScan ==
  ASSUME StrictHops, ScanInv, XScan, NEW c \in pending, SkipEarly(c) \/ PassBy(c)
  PROVE  XScan'
<1>1. /\ UNCHANGED <<timetable, origin, destination, departAt, labels, boarded, pc>>
      /\ pending' = pending \ {c} /\ pc = "scan" /\ Following(c)
      /\ c \in Connection /\ timetable \subseteq Connection /\ c \in timetable
      /\ Scanned' = Scanned \cup {c} /\ Scanned \subseteq timetable
      /\ pending \subseteq timetable /\ departAt \in Int
  BY DepartTimesAssumption DEF SkipEarly, PassBy, query, ScanInv, TypeOK, Scanned
<1>2. \A e \in Scanned' : e \in Connection /\ e.depTime <= c.depTime
  BY <1>1 DEF XScan, HopsInOrder, Connection
<1>3. CountsMatch'
  BY <1>1 DEF XScan, CountsMatch
<1>4. HopsInOrder'
  BY <1>1, <1>2 DEF HopsInOrder, XScan, Following
<1>5. LabelsScanned'
  BY <1>1 DEF LabelsScanned, XScan
<1>6. Boardable(labels, c) => c.trip \in DOMAIN boarded
  <2>1. CASE SkipEarly(c)
    <3>1. ASSUME Boardable(labels, c) PROVE FALSE
      <4>1. /\ labels[c.dep].arr \in Int /\ labels[c.dep].arr >= departAt
            /\ labels[c.dep].arr <= c.depTime
        BY <1>1, <3>1, BufferAssumption
          DEF Boardable, ScanInv, NoEarlier, TypeOK, Label, Connection
      <4>2. QED
        BY <1>1, <2>1, <4>1 DEF SkipEarly, Connection
    <3>2. QED
      BY <3>1
  <2>2. CASE PassBy(c)
    BY <2>2 DEF PassBy, BoardsFresh, CanBoard, BufferAt, Boardable
  <2>3. QED
    BY <2>1, <2>2
<1>7. OnBoard'
  BY <1>1, <1>6 DEF OnBoard, XScan
<1>8. Relaxed'
  <2> SUFFICES ASSUME NEW e \in Scanned', NEW l \in Scanned', e.trip = l.trip,
                      e.seq <= l.seq, Boardable(labels, e)
               PROVE  l.arr \in DOMAIN labels /\ labels[l.arr].arr <= l.arrTime
    BY <1>1 DEF Relaxed
  <2>1. e \in timetable /\ l \in timetable /\ e.depTime <= l.depTime
    BY <1>1, TravelOrder
  <2>2. CASE SkipEarly(c)
    <3>1. /\ labels[e.dep].arr \in Int /\ labels[e.dep].arr >= departAt
          /\ labels[e.dep].arr <= e.depTime
      BY <1>1, <2>1, BufferAssumption
        DEF Boardable, ScanInv, NoEarlier, TypeOK, Label, Connection
    <3>2. e # c /\ l # c
      BY <1>1, <2>1, <2>2, <3>1 DEF SkipEarly, Connection
    <3>3. QED
      BY <1>1, <3>2 DEF XScan, Relaxed
  <2>3. CASE PassBy(c)
    <3>1. c.trip \notin DOMAIN boarded
      BY <2>3 DEF PassBy
    <3>2. e.trip \in DOMAIN boarded
      BY <1>1, <1>6 DEF XScan, OnBoard
    <3>3. e # c /\ l # c
      BY <3>1, <3>2
    <3>4. QED
      BY <1>1, <3>3 DEF XScan, Relaxed
  <2>4. QED
    BY <2>2, <2>3
<1>9. QED
  BY <1>3, <1>4, <1>5, <1>7, <1>8 DEF XScan

\* The steps after the scan read labels and trips and change none.
LEMMA RestXScan ==
  ASSUME XScan, UNCHANGED <<query, pending, labels, boarded>>,
         pc # "scan" \/ pc' = pc \/ \A d \in pending : PastBest(d),
         pc' = "scan" => pc = "scan"
  PROVE  XScan'
<1>1. UNCHANGED <<timetable, origin, destination, departAt>> /\ Scanned' = Scanned
  BY DEF query, Scanned
<1>2. CountsMatch' /\ LabelsScanned' /\ OnBoard' /\ Relaxed'
  BY <1>1 DEF XScan, CountsMatch, LabelsScanned, OnBoard, Relaxed
<1>3. HopsInOrder'
  BY <1>1 DEF XScan, HopsInOrder, PastBest
<1>4. QED
  BY <1>2, <1>3 DEF XScan

\* One turn of the walk adds one leg, a ride on one vehicle, and comes to a
\* stop reached with one vehicle less.
LEMMA WalkBackX ==
  ASSUME StrictHops, XInv, WalkBack
  PROVE  Remaining' /\ LegsRidable'
<1> DEFINE last == labels[cursor].alight
           entry == labels[cursor].entry
           leg == LegOf(last, entry)
<1>1. /\ pc = "walk" /\ cursor # origin /\ legs' = <<leg>> \o legs
      /\ cursor' = entry.dep /\ pc' = pc
      /\ UNCHANGED <<timetable, origin, destination, departAt, pending, labels, boarded>>
  BY DEF WalkBack, query
<1>2. /\ cursor \in DOMAIN labels /\ legs \in Seq(Leg) /\ ScanInv
      /\ timetable \subseteq Connection /\ labels \in [DOMAIN labels -> Label]
      /\ destination \in DOMAIN labels
  BY <1>1 DEF XInv, IInv, Walked, ScanInv, TypeOK
<1>3. /\ last \in timetable /\ entry \in timetable /\ last.trip = entry.trip
      /\ last.arr = cursor /\ last.arrTime = labels[cursor].arr
      /\ entry.depTime <= last.depTime /\ entry.dep \in DOMAIN labels
      /\ labels[cursor].trips = labels[entry.dep].trips + 1
  BY <1>1, <1>2
    DEF ScanInv, LabelsJustified, RideTo, Boardable, XInv, XScan, CountsMatch
<1>4. leg \in Leg /\ entry.seq <= last.seq
  BY <1>2, <1>3, LegOfType, TravelOrder
<1>5. /\ leg.trip = last.trip /\ leg.board = entry.dep /\ leg.boardTime = entry.depTime
      /\ leg.alight = last.arr /\ leg.alightTime = last.arrTime
  BY DEF LegOf
<1> HIDE DEF last, entry, leg
<1>6. /\ legs' \in Seq(Leg) /\ Len(legs') = Len(legs) + 1 /\ legs'[1] = leg
      /\ \A i \in 1..Len(legs) : legs'[i + 1] = legs[i]
  BY <1>1, <1>2, <1>4, Prepend
<1>7. Remaining'
  <2>1. /\ labels[cursor].trips \in Nat /\ labels[destination].trips \in Nat
        /\ labels[entry.dep].trips \in Nat
    BY <1>2, <1>3 DEF Label
  <2>2. Len(legs') + labels[entry.dep].trips = labels[destination].trips
    BY <1>1, <1>2, <1>3, <1>6, <2>1 DEF XInv, Remaining
  <2>3. legs'[Len(legs')].alightTime = labels[destination].arr
    <3>1. CASE legs = <<>>
      BY <1>2, <1>3, <1>5, <1>6, <3>1 DEF XInv, IInv, JourneyConnects
    <3>2. CASE legs # <<>>
      <4>1. Len(legs) \in 1..Len(legs)
        BY <1>2, <3>2
      <4>2. QED
        BY <1>6, <3>2, <4>1 DEF XInv, Remaining
    <3>3. QED
      BY <3>1, <3>2
  <2>4. QED
    BY <1>1, <2>2, <2>3 DEF Remaining
<1>8. LegsRidable'
  <2> SUFFICES ASSUME NEW i \in 1..Len(legs')
               PROVE  \E first, final \in timetable :
                        /\ first.trip = legs'[i].trip /\ final.trip = legs'[i].trip
                        /\ first.seq <= final.seq
                        /\ first.dep = legs'[i].board /\ first.depTime = legs'[i].boardTime
                        /\ final.arr = legs'[i].alight /\ final.arrTime = legs'[i].alightTime
    BY <1>1 DEF LegsRidable
  <2>1. CASE i = 1
    BY <1>3, <1>4, <1>5, <1>6, <2>1
  <2>2. CASE i # 1
    <3>1. i - 1 \in 1..Len(legs) /\ legs'[i] = legs[i - 1]
      <4>1. i - 1 \in 1..Len(legs)
        BY <1>2, <1>6, <2>2
      <4>2. legs'[(i - 1) + 1] = legs[i - 1]
        BY <1>6, <4>1
      <4>3. QED
        BY <4>1, <4>2
    <3>2. QED
      BY <3>1 DEF XInv, LegsRidable
  <2>3. QED
    BY <2>1, <2>2
<1>9. QED
  BY <1>7, <1>8

\* A query starts with nothing scanned and nothing walked.
LEMMA InitXInv == Init => XInv
<1> SUFFICES ASSUME Init PROVE XInv
  OBVIOUS
<1>1. /\ DOMAIN labels = {origin} /\ DOMAIN boarded = {} /\ Scanned = {}
      /\ legs = <<>> /\ pc = "scan"
  BY DEF Init, Put, EmptyDict, Scanned
<1>2. XScan
  BY <1>1 DEF XScan, CountsMatch, HopsInOrder, LabelsScanned, OnBoard, Relaxed
<1>3. Remaining /\ LegsRidable
  BY <1>1 DEF Remaining, LegsRidable
<1>4. QED
  BY <1>2, <1>3, InitIInv DEF XInv

\* Every step of the planner keeps the invariant.
LEMMA StepXInv == ASSUME StrictHops PROVE XInv /\ [Next]_vars => XInv'
<1> SUFFICES ASSUME XInv, [Next]_vars PROVE XInv'
  OBVIOUS
<1>0. /\ ScanInv /\ XScan /\ Remaining /\ LegsRidable /\ Walked
      /\ LabelsJustified /\ OriginLabel
  BY DEF XInv, IInv, ScanInv
<1>00. IInv'
  BY StepIInv DEF XInv
<1>1. ASSUME NEW c \in pending, SkipEarly(c) \/ PassBy(c) \/ Relax(c) PROVE XInv'
  <2>1. XScan'
    BY <1>0, <1>1, PassXScan, RelaxXScan
  <2>2. pc = "scan" /\ pc' = "scan" /\ UNCHANGED <<query, legs>> /\ legs = <<>>
    BY <1>0, <1>1 DEF SkipEarly, PassBy, Relax, Walked
  <2>3. Remaining' /\ LegsRidable'
    BY <2>2 DEF Remaining, LegsRidable, query
  <2>4. QED
    BY <1>00, <2>1, <2>3 DEF XInv
<1>2. ASSUME NEW c \in pending, Cutoff(c) PROVE XInv'
  <2>1. /\ pc = "scan" /\ pc' = "select"
        /\ UNCHANGED <<query, pending, labels, boarded, legs>>
    BY <1>2 DEF Cutoff
  <2>2. \A d \in pending : PastBest(d)
    <3>1. /\ destination \in DOMAIN labels /\ labels[destination].arr \in Int
          /\ c.depTime \in Int /\ c.depTime > labels[destination].arr
          /\ \A d \in pending : d.depTime \in Int /\ c.depTime <= d.depTime
      BY <1>0, <1>2 DEF Cutoff, Following, PastBest, ScanInv, TypeOK, Label, Connection
    <3>2. QED
      BY <3>1 DEF PastBest
  <2>3. XScan'
    BY <1>0, <2>1, <2>2, RestXScan
  <2>4. Remaining' /\ LegsRidable'
    BY <1>0, <2>1 DEF Remaining, LegsRidable, query
  <2>5. QED
    BY <1>00, <2>3, <2>4 DEF XInv
<1>3. CASE ScanEnds
  <2>1. /\ pc = "scan" /\ pc' = "select" /\ pending = {}
        /\ UNCHANGED <<query, pending, labels, boarded, legs>>
    BY <1>3 DEF ScanEnds
  <2>2. XScan'
    BY <1>0, <2>1, RestXScan
  <2>3. Remaining' /\ LegsRidable'
    BY <1>0, <2>1 DEF Remaining, LegsRidable, query
  <2>4. QED
    BY <1>00, <2>2, <2>3 DEF XInv
<1>4. CASE NoRide
  <2>1. /\ pc = "select" /\ pc' # "scan" /\ pc' \in {"none", "found"}
        /\ UNCHANGED <<query, pending, labels, boarded, legs, cursor>>
        /\ legs = <<>> /\ cursor = destination
    BY <1>0, <1>4 DEF NoRide, Walked
  <2>2. XScan'
    BY <1>0, <2>1, RestXScan
  <2>3. pc' = "none" => destination \notin DOMAIN labels
    <3>1. SUFFICES ASSUME destination \in DOMAIN labels, destination # origin
                   PROVE  Reached
      BY <1>4, <2>1 DEF NoRide
    <3>2. QED
      BY <1>0, <3>1, NoConnAssumption
        DEF LabelsJustified, RideTo, ScanInv, TypeOK, Reached
  <2>4. pc' = "found" => /\ destination \in DOMAIN labels
                         /\ labels[destination].trips \in Nat
    BY <1>0, <1>4 DEF NoRide, OriginLabel
  <2>5. Remaining' /\ LegsRidable'
    BY <1>0, <2>1, <2>3, <2>4 DEF Remaining, LegsRidable, query
  <2>6. QED
    BY <1>00, <2>2, <2>5 DEF XInv
<1>5. CASE StartWalk
  <2>1. /\ pc = "select" /\ pc' = "walk" /\ cursor' = destination /\ legs = <<>>
        /\ UNCHANGED <<query, pending, labels, boarded, legs>>
        /\ destination \in DOMAIN labels
    BY <1>0, <1>5 DEF StartWalk, Walked, Reached
  <2>2. XScan'
    BY <1>0, <2>1, RestXScan
  <2>3. labels[destination].trips \in Nat
    BY <1>0, <2>1 DEF ScanInv, TypeOK, Label
  <2>4. Remaining' /\ LegsRidable'
    BY <1>0, <2>1, <2>3 DEF Remaining, LegsRidable, query
  <2>5. QED
    BY <1>00, <2>2, <2>4 DEF XInv
<1>6. CASE WalkBack
  <2>1. XScan'
    BY <1>0, <1>6, RestXScan DEF WalkBack
  <2>2. QED
    BY <1>00, <1>6, <2>1, WalkBackX DEF XInv
<1>7. CASE WalkEnds \/ UNCHANGED vars
  <2>1. /\ UNCHANGED <<query, pending, labels, boarded, legs, cursor>>
        /\ pc' = pc \/ (pc = "walk" /\ pc' = "found")
    BY <1>7 DEF WalkEnds, vars
  <2>2. XScan'
    BY <1>0, <2>1, RestXScan
  <2>3. Remaining' /\ LegsRidable'
    BY <1>0, <2>1 DEF Remaining, LegsRidable, query
  <2>4. QED
    BY <1>00, <2>2, <2>3 DEF XInv
<1>8. QED
  BY <1>1, <1>2, <1>3, <1>4, <1>5, <1>6, <1>7 DEF Next, Scan

\* The invariant of timetables whose hops take time.
THEOREM StrictInvariance == ASSUME StrictHops PROVE Spec => []XInv
<1>1. Init => XInv
  BY InitXInv
<1>2. XInv /\ [Next]_vars => XInv'
  BY StepXInv
<1>3. QED
  BY <1>1, <1>2, PTL DEF Spec

\* Every leg of the answer boards a trip and leaves it at a later hop of the
\* same trip (csa.py 39-63, 112-117).
THEOREM LegsAreRides == ASSUME StrictHops PROVE Spec => []LegsRidable
<1>1. XInv => LegsRidable
  BY DEF XInv
<1>2. QED
  BY <1>1, StrictInvariance, PTL

\* The vehicle count the tie-break compares is the number of legs returned
\* (csa.py 10-14, 101-117).
THEOREM CountsAreLegs == ASSUME StrictHops PROVE Spec => []VehiclesCounted
<1>1. XInv => VehiclesCounted
  <2> SUFFICES ASSUME XInv, pc = "found" PROVE Len(legs) = labels[destination].trips
    BY DEF VehiclesCounted
  <2>1. cursor = origin /\ labels[origin].trips = 0 /\ legs \in Seq(Leg)
    BY DEF XInv, IInv, JourneyConnects, ScanInv, OriginLabel, TypeOK
  <2>2. Len(legs) + labels[cursor].trips = labels[destination].trips /\ Len(legs) \in Nat
    BY <2>1 DEF XInv, Remaining
  <2>3. QED
    BY <2>1, <2>2
<1>2. QED
  BY <1>1, StrictInvariance, PTL

\* The label of a stop a trip in use was boarded at is never replaced
\* (csa.py 94-117).
THEOREM BoardingStopsAreFinal == ASSUME StrictHops PROVE Spec => BoardingStopsFinal
<1> DEFINE Kept == \A t \in DOMAIN boarded :
                     labels'[boarded[t].entry.dep] = labels[boarded[t].entry.dep]
<1>1. XInv /\ [Next]_vars => [Kept]_vars
  <2> SUFFICES ASSUME XInv, Next, NEW t \in DOMAIN boarded
               PROVE  labels'[boarded[t].entry.dep] = labels[boarded[t].entry.dep]
    OBVIOUS
  <2>1. ASSUME NEW c \in pending, Relax(c)
        PROVE  labels'[boarded[t].entry.dep] = labels[boarded[t].entry.dep]
    <3>1. /\ ScanInv /\ boarded[t].entry \in Connection
          /\ Boardable(labels, boarded[t].entry) /\ boarded[t].entry.depTime <= c.depTime
      BY <2>1 DEF XInv, IInv, ScanInv, TripsJustified, InOrder, TypeOK, Relax
    <3>2. QED
      BY <2>1, <3>1, BoardedLabelFinal
  <2>2. CASE UNCHANGED labels
    BY <2>2
  <2>3. QED
    BY <2>1, <2>2 DEF Next, Scan, SkipEarly, Cutoff, PassBy, ScanEnds, NoRide,
                      StartWalk, WalkBack, WalkEnds
<1>2. QED
  BY <1>1, StrictInvariance, PTL DEF Spec, BoardingStopsFinal

-----------------------------------------------------------------------------
(***************************************************************************)
(* No traveller beats the plan.  Wherever a traveller is, the planner's    *)
(* label says the stop is reached at least as early, unless the traveller  *)
(* is already later than the planned arrival.                              *)
(***************************************************************************)
Answered == pc \in {"found", "none"}

TTypes == /\ at \in Stops /\ clock \in Int /\ vehicles \in Nat
          /\ vehicles = 0 => at = origin
          /\ ~ Answered => at = origin /\ clock = departAt /\ vehicles = 0 /\ riding = NoConn
          /\ clock >= departAt
          /\ riding # NoConn => /\ riding \in timetable /\ riding.arrTime = clock
                                /\ vehicles # 0

Late == destination \in DOMAIN labels /\ clock > labels[destination].arr

\* The traveller's vehicle was boarded where the labels allow it.
Foreseen == riding # NoConn =>
              \E e \in Scanned : /\ Boardable(labels, e) /\ e.trip = riding.trip
                                 /\ e.seq <= riding.seq

KeepsUp == /\ at \in DOMAIN labels /\ labels[at].arr <= clock
           /\ Foreseen

TInv == XInv /\ TTypes /\ (Late \/ KeepsUp)

\* A traveller sets out where the first label is.
LEMMA InitTInv == TInit => TInv
<1> SUFFICES ASSUME TInit PROVE TInv
  OBVIOUS
<1>1. XInv
  BY InitXInv DEF TInit
<1>2. /\ OriginLabel /\ at = origin /\ clock = departAt /\ riding = NoConn
      /\ vehicles = 0 /\ origin \in Stops /\ departAt \in Int
  BY <1>1, DepartTimesAssumption DEF TInit, XInv, IInv, ScanInv, TypeOK
<1>3. TTypes /\ KeepsUp
  BY <1>2 DEF TTypes, KeepsUp, Foreseen, OriginLabel
<1>4. QED
  BY <1>1, <1>3 DEF TInv

\* Riding a hop the planner scanned brings the traveller to a stop with a
\* label as early; one it left out brings the traveller there too late.
LEMMA TravelTInv ==
  ASSUME StrictHops, TInv, NEW c \in timetable, Travel(c)
  PROVE  TInv'
<1>1. /\ UNCHANGED <<timetable, origin, destination, departAt, pending, labels,
                    boarded, pc, cursor, legs>>
      /\ at' = c.arr /\ clock' = c.arrTime /\ riding' = c
      /\ Answered
  BY DEF Travel, vars, query, Answered
<1>2. XInv'
  BY <1>1 DEF TInv, XInv, IInv, ScanInv, TypeOK, OriginLabel, LabelsJustified, RideTo,
              Boardable, TripsJustified, InOrder, NoEarlier, Walked, BufferAt,
              JourneyConnects, XScan, CountsMatch, HopsInOrder, PastBest, LabelsScanned,
              Scanned, OnBoard, Relaxed, Remaining, LegsRidable
<1>3. /\ c \in Connection /\ c.arr \in Stops /\ c.arrTime \in Int /\ c.depTime \in Int
      /\ c.depTime < c.arrTime /\ c # NoConn /\ timetable \subseteq Connection
      /\ labels \in [DOMAIN labels -> Label] /\ ScanInv /\ departAt \in Int
  BY NoConnAssumption, DepartTimesAssumption
    DEF TInv, XInv, IInv, ScanInv, TypeOK, Connection, StrictHops
<1>4. clock \in Int /\ clock >= departAt /\ vehicles \in Nat
  BY DEF TInv, TTypes
<1>5. c.depTime >= clock
  <2>1. CASE StaysOn(c)
    <3>1. riding \in timetable /\ riding.arrTime = clock
      BY <2>1 DEF StaysOn, TInv, TTypes
    <3>2. riding.arrTime <= c.depTime
      BY <1>3, <2>1, <3>1, TimetablesAssumption DEF StaysOn, ScanInv
    <3>3. QED
      BY <1>3, <1>4, <3>1, <3>2
  <2>2. CASE Boards(c)
    BY <1>3, <1>4, <2>2, BufferAssumption DEF Boards
  <2>3. QED
    BY <2>1, <2>2 DEF Travel
<1>6. clock' > clock
  BY <1>1, <1>3, <1>4, <1>5
<1>7. TTypes'
  <2>1. StaysOn(c) => vehicles # 0
    BY DEF StaysOn, TInv, TTypes
  <2>2. vehicles' \in Nat /\ vehicles' # 0
    BY <1>4, <2>1 DEF Travel
  <2>3. QED
    BY <1>1, <1>3, <1>4, <1>6, <2>2 DEF TTypes, Answered
<1>8. CASE Late
  BY <1>1, <1>2, <1>3, <1>4, <1>6, <1>7, <1>8 DEF Late, TInv, Label
<1>9. CASE ~ Late /\ c \in pending
  <2>1. PastBest(c)
    BY <1>1, <1>9 DEF TInv, XInv, XScan, HopsInOrder, Answered
  <2>2. Late'
    BY <1>1, <1>3, <2>1 DEF PastBest, Late, Label
  <2>3. QED
    BY <1>2, <1>7, <2>2 DEF TInv
<1>10. CASE ~ Late /\ c \notin pending
  <2>1. c \in Scanned /\ KeepsUp
    BY <1>10 DEF Scanned, TInv
  <2>2. PICK e \in Scanned : /\ Boardable(labels, e) /\ e.trip = c.trip
                             /\ e.seq <= c.seq
    <3>1. CASE StaysOn(c)
      <4>1. PICK e \in Scanned : /\ Boardable(labels, e) /\ e.trip = riding.trip
                                 /\ e.seq <= riding.seq
        BY <2>1, <3>1 DEF KeepsUp, Foreseen, StaysOn
      <4>2. /\ riding \in Connection /\ e \in Connection /\ c.trip = riding.trip
            /\ riding.seq < c.seq
        BY <1>3, <3>1 DEF StaysOn, TInv, TTypes, Scanned
      <4>3. QED
        BY <1>3, <4>1, <4>2 DEF Connection
    <3>2. CASE Boards(c)
      <4>1. /\ c.dep = at /\ at \in DOMAIN labels /\ labels[at].arr <= clock
            /\ labels[at].arr \in Int /\ OriginLabel
        BY <1>3, <2>1, <3>2 DEF Boards, KeepsUp, Label, ScanInv
      <4>2. Boardable(labels, c)
        <5>1. CASE vehicles = 0
          BY <1>3, <1>4, <3>2, <4>1, <5>1
            DEF Boards, Boardable, OriginLabel, TInv, TTypes
        <5>2. CASE vehicles # 0
          BY <1>3, <1>4, <3>2, <4>1, <5>2, BufferAssumption DEF Boards, Boardable
        <5>3. QED
          BY <5>1, <5>2
      <4>3. QED
        BY <1>3, <2>1, <4>2 DEF Connection
    <3>3. QED
      BY <3>1, <3>2 DEF Travel
  <2>3. c.arr \in DOMAIN labels /\ labels[c.arr].arr <= c.arrTime
    BY <2>1, <2>2 DEF TInv, XInv, XScan, Relaxed
  <2>4. KeepsUp'
    BY <1>1, <2>2, <2>3 DEF KeepsUp, Foreseen, Scanned
  <2>5. QED
    BY <1>2, <1>7, <2>4 DEF TInv
<1>11. QED
  BY <1>8, <1>9, <1>10

\* Neither the planner's steps nor the traveller's break the bound.
LEMMA StepTInv == ASSUME StrictHops PROVE TInv /\ [TNext]_tvars => TInv'
<1> SUFFICES ASSUME TInv, [TNext]_tvars PROVE TInv'
  OBVIOUS
<1>1. ASSUME NEW c \in timetable, Travel(c) PROVE TInv'
  BY <1>1, TravelTInv
<1>2. CASE Next /\ UNCHANGED rvars
  <2>1. XInv' /\ XInv /\ ScanInv' /\ ScanInv
    BY <1>2, StepXInv DEF TInv, XInv, IInv
  <2>2. ~ Answered /\ UNCHANGED query
    BY <1>2 DEF Next, Scan, SkipEarly, Cutoff, PassBy, Relax, ScanEnds, NoRide,
                StartWalk, WalkBack, WalkEnds, Answered
  <2>3. UNCHANGED <<timetable, origin, destination, departAt, at, clock, vehicles, riding>>
    BY <1>2, <2>2 DEF query, rvars
  <2>4. TTypes /\ at = origin /\ clock = departAt /\ riding = NoConn /\ departAt \in Int
    BY <2>1, <2>2, DepartTimesAssumption DEF TInv, TTypes, ScanInv, TypeOK
  <2>5. TTypes'
    <3>1. vehicles = 0 /\ at = origin /\ clock >= departAt
      BY <2>2, <2>4 DEF TTypes
    <3>2. /\ at' = origin' /\ clock' = departAt' /\ vehicles' = 0 /\ riding' = NoConn
          /\ at' \in Stops /\ clock' \in Int /\ clock' >= departAt'
      BY <2>3, <2>4, <3>1 DEF TTypes
    <3>3. QED
      BY <3>2 DEF TTypes
  <2>6. KeepsUp'
    <3>1. origin \in DOMAIN labels' /\ labels'[origin].arr = departAt
      BY <2>1, <2>3 DEF ScanInv, OriginLabel
    <3>2. labels'[origin].arr <= departAt
      BY <2>4, <3>1
    <3>3. at' = origin /\ clock' = departAt /\ riding' = NoConn
      BY <2>3, <2>4
    <3>4. QED
      BY <3>1, <3>2, <3>3 DEF KeepsUp, Foreseen
  <2>7. QED
    BY <2>1, <2>5, <2>6 DEF TInv
<1>3. CASE UNCHANGED tvars
  <2>1. XInv'
    BY <1>3, StepXInv DEF TInv, tvars
  <2>2. UNCHANGED <<timetable, origin, destination, departAt, pending, labels, pc,
                    at, clock, vehicles, riding>>
    BY <1>3 DEF tvars, vars, rvars, query
  <2>3. QED
    BY <2>1, <2>2 DEF TInv, TTypes, Answered, Late, KeepsUp, Foreseen, Scanned, Boardable
<1>4. QED
  BY <1>1, <1>2, <1>3 DEF TNext

\* The planner is exact for earliest arrival (csa.py 3-8): on every timetable
\* whose hops take time, for every query, no journey the buses allow, with
\* any number of changes, reaches the destination before the planned one, and
\* a destination some journey reaches is never reported unreachable.
THEOREM PlannerIsExact == ASSUME StrictHops PROVE TSpec => []EarliestArrival
<1>1. TInit => TInv
  BY InitTInv
<1>2. TInv /\ [TNext]_tvars => TInv'
  BY StepTInv
<1>3. TInv => EarliestArrival
  <2> SUFFICES ASSUME TInv, Answered, at = destination
               PROVE  pc = "found" /\ PlannedArrival <= clock
    BY DEF EarliestArrival, Answered
  <2>1. /\ labels \in [DOMAIN labels -> Label] /\ clock \in Int /\ clock >= departAt
        /\ departAt \in Int
    BY DepartTimesAssumption DEF TInv, XInv, IInv, ScanInv, TypeOK, TTypes
  <2>2. destination \in DOMAIN labels /\ labels[destination].arr \in Int
    BY <2>1 DEF TInv, Late, KeepsUp, Label
  <2>3. pc = "found"
    BY <2>2 DEF TInv, XInv, Remaining, Answered
  <2>4. labels[destination].arr <= clock
    BY <2>1, <2>2 DEF TInv, Late, KeepsUp
  <2>5. CASE legs = <<>>
    BY <2>1, <2>3, <2>5 DEF PlannedArrival
  <2>6. CASE legs # <<>>
    BY <2>3, <2>4, <2>6 DEF PlannedArrival, TInv, XInv, Remaining
  <2>7. QED
    BY <2>3, <2>5, <2>6
<1>4. QED
  BY <1>1, <1>2, <1>3, PTL DEF TSpec

=============================================================================
