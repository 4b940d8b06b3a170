------------------------ MODULE RealtimeFanoutProofs ------------------------
(***************************************************************************)
(* Proofs about the fan-out, for any set of clients and any finite set of  *)
(* vehicles: the types, that the set of clients keeps no client whose      *)
(* handler has returned, and that no update takes a client back in time.   *)
(*                                                                         *)
(* The last rests on when the loop ticks: only once every message of the   *)
(* tick before is broadcast or given up, so that what waits to be sent is  *)
(* never older than what has been committed.                               *)
(***************************************************************************)
EXTENDS RealtimeFanout, SequenceTheorems, FiniteSetTheorems, TLAPS

\* Nothing is left to broadcast when the loop sleeps, so no tick overtakes it.
NothingLeft == loop = "sleep" => messages = <<>>

\* What is left to broadcast are positions of the last tick.
MessagesCurrent == \A i \in DOMAIN messages : messages[i].age = "current"

IInv == TypeOK /\ NoLeakedClient /\ NothingLeft /\ MessagesCurrent

\* The conjuncts of TypeOK about the loop alone.
LoopTypes ==
  /\ loop \in {"sleep", "broadcast", "send"}
  /\ messages \in Seq(Position)
  /\ started \subseteq Clients /\ target \in Clients \cup {NoClient}
  /\ visited \subseteq Clients /\ dead \subseteq visited
  /\ target # NoClient <=> loop = "send"
  /\ loop = "send" => target \in visited \ dead /\ messages # <<>>

ServerTypes ==
  /\ clients \subseteq Clients /\ linked \subseteq Clients
  /\ handler \in [Clients -> {"away", "reading", "sending", "open"}]
  /\ snapshot \in [Clients -> [Vehicles -> Ages]]
  /\ view \in [Clients -> [Vehicles -> Ages]]
  /\ active \subseteq Vehicles

-----------------------------------------------------------------------------
LEMMA TypesSplit == TypeOK <=> ServerTypes /\ LoopTypes
BY DEF TypeOK, ServerTypes, LoopTypes

\* The head of a queue of current positions is one, and so is its tail.
LEMMA QueueShrinks ==
  ASSUME NEW queue \in Seq(Position), queue # <<>>,
         \A i \in DOMAIN queue : queue[i].age = "current"
  PROVE  /\ Head(queue) \in Position /\ Head(queue).age = "current"
         /\ Tail(queue) \in Seq(Position)
         /\ \A i \in DOMAIN Tail(queue) : Tail(queue)[i].age = "current"
<1>1. Len(queue) \in Nat /\ Len(queue) >= 1 /\ DOMAIN queue = 1..Len(queue)
  BY LenProperties, EmptySeq
<1>2. Head(queue) = queue[1] /\ 1 \in DOMAIN queue
  BY <1>1, HeadTailProperties
<1>3. /\ Tail(queue) \in Seq(Position) /\ Len(Tail(queue)) = Len(queue) - 1
      /\ \A i \in 1..Len(Tail(queue)) : Tail(queue)[i] = queue[i + 1]
  BY HeadTailProperties
<1>4. DOMAIN Tail(queue) = 1..Len(queue) - 1
  BY <1>3, LenProperties
<1>5. Head(queue) \in Position /\ Head(queue).age = "current"
  BY <1>2, <1>1, ElementOfSeq
<1>6. ASSUME NEW i \in DOMAIN Tail(queue)
      PROVE  Tail(queue)[i].age = "current"
  <2>1. i + 1 \in DOMAIN queue /\ Tail(queue)[i] = queue[i + 1]
    BY <1>1, <1>3, <1>4
  <2> QED BY <2>1
<1> QED BY <1>3, <1>5, <1>6

\* A broadcast begins with a client of the set, or the loop sleeps with nothing
\* left to send.
LEMMA BeginKeeps ==
  ASSUME NEW queue \in Seq(Position), NEW set \in SUBSET Clients,
         \A i \in DOMAIN queue : queue[i].age = "current",
         Begin(queue, set)
  PROVE  LoopTypes' /\ NothingLeft' /\ MessagesCurrent'
<1>1. CASE queue = <<>> \/ set = {}
  <2>1. /\ loop' = "sleep" /\ messages' = <<>>
        /\ started' = {} /\ visited' = {} /\ dead' = {} /\ target' = NoClient
    BY <1>1 DEF Begin
  <2>2. messages' \in Seq(Position) /\ DOMAIN messages' = {}
    BY <2>1, EmptySeq
  <2> QED BY <2>1, <2>2 DEF LoopTypes, NothingLeft, MessagesCurrent
<1>2. CASE queue # <<>> /\ set # {}
  <2>1. /\ loop' = "send" /\ messages' = queue /\ started' = set /\ dead' = {}
        /\ \E c \in set : target' = c /\ visited' = {c}
    BY <1>2 DEF Begin
  <2>2. PICK c \in set : target' = c /\ visited' = {c}
    BY <2>1
  <2>3. c \in Clients /\ c # NoClient
    BY NoClientAssumption
  <2> QED BY <1>2, <2>1, <2>2, <2>3 DEF LoopTypes, NothingLeft, MessagesCurrent
<1> QED BY <1>1, <1>2

\* The end of a send leaves a map of positions, and replaces no current
\* position by an older one.
LEMMA SendKeepsCurrent ==
  ASSUME IInv, loop = "send", SendEnds
  PROVE  /\ view' \in [Clients -> [Vehicles -> Ages]]
         /\ \A c \in Clients, v \in Vehicles :
              view[c][v] = "current" => view'[c][v] = "current"
<1>1. /\ view \in [Clients -> [Vehicles -> Ages]]
      /\ messages \in Seq(Position) /\ messages # <<>>
  BY DEF IInv, TypeOK
<1>2. Head(messages) \in Position /\ Head(messages).age = "current"
  BY <1>1, QueueShrinks DEF IInv, MessagesCurrent
<1>3. Head(messages).vehicle \in Vehicles /\ Head(messages).age \in Ages
  BY <1>2 DEF Position
<1> HIDE DEF Ages
<1> QED BY <1>1, <1>2, <1>3 DEF SendEnds

\* The vehicles of a tick have an order, each of whose elements is a vehicle.
LEMMA OrderOfVehicles ==
  ASSUME NEW moving \in SUBSET Vehicles, NEW order \in Orders(moving)
  PROVE  order \in Seq(Vehicles)
<1>1. IsFiniteSet(moving)
  BY VehiclesAssumption, FS_Subset
<1>2. Cardinality(moving) \in Nat
  BY <1>1, FS_CardinalityType
<1>3. order \in [1..Cardinality(moving) -> moving]
  BY DEF Orders
<1>4. order \in Seq(moving)
  BY <1>2, <1>3
<1> QED BY <1>4

-----------------------------------------------------------------------------
\* A step that leaves the loop alone keeps the invariant as far as it is about
\* the loop.
LEMMA LoopAlone ==
  ASSUME IInv, UNCHANGED loopVars
  PROVE  LoopTypes' /\ NothingLeft' /\ MessagesCurrent'
BY DEF IInv, TypeOK, LoopTypes, NothingLeft, MessagesCurrent, loopVars

\* The handler's steps.
LEMMA ConnectKeeps ==
  ASSUME IInv, NEW c \in Clients, Connect(c)
  PROVE  IInv'
<1>1. LoopTypes' /\ NothingLeft' /\ MessagesCurrent'
  BY LoopAlone DEF Connect
<1>2. ServerTypes'
  BY DEF IInv, TypeOK, ServerTypes, Connect, loopVars
<1>3. NoLeakedClient'
  BY DEF IInv, TypeOK, NoLeakedClient, Connect
<1> QED BY <1>1, <1>2, <1>3 DEF IInv, TypeOK, ServerTypes, LoopTypes

LEMMA ReadSnapshotKeeps ==
  ASSUME IInv, NEW c \in Clients, NEW recent \in SUBSET Vehicles, ReadSnapshot(c, recent)
  PROVE  IInv'
<1>1. LoopTypes' /\ NothingLeft' /\ MessagesCurrent'
  BY LoopAlone DEF ReadSnapshot
<1>2. [v \in Vehicles |-> IF v \in recent THEN "current" ELSE "none"] \in [Vehicles -> Ages]
  BY DEF Ages
<1>3. ServerTypes'
  BY <1>2 DEF IInv, TypeOK, ServerTypes, ReadSnapshot, loopVars
<1>4. NoLeakedClient'
  BY DEF IInv, TypeOK, NoLeakedClient, ReadSnapshot
<1> QED BY <1>1, <1>3, <1>4 DEF IInv, TypeOK, ServerTypes, LoopTypes

LEMMA NoPositionsType == NoPositions \in [Vehicles -> Ages]
BY DEF NoPositions, Ages

\* A handler that returns takes its client out of the set.
LEMMA CloseKeeps ==
  ASSUME IInv, NEW c \in Clients, Close(c)
  PROVE  /\ clients' \subseteq Clients
         /\ handler' \in [Clients -> {"away", "reading", "sending", "open"}]
         /\ snapshot' \in [Clients -> [Vehicles -> Ages]]
         /\ NoLeakedClient'
<1> HIDE DEF NoPositions, Ages
<1>1. /\ clients' \subseteq Clients
      /\ handler' \in [Clients -> {"away", "reading", "sending", "open"}]
      /\ snapshot' \in [Clients -> [Vehicles -> Ages]]
  BY NoPositionsType DEF IInv, TypeOK, Close
<1>2. NoLeakedClient'
  BY DEF IInv, TypeOK, NoLeakedClient, Close
<1> QED BY <1>1, <1>2

LEMMA SnapshotFailsKeeps ==
  ASSUME IInv, NEW c \in Clients, SnapshotFails(c)
  PROVE  IInv'
<1>1. LoopTypes' /\ NothingLeft' /\ MessagesCurrent'
  BY LoopAlone DEF SnapshotFails
<1>2. /\ clients' \subseteq Clients
      /\ handler' \in [Clients -> {"away", "reading", "sending", "open"}]
      /\ snapshot' \in [Clients -> [Vehicles -> Ages]]
      /\ NoLeakedClient'
  BY CloseKeeps DEF SnapshotFails
<1>3. linked' \subseteq Clients /\ view' \in [Clients -> [Vehicles -> Ages]] /\ active' = active
  BY NoPositionsType DEF IInv, TypeOK, SnapshotFails, loopVars
<1> QED BY <1>1, <1>2, <1>3 DEF IInv, TypeOK, LoopTypes

LEMMA SendSnapshotKeeps ==
  ASSUME IInv, NEW c \in Clients, SendSnapshot(c)
  PROVE  IInv'
<1>1. LoopTypes' /\ NothingLeft' /\ MessagesCurrent'
  BY LoopAlone DEF SendSnapshot
<1>2. ServerTypes'
  BY NoPositionsType DEF IInv, TypeOK, ServerTypes, SendSnapshot, loopVars
<1>3. NoLeakedClient'
  BY DEF IInv, TypeOK, NoLeakedClient, SendSnapshot
<1> QED BY <1>1, <1>2, <1>3 DEF IInv, TypeOK, ServerTypes, LoopTypes

LEMMA LeaveKeeps ==
  ASSUME IInv, NEW c \in Clients, Leave(c)
  PROVE  IInv'
<1>1. LoopTypes' /\ NothingLeft' /\ MessagesCurrent'
  BY LoopAlone DEF Leave
<1>2. ServerTypes'
  BY NoPositionsType DEF IInv, TypeOK, ServerTypes, Leave, loopVars
<1>3. NoLeakedClient'
  BY DEF IInv, NoLeakedClient, Leave
<1> QED BY <1>1, <1>2, <1>3 DEF IInv, TypeOK, ServerTypes, LoopTypes

LEMMA NoticeKeeps ==
  ASSUME IInv, NEW c \in Clients, Notice(c)
  PROVE  IInv'
<1>1. LoopTypes' /\ NothingLeft' /\ MessagesCurrent'
  BY LoopAlone DEF Notice
<1>2. /\ clients' \subseteq Clients
      /\ handler' \in [Clients -> {"away", "reading", "sending", "open"}]
      /\ snapshot' \in [Clients -> [Vehicles -> Ages]]
      /\ NoLeakedClient'
  BY CloseKeeps DEF Notice
<1>3. linked' = linked /\ view' = view /\ active' = active
  BY DEF Notice, loopVars
<1> QED BY <1>1, <1>2, <1>3 DEF IInv, TypeOK, LoopTypes

-----------------------------------------------------------------------------
\* The loop's steps.
LEMMA TickKeeps ==
  ASSUME IInv, NEW moving \in SUBSET Vehicles, NEW order \in Orders(moving),
         Tick(moving, order)
  PROVE  IInv'
<1> DEFINE fresh == [i \in DOMAIN order |-> [vehicle |-> order[i], age |-> "current"]]
           kept == [i \in DOMAIN messages |->
                      IF messages[i].vehicle \in moving
                        THEN [messages[i] EXCEPT !.age = Aged(@)] ELSE messages[i]]
<1>1. loop = "sleep" /\ messages = <<>>
  BY DEF IInv, NothingLeft, Tick
<1>2. kept = <<>>
  BY <1>1
<1>3. order \in Seq(Vehicles)
  BY OrderOfVehicles
<1>4. DOMAIN order = 1..Len(order) /\ Len(order) \in Nat
  BY <1>3, LenProperties
<1>5. \A i \in DOMAIN order : order[i] \in Vehicles
  BY <1>3, <1>4, ElementOfSeq
<1>6. fresh \in [1..Len(order) -> Position]
  BY <1>4, <1>5 DEF Position, Ages
<1>7. fresh \in Seq(Position)
  BY <1>4, <1>6
<1>8. kept \o fresh = fresh
  <2> HIDE DEF kept, fresh
  <2> QED BY <1>2, <1>7, ConcatEmptySeq
<1>9. messages' = fresh
  BY <1>8 DEF Tick
<1>10. MessagesCurrent'
  BY <1>9 DEF MessagesCurrent
<1>11. \A age \in Ages : Aged(age) \in Ages
  BY DEF Ages, Aged
<1>12. /\ view' \in [Clients -> [Vehicles -> Ages]]
       /\ snapshot' \in [Clients -> [Vehicles -> Ages]]
  BY <1>11 DEF IInv, TypeOK, Tick
<1>13. ServerTypes'
  BY <1>12 DEF IInv, TypeOK, ServerTypes, Tick
<1>14. LoopTypes'
  <2> HIDE DEF fresh
  <2> QED BY <1>1, <1>7, <1>9 DEF IInv, TypeOK, LoopTypes, Tick
<1>15. NothingLeft' /\ NoLeakedClient'
  BY DEF IInv, NothingLeft, NoLeakedClient, Tick
<1> QED BY <1>10, <1>13, <1>14, <1>15 DEF IInv, TypeOK, ServerTypes, LoopTypes

LEMMA StartBroadcastKeeps ==
  ASSUME IInv, StartBroadcast
  PROVE  IInv'
<1>1. Begin(messages, clients) /\ messages \in Seq(Position) /\ clients \in SUBSET Clients
  BY DEF IInv, TypeOK, StartBroadcast
<1>2. \A i \in DOMAIN messages : messages[i].age = "current"
  BY DEF IInv, MessagesCurrent
<1>3. LoopTypes' /\ NothingLeft' /\ MessagesCurrent'
  BY <1>1, <1>2, BeginKeeps
<1>4. ServerTypes' /\ NoLeakedClient'
  BY DEF IInv, TypeOK, ServerTypes, NoLeakedClient, StartBroadcast, serverVars
<1> QED BY <1>3, <1>4 DEF IInv, TypeOK, ServerTypes, LoopTypes

LEMMA SendNextKeeps ==
  ASSUME IInv, NEW c \in Clients, SendNext(c)
  PROVE  IInv'
<1>1. loop = "send" /\ SendEnds /\ c \in clients \ visited
  BY DEF SendNext
<1>2. view' \in [Clients -> [Vehicles -> Ages]]
  BY <1>1, SendKeepsCurrent
<1>3. ServerTypes' /\ NoLeakedClient'
  BY <1>2 DEF IInv, TypeOK, ServerTypes, NoLeakedClient, SendNext, serverVars
<1>4. Dead \subseteq visited
  BY <1>1 DEF IInv, TypeOK, Dead
<1>5. LoopTypes'
  BY <1>1, <1>4, NoClientAssumption DEF IInv, TypeOK, LoopTypes, SendNext
<1>6. NothingLeft' /\ MessagesCurrent'
  BY DEF IInv, NothingLeft, MessagesCurrent, SendNext
<1> QED BY <1>3, <1>5, <1>6 DEF IInv, TypeOK, ServerTypes, LoopTypes

LEMMA EndBroadcastKeeps ==
  ASSUME IInv, EndBroadcast
  PROVE  IInv'
<1>1. /\ loop = "send" /\ SendEnds /\ clients' = clients \ Dead
      /\ Begin(Tail(messages), clients')
      /\ UNCHANGED <<handler, linked, snapshot, active>>
  BY DEF EndBroadcast
<1>2. messages \in Seq(Position) /\ messages # <<>> /\ clients' \in SUBSET Clients
  BY <1>1 DEF IInv, TypeOK
<1>3. /\ Tail(messages) \in Seq(Position)
      /\ \A i \in DOMAIN Tail(messages) : Tail(messages)[i].age = "current"
  BY <1>2, QueueShrinks DEF IInv, MessagesCurrent
<1>4. LoopTypes' /\ NothingLeft' /\ MessagesCurrent'
  BY <1>1, <1>2, <1>3, BeginKeeps
<1>5. view' \in [Clients -> [Vehicles -> Ages]]
  BY <1>1, SendKeepsCurrent
<1>6. ServerTypes' /\ NoLeakedClient'
  BY <1>1, <1>2, <1>5 DEF IInv, TypeOK, ServerTypes, NoLeakedClient
<1> QED BY <1>4, <1>6 DEF IInv, TypeOK, ServerTypes, LoopTypes

LEMMA IterationRaisesKeeps ==
  ASSUME IInv, IterationRaises
  PROVE  IInv'
<1>1. loop = "send" /\ SendEnds /\ Begin(<<>>, clients) /\ UNCHANGED <<serverVars, active>>
  BY DEF IterationRaises
<1>2. /\ <<>> \in Seq(Position) /\ clients \in SUBSET Clients
      /\ \A i \in DOMAIN <<>> : <<>>[i].age = "current"
  BY EmptySeq DEF IInv, TypeOK
<1>3. LoopTypes' /\ NothingLeft' /\ MessagesCurrent'
  BY <1>1, <1>2, BeginKeeps
<1>4. view' \in [Clients -> [Vehicles -> Ages]]
  BY <1>1, SendKeepsCurrent
<1>5. ServerTypes' /\ NoLeakedClient'
  BY <1>1, <1>4 DEF IInv, TypeOK, ServerTypes, NoLeakedClient, serverVars
<1> QED BY <1>3, <1>5 DEF IInv, TypeOK, ServerTypes, LoopTypes

-----------------------------------------------------------------------------
LEMMA InitKeeps == Init => IInv
<1> SUFFICES ASSUME Init PROVE IInv
  OBVIOUS
<1>1. messages \in Seq(Position) /\ DOMAIN messages = {}
  BY EmptySeq DEF Init
<1>2. ServerTypes
  BY NoPositionsType DEF Init, ServerTypes
<1>3. LoopTypes
  BY <1>1 DEF Init, LoopTypes
<1>4. NoLeakedClient /\ NothingLeft /\ MessagesCurrent
  BY <1>1 DEF Init, NoLeakedClient, NothingLeft, MessagesCurrent
<1> QED BY <1>2, <1>3, <1>4 DEF IInv, TypeOK, ServerTypes, LoopTypes

\* Every step keeps the invariant, one case per action.
LEMMA StepKeeps == IInv /\ [Next]_vars => IInv'
<1> SUFFICES ASSUME IInv, [Next]_vars PROVE IInv'
  OBVIOUS
<1>1. ASSUME NEW c \in Clients, Connect(c) PROVE IInv'
  BY <1>1, ConnectKeeps
<1>2. ASSUME NEW c \in Clients, Leave(c) PROVE IInv'
  BY <1>2, LeaveKeeps
<1>3. ASSUME NEW c \in Clients, SnapshotFails(c) PROVE IInv'
  BY <1>3, SnapshotFailsKeeps
<1>4. ASSUME NEW c \in Clients, Handle(c) PROVE IInv'
  BY <1>4, ReadSnapshotKeeps, SendSnapshotKeeps, NoticeKeeps DEF Handle
<1>5. ASSUME Simulate PROVE IInv'
  BY <1>5, TickKeeps, StartBroadcastKeeps, SendNextKeeps, EndBroadcastKeeps,
     IterationRaisesKeeps DEF Simulate
<1>6. ASSUME UNCHANGED vars PROVE IInv'
  BY <1>6 DEF vars, serverVars, loopVars, IInv, TypeOK, NoLeakedClient, NothingLeft,
              MessagesCurrent
<1> QED BY <1>1, <1>2, <1>3, <1>4, <1>5, <1>6 DEF Next

LEMMA FanoutInvariant == Spec => []IInv
<1> QED BY InitKeeps, StepKeeps, PTL DEF Spec

\* Every variable keeps its type, and a send is awaited exactly while a
\* broadcast is under way (manager.py 11-32, main.py 25-35).
THEOREM FanoutTypesHold == Spec => []TypeOK
<1>1. IInv => TypeOK
  BY DEF IInv
<1> QED BY <1>1, FanoutInvariant, PTL

\* The set of clients keeps no client whose handler has returned, however many
\* clients come and go and in whatever order the handler's finally and the
\* purge of a broadcast come (manager.py 14-32, handlers.py 15-29).
THEOREM NoClientLeaks == Spec => []NoLeakedClient
<1>1. IInv => NoLeakedClient
  BY DEF IInv
<1> QED BY <1>1, FanoutInvariant, PTL

-----------------------------------------------------------------------------
\* The step StaysCurrent allows.
CurrentStays ==
  \A c \in Clients, v \in Vehicles :
    view[c][v] = "current" /\ view'[c][v] # "current" =>
      c \notin linked' \/ (loop = "sleep" /\ v \in active') \/ LateSnapshot(c, v)

\* A step of a handler changes the map of its own client only: its connection
\* goes down, or what it shows from now on is its snapshot.
LEMMA HandlerKeepsCurrent ==
  ASSUME IInv, NEW d \in Clients,
         Connect(d) \/ Leave(d) \/ SnapshotFails(d) \/ Handle(d)
  PROVE  CurrentStays
<1> SUFFICES ASSUME NEW c \in Clients, NEW v \in Vehicles,
                    view[c][v] = "current", view'[c][v] # "current"
             PROVE  c \notin linked' \/ (loop = "sleep" /\ v \in active') \/ LateSnapshot(c, v)
  BY DEF CurrentStays
<1>1. /\ view \in [Clients -> [Vehicles -> Ages]]
      /\ handler \in [Clients -> {"away", "reading", "sending", "open"}]
  BY DEF IInv, TypeOK
<1>2. ~ Connect(d)
  BY DEF Connect
<1>3. CASE Leave(d)
  BY <1>1, <1>3 DEF Leave
<1>4. CASE SnapshotFails(d)
  BY <1>1, <1>4 DEF SnapshotFails
<1>5. CASE SendSnapshot(d)
  <2>1. d = c
    BY <1>1, <1>5 DEF SendSnapshot
  <2>2. handler[c] = "sending" /\ handler'[c] = "open" /\ view'[c] = snapshot[c]
    BY <1>1, <1>5, <2>1 DEF SendSnapshot
  <2> QED BY <2>2 DEF LateSnapshot
<1>6. ~ Notice(d) /\ \A recent \in SUBSET Vehicles : ~ ReadSnapshot(d, recent)
  BY DEF ReadSnapshot, Notice
<1> QED BY <1>2, <1>3, <1>4, <1>5, <1>6 DEF Handle

\* A step of the loop ages a position only where the tick moves the vehicle.
LEMMA LoopKeepsCurrent ==
  ASSUME IInv, Simulate
  PROVE  CurrentStays
<1>1. ASSUME NEW moving \in SUBSET Vehicles, NEW order \in Orders(moving), Tick(moving, order)
      PROVE  CurrentStays
  <2>1. /\ loop = "sleep" /\ active' = moving
        /\ view' = [c \in Clients |-> [v \in Vehicles |->
                      IF v \in moving THEN Aged(view[c][v]) ELSE view[c][v]]]
    BY <1>1 DEF Tick
  <2> QED BY <2>1 DEF CurrentStays
<1>2. CASE StartBroadcast
  BY <1>2 DEF StartBroadcast, CurrentStays
<1>3. ASSUME loop = "send", SendEnds
      PROVE  CurrentStays
  BY <1>3, SendKeepsCurrent DEF CurrentStays
<1>4. ASSUME NEW c \in Clients, SendNext(c) PROVE CurrentStays
  BY <1>3, <1>4 DEF SendNext
<1>5. CASE EndBroadcast
  BY <1>3, <1>5 DEF EndBroadcast
<1>6. CASE IterationRaises
  BY <1>3, <1>6 DEF IterationRaises
<1> QED BY <1>1, <1>2, <1>4, <1>5, <1>6 DEF Simulate

\* No update, in whatever order sends, snapshots, joins and departures come, puts
\* an older position in the place of a current one.  What a client shows grows
\* old by the vehicle's next tick, and can be set back once, by a snapshot that
\* comes later than the update (main.py 25-35, handlers.py 17-21,
\* live_providers.dart 6-31).
THEOREM UpdatesNeverSetBack == Spec => StaysCurrent
<1>1. IInv /\ [Next]_vars => [CurrentStays]_vars
  <2> SUFFICES ASSUME IInv, Next PROVE CurrentStays
    OBVIOUS
  <2>1. CASE \E d \in Clients : Connect(d) \/ Leave(d) \/ SnapshotFails(d) \/ Handle(d)
    BY <2>1, HandlerKeepsCurrent
  <2>2. CASE Simulate
    BY <2>2, LoopKeepsCurrent
  <2> QED BY <2>1, <2>2 DEF Next
<1>2. Spec => [][CurrentStays]_vars
  BY <1>1, FanoutInvariant, PTL DEF Spec
<1> QED BY <1>2 DEF StaysCurrent, CurrentStays
=============================================================================
