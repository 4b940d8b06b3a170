--------------------------- MODULE RealtimeFanout ---------------------------
(***************************************************************************)
(* Live vehicle positions on their way to the clients: the simulation loop *)
(* of main.py commits a tick and broadcasts one message per vehicle, the   *)
(* WebSocket handler of each client registers it, reads a snapshot and     *)
(* sends it, and the app folds what arrives into its map of vehicles.      *)
(*                                                                         *)
(* Everything on the server runs on one event loop, so a step here is what *)
(* runs between two awaits.  A position is not kept as coordinates but as  *)
(* its age: "current" is what the last committed tick of the vehicle says, *)
(* "stale" is anything older, "none" is no position at all.                *)
(***************************************************************************)
EXTENDS Naturals, Sequences, FiniteSets

CONSTANTS
  Clients,   \* WebSocket connections; the name of one that is gone is free again
  Vehicles,  \* the vehicles the simulation may drive
  NoClient   \* no send is awaited

ASSUME NoClientAssumption == NoClient \notin Clients
ASSUME VehiclesAssumption == IsFiniteSet(Vehicles)

Ages == {"none", "stale", "current"}
Position == [vehicle : Vehicles, age : Ages]

VARIABLES
  clients,   \* ConnectionManager._clients
  handler,   \* per client, where its handler is; "away" before and after
  linked,    \* the clients whose connection is up
  snapshot,  \* per client, the snapshot its handler has read
  view,      \* per client, the app's map of vehicles
  active,    \* the vehicles of the last tick
  loop,      \* the loop: "sleep", "broadcast" (a tick is committed), "send"
  messages,  \* what tick returned and is not broadcast yet
  started,   \* the set when the broadcast began to iterate over it
  target,    \* the client a send is awaited to
  visited,   \* the clients this broadcast has got to, target included
  dead       \* the clients its send failed for

serverVars == <<clients, handler, linked, snapshot>>
loopVars == <<active, loop, messages, started, target, visited, dead>>
vars == <<serverVars, view, loopVars>>

NoPositions == [v \in Vehicles |-> "none"]

\* The orders a tick may list its vehicles in.
Orders(S) == {q \in [1..Cardinality(S) -> S] : \A i, j \in DOMAIN q : q[i] = q[j] => i = j}

\* What a position the last tick replaced has become.
Aged(age) == IF age = "current" THEN "stale" ELSE age

-----------------------------------------------------------------------------
Init ==
  /\ clients = {} /\ linked = {}
  /\ handler = [c \in Clients |-> "away"]
  /\ snapshot = [c \in Clients |-> NoPositions]
  /\ view = [c \in Clients |-> NoPositions]
  /\ active = {}
  /\ loop = "sleep" /\ messages = <<>>
  /\ started = {} /\ target = NoClient /\ visited = {} /\ dead = {}

\* connect: the handshake is over, the client is in the set, and only then
\* does the handler ask for the snapshot.  Every connection is a new one, so it
\* cannot be taken for one the broadcast under way has dealt with.
Connect(c) ==
  /\ handler[c] = "away" /\ c \notin started \cup visited
  /\ clients' = clients \cup {c}
  /\ linked' = linked \cup {c}
  /\ handler' = [handler EXCEPT ![c] = "reading"]
  /\ UNCHANGED <<snapshot, view, loopVars>>

\* The snapshot query sees what is committed now, and lists the vehicles whose
\* position is recent enough: those of the last ticks, or fewer when the loop
\* or the query has been slow.
ReadSnapshot(c, recent) ==
  /\ handler[c] = "reading"
  /\ snapshot' = [snapshot EXCEPT ![c] =
                    [v \in Vehicles |-> IF v \in recent THEN "current" ELSE "none"]]
  /\ handler' = [handler EXCEPT ![c] = "sending"]
  /\ UNCHANGED <<clients, linked, view, loopVars>>

\* Faulty: the handler returns without taking its client out of the set.
FaultyClose(c) ==
  /\ handler' = [handler EXCEPT ![c] = "away"]
  /\ clients' = clients
  /\ snapshot' = [snapshot EXCEPT ![c] = NoPositions]

\* disconnect, from the handler's finally.
Close(c) ==
  /\ handler' = [handler EXCEPT ![c] = "away"]
  /\ clients' = clients \ {c}
  /\ snapshot' = [snapshot EXCEPT ![c] = NoPositions]

\* The query fails: the error leaves the handler and the socket is closed.
SnapshotFails(c) ==
  /\ handler[c] = "reading"
  /\ Close(c) /\ linked' = linked \ {c}
  /\ view' = [view EXCEPT ![c] = NoPositions]
  /\ UNCHANGED loopVars

\* The snapshot replaces the app's whole map.
SendSnapshot(c) ==
  /\ handler[c] = "sending" /\ c \in linked
  /\ view' = [view EXCEPT ![c] = snapshot[c]]
  /\ snapshot' = [snapshot EXCEPT ![c] = NoPositions]
  /\ handler' = [handler EXCEPT ![c] = "open"]
  /\ UNCHANGED <<clients, linked, loopVars>>

\* The client's side goes away and its map with it; the server finds out later.
Leave(c) ==
  /\ c \in linked
  /\ linked' = linked \ {c}
  /\ view' = [view EXCEPT ![c] = NoPositions]
  /\ UNCHANGED <<clients, handler, snapshot, loopVars>>

\* Faulty: a failed send of the snapshot goes unnoticed.
FaultyNotice(c) ==
  /\ handler[c] = "open" /\ c \notin linked
  /\ Close(c)
  /\ UNCHANGED <<linked, view, loopVars>>

\* The handler finds out: its send or its receive raises.
Notice(c) ==
  /\ handler[c] \in {"sending", "open"} /\ c \notin linked
  /\ Close(c)
  /\ UNCHANGED <<linked, view, loopVars>>

-----------------------------------------------------------------------------
\* Faulty: a tick does not wait for the broadcast of the one before it.
FaultyTick(moving, order) ==
  /\ order \in Orders(moving)
  /\ active' = moving
  /\ view' = [c \in Clients |-> [v \in Vehicles |->
                IF v \in moving THEN Aged(view[c][v]) ELSE view[c][v]]]
  /\ snapshot' = [c \in Clients |-> [v \in Vehicles |->
                    IF v \in moving THEN Aged(snapshot[c][v]) ELSE snapshot[c][v]]]
  /\ messages' = [i \in DOMAIN messages |->
                    IF messages[i].vehicle \in moving
                      THEN [messages[i] EXCEPT !.age = Aged(@)] ELSE messages[i]]
                 \o [i \in DOMAIN order |-> [vehicle |-> order[i], age |-> "current"]]
  /\ loop' = "broadcast"
  /\ UNCHANGED <<clients, handler, linked, started, target, visited, dead>>

\* tick: the positions of the vehicles under way are committed, which ages
\* what clients and handlers hold of them, and come back as messages.
Tick(moving, order) ==
  /\ loop = "sleep"
  /\ order \in Orders(moving)
  /\ active' = moving
  /\ view' = [c \in Clients |-> [v \in Vehicles |->
                IF v \in moving THEN Aged(view[c][v]) ELSE view[c][v]]]
  /\ snapshot' = [c \in Clients |-> [v \in Vehicles |->
                    IF v \in moving THEN Aged(snapshot[c][v]) ELSE snapshot[c][v]]]
  /\ messages' = [i \in DOMAIN messages |->
                    IF messages[i].vehicle \in moving
                      THEN [messages[i] EXCEPT !.age = Aged(@)] ELSE messages[i]]
                 \o [i \in DOMAIN order |-> [vehicle |-> order[i], age |-> "current"]]
  /\ loop' = "broadcast"
  /\ UNCHANGED <<clients, handler, linked, started, target, visited, dead>>

\* Faulty: the awaited client is not reset when the broadcast is over.
FaultyBegin(queue, set) ==
  IF queue = <<>> \/ set = {}
    THEN /\ loop' = "sleep" /\ messages' = <<>>
         /\ started' = {} /\ visited' = {} /\ dead' = {} /\ target' = target
    ELSE /\ loop' = "send" /\ messages' = queue
         /\ started' = set /\ dead' = {}
         /\ \E c \in set : target' = c /\ visited' = {c}

\* The broadcast of the first message of queue begins: its iterator takes some
\* client of the set and the send to it is awaited.  Nothing is awaited when
\* there is no message or no client.
Begin(queue, set) ==
  IF queue = <<>> \/ set = {}
    THEN /\ loop' = "sleep" /\ messages' = <<>>
         /\ started' = {} /\ visited' = {} /\ dead' = {} /\ target' = NoClient
    ELSE /\ loop' = "send" /\ messages' = queue
         /\ started' = set /\ dead' = {}
         /\ \E c \in set : target' = c /\ visited' = {c}

\* tick has returned its messages.
StartBroadcast ==
  /\ loop = "broadcast"
  /\ Begin(messages, clients)
  /\ UNCHANGED <<serverVars, view, active>>

\* How the awaited send ends: the message is folded into the app's map, or it
\* fails because the client is gone.
SendEnds ==
  IF target \in linked
    THEN view' = [view EXCEPT ![target][Head(messages).vehicle] = Head(messages).age]
    ELSE view' = view

Dead == IF target \in linked THEN dead ELSE dead \cup {target}

\* Iterating over a set whose size has changed raises.
SizeChanged == Cardinality(clients) # Cardinality(started)

\* The iterator has no client left.  Once a client has taken the place of another
\* the set may have been laid out anew, and the iterator may miss anyone.
Exhausted == clients = started => clients \subseteq visited

\* The iterator yields one more client of the set.
SendNext(c) ==
  /\ loop = "send" /\ ~ SizeChanged
  /\ c \in clients \ visited
  /\ SendEnds
  /\ target' = c /\ visited' = visited \cup {c} /\ dead' = Dead
  /\ UNCHANGED <<serverVars, active, loop, messages, started>>

\* Faulty: the loop over the messages ends with the first one.
FaultyEndBroadcast ==
  /\ loop = "send" /\ ~ SizeChanged
  /\ Exhausted
  /\ SendEnds
  /\ clients' = clients \ Dead
  /\ Begin(<<>>, clients')
  /\ UNCHANGED <<handler, linked, snapshot, active>>

\* The iterator is exhausted.  The clients the send failed for are dropped and
\* the next message begins, all without an await.
EndBroadcast ==
  /\ loop = "send" /\ ~ SizeChanged
  /\ Exhausted
  /\ SendEnds
  /\ clients' = clients \ Dead
  /\ Begin(Tail(messages), clients')
  /\ UNCHANGED <<handler, linked, snapshot, active>>

\* Faulty: nothing catches the error, and the loop stops where it was raised.
FaultyIterationRaises ==
  /\ loop = "send" /\ SizeChanged
  /\ UNCHANGED vars

\* The set changed size under the iterator: the error leaves broadcast before
\* its purge and the loop before its other messages, and is logged.
IterationRaises ==
  /\ loop = "send" /\ SizeChanged
  /\ SendEnds
  /\ Begin(<<>>, clients)
  /\ UNCHANGED <<serverVars, active>>

-----------------------------------------------------------------------------
Handle(c) == \/ \E recent \in SUBSET Vehicles : ReadSnapshot(c, recent)
             \/ SendSnapshot(c) \/ Notice(c)

Simulate ==
  \/ \E moving \in SUBSET Vehicles : \E order \in Orders(moving) : Tick(moving, order)
  \/ StartBroadcast \/ \E c \in Clients : SendNext(c)
  \/ EndBroadcast \/ IterationRaises

Next ==
  \/ \E c \in Clients : Connect(c) \/ Leave(c) \/ SnapshotFails(c) \/ Handle(c)
  \/ Simulate

\* The event loop runs every task that can go on: the simulation and every
\* handler.  Clients come and go as they please.
Spec == /\ Init /\ [][Next]_vars
        /\ WF_vars(Simulate)
        /\ \A c \in Clients : WF_vars(Handle(c))

-----------------------------------------------------------------------------
\* Every variable keeps its type; a send is awaited exactly while a broadcast is
\* under way, to a client it has got to, and a client counts as dead only after
\* its send (manager.py 11-32, main.py 25-35).
TypeOK ==
  /\ clients \subseteq Clients /\ linked \subseteq Clients
  /\ handler \in [Clients -> {"away", "reading", "sending", "open"}]
  /\ snapshot \in [Clients -> [Vehicles -> Ages]]
  /\ view \in [Clients -> [Vehicles -> Ages]]
  /\ active \subseteq Vehicles
  /\ loop \in {"sleep", "broadcast", "send"}
  /\ messages \in Seq(Position)
  /\ started \subseteq Clients /\ target \in Clients \cup {NoClient}
  /\ visited \subseteq Clients /\ dead \subseteq visited
  /\ target # NoClient <=> loop = "send"
  /\ loop = "send" => target \in visited \ dead /\ messages # <<>>

\* The set never keeps a client whose handler has returned, whichever of the
\* handler's finally and the broadcast's purge comes first, so it cannot grow
\* with every visitor (manager.py 14-32, handlers.py 15-29).
NoLeakedClient == \A c \in clients : handler[c] # "away"

\* A snapshot that was read before the vehicle's last tick, or that left the
\* vehicle out, reaches a client that has had the update of that tick already.
LateSnapshot(c, v) ==
  handler[c] = "sending" /\ handler'[c] = "open" /\ snapshot[c][v] # "current"

\* A client that shows the current position of a vehicle loses it only to the
\* vehicle's next tick, or to its own snapshot if that comes late, which is once
\* in a connection: no update ever puts an older position in the place of a
\* newer one (main.py 25-35, handlers.py 17-21, live_providers.dart 6-31).
StaysCurrent ==
  [][\A c \in Clients, v \in Vehicles :
       view[c][v] = "current" /\ view'[c][v] # "current" =>
         c \notin linked' \/ (loop = "sleep" /\ v \in active') \/ LateSnapshot(c, v)]_vars

\* Nothing clients do stops the simulation: coming and going may cost the rest
\* of a tick's messages, never the loop (main.py 28-35).
LoopGoesOn == []<>(loop = "sleep")

\* A connection that broke is dropped from the set by somebody (manager.py
\* 23-32, handlers.py 26-29).
GoneClientsDropped == \A c \in Clients : c \in clients \ linked ~> c \notin clients

\* A broadcast is under way and a client has joined or left since it began.
Disturbed == loop = "send" /\ clients # started

\* A client that stays gets the current position of every vehicle that keeps
\* moving again and again, whatever it missed before, although others come and
\* go for ever: unless they do so again and again while a broadcast is under way,
\* which may then end each time before it gets there (live_providers.dart 6-8,
\* manager.py 23-32).
CatchesUp ==
  \A c \in Clients, v \in Vehicles :
    /\ <>[](handler[c] = "open" /\ c \in linked)
    /\ []<>(v \in active /\ loop = "broadcast")
    => []<>(view[c][v] = "current") \/ []<>Disturbed

\* "Send a JSON message to every client; drop clients that fail" (manager.py
\* 24): when broadcast is over, each client in the set from its start to its
\* end was got to.
BroadcastReachesAll ==
  [][loop = "send" /\ messages' # messages => started \cap clients \subseteq visited]_vars
=============================================================================
