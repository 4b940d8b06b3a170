# CityBus, verified

TLA+ models of the CityBus backend (FastAPI, PostgreSQL) and of the part of its
Flutter app that consumes live positions, from the validation of a feed to the
positions of its vehicles; TLC runs that check them on small
instances; and TLAPS proofs that hold for every instance. Paths are relative to
`src/`.

| module | what it is | lines of code it stands for |
|---|---|---|
| `Csa` | the connection scan of the planner, one hop or one leg per step | `backend/app/services/csa.py` |
| `Traveller` | the promise of the planner: whoever travels the timetable does no better | `csa.py` docstrings |
| `MCTraveller` | timetables for TLC | – |
| `CsaProofs`, `CsaExact` | proofs about `Csa` and `Traveller` | – |
| `RealtimeFanout` | simulation loop, connection manager, WebSocket handlers, the app's map | `main.py`, `websocket/*.py`, `realtime_service.py`, `live_providers.dart`, `websocket_client.dart` |
| `MCRealtimeFanout` | clients and vehicles for TLC | – |
| `RealtimeFanoutProofs` | proofs about `RealtimeFanout` | – |
| `FeedSessions` | database sessions while a feed is imported | `realtime_service.py`, `vehicle_position_repository.py`, `planner_service.py`, `gtfs_import_service.py`, `import_gtfs.py`, `main.py` |
| `MCFeedSessions` | sessions for TLC | – |
| `FeedSessionsProofs` | proofs about `FeedSessions` | – |
| `GtfsValidation` | what makes a feed acceptable, as predicates | `gtfs_validation.py` |
| `GtfsImport` | a run of the importer, table by table | `gtfs_import_service.py`, `import_gtfs.py`, the keys and checks of `01_schema.sql` and migration 0002, the query of `connection_repository.py` |
| `FeedStore` | the promise of the importer: old feed or new feed, at once | `gtfs_import_service.py` docstrings |
| `RouteQueries` | requests about a route's patterns; migration 0004 | `route_service.py`, `route_repository.py`, `0004_route_patterns.py` |
| `MCRouteQueries` | a small feed and its variants for TLC | – |
| `GtfsImportProofs` | proofs about `GtfsImport` and `RouteQueries`, and that the importer implements `FeedStore` | – |
| `ServiceDays` | which buses a moment belongs to: tick, departure board, trips of a date, planner | `realtime_service.py`, the repositories of vehicles, services, connections, stops and routes, `stop_service.py`, `planner_service.py` |
| `Sorting` | `ORDER BY`, `LIMIT` and `sorted()` | – |
| `OrderLemmas` | lemmas on numbers, finite sets, orders and sorted lists | – |
| `MCServiceDays` | timetables and calendars for TLC | – |
| `ServiceDaysProofs` | proofs about `ServiceDays` | – |
| `PlannerDays` | `ServiceDays` and `Csa` composed: a plan over two service days | `planner_service.py` |
| `MCPlannerDays` | one bus that goes round through midnight | – |
| `VehicleHistory` | positions, partitions, maintenance, two simulators, migration 0003 | `01_schema.sql`, `realtime_service.py`, `vehicle_position_repository.py`, `main.py`, `simulate_realtime.py`, `0003_vehicle_position_storage.py` |
| `VehicleHistoryProofs` | proofs about `VehicleHistory` and its implementing `PositionLog` | – |
| `PositionLog` | the promise of that storage: a log and the latest positions | comments of `01_schema.sql`, `realtime_service.py` docstring |
| `MCVehicleHistory` | vehicles and old rows for TLC | – |

Run a check with `tlc -config csa.cfg MCTraveller.tla` (each run's module is in
`PROJECT.json`), the proofs with `tlapm CsaExact.tla` and so on.

## 1. Inventory

### The system

A GTFS feed (zip or directory of text files) is validated and loaded into
PostgreSQL by a script. The backend answers REST requests from the tables, each
in a session of its own, and runs one background task, the simulation loop,
which moves vehicles along the timetable, stores their positions and broadcasts
them over WebSockets. The app plans journeys, shows departures and draws the
vehicles. All of the backend's Python runs on one event loop, so its own
interleavings happen at `await`s; the sessions of the database run truly side
by side, also with the importer and a standalone simulator in processes of
their own.

| component | state it keeps | operations | interacts with |
|---|---|---|---|
| Connection scan `csa.plan` | labels per stop, states per trip, while it runs | scan, relax, cut off, walk back | called by the planner service |
| Planner service | none; a session per request | resolve stops, services of two days, merge connections, answer | tables, `csa.plan` |
| Calendar (`active_service_ids`) | `calendar`, `calendar_dates` | services of a date | planner, departures, tick |
| Simulation tick | delays per vehicle, date of the last maintenance, one session for ever | maintain partitions, find segments of two service days, store, commit | tables, broadcast |
| Realtime loop | – | tick, broadcast, log an error, sleep | tick, manager |
| Connection manager | the set of clients | connect, disconnect, broadcast with purge | handlers, loop |
| WebSocket handler | – | register, snapshot, wait for the client to go | manager, tables |
| Live provider of the app | map of vehicles | snapshot replaces it, update adds | WebSocket |
| GTFS validation | – | references, calendars, times, sequences | importer |
| GTFS importer | – | truncate, load, patterns, parents, commit | all tables |
| Vehicle history | daily partitions | create future ones, drop old ones | tick, standalone simulator |
| Standalone simulator | as the tick's | tick until an error | tables |
| Departures, routes, stops, trips | none | reads | tables |
| Planner form of the app | form, the answer shown | submit, swap, clear | REST |
| Screens, HTTP client, website, schema, feed generator | – | – | – |

### What is hard about it

* *One pass that overwrites.* The scan keeps one label per stop and replaces it
  although later labels were derived from it; the journey is read off whatever
  labels are left (csa.py 94-144).
* *Equal times.* Hops are sorted by departure alone; the feed may contain hops
  that take no time.
* *A shared set and awaited sends.* Handlers add and remove clients while the
  broadcast iterates over the same set (manager.py 14-32).
* *Snapshot and stream.* A client is registered before its snapshot is read, the
  snapshot is sent after it was read, and ticks commit at any of these moments.
* *A session that lives for ever.* The loop's session is never closed or rolled
  back; an error in one tick is inherited by the next (main.py 25-35).
* *Truncate and reload under load.* The importer excludes everybody from
  fourteen tables, taken one after the other, while ticks and requests take the
  same tables in other orders.
* *Read committed.* Every statement of a request sees what is committed when it
  runs, and ids start again at one with every import.
* *Two service days.* A moment belongs to today and, past 24:00, to yesterday.
* *Partitions made by whoever ticks first on a day*, with the date noted before
  the commit.
* *Two readings of a feed.* Validation strips every cell, the importer strips some;
  lookups that miss are errors in some steps and silence in others.
* *Ids given twice.* Migration 0003 copies rows with their ids and lets the
  database number others, in both directions.

`PROJECT.json` lists each of these under "hazards", at its line, with the
properties that watch it.

### What makes each component correct

* Scan: it returns; the legs fit together, with the buffer at every change; each
  leg is a ride; the vehicle count is the number of legs; nobody arrives earlier;
  with that arrival nobody uses fewer vehicles.
* Fan-out: no client is leaked; the loop goes on; a message reaches everybody
  who is there; no update sets a client back to an older position; a client that
  stays catches up.
* Sessions: a transaction sees one feed; positions belong to the loaded feed;
  those of a tick appear in history and current state in one step; requests and
  imports end; the simulation goes on.
* Importer: what validation accepts loads; the others read the old feed or the
  new one, and of the new one what its files say; the timetable is one the scan
  can work on; patterns are those of the trips, and the requests about a route
  agree on them.
* Vehicle history: every tick finds its partition; no tick loses what is within the
  retention, older days go; history and current rows change together; the current
  row is the latest; migrations go through and lose nothing.
* Service days: every bus on the road is shown, once, and moves on; the
  departure board lists each bus once; board, trips of a date and planner agree;
  the planner takes nobody from one day's bus to another day's.

## 2. Plan

1. `Csa`, `Traveller`, their proofs. *Done.*
2. `RealtimeFanout`, its proofs. *Done.*
3. `FeedSessions`, its proofs. *Done.*
4. `GtfsValidation`, `GtfsImport`, `RouteQueries` and the abstract `FeedStore`.
   *Done.*
5. `ServiceDays`, and `PlannerDays`, which composes it with `Csa`. *Done.*
6. `VehicleHistory`, the abstract `PositionLog`, proofs about both. *Done.*
7. Proofs about `ServiceDays`. *Done.*
8. Proofs about `GtfsImport` and `RouteQueries`. *Done.*
9. The planner form of the app: left out, see section 7.

Theorems to come: that the board, the tick and the planner are right for the events
as they are stored, gaps in the sequences included (`ServiceDays` counts them from
one); that `Csa` implements an abstract planner (`Traveller` states it as an
invariant, a refinement would make it an answer chosen at once).

## 3. The models

### Csa: the scan

`labels` and `boarded` are the two dicts of `plan`, functions whose domain
grows; `pending` is what is left of the sorted list. The list is sorted by
departure time alone, and the query that fills it orders hops of one second
freely, so the scan takes *any* pending hop that none departs before
(`Following`). One iteration of the `for` is one of `SkipEarly` (`continue`),
`Cutoff` (`break`), `PassBy` (second `continue`) and `Relax`; the code after the
loop is `NoRide`, `StartWalk`, `WalkBack`, `WalkEnds`. Times are integers,
route ids are left out.

The timetable of a query is any of `Timetables`, and `TimetablesAssumption` says
what the importer's validation leaves: sequences rise along a trip, time does
not run backwards. A hop of no duration is admitted, as it is by
gtfs_validation.py 406-418.

`Traveller` adds a traveller who, when the planner has answered, sets out with
the timetable and makes any journey: board at once at the origin, after the
buffer at a change, stay on board hop by hop. It uses no label, no order and no
cutoff. `EarliestArrival` says that no traveller at the destination beats the
answer: the specification of the planner without its algorithm.

### RealtimeFanout: positions on their way

A step is what runs between two awaits. The loop is "sleep", "broadcast" (the
tick is committed and its messages are at hand) or "send" (a send to `target` is
awaited). `SendNext` is one step of the set's iterator; `SizeChanged` is
Python's own test for "Set changed size during iteration"; when a client leaves
and another joins meanwhile, the size is as before, the iterator goes on, and
the newcomer may or may not be met. `EndBroadcast` is the purge of failed
clients and the beginning of the next message, which has no await in between.
Whether the iterator has met everybody is `Exhausted`: as long as the set is the one it
began with, it ends when all are met; once somebody has taken somebody else's place, it
may end earlier. Should Python lay the set out anew meanwhile, it may also meet a client
twice; that delivers the same message again and is left out.
Handlers are "away" (before and after a connection), "reading" (registered, query under
way), "sending", "open". Connections come and go for ever: a name of `Clients` that is
away may come again as a new connection, only not within the broadcast that has met
the one before it, whose object is not this one's. `Leave` breaks a connection at any time; handler and broadcast find out
separately and later.

A position is its age: "current" is what the last tick of this vehicle
committed, "stale" anything older. A tick ages every copy at once: in the
apps' maps, in snapshots that are read and not sent, in messages not sent yet.
Coordinates, delays and the 60 seconds after which a snapshot forgets a vehicle
(`ReadSnapshot` may list any set of vehicles) are left to chance.

A client is registered before its snapshot is read and sent, so updates may come first,
and a snapshot that was read before a tick may come after that tick's update
(`LateSnapshot`): it takes the client back, once in a connection, until the vehicle's next
update. `StaysCurrent` names this as the only way in which a client is set back.

### FeedSessions: the database

Sessions are the loop's, the importer's, those of plan requests and those of
snapshots. A transaction is a path of named statements, and `LocksOf` gives the
table locks of each in order: reads and row writes share, `TRUNCATE` and the
`DROP` of a partition exclude. Table locks, their queue and the deadlock
detector are PostgreSQL's, and marked external. Everything is held until the
transaction ends, an aborted one included (its locks are released with the
error). `saw` is a history variable: the feeds a transaction has read from.
`feed` counts the imports that have committed, so it also stands for the ids,
which start again with each of them. Of the rows stored, `history` and `current` keep
those of one tick each, told by a `mark` from the ones before.

The day's maintenance deletes (`Maintain`): current rows of more than a day ago, and
with a dropped partition what the history had in it. Which of the two, if any, is
chance; it takes effect with the tick's commit, together with what the tick writes
(`Stored`). So the two tables need not be equal at every moment, and no property says
so: `StoredAtomically` is about the step in which positions appear.

`Victim` is a statement failed by the detector. A request, a snapshot and the
script lose their session with it; the loop catches the error, keeps the session
and never rolls it back, so `BeginTick` is disabled for good (the code's first
statement fails each time, with no effect).

Stop_times and the tables that go with trips are one table here, the three
calendar tables another. The tables TRUNCATE takes first (vehicle positions)
and the ones it takes later (calendar, stops, routes) keep the order of
`GTFS_TABLES`.

### GtfsValidation, GtfsImport, RouteQueries: a feed and its load

A feed is the rows of its files; a cell is its text and whether there are blanks
around it (`pad`), which is what the two readers of a feed differ in:
`Strip` is validation's reading, the bare cell the importer's, and `OrDefault` is
Python's `or`, for which a cell of blanks is a value. Validation is a predicate,
one conjunct per group of checks in `validate_feed`; which issues it words is left
out. Dates carry how they are spelled, numbers may be `Junk`. What is read in the
order of a sequence number is `Sorted`, as in `ServiceDays`.

The assumptions only say what a feed is: files of rows, rows of the columns that are
read (`FeedsAssumption`, `IsFeed`); what stands for an empty cell, for junk or for
a missing column is no number (`CellsAssumption`), and SQL's null is none of the
values (`NullAssumption`). What the cells say is free.

`GtfsImport` is the script: `Validate`, `Truncate`, one action per `_import_*`
method with every lookup it makes, `BuildShapeGeometries`, `Commit`. A missing
key, a violated key or check of the schema ends the run (`End("failed")`), and so
does `Kill`, at any step. `tables` is what the transaction sees, `committed`
what everybody else does. `FeedStore` is what is promised: the content is nothing
or that of one acceptable feed, replaced in one step. The refinement maps the
committed tables back to the words of the feed (`Decoded`), through every id that
was replaced on the way, and compares them with what the files say (`Says`).

Both promises are for feeds that are `Clean`: no blanks around a value, a date spelled
one way, numbers that fit their columns (a `route_type` is a smallint, `IsSmall`), and a
name and a timezone for every agency, two columns that must not be NULL and that
validation does not look at. Rows cut short, in which the last cells are missing, are left
out. Of the others the model shows what happens: an id with blanks around
it is looked up as it stands and fails the load; one in a trip's shape loses the
shape, one around a weekday's "1" loses the weekday, both silently; a service id
spelled two ways becomes two services; a date spelled two ways and a sequence
number or a route type wider than its column are refused by the table, and so is an
agency without a timezone.

`RouteQueries` adds the requests about a route (`DefaultPatternId`, `Patterns`,
`OrderedStops`, `ShapeGeometry`) and migration 0004's own derivation of the
patterns, from the loaded tables instead of the files. A request for the shape
that names no direction is about direction 0, one for the stops about the most
used pattern of either, so `RouteViewsAgree` is about requests that name one.

### ServiceDays and PlannerDays: two days at once

A moment counts from midnight of date 0. `ActiveServices`, `ActiveSegments`,
`ScheduledDepartures` and `ConnectionsForServices` are the queries; `Tick` is
the tick with its two service days, its limit and its upsert; `Board`, `Listed` and
`Connections` are what the departure board, the trips of a date and the planner
make of the queries. Against them stands one definition that the program does
not have: a *run* is a trip on a date, and it is in motion from each departure
to the next arrival (`Moving`). Properties compare every answer with the runs, and
the answers with each other.

A list in the order of some column is `Sorted` of `Sorting`, and the first rows of it
are `Limited`: an element's place is the number of those before it. This says the same
as the community modules' `SetToSortSeq`, which chooses among permutations and is
out of the provers' reach. Where SQL or Python leaves the order of equal rows
open, the models break the tie by id, and no property depends on it.

The assumptions, both named: windows are of a day at most (`DaysAssumption`; the
endpoint refuses longer ones, stops.py 69), and timetables are validated
(`DatabasesAssumption`: two events at least, no time runs backwards,
gtfs_validation.py 374, 398, 408). Nothing limits how late a trip may leave or how
long it may take.

What the model brought out beside the properties: when there are more buses than
the limit, those of last night are the first to be left out; a trip of a day or more
gives one vehicle two rows in one statement, which PostgreSQL refuses, and
the loop's session is then dead for good; the board announces
tomorrow's buses, of which the planner knows nothing (`PlannerSeesBoard` says
exactly which ones; it compares hops, so it cannot tell that the runs of two days share
a trip id, which only `LegsRideOneBus` does).

`PlannerDays` feeds `Connections` into `Csa` by `INSTANCE`. A trip that runs
on both days comes twice under one id, which `TimetablesAssumption` of `Csa`
excludes: hence finding 6, and hence the theorems about `Csa` speak of one
service day. For the hops of one service day the assumption holds whatever was imported:
that is `TimetableSound`, about `Hops` of `GtfsImport`, the same query on stored rows.

### VehicleHistory: positions kept

The clock counts units of which `DayLength` make a day. A simulator reads the date
(`ReadDate`), opens its transaction with its first statement (`Open`, which
fixes `now()`), maintains the partitions if it has not done so on that date,
inserts, upserts and commits; a midnight may lie between any two of these. What a
transaction has done is kept in `cleaned`, `faded` and `rows` until it commits. The
guards of `Maintain`, `Insert` and `Upsert` are the locks: the advisory lock of the
maintenance, the parent table while a partition is created or dropped, the rows
of the same vehicle. `Fail` may strike at any statement, which also
stands for deadlocks. The loop is "dead" after it (finding 5), the script ends; either
may be stopped and started at any time.

`Upgrade` and `Downgrade` are migration 0003 with its copies, its partitions, its
sequence and the ids the database gives on the way down. They run while no
simulator does. `PositionLog` is the promise: a log to which the positions of one
moment are appended, and the latest position of every vehicle, in the same step; ticks
drop only what has expired, and each migration keeps every vehicle's latest position.
The log is mapped to the rows of whichever tables there are. Two limits of the promise:

* `Store` may put an older moment on top, since the upsert asks nothing of the row it
  replaces; that two simulators can do so is not excluded by any property
  (`CurrentIsLatest` is about one simulator at a time).
* The upgrade copies the rows of thirty days, a number written out in the migration
  (`MigratedRetention`), whatever the setting is. With a longer retention it loses rows that
  have not expired. And a latest position older than that is kept in `current` alone, so
  the tick that replaces it drops it from the log (`GivesWay`), expired or not.

The assumptions, all named: the policy is any that the maintenance does not refuse, one
day and none ahead included; the migration's own days are two at least, and independent
of the setting (`PolicyAssumption`); vehicles and old rows are as a database has them (`VehiclesAssumption`: finitely many
vehicles; `LegaciesAssumption`: the rows of the table that 0003 finds, with ids that
rise with the moments, as the sequence gave them), and no tick lasts over two
midnights (the guard of `Elapse`). Under a policy of a single day, or of none ahead, a tick
across midnight may find no partition, or store a row that outlives its day:
`TicksFindPartition` and `OldDaysDropped` name these cases and promise the rest.

`alone` is a history variable: no two simulators have been up at once.
`CurrentIsLatest` and `MigrationsSucceed` need it. With two, one that began earlier
and commits later puts the older position on top; ids then do not rise
with the moments, and a downgrade after a second upgrade may give an id twice.

## 4. Runs

| run | question | answer |
|---|---|---|
| `csa` | does the scan answer every query correctly? | yes, all eight properties |
| `csa_fewest` | does it use the fewest vehicles for its arrival, as csa.py 73-74 says? | no |
| `csa_ties` | is it exact on hops that take no time? | no |
| `csa_gaps` | does a leg count the hops it rides, as csa.py 49 says, when numbers have gaps? | no |
| `fanout` | do clients, loop and maps survive any coming and going? | yes, all six |
| `fanout_drop` | does a broadcast reach every client that is there throughout, as manager.py 24 says? | no |
| `feed` | what survives an import under load? | all six properties |
| `feed_rerun` | does an import leave the simulation running, as "re-running is safe" suggests? | no |
| `import` | what does a feed turn into, and what if it is odd or the importer is killed? | what its files say, at once or not at all: all six properties |
| `days` | do tick, board, trips of a date and planner agree on which buses run? | yes, all seven |
| `planner_overnight` | does every planned leg ride one bus, as csa.py 41 says? | no |
| `history` | do positions survive midnights, failures, restarts and migrations? | yes, all six |

**csa.** Three stops, three trips over five lines, each trip at all combinations of
three or two start times and hop durations of one or two, every origin and
destination, buffer 1. Two-hop trips are what staying on board needs. The reverse line may leave late enough to be boarded from the
through line and again at the origin it comes by, with a vehicle less: the case
in which `boarded` is compared and replaced. Hops of different trips share departure times, so
the free order is exercised. A planner's answer is a state with no successor
once the traveller has no bus left, hence no deadlock check.

**csa_fewest.** Four trips: one slow direct bus to a stop, two fast ones to the same
stop, one bus onwards. The earlier label wins although the onward bus is the
same; the answer has three vehicles where two suffice.

**csa_ties.** Two trips with durations 0 and 1. A hop b-c at a second is scanned
before the hop a-b of the same second, and the journey is missed.

**csa_gaps.** One trip over three stops, numbered by tens. From the first stop to the
last the leg reports eleven stops and rides two hops.

**fanout.** Two vehicles, two clients, each of which comes and goes for ever. Two
clients are what is needed for one to change the set during a send to the other,
two vehicles for a tick with a message left to lose and for a vehicle that stops
while another goes on. The property `CatchesUp` supposes a client that stays and
a vehicle that is ticked again and again, and allows one alternative: the others come
and go *during* broadcasts again and again (`Disturbed`). Without that alternative TLC
finds the behaviour in which each broadcast is ended by the error of a changed set
before it reaches the client that stays. The safety properties and `LoopGoesOn` hold
for three clients and one vehicle, too.

**feed.** The loop, one planner session and one viewer that come again and again, and
an import that is tried until it commits. One feed to import already gives
every race (`MaxFeeds = 1`); the maintenance of each day may delete from either table or
from none; safety holds for `MaxFeeds = 2` as well, and the
proofs cover every `MaxFeeds` and every number of sessions. Circles of
tick and importer and of request and importer both occur; three sessions never
wait for one another in a ring (checked for two planner sessions, too).

**import.** A feed of an agency, a route, three stops, two services, one shape, three
trips: two of one pattern and one of another, rows out of order, gaps in the
sequences, a station listed after its stop, a service that has only dates. The
first run of the script loads it, so that there is an old feed to lose; the second
finds any of the feeds that differ from it in one cell of those listed, in
two of which one is accepted by itself, in two of the same file, or that lacks a file.
Two cells are what a check that relates two rows can be fooled by. Every
action may be cut short by a kill.

**days.** Days of six units, ticks over two midnights (moments 5 to 18), four sets
of three trips: morning, over midnight with a stop at midnight, past midnight
altogether, a day and longer, two days late, and one that comes by its first stop twice; three
calendars and three sets of exceptions, some without a regular calendar. The limit of
two vehicles is reached and exceeded. Windows are shorter than, and as long as, a day.

**planner_overnight.** One bus a day that goes round through midnight. Asked at
half past midnight from b to d, the planner boards last night's bus at b and leaves
this evening's at d, with -1 stops.

**history.** Two vehicles, the loop and one script, days of two units, five moments from
the end of one day over two midnights, three days of retention and one ahead, two days
for the migration, so that it drops what has not expired; four sets of
old rows and two rows written by ticks. Two midnights are what a missed day of
maintenance needs to be felt; two rows are one tick with two vehicles, or two
ticks of either simulator. The same properties hold for a policy of one day and none
ahead, of one and one, and of two and none, with the migration's days the same
or more.

### Fairness

* `Csa`: `plan` is a function call and runs until it returns: `WF_vars(Next)`. In
  `Traveller` only the planner's steps are fair.
* `RealtimeFanout`: the event loop runs every task that is ready: weak fairness
  of the simulation and of each handler. An awaited send ends (the server's
  WebSocket layer raises when the peer is gone). Nothing makes clients come or
  leave, and nothing makes a tick find a vehicle.
* `FeedSessions`: a transaction that has its locks goes on (`WF` of ticks,
  imports and of each request). Locks are granted in queue order, so one that is
  free again and again is granted (`SF` of `Lock`); each waiter runs the deadlock
  detector after its timeout (`WF` of `Victim`). Nobody is made to ask for a
  plan or to begin an import.
* `GtfsImport`, `ServiceDays`, `PlannerDays` and `VehicleHistory` state no fairness:
  their properties are invariants, steps and refinements. That imports and
  requests end is `FeedSessions`' question.

### Faulty definitions

The operators whose name starts with `Faulty` (and `StaleStateAfter`) are what the
definition after them would be with a plausible mistake. No specification uses
them. Put in the place of the right definition, each one makes TLC report the
property named with it under "mutants" in `PROJECT.json`, which shows that the
property can tell.

## 5. Findings

1. `csa.plan` does not always use the fewest vehicles (`csa_fewest`; csa.py 73-74
   says it does). The arrival is right.
2. With hops of no duration, which validation admits, it is not exact (`csa_ties`;
   csa.py 5-6). Sorting by departure and arrival is not enough either: a chain of
   such hops needs the trip's order.
3. A client that joins or leaves during a send ends the broadcast for all, and the
   tick's other messages with it (`fanout_drop`; manager.py 24). Iterating over a
   copy of the set would do. The loop survives and clients catch up with the
   next tick (`LoopGoesOn`, `CatchesUp`).
4. `num_stops` of a leg subtracts the numbers of stops (`csa_gaps`; csa.py 49 and 139).
   Validation admits gaps (gtfs_validation.py 400-402) and the query of the
   connections expects them (connection_repository.py 3-5). `ROW_NUMBER` in that query
   would do.
5. An import can deadlock with a tick. If the tick is the victim, the loop's session
   stays in an aborted transaction, and every later tick fails
   until the process is restarted (`feed_rerun`; import_gtfs.py 8). A rollback
   in the `except`, or a session per tick, would do.
6. The planner takes a traveller from last night's bus to today's bus of the same trip
   (`planner_overnight`; csa.py 41). A trip id per service day in the merged
   connections would do.

## 6. Proofs

All for every value of the constants that satisfies the named assumptions.

**CsaProofs** (`TypesHold`, `JourneysConnect`, `WalksResolve`): for every timetable that
passes validation, zero durations included. `JourneyConnects` speaks of legs,
which come out of labels, which come out of each other, so the inductive
invariant `IInv` says of every label that it is *justified* by the labels of now:
its entry connection could be boarded at the present label of the entry's stop
with the buffer, and its vehicle and time come after. A label is only ever
replaced by one that is no later, and an earlier arrival keeps every boarding
possible (`BoardableStays`): that is why overwriting is harmless. The walk back
ends because each entry leaves before the label it serves.

**CsaExact** (`LegsAreRides`, `CountsAreLegs`, `BoardingStopsAreFinal`,
`PlannerIsExact`): under `StrictHops`, no hop takes zero time, which is exactly what
`csa_ties` shows to be needed. Then the label a trip was boarded from cannot be
replaced any more (a hop that could would have to arrive before it departs), the
counts derived from it stay true, and every scanned hop that is boardable is on
board (`OnBoard`) and has been relaxed (`Relaxed`). The traveller of `Traveller` is
then followed hop by hop: the stop they are at has a label that is no later, or
lies behind the cutoff. That is `PlannerIsExact`. All of the run `csa` is strict.

**FeedSessionsProofs** (`SessionTypesHold`, `TransactionsSeeOneFeed`,
`PositionsBelongToFeed`, `PositionsStoredTogether`): for any number of requests and
viewers and any `MaxFeeds`. None of the properties is inductive: they hold because
of locks. `IInv` adds that nobody shares a table with whoever excludes others
from it (`Exclusion`), that an importer which loads excludes everybody from every
table (`ImportExcludes`), and that whoever has read holds a lock
(`ReadersHoldLocks`). When the importer commits, therefore, nobody has read
anything (`CommitImportStep`), and all that is read later is of the new feed
(`ReadsAreFresh`). `WritesFollow` ties what the loop has written to the statement
it is at: at a commit both tables are written or none. The mark tells the positions a
commit writes from all that are stored, and the tables never hold positions of two ticks
(`TablesAgree`: equal, or one of them empty), so that `PositionsStoredTogether` speaks of the
step in which they appear, whatever maintenance has deleted from either table.

**RealtimeFanoutProofs** (`FanoutTypesHold`, `NoClientLeaks`, `UpdatesNeverSetBack`): for
any set of clients, which come and go for ever, and any finite set of vehicles. That no
update takes a client back in time, and that nothing but a late snapshot does
(`StaysCurrent`), rests on when the loop ticks. `IInv` adds that nothing is
left to broadcast when it sleeps (`NothingLeft`), so that a tick never ages a
message that still waits, and that what waits is of the last tick
(`MessagesCurrent`); `SendEnds` can then only write current positions.

**VehicleHistoryProofs** (`PartitionIsThere`, `OldDaysAreDropped`, `HistoryTypes`,
`CurrentStaysLatest`, `MigrationsGoThrough`, `TablesImplementLog`): for any number of
scripts beside the loop, any length of a day, any contents of the single table, every
policy the maintenance accepts, and any days of the migration from two on, whatever the
policy. A simulator trusts its note of
the date it did the maintenance on, while others drop and create partitions.
`MaintenanceHolds` says what a note that is committed is worth: the noted day and
the days ahead have partitions until they are over, and no row is older than the
retention says; under a policy of a single day, a tick across midnight costs
yesterday's partition and may leave yesterday's rows (`Spared`, `Kept`). It
survives the others' commits because nobody in a tick is more
than one midnight behind (`AtMostAMidnight`, the assumption of `Elapse`), and
survives rollbacks and restarts because the note is then lost (`NoteHolds`).

The rows themselves have an invariant of their own, `TInv`. A tick's rows and its
maintenance touch nothing that another tick has under way (`LocksHold`: one
maintenance at a time, of current rows that nobody upserts, and of no partition that
somebody has inserted into, since whoever defines partitions waits for them). As long as
one simulator at a time is up, more is true: ids rise with the dates, of the single table
(`Rising`) as of the history; a current row is its vehicle's latest (`LatestHolds`); the
downgrade gives ids, from one on, to the vehicles without a row in the history (`Absent`),
and that many ids are always free below those of the history (`IdsHold`, `IdsAhead`).
This is counted: a vehicle comes to be `Absent` when the rows it had are dropped, by
the upgrade or by a commit; these had ids of their own, one each at least, and ids that
rise with the dates lie below all that remain. The last part is what
`MigrationsGoThrough` rests on, and it is not in the code anywhere.
`TablesImplementLog` needs the first parts only, so it holds with any number of
simulators: a commit is `Store`, a migration `Upgrade` or `Downgrade`, `Elapse` is
`Pass`, all else a stutter. What a commit does away with is older than the retention, or
was the latest position of an `Absent` vehicle (`Given`), which may be one that the
upgrade did not copy although the retention is longer.

**ServiceDaysProofs** (`DaysTypes`, `BusesAreShown`, `OnlyLongTripsFail`, `BusesGetOn`,
`BoardIsComplete`, `PlannerSeesAnnounced`, `ListedAreOnTheRoad`): for every validated
timetable, every calendar with its exceptions, any length of a day, any limit, any
stretch of time. The invariant only says that vehicles and answers are
what the queries give now, or gave at the tick before a failed one; the work is in what the queries give. A
moment has one date and one clock time (`ClockIs`, `DateIs`), also a
negative one; a trip is between two stops at one place at most, since its times rise;
so the hops under way on today's clock, and those on yesterday's, a day ahead, are
the buses in motion, each once (`EveryBusShown`), and the limit takes its share of
each (`LimitedIs`). `BusesMoveOn` compares two ticks in which a bus may be
today's and then yesterday's: its moment is the same on either clock. For
the board, a bus that leaves within a day from now belongs to yesterday, today
or tomorrow by its *departure*, although its trip may have begun before; the list has
no bus twice since its rows are numbered by trip, place and day (`DueNumber`).
`SortedLists` says that a list of `Sorted` has every element at one place and in order.

**GtfsImportProofs** (`ImportTypes`, `CleanFeedsLoad`, `TimetableIsSound`,
`PatternsAgree`, `ViewsOfOnePattern`, `ImporterImplementsStore`): for all feeds, with
any number of rows and whatever in their cells. None of the properties is
inductive, since they speak of the end and the importer works for nine steps towards
it. The invariant says of each table how its rows come from those of the feed
(`AgenciesLoaded` to `StopTimesLoaded`, `GeometriesBuilt`): row by row, with every
id that was looked up leading back to the id in the file (`Refers`). `Stage` has it for the tables
filled so far and emptiness for the others, `Loaded` for all; the others read nothing
or what is `Loaded` of an accepted feed (`CommittedInv`). The rest follows from it:

* A part that is loaded holds its keys and checks, and a part whose turn it is finds
  every key it looks up, when the feed was accepted and is clean (`StageHolds`, one `...Fit` per
  table). So a failed run means that the feed was not clean.
* `TimetableIsSound` is what lets the theorems about `Csa` apply: the hops of
  the stored rows are a timetable (`HopsInTime`). Since validation has found no ring of
  stations in the feed, there is none of ids (`NoRing`).
* The importer derives patterns from rows and strings, migration 0004 from ids: they
  agree because two trips have one key exactly if they have one signature in
  ids. The first of the list is the default because both use one order, in which ties
  end with the id (`PatternsInOrder`, `DefaultIsFirst`).
* For `ImporterImplementsStore`, `Decoded` is followed through every id to the cell it
  came from and compared with `Says`, table by table (the lemmas `...Decoded`). It
  follows that `Commit` is the store's step, and everything else, kills included, a stutter.

The proofs rely on nothing but the assumptions of the modules and the library's
theorems on sequences and finite sets. The invariants were model-checked before they were proved.

**Only model-checked:** everything temporal beyond invariants and steps (`Returns`,
`LoopGoesOn`, `GoneClientsDropped`, `CatchesUp`, `RequestsEnd`, `ImportsEnd`), since the
prover does not handle liveness under fairness. `PlannerDays` has only the run that
refutes it: its legs are wrong in the code, and what is right on one day is proved of `Csa`.

## 7. Not modelled

* Text and distance searches, nearest stops: operators of PostgreSQL and
  PostGIS in single statements.
* The app's screens, its HTTP client, generated code, theme; the website.
* Migration 0001, indexes and ORM classes: declarative.
* The feed generator: an offline script with a fixed output.
* Departures, routes, stops and trips requests as sessions: one or two reads
  each, with the locks of a shorter plan request.
* The delays' drift, bearings, coordinates: no other state depends on them.
* The planner form of the app: two requests may be under way, and the answer that
  comes last is shown. It is one screen's state, and no other part reads it.
* How a plan's legs are dressed with the names of stops and routes, and the answer
  when origin and destination are the same stop (planner_service.py 113).
* The zip file and the rereading of a directory between validation and load: the
  feed is taken to stay as it is.
* Times of 48:00 and more, which validation accepts and no query ever finds.
