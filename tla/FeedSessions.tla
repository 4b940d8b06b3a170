---------------------------- MODULE FeedSessions ----------------------------
(***************************************************************************)
(* The database sessions of the backend while the timetable is replaced:   *)
(* the simulation loop's ticks, the planner's requests, the snapshots of   *)
(* live viewers, and the importer, which truncates and reloads every table *)
(* in one transaction.                                                     *)
(*                                                                         *)
(* Each session runs its statements in order; a statement first takes the  *)
(* table locks it needs, one by one, and they are kept until the           *)
(* transaction ends.  Only two kinds of lock tell sessions apart here:     *)
(* readers and row writers share a table, TRUNCATE and DROP exclude        *)
(* everybody.  The locks, the queue of their waiters and the deadlock      *)
(* detector are those of PostgreSQL.                                       *)
(***************************************************************************)
EXTENDS Naturals, Sequences, FiniteSets

CONSTANTS
  Loop,       \* the session of the simulation loop, kept for the process's life
  Importer,   \* the session of a run of scripts/import_gtfs.py
  Planners,   \* sessions of plan requests
  Viewers,    \* sessions that read a live snapshot
  MaxFeeds,   \* bound: the feeds imported one after the other
  None        \* no vehicle position

ASSUME SessionsAssumption ==
  /\ Loop \notin Planners \cup Viewers \cup {Importer}
  /\ Importer \notin Planners \cup Viewers
  /\ Planners \cap Viewers = {}

ASSUME MaxFeedsAssumption == MaxFeeds \in Nat

Sessions == {Loop, Importer} \cup Planners \cup Viewers

\* The order TRUNCATE lists the tables in; stop_times and the tables that go
\* with the trips count as "trips", the three calendar tables as "calendar".
GtfsTables == <<"current", "history", "trips", "calendar", "stops", "routes">>

Tables == {GtfsTables[i] : i \in DOMAIN GtfsTables}

Modes == {"share", "exclusive"}

Share(tables) == [i \in DOMAIN tables |-> [table |-> tables[i], mode |-> "share"]]

Exclude(tables) == [i \in DOMAIN tables |-> [table |-> tables[i], mode |-> "exclusive"]]

\* The locks of each statement, in the order it takes them.
LocksOf == [
  maintain    |-> Share(<<"history", "current">>),
  prune       |-> Exclude(<<"history">>) \o Share(<<"current">>),
  services    |-> Share(<<"calendar">>),
  segments    |-> Share(<<"trips", "routes", "stops">>),
  insert      |-> Share(<<"history">>),
  upsert      |-> Share(<<"current">>),
  truncate    |-> Exclude(GtfsTables),
  resolve     |-> Share(<<"stops">>),
  dates       |-> Share(<<"calendar">>),
  connections |-> Share(<<"trips">>),
  stops       |-> Share(<<"stops">>),
  routes      |-> Share(<<"routes">>),
  latest      |-> Share(<<"current", "trips", "routes">>),
  commit      |-> <<>>,
  load        |-> <<>>,
  idle        |-> <<>>]

\* The positions of a tick: the feed their trip ids were read from, and a mark
\* that tells them from those stored before.
Position == [feed : 0..MaxFeeds, mark : 0..1]

VARIABLES
  feed,        \* the feed that is loaded; every import that commits loads a new one
  current,     \* the rows of current_vehicle_positions, those of one tick
  history,     \* the newest rows of vehicle_position_history
  statement,   \* per session, the statement it runs; "idle" between transactions
  locks,       \* per session, the table locks it holds
  saw,         \* per session, the feeds its transaction has read from
  wrote,       \* the tables the loop's open transaction has written
  deleted,     \* the tables whose rows its maintenance has deleted
  maintained,  \* the loop's partition maintenance is done for the day
  aborted      \* the loop's transaction has failed and was not rolled back

store == <<feed, current, history>>
loopState == <<wrote, deleted, maintained, aborted>>
vars == <<store, statement, locks, saw, loopState>>

-----------------------------------------------------------------------------
Init ==
  /\ feed = 0 /\ current = None /\ history = None
  /\ statement = [s \in Sessions |-> "idle"]
  /\ locks = [s \in Sessions |-> {}]
  /\ saw = [s \in Sessions |-> {}]
  /\ wrote = {} /\ deleted = {} /\ maintained = FALSE /\ aborted = FALSE

-----------------------------------------------------------------------------
\* Locks.

Covers(held, lock) == held.table = lock.table /\ held.mode \in {lock.mode, "exclusive"}

\* The locks a session's statement has yet to take.
Missing(s) == {i \in DOMAIN LocksOf[statement[s]] :
                 \A held \in locks[s] : ~ Covers(held, LocksOf[statement[s]][i])}

\* The lock it takes next, the first of them; at most one.
Wants(s) == {LocksOf[statement[s]][i] : i \in {i \in Missing(s) : \A j \in Missing(s) : i <= j}}

\* r holds a lock that s has to wait for.
WaitsFor(s, r) ==
  /\ s # r
  /\ \E lock \in Wants(s), held \in locks[r] :
       held.table = lock.table /\ "exclusive" \in {held.mode, lock.mode}

\* s queues behind r, which waits to exclude everybody from the table.
QueuesBehind(s, r) ==
  \E lock \in Wants(s) :
    lock.mode = "share" /\ [lock EXCEPT !.mode = "exclusive"] \in Wants(r)

Lock(s) ==
  /\ \A r \in Sessions : ~ WaitsFor(s, r) /\ ~ QueuesBehind(s, r)
  /\ \E lock \in Wants(s) : locks' = [locks EXCEPT ![s] = @ \cup {lock}]
  /\ UNCHANGED <<store, statement, saw, loopState>>

\* s runs the given statement and has all its locks.
Runs(s, name) == statement[s] = name /\ Missing(s) = {}

\* The transaction goes on with another statement.
Continue(s, name) ==
  /\ statement' = [statement EXCEPT ![s] = name]
  /\ UNCHANGED locks

Read(s) == saw' = [saw EXCEPT ![s] = @ \cup {feed}]

\* The transaction ends, one way or the other, and its locks with it.
End(s) ==
  /\ statement' = [statement EXCEPT ![s] = "idle"]
  /\ locks' = [locks EXCEPT ![s] = {}]
  /\ saw' = [saw EXCEPT ![s] = {}]

Blocked == {s \in Sessions : \E r \in Sessions : WaitsFor(s, r)}

\* s is part of a circle of sessions that wait for one another.
Deadlocked(s) ==
  /\ \E r \in Sessions : WaitsFor(s, r)
  /\ \E circle \in SUBSET Blocked :
       /\ s \in circle
       /\ \A r \in circle : /\ \E q \in circle : WaitsFor(r, q)
                            /\ \E q \in circle : WaitsFor(q, r)

\* The detector ends a circle: the statement of one of its sessions fails.  A
\* request's session, a viewer's and the importer's are closed by the error;
\* the loop logs it and keeps its session, whose transaction stays aborted.
Victim(s) ==
  /\ Deadlocked(s)
  /\ End(s)
  /\ IF s = Loop THEN aborted' = TRUE /\ wrote' = {} /\ deleted' = {}
                 ELSE UNCHANGED <<aborted, wrote, deleted>>
  /\ UNCHANGED <<store, maintained>>

-----------------------------------------------------------------------------
\* A tick of the simulation loop.

\* The tick begins with the day's partition maintenance when it is still due;
\* it locks the whole history ("prune") to drop a partition or to create one.
\* In an aborted transaction the first statement fails again, and nothing
\* changes.
BeginTick(first) ==
  /\ statement[Loop] = "idle" /\ ~ aborted
  /\ first \in IF maintained THEN {"services"} ELSE {"maintain", "prune"}
  /\ Continue(Loop, first)
  /\ UNCHANGED <<store, saw, loopState>>

\* Current positions of more than a day ago are deleted, and with a partition
\* that is dropped what the history had in it, be it the newest it has.  Others
\* see it once the tick commits; the date is noted at once.
Maintain(expired) ==
  /\ \/ Runs(Loop, "maintain") /\ expired \subseteq {"current"}
     \/ Runs(Loop, "prune") /\ expired \subseteq {"current", "history"}
  /\ current = None => "current" \notin expired
  /\ history = None => "history" \notin expired
  /\ deleted' = expired /\ maintained' = TRUE
  /\ Continue(Loop, "services")
  /\ UNCHANGED <<store, saw, wrote, aborted>>

\* No service runs today or yesterday: there is nothing to write.
ReadServices(next) ==
  /\ Runs(Loop, "services") /\ next \in {"segments", "commit"}
  /\ Read(Loop) /\ Continue(Loop, next)
  /\ UNCHANGED <<store, loopState>>

\* No vehicle is under way: there is nothing to write.
ReadSegments(next) ==
  /\ Runs(Loop, "segments") /\ next \in {"insert", "commit"}
  /\ Read(Loop) /\ Continue(Loop, next)
  /\ UNCHANGED <<store, loopState>>

\* A mark no stored position has.
FreshMark == CHOOSE m \in 0..1 : \A row \in {current, history} \ {None} : row.mark # m

\* Faulty: the history is committed before the current state is written.
FaultyInsertHistory ==
  /\ Runs(Loop, "insert")
  /\ history' = [feed |-> feed, mark |-> FreshMark]
  /\ Continue(Loop, "upsert")
  /\ UNCHANGED <<feed, current, saw, loopState>>

InsertHistory ==
  /\ Runs(Loop, "insert")
  /\ wrote' = wrote \cup {"history"}
  /\ Continue(Loop, "upsert")
  /\ UNCHANGED <<store, saw, deleted, maintained, aborted>>

UpsertCurrent ==
  /\ Runs(Loop, "upsert")
  /\ wrote' = wrote \cup {"current"}
  /\ Continue(Loop, "commit")
  /\ UNCHANGED <<store, saw, deleted, maintained, aborted>>

\* Faulty: the rows name no trip.
FaultyWritten == [feed |-> None, mark |-> FreshMark]

\* The rows this tick has written, of the feed its segments were read from.
Written == [feed |-> CHOOSE f \in saw[Loop] : TRUE, mark |-> FreshMark]

\* What is in a table when the tick commits.
Stored(table, rows) ==
  IF table \in wrote THEN Written ELSE IF table \in deleted THEN None ELSE rows

CommitTick ==
  /\ Runs(Loop, "commit")
  /\ history' = Stored("history", history)
  /\ current' = Stored("current", current)
  /\ wrote' = {} /\ deleted' = {}
  /\ End(Loop)
  /\ UNCHANGED <<feed, maintained, aborted>>

\* A new day: the maintenance is due again.
Midnight ==
  /\ statement[Loop] = "idle" /\ maintained
  /\ maintained' = FALSE
  /\ UNCHANGED <<store, statement, locks, saw, wrote, deleted, aborted>>

-----------------------------------------------------------------------------
\* An import; the feed has passed validation.

BeginImport ==
  /\ statement[Importer] = "idle" /\ feed < MaxFeeds
  /\ Continue(Importer, "truncate")
  /\ UNCHANGED <<store, saw, loopState>>

\* Faulty: the emptied tables are committed before they are loaded.
FaultyTruncate ==
  /\ Runs(Importer, "truncate")
  /\ statement' = [statement EXCEPT ![Importer] = "load"]
  /\ locks' = [locks EXCEPT ![Importer] = {}]
  /\ UNCHANGED <<store, saw, loopState>>

Truncate ==
  /\ Runs(Importer, "truncate")
  /\ Continue(Importer, "load")
  /\ UNCHANGED <<store, saw, loopState>>

\* Faulty: the script hangs with its transaction open.
FaultyImportFails ==
  /\ statement[Importer] = "load"
  /\ statement' = [statement EXCEPT ![Importer] = "idle"]
  /\ UNCHANGED <<store, locks, saw, loopState>>

\* A row does not go in: the script ends and its transaction is rolled back.
ImportFails ==
  /\ statement[Importer] = "load"
  /\ End(Importer)
  /\ UNCHANGED <<store, loopState>>

\* Faulty: the live positions are not among the tables that are truncated.
FaultyCommitImport ==
  /\ statement[Importer] = "load"
  /\ feed' = feed + 1 /\ history' = None
  /\ End(Importer)
  /\ UNCHANGED <<current, loopState>>

CommitImport ==
  /\ statement[Importer] = "load"
  /\ feed' = feed + 1 /\ current' = None /\ history' = None
  /\ End(Importer)
  /\ UNCHANGED loopState

-----------------------------------------------------------------------------
\* A plan request: both stops, the services of two days, the connections, and
\* the stops and routes of the legs.

Request(p) ==
  /\ statement[p] = "idle"
  /\ Continue(p, "resolve")
  /\ UNCHANGED <<store, saw, loopState>>

PlanSteps == [resolve |-> "dates", dates |-> "connections", connections |-> "stops",
              stops |-> "routes"]

\* One of the request's statements is answered and the next one is sent.
Plan(p, name) ==
  /\ Runs(p, name) /\ name \in DOMAIN PlanSteps
  /\ Read(p) /\ Continue(p, PlanSteps[name])
  /\ UNCHANGED <<store, loopState>>

\* Faulty: the session of an answered request is not closed.
FaultyAnswer(p) ==
  /\ \E name \in {"resolve", "dates", "connections", "routes"} : Runs(p, name)
  /\ statement' = [statement EXCEPT ![p] = "idle"]
  /\ UNCHANGED <<store, locks, saw, loopState>>

\* The request is answered and its session closed: a stop is unknown, no
\* service runs on either day, no journey is found, or the journey is complete.
Answer(p) ==
  /\ \E name \in {"resolve", "dates", "connections", "routes"} : Runs(p, name)
  /\ End(p)
  /\ UNCHANGED <<store, loopState>>

\* A viewer's snapshot is one statement.
View(v) ==
  /\ statement[v] = "idle"
  /\ Continue(v, "latest")
  /\ UNCHANGED <<store, saw, loopState>>

Snapshot(v) ==
  /\ Runs(v, "latest")
  /\ End(v)
  /\ UNCHANGED <<store, loopState>>

-----------------------------------------------------------------------------
Ticks ==
  \/ \E first \in {"maintain", "prune", "services"} : BeginTick(first)
  \/ \E expired \in SUBSET {"current", "history"} : Maintain(expired)
  \/ InsertHistory \/ UpsertCurrent \/ CommitTick
  \/ \E next \in {"segments", "insert", "commit"} : ReadServices(next) \/ ReadSegments(next)

Imports == Truncate \/ ImportFails \/ CommitImport

Serves(s) == (\E name \in DOMAIN PlanSteps : Plan(s, name)) \/ Answer(s) \/ Snapshot(s)

Next ==
  \/ \E s \in Sessions : Lock(s) \/ Victim(s)
  \/ Ticks \/ Midnight
  \/ BeginImport \/ Imports
  \/ \E p \in Planners : Request(p) \/ (\E name \in DOMAIN PlanSteps : Plan(p, name)) \/ Answer(p)
  \/ \E v \in Viewers : View(v) \/ Snapshot(v)

\* Whoever runs a transaction goes on with it; a lock that is free is granted,
\* and one that is free again and again too, for waiters queue; every waiter
\* looks for a deadlock.
Spec == /\ Init /\ [][Next]_vars
        /\ WF_vars(Ticks) /\ WF_vars(Imports)
        /\ \A s \in Planners \cup Viewers : WF_vars(Serves(s))
        /\ \A s \in Sessions : SF_vars(Lock(s)) /\ WF_vars(Victim(s))

-----------------------------------------------------------------------------
\* Every variable keeps its type, and positions belong to a feed
\* (realtime_service.py 39-46, 01_schema.sql 236-249).
TypeOK ==
  /\ feed \in 0..MaxFeeds
  /\ current \in Position \cup {None} /\ history \in Position \cup {None}
  /\ statement \in [Sessions -> DOMAIN LocksOf]
  /\ locks \in [Sessions -> SUBSET [table : Tables, mode : Modes]]
  /\ saw \in [Sessions -> SUBSET (0..MaxFeeds)]
  /\ wrote \subseteq {"history", "current"} /\ deleted \subseteq {"history", "current"}
  /\ maintained \in BOOLEAN /\ aborted \in BOOLEAN

\* A transaction reads from one feed: no request combines the stops of one
\* timetable with the trips of another, although its statements each see what
\* is committed when they run, and an import may commit at any time
\* (planner_service.py 29-123, gtfs_import_service.py 121-149, database.py 14-17).
OneFeed == \A s \in Sessions : \A f, g \in saw[s] : f = g

\* Stored positions refer to trips of the loaded feed: the ids start again at
\* one with every import, so a position that outlived its feed would be shown
\* on a trip it has nothing to do with (gtfs_import_service.py 146-149,
\* realtime_service.py 66-118).
PositionsOfFeed == \A row \in {current, history} : row # None => row.feed = feed

\* "Storing history and current state atomically" (realtime_service.py 52): the
\* positions of a tick appear in both tables in one step, whatever maintenance
\* or an import takes out of one of them, so the two never say different things
\* (vehicle_position_repository.py 75-94).
StoredAtomically ==
  [][/\ current' \notin {current, None} => history' = current'
     /\ history' \notin {history, None} => current' = history']_vars

\* Every plan request is answered, if only by an error: no import keeps it
\* waiting for ever (planner_service.py 39-123, database.py 14-17).
RequestsEnd == \A p \in Planners : []<>(statement[p] = "idle")

\* An import ends, whatever keeps its tables busy (import_gtfs.py 28-38).
ImportsEnd == []<>(statement[Importer] = "idle")

\* "Re-running is safe" (import_gtfs.py 8, README.md 201): an import leaves the
\* simulation running.
SimulationGoesOn == []<>(statement[Loop] = "commit")
=============================================================================
