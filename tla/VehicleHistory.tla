--------------------------- MODULE VehicleHistory ---------------------------
(***************************************************************************)
(* The tables of vehicle positions: the partitioned history, the current   *)
(* row of every vehicle, the maintenance of the daily partitions in the    *)
(* ticks of the simulators, and the migration between these tables and the *)
(* single one they replace.                                                *)
(*                                                                         *)
(* The simulators are the loop of the API and the standalone script; each  *)
(* ticks in a session of its own and may be stopped and started again.     *)
(* What a transaction does becomes visible when it commits; until then its *)
(* locks keep others from the same rows, from a table that is created or   *)
(* dropped, and from the maintenance.  Migrations run while no simulator   *)
(* does, as README.md 178 and the Makefile have it.  Imports, which empty  *)
(* the tables, are in FeedSessions.                                        *)
(***************************************************************************)
EXTENDS Integers, FiniteSets, FiniteSetsExt

CONSTANTS
  Vehicles,   \* vehicle ids, in the order the rows of a tick have
  Api,        \* the API's loop, which survives an error
  Scripts,    \* runs of simulate_realtime.py, which do not
  DayLength,  \* a day and 24 hours, in units of the clock
  Retention,  \* vehicle_history_retention_days
  Future,     \* vehicle_partition_future_days
  MigratedRetention,  \* 30 and 7, written out in the migration, whatever the settings
  MigratedFuture,
  Legacies,   \* the contents the single table may start with
  Start,      \* bound: the moments of the clock
  Finish,
  MaxIds,     \* bound: the ids that ticks hand out
  Never       \* no moment, no date

ASSUME NeverAssumption == Never \in Int /\ Never < 0
ASSUME ClockAssumption == Start \in Nat /\ Finish \in Nat /\ Start <= Finish

\* Any policy that the maintenance does not refuse.
ASSUME PolicyAssumption ==
  /\ DayLength \in Nat \ {0} /\ Retention \in Nat \ {0} /\ Future \in Nat
  /\ MigratedRetention \in Nat \ {0, 1} /\ MigratedFuture \in Nat

ASSUME VehiclesAssumption == Vehicles \subseteq Int /\ IsFiniteSet(Vehicles)

Simulators == {Api} \cup Scripts

Row == [id : Nat \ {0}, vehicle : Vehicles, at : 0..Finish]

Date(moment) == moment \div DayLength

DistinctIds(table) == \A r, q \in table : r.id = q.id => r = q

\* Ids rise with the days, but among the rows that are too old to be copied.
Rising(table, today) ==
  \A q, r \in table :
    Date(q.at) < Date(r.at) /\ Date(r.at) > today - MigratedRetention => q.id < r.id

\* The single table has been written by one simulator at a time.
ASSUME LegaciesAssumption ==
  \A table \in Legacies :
    /\ table \subseteq Row /\ IsFiniteSet(table) /\ DistinctIds(table)
    /\ \A row \in table : row.at <= Start
    /\ Rising(table, Date(Start))

VARIABLES
  clock,
  schema,      \* "single": the tables of revision 0002; "split": those of 0003
  positions,   \* the rows of vehicle_positions
  history,     \* the rows of vehicle_position_history
  partitions,  \* the dates it has a partition for
  sequence,    \* the next id of the history
  current,     \* recorded_at of each vehicle's current row
  pc,          \* per simulator; "down", "idle", "dead" or where its tick is
  utc,         \* per simulator, the date its tick has read
  begun,       \* now() of its transaction
  maintained,  \* _partition_maintenance_date, of no use once it is down or dead
  cleaned,     \* the transaction has done the maintenance
  faded,       \* the current rows it has deleted
  rows,        \* the rows it has inserted
  alone        \* no two simulators have been up at once

tables == <<schema, positions, history, partitions, sequence, current>>
transaction == <<cleaned, faded, rows>>
vars == <<clock, tables, pc, utc, begun, maintained, transaction, alone>>

InTick(s) == pc[s] \notin {"down", "idle", "dead"}

Others(s) == {t \in Simulators \ {s} : InTick(t)}

-----------------------------------------------------------------------------
(* maintain_vehicle_position_partitions *)

Created(reference) == reference..reference + Future

\* Faulty: a day more than the policy says is kept.
FaultyDropped(reference) == {day \in partitions : day < reference - Retention}

Dropped(reference) == {day \in partitions : day < reference - (Retention - 1)}

\* The partitions as transaction s sees them, and as they are when it commits.
PartitionsAfter(s) ==
  IF cleaned[s] THEN (partitions \cup Created(utc[s])) \ Dropped(utc[s]) ELSE partitions

\* The parent table is locked to create or drop a partition, and only then.
Redefines(reference) == ~(Created(reference) \subseteq partitions) \/ Dropped(reference) # {}

\* Faulty: what was recorded before midnight goes.
FaultyStale(moment) == {v \in Vehicles : current[v] # Never /\ Date(current[v]) < Date(moment)}

\* The current rows older than 24 hours.
Stale(moment) == {v \in Vehicles : current[v] # Never /\ current[v] < moment - DayLength}

-----------------------------------------------------------------------------
(* The tick *)

SeenBy(s) == {row.vehicle : row \in rows[s]}

\* The transaction is over, and the locals of the tick with it.
EndTick(s) ==
  /\ utc' = [utc EXCEPT ![s] = Never]
  /\ begun' = [begun EXCEPT ![s] = Never]
  /\ cleaned' = [cleaned EXCEPT ![s] = FALSE]
  /\ faded' = [faded EXCEPT ![s] = {}]
  /\ rows' = [rows EXCEPT ![s] = {}]

Launch(s) ==
  /\ pc[s] = "down"
  /\ pc' = [pc EXCEPT ![s] = "idle"]
  /\ alone' = (alone /\ \A t \in Simulators : pc[t] = "down")
  /\ UNCHANGED <<clock, tables, utc, begun, maintained, transaction>>

\* The process ends, wherever its tick is.
Stop(s) ==
  /\ pc[s] # "down"
  /\ pc' = [pc EXCEPT ![s] = "down"]
  /\ maintained' = [maintained EXCEPT ![s] = Never]
  /\ EndTick(s)
  /\ UNCHANGED <<clock, tables, alone>>

ReadDate(s) ==
  /\ pc[s] = "idle"
  /\ pc' = [pc EXCEPT ![s] = "opening"]
  /\ utc' = [utc EXCEPT ![s] = Date(clock)]
  /\ UNCHANGED <<clock, tables, begun, maintained, transaction, alone>>

\* The first statement begins the transaction.
Open(s) ==
  /\ pc[s] = "opening"
  /\ pc' = [pc EXCEPT ![s] = IF maintained[s] # utc[s] THEN "maintain" ELSE "insert"]
  /\ begun' = [begun EXCEPT ![s] = clock]
  /\ UNCHANGED <<clock, tables, utc, maintained, transaction, alone>>

\* The date is noted before the transaction commits.
Maintain(s) ==
  /\ pc[s] = "maintain" /\ schema = "split"
  /\ \A t \in Others(s) :
       /\ ~cleaned[t]
       /\ rows[t] # {} => ~Redefines(utc[s])
       /\ pc[t] = "commit" => SeenBy(t) \cap Stale(begun[s]) = {}
  /\ cleaned' = [cleaned EXCEPT ![s] = TRUE]
  /\ faded' = [faded EXCEPT ![s] = Stale(begun[s])]
  /\ maintained' = [maintained EXCEPT ![s] = utc[s]]
  /\ pc' = [pc EXCEPT ![s] = "insert"]
  /\ UNCHANGED <<clock, tables, utc, begun, rows, alone>>

\* Both statements are left out when no bus is on the road.
NoRows(s) ==
  /\ pc[s] = "insert"
  /\ pc' = [pc EXCEPT ![s] = "commit"]
  /\ UNCHANGED <<clock, tables, utc, begun, maintained, transaction, alone>>

\* Ids come from the sequence, which no rollback turns back.
Insert(s) ==
  /\ pc[s] = "insert" /\ schema = "split"
  /\ \A t \in Others(s) : cleaned[t] => ~Redefines(utc[t])
  /\ Date(begun[s]) \in PartitionsAfter(s)
  /\ \E seen \in (SUBSET Vehicles) \ {{}} :
       /\ sequence + Cardinality(seen) <= MaxIds + 1
       /\ rows' = [rows EXCEPT ![s] =
                     {[id |-> sequence + Cardinality({w \in seen : w < v}), vehicle |-> v,
                       at |-> begun[s]] : v \in seen}]
       /\ sequence' = sequence + Cardinality(seen)
  /\ pc' = [pc EXCEPT ![s] = "upsert"]
  /\ UNCHANGED <<clock, schema, positions, history, partitions, current, utc, begun,
                 maintained, cleaned, faded, alone>>

Upsert(s) ==
  /\ pc[s] = "upsert"
  /\ \A t \in Others(s) : /\ SeenBy(s) \cap faded[t] = {}
                          /\ pc[t] = "commit" => SeenBy(s) \cap SeenBy(t) = {}
  /\ pc' = [pc EXCEPT ![s] = "commit"]
  /\ UNCHANGED <<clock, tables, utc, begun, maintained, transaction, alone>>

\* Faulty: the history alone is stored.
FaultyCurrentAfter(s) ==
  [v \in Vehicles |-> IF v \in faded[s] THEN Never ELSE current[v]]

\* The upsert asks nothing of the row it replaces.
CurrentAfter(s) ==
  [v \in Vehicles |-> IF v \in SeenBy(s) THEN begun[s]
                      ELSE IF v \in faded[s] THEN Never ELSE current[v]]

Commit(s) ==
  /\ pc[s] = "commit"
  /\ partitions' = PartitionsAfter(s)
  /\ history' = {row \in history \cup rows[s] : Date(row.at) \in PartitionsAfter(s)}
  /\ current' = CurrentAfter(s)
  /\ pc' = [pc EXCEPT ![s] = "idle"]
  /\ EndTick(s)
  /\ UNCHANGED <<clock, schema, positions, sequence, maintained, alone>>

\* Faulty: the loop rolls its session back and ticks on.
FaultyFail(s) ==
  /\ InTick(s)
  /\ pc' = [pc EXCEPT ![s] = IF s = Api THEN "idle" ELSE "down"]
  /\ maintained' = [maintained EXCEPT ![s] = IF s = Api THEN @ ELSE Never]
  /\ EndTick(s)
  /\ UNCHANGED <<clock, tables, alone>>

\* A statement fails; the server rolls the transaction back.  The loop keeps the
\* session and runs on in vain, the script ends.
Fail(s) ==
  /\ InTick(s)
  /\ pc' = [pc EXCEPT ![s] = IF s = Api THEN "dead" ELSE "down"]
  /\ maintained' = [maintained EXCEPT ![s] = Never]
  /\ EndTick(s)
  /\ UNCHANGED <<clock, tables, alone>>

Tick(s) ==
  \/ ReadDate(s) \/ Open(s) \/ Maintain(s) \/ NoRows(s) \/ Insert(s)
  \/ Upsert(s) \/ Commit(s) \/ Fail(s)

-----------------------------------------------------------------------------
(* The migration *)

MomentsOf(v, table) == {row.at : row \in {r \in table : r.vehicle = v}}

Newest(v, table) == IF MomentsOf(v, table) = {} THEN Never ELSE Max(MomentsOf(v, table))

Today == Date(clock)

\* Faulty: every row is copied.
FaultyCopied == positions

Copied == {row \in positions : Date(row.at) >= Today - (MigratedRetention - 1)}

MigratedPartitions ==
  LET days  == {Date(row.at) : row \in positions}
      first == Max({Today - (MigratedRetention - 1),
                    IF days = {} THEN Today ELSE Min(days)})
      last  == Max({Today + MigratedFuture, IF days = {} THEN first ELSE Max(days)})
  IN  first..last

\* Faulty: the sequence is not set.
FaultySequenceAfter(table) == 1

SequenceAfter(table) == IF table = {} THEN 1 ELSE Max({row.id : row \in table}) + 1

Upgrade ==
  /\ schema = "single" /\ \A s \in Simulators : pc[s] = "down"
  /\ schema' = "split" /\ positions' = {}
  /\ partitions' = MigratedPartitions
  /\ history' = Copied
  /\ current' = [v \in Vehicles |-> Newest(v, positions)]
  /\ sequence' = SequenceAfter(Copied)
  /\ UNCHANGED <<clock, pc, utc, begun, maintained, transaction, alone>>

\* The vehicles whose current row the history has no row of.
Absent == {v \in Vehicles : current[v] # Never /\ current[v] \notin MomentsOf(v, history)}

\* Their rows are put back, with ids from one on.
Missing ==
  {[id |-> Cardinality({w \in Absent : w <= v}), vehicle |-> v, at |-> current[v]] : v \in Absent}

\* The primary key of the table refuses an id given twice, and the migration with it.
Downgrade ==
  /\ schema = "split" /\ \A s \in Simulators : pc[s] = "down"
  /\ DistinctIds(history) /\ {r.id : r \in Missing} \cap {r.id : r \in history} = {}
  /\ schema' = "single" /\ positions' = history \cup Missing
  /\ partitions' = {} /\ history' = {} /\ sequence' = 1
  /\ current' = [v \in Vehicles |-> Never]
  /\ UNCHANGED <<clock, pc, utc, begun, maintained, transaction, alone>>

-----------------------------------------------------------------------------
\* Assumption: no tick lasts over two midnights.
Elapse ==
  /\ clock < Finish
  /\ \A s \in Simulators : InTick(s) => Date(clock + 1) <= utc[s] + 1
  /\ clock' = clock + 1
  /\ UNCHANGED <<tables, pc, utc, begun, maintained, transaction, alone>>

Init ==
  /\ clock = Start /\ schema = "single" /\ positions \in Legacies
  /\ history = {} /\ partitions = {} /\ sequence = 1
  /\ current = [v \in Vehicles |-> Never]
  /\ pc = [s \in Simulators |-> "down"]
  /\ utc = [s \in Simulators |-> Never] /\ begun = [s \in Simulators |-> Never]
  /\ maintained = [s \in Simulators |-> Never]
  /\ cleaned = [s \in Simulators |-> FALSE] /\ faded = [s \in Simulators |-> {}]
  /\ rows = [s \in Simulators |-> {}] /\ alone = TRUE

Next ==
  \/ \E s \in Simulators : Launch(s) \/ Stop(s) \/ Tick(s)
  \/ Upgrade \/ Downgrade \/ Elapse

Spec == Init /\ [][Next]_vars

-----------------------------------------------------------------------------
\* Every variable keeps its type, and no row of the history is outside its
\* partitions (0003_vehicle_position_storage.py 67-104).
TypeOK ==
  /\ clock \in Start..Finish /\ schema \in {"single", "split"} /\ alone \in BOOLEAN
  /\ positions \subseteq Row /\ history \subseteq Row /\ sequence \in Nat \ {0}
  /\ current \in [Vehicles -> 0..Finish \cup {Never}]
  /\ {Date(row.at) : row \in history} \subseteq partitions
  /\ \A s \in Simulators :
       /\ pc[s] \in {"down", "idle", "dead", "opening", "maintain", "insert", "upsert", "commit"}
       /\ {utc[s], maintained[s]} \subseteq Date(Start)..Date(Finish) \cup {Never}
       /\ begun[s] \in 0..Finish \cup {Never}
       /\ cleaned[s] \in BOOLEAN /\ faded[s] \subseteq Vehicles /\ rows[s] \subseteq Row

\* A tick that is about to insert finds the partition of its moment, whatever
\* failures, restarts, migrations and maintenance of the other simulator came
\* before (realtime_service.py 54-61); if a midnight has come since it read the
\* date, only under a policy of two days back and one ahead.
TicksFindPartition ==
  \A s \in Simulators :
    /\ pc[s] = "insert" /\ schema = "split" /\ \A t \in Others(s) : ~cleaned[t]
    /\ utc[s] = Today \/ (Retention >= 2 /\ Future >= 1)
    => Date(begun[s]) \in PartitionsAfter(s)

\* The current row of a vehicle is its latest position, or is gone because that
\* is older than a day (01_schema.sql 316), as long as one simulator at a time is up.
CurrentIsLatest ==
  schema = "split" /\ alone =>
    \A v \in Vehicles :
      MomentsOf(v, history) # {} =>
        \/ current[v] = Newest(v, history)
        \/ current[v] = Never /\ Newest(v, history) < clock - DayLength

\* After a simulator's first tick of a day there is no position older than the
\* retention says (0003_vehicle_position_storage.py 47-57), but, if that is a
\* single day, those of a tick across the last midnight.
OldDaysDropped ==
  \A s \in Simulators :
    pc[s] = "idle" /\ maintained[s] = Today /\ schema = "split" =>
      \A row \in history :
        Date(row.at) > Today - Retention \/ (Retention = 1 /\ Date(row.at) = Today - 1)

\* A migration that is tried, at any moment between ticks, goes through: it finds
\* a partition for every row it copies and gives no id twice, as long as rows
\* have been stored by one simulator at a time
\* (0003_vehicle_position_storage.py 140-173 and 209-237).
MigrationsSucceed ==
  /\ schema = "single" => {Date(row.at) : row \in Copied} \subseteq MigratedPartitions
  /\ schema = "split" /\ alone /\ (\A s \in Simulators : ~InTick(s)) =>
       /\ DistinctIds(history)
       /\ {row.id : row \in Missing} \cap {row.id : row \in history} = {}

Stored ==
  {[vehicle |-> row.vehicle, at |-> row.at] : row \in positions \cup history}
    \cup {[vehicle |-> v, at |-> current[v]] : v \in {w \in Vehicles : current[w] # Never}}

Log == INSTANCE PositionLog WITH
  log <- Stored, latest <- current, now <- clock, Moments <- 0..Finish

\* A tick stores its history and its current rows at once, ticks lose nothing that
\* has not expired and the migration nothing that is within its own thirty days,
\* and it keeps every vehicle's latest position in both directions
\* (realtime_service.py 52, 0003_vehicle_position_storage.py 140-164 and 209-229).
HistoryRefined == Log!Spec
=============================================================================
