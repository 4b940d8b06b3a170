------------------------ MODULE VehicleHistoryProofs ------------------------
(***************************************************************************)
(* Proofs about the tables of vehicle positions, for any number of scripts *)
(* beside the loop, any length of a day, any policy that the maintenance   *)
(* accepts, any finite set of vehicles, and whatever one simulator at a    *)
(* time may have left in the single table.                                 *)
(*                                                                         *)
(* The first part is about the partitions: a tick finds its partition, and *)
(* what is too old is gone.  A simulator trusts its note of the date it    *)
(* did the maintenance on, and other simulators drop and create partitions *)
(* meanwhile.  What it trusts stays true because nobody in a tick is more  *)
(* than a midnight behind, and a midnight is what a policy of two days     *)
(* forgives; under a shorter one the locks of its own rows keep a tick's   *)
(* partition.                                                              *)
(*                                                                         *)
(* The second part is about the rows: types, the current rows, the ids     *)
(* that a migration back needs, and the refinement of PositionLog.         *)
(***************************************************************************)
EXTENDS VehicleHistory, OrderLemmas, TLAPS

States == {"down", "idle", "dead", "opening", "maintain", "insert", "upsert", "commit"}

Types ==
  /\ clock \in Nat /\ partitions \subseteq Int
  /\ pc \in [Simulators -> States]
  /\ utc \in [Simulators -> Int] /\ begun \in [Simulators -> Int]
  /\ maintained \in [Simulators -> Int]
  /\ cleaned \in [Simulators -> BOOLEAN]
  /\ DOMAIN rows = Simulators

\* The date a tick has read is today or was until the last midnight, and its
\* transaction began no earlier than that.
AtMostAMidnight(s) ==
  /\ InTick(s) => utc[s] \in Nat /\ utc[s] <= Today /\ Today <= utc[s] + 1
  /\ InTick(s) /\ pc[s] # "opening" =>
       begun[s] \in Nat /\ utc[s] <= Date(begun[s]) /\ Date(begun[s]) <= Today

\* The note is of a day that has come, is lost with the process or the session,
\* and is of the tick's own day when it inserts.
NoteHolds(s) ==
  /\ maintained[s] <= Today
  /\ pc[s] \in {"down", "dead"} => maintained[s] = Never
  /\ pc[s] \in {"insert", "upsert", "commit"} => maintained[s] = utc[s]

\* Uncommitted work belongs to a tick that is past its maintenance.
WorkHolds(s) ==
  /\ cleaned[s] => pc[s] \in {"insert", "upsert", "commit"}
  /\ \A row \in rows[s] : pc[s] \in {"upsert", "commit"} /\ row.at = begun[s]

\* The days whose rows a tick across midnight may leave, and whether it spares
\* those of yesterday.
Kept == IF Retention = 1 THEN 2 ELSE Retention

Spared == IF Retention = 1 THEN 0 ELSE 1

\* The maintenance that is noted and committed has had its effect: the days
\* ahead have partitions until they are over, and old days have no row.
MaintenanceHolds(s) ==
  maintained[s] # Never /\ ~cleaned[s] =>
    /\ \A day \in Int : /\ maintained[s] <= day /\ day <= maintained[s] + Future
                        /\ Today - Spared <= day
                        => day \in partitions
    /\ \A row \in history : Date(row.at) \in Int /\ Date(row.at) > maintained[s] - Kept

IInv ==
  /\ Types
  /\ \A s \in Simulators :
       AtMostAMidnight(s) /\ NoteHolds(s) /\ WorkHolds(s) /\ MaintenanceHolds(s)

-----------------------------------------------------------------------------
LEMMA PolicyIs ==
  /\ Retention \in Nat \ {0} /\ Future \in Nat
  /\ Kept \in Nat /\ Kept >= 2 /\ Kept >= Retention
  /\ Spared \in {0, 1} /\ Spared <= Retention - 1
BY PolicyAssumption DEF Kept, Spared

\* A moment has a date, and a later one no earlier date.
LEMMA DateType ==
  ASSUME NEW m \in Nat
  PROVE  Date(m) \in Nat
BY PolicyAssumption DEF Date

LEMMA DatesRise ==
  ASSUME NEW m \in Nat, NEW n \in Nat, m <= n
  PROVE  Date(m) <= Date(n)
<1> DEFINE p == m \div DayLength
           q == n \div DayLength
<1>1. DayLength \in Nat /\ DayLength > 0
  BY PolicyAssumption
<1>2. /\ p \in Nat /\ q \in Nat
      /\ DayLength * p <= m /\ n < DayLength * q + DayLength
  BY <1>1
<1>3. DayLength * p < DayLength * (q + 1)
  <2>1. DayLength * (q + 1) = DayLength * q + DayLength
    BY <1>1, <1>2
  <2> HIDE DEF p, q
  <2>2. DayLength * p \in Int /\ DayLength * q \in Int
    BY <1>1, <1>2
  <2> QED BY <1>1, <1>2, <2>1, <2>2
<1>4. p < q + 1
  <2> HIDE DEF p, q
  <2>1. SUFFICES ASSUME q + 1 <= p PROVE FALSE
    BY <1>2
  <2>2. DayLength * (q + 1) <= DayLength * p
    BY <1>1, <1>2, <2>1
  <2> QED BY <1>1, <1>2, <1>3, <2>2
<1> QED
  <2>1. p <= q
    <3> HIDE DEF p, q
    <3> QED BY <1>2, <1>4
  <2> QED BY <2>1 DEF Date

-----------------------------------------------------------------------------
Holds(s) == AtMostAMidnight(s) /\ NoteHolds(s) /\ WorkHolds(s) /\ MaintenanceHolds(s)

Same(s) ==
  /\ pc'[s] = pc[s] /\ utc'[s] = utc[s] /\ begun'[s] = begun[s]
  /\ maintained'[s] = maintained[s] /\ cleaned'[s] = cleaned[s] /\ rows'[s] = rows[s]

LEMMA InvariantIs == IInv <=> Types /\ \A s \in Simulators : Holds(s)
BY DEF IInv, Holds

\* A step that touches neither the clock nor the tables keeps what holds of a
\* simulator that takes no part in it.
LEMMA BystanderKeeps ==
  ASSUME NEW r \in Simulators, Holds(r), Same(r), UNCHANGED <<clock, partitions, history>>
  PROVE  Holds(r)'
BY DEF Holds, Same, AtMostAMidnight, NoteHolds, WorkHolds, MaintenanceHolds, InTick, Today

\* Today is a date.
LEMMA TodayType == Types => Today \in Nat
BY DateType DEF Types, Today

-----------------------------------------------------------------------------
\* The steps of a tick before it stores anything.
LEMMA LaunchKeeps ==
  ASSUME IInv, NEW s \in Simulators, Launch(s)
  PROVE  IInv'
<1>1. Types'
  BY DEF IInv, Types, Launch, tables, transaction, States
<1>2. ASSUME NEW r \in Simulators PROVE Holds(r)'
  <2>1. CASE r # s
    BY <2>1, BystanderKeeps DEF IInv, Types, Launch, tables, transaction, Holds, Same
  <2>2. CASE r = s
    BY <2>2 DEF IInv, Types, Launch, tables, transaction, Holds, AtMostAMidnight, NoteHolds,
                WorkHolds, MaintenanceHolds, InTick, Today
  <2> QED BY <2>1, <2>2
<1> QED BY <1>1, <1>2, InvariantIs DEF IInv, Holds

\* A simulator that stops or fails forgets everything.
LEMMA ForgetKeeps ==
  ASSUME IInv, NEW s \in Simulators, NEW state \in {"down", "dead"},
         pc' = [pc EXCEPT ![s] = state], maintained' = [maintained EXCEPT ![s] = Never],
         EndTick(s), UNCHANGED <<clock, tables>>
  PROVE  IInv'
<1>1. Types'
  BY NeverAssumption DEF IInv, Types, EndTick, tables, States
<1>2. ASSUME NEW r \in Simulators PROVE Holds(r)'
  <2>1. CASE r # s
    BY <2>1, BystanderKeeps DEF IInv, Types, EndTick, tables, Holds, Same
  <2>2. CASE r = s
    <3>1. /\ pc'[s] = state /\ maintained'[s] = Never /\ ~cleaned'[s] /\ rows'[s] = {}
          /\ clock' = clock
      BY DEF IInv, Types, EndTick
    <3>2. Today' = Today /\ Today \in Nat
      BY <3>1, TodayType DEF IInv, Today
    <3> QED BY <2>2, <3>1, <3>2, NeverAssumption
            DEF Holds, AtMostAMidnight, NoteHolds, WorkHolds, MaintenanceHolds, InTick
  <2> QED BY <2>1, <2>2
<1> QED BY <1>1, <1>2 DEF IInv, Holds

LEMMA StopKeeps ==
  ASSUME IInv, NEW s \in Simulators, Stop(s)
  PROVE  IInv'
BY ForgetKeeps DEF Stop

LEMMA FailKeeps ==
  ASSUME IInv, NEW s \in Simulators, Fail(s)
  PROVE  IInv'
<1>1. PICK state \in {"down", "dead"} : pc' = [pc EXCEPT ![s] = state]
  BY DEF Fail
<1> QED BY <1>1, ForgetKeeps DEF Fail

LEMMA ReadDateKeeps ==
  ASSUME IInv, NEW s \in Simulators, ReadDate(s)
  PROVE  IInv'
<1>1. Today \in Nat /\ Today = Date(clock) /\ Today' = Today
  BY TodayType DEF IInv, Today, ReadDate
<1>2. Types'
  BY <1>1 DEF IInv, Types, ReadDate, tables, transaction, States
<1>3. ASSUME NEW r \in Simulators PROVE Holds(r)'
  <2>1. CASE r # s
    BY <2>1, BystanderKeeps DEF IInv, Types, ReadDate, tables, transaction, Holds, Same
  <2>2. CASE r = s
    <3>1. /\ pc'[s] = "opening" /\ utc'[s] = Today /\ pc[s] = "idle"
          /\ UNCHANGED <<maintained, cleaned, rows, partitions, history>>
      BY <1>1 DEF IInv, Types, ReadDate, tables, transaction
    <3> QED BY <2>2, <3>1, <1>1 DEF IInv, Holds, AtMostAMidnight, NoteHolds, WorkHolds,
                                    MaintenanceHolds, InTick
  <2> QED BY <2>1, <2>2
<1> QED BY <1>2, <1>3 DEF IInv, Holds

LEMMA OpenKeeps ==
  ASSUME IInv, NEW s \in Simulators, Open(s)
  PROVE  IInv'
<1>1. Today \in Nat /\ Today = Date(clock) /\ Today' = Today /\ clock \in Nat
  BY TodayType DEF IInv, Types, Today, Open
<1>2. Types'
  BY <1>1 DEF IInv, Types, Open, tables, transaction, States
<1>3. ASSUME NEW r \in Simulators PROVE Holds(r)'
  <2>1. CASE r # s
    BY <2>1, BystanderKeeps DEF IInv, Types, Open, tables, transaction, Holds, Same
  <2>2. CASE r = s
    <3>1. /\ pc'[s] = (IF maintained[s] # utc[s] THEN "maintain" ELSE "insert")
          /\ begun'[s] = clock /\ pc[s] = "opening"
          /\ UNCHANGED <<utc, maintained, cleaned, rows, partitions, history>>
      BY DEF IInv, Types, Open, tables, transaction
    <3>2. /\ utc[s] \in Nat /\ utc[s] <= Today /\ Today <= utc[s] + 1
          /\ ~cleaned[s] /\ rows[s] = {}
      BY <3>1 DEF IInv, AtMostAMidnight, WorkHolds, InTick, Types
    <3> QED BY <2>2, <3>1, <3>2, <1>1 DEF IInv, Holds, AtMostAMidnight, NoteHolds, WorkHolds,
                                          MaintenanceHolds, InTick
  <2> QED BY <2>1, <2>2
<1> QED BY <1>2, <1>3 DEF IInv, Holds

\* The note is taken for the tick's own day; what it promises is not due before
\* the transaction commits.
LEMMA MaintainKeeps ==
  ASSUME IInv, NEW s \in Simulators, Maintain(s)
  PROVE  IInv'
<1>1. Today \in Nat /\ Today' = Today
  BY TodayType DEF IInv, Today, Maintain
<1>2. Types'
  BY DEF IInv, Types, Maintain, tables, States
<1>3. ASSUME NEW r \in Simulators PROVE Holds(r)'
  <2>1. CASE r # s
    BY <2>1, BystanderKeeps DEF IInv, Types, Maintain, tables, Holds, Same
  <2>2. CASE r = s
    <3>1. /\ pc'[s] = "insert" /\ maintained'[s] = utc[s] /\ cleaned'[s] /\ pc[s] = "maintain"
          /\ UNCHANGED <<utc, begun, rows>>
      BY DEF IInv, Types, Maintain, tables
    <3>2. AtMostAMidnight(s)'
      BY <3>1, <1>1 DEF IInv, AtMostAMidnight, InTick, Maintain
    <3>3. NoteHolds(s)' /\ WorkHolds(s)' /\ MaintenanceHolds(s)'
      BY <3>1, <1>1 DEF IInv, AtMostAMidnight, NoteHolds, WorkHolds, MaintenanceHolds, InTick
    <3> QED BY <2>2, <3>2, <3>3 DEF Holds
  <2> QED BY <2>1, <2>2
<1> QED BY <1>2, <1>3 DEF IInv, Holds

\* The steps between the maintenance and the commit.
LEMMA ProceedKeeps ==
  ASSUME IInv, NEW s \in Simulators, NoRows(s) \/ Insert(s) \/ Upsert(s)
  PROVE  IInv'
<1>1. /\ UNCHANGED <<clock, history, partitions, utc, begun, maintained, cleaned>>
      /\ pc[s] \in {"insert", "upsert"}
      /\ \E state \in {"upsert", "commit"} : pc' = [pc EXCEPT ![s] = state]
      /\ \A r \in Simulators : r # s => rows'[r] = rows[r]
      /\ DOMAIN rows' = Simulators
      /\ \A row \in rows'[s] : row \in rows[s] \/ row.at = begun[s]
  <2>1. CASE NoRows(s)
    BY <2>1 DEF IInv, Types, NoRows, tables, transaction
  <2>2. CASE Insert(s)
    <3>1. PICK seen \in (SUBSET Vehicles) \ {{}} :
            rows' = [rows EXCEPT ![s] =
                       {[id |-> sequence + Cardinality({w \in seen : w < v}), vehicle |-> v,
                         at |-> begun[s]] : v \in seen}]
      BY <2>2 DEF Insert
    <3>2. \A row \in rows'[s] : row.at = begun[s]
      <4> DEFINE Numbered(v) == sequence + Cardinality({w \in seen : w < v})
      <4>1. rows'[s] = {[id |-> Numbered(v), vehicle |-> v, at |-> begun[s]] : v \in seen}
        BY <3>1 DEF IInv, Types
      <4> HIDE DEF Numbered
      <4> QED BY <4>1
    <3>3. (\A r \in Simulators : r # s => rows'[r] = rows[r]) /\ DOMAIN rows' = Simulators
      BY <3>1 DEF IInv, Types
    <3>4. /\ pc[s] = "insert" /\ pc' = [pc EXCEPT ![s] = "upsert"]
          /\ UNCHANGED <<clock, history, partitions, utc, begun, maintained, cleaned>>
      BY <2>2 DEF Insert
    <3> QED BY <3>2, <3>3, <3>4
  <2>3. CASE Upsert(s)
    BY <2>3 DEF IInv, Types, Upsert, tables, transaction
  <2> QED BY <2>1, <2>2, <2>3
<1>2. Types'
  BY <1>1 DEF IInv, Types, States
<1>3. ASSUME NEW r \in Simulators PROVE Holds(r)'
  <2>1. CASE r # s
    BY <2>1, <1>1, BystanderKeeps DEF IInv, Types, Holds, Same
  <2>2. CASE r = s
    <3>1. Today' = Today /\ pc'[s] \in {"upsert", "commit"}
      BY <1>1 DEF Today, IInv, Types
    <3>2. AtMostAMidnight(s)' /\ NoteHolds(s)'
      BY <1>1, <3>1 DEF IInv, AtMostAMidnight, NoteHolds, InTick
    <3>3. WorkHolds(s)'
      BY <1>1, <3>1 DEF IInv, WorkHolds
    <3>4. MaintenanceHolds(s)'
      BY <1>1, <3>1 DEF IInv, MaintenanceHolds
    <3> QED BY <2>2, <3>2, <3>3, <3>4 DEF Holds
  <2> QED BY <2>1, <2>2
<1> QED BY <1>2, <1>3 DEF IInv, Holds

-----------------------------------------------------------------------------
\* The partitions a transaction leaves are dates; those it spares stay, those its
\* maintenance promised are there, and those it dropped are not.
LEMMA PartitionsLeft ==
  ASSUME IInv, NEW s \in Simulators, InTick(s)
  PROVE  /\ PartitionsAfter(s) \subseteq Int
         /\ \A day \in partitions : Today - Spared <= day => day \in PartitionsAfter(s)
         /\ cleaned[s] =>
              /\ \A day \in Int : utc[s] <= day /\ day <= utc[s] + Future =>
                                     day \in PartitionsAfter(s)
              /\ \A day \in PartitionsAfter(s) : day > utc[s] - Retention
         /\ ~cleaned[s] => PartitionsAfter(s) = partitions
<1>1. /\ utc[s] \in Nat /\ utc[s] <= Today /\ Today \in Nat
      /\ partitions \subseteq Int /\ cleaned[s] \in BOOLEAN
  BY TodayType DEF IInv, AtMostAMidnight, Types
<1>2. Retention \in Nat \ {0} /\ Future \in Nat /\ Spared \in {0, 1} /\ Spared <= Retention - 1
  BY PolicyIs
<1>3. CASE cleaned[s]
  <2>1. PartitionsAfter(s) = {day \in partitions \cup Created(utc[s]) :
                                 ~(day \in partitions /\ day < utc[s] - (Retention - 1))}
    BY <1>3 DEF PartitionsAfter, Dropped
  <2>2. \A day : day \in Created(utc[s]) <=>
                   day \in Int /\ utc[s] <= day /\ day <= utc[s] + Future
    BY <1>1, <1>2 DEF Created
  <2>3. PartitionsAfter(s) \subseteq Int
    BY <1>1, <2>1, <2>2
  <2>4. \A day \in partitions : Today - Spared <= day => day \in PartitionsAfter(s)
    BY <1>1, <1>2, <2>1
  <2>5. \A day \in Int : utc[s] <= day /\ day <= utc[s] + Future => day \in PartitionsAfter(s)
    BY <1>1, <1>2, <2>1, <2>2
  <2>6. \A day \in PartitionsAfter(s) : day > utc[s] - Retention
    <3> SUFFICES ASSUME NEW day \in PartitionsAfter(s) PROVE day > utc[s] - Retention
      OBVIOUS
    <3>1. day \in Int
      BY <2>3
    <3>2. CASE day \in partitions
      BY <1>1, <1>2, <2>1, <3>1, <3>2
    <3>3. CASE day \in Created(utc[s])
      BY <1>1, <1>2, <2>2, <3>3
    <3> QED BY <2>1, <3>2, <3>3
  <2> QED BY <1>3, <2>3, <2>4, <2>5, <2>6
<1>4. CASE ~cleaned[s]
  BY <1>1, <1>4 DEF PartitionsAfter
<1> QED BY <1>1, <1>3, <1>4

\* A commit drops and creates partitions under the notes of all others, and
\* stores its rows; no note is the worse for it.
LEMMA CommitKeeps ==
  ASSUME IInv, NEW s \in Simulators, Commit(s)
  PROVE  IInv'
<1>1. /\ pc[s] = "commit" /\ pc' = [pc EXCEPT ![s] = "idle"]
      /\ partitions' = PartitionsAfter(s)
      /\ history' = {row \in history \cup rows[s] : Date(row.at) \in PartitionsAfter(s)}
      /\ utc' = [utc EXCEPT ![s] = Never] /\ begun' = [begun EXCEPT ![s] = Never]
      /\ cleaned' = [cleaned EXCEPT ![s] = FALSE] /\ rows' = [rows EXCEPT ![s] = {}]
      /\ UNCHANGED <<clock, maintained>>
  BY DEF Commit, EndTick
<1>2. Today \in Nat /\ Today' = Today
  BY <1>1, TodayType DEF IInv, Today
<1>3. /\ utc[s] \in Nat /\ utc[s] <= Today /\ Today <= utc[s] + 1
      /\ begun[s] \in Nat /\ utc[s] <= Date(begun[s]) /\ Date(begun[s]) \in Nat
      /\ maintained[s] = utc[s]
  BY <1>1, DateType DEF IInv, AtMostAMidnight, NoteHolds, InTick
<1>4. /\ PartitionsAfter(s) \subseteq Int
      /\ \A day \in partitions : Today - Spared <= day => day \in PartitionsAfter(s)
      /\ cleaned[s] =>
           /\ \A day \in Int : utc[s] <= day /\ day <= utc[s] + Future =>
                                  day \in PartitionsAfter(s)
           /\ \A day \in PartitionsAfter(s) : day > utc[s] - Retention
      /\ ~cleaned[s] => PartitionsAfter(s) = partitions
  BY <1>1, PartitionsLeft DEF InTick
<1>5. /\ Retention \in Nat \ {0} /\ Future \in Nat /\ Spared \in {0, 1}
      /\ Kept \in Nat /\ Kept >= 2 /\ Kept >= Retention
  BY PolicyIs
<1>6. Types'
  BY <1>1, <1>4, NeverAssumption DEF IInv, Types, States
<1>7. \A row \in rows[s] : Date(row.at) \in Int /\ Date(row.at) >= Today - 1
  BY <1>2, <1>3 DEF IInv, WorkHolds
<1>8. ASSUME NEW r \in Simulators PROVE Holds(r)'
  <2>1. AtMostAMidnight(r)' /\ NoteHolds(r)' /\ WorkHolds(r)'
    <3>1. CASE r # s
      BY <1>1, <1>2, <3>1 DEF IInv, Types, AtMostAMidnight, NoteHolds, WorkHolds, InTick
    <3>2. CASE r = s
      BY <1>1, <1>2, <3>2 DEF IInv, Types, AtMostAMidnight, NoteHolds, WorkHolds, InTick
    <3> QED BY <3>1, <3>2
  <2>2. CASE ~cleaned[r]
    <3>1. SUFFICES ASSUME maintained[r] # Never PROVE MaintenanceHolds(r)'
      BY <2>1, <1>1 DEF MaintenanceHolds, Holds
    <3>2. /\ maintained[r] \in Int /\ maintained[r] <= Today
          /\ \A day \in Int : /\ maintained[r] <= day /\ day <= maintained[r] + Future
                              /\ Today - Spared <= day
                              => day \in partitions
          /\ \A row \in history : Date(row.at) \in Int /\ Date(row.at) > maintained[r] - Kept
      BY <2>2, <3>1 DEF IInv, Types, NoteHolds, MaintenanceHolds
    <3>3. ASSUME NEW row \in history'
          PROVE  Date(row.at) \in Int /\ Date(row.at) > maintained[r] - Kept
      <4>1. row \in history \/ row \in rows[s]
        BY <1>1
      <4>2. CASE row \in history
        BY <4>2, <3>2
      <4>3. CASE row \in rows[s]
        BY <4>3, <3>2, <1>2, <1>5, <1>7
      <4> QED BY <4>1, <4>2, <4>3
    <3>4. ASSUME NEW day \in Int, maintained[r] <= day, day <= maintained[r] + Future,
                 Today - Spared <= day
          PROVE  day \in partitions'
      BY <3>2, <3>4, <1>1, <1>4
    <3> QED BY <3>3, <3>4, <1>1, <1>2 DEF MaintenanceHolds
  <2>3. CASE r # s /\ cleaned[r]
    <3>1. cleaned'[r]
      BY <2>3, <1>1 DEF IInv, Types
    <3> QED BY <2>1, <3>1 DEF MaintenanceHolds, Holds
  <2>4. CASE r = s /\ cleaned[s]
    <3>1. maintained'[s] = utc[s]
      BY <1>1, <1>3
    <3>2. \A row \in history' : Date(row.at) \in Int /\ Date(row.at) > utc[s] - Kept
      BY <2>4, <1>1, <1>3, <1>4, <1>5
    <3>3. \A day \in Int : utc[s] <= day /\ day <= utc[s] + Future => day \in partitions'
      BY <2>4, <1>1, <1>4
    <3> QED BY <2>1, <2>4, <3>1, <3>2, <3>3 DEF MaintenanceHolds, Holds
  <2> QED BY <2>1, <2>2, <2>3, <2>4 DEF Holds
<1> QED BY <1>6, <1>8 DEF IInv, Holds

-----------------------------------------------------------------------------
\* A migration runs when no simulator does, and no simulator's note outlives it.
LEMMA MigrationKeeps ==
  ASSUME IInv, \A s \in Simulators : pc[s] = "down", partitions' \subseteq Int,
         UNCHANGED <<clock, pc, utc, begun, maintained, transaction>>
  PROVE  IInv'
<1>1. Types'
  BY DEF IInv, Types, transaction
<1>2. ASSUME NEW r \in Simulators PROVE Holds(r)'
  <2>1. maintained[r] = Never
    BY DEF IInv, NoteHolds
  <2>2. Today' = Today
    BY DEF Today
  <2>3. AtMostAMidnight(r)' /\ NoteHolds(r)' /\ WorkHolds(r)'
    BY <2>2 DEF IInv, AtMostAMidnight, NoteHolds, WorkHolds, InTick, transaction
  <2> QED BY <2>1, <2>3 DEF MaintenanceHolds, Holds
<1> QED BY <1>1, <1>2 DEF IInv, Holds

LEMMA UpgradeKeeps ==
  ASSUME IInv, Upgrade
  PROVE  IInv'
<1>1. MigratedPartitions \subseteq Int
  BY DEF MigratedPartitions
<1> QED BY <1>1, MigrationKeeps DEF Upgrade

LEMMA DowngradeKeeps ==
  ASSUME IInv, Downgrade
  PROVE  IInv'
BY MigrationKeeps DEF Downgrade

\* Time passes, but not over the second midnight of a tick.
LEMMA ElapseKeeps ==
  ASSUME IInv, Elapse
  PROVE  IInv'
<1>1. /\ clock \in Nat /\ clock' = clock + 1
      /\ \A s \in Simulators : InTick(s) => Date(clock + 1) <= utc[s] + 1
      /\ UNCHANGED <<history, partitions, pc, utc, begun, maintained, cleaned, rows>>
  BY DEF IInv, Types, Elapse, tables, transaction
<1>2. /\ Today \in Nat /\ Today' \in Nat /\ Today <= Today'
      /\ \A s \in Simulators : InTick(s) => Today' <= utc[s] + 1
  <2>1. clock + 1 \in Nat /\ clock <= clock + 1
    BY <1>1
  <2> QED BY <1>1, <2>1, DateType, DatesRise DEF Today
<1>3. Types'
  BY <1>1 DEF IInv, Types
<1>4. ASSUME NEW r \in Simulators PROVE Holds(r)'
  <2>1. AtMostAMidnight(r)'
    <3>1. InTick(r)' = InTick(r)
      BY <1>1 DEF InTick
    <3>2. CASE InTick(r) /\ pc[r] # "opening"
      <4>1. begun[r] \in Nat /\ Date(begun[r]) \in Nat
        BY <3>2, DateType DEF IInv, AtMostAMidnight
      <4> QED BY <1>1, <1>2, <3>1, <3>2, <4>1 DEF IInv, AtMostAMidnight
    <3>3. CASE ~(InTick(r) /\ pc[r] # "opening")
      BY <1>1, <1>2, <3>1, <3>3 DEF IInv, AtMostAMidnight
    <3> QED BY <3>2, <3>3
  <2>2. NoteHolds(r)' /\ WorkHolds(r)'
    BY <1>1, <1>2 DEF IInv, Types, NoteHolds, WorkHolds
  <2>3. MaintenanceHolds(r)'
    <3>1. SUFFICES ASSUME maintained[r] # Never, ~cleaned[r] PROVE MaintenanceHolds(r)'
      BY <1>1 DEF MaintenanceHolds
    <3>2. \A row \in history : Date(row.at) \in Int /\ Date(row.at) > maintained[r] - Kept
      BY <3>1 DEF IInv, MaintenanceHolds
    <3>3. ASSUME NEW day \in Int, maintained[r] <= day, day <= maintained[r] + Future,
                 Today' - Spared <= day
          PROVE  day \in partitions
      <4>1. Today - Spared <= day
        <5> DEFINE today == Today
                   next == Today'
        <5>1. Spared \in Int
          BY PolicyIs
        <5>2. today \in Int /\ next \in Int /\ today <= next
          BY <1>2
        <5>3. day \in Int /\ next - Spared <= day
          BY <3>3
        <5> HIDE DEF today, next
        <5>4. today - Spared <= day
          BY <5>1, <5>2, <5>3
        <5> QED BY <5>4 DEF today
      <4>2. \A d \in Int : /\ maintained[r] <= d /\ d <= maintained[r] + Future
                             /\ Today - Spared <= d
                             => d \in partitions
        BY <3>1 DEF IInv, MaintenanceHolds
      <4> QED BY <3>3, <4>1, <4>2
    <3> QED BY <1>1, <3>2, <3>3 DEF MaintenanceHolds
  <2> QED BY <2>1, <2>2, <2>3 DEF Holds
<1> QED BY <1>3, <1>4 DEF IInv, Holds

-----------------------------------------------------------------------------
LEMMA InitKeeps == Init => IInv
<1> SUFFICES ASSUME Init PROVE IInv
  OBVIOUS
<1>1. Types
  BY NeverAssumption, ClockAssumption DEF Init, Types, States
<1>2. ASSUME NEW s \in Simulators PROVE Holds(s)
  BY <1>1, TodayType, NeverAssumption
     DEF Init, Holds, AtMostAMidnight, NoteHolds, WorkHolds, MaintenanceHolds, InTick
<1> QED BY <1>1, <1>2 DEF IInv, Holds

\* Every step keeps the invariant, one case per action.
LEMMA StepKeeps == IInv /\ [Next]_vars => IInv'
<1> SUFFICES ASSUME IInv, [Next]_vars PROVE IInv'
  OBVIOUS
<1>1. ASSUME NEW s \in Simulators, Launch(s) \/ Stop(s) PROVE IInv'
  BY <1>1, LaunchKeeps, StopKeeps
<1>2. ASSUME NEW s \in Simulators, Tick(s) PROVE IInv'
  BY <1>2, ReadDateKeeps, OpenKeeps, MaintainKeeps, ProceedKeeps, CommitKeeps, FailKeeps DEF Tick
<1>3. ASSUME Upgrade \/ Downgrade \/ Elapse PROVE IInv'
  BY <1>3, UpgradeKeeps, DowngradeKeeps, ElapseKeeps
<1>4. ASSUME UNCHANGED vars PROVE IInv'
  <2>1. Types'
    BY <1>4 DEF IInv, Types, vars, tables, transaction
  <2>2. ASSUME NEW r \in Simulators PROVE Holds(r)'
    BY <1>4, BystanderKeeps DEF IInv, Holds, Same, vars, tables, transaction
  <2> QED BY <2>1, <2>2 DEF IInv, Holds
<1> QED BY <1>1, <1>2, <1>3, <1>4 DEF Next

LEMMA HistoryInvariant == Spec => []IInv
BY InitKeeps, StepKeeps, PTL DEF Spec

\* A tick that is about to insert finds the partition of its moment, whatever
\* failures, restarts, migrations and other simulators' maintenance came before
\* (realtime_service.py 54-61): under every policy if no midnight has come since it
\* read the date, and if one has, where two days are kept and one is made ahead.
THEOREM PartitionIsThere == Spec => []TicksFindPartition
<1>1. IInv => TicksFindPartition
  <2> SUFFICES ASSUME IInv, NEW s \in Simulators, pc[s] = "insert",
                      utc[s] = Today \/ (Retention >= 2 /\ Future >= 1)
               PROVE  Date(begun[s]) \in PartitionsAfter(s)
    BY DEF TicksFindPartition
  <2>1. /\ utc[s] \in Nat /\ Today \in Nat /\ Today <= utc[s] + 1 /\ maintained[s] = utc[s]
        /\ Date(begun[s]) \in Nat /\ utc[s] <= Date(begun[s]) /\ Date(begun[s]) <= Today
    BY TodayType, DateType DEF IInv, AtMostAMidnight, NoteHolds, InTick
  <2>2. Future \in Nat /\ Date(begun[s]) <= utc[s] + Future /\ Today - Spared <= Date(begun[s])
    BY <2>1, PolicyIs DEF Spared
  <2>3. CASE cleaned[s]
    BY <2>1, <2>2, <2>3, PartitionsLeft DEF InTick
  <2>4. CASE ~cleaned[s]
    <3>1. Date(begun[s]) \in partitions
      BY <2>1, <2>2, <2>4, NeverAssumption DEF IInv, MaintenanceHolds
    <3> QED BY <2>4, <3>1 DEF PartitionsAfter
  <2> QED BY <2>3, <2>4
<1> QED BY <1>1, HistoryInvariant, PTL

\* After a simulator's first tick of a day no position is older than the
\* retention says, whatever the others store and drop, but those of a tick across
\* the last midnight where that is one day (0003_vehicle_position_storage.py 47-57).
THEOREM OldDaysAreDropped == Spec => []OldDaysDropped
<1>1. IInv => OldDaysDropped
  <2> SUFFICES ASSUME IInv, NEW s \in Simulators, pc[s] = "idle", maintained[s] = Today,
                      NEW row \in history
               PROVE  Date(row.at) > Today - Retention \/ (Retention = 1 /\ Date(row.at) = Today - 1)
    BY DEF OldDaysDropped
  <2>1. Today # Never /\ ~cleaned[s]
    BY TodayType, NeverAssumption DEF IInv, WorkHolds
  <2>2. Date(row.at) \in Int /\ Date(row.at) > Today - Kept
    BY <2>1 DEF IInv, MaintenanceHolds
  <2> QED BY <2>2, TodayType, PolicyIs DEF Kept, IInv
<1> QED BY <1>1, HistoryInvariant, PTL

-----------------------------------------------------------------------------
(* The rows of the tables. *)

Working(s) == pc[s] \in {"insert", "upsert", "commit"}

TickTypes ==
  /\ utc \in [Simulators -> Date(Start)..Date(Finish) \cup {Never}]
  /\ maintained \in [Simulators -> Date(Start)..Date(Finish) \cup {Never}]
  /\ begun \in [Simulators -> 0..Finish \cup {Never}]
  /\ faded \in [Simulators -> SUBSET Vehicles]
  /\ rows \in [Simulators -> SUBSET Row]

TableTypes ==
  /\ clock \in Start..Finish /\ schema \in {"single", "split"} /\ alone \in BOOLEAN
  /\ positions \subseteq Row /\ history \subseteq Row /\ sequence \in Nat \ {0}
  /\ current \in [Vehicles -> 0..Finish \cup {Never}]
  /\ {Date(row.at) : row \in history} \subseteq partitions

\* The days of which a commit and an upgrade both keep the rows.
Least == IF Retention < MigratedRetention THEN Retention ELSE MigratedRetention

\* What the tables hold is of the past and, where the history has no row of it, no
\* longer kept by one of the two; each revision fills its own tables, and the sequence is ahead.
TablesHold ==
  /\ \A row \in positions \cup history : row.at <= clock
  /\ \A v \in Vehicles : current[v] <= clock
  /\ \E most \in Nat : \A row \in positions : row.id <= most
  /\ schema = "single" => /\ history = {} /\ \A v \in Vehicles : current[v] = Never
                          /\ \A s \in Simulators : maintained[s] = Never
  /\ schema = "split" => positions = {}
  /\ \A v \in Absent : Date(current[v]) <= Today - Least
  /\ \A row \in history : row.id < sequence

\* One maintenance at a time, of rows that are old and that no tick has written
\* since; the ids of uncommitted rows have been handed out, and their partition
\* stays.
LocksHold(s) ==
  /\ begun[s] <= clock
  /\ ~cleaned[s] => faded[s] = {}
  /\ \A v \in faded[s] : current[v] # Never /\ current[v] < begun[s] - DayLength
  /\ \A row \in rows[s] : row.id < sequence
  /\ rows[s] # {} => Date(begun[s]) \in PartitionsAfter(s)
  /\ \A t \in Simulators \ {s} :
       /\ ~(cleaned[s] /\ cleaned[t])
       /\ pc[t] = "commit" => SeenBy(t) \cap faded[s] = {}
       /\ cleaned[s] /\ rows[t] # {} => ~Redefines(utc[s])

\* The rest holds as long as one simulator at a time is up.
OneUp == \A s, t \in Simulators : pc[s] # "down" /\ pc[t] # "down" => s = t

\* A current row is its vehicle's latest, and the history has it too if it has any.
LatestHolds ==
  \A row \in history :
    IF current[row.vehicle] = Never THEN row.at < clock - DayLength
    ELSE row.vehicle \notin Absent /\ row.at <= current[row.vehicle]

\* The vehicle's row in the history, if it had one, has been dropped since the
\* upgrade.
Recent(v, day) == Date(current[v]) > day - MigratedRetention

\* The history leaves as many ids as Downgrade gives away, and those it may not
\* give to the oldest.
IdsHold ==
  /\ DistinctIds(positions) /\ Rising(positions, Today)
  /\ DistinctIds(history)
  /\ \A q, r \in history : Date(q.at) < Date(r.at) => q.id < r.id
  /\ \A row \in history : row.id > Cardinality(Absent)
  /\ \A v \in Absent : Recent(v, Today) =>
       /\ \A w \in Absent : Date(current[v]) <= Date(current[w])
       /\ \A row \in history : Date(current[v]) <= Date(row.at)
  /\ Cardinality(Absent) < sequence \/ \A v \in Absent : ~Recent(v, Today)

\* So does the sequence, and what a tick has inserted.
IdsAhead(s) ==
  Cardinality(Absent) < sequence /\ \A r \in rows[s] : r.id > Cardinality(Absent)

\* A tick adds to what is older; its maintenance does away with the current rows that
\* an upgrade has left without history.
SoloHolds(s) ==
  /\ InTick(s) => \A v \in Absent : Date(current[v]) <= utc[s] - Least
  /\ InTick(s) /\ pc[s] # "opening" => \A row \in history : row.at <= begun[s]
  /\ cleaned[s] => faded[s] = Stale(begun[s])
  /\ \/ IdsAhead(s)
     \/ /\ maintained[s] = Never \/ cleaned[s]
        /\ InTick(s) => \A v \in Absent : ~Recent(v, utc[s])
  /\ DistinctIds(rows[s]) /\ \A r \in rows[s], q \in history : q.id < r.id

AloneHolds == OneUp /\ LatestHolds /\ IdsHold /\ \A s \in Simulators : SoloHolds(s)

Tables ==
  /\ TableTypes /\ TickTypes /\ TablesHold
  /\ \A s \in Simulators : LocksHold(s)
  /\ alone => AloneHolds

TInv == IInv /\ Tables

-----------------------------------------------------------------------------
SameTick(s) == Same(s) /\ faded'[s] = faded[s]

LEMMA SamePartitions ==
  ASSUME NEW s \in Simulators, partitions' = partitions, utc'[s] = utc[s], cleaned'[s] = cleaned[s]
  PROVE  /\ PartitionsAfter(s)' = PartitionsAfter(s)
         /\ Redefines(utc[s])' = Redefines(utc[s])
BY DEF PartitionsAfter, Redefines, Created, Dropped

LEMMA AbsentCount ==
  /\ Absent \subseteq Vehicles /\ Absent \subseteq Int /\ IsFiniteSet(Absent)
  /\ Cardinality(Absent) \in Nat
<1>1. Absent \subseteq Vehicles
  BY DEF Absent
<1> QED BY <1>1, VehiclesAssumption, FS_Subset, FS_CardinalityType

\* A step of one tick that leaves the clock and the tables keeps what holds of them
\* and of the other ticks.
LEMMA TickKeeps ==
  ASSUME TInv, NEW s \in Simulators, TickTypes',
         UNCHANGED <<clock, schema, positions, history, partitions, current>>,
         sequence' \in Nat, sequence <= sequence',
         \A r \in Simulators \ {s} :
           SameTick(r) /\ ~(cleaned[r] /\ cleaned'[s])
             /\ (pc'[s] = "commit" => SeenBy(s)' \cap faded[r] = {}),
         schema = "single" => maintained'[s] = Never,
         \/ rows'[s] = rows[s] \/ rows'[s] = {}
         \/ \A r \in Simulators \ {s} : cleaned[r] => ~Redefines(utc[r]),
         LocksHold(s)',
         alone' \in BOOLEAN, alone' => alone /\ OneUp' /\ SoloHolds(s)'
  PROVE  Tables'
<1>1. Absent' = Absent /\ Today' = Today
  BY DEF Absent, MomentsOf, Today
<1>2. TableTypes'
  BY DEF TInv, Tables, TableTypes
<1>3. TablesHold'
  <2>1. schema = "single" => \A r \in Simulators : maintained'[r] = Never
    BY DEF TInv, Tables, TablesHold, SameTick, Same
  <2>2. \A row \in history : row.id < sequence'
    BY DEF TInv, Tables, TableTypes, TablesHold, Row
  <2> QED BY <1>1, <2>1, <2>2 DEF TInv, Tables, TablesHold
<1>4. ASSUME NEW r \in Simulators PROVE LocksHold(r)'
  <2>1. CASE r = s
    BY <2>1
  <2>2. CASE r # s
    <3>1. SameTick(r) /\ LocksHold(r)
      BY <2>2 DEF TInv, Tables
    <3>2. \A row \in rows'[r] : row.id < sequence'
      <4>1. \A row \in rows[r] : row \in Row /\ row.id < sequence
        BY <3>1 DEF LocksHold, TInv, Tables, TickTypes
      <4> QED BY <3>1, <4>1 DEF SameTick, Same, TInv, Tables, TableTypes, Row
    <3>3. /\ PartitionsAfter(r)' = PartitionsAfter(r)
          /\ Redefines(utc[r])' = Redefines(utc[r])
      BY <3>1, SamePartitions DEF SameTick, Same
    <3>4. ASSUME NEW t \in Simulators \ {r}
          PROVE  /\ ~(cleaned'[r] /\ cleaned'[t])
                 /\ pc'[t] = "commit" => SeenBy(t)' \cap faded'[r] = {}
                 /\ cleaned'[r] /\ rows'[t] # {} => ~Redefines(utc[r])'
      <4>1. CASE t = s
        <5>1. cleaned[r] /\ rows'[s] # {} => ~Redefines(utc[r])
          BY <2>2, <3>1 DEF LocksHold
        <5> QED BY <2>2, <3>1, <3>3, <4>1, <5>1 DEF SameTick, Same
      <4>2. CASE t # s
        <5>1. SameTick(t)
          BY <4>2
        <5> QED BY <3>1, <3>3, <5>1 DEF LocksHold, SameTick, Same, SeenBy
      <4> QED BY <4>1, <4>2
    <3>5. /\ begun'[r] <= clock' /\ (~cleaned'[r] => faded'[r] = {})
          /\ \A v \in faded'[r] : current'[v] # Never /\ current'[v] < begun'[r] - DayLength
          /\ rows'[r] # {} => Date(begun'[r]) \in PartitionsAfter(r)'
      BY <3>1, <3>3 DEF LocksHold, SameTick, Same
    <3> QED BY <3>2, <3>4, <3>5 DEF LocksHold
  <2> QED BY <2>1, <2>2
<1>5. ASSUME alone' PROVE AloneHolds'
  <2>1. Cardinality(Absent) < sequence => Cardinality(Absent) < sequence'
    BY AbsentCount DEF TInv, Tables, TableTypes
  <2>2. LatestHolds' /\ IdsHold'
    <3>1. LatestHolds'
      BY <1>1, <1>5 DEF TInv, Tables, AloneHolds, LatestHolds
    <3>2. \A v : Recent(v, Today)' <=> Recent(v, Today)
      BY <1>1 DEF Recent
    <3>3. IdsHold'
      BY <1>1, <1>5, <2>1, <3>2 DEF TInv, Tables, AloneHolds, IdsHold, Rising, DistinctIds
    <3> QED BY <3>1, <3>3
  <2>3. ASSUME NEW r \in Simulators PROVE SoloHolds(r)'
    <3>1. CASE r = s
      BY <1>5, <3>1
    <3>2. CASE r # s
      <4>1. SameTick(r) /\ SoloHolds(r)
        BY <1>5, <3>2 DEF TInv, Tables, AloneHolds
      <4>2. IdsAhead(r) => IdsAhead(r)'
        BY <1>1, <2>1, <4>1 DEF IdsAhead, SameTick, Same
      <4>3. \A v : Recent(v, utc[r])' <=> Recent(v, utc[r])
        BY <4>1 DEF Recent, SameTick, Same
      <4> QED BY <4>1, <4>2, <4>3, <1>1 DEF SoloHolds, SameTick, Same, InTick, Stale, DistinctIds
    <3> QED BY <3>1, <3>2
  <2> QED BY <1>5, <2>2, <2>3 DEF AloneHolds
<1> QED BY <1>2, <1>3, <1>4, <1>5 DEF Tables

LEMMA SameNumbers ==
  ASSUME NEW s \in Simulators, UNCHANGED <<history, current, sequence>>,
         utc'[s] = utc[s], rows'[s] = rows[s]
  PROVE  /\ Absent' = Absent /\ IdsAhead(s)' = IdsAhead(s)
         /\ \A v : Recent(v, utc[s])' = Recent(v, utc[s])
BY DEF Absent, MomentsOf, IdsAhead, Recent

LEMMA LaunchTables ==
  ASSUME TInv, NEW s \in Simulators, Launch(s)
  PROVE  Tables'
<1>1. /\ pc[s] = "down" /\ pc' = [pc EXCEPT ![s] = "idle"]
      /\ alone' = (alone /\ \A t \in Simulators : pc[t] = "down")
      /\ UNCHANGED <<clock, schema, positions, history, partitions, sequence, current,
                     utc, begun, maintained, cleaned, faded, rows>>
  BY DEF Launch, tables, transaction
<1>2. pc'[s] = "idle" /\ \A r \in Simulators \ {s} : pc'[r] = pc[r]
  BY <1>1 DEF TInv, IInv, Types
<1>3. maintained[s] = Never /\ ~cleaned[s] /\ rows[s] = {}
  BY <1>1 DEF TInv, IInv, NoteHolds, WorkHolds
<1>4. PartitionsAfter(s)' = PartitionsAfter(s) /\ Redefines(utc[s])' = Redefines(utc[s])
  BY <1>1, SamePartitions
<1>5. LocksHold(s)'
  BY <1>1, <1>2, <1>4 DEF TInv, Tables, LocksHold, SeenBy
<1>6. ASSUME alone' PROVE alone /\ OneUp' /\ SoloHolds(s)'
  <2>1. OneUp'
    BY <1>1, <1>2, <1>6 DEF OneUp
  <2>2. SoloHolds(s)'
    BY <1>1, <1>2, <1>3 DEF SoloHolds, InTick, DistinctIds
  <2> QED BY <1>1, <1>6, <2>1, <2>2
<1>7. ASSUME NEW r \in Simulators \ {s}
      PROVE  SameTick(r) /\ ~(cleaned[r] /\ cleaned'[s])
               /\ (pc'[s] = "commit" => SeenBy(s)' \cap faded[r] = {})
  BY <1>1, <1>2, <1>3 DEF SameTick, Same
<1>8. /\ TickTypes' /\ sequence' \in Nat /\ sequence <= sequence' /\ alone' \in BOOLEAN
      /\ UNCHANGED <<clock, schema, positions, history, partitions, current>>
      /\ schema = "single" => maintained'[s] = Never
      /\ rows'[s] = rows[s]
  BY <1>1, <1>3 DEF TInv, Tables, TableTypes, TickTypes
<1> QED BY <1>5, <1>6, <1>7, <1>8, TickKeeps

LEMMA ForgetTables ==
  ASSUME TInv, NEW s \in Simulators, NEW state \in {"down", "dead"}, pc[s] # "down",
         pc' = [pc EXCEPT ![s] = state], maintained' = [maintained EXCEPT ![s] = Never],
         EndTick(s), UNCHANGED <<clock, tables, alone>>
  PROVE  Tables'
<1>1. /\ pc'[s] = state /\ maintained'[s] = Never /\ begun'[s] = Never
      /\ ~cleaned'[s] /\ faded'[s] = {} /\ rows'[s] = {}
      /\ \A r \in Simulators \ {s} : SameTick(r)
  BY DEF TInv, IInv, Types, Tables, TickTypes, EndTick, SameTick, Same
<1>2. clock \in Nat /\ Never <= clock
  BY NeverAssumption DEF TInv, IInv, Types
<1>3. LocksHold(s)'
  <2>1. ASSUME NEW t \in Simulators \ {s}, pc'[t] = "commit" PROVE SeenBy(t)' \cap faded'[s] = {}
    BY <1>1
  <2> QED BY <1>1, <1>2, <2>1 DEF LocksHold, tables
<1>4. ASSUME alone' PROVE alone /\ OneUp' /\ SoloHolds(s)'
  <2>1. alone /\ OneUp
    BY <1>4 DEF TInv, Tables, AloneHolds
  <2>2. OneUp'
    BY <2>1, <1>1 DEF OneUp, SameTick, Same
  <2>3. SoloHolds(s)'
    BY <1>1 DEF SoloHolds, InTick, DistinctIds
  <2> QED BY <2>1, <2>2, <2>3
<1>5. TickTypes'
  BY DEF TInv, Tables, TickTypes, EndTick
<1>6. /\ sequence' \in Nat /\ sequence <= sequence' /\ alone' \in BOOLEAN
      /\ UNCHANGED <<clock, schema, positions, history, partitions, current>>
      /\ pc'[s] # "commit"
  BY <1>1 DEF TInv, Tables, TableTypes, tables
<1> QED BY <1>1, <1>3, <1>4, <1>5, <1>6, TickKeeps

LEMMA ReadDateTables ==
  ASSUME TInv, NEW s \in Simulators, ReadDate(s)
  PROVE  Tables'
<1>1. /\ pc[s] = "idle" /\ pc' = [pc EXCEPT ![s] = "opening"]
      /\ utc' = [utc EXCEPT ![s] = Today]
      /\ UNCHANGED <<clock, schema, positions, history, partitions, sequence, current,
                     begun, maintained, cleaned, faded, rows, alone>>
  BY DEF ReadDate, tables, transaction, Today
<1>2. pc'[s] = "opening" /\ utc'[s] = Today /\ \A r \in Simulators \ {s} : SameTick(r)
  BY <1>1 DEF TInv, IInv, Types, SameTick, Same
<1>3. Today \in Date(Start)..Date(Finish)
  <2>1. clock \in Nat /\ Start <= clock /\ clock <= Finish
    BY ClockAssumption DEF TInv, Tables, TableTypes
  <2>2. Date(Start) \in Nat /\ Date(Finish) \in Nat /\ Date(clock) \in Nat
    BY <2>1, ClockAssumption, DateType
  <2>3. Date(Start) <= Date(clock) /\ Date(clock) <= Date(Finish)
    BY <2>1, ClockAssumption, DatesRise
  <2> QED BY <2>2, <2>3 DEF Today
<1>4. ~cleaned[s] /\ rows[s] = {}
  BY <1>1 DEF TInv, IInv, WorkHolds
<1>5. LocksHold(s)'
  BY <1>1, <1>2, <1>4 DEF TInv, Tables, LocksHold, SeenBy, SameTick, Same
<1>6. ASSUME alone' PROVE alone /\ OneUp' /\ SoloHolds(s)'
  <2>1. alone /\ OneUp /\ SoloHolds(s)
    BY <1>1, <1>6 DEF TInv, Tables, AloneHolds
  <2>2. OneUp'
    BY <2>1, <1>1, <1>2 DEF OneUp, SameTick, Same
  <2>3. Absent' = Absent
    BY <1>1 DEF Absent, MomentsOf
  <2>4. \/ IdsAhead(s)'
        \/ /\ maintained'[s] = Never \/ cleaned'[s]
           /\ InTick(s)' => \A v \in Absent' : ~Recent(v, utc[s])'
    <3>1. IdsAhead(s) => IdsAhead(s)'
      BY <1>1, <2>3 DEF IdsAhead
    <3>2. CASE ~IdsAhead(s)
      <4>1. maintained'[s] = Never
        BY <1>1, <1>4, <2>1, <3>2 DEF SoloHolds
      <4>2. \A v \in Absent : ~Recent(v, Today)
        BY <1>4, <1>6, <1>1, <3>2 DEF TInv, Tables, AloneHolds, IdsHold, IdsAhead
      <4>3. \A v : Recent(v, utc[s])' <=> Recent(v, Today)
        BY <1>1, <1>2 DEF Recent
      <4> QED BY <2>3, <4>1, <4>2, <4>3
    <3> QED BY <3>1, <3>2
  <2>5. SoloHolds(s)'
    BY <1>1, <1>2, <1>4, <2>1, <2>3, <2>4
       DEF TInv, Tables, TablesHold, SoloHolds, InTick, DistinctIds, Stale
  <2> QED BY <2>1, <2>2, <2>5
<1>7. TickTypes'
  BY <1>1, <1>3 DEF TInv, Tables, TickTypes
<1>8. /\ sequence' \in Nat /\ sequence <= sequence' /\ alone' \in BOOLEAN
      /\ pc'[s] # "commit" /\ ~cleaned'[s]
      /\ schema = "single" => maintained'[s] = Never
      /\ rows'[s] = rows[s]
  BY <1>1, <1>2, <1>4 DEF TInv, Tables, TableTypes, TablesHold
<1> QED BY <1>1, <1>2, <1>5, <1>6, <1>7, <1>8, TickKeeps

LEMMA OpenTables ==
  ASSUME TInv, NEW s \in Simulators, Open(s)
  PROVE  Tables'
<1>1. /\ pc[s] = "opening"
      /\ pc' = [pc EXCEPT ![s] = IF maintained[s] # utc[s] THEN "maintain" ELSE "insert"]
      /\ begun' = [begun EXCEPT ![s] = clock]
      /\ UNCHANGED <<clock, schema, positions, history, partitions, sequence, current,
                     utc, maintained, cleaned, faded, rows, alone>>
  BY DEF Open, tables, transaction
<1>2. /\ pc'[s] \in {"maintain", "insert"} /\ begun'[s] = clock
      /\ \A r \in Simulators \ {s} : SameTick(r)
  BY <1>1 DEF TInv, IInv, Types, SameTick, Same
<1>3. ~cleaned[s] /\ rows[s] = {} /\ faded[s] = {} /\ clock \in 0..Finish
  BY <1>1, ClockAssumption DEF TInv, IInv, WorkHolds, Tables, LocksHold, TableTypes
<1>4. LocksHold(s)'
  <2>1. ASSUME NEW t \in Simulators \ {s}, pc'[t] = "commit" PROVE SeenBy(t)' \cap faded'[s] = {}
    BY <1>1, <1>3
  <2> QED BY <1>1, <1>2, <1>3, <2>1 DEF LocksHold, TInv, IInv, WorkHolds
<1>5. ASSUME alone' PROVE alone /\ OneUp' /\ SoloHolds(s)'
  <2>1. alone /\ OneUp /\ SoloHolds(s)
    BY <1>1, <1>5 DEF TInv, Tables, AloneHolds
  <2>2. OneUp'
    BY <2>1, <1>1, <1>2 DEF OneUp, SameTick, Same
  <2>3. /\ Absent' = Absent /\ IdsAhead(s)' = IdsAhead(s)
        /\ \A v : Recent(v, utc[s])' = Recent(v, utc[s])
    BY <1>1, SameNumbers
  <2>4. SoloHolds(s)'
    BY <1>1, <1>2, <1>3, <2>1, <2>3
       DEF TInv, Tables, TablesHold, SoloHolds, InTick, DistinctIds
  <2> QED BY <2>1, <2>2, <2>4
<1>6. TickTypes'
  BY <1>1, <1>3 DEF TInv, Tables, TickTypes
<1>7. /\ sequence' \in Nat /\ sequence <= sequence' /\ alone' \in BOOLEAN
      /\ pc'[s] # "commit" /\ ~cleaned'[s]
      /\ schema = "single" => maintained'[s] = Never
      /\ rows'[s] = rows[s]
  BY <1>1, <1>2, <1>3 DEF TInv, Tables, TableTypes, TablesHold
<1> QED BY <1>1, <1>2, <1>4, <1>5, <1>6, <1>7, TickKeeps

\* The maintenance finds no other under way, and waits for the writers of what it
\* deletes to commit.
LEMMA MaintainTables ==
  ASSUME TInv, NEW s \in Simulators, Maintain(s)
  PROVE  Tables'
<1>1. /\ pc[s] = "maintain" /\ schema = "split" /\ pc' = [pc EXCEPT ![s] = "insert"]
      /\ \A t \in Others(s) :
           /\ ~cleaned[t] /\ (rows[t] # {} => ~Redefines(utc[s]))
           /\ pc[t] = "commit" => SeenBy(t) \cap Stale(begun[s]) = {}
      /\ cleaned' = [cleaned EXCEPT ![s] = TRUE]
      /\ faded' = [faded EXCEPT ![s] = Stale(begun[s])]
      /\ maintained' = [maintained EXCEPT ![s] = utc[s]]
      /\ UNCHANGED <<clock, schema, positions, history, partitions, sequence, current,
                     utc, begun, rows, alone>>
  BY DEF Maintain, tables
<1>2. /\ pc'[s] = "insert" /\ cleaned'[s] /\ faded'[s] = Stale(begun[s])
      /\ \A r \in Simulators \ {s} : SameTick(r)
  BY <1>1 DEF TInv, IInv, Types, Tables, TickTypes, SameTick, Same
<1>3. \A t \in Simulators \ {s} :
         /\ ~cleaned[t] /\ (rows[t] # {} => ~Redefines(utc[s]))
         /\ pc[t] = "commit" => SeenBy(t) \cap Stale(begun[s]) = {}
  <2>1. \A t \in Simulators \ {s} :
           cleaned[t] \/ rows[t] # {} \/ pc[t] = "commit" => t \in Others(s)
    BY DEF TInv, IInv, WorkHolds, Others, InTick
  <2> QED BY <1>1, <2>1
<1>4. rows[s] = {} /\ Stale(begun[s]) \subseteq Vehicles
  BY <1>1 DEF TInv, IInv, WorkHolds, Stale
<1>5. LocksHold(s)'
  <2>1. \A v \in Stale(begun[s]) : current[v] # Never /\ current[v] < begun[s] - DayLength
    BY DEF Stale
  <2>2. begun'[s] <= clock'
    BY <1>1 DEF TInv, Tables, LocksHold
  <2>3. Redefines(utc[s])' = Redefines(utc[s])
    BY <1>1 DEF Redefines, Created, Dropped
  <2> QED BY <1>1, <1>2, <1>3, <1>4, <2>1, <2>2, <2>3 DEF LocksHold, SameTick, Same, SeenBy
<1>6. ASSUME alone' PROVE alone /\ OneUp' /\ SoloHolds(s)'
  <2>1. alone /\ OneUp /\ SoloHolds(s)
    BY <1>1, <1>6 DEF TInv, Tables, AloneHolds
  <2>2. OneUp'
    BY <2>1, <1>1, <1>2 DEF OneUp, SameTick, Same
  <2>3. /\ Absent' = Absent /\ IdsAhead(s)' = IdsAhead(s) /\ Stale(begun[s])' = Stale(begun[s])
        /\ \A v : Recent(v, utc[s])' = Recent(v, utc[s])
    BY <1>1, SameNumbers DEF Stale
  <2>4. SoloHolds(s)'
    BY <1>1, <1>2, <1>4, <2>1, <2>3 DEF SoloHolds, InTick, DistinctIds
  <2> QED BY <2>1, <2>2, <2>4
<1>7. TickTypes'
  BY <1>1, <1>4 DEF TInv, Tables, TickTypes
<1>8. /\ sequence' \in Nat /\ sequence <= sequence' /\ alone' \in BOOLEAN
      /\ pc'[s] # "commit" /\ rows'[s] = rows[s]
  BY <1>1, <1>2 DEF TInv, Tables, TableTypes
<1> QED BY <1>1, <1>2, <1>3, <1>5, <1>6, <1>7, <1>8, TickKeeps

-----------------------------------------------------------------------------
\* The ranks of the elements of a finite set of integers, from zero or from one on,
\* are different numbers.
Below(S, v) == {w \in S : w < v}

UpTo(S, v) == {w \in S : w <= v}

LEMMA Ranks ==
  ASSUME NEW S, IsFiniteSet(S), S \subseteq Int, NEW v \in S
  PROVE  /\ Cardinality(Below(S, v)) \in Nat /\ Cardinality(Below(S, v)) < Cardinality(S)
         /\ Cardinality(UpTo(S, v)) \in Nat \ {0} /\ Cardinality(UpTo(S, v)) <= Cardinality(S)
         /\ Cardinality(S) \in Nat
<1>1. Below(S, v) \subseteq S /\ v \notin Below(S, v) /\ UpTo(S, v) \subseteq S /\ v \in UpTo(S, v)
  BY DEF Below, UpTo
<1>2. IsFiniteSet(UpTo(S, v)) /\ Cardinality(UpTo(S, v)) <= Cardinality(S)
  BY <1>1, FS_Subset
<1>3. Cardinality(UpTo(S, v)) \in Nat /\ Cardinality(UpTo(S, v)) # 0
  BY <1>1, <1>2, FS_EmptySet, FS_CardinalityType
<1> QED BY <1>1, <1>2, <1>3, PartIsSmaller

LEMMA RanksDiffer ==
  ASSUME NEW S, IsFiniteSet(S), S \subseteq Int, NEW v \in S, NEW w \in S, v # w
  PROVE  /\ Cardinality(Below(S, v)) # Cardinality(Below(S, w))
         /\ Cardinality(UpTo(S, v)) # Cardinality(UpTo(S, w))
<1>1. ASSUME NEW x \in S, NEW y \in S, x < y
      PROVE  /\ Cardinality(Below(S, x)) # Cardinality(Below(S, y))
             /\ Cardinality(UpTo(S, x)) # Cardinality(UpTo(S, y))
  <2>1. x \in Int /\ y \in Int /\ \A u \in S : u \in Int
    OBVIOUS
  <2>2. /\ Below(S, x) \subseteq Below(S, y) /\ x \in Below(S, y) /\ x \notin Below(S, x)
        /\ UpTo(S, x) \subseteq UpTo(S, y) /\ y \in UpTo(S, y) /\ y \notin UpTo(S, x)
    <3>1. \A u \in S : (u < x => u < y) /\ (u <= x => u <= y)
      BY <1>1, <2>1
    <3>2. x < y /\ ~(x < x) /\ y <= y /\ ~(y <= x)
      BY <1>1, <2>1
    <3> QED BY <3>1, <3>2 DEF Below, UpTo
  <2>3. Below(S, y) \subseteq S /\ UpTo(S, y) \subseteq S
    BY DEF Below, UpTo
  <2>4. IsFiniteSet(Below(S, y)) /\ IsFiniteSet(UpTo(S, y))
    BY <2>3, FS_Subset
  <2>5. /\ Cardinality(Below(S, x)) \in Nat /\ Cardinality(Below(S, y)) \in Nat
        /\ Cardinality(Below(S, x)) < Cardinality(Below(S, y))
    BY <2>2, <2>4, PartIsSmaller
  <2>6. /\ Cardinality(UpTo(S, x)) \in Nat /\ Cardinality(UpTo(S, y)) \in Nat
        /\ Cardinality(UpTo(S, x)) < Cardinality(UpTo(S, y))
    BY <2>2, <2>4, PartIsSmaller
  <2> QED BY <2>5, <2>6
<1>2. v < w \/ w < v
  <2>1. v \in Int /\ w \in Int
    OBVIOUS
  <2> QED BY <2>1
<1>3. CASE v < w
  BY <1>1, <1>3
<1>4. CASE w < v
  <2>1. /\ Cardinality(Below(S, w)) # Cardinality(Below(S, v))
        /\ Cardinality(UpTo(S, w)) # Cardinality(UpTo(S, v))
    BY <1>1, <1>4
  <2> QED BY <2>1
<1> QED BY <1>2, <1>3, <1>4

\* A tick that has got past its maintenance has the tables it needs, and the
\* partition of its moment.
LEMMA WorkingTick ==
  ASSUME TInv, NEW s \in Simulators, Working(s)
  PROVE  /\ schema = "split" /\ InTick(s) /\ pc[s] # "opening"
         /\ utc[s] \in Nat /\ utc[s] <= Today /\ Today <= utc[s] + 1 /\ Today \in Nat
         /\ begun[s] \in 0..Finish /\ begun[s] <= clock
         /\ Date(begun[s]) \in Nat /\ utc[s] <= Date(begun[s]) /\ Date(begun[s]) <= Today
         /\ maintained[s] = utc[s] /\ maintained[s] # Never
         /\ rows[s] # {} => Date(begun[s]) \in PartitionsAfter(s)
<1>1. /\ InTick(s) /\ pc[s] # "opening" /\ maintained[s] = utc[s]
      /\ utc[s] \in Nat /\ utc[s] <= Today /\ Today <= utc[s] + 1 /\ Today \in Nat
      /\ begun[s] \in Nat /\ Date(begun[s]) \in Nat
      /\ utc[s] <= Date(begun[s]) /\ Date(begun[s]) <= Today
  BY TodayType, DateType DEF Working, TInv, IInv, AtMostAMidnight, NoteHolds, InTick
<1>2. maintained[s] # Never
  BY <1>1, NeverAssumption
<1>3. begun[s] \in 0..Finish /\ begun[s] <= clock /\ schema = "split"
  BY <1>1, <1>2, NeverAssumption DEF TInv, Tables, TickTypes, TableTypes, TablesHold, LocksHold
<1>4. rows[s] # {} => Date(begun[s]) \in PartitionsAfter(s)
  BY DEF TInv, Tables, LocksHold
<1> QED BY <1>1, <1>2, <1>3, <1>4

LEMMA NoRowsTables ==
  ASSUME TInv, NEW s \in Simulators, NoRows(s)
  PROVE  Tables'
<1>1. /\ pc[s] = "insert" /\ pc' = [pc EXCEPT ![s] = "commit"]
      /\ UNCHANGED <<clock, schema, positions, history, partitions, sequence, current,
                     utc, begun, maintained, cleaned, faded, rows, alone>>
  BY DEF NoRows, tables, transaction
<1>2. pc'[s] = "commit" /\ \A r \in Simulators \ {s} : SameTick(r)
  BY <1>1 DEF TInv, IInv, Types, SameTick, Same
<1>3. rows[s] = {}
  BY <1>1 DEF TInv, IInv, WorkHolds
<1>4. PartitionsAfter(s)' = PartitionsAfter(s) /\ Redefines(utc[s])' = Redefines(utc[s])
  BY <1>1, SamePartitions
<1>5. LocksHold(s)'
  BY <1>1, <1>2, <1>4 DEF TInv, Tables, LocksHold, SeenBy, SameTick, Same
<1>6. ASSUME alone' PROVE alone /\ OneUp' /\ SoloHolds(s)'
  <2>1. alone /\ OneUp /\ SoloHolds(s)
    BY <1>1, <1>6 DEF TInv, Tables, AloneHolds
  <2>2. OneUp'
    BY <2>1, <1>1, <1>2 DEF OneUp, SameTick, Same
  <2>3. /\ Absent' = Absent /\ IdsAhead(s)' = IdsAhead(s) /\ Stale(begun[s])' = Stale(begun[s])
        /\ \A v : Recent(v, utc[s])' = Recent(v, utc[s])
    BY <1>1, SameNumbers DEF Stale
  <2>4. SoloHolds(s)'
    BY <1>1, <1>2, <2>1, <2>3 DEF SoloHolds, InTick, DistinctIds
  <2> QED BY <2>1, <2>2, <2>4
<1>7. \A r \in Simulators \ {s} :
         ~(cleaned[r] /\ cleaned'[s]) /\ SeenBy(s)' \cap faded[r] = {}
  BY <1>1, <1>3 DEF TInv, Tables, LocksHold, SeenBy
<1>8. /\ TickTypes' /\ sequence' \in Nat /\ sequence <= sequence' /\ alone' \in BOOLEAN
      /\ schema = "single" => maintained'[s] = Never
      /\ rows'[s] = rows[s]
  BY <1>1 DEF TInv, Tables, TableTypes, TickTypes, TablesHold
<1> QED BY <1>1, <1>2, <1>5, <1>6, <1>7, <1>8, TickKeeps

\* The ids a tick takes are new, its own and below what the sequence gives next.
LEMMA InsertTables ==
  ASSUME TInv, NEW s \in Simulators, Insert(s)
  PROVE  Tables'
<1>1. /\ pc[s] = "insert" /\ pc' = [pc EXCEPT ![s] = "upsert"]
      /\ \A t \in Others(s) : cleaned[t] => ~Redefines(utc[t])
      /\ Date(begun[s]) \in PartitionsAfter(s)
      /\ UNCHANGED <<clock, schema, positions, history, partitions, current,
                     utc, begun, maintained, cleaned, faded, alone>>
  BY DEF Insert
<1>2. PICK seen \in (SUBSET Vehicles) \ {{}} :
        /\ rows' = [rows EXCEPT ![s] =
                      {[id |-> sequence + Cardinality({w \in seen : w < v}), vehicle |-> v,
                        at |-> begun[s]] : v \in seen}]
        /\ sequence' = sequence + Cardinality(seen)
  BY DEF Insert
<1>3. IsFiniteSet(seen) /\ seen \subseteq Int
  BY VehiclesAssumption, FS_Subset
<1>4. /\ sequence \in Nat \ {0} /\ Cardinality(seen) \in Nat
      /\ begun[s] \in 0..Finish
  BY <1>1, <1>3, WorkingTick, FS_CardinalityType DEF TInv, Tables, TableTypes, Working
<1> DEFINE Inserted(v) == [id |-> sequence + Cardinality(Below(seen, v)), vehicle |-> v, at |-> begun[s]]
<1>5. rows'[s] = {Inserted(v) : v \in seen}
  BY <1>2 DEF TInv, Tables, TickTypes, Below
<1>6. ASSUME NEW row \in rows'[s]
      PROVE  /\ row \in Row /\ row.vehicle \in seen
             /\ row = Inserted(row.vehicle)
             /\ sequence <= row.id /\ row.id < sequence'
  <2>1. PICK v \in seen : row = Inserted(v)
    BY <1>5
  <2>2. /\ row.vehicle = v /\ row.at = begun[s]
        /\ row.id = sequence + Cardinality(Below(seen, v))
    BY <2>1
  <2>3. row.id \in Nat \ {0} /\ sequence <= row.id /\ row.id < sequence'
    <3>1. Cardinality(Below(seen, v)) \in Nat /\ Cardinality(Below(seen, v)) < Cardinality(seen)
      BY <1>3, Ranks
    <3> QED BY <1>2, <1>4, <2>2, <3>1
  <2>4. row \in Row
    BY <1>4, <2>1, <2>2, <2>3 DEF Row
  <2> QED BY <2>1, <2>2, <2>3, <2>4
<1>7. DistinctIds(rows'[s])
  <2> SUFFICES ASSUME NEW r \in rows'[s], NEW q \in rows'[s], r.id = q.id PROVE r = q
    BY DEF DistinctIds
  <2>1. /\ r.vehicle \in seen /\ q.vehicle \in seen
        /\ r = Inserted(r.vehicle) /\ q = Inserted(q.vehicle)
    BY <1>6
  <2>2. /\ r.id = sequence + Cardinality(Below(seen, r.vehicle))
        /\ q.id = sequence + Cardinality(Below(seen, q.vehicle))
    BY <2>1
  <2>3. /\ Cardinality(Below(seen, r.vehicle)) \in Nat
        /\ Cardinality(Below(seen, q.vehicle)) \in Nat
    BY <1>3, <2>1, Ranks
  <2>4. Cardinality(Below(seen, r.vehicle)) = Cardinality(Below(seen, q.vehicle))
    <3> HIDE DEF Inserted
    <3>1. sequence + Cardinality(Below(seen, r.vehicle)) = sequence + Cardinality(Below(seen, q.vehicle))
      BY <2>2
    <3> QED BY <1>4, <2>3, <3>1
  <2>5. r.vehicle = q.vehicle
    BY <1>3, <2>1, <2>4, RanksDiffer
  <2> QED BY <2>1, <2>5
<1> HIDE DEF Inserted
<1>8. /\ pc'[s] = "upsert" /\ schema = "split"
       /\ \A r \in Simulators \ {s} : SameTick(r)
  BY <1>1, <1>2, WorkingTick DEF TInv, IInv, Types, Tables, TickTypes, SameTick, Same, Working
<1>9. LocksHold(s)'
  <2>1. LocksHold(s)
    BY DEF TInv, Tables
  <2>2. PartitionsAfter(s)' = PartitionsAfter(s) /\ Redefines(utc[s])' = Redefines(utc[s])
    BY <1>1, SamePartitions
  <2>3. ASSUME NEW t \in Simulators \ {s}
        PROVE  /\ ~(cleaned'[s] /\ cleaned'[t])
               /\ pc'[t] = "commit" => SeenBy(t)' \cap faded'[s] = {}
               /\ cleaned'[s] /\ rows'[t] # {} => ~Redefines(utc[s])'
    BY <1>1, <1>8, <2>1, <2>2 DEF LocksHold, SeenBy, SameTick, Same
  <2> QED BY <1>1, <1>6, <2>1, <2>2, <2>3 DEF LocksHold
<1>10. ASSUME alone' PROVE alone /\ OneUp' /\ SoloHolds(s)'
  <2>1. alone /\ OneUp /\ SoloHolds(s)
    BY <1>1, <1>10 DEF TInv, Tables, AloneHolds
  <2>2. OneUp'
    BY <2>1, <1>1, <1>8 DEF OneUp, SameTick, Same
  <2>3. Absent' = Absent /\ Stale(begun[s])' = Stale(begun[s])
    BY <1>1 DEF Absent, MomentsOf, Stale
  <2>4. \A r \in rows'[s], q \in history : q.id < r.id
    <3>1. \A q \in history : q.id \in Nat /\ q.id < sequence
      BY DEF TInv, Tables, TablesHold, TableTypes, Row
    <3>2. \A r \in rows'[s] : r.id \in Nat /\ sequence <= r.id
      BY <1>6 DEF Row
    <3> QED BY <1>4, <3>1, <3>2
  <2>5. IdsAhead(s) => IdsAhead(s)'
    <3>1. \A r \in rows'[s] : r.id \in Nat /\ sequence <= r.id /\ r.id < sequence'
      BY <1>6 DEF Row
    <3>2. sequence <= sequence' /\ sequence' \in Nat /\ Cardinality(Absent) \in Nat
      BY <1>2, <1>4, AbsentCount
    <3>3. SUFFICES ASSUME Cardinality(Absent) < sequence
                   PROVE  /\ Cardinality(Absent) < sequence'
                          /\ \A r \in rows'[s] : r.id > Cardinality(Absent)
      BY <2>3 DEF IdsAhead
    <3> QED BY <1>4, <3>1, <3>2, <3>3
  <2>6. \A v : Recent(v, utc[s])' = Recent(v, utc[s])
    BY <1>1 DEF Recent
  <2>7. SoloHolds(s)'
    BY <1>1, <1>7, <1>8, <2>1, <2>3, <2>4, <2>5, <2>6 DEF SoloHolds, InTick, DistinctIds
  <2> QED BY <2>1, <2>2, <2>7
<1>11. TickTypes'
  <2>1. rows' \in [Simulators -> SUBSET Row]
    <3>1. rows'[s] \in SUBSET Row
      BY <1>6
    <3>2. rows' = [rows EXCEPT ![s] = rows'[s]]
      BY <1>2 DEF TInv, Tables, TickTypes
    <3> QED BY <3>1, <3>2 DEF TInv, Tables, TickTypes
  <2> QED BY <1>1, <2>1 DEF TInv, Tables, TickTypes
<1>12. /\ sequence' \in Nat /\ sequence <= sequence' /\ alone' \in BOOLEAN
       /\ \A r \in Simulators \ {s} :
            ~(cleaned[r] /\ cleaned'[s]) /\ (cleaned[r] => ~Redefines(utc[r]))
  <2>1. \A r \in Simulators \ {s} : cleaned[r] => r \in Others(s)
    BY DEF TInv, IInv, WorkHolds, Others, InTick
  <2> QED BY <1>1, <1>2, <1>4, <2>1 DEF TInv, Tables, TableTypes, LocksHold
<1> QED BY <1>1, <1>8, <1>9, <1>10, <1>11, <1>12, TickKeeps

\* The upsert waits for a maintenance that deletes one of its rows.
LEMMA UpsertTables ==
  ASSUME TInv, NEW s \in Simulators, Upsert(s)
  PROVE  Tables'
<1>1. /\ pc[s] = "upsert" /\ pc' = [pc EXCEPT ![s] = "commit"]
      /\ \A t \in Others(s) : SeenBy(s) \cap faded[t] = {}
      /\ UNCHANGED <<clock, schema, positions, history, partitions, sequence, current,
                     utc, begun, maintained, cleaned, faded, rows, alone>>
  BY DEF Upsert, tables, transaction
<1>2. pc'[s] = "commit" /\ \A r \in Simulators \ {s} : SameTick(r)
  BY <1>1 DEF TInv, IInv, Types, SameTick, Same
<1>3. \A t \in Simulators \ {s} : SeenBy(s) \cap faded[t] = {}
  <2>1. \A t \in Simulators \ {s} : faded[t] # {} => t \in Others(s)
    BY DEF TInv, IInv, Types, WorkHolds, Tables, LocksHold, Others, InTick
  <2> QED BY <1>1, <2>1
<1>4. PartitionsAfter(s)' = PartitionsAfter(s) /\ Redefines(utc[s])' = Redefines(utc[s])
  BY <1>1, SamePartitions
<1>5. LocksHold(s)'
  BY <1>1, <1>2, <1>4 DEF TInv, Tables, LocksHold, SeenBy, SameTick, Same
<1>6. ASSUME alone' PROVE alone /\ OneUp' /\ SoloHolds(s)'
  <2>1. alone /\ OneUp /\ SoloHolds(s)
    BY <1>1, <1>6 DEF TInv, Tables, AloneHolds
  <2>2. OneUp'
    BY <2>1, <1>1, <1>2 DEF OneUp, SameTick, Same
  <2>3. /\ Absent' = Absent /\ IdsAhead(s)' = IdsAhead(s) /\ Stale(begun[s])' = Stale(begun[s])
        /\ \A v : Recent(v, utc[s])' = Recent(v, utc[s])
    BY <1>1, SameNumbers DEF Stale
  <2>4. SoloHolds(s)'
    BY <1>1, <1>2, <2>1, <2>3 DEF SoloHolds, InTick, DistinctIds
  <2> QED BY <2>1, <2>2, <2>4
<1>7. \A r \in Simulators \ {s} :
         ~(cleaned[r] /\ cleaned'[s]) /\ SeenBy(s)' \cap faded[r] = {}
  BY <1>1, <1>3 DEF TInv, Tables, LocksHold, SeenBy
<1>8. /\ TickTypes' /\ sequence' \in Nat /\ sequence <= sequence' /\ alone' \in BOOLEAN
      /\ schema = "single" => maintained'[s] = Never
      /\ rows'[s] = rows[s]
  BY <1>1 DEF TInv, Tables, TableTypes, TickTypes, TablesHold
<1> QED BY <1>1, <1>2, <1>5, <1>6, <1>7, <1>8, TickKeeps

-----------------------------------------------------------------------------
\* A partition that a commit drops is of a day that is no longer kept.
LEMMA DroppedIsOld ==
  ASSUME TInv, NEW s \in Simulators, Working(s), NEW day \in partitions,
         day \notin PartitionsAfter(s)
  PROVE  cleaned[s] /\ day \in Int /\ day <= utc[s] - Retention
<1>1. cleaned[s] /\ day \in Dropped(utc[s])
  BY DEF PartitionsAfter
<1>2. day \in Int /\ utc[s] \in Int /\ Retention \in Nat
  BY PolicyAssumption DEF TInv, IInv, Types
<1> QED BY <1>1, <1>2 DEF Dropped

\* A day after any moment it is the next date.
LEMMA NextDay ==
  ASSUME NEW m \in Nat
  PROVE  m + DayLength \in Nat /\ Date(m + DayLength) = Date(m) + 1
<1>1. DayLength \in Nat /\ DayLength > 0
  BY PolicyAssumption
<1>2. (m + DayLength) \div DayLength = (m \div DayLength) + 1
  BY <1>1
<1> QED BY <1>1, <1>2 DEF Date

\* The vehicles without a row in the history after a commit have been without one, or
\* have lost it to the maintenance, and the tick has not seen them.
LEMMA AbsentAfterCommit ==
  ASSUME TInv, NEW s \in Simulators, Commit(s), NEW v \in Absent'
  PROVE  /\ v \in Vehicles /\ v \notin SeenBy(s) /\ v \notin faded[s]
         /\ current'[v] = current[v] /\ current[v] \in 0..Finish
         /\ \/ v \in Absent
            \/ /\ cleaned[s] /\ Date(current[v]) <= utc[s] - Retention
               /\ \E row \in history \ history' : row.vehicle = v /\ row.at = current[v]
<1>1. /\ Working(s) /\ current' = CurrentAfter(s)
      /\ history' = {row \in history \cup rows[s] : Date(row.at) \in PartitionsAfter(s)}
  BY DEF Commit, Working
<1>2. v \in Vehicles /\ current'[v] # Never /\ current'[v] \notin MomentsOf(v, history')
  BY DEF Absent, MomentsOf
<1>3. \A row \in rows[s] : row.at = begun[s]
  BY DEF TInv, IInv, WorkHolds
<1>4. rows[s] # {} => Date(begun[s]) \in PartitionsAfter(s)
  BY <1>1, WorkingTick
<1>5. v \notin SeenBy(s)
  <2> SUFFICES ASSUME NEW row \in rows[s], row.vehicle = v PROVE FALSE
    BY DEF SeenBy
  <2>1. row \in history'
    BY <1>1, <1>3, <1>4
  <2>2. current'[v] = begun[s]
    BY <1>1, <1>2 DEF CurrentAfter, SeenBy
  <2> QED BY <1>2, <1>3, <2>1, <2>2 DEF MomentsOf
<1>6. v \notin faded[s] /\ current'[v] = current[v] /\ current[v] # Never
  BY <1>1, <1>2, <1>5 DEF CurrentAfter
<1>7. current[v] \in 0..Finish
  BY <1>2, <1>6 DEF TInv, Tables, TableTypes
<1>8. ASSUME v \notin Absent
      PROVE  /\ cleaned[s] /\ Date(current[v]) <= utc[s] - Retention
             /\ \E row \in history \ history' : row.vehicle = v /\ row.at = current[v]
  <2>1. PICK row \in history : row.vehicle = v /\ row.at = current[v]
    BY <1>2, <1>6, <1>8 DEF Absent, MomentsOf
  <2>2. row \notin history'
    BY <1>2, <1>6, <2>1 DEF MomentsOf
  <2>3. Date(row.at) \in partitions /\ Date(row.at) \notin PartitionsAfter(s)
    BY <1>1, <2>1, <2>2 DEF TInv, Tables, TableTypes
  <2> QED BY <1>1, <2>1, <2>2, <2>3, DroppedIsOld
<1> QED BY <1>2, <1>5, <1>6, <1>7, <1>8

\* With one simulator up, those that its maintenance leaves are of the day before it,
\* and only if a single day is kept: current rows that are older it has deleted.
LEMMA AfterMaintenance ==
  ASSUME TInv, alone, NEW s \in Simulators, Commit(s), cleaned[s], NEW v \in Absent'
  PROVE  Retention = 1 /\ Date(current[v]) = utc[s] - 1 /\ current'[v] = current[v]
<1>1. Working(s) /\ SoloHolds(s)
  BY DEF Commit, Working, TInv, Tables, AloneHolds
<1>2. /\ InTick(s) /\ utc[s] \in Nat /\ utc[s] <= Date(begun[s]) /\ Date(begun[s]) \in Nat
      /\ begun[s] \in Nat
  BY <1>1, WorkingTick
<1>3. /\ v \in Vehicles /\ v \notin faded[s] /\ current[v] \in 0..Finish /\ current[v] # Never
      /\ current'[v] = current[v]
  BY AbsentAfterCommit, NeverAssumption
<1>4. v \in Absent \/ Date(current[v]) <= utc[s] - Retention
  BY AbsentAfterCommit
<1>5. Date(current[v]) <= utc[s] - Least \/ Date(current[v]) <= utc[s] - Retention
  BY <1>1, <1>2, <1>4 DEF SoloHolds
<1>6. ~(current[v] < begun[s] - DayLength)
  BY <1>1, <1>3 DEF SoloHolds, Stale
<1>7. Date(current[v]) \in Nat /\ Date(current[v]) + 1 >= Date(begun[s])
  <2>1. current[v] \in Nat /\ begun[s] <= current[v] + DayLength
    BY <1>2, <1>3, <1>6, PolicyAssumption, ClockAssumption
  <2>2. Date(begun[s]) <= Date(current[v] + DayLength)
    BY <1>2, <2>1, NextDay, DatesRise
  <2> QED BY <2>1, <2>2, NextDay, DateType
<1>8. Retention \in Nat \ {0} /\ Least \in Nat \ {0} /\ (Least = 1 => Retention = 1)
  BY PolicyAssumption DEF Least
<1> QED BY <1>2, <1>3, <1>5, <1>7, <1>8

\* The rows that a commit drops have had ids of their own, above as many as there were
\* vehicles without a row.
LEMMA DroppedCount ==
  ASSUME TInv, alone, NEW s \in Simulators, Commit(s), NEW bound \in Nat,
         \A row \in history \ history' : row.id < bound,
         Absent' \ Absent # {}
  PROVE  Cardinality(Absent') < bound
<1> DEFINE new == Absent' \ Absent
           n == Cardinality(Absent)
           old == [v \in new |-> CHOOSE row \in history \ history' : row.vehicle = v]
           f == [v \in new |-> old[v].id]
<1>1. n \in Nat /\ IsFiniteSet(Absent)
  BY AbsentCount
<1>2. DistinctIds(history) /\ \A row \in history : row.id \in Nat /\ row.id > n
  BY DEF TInv, Tables, AloneHolds, IdsHold, TableTypes, Row
<1>3. ASSUME NEW v \in new
      PROVE  old[v] \in history \ history' /\ old[v].vehicle = v
  <2>1. \E row \in history \ history' : row.vehicle = v
    BY AbsentAfterCommit
  <2> QED BY <2>1
<1> HIDE DEF old
<1>4. \A v \in new : f[v] \in n + 1..bound - 1
  BY <1>1, <1>2, <1>3
<1>5. f \in Injection(new, n + 1..bound - 1)
  <2>1. f \in [new -> n + 1..bound - 1]
    BY <1>4
  <2>2. ASSUME NEW v \in new, NEW w \in new, f[v] = f[w] PROVE v = w
    BY <1>2, <1>3, <2>2 DEF DistinctIds
  <2> HIDE DEF f, new
  <2> QED BY <2>1, <2>2 DEF Injection, IsInjective
<1>6. n + 1 <= bound - 1
  <2>1. PICK v \in new : TRUE
    OBVIOUS
  <2>2. f[v] \in Int /\ n + 1 <= f[v] /\ f[v] <= bound - 1
    BY <1>1, <1>4, <2>1
  <2> HIDE DEF f, n
  <2> QED BY <1>1, <2>2
<1> HIDE DEF f, new, n
<1>7. IsFiniteSet(n + 1..bound - 1) /\ Cardinality(n + 1..bound - 1) = bound - 1 - n
  <2>1. /\ IsFiniteSet(n + 1..bound - 1)
        /\ Cardinality(n + 1..bound - 1)
             = IF n + 1 > bound - 1 THEN 0 ELSE bound - 1 - (n + 1) + 1
    BY <1>1, FS_Interval
  <2> QED BY <1>1, <1>6, <2>1
<1>8. /\ IsFiniteSet(new) /\ Cardinality(new) <= bound - 1 - n
      /\ Cardinality(new) \in Nat
  BY <1>5, <1>7, FS_Injection, FS_CardinalityType
<1>9. /\ IsFiniteSet(Absent \cup new) /\ Cardinality(Absent \cup new) <= n + Cardinality(new)
  <2>1. /\ IsFiniteSet(Absent \cup new)
        /\ Cardinality(Absent \cup new)
             = Cardinality(Absent) + Cardinality(new) - Cardinality(Absent \cap new)
    BY <1>1, <1>8, FS_Union
  <2>2. Absent \cap new = {}
    BY DEF new
  <2>3. Cardinality(Absent \cap new) = 0
    BY <2>2, FS_EmptySet
  <2> QED BY <1>1, <1>8, <2>1, <2>3 DEF n
<1>10. /\ Absent' \subseteq Absent \cup new
       /\ Cardinality(Absent \cup new) \in Nat
  BY <1>9, FS_CardinalityType DEF new
<1>11. Cardinality(Absent') <= Cardinality(Absent \cup new) /\ Cardinality(Absent') \in Nat
  BY <1>9, <1>10, FS_Subset, FS_CardinalityType
<1> QED BY <1>1, <1>8, <1>9, <1>10, <1>11

\* With one simulator up, the history and the sequence have enough ids left after any
\* commit.
LEMMA CommitNumbers ==
  ASSUME TInv, alone, NEW s \in Simulators, Commit(s)
  PROVE  /\ Cardinality(Absent') < sequence
         /\ \A row \in history' : Cardinality(Absent') < row.id
<1>1. /\ Working(s) /\ SoloHolds(s) /\ IdsHold
      /\ history' = {row \in history \cup rows[s] : Date(row.at) \in PartitionsAfter(s)}
  BY DEF Commit, Working, TInv, Tables, AloneHolds
<1>2. /\ InTick(s) /\ utc[s] \in Nat /\ maintained[s] # Never
      /\ sequence \in Nat /\ PartitionsAfter(s) \subseteq Int
      /\ (cleaned[s] => \A day \in PartitionsAfter(s) : day > utc[s] - Retention)
  <2>1. InTick(s) /\ utc[s] \in Nat /\ maintained[s] # Never
    BY <1>1, WorkingTick
  <2> QED BY <2>1, PartitionsLeft DEF TInv, Tables, TableTypes
<1>3. /\ \A row \in history : /\ row.id \in Nat /\ row.id < sequence
                              /\ Date(row.at) \in partitions
      /\ \A row \in rows[s] : row.id \in Nat
  BY DEF TInv, Tables, TableTypes, TickTypes, TablesHold, Row
<1>4. CASE Absent' \ Absent # {}
  <2>1. Cardinality(Absent') < sequence
    BY <1>2, <1>3, <1>4, DroppedCount
  <2>2. ASSUME NEW r \in history' PROVE Cardinality(Absent') < r.id
    <3>1. ASSUME NEW row \in history \ history' PROVE row.id < r.id
      <4>1. CASE r \in rows[s]
        BY <1>1, <4>1 DEF SoloHolds
      <4>2. CASE r \in history
        <5>1. Date(row.at) \in partitions /\ Date(row.at) \notin PartitionsAfter(s)
          BY <1>1, <1>3
        <5>2. cleaned[s] /\ Date(row.at) \in Int /\ Date(row.at) <= utc[s] - Retention
          BY <1>1, <5>1, DroppedIsOld
        <5>3. Date(r.at) \in Int /\ Date(r.at) > utc[s] - Retention
          BY <1>1, <1>2, <5>2
        <5>4. utc[s] - Retention \in Int
          BY <1>2, PolicyAssumption
        <5>5. Date(row.at) < Date(r.at)
          BY <5>2, <5>3, <5>4
        <5> QED BY <1>1, <4>2, <5>5 DEF IdsHold
      <4> QED BY <1>1, <4>1, <4>2
    <3>2. r.id \in Nat
      BY <1>1, <1>3
    <3> QED BY <1>4, <3>1, <3>2, DroppedCount
  <2> QED BY <2>1, <2>2
<1>5. CASE Absent' \subseteq Absent
  <2>1. /\ Cardinality(Absent) \in Nat /\ Cardinality(Absent') \in Nat
        /\ Cardinality(Absent') <= Cardinality(Absent)
    BY <1>5, AbsentCount, FS_Subset, FS_CardinalityType
  <2>2. \A row \in history : Cardinality(Absent') < row.id
    BY <1>1, <1>3, <2>1 DEF IdsHold
  <2>3. Cardinality(Absent') < sequence /\ \A r \in rows[s] : Cardinality(Absent') < r.id
    <3>1. CASE IdsAhead(s)
      BY <1>2, <1>3, <2>1, <3>1 DEF IdsAhead
    <3>2. CASE ~IdsAhead(s)
      <4>1. cleaned[s] /\ \A v \in Absent : ~Recent(v, utc[s])
        BY <1>1, <1>2, <3>2 DEF SoloHolds
      <4>2. ASSUME NEW v \in Absent' PROVE FALSE
        <5>1. Date(current[v]) = utc[s] - 1
          BY <4>1, AfterMaintenance
        <5>2. ~(Date(current[v]) > utc[s] - MigratedRetention)
          BY <1>5, <4>1 DEF Recent
        <5> QED BY <1>2, <5>1, <5>2, PolicyAssumption
      <4>3. Cardinality(Absent') = 0
        BY <4>2, FS_EmptySet
      <4>4. \A r \in rows[s] : r.id \in Nat \ {0}
        BY DEF TInv, Tables, TickTypes, Row
      <4>5. sequence \in Nat \ {0}
        BY DEF TInv, Tables, TableTypes
      <4> QED BY <4>3, <4>4, <4>5
    <3> QED BY <3>1, <3>2
  <2> QED BY <1>1, <2>2, <2>3
<1> QED BY <1>4, <1>5

LEMMA CommitTables ==
  ASSUME TInv, NEW s \in Simulators, Commit(s)
  PROVE  Tables'
<1>1. /\ pc[s] = "commit" /\ pc' = [pc EXCEPT ![s] = "idle"]
      /\ partitions' = PartitionsAfter(s) /\ current' = CurrentAfter(s)
      /\ history' = {row \in history \cup rows[s] : Date(row.at) \in PartitionsAfter(s)}
      /\ utc' = [utc EXCEPT ![s] = Never] /\ begun' = [begun EXCEPT ![s] = Never]
      /\ cleaned' = [cleaned EXCEPT ![s] = FALSE] /\ rows' = [rows EXCEPT ![s] = {}]
      /\ faded' = [faded EXCEPT ![s] = {}]
      /\ UNCHANGED <<clock, schema, positions, sequence, maintained, alone>>
  BY DEF Commit, EndTick
<1>2. /\ schema = "split" /\ utc[s] \in Nat /\ utc[s] <= Today /\ Today \in Nat
      /\ begun[s] \in 0..Finish /\ begun[s] <= clock
      /\ utc[s] <= Date(begun[s]) /\ Date(begun[s]) \in Nat
      /\ rows[s] # {} => Date(begun[s]) \in PartitionsAfter(s)
      /\ Working(s) /\ InTick(s) /\ pc[s] # "opening"
  BY <1>1, WorkingTick DEF Working
<1>3. \A row \in rows[s] : /\ row \in Row /\ row.at = begun[s] /\ row.id < sequence
                           /\ row.vehicle \in SeenBy(s)
  BY DEF TInv, IInv, WorkHolds, Tables, TickTypes, LocksHold, SeenBy
<1>4. /\ pc'[s] = "idle" /\ begun'[s] = Never /\ ~cleaned'[s] /\ faded'[s] = {} /\ rows'[s] = {}
      /\ \A r \in Simulators \ {s} : SameTick(r)
  BY <1>1 DEF TInv, IInv, Types, Tables, TickTypes, SameTick, Same
<1>5. \A v \in Vehicles :
        current'[v] = IF v \in SeenBy(s) THEN begun[s]
                      ELSE IF v \in faded[s] THEN Never ELSE current[v]
  BY <1>1 DEF CurrentAfter
<1>6. clock \in Nat /\ DayLength \in Nat /\ Finish \in Nat
  BY PolicyAssumption, ClockAssumption DEF TInv, IInv, Types
<1>7. TableTypes'
  <2>1. current' \in [Vehicles -> 0..Finish \cup {Never}]
    BY <1>1, <1>2 DEF CurrentAfter, TInv, Tables, TableTypes
  <2>2. history' \subseteq Row /\ {Date(row.at) : row \in history'} \subseteq partitions'
    BY <1>1, <1>3 DEF TInv, Tables, TableTypes
  <2> QED BY <1>1, <2>1, <2>2 DEF TInv, Tables, TableTypes
<1>8. TickTypes'
  BY <1>1 DEF TInv, Tables, TickTypes
<1>9. TablesHold'
  <2>1. \A row \in positions' \cup history' : row.at <= clock'
    BY <1>1, <1>2, <1>3 DEF TInv, Tables, TablesHold
  <2>2. \A v \in Vehicles : current'[v] <= clock'
    BY <1>1, <1>2, <1>5, <1>6, NeverAssumption DEF TInv, Tables, TablesHold
  <2>3. \A row \in history' : row.id < sequence'
    BY <1>1, <1>3 DEF TInv, Tables, TablesHold
  <2>4. ASSUME NEW v \in Absent' PROVE Date(current'[v]) <= Today' - Least
    <3>1. /\ v \in Absent \/ Date(current[v]) <= utc[s] - Retention
          /\ current'[v] = current[v] /\ current[v] \in Nat
      BY AbsentAfterCommit, <1>6
    <3>2. /\ Date(current[v]) \in Nat /\ Retention \in Nat
          /\ Least \in Nat /\ Least <= Retention
      BY <3>1, DateType, PolicyAssumption DEF Least
    <3>3. Date(current[v]) <= Today - Least
      BY <1>2, <3>1, <3>2 DEF TInv, Tables, TablesHold
    <3> QED BY <1>1, <3>1, <3>3 DEF Today
  <2> QED BY <1>1, <1>2, <2>1, <2>2, <2>3, <2>4 DEF TInv, Tables, TablesHold
<1>10. ASSUME NEW r \in Simulators PROVE LocksHold(r)'
  <2>1. CASE r = s
    BY <1>1, <1>4, <1>6, <2>1, NeverAssumption DEF LocksHold
  <2>2. CASE r # s
    <3>1. SameTick(r) /\ LocksHold(r)
      BY <1>4, <2>2 DEF TInv, Tables
    <3>2. \A v \in faded[r] : v \in Vehicles /\ v \notin SeenBy(s) /\ v \notin faded[s]
      <4>1. faded[r] # {} => cleaned[r]
        BY <3>1 DEF LocksHold
      <4>2. cleaned[r] => ~cleaned[s]
        BY <2>2, <3>1 DEF LocksHold
      <4>3. ~cleaned[s] => faded[s] = {}
        BY DEF TInv, Tables, LocksHold
      <4>4. SeenBy(s) \cap faded[r] = {}
        BY <1>1, <2>2, <3>1 DEF LocksHold
      <4>5. faded[r] \subseteq Vehicles
        BY DEF TInv, Tables, TickTypes
      <4> QED BY <4>1, <4>2, <4>3, <4>4, <4>5
    <3>3. \A v \in faded[r] : current'[v] = current[v]
      BY <1>5, <3>2
    <3>4. rows[r] # {} \/ cleaned[r] => partitions' = partitions
      <4>1. cleaned[s] /\ rows[r] # {} => ~Redefines(utc[s])
        BY <2>2 DEF TInv, Tables, LocksHold
      <4>2. cleaned[r] => ~cleaned[s]
        BY <2>2, <3>1 DEF LocksHold
      <4> QED BY <1>1, <4>1, <4>2 DEF PartitionsAfter, Redefines
    <3>5. /\ rows[r] # {} => PartitionsAfter(r)' = PartitionsAfter(r)
          /\ cleaned[r] => Redefines(utc[r])' = Redefines(utc[r])
      BY <3>1, <3>4, SamePartitions DEF SameTick, Same
    <3>6. ASSUME NEW t \in Simulators \ {r}
          PROVE  /\ ~(cleaned'[r] /\ cleaned'[t])
                 /\ pc'[t] = "commit" => SeenBy(t)' \cap faded'[r] = {}
                 /\ cleaned'[r] /\ rows'[t] # {} => ~Redefines(utc[r])'
      <4>1. CASE t = s
        BY <1>4, <4>1
      <4>2. CASE t # s
        <5>1. SameTick(t)
          BY <1>4, <4>2
        <5> QED BY <3>1, <3>5, <5>1 DEF LocksHold, SameTick, Same, SeenBy
      <4> QED BY <4>1, <4>2
    <3> QED BY <1>1, <3>1, <3>3, <3>5, <3>6 DEF LocksHold, SameTick, Same
  <2> QED BY <2>1, <2>2
<1>11. ASSUME alone' PROVE AloneHolds'
  <2>1. alone /\ OneUp /\ LatestHolds /\ IdsHold /\ SoloHolds(s)
    BY <1>1, <1>11 DEF TInv, Tables, AloneHolds
  <2>2. OneUp'
    BY <1>1, <1>4, <2>1 DEF OneUp, SameTick, Same
  <2>3. \A q \in history : q \in Row /\ q.at <= begun[s] /\ \A r \in rows[s] : q.id < r.id
    BY <1>2, <2>1 DEF SoloHolds, TInv, Tables, TableTypes
  <2>4. LatestHolds'
    <3> SUFFICES ASSUME NEW row \in history'
                 PROVE  IF current'[row.vehicle] = Never THEN row.at < clock - DayLength
                        ELSE row.vehicle \notin Absent' /\ row.at <= current'[row.vehicle]
      BY <1>1 DEF LatestHolds
    <3>1. row \in Row /\ row.vehicle \in Vehicles /\ row.at \in Nat
      BY <1>1, <1>3, <1>6, <2>3 DEF Row
    <3>2. CASE row.vehicle \in SeenBy(s)
      <4>1. current'[row.vehicle] = begun[s] /\ begun[s] # Never
        BY <1>2, <1>5, <3>1, <3>2, NeverAssumption
      <4>2. row.at <= begun[s]
        BY <1>1, <1>2, <1>3, <1>6, <2>3
      <4>3. row.vehicle \notin Absent'
        BY <3>2, AbsentAfterCommit
      <4> QED BY <4>1, <4>2, <4>3
    <3>3. CASE row.vehicle \notin SeenBy(s)
      <4>1. row \in history
        BY <1>1, <1>3, <3>3
      <4>2. /\ current[row.vehicle] = Never => row.at < clock - DayLength
            /\ current[row.vehicle] # Never => row.at <= current[row.vehicle]
        BY <2>1, <4>1 DEF LatestHolds
      <4>3. CASE row.vehicle \in faded[s]
        <5>1. current[row.vehicle] # Never /\ current[row.vehicle] < begun[s] - DayLength
          BY <4>3 DEF TInv, Tables, LocksHold
        <5>2. current[row.vehicle] \in Int
          BY <3>1, NeverAssumption DEF TInv, Tables, TableTypes
        <5> QED BY <1>2, <1>5, <1>6, <3>1, <3>3, <4>2, <4>3, <5>1, <5>2
      <4>4. CASE row.vehicle \notin faded[s]
        <5>1. current'[row.vehicle] = current[row.vehicle]
          BY <1>5, <3>1, <3>3, <4>4
        <5>2. ASSUME row.vehicle \in Absent', current[row.vehicle] # Never PROVE FALSE
          <6>1. /\ row.vehicle \notin Absent /\ row.at <= current[row.vehicle]
                /\ current[row.vehicle] \in Nat
            BY <2>1, <4>1, <5>2, AbsentAfterCommit, ClockAssumption DEF LatestHolds
          <6>2. cleaned[s] /\ Date(current[row.vehicle]) <= utc[s] - Retention
            BY <5>2, <6>1, AbsentAfterCommit
          <6>3. Date(row.at) <= Date(current[row.vehicle])
            BY <3>1, <6>1, DatesRise
          <6>4. Date(row.at) > utc[s] - Retention
            BY <1>1, <1>2, <6>2, PartitionsLeft DEF TInv
          <6> QED BY <1>2, <3>1, <6>1, <6>2, <6>3, <6>4, DateType, PolicyAssumption
        <5> QED BY <4>2, <5>1, <5>2
      <4> QED BY <4>3, <4>4
    <3> QED BY <3>2, <3>3
  <2>5. IdsHold'
    <3>1. DistinctIds(positions') /\ Rising(positions', Today')
      BY <1>1, <1>2 DEF TInv, Tables, TablesHold, DistinctIds, Rising
    <3>2. DistinctIds(history')
      <4> SUFFICES ASSUME NEW q \in history', NEW r \in history', q.id = r.id PROVE q = r
        BY DEF DistinctIds
      <4>1. q.id \in Nat /\ r.id \in Nat
        BY <1>1, <1>3, <2>3 DEF Row
      <4>2. ~(q \in history /\ r \in rows[s]) /\ ~(r \in history /\ q \in rows[s])
        BY <2>3, <4>1
      <4> QED BY <1>1, <2>1, <4>2 DEF IdsHold, SoloHolds, DistinctIds
    <3>3. ASSUME NEW q \in history', NEW r \in history', Date(q.at) < Date(r.at) PROVE q.id < r.id
      <4>1. r.at \in Nat /\ r.at <= begun[s] /\ begun[s] \in Nat
        BY <1>1, <1>2, <1>3, <1>6, <2>3 DEF Row
      <4>2. q \notin rows[s]
        <5>1. Date(r.at) <= Date(begun[s]) /\ Date(r.at) \in Nat
          BY <4>1, DatesRise, DateType
        <5> QED BY <1>2, <1>3, <3>3, <5>1
      <4>3. q \in history /\ (r \in history \/ r \in rows[s])
        BY <1>1, <4>2
      <4> QED BY <2>1, <2>3, <3>3, <4>3 DEF IdsHold
    <3>4. /\ \A row \in history' : row.id > Cardinality(Absent')
          /\ Cardinality(Absent') < sequence'
      <4>1. Cardinality(Absent') \in Nat /\ \A row \in history' : row.id \in Nat
        <5>1. Absent' \subseteq Vehicles
          BY DEF Absent
        <5> QED BY <1>1, <1>3, <2>3, <5>1, VehiclesAssumption, FS_Subset, FS_CardinalityType DEF Row
      <4> QED BY <1>1, <2>1, <4>1, CommitNumbers
    <3>5. ASSUME NEW v \in Absent', Recent(v, Today)'
          PROVE  /\ \A w \in Absent' : Date(current'[v]) <= Date(current'[w])
                 /\ \A row \in history' : Date(current'[v]) <= Date(row.at)
      <4>1. CASE cleaned[s]
        <5>1. /\ Retention = 1 /\ Date(current'[v]) = utc[s] - 1
              /\ \A w \in Absent' : Date(current'[w]) = utc[s] - 1
          BY <2>1, <4>1, AfterMaintenance
        <5>2. \A row \in history' : Date(row.at) \in Int /\ Date(row.at) > utc[s] - 1
          BY <1>1, <1>2, <4>1, <5>1, PartitionsLeft DEF TInv
        <5> QED BY <1>2, <5>1, <5>2
      <4>2. CASE ~cleaned[s]
        <5>1. \A w \in Absent' : w \in Absent /\ current'[w] = current[w]
          BY <4>2, AbsentAfterCommit
        <5>2. Recent(v, Today)
          BY <1>1, <3>5, <5>1 DEF Recent, Today
        <5>3. ASSUME NEW row \in rows[s] PROVE Date(current[v]) <= Date(row.at)
          <6>1. Date(current[v]) <= utc[s] - Least
            BY <1>2, <2>1, <5>1 DEF SoloHolds
          <6>2. Date(current[v]) \in Nat
            BY AbsentAfterCommit, DateType, ClockAssumption
          <6> QED BY <1>2, <1>3, <6>1, <6>2, PolicyAssumption DEF Least
        <5> QED BY <1>1, <2>1, <5>1, <5>2, <5>3 DEF IdsHold
      <4> QED BY <4>1, <4>2
    <3> QED BY <3>1, <3>2, <3>3, <3>4, <3>5 DEF IdsHold
  <2>6. ASSUME NEW r \in Simulators PROVE SoloHolds(r)'
    <3>1. CASE r = s
      <4>1. IdsAhead(s)'
        BY <1>1, <1>4, <2>1, CommitNumbers DEF IdsAhead
      <4> QED BY <1>4, <3>1, <4>1 DEF SoloHolds, InTick, DistinctIds
    <3>2. CASE r # s
      <4>1. SameTick(r) /\ pc[r] = "down"
        BY <1>1, <1>4, <2>1, <3>2 DEF OneUp
      <4>2. ~cleaned[r] /\ rows[r] = {} /\ maintained[r] = Never
        BY <4>1 DEF TInv, IInv, WorkHolds, NoteHolds
      <4> QED BY <2>1, <4>1, <4>2 DEF SoloHolds, InTick, DistinctIds, SameTick, Same
    <3> QED BY <3>1, <3>2
  <2> QED BY <2>2, <2>4, <2>5, <2>6 DEF AloneHolds
<1> QED BY <1>7, <1>8, <1>9, <1>10, <1>11 DEF Tables

-----------------------------------------------------------------------------
\* What a migration finds and leaves of the simulators: nothing under way.
LEMMA AllDown ==
  ASSUME TInv, \A s \in Simulators : pc[s] = "down",
         UNCHANGED <<clock, pc, utc, begun, maintained, transaction>>
  PROVE  /\ TickTypes' /\ OneUp' /\ \A s \in Simulators : maintained'[s] = Never
         /\ \A s \in Simulators : LocksHold(s)' /\ SoloHolds(s)'
<1>1. TickTypes' /\ OneUp'
  BY DEF TInv, Tables, TickTypes, transaction, OneUp
<1>2. ASSUME NEW s \in Simulators
      PROVE  maintained'[s] = Never /\ LocksHold(s)' /\ SoloHolds(s)'
  <2>1. maintained[s] = Never /\ ~cleaned[s] /\ rows[s] = {} /\ faded[s] = {} /\ begun[s] <= clock
    BY DEF TInv, IInv, NoteHolds, WorkHolds, Tables, LocksHold
  <2>2. /\ maintained'[s] = Never /\ ~cleaned'[s] /\ rows'[s] = {} /\ faded'[s] = {}
        /\ begun'[s] <= clock' /\ pc'[s] = "down"
    BY <2>1 DEF transaction
  <2>3. LocksHold(s)'
    <3>1. ASSUME NEW t \in Simulators PROVE pc'[t] # "commit"
      OBVIOUS
    <3> QED BY <2>2, <3>1 DEF LocksHold
  <2> QED BY <2>2, <2>3 DEF SoloHolds, InTick, DistinctIds
<1> QED BY <1>1, <1>2

\* Every row that is copied has a partition to go to.
LEMMA CopiedFit ==
  ASSUME TInv, NEW row \in Copied
  PROVE  Date(row.at) \in MigratedPartitions
<1> DEFINE days == {Date(r.at) : r \in positions}
           first == Max({Today - (MigratedRetention - 1), IF days = {} THEN Today ELSE Min(days)})
           last == Max({Today + MigratedFuture, IF days = {} THEN first ELSE Max(days)})
<1>1. /\ Today \in Nat /\ row \in positions /\ Date(row.at) >= Today - (MigratedRetention - 1)
      /\ MigratedRetention \in Nat /\ MigratedFuture \in Nat
  BY TodayType, PolicyAssumption DEF Copied, TInv, IInv
<1>2. \A day \in days : day \in Nat /\ day <= Today
  <2> SUFFICES ASSUME NEW r \in positions PROVE Date(r.at) \in Nat /\ Date(r.at) <= Today
    OBVIOUS
  <2>1. r.at \in Nat /\ r.at <= clock /\ clock \in Nat
    BY ClockAssumption DEF TInv, IInv, Types, Tables, TableTypes, TablesHold, Row
  <2> QED BY <2>1, DateType, DatesRise DEF Today
<1>3. Date(row.at) \in days
  BY <1>1
<1> HIDE DEF days
<1>4. Min(days) \in Nat /\ Min(days) <= Date(row.at)
  <2>1. days \subseteq Int /\ days # {} /\ 0 \in Int /\ \A day \in days : 0 <= day
    BY <1>2, <1>3
  <2>2. Min(days) \in days /\ \A day \in days : Min(days) <= day
    BY <2>1, MinIs
  <2> QED BY <1>2, <1>3, <2>2
<1>5. Max(days) \in Nat /\ Date(row.at) <= Max(days)
  <2>1. days \subseteq Int /\ days # {} /\ Today \in Int /\ \A day \in days : day <= Today
    BY <1>1, <1>2, <1>3
  <2>2. Max(days) \in days /\ \A day \in days : day <= Max(days)
    BY <2>1, MaxIs
  <2> QED BY <1>2, <1>3, <2>2
<1>6. first \in Int /\ first <= Date(row.at)
  <2> DEFINE ends == {Today - (MigratedRetention - 1), Min(days)}
  <2>1. first = Max(ends)
    BY <1>3
  <2>2. ends \subseteq Int /\ ends # {} /\ \A x \in ends : x <= Date(row.at)
    BY <1>1, <1>4
  <2>3. Date(row.at) \in Int
    BY <1>2, <1>3
  <2> HIDE DEF ends, first
  <2>4. Max(ends) \in ends
    BY <2>2, <2>3, MaxIs
  <2> QED BY <2>1, <2>2, <2>4
<1>7. last \in Int /\ Date(row.at) <= last
  <2> DEFINE ends == {Today + MigratedFuture, Max(days)}
  <2>1. last = Max(ends)
    BY <1>3
  <2>2. /\ ends \subseteq Int /\ ends # {} /\ Max(days) \in ends
        /\ Today + MigratedFuture + Max(days) \in Int
        /\ \A x \in ends : x <= Today + MigratedFuture + Max(days)
    BY <1>1, <1>5
  <2> HIDE DEF ends, last
  <2>3. Max(ends) \in ends /\ Max(days) <= Max(ends)
    BY <2>2, MaxIs
  <2>4. Max(ends) \in Int
    BY <2>2, <2>3
  <2>5. Date(row.at) \in Int
    BY <1>2, <1>3
  <2> QED BY <1>5, <2>1, <2>3, <2>4, <2>5
<1>8. MigratedPartitions = first..last
  BY DEF MigratedPartitions, days
<1> HIDE DEF first, last
<1> QED BY <1>2, <1>3, <1>6, <1>7, <1>8

\* The newest position of a vehicle is one of its rows, and none is newer.
LEMMA NewestIs ==
  ASSUME NEW v \in Vehicles, NEW table, table \subseteq Row
  PROVE  /\ MomentsOf(v, table) = {} => Newest(v, table) = Never
         /\ MomentsOf(v, table) # {} =>
              /\ Newest(v, table) \in MomentsOf(v, table)
              /\ \A at \in MomentsOf(v, table) : at <= Newest(v, table)
<1>1. \A at \in MomentsOf(v, table) : at \in 0..Finish
  BY DEF MomentsOf, Row
<1>2. MomentsOf(v, table) \subseteq Int /\ Finish \in Int
  BY <1>1, ClockAssumption
<1>3. ASSUME MomentsOf(v, table) # {}
      PROVE  /\ Max(MomentsOf(v, table)) \in MomentsOf(v, table)
             /\ \A at \in MomentsOf(v, table) : at <= Max(MomentsOf(v, table))
  BY <1>1, <1>2, <1>3, MaxIs
<1> QED BY <1>3 DEF Newest

\* The sequence goes on after the ids of the table.
LEMMA SequenceIsAhead ==
  ASSUME NEW table, table \subseteq Row, NEW most \in Nat, \A row \in table : row.id <= most
  PROVE  /\ SequenceAfter(table) \in Nat \ {0}
         /\ \A row \in table : row.id < SequenceAfter(table)
<1>1. CASE table = {}
  BY <1>1 DEF SequenceAfter
<1>2. CASE table # {}
  <2> DEFINE ids == {row.id : row \in table}
  <2>1. /\ ids \subseteq Int /\ ids # {} /\ \A n \in ids : n \in Nat \ {0} /\ n <= most
        /\ \A row \in table : row.id \in ids
    BY <1>2 DEF Row
  <2>2. SequenceAfter(table) = Max(ids) + 1
    BY <1>2 DEF SequenceAfter
  <2> HIDE DEF ids
  <2>3. ids \subseteq Int /\ ids # {} /\ most \in Int /\ \A n \in ids : n <= most
    BY <2>1
  <2>4. Max(ids) \in ids /\ \A n \in ids : n <= Max(ids)
    BY <2>3, MaxIs
  <2>5. Max(ids) \in Nat
    BY <2>1, <2>4
  <2>6. \A row \in table : row.id \in Nat /\ row.id <= Max(ids)
    BY <2>1, <2>4
  <2> QED BY <2>2, <2>5, <2>6
<1> QED BY <1>1, <1>2

\* The vehicles whose newest row is not copied each have an older row, with a
\* smaller id than any row that is.
LEMMA IdsLeft ==
  ASSUME TInv, alone, schema = "single", NEW row \in Copied, NEW lost, lost \subseteq Vehicles,
         \A v \in lost :
           \E q \in positions : q.vehicle = v /\ Date(q.at) <= Today - MigratedRetention
  PROVE  Cardinality(lost) \in Nat /\ Cardinality(lost) < row.id
<1>1. /\ row \in positions /\ row \in Row /\ Date(row.at) > Today - MigratedRetention
      /\ positions \subseteq Row /\ Today \in Nat
  BY TodayType, PolicyAssumption, DateType, ClockAssumption
     DEF Copied, TInv, IInv, Tables, TableTypes, Row
<1>2. DistinctIds(positions) /\ Rising(positions, Today)
  BY DEF TInv, Tables, AloneHolds, IdsHold
<1> DEFINE old == [v \in lost |-> CHOOSE q \in positions :
                                     q.vehicle = v /\ Date(q.at) <= Today - MigratedRetention]
           f == [v \in lost |-> old[v].id]
<1>3. ASSUME NEW v \in lost
      PROVE  /\ old[v] \in positions /\ old[v].vehicle = v
             /\ old[v].id \in Nat \ {0} /\ old[v].id < row.id
  <2>1. old[v] \in positions /\ old[v].vehicle = v /\ Date(old[v].at) <= Today - MigratedRetention
    OBVIOUS
  <2> HIDE DEF old
  <2>2. old[v].at \in Nat /\ row.at \in Nat /\ old[v].id \in Nat \ {0}
    BY <1>1, <2>1, ClockAssumption DEF Row
  <2>3. Date(old[v].at) \in Nat /\ Date(row.at) \in Nat /\ MigratedRetention \in Nat
    BY <2>2, DateType, PolicyAssumption
  <2>4. Date(old[v].at) < Date(row.at)
    BY <1>1, <2>1, <2>3
  <2> QED BY <1>1, <1>2, <2>1, <2>2, <2>4 DEF Rising
<1> HIDE DEF old
<1>4. row.id \in Nat \ {0}
  BY <1>1 DEF Row
<1>5. f \in Injection(lost, 1..row.id - 1)
  <2>1. f \in [lost -> 1..row.id - 1]
    BY <1>3, <1>4
  <2>2. ASSUME NEW v \in lost, NEW w \in lost, f[v] = f[w] PROVE v = w
    BY <1>2, <1>3, <2>2 DEF DistinctIds
  <2> HIDE DEF f
  <2> QED BY <2>1, <2>2 DEF Injection, IsInjective
<1> HIDE DEF f
<1>6. IsFiniteSet(1..row.id - 1) /\ Cardinality(1..row.id - 1) = row.id - 1
  <2>1. 1 \in Int /\ row.id - 1 \in Int /\ (1 > row.id - 1 => row.id = 1)
    BY <1>4
  <2>2. /\ IsFiniteSet(1..row.id - 1)
        /\ Cardinality(1..row.id - 1) = IF 1 > row.id - 1 THEN 0 ELSE row.id - 1 - 1 + 1
    BY <2>1, FS_Interval
  <2> QED BY <1>4, <2>1, <2>2
<1>7. IsFiniteSet(lost) /\ Cardinality(lost) <= row.id - 1
  BY <1>5, <1>6, FS_Injection
<1> QED BY <1>4, <1>7, FS_CardinalityType

-----------------------------------------------------------------------------
\* What the upgrade makes of a vehicle: its current row is its newest, which stays in
\* the history unless it is too old to be kept.
LEMMA Upgraded ==
  ASSUME TInv, Upgrade, NEW v \in Vehicles
  PROVE  /\ current'[v] = Never => \A row \in positions : row.vehicle # v
         /\ current'[v] # Never =>
              /\ \E row \in positions : row.vehicle = v /\ row.at = current'[v]
              /\ \A row \in positions : row.vehicle = v => row.at <= current'[v]
              /\ current'[v] \in Nat /\ current'[v] \in 0..Finish
         /\ v \in Absent' => current'[v] # Never /\ Date(current'[v]) <= Today - MigratedRetention
         /\ current'[v] # Never /\ Date(current'[v]) > Today - MigratedRetention => v \notin Absent'
<1>1. current'[v] = Newest(v, positions) /\ history' = Copied
  BY DEF Upgrade
<1>2. positions \subseteq Row /\ Today \in Nat /\ MigratedRetention \in Nat
  BY TodayType, PolicyAssumption DEF TInv, IInv, Tables, TableTypes
<1>3. \A row \in positions : row.at \in Nat /\ row.at \in 0..Finish /\ Date(row.at) \in Nat
  BY <1>2, DateType, ClockAssumption DEF Row
<1>4. CASE MomentsOf(v, positions) = {}
  <2>1. current'[v] = Never /\ \A row \in positions : row.vehicle # v
    BY <1>1, <1>2, <1>4, NewestIs DEF MomentsOf
  <2> QED BY <2>1 DEF Absent
<1>5. CASE MomentsOf(v, positions) # {}
  <2>1. /\ current'[v] \in MomentsOf(v, positions)
        /\ \A at \in MomentsOf(v, positions) : at <= current'[v]
    BY <1>1, <1>2, <1>5, NewestIs
  <2>2. PICK row \in positions : row.vehicle = v /\ row.at = current'[v]
    BY <2>1 DEF MomentsOf
  <2>3. current'[v] # Never /\ current'[v] \in Nat /\ current'[v] \in 0..Finish
    BY <1>3, <2>2, NeverAssumption
  <2>4. \A r \in positions : r.vehicle = v => r.at <= current'[v]
    BY <2>1 DEF MomentsOf
  <2>5. v \in Absent' <=> current'[v] \notin MomentsOf(v, Copied)
    BY <1>1, <2>3 DEF Absent, MomentsOf
  <2>6. ASSUME Date(current'[v]) > Today - MigratedRetention PROVE current'[v] \in MomentsOf(v, Copied)
    <3>1. Date(row.at) >= Today - (MigratedRetention - 1)
      BY <1>2, <1>3, <2>2, <2>6
    <3> QED BY <2>2, <3>1 DEF Copied, MomentsOf
  <2>7. Date(current'[v]) \in Nat
    BY <1>3, <2>2
  <2> QED BY <1>2, <2>2, <2>3, <2>4, <2>5, <2>6, <2>7
<1> QED BY <1>4, <1>5

LEMMA UpgradeTables ==
  ASSUME TInv, Upgrade
  PROVE  Tables'
<1>1. /\ schema = "single" /\ schema' = "split" /\ positions' = {}
      /\ \A s \in Simulators : pc[s] = "down"
      /\ partitions' = MigratedPartitions /\ history' = Copied
      /\ current' = [v \in Vehicles |-> Newest(v, positions)]
      /\ sequence' = SequenceAfter(Copied)
      /\ UNCHANGED <<clock, pc, utc, begun, maintained, transaction, alone>>
  BY DEF Upgrade
<1>2. /\ TickTypes' /\ OneUp'
      /\ \A s \in Simulators : LocksHold(s)' /\ SoloHolds(s)'
  BY <1>1, AllDown
<1>3. /\ positions \subseteq Row /\ Copied \subseteq positions /\ Today \in Nat /\ Today' = Today
      /\ \A row \in positions : row.at \in 0..Finish /\ row.at <= clock /\ row.vehicle \in Vehicles
      /\ \A row \in Copied : Date(row.at) \in Nat /\ Date(row.at) > Today - MigratedRetention
      /\ clock \in Nat /\ MigratedRetention \in Nat
  BY <1>1, TodayType, DateType, PolicyAssumption, ClockAssumption
     DEF TInv, IInv, Types, Tables, TableTypes, TablesHold, Copied, Row, Today
<1>4. SequenceAfter(Copied) \in Nat \ {0} /\ \A row \in Copied : row.id < SequenceAfter(Copied)
  <2>1. PICK most \in Nat : \A row \in positions : row.id <= most
    BY DEF TInv, Tables, TablesHold
  <2>2. Copied \subseteq Row /\ \A row \in Copied : row.id <= most
    BY <1>3, <2>1
  <2> QED BY <2>2, SequenceIsAhead
<1>5. TableTypes'
  <2>1. current' \in [Vehicles -> 0..Finish \cup {Never}]
    <3>1. \A v \in Vehicles : current'[v] \in 0..Finish \cup {Never}
      BY Upgraded
    <3> QED BY <1>1, <3>1
  <2>2. {Date(row.at) : row \in history'} \subseteq partitions'
    BY <1>1, CopiedFit
  <2>3. clock' \in Start..Finish /\ alone' \in BOOLEAN
    BY <1>1 DEF TInv, Tables, TableTypes
  <2>4. sequence' \in Nat \ {0} /\ history' \subseteq Row /\ positions' \subseteq Row
    BY <1>1, <1>3, <1>4
  <2> QED BY <1>1, <2>1, <2>2, <2>3, <2>4 DEF TableTypes
<1>6. TablesHold'
  <2>1. \A v \in Vehicles : current'[v] <= clock'
    BY <1>1, <1>3, Upgraded, NeverAssumption
  <2>2. ASSUME NEW v \in Absent' PROVE Date(current'[v]) <= Today' - Least
    <3>1. v \in Vehicles
      BY DEF Absent
    <3>2. Date(current'[v]) \in Nat /\ Date(current'[v]) <= Today - MigratedRetention
      BY <3>1, Upgraded, DateType
    <3>3. Least \in Nat /\ Least <= MigratedRetention
      BY PolicyAssumption DEF Least
    <3> QED BY <1>3, <3>2, <3>3
  <2>3. \A row \in positions' \cup history' : row.at <= clock'
    BY <1>1, <1>3
  <2>4. \A row \in positions' : row.id <= 0
    BY <1>1
  <2> QED BY <1>1, <1>4, <2>1, <2>2, <2>3, <2>4 DEF TablesHold
<1>7. ASSUME alone' PROVE AloneHolds'
  <2>1. alone /\ DistinctIds(positions) /\ Rising(positions, Today)
    BY <1>1, <1>7 DEF TInv, Tables, AloneHolds, IdsHold
  <2>2. LatestHolds'
    <3> SUFFICES ASSUME NEW row \in Copied
                 PROVE  IF current'[row.vehicle] = Never THEN row.at < clock' - DayLength
                        ELSE row.vehicle \notin Absent' /\ row.at <= current'[row.vehicle]
      BY <1>1 DEF LatestHolds
    <3>1. row.vehicle \in Vehicles /\ row \in positions
      BY <1>3
    <3>2. current'[row.vehicle] # Never /\ row.at <= current'[row.vehicle]
          /\ current'[row.vehicle] \in Nat
      BY <3>1, Upgraded
    <3>3. Date(current'[row.vehicle]) > Today - MigratedRetention
      <4>1. row.at \in Nat
        BY <1>3, <3>1, ClockAssumption
      <4>2. Date(row.at) <= Date(current'[row.vehicle]) /\ Date(current'[row.vehicle]) \in Nat
        BY <3>2, <4>1, DatesRise, DateType
      <4> QED BY <1>3, <4>2
    <3> QED BY <3>1, <3>2, <3>3, Upgraded
  <2>3. IdsHold'
    <3>1. DistinctIds(positions') /\ Rising(positions', Today')
      BY <1>1 DEF DistinctIds, Rising
    <3>2. DistinctIds(history') /\ \A q, r \in history' : Date(q.at) < Date(r.at) => q.id < r.id
      BY <1>1, <1>3, <2>1 DEF DistinctIds, Rising
    <3>3. ASSUME NEW row \in Copied PROVE row.id > Cardinality(Absent')
      <4>1. Absent' \subseteq Vehicles
        BY DEF Absent
      <4>2. \A v \in Absent' :
               \E q \in positions : q.vehicle = v /\ Date(q.at) <= Today - MigratedRetention
        BY <4>1, Upgraded
      <4>3. Cardinality(Absent') \in Nat /\ Cardinality(Absent') < row.id
        BY <1>1, <2>1, <4>1, <4>2, IdsLeft
      <4> QED BY <1>3, <4>3 DEF Row
    <3>4. \A v \in Absent' : ~Recent(v, Today)'
      <4> SUFFICES ASSUME NEW v \in Absent' PROVE ~(Date(current'[v]) > Today - MigratedRetention)
        BY <1>3 DEF Recent
      <4>1. v \in Vehicles
        BY DEF Absent
      <4> QED BY <1>3, <4>1, Upgraded, DateType
    <3> QED BY <1>1, <3>1, <3>2, <3>3, <3>4 DEF IdsHold
  <2> QED BY <1>2, <2>2, <2>3 DEF AloneHolds
<1> QED BY <1>2, <1>5, <1>6, <1>7 DEF Tables

-----------------------------------------------------------------------------
\* The rows that the downgrade puts back are of distinct ids from one on, and of
\* positions that are no longer kept.
LEMMA MissingAre ==
  ASSUME TInv
  PROVE  /\ DistinctIds(Missing) /\ Cardinality(Absent) \in Nat
         /\ \A row \in Missing :
              /\ row \in Row /\ row.vehicle \in Absent /\ row.at = current[row.vehicle]
              /\ row.id <= Cardinality(Absent) /\ row.at <= clock
              /\ Date(row.at) \in Nat /\ Date(row.at) <= Today - Least
         /\ \A v \in Absent : \E row \in Missing : row.vehicle = v
<1>1. Absent \subseteq Vehicles /\ Absent \subseteq Int /\ IsFiniteSet(Absent)
  <2>1. Absent \subseteq Vehicles
    BY DEF Absent
  <2> QED BY <2>1, VehiclesAssumption, FS_Subset
<1> DEFINE Put(v) == [id |-> Cardinality(UpTo(Absent, v)), vehicle |-> v, at |-> current[v]]
<1>2. Missing = {Put(v) : v \in Absent}
  BY DEF Missing, UpTo
<1>3. ASSUME NEW row \in Missing
      PROVE  /\ row.vehicle \in Absent /\ row = Put(row.vehicle)
             /\ row.at = current[row.vehicle] /\ row.id = Cardinality(UpTo(Absent, row.vehicle))
  <2>1. PICK v \in Absent : row = Put(v)
    BY <1>2
  <2>2. row.vehicle = v
    BY <2>1
  <2> QED BY <2>1, <2>2
<1>4. ASSUME NEW v \in Absent
      PROVE  current[v] \in 0..Finish /\ current[v] <= clock
             /\ Date(current[v]) \in Nat /\ Date(current[v]) <= Today - Least
  <2>1. v \in Vehicles /\ current[v] # Never
    BY DEF Absent
  <2>2. current[v] \in 0..Finish
    BY <2>1 DEF TInv, Tables, TableTypes
  <2> QED BY <2>1, <2>2, DateType, ClockAssumption DEF TInv, Tables, TablesHold
<1>5. ASSUME NEW v \in Absent
      PROVE  /\ Cardinality(UpTo(Absent, v)) \in Nat \ {0}
             /\ Cardinality(UpTo(Absent, v)) <= Cardinality(Absent)
             /\ Put(v).vehicle = v /\ Put(v) \in Row
  <2>1. /\ Cardinality(UpTo(Absent, v)) \in Nat \ {0}
        /\ Cardinality(UpTo(Absent, v)) <= Cardinality(Absent)
    BY <1>1, Ranks
  <2> QED BY <1>1, <1>4, <2>1 DEF Row
<1>6. DistinctIds(Missing)
  <2> SUFFICES ASSUME NEW r \in Missing, NEW q \in Missing, r.id = q.id PROVE r = q
    BY DEF DistinctIds
  <2>1. /\ r.vehicle \in Absent /\ q.vehicle \in Absent
        /\ Cardinality(UpTo(Absent, r.vehicle)) = Cardinality(UpTo(Absent, q.vehicle))
    BY <1>3
  <2>2. r.vehicle = q.vehicle
    BY <1>1, <2>1, RanksDiffer
  <2> QED BY <1>3, <2>2
<1>7. Cardinality(Absent) \in Nat
  BY <1>1, FS_CardinalityType
<1>8. \A v \in Absent : Put(v) \in Missing /\ Put(v).vehicle = v
  BY <1>2
<1> HIDE DEF Put
<1>9. ASSUME NEW row \in Missing
      PROVE  /\ row \in Row /\ row.vehicle \in Absent /\ row.at = current[row.vehicle]
             /\ row.id <= Cardinality(Absent) /\ row.at <= clock
             /\ Date(row.at) \in Nat /\ Date(row.at) <= Today - Least
  <2>1. /\ row.vehicle \in Absent /\ row = Put(row.vehicle)
        /\ row.at = current[row.vehicle] /\ row.id = Cardinality(UpTo(Absent, row.vehicle))
    BY <1>3
  <2> QED BY <1>4, <1>5, <2>1
<1> QED BY <1>6, <1>7, <1>8, <1>9

LEMMA DowngradeTables ==
  ASSUME TInv, Downgrade
  PROVE  Tables'
<1>1. /\ schema = "split" /\ schema' = "single"
      /\ \A s \in Simulators : pc[s] = "down"
      /\ DistinctIds(history) /\ {r.id : r \in Missing} \cap {r.id : r \in history} = {}
      /\ positions' = history \cup Missing
      /\ partitions' = {} /\ history' = {} /\ sequence' = 1
      /\ current' = [v \in Vehicles |-> Never]
      /\ UNCHANGED <<clock, pc, utc, begun, maintained, transaction, alone>>
  BY DEF Downgrade
<1>2. /\ TickTypes' /\ OneUp' /\ \A s \in Simulators : maintained'[s] = Never
      /\ \A s \in Simulators : LocksHold(s)' /\ SoloHolds(s)'
  BY <1>1, AllDown
<1>3. Absent' = {} /\ Today' = Today /\ Today \in Nat /\ clock \in Nat
  BY <1>1, TodayType DEF Absent, Today, TInv, IInv, Types
<1>4. /\ DistinctIds(Missing) /\ Cardinality(Absent) \in Nat
      /\ \A row \in Missing :
           /\ row \in Row /\ row.id <= Cardinality(Absent) /\ row.at <= clock
           /\ Date(row.at) \in Nat /\ Date(row.at) <= Today - Least
           /\ row.vehicle \in Absent /\ row.at = current[row.vehicle]
  BY MissingAre
<1>5. TableTypes'
  BY <1>1, <1>4 DEF TInv, Tables, TableTypes
<1>6. TablesHold'
  <2>1. \A row \in positions' \cup history' : row.at <= clock'
    BY <1>1, <1>4 DEF TInv, Tables, TablesHold
  <2>2. \E most \in Nat : \A row \in positions' : row.id <= most
    <3>1. sequence \in Nat /\ \A row \in history : row.id \in Nat /\ row.id < sequence
      BY DEF TInv, Tables, TableTypes, TablesHold, Row
    <3>2. \A row \in Missing : row.id \in Nat
      BY <1>4 DEF Row
    <3>3. /\ sequence + Cardinality(Absent) \in Nat
          /\ \A row \in positions' : row.id <= sequence + Cardinality(Absent)
      BY <1>1, <1>4, <3>1, <3>2
    <3> QED BY <3>3
  <2>3. \A v \in Vehicles : current'[v] = Never /\ current'[v] <= clock'
    BY <1>1, <1>3, NeverAssumption
  <2> QED BY <1>1, <1>2, <1>3, <2>1, <2>2, <2>3 DEF TablesHold
<1>7. ASSUME alone' PROVE AloneHolds'
  <2>1. IdsHold
    BY <1>1, <1>7 DEF TInv, Tables, AloneHolds
  <2>2. LatestHolds'
    BY <1>1 DEF LatestHolds
  <2>3. DistinctIds(positions')
    <3> SUFFICES ASSUME NEW r \in history \cup Missing, NEW q \in history \cup Missing, r.id = q.id
                 PROVE  r = q
      BY <1>1 DEF DistinctIds
    <3>1. ~(r \in history /\ q \in Missing) /\ ~(q \in history /\ r \in Missing)
      BY <1>1
    <3> QED BY <1>1, <1>4, <3>1 DEF DistinctIds
  <2>4. Rising(positions', Today')
    <3> SUFFICES ASSUME NEW q \in history \cup Missing, NEW r \in history \cup Missing,
                        Date(q.at) < Date(r.at), Date(r.at) > Today - MigratedRetention
                 PROVE  q.id < r.id
      BY <1>1, <1>3 DEF Rising
    <3>1. \A row \in history \cup Missing : row.id \in Nat /\ Date(row.at) \in Nat
      <4>1. \A row \in history \cup Missing : row \in Row
        BY <1>4 DEF TInv, Tables, TableTypes
      <4> QED BY <4>1, DateType, ClockAssumption DEF Row
    <3>2. r \notin Missing
      <4> SUFFICES ASSUME r \in Missing PROVE FALSE
        OBVIOUS
      <4>1. r.vehicle \in Absent /\ r.at = current[r.vehicle] /\ Recent(r.vehicle, Today)
        BY <1>4 DEF Recent
      <4>2. /\ \A w \in Absent : Date(r.at) <= Date(current[w])
            /\ \A row \in history : Date(r.at) <= Date(row.at)
        BY <2>1, <4>1 DEF IdsHold
      <4>3. Date(r.at) <= Date(q.at)
        BY <1>4, <4>2
      <4> QED BY <3>1, <4>3
    <3>3. CASE q \in history
      BY <2>1, <3>2, <3>3 DEF IdsHold
    <3>4. CASE q \in Missing
      BY <1>4, <2>1, <3>1, <3>2, <3>4 DEF IdsHold
    <3> QED BY <3>3, <3>4
  <2>5. IdsHold'
    BY <1>1, <1>3, <2>3, <2>4 DEF IdsHold, DistinctIds
  <2> QED BY <1>2, <2>2, <2>5 DEF AloneHolds
<1> QED BY <1>2, <1>5, <1>6, <1>7 DEF Tables

\* What has grown old stays old.
LEMMA ElapseTables ==
  ASSUME TInv, Elapse
  PROVE  Tables'
<1>1. /\ clock < Finish /\ clock' = clock + 1
      /\ UNCHANGED <<schema, positions, history, partitions, sequence, current, pc, utc, begun,
                     maintained, cleaned, faded, rows, alone>>
  BY DEF Elapse, tables, transaction
<1>2. /\ clock \in Nat /\ Today \in Nat /\ Today' \in Nat /\ Today <= Today' /\ Least \in Nat
      /\ DayLength \in Nat /\ MigratedRetention \in Nat
  <2>1. clock \in Nat /\ clock + 1 \in Nat /\ clock <= clock + 1
    BY DEF TInv, IInv, Types
  <2> QED BY <1>1, <2>1, DateType, DatesRise, PolicyAssumption DEF Today, Least
<1>3. Absent' = Absent /\ \A v \in Absent : v \in Vehicles /\ current[v] \in 0..Finish
  BY <1>1 DEF Absent, MomentsOf, TInv, Tables, TableTypes
<1>4. TableTypes' /\ TickTypes'
  BY <1>1, ClockAssumption DEF TInv, Tables, TableTypes, TickTypes
<1>5. TablesHold'
  <2>1. \A v \in Absent : Date(current[v]) \in Nat /\ Date(current[v]) <= Today - Least
    BY <1>3, DateType, ClockAssumption DEF TInv, Tables, TablesHold
  <2>2. \A row \in positions \cup history : row.at \in Nat /\ row.at <= clock
    BY ClockAssumption DEF TInv, Tables, TableTypes, TablesHold, Row
  <2>3. \A v \in Vehicles : current[v] \in Int /\ current[v] <= clock
    BY NeverAssumption, ClockAssumption DEF TInv, Tables, TableTypes, TablesHold
  <2> QED BY <1>1, <1>2, <1>3, <2>1, <2>2, <2>3 DEF TInv, Tables, TablesHold
<1>6. ASSUME NEW s \in Simulators PROVE LocksHold(s)'
  <2>1. begun[s] \in Int /\ LocksHold(s)
    BY DEF TInv, IInv, Types, Tables
  <2>2. PartitionsAfter(s)' = PartitionsAfter(s) /\ Redefines(utc[s])' = Redefines(utc[s])
    BY <1>1, SamePartitions
  <2> QED BY <1>1, <1>2, <2>1, <2>2 DEF LocksHold, SeenBy
<1>7. ASSUME alone' PROVE AloneHolds'
  <2>1. OneUp' /\ \A s \in Simulators : SoloHolds(s)'
    <3>1. OneUp'
      BY <1>1, <1>7 DEF TInv, Tables, AloneHolds, OneUp
    <3>2. ASSUME NEW s \in Simulators PROVE SoloHolds(s)'
      <4>1. /\ Absent' = Absent /\ IdsAhead(s)' = IdsAhead(s) /\ Stale(begun[s])' = Stale(begun[s])
            /\ \A v : Recent(v, utc[s])' = Recent(v, utc[s])
        BY <1>1, SameNumbers DEF Stale
      <4> QED BY <1>1, <1>7, <4>1 DEF TInv, Tables, AloneHolds, SoloHolds, InTick, DistinctIds
    <3> QED BY <3>1, <3>2
  <2>2. LatestHolds'
    <3>1. \A row \in history : row.at \in Nat
      BY ClockAssumption DEF TInv, Tables, TableTypes, Row
    <3> QED BY <1>1, <1>2, <1>3, <1>7, <3>1 DEF TInv, Tables, AloneHolds, LatestHolds
  <2>3. IdsHold'
    <3>1. IdsHold
      BY <1>1, <1>7 DEF TInv, Tables, AloneHolds
    <3>2. Rising(positions, Today')
      <4>1. \A r \in positions : Date(r.at) \in Nat
        BY DateType, ClockAssumption DEF TInv, Tables, TableTypes, Row
      <4> QED BY <1>2, <3>1, <4>1 DEF IdsHold, Rising
    <3>3. \A v \in Absent : Recent(v, Today)' => Recent(v, Today)
      <4>1. \A v \in Absent : Date(current[v]) \in Nat
        BY <1>3, DateType, ClockAssumption
      <4> QED BY <1>1, <1>2, <4>1 DEF Recent
    <3>4. IdsHold'
      BY <1>1, <1>3, <3>1, <3>2, <3>3 DEF IdsHold, DistinctIds, Rising
    <3> QED BY <3>4
  <2> QED BY <2>1, <2>2, <2>3 DEF AloneHolds
<1> QED BY <1>4, <1>5, <1>6, <1>7 DEF Tables

-----------------------------------------------------------------------------
LEMMA InitTables == Init => Tables
<1> SUFFICES ASSUME Init PROVE Tables
  OBVIOUS
<1>1. /\ positions \subseteq Row /\ IsFiniteSet(positions) /\ DistinctIds(positions)
      /\ (\A row \in positions : row.at <= Start) /\ Rising(positions, Today)
  BY LegaciesAssumption DEF Init, Today
<1>2. Absent = {}
  BY DEF Init, Absent
<1>3. TableTypes /\ TickTypes
  BY <1>1, ClockAssumption DEF Init, TableTypes, TickTypes
<1>4. \E most \in Nat : \A row \in positions : row.id <= most
  <2> DEFINE f == [row \in positions |-> row.id]
             ids == {f[row] : row \in positions}
  <2>1. f \in Surjection(positions, ids)
    BY DEF Surjection
  <2>2. ids \subseteq Nat
    BY <1>1 DEF Row
  <2>3. \A row \in positions : row.id \in ids
    OBVIOUS
  <2> HIDE DEF f, ids
  <2>4. IsFiniteSet(ids)
    BY <1>1, <2>1, FS_Surjection
  <2> QED BY <2>2, <2>3, <2>4, FiniteIsBounded
<1>5. TablesHold
  BY <1>1, <1>2, <1>4, NeverAssumption, ClockAssumption DEF Init, TablesHold
<1>6. \A s \in Simulators : LocksHold(s) /\ SoloHolds(s)
  BY NeverAssumption, ClockAssumption DEF Init, LocksHold, SoloHolds, InTick, DistinctIds
<1>7. AloneHolds
  BY <1>1, <1>2, <1>6 DEF Init, AloneHolds, OneUp, LatestHolds, IdsHold, DistinctIds
<1> QED BY <1>3, <1>5, <1>6, <1>7 DEF Tables

\* Every step keeps what holds of the tables, one case per action.
LEMMA StepTables == TInv /\ [Next]_vars => Tables'
<1> SUFFICES ASSUME TInv, [Next]_vars PROVE Tables'
  OBVIOUS
<1>1. ASSUME NEW s \in Simulators, Launch(s) PROVE Tables'
  BY <1>1, LaunchTables
<1>2. ASSUME NEW s \in Simulators, Stop(s) PROVE Tables'
  BY <1>2, ForgetTables DEF Stop
<1>3. ASSUME NEW s \in Simulators, Tick(s) PROVE Tables'
  <2>1. CASE Fail(s)
    <3>1. pc[s] # "down"
      BY <2>1 DEF Fail, InTick
    <3>2. PICK state \in {"down", "dead"} : pc' = [pc EXCEPT ![s] = state]
      BY <2>1 DEF Fail
    <3>3. /\ maintained' = [maintained EXCEPT ![s] = Never] /\ EndTick(s)
          /\ UNCHANGED <<clock, tables, alone>>
      BY <2>1 DEF Fail
    <3> QED BY <3>1, <3>2, <3>3, ForgetTables
  <2> QED BY <1>3, <2>1, ReadDateTables, OpenTables, MaintainTables, NoRowsTables, InsertTables,
             UpsertTables, CommitTables DEF Tick
<1>4. ASSUME Upgrade \/ Downgrade \/ Elapse PROVE Tables'
  BY <1>4, UpgradeTables, DowngradeTables, ElapseTables
<1>5. ASSUME UNCHANGED vars PROVE Tables'
  <2>1. /\ Absent' = Absent /\ Today' = Today
        /\ \A v : Recent(v, Today)' = Recent(v, Today)
        /\ \A s \in Simulators :
             /\ Stale(begun[s])' = Stale(begun[s]) /\ SeenBy(s)' = SeenBy(s)
             /\ PartitionsAfter(s)' = PartitionsAfter(s)
             /\ Redefines(utc[s])' = Redefines(utc[s])
             /\ IdsAhead(s)' = IdsAhead(s) /\ \A v : Recent(v, utc[s])' = Recent(v, utc[s])
    <3>1. UNCHANGED <<clock, history, current, partitions, sequence, utc, begun, rows, cleaned>>
      BY <1>5 DEF vars, tables, transaction
    <3>2. Absent' = Absent /\ Today' = Today
      BY <3>1 DEF Absent, MomentsOf, Today
    <3>3. \A v : Recent(v, Today)' = Recent(v, Today)
      BY <3>1, <3>2 DEF Recent
    <3>4. ASSUME NEW s \in Simulators
          PROVE  /\ Stale(begun[s])' = Stale(begun[s]) /\ SeenBy(s)' = SeenBy(s)
                 /\ PartitionsAfter(s)' = PartitionsAfter(s)
                 /\ Redefines(utc[s])' = Redefines(utc[s])
                 /\ IdsAhead(s)' = IdsAhead(s) /\ \A v : Recent(v, utc[s])' = Recent(v, utc[s])
      BY <3>1, SameNumbers, SamePartitions DEF Stale, SeenBy
    <3> QED BY <3>2, <3>3, <3>4
  <2>2. TableTypes' /\ TickTypes' /\ TablesHold'
    BY <1>5, <2>1 DEF TInv, Tables, TableTypes, TickTypes, TablesHold, vars, tables, transaction
  <2>3. \A s \in Simulators : LocksHold(s)'
    BY <1>5, <2>1 DEF TInv, Tables, LocksHold, vars, tables, transaction
  <2>4. alone' => AloneHolds'
    BY <1>5, <2>1 DEF TInv, Tables, AloneHolds, OneUp, LatestHolds, IdsHold, SoloHolds, InTick,
                      Rising, DistinctIds, vars, tables, transaction
  <2> QED BY <2>2, <2>3, <2>4 DEF Tables
<1> QED BY <1>1, <1>2, <1>3, <1>4, <1>5 DEF Next

LEMMA TablesInvariant == Spec => []TInv
<1>1. Init => TInv
  BY InitKeeps, InitTables DEF TInv
<1>2. TInv /\ [Next]_vars => TInv'
  BY StepKeeps, StepTables DEF TInv
<1> QED BY <1>1, <1>2, PTL DEF Spec

-----------------------------------------------------------------------------
\* Every variable keeps its type, and no row of the history is outside its
\* partitions (0003_vehicle_position_storage.py 67-104).
THEOREM HistoryTypes == Spec => []TypeOK
<1>1. TInv => TypeOK
  <2> SUFFICES ASSUME TInv PROVE TypeOK
    OBVIOUS
  <2>1. \A s \in Simulators : pc[s] \in States /\ cleaned[s] \in BOOLEAN
    BY DEF TInv, IInv, Types
  <2> QED BY <2>1 DEF TInv, Tables, TableTypes, TickTypes, TypeOK, States
<1> QED BY <1>1, TablesInvariant, PTL

\* The current row of a vehicle is its latest position, or is gone because that is
\* older than a day, for any number of vehicles and of simulators that are up one at
\* a time (01_schema.sql 316).
THEOREM CurrentStaysLatest == Spec => []CurrentIsLatest
<1>1. TInv => CurrentIsLatest
  <2> SUFFICES ASSUME TInv, alone, NEW v \in Vehicles, MomentsOf(v, history) # {}
               PROVE  \/ current[v] = Newest(v, history)
                      \/ current[v] = Never /\ Newest(v, history) < clock - DayLength
    BY DEF CurrentIsLatest
  <2>1. /\ Newest(v, history) \in MomentsOf(v, history)
        /\ \A at \in MomentsOf(v, history) : at <= Newest(v, history)
    BY NewestIs DEF TInv, Tables, TableTypes
  <2>2. PICK row \in history : row.vehicle = v /\ row.at = Newest(v, history)
    BY <2>1 DEF MomentsOf
  <2>3. LatestHolds
    BY DEF TInv, Tables, AloneHolds
  <2>4. CASE current[v] = Never
    BY <2>2, <2>3, <2>4 DEF LatestHolds
  <2>5. CASE current[v] # Never
    <3>1. v \notin Absent /\ Newest(v, history) <= current[v]
      BY <2>2, <2>3, <2>5 DEF LatestHolds
    <3>2. current[v] \in MomentsOf(v, history)
      BY <2>5, <3>1 DEF Absent
    <3>3. \A at \in MomentsOf(v, history) : at \in Int
      BY ClockAssumption DEF MomentsOf, TInv, Tables, TableTypes, Row
    <3> QED BY <2>1, <3>1, <3>2, <3>3
  <2> QED BY <2>4, <2>5
<1> QED BY <1>1, TablesInvariant, PTL

\* A migration that is tried at any moment between ticks goes through, however many
\* vehicles it copies and gives ids back to
\* (0003_vehicle_position_storage.py 140-173 and 209-237).
THEOREM MigrationsGoThrough == Spec => []MigrationsSucceed
<1>1. TInv => MigrationsSucceed
  <2> SUFFICES ASSUME TInv PROVE MigrationsSucceed
    OBVIOUS
  <2>1. {Date(row.at) : row \in Copied} \subseteq MigratedPartitions
    BY CopiedFit
  <2>2. ASSUME alone
        PROVE  DistinctIds(history) /\ {row.id : row \in Missing} \cap {row.id : row \in history} = {}
    <3>1. IdsHold
      BY <2>2 DEF TInv, Tables, AloneHolds
    <3>2. Cardinality(Absent) \in Nat /\ \A row \in Missing : row.id \in Nat /\ row.id <= Cardinality(Absent)
      BY MissingAre DEF Row
    <3>3. \A row \in history : row.id \in Nat /\ row.id > Cardinality(Absent)
      BY <3>1 DEF IdsHold, TInv, Tables, TableTypes, Row
    <3>4. ASSUME NEW q \in Missing, NEW r \in history PROVE q.id # r.id
      BY <3>2, <3>3
    <3> QED BY <3>1, <3>4 DEF IdsHold
  <2> QED BY <2>1, <2>2 DEF MigrationsSucceed
<1> QED BY <1>1, TablesInvariant, PTL

-----------------------------------------------------------------------------
\* The tables implement the log of positions.
Position(v, moment) == [vehicle |-> v, at |-> moment]

LEMMA StoredIs ==
  /\ \A x : x \in Stored <=>
       \/ \E row \in positions \cup history : x = Position(row.vehicle, row.at)
       \/ \E v \in Vehicles : current[v] # Never /\ x = Position(v, current[v])
BY DEF Stored, Position

\* A position that a commit does away with is too old, or it was a latest position
\* only, of a day the migration no longer takes over.
Given(x) ==
  /\ x.at = current[x.vehicle] /\ current'[x.vehicle] # x.at
  /\ Date(x.at) <= Today - MigratedRetention

LEMMA CommitLoses ==
  ASSUME TInv, NEW s \in Simulators, Commit(s), NEW x \in Stored, x \notin Stored'
  PROVE  Date(x.at) <= Today - Retention \/ Given(x)
<1>1. /\ Working(s) /\ current' = CurrentAfter(s)
      /\ history' = {row \in history \cup rows[s] : Date(row.at) \in PartitionsAfter(s)}
  BY DEF Commit, Working
<1>2. positions = {} /\ utc[s] \in Nat /\ utc[s] <= Today /\ Today \in Nat /\ Retention \in Nat
  BY <1>1, WorkingTick, PolicyAssumption DEF TInv, Tables, TablesHold
<1>3. ASSUME NEW row \in history, x = Position(row.vehicle, row.at)
      PROVE  Date(x.at) <= Today - Retention
  <2>1. row \notin history'
    BY <1>3, StoredIs DEF Stored, Position
  <2>2. Date(row.at) \in partitions /\ Date(row.at) \notin PartitionsAfter(s)
    BY <1>1, <2>1 DEF TInv, Tables, TableTypes
  <2>3. Date(row.at) \in Int /\ Date(row.at) <= utc[s] - Retention
    BY <1>1, <2>2, DroppedIsOld
  <2> QED BY <1>2, <1>3, <2>3 DEF Position
<1>4. ASSUME NEW v \in Vehicles, current[v] # Never, x = Position(v, current[v])
      PROVE  Date(x.at) <= Today - Retention \/ Given(x)
  <2>1. CASE v \in Absent
    <3>1. Date(x.at) <= Today - Least /\ x.at = current[x.vehicle]
      BY <1>4, <2>1 DEF Position, TInv, Tables, TablesHold
    <3>2. current'[x.vehicle] # x.at
      <4> SUFFICES ASSUME current'[v] = current[v] PROVE FALSE
        BY <1>4 DEF Position
      <4>1. Position(v, current'[v]) \in Stored'
        BY <1>4 DEF Stored, Position
      <4> QED BY <1>4, <4>1
    <3> QED BY <3>1, <3>2 DEF Least, Given
  <2>2. CASE v \notin Absent
    <3>1. PICK row \in history : row.vehicle = v /\ row.at = current[v]
      BY <1>4, <2>2 DEF Absent, MomentsOf
    <3> QED BY <1>3, <1>4, <3>1
  <2> QED BY <2>1, <2>2
<1> QED BY <1>2, <1>3, <1>4, StoredIs

\* A commit stores the positions of its moment in both tables.
LEMMA CommitStores ==
  ASSUME TInv, NEW s \in Simulators, Commit(s)
  PROVE  Log!Store /\ UNCHANGED clock
<1>1. /\ Working(s) /\ pc[s] = "commit" /\ current' = CurrentAfter(s)
      /\ history' = {row \in history \cup rows[s] : Date(row.at) \in PartitionsAfter(s)}
      /\ UNCHANGED <<clock, positions>>
  BY DEF Commit, Working
<1>2. /\ begun[s] \in 0..Finish /\ begun[s] <= clock /\ clock \in Nat /\ DayLength \in Nat
      /\ (rows[s] # {} => Date(begun[s]) \in PartitionsAfter(s)) /\ positions = {}
  BY <1>1, WorkingTick, PolicyAssumption DEF TInv, IInv, Types, Tables, TablesHold
<1>3. \A row \in rows[s] : row.at = begun[s] /\ row.vehicle \in SeenBy(s) /\ row \in history'
  BY <1>1, <1>2 DEF TInv, IInv, WorkHolds, SeenBy
<1>4. SeenBy(s) \in SUBSET Vehicles /\ \A v \in SeenBy(s) : \E row \in rows[s] : row.vehicle = v
  BY DEF SeenBy, TInv, Tables, TickTypes, Row
<1>5. \A v \in Vehicles :
        current'[v] = IF v \in SeenBy(s) THEN begun[s]
                      ELSE IF v \in faded[s] THEN Never ELSE current[v]
  BY <1>1 DEF CurrentAfter
<1>6. \A x \in Stored \ Stored' : Date(x.at) <= Today - Retention \/ Given(x)
  BY CommitLoses
<1>7. Stored' \ Stored \subseteq [vehicle : SeenBy(s), at : {begun[s]}]
  <2> SUFFICES ASSUME NEW x \in Stored', x \notin Stored
               PROVE  x \in [vehicle : SeenBy(s), at : {begun[s]}]
    OBVIOUS
  <2>1. \/ \E row \in history' : x = Position(row.vehicle, row.at)
        \/ \E v \in Vehicles : current'[v] # Never /\ x = Position(v, current'[v])
    BY <1>1, <1>2 DEF Stored, Position
  <2>2. CASE \E row \in history' : x = Position(row.vehicle, row.at)
    <3>1. PICK row \in history' : x = Position(row.vehicle, row.at)
      BY <2>2
    <3>2. row \in rows[s]
      BY <1>1, <3>1, StoredIs
    <3> QED BY <1>3, <3>1, <3>2 DEF Position
  <2>3. CASE \E v \in Vehicles : current'[v] # Never /\ x = Position(v, current'[v])
    <3>1. PICK v \in Vehicles : current'[v] # Never /\ x = Position(v, current'[v])
      BY <2>3
    <3>2. v \in SeenBy(s) /\ current'[v] = begun[s]
      BY <1>5, <3>1, StoredIs
    <3> QED BY <3>1, <3>2 DEF Position
  <2> QED BY <2>1, <2>2, <2>3
<1>8. [vehicle : SeenBy(s), at : {begun[s]}] \subseteq Stored'
  <2> SUFFICES ASSUME NEW x \in [vehicle : SeenBy(s), at : {begun[s]}] PROVE x \in Stored'
    OBVIOUS
  <2>1. PICK row \in rows[s] : row.vehicle = x.vehicle
    BY <1>4
  <2>2. x = [vehicle |-> row.vehicle, at |-> row.at] /\ row \in history'
    BY <1>3, <2>1
  <2> QED BY <2>2 DEF Stored
<1>9. \A v \in Vehicles :
         IF v \in SeenBy(s) THEN current'[v] = begun[s]
         ELSE current'[v] = current[v] \/ (current[v] < clock - DayLength /\ current'[v] = Never)
  <2> SUFFICES ASSUME NEW v \in Vehicles, v \notin SeenBy(s), v \in faded[s]
               PROVE  current[v] < clock - DayLength
    BY <1>5
  <2>1. current[v] # Never /\ current[v] < begun[s] - DayLength
    BY DEF TInv, Tables, LocksHold
  <2>2. current[v] \in Int
    BY NeverAssumption DEF TInv, Tables, TableTypes
  <2> QED BY <1>2, <2>1, <2>2
<1>10. \A x \in Stored \ Stored' : Log!Older(x, Retention) \/ Log!GivesWay(x)
  BY <1>6 DEF Given, Log!Older, Log!GivesWay, Date, Today
<1> QED BY <1>1, <1>2, <1>4, <1>7, <1>8, <1>9, <1>10 DEF Log!Store, Log!Fades

\* The upgrade tells the latest positions apart from the log.
LEMMA UpgradeTellsApart ==
  ASSUME TInv, Upgrade
  PROVE  Log!Upgrade /\ UNCHANGED clock
<1>1. /\ schema = "single" /\ positions' = {} /\ history' = Copied
      /\ UNCHANGED clock
  BY DEF Upgrade
<1>2. /\ history = {} /\ \A v \in Vehicles : current[v] = Never
      /\ Today \in Nat /\ MigratedRetention \in Nat
      /\ \A row \in positions : Date(row.at) \in Nat /\ row.vehicle \in Vehicles
  BY <1>1, TodayType, DateType, PolicyAssumption, ClockAssumption
     DEF TInv, IInv, Tables, TableTypes, TablesHold, Row
<1>3. \A x : x \in Stored <=> \E row \in positions : x = Position(row.vehicle, row.at)
  BY <1>2, StoredIs
<1>4. \A x : x \in Stored' <=>
        \/ \E row \in Copied : x = Position(row.vehicle, row.at)
        \/ \E v \in Vehicles : current'[v] # Never /\ x = Position(v, current'[v])
  BY <1>1 DEF Stored, Position
<1>5. Stored' \subseteq Stored
  <2>1. ASSUME NEW v \in Vehicles, current'[v] # Never PROVE Position(v, current'[v]) \in Stored
    <3>1. PICK row \in positions : row.vehicle = v /\ row.at = current'[v]
      BY <2>1, Upgraded
    <3> QED BY <1>3, <3>1
  <2>2. Copied \subseteq positions
    BY DEF Copied
  <2> QED BY <1>3, <1>4, <2>1, <2>2
<1>6. \A x \in Stored \ Stored' : Log!Older(x, MigratedRetention)
  <2> SUFFICES ASSUME NEW x \in Stored, x \notin Stored'
               PROVE  Date(x.at) <= Today - MigratedRetention
    BY DEF Log!Older, Date, Today
  <2>1. PICK row \in positions : x = Position(row.vehicle, row.at)
    BY <1>3
  <2>2. row \notin Copied
    BY <1>4, <2>1
  <2> QED BY <1>2, <2>1, <2>2 DEF Copied, Position
<1>7. ASSUME NEW v \in Vehicles
      PROVE  LET moments == {row.at : row \in {r \in Stored : r.vehicle = v}}
             IN  IF moments = {} THEN current'[v] = Never
                 ELSE /\ current'[v] \in moments /\ \A at \in moments : at <= current'[v]
                      /\ [vehicle |-> v, at |-> current'[v]] \in Stored'
  <2> DEFINE moments == {row.at : row \in {r \in Stored : r.vehicle = v}}
  <2>1. \A at : at \in moments <=> \E row \in positions : row.vehicle = v /\ row.at = at
    <3>1. ASSUME NEW at \in moments PROVE \E row \in positions : row.vehicle = v /\ row.at = at
      <4>1. PICK x \in Stored : x.vehicle = v /\ x.at = at
        OBVIOUS
      <4> QED BY <1>3, <4>1 DEF Position
    <3>2. ASSUME NEW row \in positions, row.vehicle = v PROVE row.at \in moments
      <4>1. Position(row.vehicle, row.at) \in Stored
        BY <1>3
      <4>2. /\ Position(row.vehicle, row.at).vehicle = v
            /\ Position(row.vehicle, row.at).at = row.at
        BY <3>2 DEF Position
      <4> QED BY <4>1, <4>2
    <3> HIDE DEF moments
    <3> QED BY <3>1, <3>2
  <2> HIDE DEF moments
  <2>2. CASE current'[v] = Never
    <3>1. moments = {}
      BY <2>1, <2>2, Upgraded
    <3> QED BY <2>2, <3>1 DEF moments
  <2>3. CASE current'[v] # Never
    <3>1. current'[v] \in moments /\ \A at \in moments : at <= current'[v]
      BY <2>1, <2>3, Upgraded
    <3>2. [vehicle |-> v, at |-> current'[v]] \in Stored'
      BY <1>4, <2>3 DEF Position
    <3> QED BY <3>1, <3>2 DEF moments
  <2> QED BY <2>2, <2>3
<1> QED BY <1>1, <1>5, <1>6, <1>7 DEF Log!Upgrade

\* The downgrade puts every position into the single table.
LEMMA DowngradePutsBack ==
  ASSUME TInv, Downgrade
  PROVE  Log!Downgrade /\ UNCHANGED clock
<1>1. /\ schema = "split" /\ positions' = history \cup Missing /\ history' = {}
      /\ current' = [v \in Vehicles |-> Never] /\ UNCHANGED clock
  BY DEF Downgrade
<1>2. positions = {}
  BY <1>1 DEF TInv, Tables, TablesHold
<1>3. \A x : x \in Stored' <=> \E row \in history \cup Missing : x = Position(row.vehicle, row.at)
  BY <1>1 DEF Stored, Position
<1>4. ASSUME NEW x \in Stored PROVE x \in Stored'
  <2>1. CASE \E row \in positions \cup history : x = Position(row.vehicle, row.at)
    BY <1>2, <1>3, <2>1
  <2>2. CASE \E v \in Vehicles : current[v] # Never /\ x = Position(v, current[v])
    <3>1. PICK v \in Vehicles : current[v] # Never /\ x = Position(v, current[v])
      BY <2>2
    <3>2. CASE v \in Absent
      <4>1. PICK row \in Missing : row.vehicle = v
        BY <3>2, MissingAre
      <4>2. row.at = current[v]
        BY <4>1, MissingAre
      <4> QED BY <1>3, <3>1, <4>1, <4>2
    <3>3. CASE v \notin Absent
      <4>1. PICK row \in history : row.vehicle = v /\ row.at = current[v]
        BY <3>1, <3>3 DEF Absent, MomentsOf
      <4> QED BY <1>3, <3>1, <4>1
    <3> QED BY <3>2, <3>3
  <2> QED BY <2>1, <2>2, StoredIs
<1>5. ASSUME NEW x \in Stored' PROVE x \in Stored
  <2>1. PICK row \in history \cup Missing : x = Position(row.vehicle, row.at)
    BY <1>3
  <2>2. CASE row \in history
    BY <2>1, <2>2, StoredIs
  <2>3. CASE row \in Missing
    <3>1. row.vehicle \in Absent /\ row.at = current[row.vehicle]
      BY <2>3, MissingAre
    <3>2. row.vehicle \in Vehicles /\ current[row.vehicle] # Never
      BY <3>1 DEF Absent
    <3> QED BY <2>1, <3>1, <3>2, StoredIs
  <2> QED BY <2>1, <2>2, <2>3
<1> QED BY <1>1, <1>4, <1>5 DEF Log!Downgrade

\* Every other step leaves what is stored as it is.
LEMMA OthersStutter ==
  ASSUME TInv, NEW s \in Simulators,
         Launch(s) \/ Stop(s) \/ ReadDate(s) \/ Open(s) \/ Maintain(s) \/ NoRows(s) \/ Insert(s)
           \/ Upsert(s) \/ Fail(s)
  PROVE  UNCHANGED <<clock, positions, history, current>>
BY DEF Launch, Stop, ReadDate, Open, Maintain, NoRows, Insert, Upsert, Fail, tables

\* Every step maps to a step of the log or to none.
LEMMA LogSteps == TInv /\ [Next]_vars => [Log!Next]_(Log!vars)
<1> SUFFICES ASSUME TInv, [Next]_vars PROVE [Log!Next]_(Log!vars)
  OBVIOUS
<1>1. ASSUME UNCHANGED <<clock, positions, history, current>> PROVE UNCHANGED Log!vars
  BY <1>1 DEF Log!vars, Stored
<1>2. ASSUME UNCHANGED clock, Log!Store \/ Log!Upgrade \/ Log!Downgrade
      PROVE  [Log!Next]_(Log!vars)
  <2>1. CASE <<current, Stored>>' = <<current, Stored>>
    BY <1>2, <2>1 DEF Log!vars
  <2>2. CASE <<current, Stored>>' # <<current, Stored>>
    BY <1>2, <2>2 DEF Log!Next, Log!Change
  <2> QED BY <2>1, <2>2
<1>3. ASSUME NEW s \in Simulators, Launch(s) \/ Stop(s) \/ Tick(s) PROVE [Log!Next]_(Log!vars)
  BY <1>1, <1>2, <1>3, CommitStores, OthersStutter DEF Tick
<1>4. ASSUME Upgrade PROVE [Log!Next]_(Log!vars)
  BY <1>2, <1>4, UpgradeTellsApart
<1>5. ASSUME Downgrade PROVE [Log!Next]_(Log!vars)
  BY <1>2, <1>5, DowngradePutsBack
<1>6. ASSUME Elapse PROVE [Log!Next]_(Log!vars)
  <2>1. clock' = clock + 1 /\ UNCHANGED <<positions, history, current>>
    BY <1>6 DEF Elapse, tables
  <2> QED BY <2>1 DEF Log!Next, Log!Pass, Stored
<1>7. ASSUME UNCHANGED vars PROVE [Log!Next]_(Log!vars)
  BY <1>1, <1>7 DEF vars, tables
<1> QED BY <1>3, <1>4, <1>5, <1>6, <1>7 DEF Next

LEMMA LogInit == Init => Log!Init
<1> SUFFICES ASSUME Init PROVE Log!Init
  OBVIOUS
<1>1. positions \subseteq Row /\ \A row \in positions : row.at <= Start
  BY LegaciesAssumption DEF Init
<1>2. clock = Start /\ history = {} /\ current = [v \in Vehicles |-> Never] /\ Start \in 0..Finish
  BY ClockAssumption DEF Init
<1>3. ASSUME NEW x \in Stored
      PROVE  x \in [vehicle : Vehicles, at : {m \in 0..Finish : m <= clock}]
  <2>1. PICK row \in positions : x = Position(row.vehicle, row.at)
    BY <1>2, StoredIs
  <2> QED BY <1>1, <1>2, <2>1 DEF Row, Position
<1> QED BY <1>2, <1>3 DEF Log!Init

\* The tables implement the log, whatever the simulators do and under every policy: a
\* tick stores its history and its current rows at once and loses nothing that has
\* not expired, but latest positions that an earlier migration has left without
\* history; the migration loses nothing of its own thirty days, which a longer
\* retention exceeds, and keeps every vehicle's latest position in both directions
\* (realtime_service.py 52, 0003_vehicle_position_storage.py 140-164 and 209-229).
THEOREM TablesImplementLog == Spec => HistoryRefined
<1>1. Spec => Log!Init
  BY LogInit, PTL DEF Spec
<1>2. Spec => [][Log!Next]_(Log!vars)
  BY TablesInvariant, LogSteps, PTL DEF Spec
<1> QED BY <1>1, <1>2, PTL DEF HistoryRefined, Log!Spec
=============================================================================
