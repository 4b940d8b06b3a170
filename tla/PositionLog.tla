----------------------------- MODULE PositionLog -----------------------------
(***************************************************************************)
(* What the storage of vehicle positions promises: a log to which each     *)
(* tick appends the positions of one moment, and, while the migration that *)
(* introduces it is in force, the latest position of every vehicle seen    *)
(* within a day, changed in the same step (realtime_service.py 52; the     *)
(* comments of 01_schema.sql 316-317).  Ticks drop expired positions, and  *)
(* those that were a latest position only: the migration has a limit of    *)
(* its own, which may be a shorter one.                                    *)
(***************************************************************************)
EXTENDS Integers, FiniteSets

CONSTANTS
  Vehicles,
  DayLength,
  Retention,  \* the days a position is kept, today included
  MigratedRetention,  \* the days of which the migration takes positions over
  Moments,    \* the values of the clock
  Never       \* no position

VARIABLES log, latest, now

vars == <<now, latest, log>>

\* It is not of the last days, today included.
Older(row, days) == row.at \div DayLength <= now \div DayLength - days

Fades(v) == latest[v] < now - DayLength /\ latest'[v] = Never

\* The migration has taken it over as a latest position only, and it no longer is.
GivesWay(row) ==
  /\ row.at = latest[row.vehicle] /\ latest'[row.vehicle] # row.at
  /\ Older(row, MigratedRetention)

Init ==
  /\ now \in Moments /\ latest = [v \in Vehicles |-> Never]
  /\ log \in SUBSET [vehicle : Vehicles, at : {m \in Moments : m <= now}]

Store ==
  /\ \A row \in log \ log' : Older(row, Retention) \/ GivesWay(row)
  /\ \E at \in Moments, seen \in SUBSET Vehicles :
       /\ at <= now
       /\ log' \ log \subseteq [vehicle : seen, at : {at}]
       /\ [vehicle : seen, at : {at}] \subseteq log'
       /\ \A v \in Vehicles : IF v \in seen THEN latest'[v] = at
                                            ELSE latest'[v] = latest[v] \/ Fades(v)

\* The latest positions are told apart from the log; none of them is lost.
Upgrade ==
  /\ log' \subseteq log /\ \A row \in log \ log' : Older(row, MigratedRetention)
  /\ \A v \in Vehicles :
       LET moments == {row.at : row \in {r \in log : r.vehicle = v}}
       IN  IF moments = {} THEN latest'[v] = Never
           ELSE /\ latest'[v] \in moments /\ \A at \in moments : at <= latest'[v]
                /\ [vehicle |-> v, at |-> latest'[v]] \in log'

Downgrade ==
  /\ log' = log /\ latest' = [v \in Vehicles |-> Never]

Pass ==
  /\ now' = now + 1
  /\ UNCHANGED <<log, latest>>

Change ==
  /\ UNCHANGED now /\ <<latest, log>>' # <<latest, log>>
  /\ Store \/ Upgrade \/ Downgrade

Next == Pass \/ Change

Spec == Init /\ [][Next]_vars
=============================================================================
