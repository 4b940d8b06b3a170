----------------------------- MODULE Traveller -----------------------------
(***************************************************************************)
(* What the planner promises, stated without its algorithm.  When csa.plan *)
(* has answered, a traveller sets out from the origin with the timetable   *)
(* in hand and makes any journey the buses allow.  The answer is exact     *)
(* when no traveller ever does better.                                     *)
(***************************************************************************)
EXTENDS Csa

VARIABLES
  at,        \* the stop the traveller is at
  clock,     \* and the time
  vehicles,  \* vehicles used
  riding     \* the hop just ridden; NoConn before the first one

rvars == <<at, clock, vehicles, riding>>
tvars == <<vars, rvars>>

TInit == /\ Init
         /\ at = origin /\ clock = departAt /\ vehicles = 0 /\ riding = NoConn

\* c is the hop the traveller's vehicle makes next.
StaysOn(c) ==
  /\ riding # NoConn
  /\ c.trip = riding.trip /\ c.seq > riding.seq
  /\ \A d \in timetable :
       d.trip = riding.trip => d.seq <= riding.seq \/ d.seq >= c.seq

\* c can be boarded: at once at the start, after the buffer at a change.
Boards(c) == /\ c.dep = at
             /\ clock + (IF vehicles = 0 THEN 0 ELSE Buffer) <= c.depTime

Travel(c) ==
  /\ pc \in {"found", "none"}
  /\ at' = c.arr /\ clock' = c.arrTime /\ riding' = c
  /\ \/ StaysOn(c) /\ vehicles' = vehicles
     \/ Boards(c) /\ vehicles' = vehicles + 1
  /\ UNCHANGED vars

TNext == \/ Next /\ UNCHANGED rvars
         \/ \E c \in timetable : Travel(c)

TSpec == TInit /\ [][TNext]_tvars /\ WF_tvars(Next /\ UNCHANGED rvars)

-----------------------------------------------------------------------------
\* When the journey the planner returns arrives.
PlannedArrival == IF legs = <<>> THEN departAt ELSE legs[Len(legs)].alightTime

\* "Exact for earliest arrival" (csa.py 3-8): a traveller who gets to the
\* destination finds that the planner found a journey too, and one that
\* arrives no later, however many vehicles were used.
EarliestArrival ==
  pc \in {"found", "none"} /\ at = destination =>
    pc = "found" /\ PlannedArrival <= clock

\* "Fewest vehicles among journeys with that arrival" (csa.py 73-74): a
\* traveller who arrives when the planned journey does used as many vehicles.
FewestVehicles ==
  pc = "found" /\ at = destination /\ clock = PlannedArrival =>
    Len(legs) <= vehicles

=============================================================================
