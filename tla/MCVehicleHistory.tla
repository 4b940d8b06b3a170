-------------------------- MODULE MCVehicleHistory --------------------------
(***************************************************************************)
(* Two vehicles, the loop and one script, days of two units, a policy of   *)
(* three days back and one ahead, and a migration that takes two over.     *)
(***************************************************************************)
EXTENDS VehicleHistory

Position(n, v, moment) == [id |-> n, vehicle |-> v, at |-> moment]

\* A row the migration leaves behind though it has not expired, or one of the last
\* days, or both, with rising ids, or none.
MCLegacies ==
  {{}, {Position(1, 2, 2)}, {Position(1, 1, 5)}, {Position(1, 2, 2), Position(2, 1, 5)}}

MCVehicles == {1, 2}

MCScripts == {"script"}

MCNever == -10
=============================================================================
