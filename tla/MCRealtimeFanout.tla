------------------------- MODULE MCRealtimeFanout -------------------------
(***************************************************************************)
(* Two vehicles and two clients: enough for a client that joins or leaves  *)
(* while a message is on its way to the other one, with a second message   *)
(* of the tick still to come.                                              *)
(***************************************************************************)
EXTENDS RealtimeFanout

MCClients == {"c1", "c2"}
MCVehicles == {"bus1", "bus2"}
=============================================================================
