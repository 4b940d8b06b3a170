--------------------------- MODULE MCFeedSessions ---------------------------
(***************************************************************************)
(* One plan request at a time, one viewer, the simulation loop, and an     *)
(* import that is run again until it commits.                              *)
(***************************************************************************)
EXTENDS FeedSessions

MCPlanners == {"planner"}
MCViewers == {"viewer"}
=============================================================================
