--------------------------- MODULE MCSimulation ---------------------------
(* Two duties, four moments, one beyond the ceiling, two pending events    *)
(* and two effects per action, so that an action can cancel an old event   *)
(* and fill its place before it fails.  A deadline of 1 lies before some    *)
(* events, at or behind the clock later on; one of 3 beyond the ceiling.   *)
(* Three actions in all, two a moment: either limit ends some runs, the    *)
(* ceiling, quiescence and completion end others; event identities run out.*)
EXTENDS Simulation

MCPayloads == Routed
===========================================================================
