---------------------------- MODULE MCShutdown ----------------------------
(* Three callers on a barrier of capacity two, each of which may be refused *)
(* once and call again: the third is told Full, waits, or finds it settled. *)
EXTENDS Shutdown
===========================================================================
