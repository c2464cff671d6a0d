---------------------------- MODULE MCTimedHost ----------------------------
(* Two timers at a time and three identities above a restored floor,        *)
(* deadlines that collide, sizes that fit, exceed a limit and overflow, the *)
(* tokens of a second queue, and a clock that moves inside turns and waits. *)
EXTENDS TimedHost

MCBatchLimits == [events |-> 2, retained_bytes |-> 3]
===========================================================================
