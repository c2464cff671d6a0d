------------------------- MODULE MCReadinessOwner -------------------------
(* Two slots of two generations and four admissions, so that slots are      *)
(* reused and retired while old tokens, those of another owner and those of *)
(* a slot out of bounds are presented; batches of two events, so that one   *)
(* source can be closed and replaced between the events of a batch, or      *)
(* before an event arrives.                                                 *)
EXTENDS ReadinessOwner
===========================================================================
