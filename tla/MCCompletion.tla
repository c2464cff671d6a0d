--------------------------- MODULE MCCompletion ---------------------------
(* Two tasks: the future moves from one to the other between polls.        *)
EXTENDS Completion
===========================================================================
