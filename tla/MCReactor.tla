----------------------------- MODULE MCReactor -----------------------------
(* Two requesters race with a reactor that stops, fails, waits or panics.  *)
EXTENDS Reactor
===========================================================================
