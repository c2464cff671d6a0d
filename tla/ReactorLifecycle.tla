-------------------------- MODULE ReactorLifecycle --------------------------
(***************************************************************************)
(* What a reactor promises whoever supervises it: it is asked to terminate *)
(* at most once, it exits once, and the way it says it exited agrees with  *)
(* what it was asked.  Reactor.tla implements this, and ReactorGroup.tla   *)
(* treats each of its members as one of these.                             *)
(***************************************************************************)

VARIABLES
  control,    \* running, requested or exited
  outcome     \* none, or how it exited

lifecycleVars == <<control, outcome>>

LifecycleInit == control = "running" /\ outcome = "none"

Request ==
  /\ control = "running"
  /\ control' = "requested"
  /\ UNCHANGED outcome

\* Stopped is the duty's own decision, Terminated somebody else's; everything
\* else may happen to a reactor at any time.
Exit ==
  /\ control # "exited"
  /\ control' = "exited"
  /\ outcome' \in {"dropped", "stopped", "terminated", "failed", "panicked"}
  /\ outcome' = "stopped" => control = "running"
  /\ outcome' = "terminated" => control = "requested"

LifecycleNext == Request \/ Exit

LifecycleSpec == LifecycleInit /\ [][LifecycleNext]_lifecycleVars

=============================================================================
