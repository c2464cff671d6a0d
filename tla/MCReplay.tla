------------------------------ MODULE MCReplay ------------------------------
(* Two duties, the second with a delivery that precedes every turn; two      *)
(* moments, two outcomes, and runs of three actions, one more than the trace *)
(* retains and enough for the round robin's cursor to wrap.                  *)
EXTENDS Replay

MCKeys == {TurnKey(0), TurnKey(1), DeliveryKey(1, 0, 0)}
=============================================================================
