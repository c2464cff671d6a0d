------------------------------- MODULE Turn -------------------------------
(***************************************************************************)
(* The scheduling facts of one turn (crates/calandria/src/turn.rs) and the *)
(* decision a host derives from them (host/action.rs): pure functions.     *)
(***************************************************************************)
EXTENDS Time

CONSTANT WaitCeiling     \* HostConfig::wait_ceiling

ASSUME CeilingAssumption == WaitCeiling \in Spans

---------------------------------------------------------------------------
(* Next, WorkCount and Turn                                                *)

Now == [kind |-> "now"]
Wake == [kind |-> "wake"]
WakeOr(deadline) == [kind |-> "wake_or", deadline |-> deadline]
Stop == [kind |-> "stop"]
NextKinds == {"now", "wake", "wake_or", "stop"}

Nexts == {Now, Wake, Stop} \cup [kind : {"wake_or"}, deadline : Moments]

\* A plausible mistake, for MergeNext: the later of two deadlines is kept.
MergeNextLater(a, b) ==
  IF a.kind = "now" \/ b.kind = "now" THEN Now
  ELSE IF a.kind = "wake_or" /\ b.kind = "wake_or"
       THEN IF a.deadline <= b.deadline THEN b ELSE a
  ELSE IF a.kind = "wake_or" THEN a
  ELSE IF b.kind = "wake_or" THEN b
  ELSE IF a.kind = "wake" \/ b.kind = "wake" THEN Wake
  ELSE Stop

\* Next::merge: whoever wants to run earlier wins, Stop only over itself.
MergeNext(a, b) ==
  IF a.kind = "now" \/ b.kind = "now" THEN Now
  ELSE IF a.kind = "wake_or" /\ b.kind = "wake_or"
       THEN IF a.deadline <= b.deadline THEN a ELSE b
  ELSE IF a.kind = "wake_or" THEN a
  ELSE IF b.kind = "wake_or" THEN b
  ELSE IF a.kind = "wake" \/ b.kind = "wake" THEN Wake
  ELSE Stop

\* Next::bounded_wait
BoundedWait(n, moment, ceiling) ==
  IF n.kind = "now" THEN 0
  ELSE IF n.kind = "wake_or" THEN Shorter(RemainingAt(n.deadline, moment), ceiling)
  ELSE ceiling

\* WorkCount::saturating_add
SaturatingAdd(a, b) == IF a + b <= U64 THEN a + b ELSE U64

Turns == [work : 0..U64, next : Nexts]

\* Turn::merge
MergeTurn(a, b) ==
  [work |-> SaturatingAdd(a.work, b.work), next |-> MergeNext(a.next, b.next)]

---------------------------------------------------------------------------
(* HostAction                                                              *)

Continue == [kind |-> "continue"]
Wait(span) == [kind |-> "wait", span |-> span]
Finish == [kind |-> "stop"]

Actions == {Continue, Finish} \cup [kind : {"wait"}, span : Spans \ {0}]

\* HostAction::from_wait
FromWait(wait) == IF wait = 0 THEN Continue ELSE Wait(wait)

\* HostAction::for_next
ForNext(n, moment) ==
  IF n.kind = "now" THEN Continue
  ELSE IF n.kind = "wake" THEN FromWait(WaitCeiling)
  ELSE IF n.kind = "wake_or"
       THEN FromWait(Shorter(RemainingAt(n.deadline, moment), WaitCeiling))
  ELSE Finish

===========================================================================
