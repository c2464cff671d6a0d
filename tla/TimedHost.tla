----------------------------- MODULE TimedHost -----------------------------
(***************************************************************************)
(* An EmbeddedHost that steps a composite duty in real time: the owner of  *)
(* a timer queue and the owner of an event batch, whose turns are merged   *)
(* into one (host/embedded.rs, turn.rs; tests/host.rs composes duties this *)
(* way and examples/owner_local.rs keeps these two side by side).          *)
(*                                                                         *)
(* The clock moves whenever it likes: between the moment a step starts and *)
(* the moment it completes, and while the host waits.  `now` of TimerQueue *)
(* is the last moment the host observed.                                   *)
(***************************************************************************)
EXTENDS TimerQueue, Turn

CONSTANTS
  Horizon,       \* bound: the last moment the clock reaches
  WorkCounts,    \* the work that the owners report of a turn
  BatchLimits,   \* EventBatchLimits
  EventSizes     \* the measurements of the events that are pushed

ASSUME HostAssumption ==
  /\ Horizon \in Moments
  /\ \A d \in Deadlines : d <= Horizon
  /\ WorkCounts \subseteq 0..U64
  /\ BatchLimits.events \in Nat \ {0} /\ BatchLimits.retained_bytes \in 0..U64
  /\ EventSizes \subseteq 0..U64

VARIABLES
  clock,       \* external: the time
  hostPhase,   \* HostSnapshot.phase
  at,          \* where step() is: idle, turn, drained, observe; waiting and done are its caller
  turn,        \* Turn: what the duty returned from the turn that just ended
  wakeAt,      \* the end of the wait the host was told, 0 when there is none
  reported,    \* history: the Next of each owner in the turn that just ended
  ready        \* EventBatch

hostVars == <<clock, hostPhase, at, turn, wakeAt, reported>>
vars == <<timerVars, hostVars, ready>>

Batch == INSTANCE EventBatch WITH Limits <- BatchLimits

Idle == [work |-> 0, next |-> Stop]

HostInit ==
  /\ TimerInit
  /\ clock = 0
  /\ hostPhase = "running"
  /\ at = "idle"
  /\ turn = Idle
  /\ wakeAt = 0
  /\ reported = {}
  /\ ready = Batch!EmptyBatch

---------------------------------------------------------------------------
(* EmbeddedHost::observe_now                                               *)

Observed(moment) ==
  /\ moment >= now
  /\ now' = moment
  /\ report' = [op |-> "none"]
  /\ UNCHANGED <<timers, next_id, retained, timerHistory, ready, clock>>

\* The user's clock fails, or answers a moment before the last one.
ObserveFails ==
  /\ hostPhase' = "failed"
  /\ at' = "done"
  /\ UNCHANGED <<timerVars, ready, clock, turn, wakeAt, reported>>

---------------------------------------------------------------------------
(* The duty: its owners do as they like during the turn, fire what is due, *)
(* and report.                                                             *)

InTurn == at \in {"turn", "drained"}

TimerWork ==
  /\ InTurn
  /\ \/ \E d \in Deadlines, size \in Sizes : Schedule(d, size)
     \/ \E token \in Presentable : Cancel(token)
  /\ UNCHANGED <<hostVars, ready>>

ReadyWork ==
  /\ InTurn
  /\ \/ \E size \in EventSizes : ready' = Batch!TryPush(ready, size, size)
     \/ ready.events # <<>> /\ ready' = Batch!Popped(ready)
     \/ ready' = Batch!Cleared(ready)
     \/ \E leaked \in BOOLEAN : ready' = Batch!Drained(ready, leaked)
  /\ UNCHANGED <<hostVars, timerVars>>

FireDue(budget) ==
  /\ at = "turn"
  /\ Drain(budget)
  /\ at' = "drained"
  /\ UNCHANGED <<clock, hostPhase, turn, wakeAt, reported, ready>>

\* An owner with nothing to do waits to be woken, or has stopped.
Resting == {Wake, Stop}

\* TimerQueue::next_deadline becomes WakeOr.
TimersNexts ==
  IF timers = {} THEN Resting
  ELSE {WakeOr(t.token.deadline) :
          t \in {x \in timers : \A y \in timers : x.token.deadline <= y.token.deadline}}

\* Events that stay in the batch are handled now or flushed by a deadline.
ReadyNexts ==
  IF ready.events = <<>> THEN Resting ELSE {Now} \cup {WakeOr(d) : d \in Deadlines}

\* How much work an owner reports is its own affair.
Reports(nexts) == [work : WorkCounts, next : nexts]

\* Duty::turn returns the merged turn of its owners.
EndTurn(timersTurn, readyTurn) ==
  /\ at = "drained"
  /\ at' = "observe"
  /\ turn' = MergeTurn(timersTurn, readyTurn)
  /\ reported' = {timersTurn.next, readyTurn.next}
  /\ UNCHANGED <<timerVars, clock, hostPhase, wakeAt, ready>>

FailTurn ==
  /\ InTurn
  /\ hostPhase' = "failed"
  /\ at' = "done"
  /\ UNCHANGED <<timerVars, clock, turn, wakeAt, reported, ready>>

---------------------------------------------------------------------------
(* EmbeddedHost::step and the caller that waits as it was told             *)

BeginStep ==
  /\ at = "idle"
  /\ \/ Observed(clock) /\ at' = "turn" /\ UNCHANGED <<hostPhase, turn, wakeAt, reported>>
     \/ ObserveFails

\* HostAction::for_turn at the moment the turn completed, then record and stop.
EndStep ==
  /\ at = "observe"
  /\ \/ /\ Observed(clock)
        /\ LET action == ForNext(turn.next, clock)
           IN /\ at' = CASE action.kind = "continue" -> "idle"
                         [] action.kind = "wait" -> "waiting"
                         [] action.kind = "stop" -> "done"
              /\ wakeAt' = IF action.kind = "wait" THEN clock + action.span ELSE 0
              /\ hostPhase' = IF action.kind = "stop" THEN "stopped" ELSE hostPhase
              /\ reported' = IF action.kind = "continue" THEN {} ELSE reported
        /\ turn' = Idle
     \/ ObserveFails

EndWait ==
  /\ at = "waiting"
  /\ at' = "idle"
  /\ wakeAt' = 0
  /\ reported' = {}
  /\ UNCHANGED <<timerVars, clock, hostPhase, turn, ready>>

Resume == clock >= wakeAt /\ EndWait
Notified == clock < wakeAt /\ EndWait

Tick ==
  /\ clock < Horizon
  /\ clock' = clock + 1
  /\ UNCHANGED <<timerVars, hostPhase, at, turn, wakeAt, reported, ready>>

---------------------------------------------------------------------------

HostStep ==
  \/ BeginStep \/ EndStep
  \/ \E budget \in 1..MaxTimers : FireDue(budget)
  \/ \E timersTurn \in Reports(TimersNexts), readyTurn \in Reports(ReadyNexts) :
       EndTurn(timersTurn, readyTurn)

HostNext == HostStep \/ TimerWork \/ ReadyWork \/ FailTurn \/ Resume \/ Notified \/ Tick

HostSpec == HostInit /\ [][HostNext]_vars

---------------------------------------------------------------------------
(* Properties                                                              *)

HostTypeOK ==
  /\ clock \in 0..Horizon
  /\ now \in 0..clock
  /\ hostPhase \in {"running", "stopped", "failed"}
  /\ at \in {"idle", "turn", "drained", "observe", "waiting", "done"}
  /\ turn \in Turns
  /\ wakeAt \in Nat
  /\ reported \subseteq Nexts

\* A host never sleeps on work: when it waits, the wait is positive, ends by the
\* ceiling, by every deadline an owner reported and by every pending timer's,
\* whatever passed between the start of the turn and its completion.
NeverOversleeps ==
  at = "waiting" =>
    /\ wakeAt > now /\ wakeAt <= now + WaitCeiling
    /\ \A t \in timers : wakeAt <= t.token.deadline
    /\ \A n \in reported : n.kind # "now" /\ (n.kind = "wake_or" => wakeAt <= n.deadline)

\* The aggregate stops only when every owner has: no timer and no event is left.
StopIsUnanimous ==
  hostPhase = "stopped" => reported = {Stop} /\ timers = {} /\ ready.events = <<>>

\* Every decision of the host is right for all of its owners.
HostSafe == HostTypeOK /\ NeverOversleeps /\ StopIsUnanimous

\* The batch's account is exact and within both limits after any sequence of
\* pushes, refusals, pops, clears and drains, leaked ones included.
BatchSafe == Batch!BatchAccounts(ready)

\* What BatchSafe rests on: every entry was measured on admission.
BatchInv ==
  /\ ready \in [events : Seq([event : EventSizes, retained : EventSizes]), retained : Nat]
  /\ BatchSafe

===========================================================================
