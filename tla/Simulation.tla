---------------------------- MODULE Simulation ----------------------------
(***************************************************************************)
(* The deterministic simulation kernel (crates/calandria-sim/src/          *)
(* simulation and model/context): step() builds the ready set, asks a      *)
(* scheduler, runs one callback of the model inside a transaction over the *)
(* timeline, commits or rolls back, and tells scheduler and monitor.       *)
(*                                                                         *)
(* The model, the scheduler and the monitor are consumer code: each may    *)
(* answer, fail or panic, and the callback may send and cancel at will.    *)
(* The callback's effects are steps of their own; whatever step() does     *)
(* before the callback, and after it, is one action.                       *)
(***************************************************************************)
EXTENDS Timeline

CONSTANTS
  Duties,          \* the topology
  WakeTimes,       \* the deadlines that callbacks ask for
  MaxVirtualTime,  \* SimulationLimits.max_virtual_time
  TotalActions,    \* SimulationLimits.total_actions
  ActionsPerMoment,\* SimulationLimits.actions_per_moment
  MaxEffects,      \* SimulationLimits.effects_per_action
  MaxEffectBytes,  \* SimulationLimits.effect_bytes_per_action
  MaxObservations, \* SimulationLimits.observations_per_action
  MaxObservationBytes \* SimulationLimits.observation_bytes_per_action

\* Rust's Option: the empty set, or one value alone.
Option(S) == {{}} \cup {{x} : x \in S}

\* What the timeline carries: the duty an event goes to and the action that sent it.
Routed == [target : Duties, cause : Option(0..U64)]

ASSUME SimulationAssumption ==
  /\ Duties # {} /\ WakeTimes \subseteq Moments
  /\ TotalActions \in 1..U64 /\ ActionsPerMoment \in Nat \ {0}
  /\ MaxEffects \in Nat \ {0} /\ MaxEffectBytes \in 0..U64 /\ MaxVirtualTime \in Nat
  /\ MaxObservations \in Nat \ {0} /\ MaxObservationBytes \in 0..U64
  /\ Payloads = Routed

VARIABLES
  interest,    \* DutyState.next, per duty
  stopped,     \* BTreeSet<DutyId>
  phase,       \* SimulationPhase
  poisoned,    \* Cell<bool>, TRUE also while consumer code runs
  next_action, \* Option<u64>
  actions,
  actions_at_moment,
  running,     \* the action inside its callback, if any
  effects, effect_bytes, inserted, removed,   \* ActionContext
  observations, observation_bytes,            \* ActionContext: what it observed, counted
  failure,     \* history: why the simulation failed
  before,      \* history: the events pending when the callback began
  committed    \* history: the identities of the actions that committed

effectVars == <<effects, effect_bytes, inserted, removed>>
observationVars == <<observations, observation_bytes>>
contextVars == <<effectVars, observationVars>>
kernelVars == <<interest, stopped, next_action, actions, actions_at_moment>>
lifeVars == <<phase, poisoned, failure>>
simVars == <<timelineVars, kernelVars, contextVars, lifeVars, running, before, committed>>

Phases == {"active", "completed", "failed"}

\* Next: what a duty asked for when its last action committed.
Interests == {<<"now">>, <<"wake">>, <<"stop">>} \cup {<<"wake_or", d>> : d \in WakeTimes}

\* ActionKey: a turn of a duty, or the delivery of an event to it.
TurnKey(d) == [duty |-> d, event |-> {}]
DeliveryKey(e) == [duty |-> e.payload.target, event |-> {e}]

\* with_parts() refuses to start behind the ceiling.
SimulationInit ==
  /\ TimelineInit
  /\ now <= MaxVirtualTime
  /\ interest = [d \in Duties |-> <<"now">>]
  /\ stopped = {}
  /\ phase = "active"
  /\ poisoned = FALSE
  /\ next_action = {0}
  /\ actions = 0
  /\ actions_at_moment = 0
  /\ running = {}
  /\ effects = 0 /\ effect_bytes = 0 /\ inserted = {} /\ removed = {}
  /\ observations = 0 /\ observation_bytes = 0
  /\ failure = "none"
  /\ before = {}
  /\ committed = {}

---------------------------------------------------------------------------
(* Plausible mistakes in this code, substituted one at a time for the      *)
(* definition they are named after to show that the properties notice.     *)

\* The next moment is the next event's; deadlines are forgotten.
UpcomingEvents == {e.at : e \in events}

\* What would have to move beyond the ceiling is ignored, not a failure.
AdvanceTimeQuietly ==
  /\ running = {} /\ ~poisoned /\ phase = "active"
  /\ \A e \in events : e.at # now
  /\ \A d \in Duties : interest[d] # <<"now">>
  /\ stopped # Duties
  /\ LET upcoming == {e.at : e \in events} \cup
                       {interest[d][2] : d \in {x \in Duties : interest[x][1] = "wake_or"}}
     IN \E next \in upcoming :
          /\ \A t \in upcoming : next <= t
          /\ next > now /\ next <= MaxVirtualTime
          /\ ClockTo(next)
  /\ actions_at_moment' = 0
  /\ UNCHANGED <<events, next_id, retained, lifeVars, interest, stopped, next_action, actions,
                 contextVars, running, before, committed>>

\* Cancelled events stay cancelled.
RollbackForgetsCancelled ==
  /\ events' = events \ inserted
  /\ retained' = retained - BytesOf(inserted)
  /\ UNCHANGED <<now, next_id, timelinePanic>>

\* A duty may stop whatever is on its way to it.
StrandsEventsNever(action, next) == FALSE

---------------------------------------------------------------------------
(* The ready set                                                           *)

Runnable(d) == interest[d] = <<"now">> \/ (interest[d][1] = "wake_or" /\ interest[d][2] <= now)
DueEvents == {e \in events : e.at = now}
Ready == {DeliveryKey(e) : e \in DueEvents} \cup {TurnKey(d) : d \in {x \in Duties : Runnable(x)}}
Deadlines == {interest[d][2] : d \in {x \in Duties : interest[x][1] = "wake_or"}}
Upcoming == {e.at : e \in events} \cup Deadlines

\* build_ready() refuses an event of a duty that is unknown or stopped.
Misrouted == \E e \in DueEvents : e.payload.target \notin Duties \ stopped

LimitReached == actions >= TotalActions \/ actions_at_moment >= ActionsPerMoment

---------------------------------------------------------------------------
(* step() without a callback                                               *)

\* step() and injection take &mut self and refuse a poisoned or ended simulation.
Usable == running = {} /\ ~poisoned /\ phase = "active"

Fail(why) ==
  /\ phase' = "failed"
  /\ failure' = why

Poison ==
  /\ poisoned' = TRUE
  /\ UNCHANGED <<phase, failure>>

\* Why a step with ready actions fails: the scheduler's answer, or no identity left.
ChoiceFailures == {"scheduler"} \cup (IF next_action = {} THEN {"kernel"} ELSE {})

\* A step that ends before the model is called.  The scheduler may fail, select
\* what is not ready, or panic.
StepFails ==
  /\ Usable
  /\ \/ Misrouted /\ Fail("kernel") /\ UNCHANGED poisoned
     \/ /\ ~Misrouted /\ Ready # {}
        /\ \/ LimitReached /\ Fail("limit") /\ UNCHANGED poisoned
           \/ ~LimitReached /\ (\E why \in ChoiceFailures : Fail(why)) /\ UNCHANGED poisoned
           \/ ~LimitReached /\ Poison
  /\ UNCHANGED <<timelineVars, kernelVars, contextVars, running, before, committed>>

\* Everybody stopped: what is left in the timeline is a kernel failure; otherwise
\* the scheduler's finished() answers, fails or panics.
Finish ==
  /\ Usable /\ Ready = {} /\ ~Misrouted
  /\ stopped = Duties
  /\ IF events # {}
     THEN Fail("kernel") /\ UNCHANGED poisoned
     ELSE \/ phase' = "completed" /\ UNCHANGED <<failure, poisoned>>
          \/ Fail("scheduler") /\ UNCHANGED poisoned
          \/ Poison
  /\ UNCHANGED <<timelineVars, kernelVars, contextVars, running, before, committed>>

\* Nothing is ready now: virtual time moves to the next event or deadline.  With
\* neither the simulation is quiescent, and step() changes nothing.
AdvanceTime ==
  /\ Usable /\ Ready = {} /\ ~Misrouted
  /\ stopped # Duties
  /\ Upcoming # {}
  /\ LET next == Min(Upcoming)
     IN \/ /\ next > now /\ next <= MaxVirtualTime
           /\ ClockTo(next)
           /\ actions_at_moment' = 0
           /\ UNCHANGED lifeVars
        \/ /\ next <= now \/ next > MaxVirtualTime
           /\ Fail(IF next <= now THEN "kernel" ELSE "limit")
           /\ UNCHANGED <<poisoned, now, timelinePanic, actions_at_moment>>
  /\ UNCHANGED <<events, next_id, retained, interest, stopped, next_action, actions,
                 contextVars, running, before, committed>>

Quiescent == Usable /\ Ready = {} /\ stopped # Duties /\ Upcoming = {}

---------------------------------------------------------------------------
(* The callback and its transaction                                        *)

Count(id) ==
  /\ next_action' = NextRaw(id)
  /\ actions' = actions + 1
  /\ actions_at_moment' = actions_at_moment + 1

EmptyContext ==
  /\ effects' = 0 /\ effect_bytes' = 0 /\ inserted' = {} /\ removed' = {}
  /\ observations' = 0 /\ observation_bytes' = 0

\* The scheduler selects a ready action; a delivery takes its event out of the
\* timeline; an empty context is opened and the model is called.
Begin(key) ==
  /\ Usable /\ ~Misrouted /\ ~LimitReached
  /\ \E id \in next_action :
       /\ Count(id)
       /\ running' = {[key |-> key, id |-> id]}
  /\ \/ key.event = {} /\ UNCHANGED timelineVars
     \/ \E e \in key.event : CancelEvent(e)
  /\ EmptyContext
  /\ poisoned' = TRUE
  /\ before' = events'
  /\ UNCHANGED <<interest, stopped, phase, failure, committed>>

\* ActionContext::send, send_after and send_at, when they are not refused.
Send(action, target, at, size) ==
  /\ effects < MaxEffects
  /\ target \in Duties \ stopped
  /\ at <= MaxVirtualTime
  /\ effect_bytes + size <= MaxEffectBytes
  /\ ScheduleAt(at, size, [target |-> target, cause |-> {action.id}])
  /\ effects' = effects + 1
  /\ effect_bytes' = effect_bytes + size
  /\ inserted' = inserted \cup (events' \ events)
  /\ UNCHANGED <<kernelVars, lifeVars, removed, observationVars, running, before, committed>>

\* ActionContext::cancel: an event of this action disappears with its account,
\* an older one is kept for the rollback and charged.
CancelPending(e) ==
  /\ effects < MaxEffects
  /\ IF e \in inserted
     THEN /\ inserted' = inserted \ {e}
          /\ effect_bytes' = effect_bytes - e.retained
          /\ UNCHANGED removed
     ELSE /\ effect_bytes + e.retained <= MaxEffectBytes
          /\ removed' = removed \cup {e}
          /\ effect_bytes' = effect_bytes + e.retained
          /\ UNCHANGED inserted
  /\ CancelEvent(e)
  /\ effects' = effects + 1
  /\ UNCHANGED <<kernelVars, lifeVars, observationVars, running, before, committed>>

\* ActionContext::observe, when it is not refused.
Observe(size) ==
  /\ observations < MaxObservations
  /\ observation_bytes + size <= MaxObservationBytes
  /\ observations' = observations + 1
  /\ observation_bytes' = observation_bytes + size
  /\ UNCHANGED <<timelineVars, kernelVars, lifeVars, effectVars, running, before, committed>>

\* Timeline::restore's assertions, with every event restored.
RestorePanics(kept, back) ==
  \/ \E e \in back : e.at < now
  \/ Cardinality(kept \cup back) > MaxEvents
  \/ BytesOf(kept \cup back) > MaxBytes
  \/ \E e \in kept, f \in back : e.at = f.at /\ e.id = f.id

\* Drop of an uncommitted context: insertions out, then removals back.
Rollback ==
  LET kept == events \ inserted
  IN /\ timelinePanic' = (timelinePanic \/ ~(inserted \subseteq events) \/ RestorePanics(kept, removed))
     /\ events' = kept \cup removed
     /\ retained' = retained - BytesOf(inserted) + BytesOf(removed)
     /\ UNCHANGED <<now, next_id>>

CloseContext ==
  /\ EmptyContext
  /\ running' = {}
  /\ before' = {}

\* The callback answers Err, or unwinds and leaves the simulation poisoned.
CallbackEnds ==
  /\ Rollback
  /\ CloseContext
  /\ \/ Fail("model") /\ poisoned' = FALSE
     \/ UNCHANGED lifeVars
  /\ UNCHANGED <<kernelVars, committed>>

\* commit_context refuses to stop a duty that deliveries still target.
StrandsEvents(action, next) ==
  next = <<"stop">> /\ \E e \in events : e.payload.target = action.key.duty

StopRefused(action, next) ==
  /\ StrandsEvents(action, next)
  /\ Rollback
  /\ CloseContext
  /\ Fail("stopped_with_pending") /\ poisoned' = FALSE
  /\ UNCHANGED <<kernelVars, committed>>

\* The effects stay, the duty's interest is replaced, then scheduler.committed()
\* and monitor.after_action() answer, fail or panic: too late to undo anything.
Commit(action, next) ==
  /\ ~StrandsEvents(action, next)
  /\ UNCHANGED timelineVars
  /\ CloseContext
  /\ interest' = [interest EXCEPT ![action.key.duty] = next]
  /\ stopped' = IF next = <<"stop">> THEN stopped \cup {action.key.duty} ELSE stopped
  /\ committed' = committed \cup {action.id}
  /\ \/ poisoned' = FALSE /\ UNCHANGED <<phase, failure>>
     \/ poisoned' = FALSE /\ Fail("consumer")
     \/ UNCHANGED lifeVars
  /\ UNCHANGED <<next_action, actions, actions_at_moment>>

Return(action) ==
  \/ CallbackEnds
  \/ \E next \in Interests : StopRefused(action, next) \/ Commit(action, next)

---------------------------------------------------------------------------

\* Simulation::inject, inject_after and inject_at, when they are not refused.
Inject(target, at, size) ==
  /\ Usable
  /\ target \in Duties \ stopped
  /\ at <= MaxVirtualTime
  /\ ScheduleAt(at, size, [target |-> target, cause |-> {}])
  /\ UNCHANGED <<kernelVars, contextVars, lifeVars, running, before, committed>>

StepWithoutCallback == StepFails \/ Finish \/ AdvanceTime
BeginSome == \E key \in Ready : Begin(key)

\* What all steps of Return, and no others, have in common.
CallbackReturns == running # {} /\ running' = {}

SimulationNext ==
  \/ StepFails \/ Finish \/ AdvanceTime
  \/ BeginSome
  \/ \E action \in running :
       \/ \E d \in Duties, at \in Moments, size \in Sizes : Send(action, d, at, size)
       \/ \E e \in events : CancelPending(e)
       \/ \E size \in Sizes : Observe(size)
       \/ Return(action)
  \/ \E d \in Duties, at \in Moments, size \in Sizes : Inject(d, at, size)

SimulationSpec == SimulationInit /\ [][SimulationNext]_simVars

\* run_to_quiescence() calls step() again after an action or a time advance, and
\* every callback returns.  Nobody has to inject.
FairSimulationSpec ==
  /\ SimulationSpec
  /\ WF_simVars(StepWithoutCallback \/ BeginSome)
  /\ WF_running(CallbackReturns)

---------------------------------------------------------------------------
(* Properties                                                              *)

SimulationTypeOK ==
  /\ TimelineTypeOK
  /\ interest \in [Duties -> Interests]
  /\ stopped \subseteq Duties
  /\ phase \in Phases
  /\ poisoned \in BOOLEAN
  /\ next_action \in Option(0..U64)
  /\ actions \in 0..TotalActions
  /\ actions_at_moment \in 0..ActionsPerMoment
  /\ \A a \in running : a.id \in 0..U64 /\ a.key.duty \in Duties /\ a.key.event \subseteq Event
  /\ effects \in 0..MaxEffects
  /\ effect_bytes \in 0..MaxEffectBytes
  /\ observations \in 0..MaxObservations /\ observation_bytes \in 0..MaxObservationBytes
  /\ inserted \subseteq Event /\ removed \subseteq Event /\ before \subseteq Event
  /\ committed \subseteq 0..U64

\* The failures and assertions the kernel keeps against its own mistakes never
\* happen, whatever the consumers do: no event is misrouted or stranded, time never
\* stands still or goes back, identities outlast the action limit, and a rollback
\* always fits.
NoKernelFault == failure # "kernel" /\ ~timelinePanic

\* Outside a callback every pending event was injected or sent by an action that
\* committed: effects of an action that failed or panicked are never delivered.
OnlyCommittedCauses == running = {} => \A e \in events : e.payload.cause \subseteq committed

\* A stopped duty is never the target of a pending event and never acts again; the
\* simulation completes only with every duty stopped and nothing pending.
StoppedIsFinal ==
  /\ \A e \in events : e.payload.target \notin stopped
  /\ \A a \in running : a.key.duty \notin stopped
  /\ phase = "completed" => stopped = Duties /\ events = {}

\* Whatever the callbacks, the scheduler and the monitor do, the kernel keeps its
\* books, its limits and its own assertions, and delivers only committed effects.
SimulationSafe ==
  /\ SimulationTypeOK /\ NoKernelFault
  /\ NothingInThePast /\ TimelineAccounts /\ StoppedIsFinal /\ OnlyCommittedCauses

\* A callback that fails, panics or stops in vain leaves the timeline exactly as it
\* found it, whatever it had sent and cancelled.
RollbackIsExact ==
  [][running # {} /\ running' = {} /\ committed' = committed =>
       events' = before /\ retained' = BytesOf(before)]_simVars

\* Virtual time never jumps over an event, over a deadline or over a ready turn.
NoTimeSkipped ==
  [][now' # now =>
       /\ now' > now
       /\ \A e \in events : e.at >= now'
       /\ \A d \in Duties : interest[d][1] = "wake_or" => interest[d][2] >= now'
       /\ \A d \in Duties : interest[d] # <<"now">>]_simVars

\* Every run loop ends: the limits stop even a model that never waits.
RunTerminates == []<>(phase # "active" \/ (poisoned /\ running = {}) \/ Quiescent)

---------------------------------------------------------------------------
(* What SimulationSafe and RollbackIsExact rest on                         *)

\* Actions are numbered as they begin; one at most is running, alone in a simulation
\* that counts as poisoned meanwhile, and it has not committed yet.
OneAction ==
  /\ next_action = {actions}
  /\ \A a, b \in running : a = b
  /\ \A a \in running : a.id < actions /\ a.id \notin committed
  /\ \A id \in committed : id < actions
  /\ running # {} => poisoned /\ phase = "active"

\* A context accounts for all the difference between what the callback found and
\* what is pending now; what it found was within the limits.
Transaction ==
  /\ IsFiniteSet(events) /\ IsFiniteSet(removed)
  /\ inserted \subseteq events /\ removed \cap events = {}
  /\ running = {} => inserted = {} /\ removed = {}
  /\ running # {} =>
       /\ before = (events \ inserted) \cup removed
       /\ Cardinality(before) <= MaxEvents /\ BytesOf(before) <= MaxBytes
       /\ effect_bytes = BytesOf(inserted) + BytesOf(removed)

\* What was cancelled can still be put back: it is not in the past, nobody stopped
\* it, and its identity was not given to another.
CancelledCanReturn ==
  /\ \A e \in removed : e.at >= now /\ e.payload.target \notin stopped
  /\ \A e, f \in events \cup removed : e.id = f.id => e = f
  /\ \A e \in events \cup removed, id \in next_id : e.id < id

\* Only the running action's own events have a cause that has not committed.
CausesKnown ==
  /\ \A e \in (events \ inserted) \cup removed : e.payload.cause \subseteq committed
  /\ \A e \in inserted, a \in running : e.payload.cause = {a.id}

\* A duty has stopped when its last answer said so.
StopsAgree == \A d \in Duties : interest[d] = <<"stop">> <=> d \in stopped

SimulationInv ==
  /\ SimulationSafe
  /\ OneAction /\ Transaction /\ CancelledCanReturn /\ CausesKnown /\ StopsAgree

===========================================================================
