------------------------- MODULE SimulationProofs -------------------------
(***************************************************************************)
(* The simulation kernel, for every topology and limit: SimulationInv is   *)
(* inductive, a rollback restores what a callback changed, and virtual     *)
(* time skips nothing that is pending.                                     *)
(***************************************************************************)
EXTENDS Simulation, TimelineProofs

LEMMA Limits ==
  /\ U64 \in Nat /\ MaxEvents \in Nat /\ MaxEvents >= 1 /\ MaxBytes \in 0..U64
  /\ Moments \subseteq Nat /\ Sizes \subseteq 0..U64 /\ WakeTimes \subseteq Moments
  /\ TotalActions \in 1..U64 /\ ActionsPerMoment \in Nat /\ ActionsPerMoment >= 1
  /\ MaxEffects \in Nat /\ MaxEffectBytes \in 0..U64 /\ MaxVirtualTime \in Nat
  /\ MaxObservations \in Nat /\ MaxObservationBytes \in 0..U64
  /\ Payloads = Routed
  BY TimelineLimits, SimulationAssumption

---------------------------------------------------------------------------
(* The kernel: initially, and a step that ends before the model is called  *)

LEMMA InvUnfolds ==
  ASSUME SimulationInv
  PROVE  /\ TimelineSafe /\ SimulationTypeOK /\ NoKernelFault /\ StoppedIsFinal
         /\ OnlyCommittedCauses /\ OneAction /\ Transaction /\ CancelledCanReturn
         /\ CausesKnown /\ StopsAgree
  BY DEF SimulationInv, SimulationSafe, SimulationTypeOK, TimelineSafe, Transaction

\* An empty simulation at some moment is well.
LEMMA SimulationStarts ==
  ASSUME SimulationInit
  PROVE  SimulationInv
<1>1. IsFiniteSet({}) /\ Cardinality({}) = 0 /\ BytesOf({}) = 0 /\ Cardinality({0}) = 1
  BY FS_EmptySet, FS_Singleton, BytesEmpty
<1>2. TimelineTypeOK /\ NothingInThePast /\ TimelineAccounts
  <2>1. TimelineTypeOK
    <3>1. 0 \in 0..U64 /\ Cardinality({0}) <= 1
      BY <1>1, Limits
    <3>2. next_id \subseteq 0..U64 /\ Cardinality(next_id) <= 1
      BY <3>1 DEF SimulationInit, TimelineInit
    <3>3. QED
      BY <3>1, <3>2 DEF SimulationInit, TimelineInit, TimelineTypeOK
  <2>2. NothingInThePast
    BY DEF SimulationInit, TimelineInit, NothingInThePast
  <2>3. TimelineAccounts
    BY <1>1, Limits DEF SimulationInit, TimelineInit, TimelineAccounts
  <2>4. QED BY <2>1, <2>2, <2>3
<1>3. SimulationTypeOK
  <2>1. interest \in [Duties -> Interests]
    BY DEF SimulationInit, Interests
  <2>2. next_action \in Option(0..U64)
    BY Limits DEF SimulationInit, Option
  <2>3. phase \in Phases /\ poisoned \in BOOLEAN
    BY DEF SimulationInit, Phases
  <2>4. /\ 0 \in 0..TotalActions /\ 0 \in 0..ActionsPerMoment /\ 0 \in 0..MaxEffects
        /\ 0 \in 0..MaxEffectBytes /\ 0 \in 0..MaxObservations
        /\ 0 \in 0..MaxObservationBytes
    BY Limits
  <2>5. QED
    BY <1>2, <2>1, <2>2, <2>3, <2>4 DEF SimulationInit, SimulationTypeOK
<1>4. NoKernelFault /\ StoppedIsFinal /\ OnlyCommittedCauses
  BY DEF SimulationInit, TimelineInit, NoKernelFault, StoppedIsFinal, OnlyCommittedCauses
<1>5. OneAction /\ CancelledCanReturn /\ CausesKnown
  BY DEF SimulationInit, TimelineInit, OneAction, CancelledCanReturn, CausesKnown
<1>6. Transaction
  BY <1>1 DEF SimulationInit, TimelineInit, Transaction
<1>7. StopsAgree
  BY DEF SimulationInit, StopsAgree
<1>8. QED
  BY <1>2, <1>3, <1>4, <1>5, <1>6, <1>7 DEF SimulationInv, SimulationSafe

\* What a step settles without the model concerns phase and poison only.
LEMMA Settled ==
  ASSUME SimulationInv, running = {},
         UNCHANGED timelineVars, UNCHANGED kernelVars, UNCHANGED contextVars,
         UNCHANGED <<running, before, committed>>,
         phase' \in Phases, poisoned' \in BOOLEAN, failure' # "kernel",
         phase' = "completed" => stopped = Duties /\ events = {}
  PROVE  SimulationInv'
<1> USE InvUnfolds
<1>1. /\ UNCHANGED <<now, events, next_id, retained, timelinePanic>>
      /\ UNCHANGED <<interest, stopped, next_action, actions, actions_at_moment>>
      /\ UNCHANGED <<running, before, committed>>
  BY DEF timelineVars, kernelVars
<1>2. /\ UNCHANGED <<effects, effect_bytes, inserted, removed>>
      /\ UNCHANGED <<observations, observation_bytes>>
  BY DEF contextVars, effectVars, observationVars
<1>3. TimelineTypeOK' /\ NothingInThePast' /\ TimelineAccounts'
  BY <1>1 DEF TimelineSafe, TimelineTypeOK, NothingInThePast, TimelineAccounts
<1>4. SimulationTypeOK'
  <2>1. /\ interest' \in [Duties -> Interests] /\ stopped' \subseteq Duties
        /\ next_action' \in Option(0..U64) /\ actions' \in 0..TotalActions
        /\ actions_at_moment' \in 0..ActionsPerMoment
        /\ before' \subseteq Event /\ committed' \subseteq 0..U64
    BY <1>1 DEF SimulationTypeOK
  <2>2. /\ effects' \in 0..MaxEffects /\ effect_bytes' \in 0..MaxEffectBytes
        /\ observations' \in 0..MaxObservations
        /\ observation_bytes' \in 0..MaxObservationBytes
        /\ inserted' \subseteq Event /\ removed' \subseteq Event
    BY <1>2 DEF SimulationTypeOK
  <2>3. QED
    BY <1>1, <1>3, <2>1, <2>2 DEF SimulationTypeOK
<1>5. NoKernelFault' /\ StoppedIsFinal' /\ OnlyCommittedCauses'
  BY <1>1 DEF NoKernelFault, StoppedIsFinal, OnlyCommittedCauses
<1>6. OneAction' /\ CancelledCanReturn' /\ CausesKnown' /\ StopsAgree'
  BY <1>1, <1>2 DEF OneAction, CancelledCanReturn, CausesKnown, StopsAgree
<1>7. Transaction'
  BY <1>1, <1>2 DEF Transaction
<1>8. QED
  BY <1>3, <1>4, <1>5, <1>6, <1>7 DEF SimulationInv, SimulationSafe

\* No event is misrouted, none is due with nothing ready, and no identity is missing.
LEMMA WellRouted ==
  ASSUME SimulationInv
  PROVE  /\ ~Misrouted /\ next_action # {}
         /\ \A e \in events : e.payload.target \in Duties \ stopped
         /\ Ready = {} => /\ \A e \in events : e.at > now
                          /\ \A t \in Deadlines : t > now
                          /\ \A d \in Duties : interest[d] # <<"now">>
<1> USE InvUnfolds
<1>1. events \subseteq Event /\ \A e \in events : e.payload.target \notin stopped
  BY DEF TimelineSafe, TimelineTypeOK, StoppedIsFinal
<1>2. \A e \in events : e.payload.target \in Duties \ stopped
  BY <1>1, Limits DEF Event, Routed
<1>3. ~Misrouted
  BY <1>2 DEF Misrouted, DueEvents
<1>4. next_action # {}
  BY DEF OneAction
<1>5. ASSUME Ready = {}, NEW e \in events PROVE e.at > now
  <2>1. e.at # now
    BY <1>5 DEF Ready, DueEvents
  <2>2. e.at \in Nat /\ now \in Nat /\ e.at >= now
    BY <1>1, Limits DEF Event, TimelineSafe, TimelineTypeOK, NothingInThePast
  <2>3. QED BY <2>1, <2>2
<1>6. ASSUME Ready = {}, NEW d \in Duties
      PROVE  interest[d] # <<"now">> /\ (interest[d][1] = "wake_or" => interest[d][2] > now)
  <2>1. ~Runnable(d)
    BY <1>6 DEF Ready
  <2>2. interest[d] \in Interests /\ now \in Nat
    BY Limits DEF SimulationTypeOK, TimelineSafe, TimelineTypeOK
  <2>3. interest[d][1] = "wake_or" => interest[d][2] \in Nat
    BY <2>2, Limits DEF Interests
  <2>4. QED
    BY <2>1, <2>2, <2>3 DEF Runnable
<1>7. Ready = {} => \A t \in Deadlines : t > now
  BY <1>6 DEF Deadlines
<1>8. QED
  BY <1>2, <1>3, <1>4, <1>5, <1>6, <1>7

LEMMA StepFailsKeeps ==
  ASSUME SimulationInv, StepFails
  PROVE  SimulationInv'
<1> USE InvUnfolds, WellRouted
<1>1. /\ running = {} /\ phase = "active"
      /\ UNCHANGED timelineVars /\ UNCHANGED kernelVars /\ UNCHANGED contextVars
      /\ UNCHANGED <<running, before, committed>>
  BY DEF StepFails, Usable
<1>2. phase \in Phases /\ poisoned \in BOOLEAN /\ failure # "kernel"
  BY DEF SimulationTypeOK, NoKernelFault
<1>3. \/ \E why \in {"limit", "scheduler"} : Fail(why) /\ UNCHANGED poisoned
      \/ Poison
  BY DEF StepFails, ChoiceFailures
<1>4. /\ phase' \in Phases /\ poisoned' \in BOOLEAN /\ failure' # "kernel"
      /\ phase' # "completed"
  BY <1>1, <1>2, <1>3 DEF Fail, Poison, Phases
<1>5. QED
  BY <1>1, <1>4, Settled

LEMMA FinishKeeps ==
  ASSUME SimulationInv, Finish
  PROVE  SimulationInv'
<1> USE InvUnfolds
<1>1. /\ running = {} /\ phase = "active" /\ stopped = Duties
      /\ UNCHANGED timelineVars /\ UNCHANGED kernelVars /\ UNCHANGED contextVars
      /\ UNCHANGED <<running, before, committed>>
  BY DEF Finish, Usable
<1>2. events = {}
  BY <1>1, WellRouted
<1>3. phase \in Phases /\ poisoned \in BOOLEAN /\ failure # "kernel"
  BY DEF SimulationTypeOK, NoKernelFault
<1>4. \/ phase' = "completed" /\ UNCHANGED <<failure, poisoned>>
      \/ Fail("scheduler") /\ UNCHANGED poisoned
      \/ Poison
  BY <1>2 DEF Finish
<1>5. phase' \in Phases /\ poisoned' \in BOOLEAN /\ failure' # "kernel"
  BY <1>3, <1>4 DEF Fail, Poison, Phases
<1>6. QED
  BY <1>1, <1>2, <1>5, Settled

---------------------------------------------------------------------------
(* Virtual time moves                                                      *)

\* The moment time moves to is the least of those that somebody waits for.
LEMMA UpcomingMoments ==
  ASSUME SimulationInv, Upcoming # {}
  PROVE  /\ Min(Upcoming) \in Upcoming /\ Min(Upcoming) \in Moments
         /\ \A t \in Upcoming : Min(Upcoming) <= t /\ t \in Nat
<1> USE InvUnfolds
<1>1. Upcoming \subseteq Moments
  <2>1. \A e \in events : e.at \in Moments
    BY DEF TimelineSafe, TimelineTypeOK, Event
  <2>2. ASSUME NEW d \in Duties, interest[d][1] = "wake_or" PROVE interest[d][2] \in Moments
    <3>1. interest[d] \in Interests
      BY DEF SimulationTypeOK
    <3>2. QED
      BY <2>2, <3>1, Limits DEF Interests
  <2>3. QED
    BY <2>1, <2>2 DEF Upcoming, Deadlines
<1>2. Upcoming \in SUBSET Nat
  BY <1>1, Limits
<1>3. PICK n \in Upcoming : \A m \in Nat : m < n => m \notin Upcoming
  BY <1>2, LeastNatural
<1>4. \A m \in Upcoming : n <= m
  BY <1>2, <1>3
<1>5. Min(Upcoming) \in Upcoming /\ \A m \in Upcoming : Min(Upcoming) <= m
  BY <1>3, <1>4 DEF Min
<1>6. QED
  BY <1>1, <1>2, <1>5

LEMMA AdvanceTimeKeeps ==
  ASSUME SimulationInv, AdvanceTime
  PROVE  SimulationInv'
<1> USE InvUnfolds
<1> DEFINE next == Min(Upcoming)
<1>1. /\ Ready = {} /\ Upcoming # {} /\ running = {} /\ phase = "active"
      /\ UNCHANGED <<events, next_id, retained, interest, stopped, next_action, actions>>
      /\ UNCHANGED contextVars /\ UNCHANGED <<running, before, committed>>
  BY DEF AdvanceTime, Usable
<1>2. /\ next \in Upcoming /\ next \in Moments /\ next \in Nat /\ now \in Nat
      /\ \A t \in Upcoming : next <= t /\ t \in Nat
  BY <1>1, UpcomingMoments, Limits DEF TimelineSafe, TimelineTypeOK
<1>3. next > now
  BY <1>1, <1>2, WellRouted DEF Upcoming
<1>4. \/ /\ ClockTo(next) /\ actions_at_moment' = 0 /\ UNCHANGED lifeVars
      \/ /\ Fail("limit")
         /\ UNCHANGED <<poisoned, now, timelinePanic, actions_at_moment>>
  BY <1>2, <1>3 DEF AdvanceTime
<1>5. CASE /\ Fail("limit")
           /\ UNCHANGED <<poisoned, now, timelinePanic, actions_at_moment>>
  <2>1. UNCHANGED timelineVars /\ UNCHANGED kernelVars
    BY <1>1, <1>5 DEF timelineVars, kernelVars
  <2>2. /\ phase' \in Phases /\ poisoned' \in BOOLEAN /\ failure' # "kernel"
        /\ phase' # "completed"
    BY <1>5 DEF Fail, Phases, SimulationTypeOK
  <2>3. QED
    BY <1>1, <2>1, <2>2, Settled
<1>6. CASE ClockTo(next) /\ actions_at_moment' = 0 /\ UNCHANGED lifeVars
  <2>1. now' = next /\ timelinePanic' = timelinePanic
    BY <1>2, <1>3, <1>6 DEF ClockTo, TimelineSafe, TimelineTypeOK
  <2>2. UNCHANGED <<effects, effect_bytes, inserted, removed, observations, observation_bytes>>
    BY <1>1 DEF contextVars, effectVars, observationVars
  <2>3. UNCHANGED <<phase, poisoned, failure>>
    BY <1>6 DEF lifeVars
  <2>4. \A e \in events : e.at >= next
    BY <1>2, Limits DEF Upcoming
  <2>5. TimelineTypeOK' /\ NothingInThePast' /\ TimelineAccounts'
    <3>1. TimelineTypeOK'
      BY <1>1, <1>2, <2>1 DEF TimelineSafe, TimelineTypeOK
    <3>2. NothingInThePast'
      BY <1>1, <2>1, <2>4 DEF TimelineSafe, NothingInThePast
    <3>3. TimelineAccounts'
      BY <1>1 DEF TimelineSafe, TimelineAccounts
    <3>4. QED BY <3>1, <3>2, <3>3
  <2>6. SimulationTypeOK'
    <3>1. /\ interest' \in [Duties -> Interests] /\ stopped' \subseteq Duties
          /\ next_action' \in Option(0..U64) /\ actions' \in 0..TotalActions
          /\ before' \subseteq Event /\ committed' \subseteq 0..U64
      BY <1>1 DEF SimulationTypeOK
    <3>2. actions_at_moment' \in 0..ActionsPerMoment
      BY <1>6, Limits
    <3>3. /\ effects' \in 0..MaxEffects /\ effect_bytes' \in 0..MaxEffectBytes
          /\ observations' \in 0..MaxObservations
          /\ observation_bytes' \in 0..MaxObservationBytes
          /\ inserted' \subseteq Event /\ removed' \subseteq Event
      BY <2>2 DEF SimulationTypeOK
    <3>4. QED
      BY <1>1, <2>3, <2>5, <3>1, <3>2, <3>3 DEF SimulationTypeOK
  <2>7. NoKernelFault' /\ StoppedIsFinal' /\ OnlyCommittedCauses'
    BY <1>1, <2>1, <2>3 DEF NoKernelFault, StoppedIsFinal, OnlyCommittedCauses
  <2>8. OneAction' /\ CausesKnown' /\ StopsAgree'
    BY <1>1, <2>2, <2>3 DEF OneAction, CausesKnown, StopsAgree
  <2>9. Transaction' /\ removed = {}
    BY <1>1, <2>2 DEF Transaction
  <2>10. CancelledCanReturn'
    BY <1>1, <2>2, <2>9 DEF CancelledCanReturn
  <2>11. QED
    BY <2>5, <2>6, <2>7, <2>8, <2>9, <2>10 DEF SimulationInv, SimulationSafe
<1>7. QED
  BY <1>4, <1>5, <1>6

---------------------------------------------------------------------------
(* The callback begins                                                     *)

\* Whoever is ready is a duty that has not stopped; a delivery takes its event out.
LEMMA Begins ==
  ASSUME SimulationInv, NEW key \in Ready, Begin(key)
  PROVE  /\ key.duty \in Duties \ stopped /\ key.event \subseteq Event
         /\ TimelineSafe' /\ events' \subseteq events
         /\ UNCHANGED <<now, next_id, timelinePanic>>
<1> USE InvUnfolds
<1>1. \/ \E e \in DueEvents : key = DeliveryKey(e)
      \/ \E d \in Duties : Runnable(d) /\ key = TurnKey(d)
  BY DEF Ready
<1>2. \/ key.event = {} /\ UNCHANGED timelineVars
      \/ \E e \in key.event : CancelEvent(e)
  BY DEF Begin
<1>3. ASSUME NEW e \in DueEvents, key = DeliveryKey(e)
      PROVE  /\ key.duty \in Duties \ stopped /\ key.event \subseteq Event
             /\ TimelineSafe' /\ events' \subseteq events
             /\ UNCHANGED <<now, next_id, timelinePanic>>
  <2>1. key.duty = e.payload.target /\ key.event = {e} /\ e \in events
    BY <1>3 DEF DeliveryKey, DueEvents
  <2>2. CancelEvent(e)
    BY <1>2, <2>1
  <2>3. TimelineSafe' /\ e \in Event
    BY <2>2, Cancelled
  <2>4. events' \subseteq events /\ UNCHANGED <<now, next_id, timelinePanic>>
    BY <2>2 DEF CancelEvent
  <2>5. QED
    BY <2>1, <2>3, <2>4, WellRouted
<1>4. ASSUME NEW d \in Duties, Runnable(d), key = TurnKey(d)
      PROVE  /\ key.duty \in Duties \ stopped /\ key.event \subseteq Event
             /\ TimelineSafe' /\ events' \subseteq events
             /\ UNCHANGED <<now, next_id, timelinePanic>>
  <2>1. key.duty = d /\ key.event = {}
    BY <1>4 DEF TurnKey
  <2>2. UNCHANGED timelineVars
    BY <1>2, <2>1
  <2>3. /\ UNCHANGED <<now, events, next_id, retained, timelinePanic>>
    BY <2>2 DEF timelineVars
  <2>4. TimelineSafe'
    BY <2>3 DEF TimelineSafe, TimelineTypeOK, NothingInThePast, TimelineAccounts
  <2>5. interest[d] # <<"stop">>
    BY <1>4 DEF Runnable
  <2>6. d \notin stopped
    BY <2>5 DEF StopsAgree
  <2>7. QED
    BY <2>1, <2>3, <2>4, <2>6
<1>5. QED
  BY <1>1, <1>3, <1>4

LEMMA BeginKeeps ==
  ASSUME SimulationInv, NEW key \in Ready, Begin(key)
  PROVE  SimulationInv'
<1> USE InvUnfolds, Begins
<1>1. /\ running = {} /\ phase = "active" /\ ~LimitReached /\ EmptyContext
      /\ poisoned' = TRUE /\ before' = events'
      /\ UNCHANGED <<interest, stopped, phase, failure, committed>>
      /\ Count(actions) /\ running' = {[key |-> key, id |-> actions]}
  BY DEF Begin, Usable, OneAction
<1>2. /\ actions \in Nat /\ actions < TotalActions /\ actions' = actions + 1
      /\ actions' <= TotalActions /\ actions \in 0..U64 /\ actions' \in 0..U64
  <2>1. actions \in Nat /\ U64 \in Nat /\ TotalActions \in Nat /\ TotalActions <= U64
    BY Limits DEF SimulationTypeOK
  <2>2. ~(actions >= TotalActions) /\ actions' = actions + 1
    BY <1>1 DEF Count, LimitReached
  <2>3. QED
    BY <2>1, <2>2
<1>3. next_action' = {actions'}
  BY <1>1, <1>2 DEF Count, NextRaw
<1>4. /\ effects' = 0 /\ effect_bytes' = 0 /\ inserted' = {} /\ removed' = {}
      /\ observations' = 0 /\ observation_bytes' = 0
  BY <1>1 DEF EmptyContext
<1>5. \A a \in running' : /\ a.id = actions /\ a.key = key
  BY <1>1
<1>6. SimulationTypeOK'
  <2>1. /\ interest' \in [Duties -> Interests] /\ stopped' \subseteq Duties
        /\ phase' \in Phases /\ poisoned' \in BOOLEAN /\ committed' \subseteq 0..U64
    BY <1>1 DEF SimulationTypeOK
  <2>2. next_action' \in Option(0..U64)
    BY <1>2, <1>3 DEF Option
  <2>3. actions' \in 0..TotalActions /\ actions_at_moment' \in 0..ActionsPerMoment
    <3>1. actions_at_moment \in Nat /\ ActionsPerMoment \in Nat /\ TotalActions \in Nat
      BY Limits DEF SimulationTypeOK
    <3>2. ~(actions_at_moment >= ActionsPerMoment)
          /\ actions_at_moment' = actions_at_moment + 1
      BY <1>1 DEF Count, LimitReached
    <3>3. QED
      BY <1>2, <3>1, <3>2
  <2>4. \A a \in running' :
          a.id \in 0..U64 /\ a.key.duty \in Duties /\ a.key.event \subseteq Event
    BY <1>2, <1>5
  <2>5. /\ effects' \in 0..MaxEffects /\ effect_bytes' \in 0..MaxEffectBytes
        /\ observations' \in 0..MaxObservations
        /\ observation_bytes' \in 0..MaxObservationBytes
    BY <1>4, Limits
  <2>6. TimelineTypeOK' /\ inserted' \subseteq Event /\ removed' \subseteq Event
        /\ before' \subseteq Event
    BY <1>1, <1>4 DEF TimelineSafe, TimelineTypeOK
  <2>7. QED
    BY <2>1, <2>2, <2>3, <2>4, <2>5, <2>6 DEF SimulationTypeOK
<1>7. NoKernelFault' /\ StoppedIsFinal' /\ OnlyCommittedCauses'
  <2>1. NoKernelFault'
    BY <1>1 DEF NoKernelFault
  <2>2. StoppedIsFinal'
    BY <1>1, <1>5 DEF StoppedIsFinal
  <2>3. OnlyCommittedCauses'
    BY <1>1 DEF OnlyCommittedCauses
  <2>4. QED BY <2>1, <2>2, <2>3
<1>8. OneAction'
  <2>1. \A id \in committed : id < actions /\ id \in Nat
    BY DEF OneAction, SimulationTypeOK
  <2>2. QED
    BY <1>1, <1>2, <1>3, <1>5, <2>1 DEF OneAction
<1>9. Transaction'
  <2>1. IsFiniteSet(events') /\ Cardinality(events') <= MaxEvents
        /\ BytesOf(events') <= MaxBytes
    BY DEF TimelineSafe, TimelineAccounts
  <2>2. before' = (events' \ inserted') \cup removed'
    BY <1>1, <1>4
  <2>3. effect_bytes' = BytesOf(inserted') + BytesOf(removed')
    BY <1>4, BytesEmpty
  <2>4. QED
    BY <1>1, <1>4, <2>1, <2>2, <2>3, BytesEmpty DEF Transaction
<1>10. CancelledCanReturn' /\ CausesKnown' /\ StopsAgree'
  <2>1. CancelledCanReturn'
    BY <1>4 DEF CancelledCanReturn
  <2>2. CausesKnown'
    BY <1>1, <1>4 DEF OnlyCommittedCauses, CausesKnown
  <2>3. StopsAgree'
    BY <1>1 DEF StopsAgree
  <2>4. QED BY <2>1, <2>2, <2>3
<1>11. QED
  BY <1>6, <1>7, <1>8, <1>9, <1>10
     DEF SimulationInv, SimulationSafe, TimelineSafe

---------------------------------------------------------------------------
(* What the callback does                                                  *)

\* An effect concerns the timeline and the context only.
LEMMA EffectKeeps ==
  ASSUME SimulationInv, NEW action \in running,
         UNCHANGED kernelVars, UNCHANGED lifeVars, UNCHANGED <<running, before, committed>>,
         TimelineSafe', effects' \in 0..MaxEffects, effect_bytes' \in 0..MaxEffectBytes,
         observations' \in 0..MaxObservations,
         observation_bytes' \in 0..MaxObservationBytes,
         inserted' \subseteq Event, removed' \subseteq Event,
         \A e \in events' : e.payload.target \notin stopped,
         Transaction', CancelledCanReturn', CausesKnown'
  PROVE  SimulationInv'
<1> USE InvUnfolds
<1>1. /\ UNCHANGED <<interest, stopped, next_action, actions, actions_at_moment>>
      /\ UNCHANGED <<phase, poisoned, failure>> /\ UNCHANGED <<running, before, committed>>
  BY DEF kernelVars, lifeVars
<1>2. phase = "active"
  BY DEF OneAction
<1>3. SimulationTypeOK'
  <2>1. /\ interest' \in [Duties -> Interests] /\ stopped' \subseteq Duties
        /\ next_action' \in Option(0..U64) /\ actions' \in 0..TotalActions
        /\ actions_at_moment' \in 0..ActionsPerMoment
        /\ phase' \in Phases /\ poisoned' \in BOOLEAN
        /\ before' \subseteq Event /\ committed' \subseteq 0..U64
    BY <1>1 DEF SimulationTypeOK
  <2>2. \A a \in running' :
          a.id \in 0..U64 /\ a.key.duty \in Duties /\ a.key.event \subseteq Event
    BY <1>1 DEF SimulationTypeOK
  <2>3. QED
    BY <2>1, <2>2 DEF SimulationTypeOK, TimelineSafe
<1>4. NoKernelFault'
  BY <1>1 DEF NoKernelFault, TimelineSafe, NothingInThePast
<1>5. StoppedIsFinal' /\ OnlyCommittedCauses'
  BY <1>1, <1>2 DEF StoppedIsFinal, OnlyCommittedCauses
<1>6. OneAction' /\ StopsAgree'
  BY <1>1 DEF OneAction, StopsAgree
<1>7. QED
  BY <1>3, <1>4, <1>5, <1>6 DEF SimulationInv, SimulationSafe, TimelineSafe

\* What an effect finds, as the later steps use it.
LEMMA ContextTyped ==
  ASSUME SimulationInv, NEW action \in running
  PROVE  /\ effects \in Nat /\ effect_bytes \in Nat /\ observations \in Nat
         /\ observation_bytes \in Nat /\ effect_bytes <= MaxEffectBytes
         /\ events \in SUBSET Event /\ inserted \in SUBSET Event
         /\ removed \in SUBSET Event
         /\ IsFiniteSet(inserted) /\ IsFiniteSet(removed)
         /\ effect_bytes = BytesOf(inserted) + BytesOf(removed)
         /\ BytesOf(inserted) \in Nat /\ BytesOf(removed) \in Nat
<1> USE InvUnfolds
<1>1. /\ effects \in Nat /\ effect_bytes \in Nat /\ observations \in Nat
      /\ observation_bytes \in Nat /\ effect_bytes <= MaxEffectBytes
      /\ inserted \in SUBSET Event /\ removed \in SUBSET Event
  BY Limits DEF SimulationTypeOK
<1>2. events \in SUBSET Event /\ IsFiniteSet(events)
  BY DEF TimelineSafe, TimelineTypeOK
<1>3. /\ inserted \subseteq events /\ IsFiniteSet(removed)
      /\ effect_bytes = BytesOf(inserted) + BytesOf(removed)
  BY DEF Transaction
<1>4. IsFiniteSet(inserted)
  BY <1>2, <1>3, FS_Subset
<1>5. BytesOf(inserted) \in Nat /\ BytesOf(removed) \in Nat
  BY <1>1, <1>3, <1>4, EventSizes, BytesType
<1>6. QED
  BY <1>1, <1>2, <1>3, <1>4, <1>5

LEMMA SendKeeps ==
  ASSUME SimulationInv, NEW action \in running, NEW target \in Duties, NEW at \in Moments,
         NEW size \in Sizes, Send(action, target, at, size)
  PROVE  SimulationInv'
<1> USE InvUnfolds, ContextTyped
<1> DEFINE payload == [target |-> target, cause |-> {action.id}]
<1>1. /\ ScheduleAt(at, size, payload) /\ target \notin stopped
      /\ effects < MaxEffects /\ effect_bytes + size <= MaxEffectBytes
      /\ effects' = effects + 1 /\ effect_bytes' = effect_bytes + size
      /\ inserted' = inserted \cup (events' \ events)
      /\ UNCHANGED kernelVars /\ UNCHANGED lifeVars /\ removed' = removed
      /\ UNCHANGED observationVars /\ UNCHANGED <<running, before, committed>>
  BY DEF Send
<1>2. payload \in Payloads /\ payload.target = target /\ payload.cause = {action.id}
  <2>1. action.id \in 0..U64
    BY DEF SimulationTypeOK
  <2>2. {action.id} \in Option(0..U64)
    BY <2>1 DEF Option
  <2>3. QED
    BY <2>2, Limits DEF Routed
<1> HIDE DEF payload
<1>3. /\ TimelineSafe' /\ now' = now
      /\ \E e \in Event :
           /\ e.id \in next_id /\ e.at = at /\ e.retained = size /\ e.payload = payload
           /\ \A id \in next_id' : id = e.id + 1
           /\ e \notin events /\ events' = events \cup {e}
  BY <1>1, <1>2, Scheduled
<1>4. PICK e \in Event :
        /\ e.id \in next_id /\ e.at = at /\ e.retained = size /\ e.payload = payload
        /\ \A id \in next_id' : id = e.id + 1
        /\ e \notin events /\ events' = events \cup {e}
  BY <1>3
<1>5. /\ \A f \in events \cup removed : f.id < e.id /\ f.id \in Nat
      /\ e.id \in Nat /\ e \notin removed
  <2>1. \A f \in Event : f.id \in Nat
    BY Limits DEF Event
  <2>2. \A f \in events \cup removed : f.id < e.id /\ f.id \in Nat
    BY <1>4, <2>1 DEF CancelledCanReturn
  <2>3. e.id \in Nat
    BY <2>1
  <2>4. QED
    BY <2>2, <2>3
<1>6. inserted' = inserted \cup {e} /\ e \notin inserted
  BY <1>1, <1>4 DEF Transaction
<1>7. Transaction'
  <2>1. /\ IsFiniteSet(events') /\ IsFiniteSet(removed')
        /\ inserted' \subseteq events' /\ removed' \cap events' = {}
    BY <1>1, <1>3, <1>4, <1>5, <1>6 DEF Transaction, TimelineSafe
  <2>2. /\ before' = (events' \ inserted') \cup removed'
        /\ Cardinality(before') <= MaxEvents /\ BytesOf(before') <= MaxBytes
    BY <1>1, <1>4, <1>6 DEF Transaction
  <2>3. BytesOf(inserted') = BytesOf(inserted) + size /\ size \in Nat
    BY <1>4, <1>6, BytesAdd
  <2>4. effect_bytes' = BytesOf(inserted') + BytesOf(removed')
    BY <1>1, <2>3
  <2>5. QED
    BY <1>1, <2>1, <2>2, <2>4 DEF Transaction
<1>8. CancelledCanReturn'
  <2>1. \A f \in removed' : f.at >= now' /\ f.payload.target \notin stopped'
    BY <1>1, <1>3 DEF CancelledCanReturn, kernelVars
  <2>2. \A f, g \in events' \cup removed' : f.id = g.id => f = g
    <3>1. \A f, g \in events \cup removed : f.id = g.id => f = g
      BY DEF CancelledCanReturn
    <3>2. \A f \in events \cup removed : f.id # e.id
      BY <1>5
    <3>3. events' \cup removed' = (events \cup removed) \cup {e}
      BY <1>1, <1>4
    <3>4. QED
      BY <3>1, <3>2, <3>3
  <2>3. \A f \in events' \cup removed', id \in next_id' : f.id < id
    BY <1>1, <1>4, <1>5
  <2>4. QED
    BY <2>1, <2>2, <2>3 DEF CancelledCanReturn
<1>9. CausesKnown'
  <2>1. \A a \in running' : a.id = action.id
    BY <1>1 DEF OneAction
  <2>2. (events' \ inserted') \cup removed' = (events \ inserted) \cup removed
    BY <1>1, <1>4, <1>6
  <2>3. QED
    BY <1>1, <1>2, <1>4, <1>6, <2>1, <2>2 DEF CausesKnown
<1>10. \A f \in events' : f.payload.target \notin stopped
  BY <1>1, <1>2, <1>4 DEF StoppedIsFinal
<1>11. /\ effects' \in 0..MaxEffects /\ effect_bytes' \in 0..MaxEffectBytes
       /\ inserted' \subseteq Event /\ removed' \subseteq Event
  <2>1. size \in Nat /\ MaxEffects \in Nat /\ MaxEffectBytes \in Nat
    BY Limits
  <2>2. QED
    BY <1>1, <1>6, <2>1
<1>12. observations' \in 0..MaxObservations /\ observation_bytes' \in 0..MaxObservationBytes
  BY <1>1 DEF observationVars, SimulationTypeOK
<1>13. QED
  BY <1>1, <1>3, <1>7, <1>8, <1>9, <1>10, <1>11, <1>12, EffectKeeps

LEMMA ObserveKeeps ==
  ASSUME SimulationInv, NEW action \in running, NEW size \in Sizes, Observe(size)
  PROVE  SimulationInv'
<1> USE InvUnfolds, ContextTyped
<1>1. /\ observations < MaxObservations
      /\ observation_bytes + size <= MaxObservationBytes
      /\ observations' = observations + 1
      /\ observation_bytes' = observation_bytes + size
      /\ UNCHANGED kernelVars /\ UNCHANGED lifeVars /\ UNCHANGED <<running, before, committed>>
  BY DEF Observe
<1>2. UNCHANGED <<now, events, next_id, retained, timelinePanic>>
  BY DEF Observe, timelineVars
<1>3. UNCHANGED <<effects, effect_bytes, inserted, removed>>
  BY DEF Observe, effectVars
<1>4. observations' \in 0..MaxObservations /\ observation_bytes' \in 0..MaxObservationBytes
  <2>1. size \in Nat /\ MaxObservations \in Nat /\ MaxObservationBytes \in Nat
    BY Limits
  <2>2. QED
    BY <1>1, <2>1
<1>5. TimelineSafe'
  BY <1>2 DEF TimelineSafe, TimelineTypeOK, NothingInThePast, TimelineAccounts
<1>6. UNCHANGED <<interest, stopped, next_action, actions, actions_at_moment>>
  BY <1>1 DEF kernelVars
<1>7. Transaction'
  BY <1>1, <1>2, <1>3 DEF Transaction
<1>8. CancelledCanReturn' /\ CausesKnown'
  BY <1>1, <1>2, <1>3, <1>6 DEF CancelledCanReturn, CausesKnown
<1>9. \A e \in events' : e.payload.target \notin stopped
  BY <1>2 DEF StoppedIsFinal
<1>10. /\ effects' \in 0..MaxEffects /\ effect_bytes' \in 0..MaxEffectBytes
       /\ inserted' \subseteq Event /\ removed' \subseteq Event
  BY <1>3 DEF SimulationTypeOK
<1>11. QED
  BY <1>1, <1>4, <1>5, <1>7, <1>8, <1>9, <1>10, EffectKeeps

LEMMA CancelKeeps ==
  ASSUME SimulationInv, NEW action \in running, NEW e \in events, CancelPending(e)
  PROVE  SimulationInv'
<1> USE InvUnfolds, ContextTyped
<1>1. /\ CancelEvent(e) /\ effects < MaxEffects /\ effects' = effects + 1
      /\ UNCHANGED kernelVars /\ UNCHANGED lifeVars /\ UNCHANGED observationVars
      /\ UNCHANGED <<running, before, committed>>
  BY DEF CancelPending
<1>2. /\ events' = events \ {e}
      /\ now' = now /\ next_id' = next_id /\ timelinePanic' = timelinePanic
  BY <1>1 DEF CancelEvent
<1>3. TimelineSafe' /\ e \in Event
  BY <1>1, Cancelled
<1>4. e \notin removed /\ inserted \subseteq events /\ removed \cap events = {}
  BY DEF Transaction
<1>5. e.at >= now /\ e.payload.target \notin stopped
  BY DEF TimelineSafe, NothingInThePast, StoppedIsFinal
<1>6. stopped' = stopped /\ UNCHANGED <<running, before, committed>>
  BY <1>1 DEF kernelVars
<1>7. \A f \in events' : f.payload.target \notin stopped
  BY <1>2 DEF StoppedIsFinal
<1>8. observations' \in 0..MaxObservations /\ observation_bytes' \in 0..MaxObservationBytes
  BY <1>1 DEF observationVars, SimulationTypeOK
<1>9. effects' \in 0..MaxEffects
  BY <1>1, Limits
<1>10. CASE e \in inserted
  <2>1. /\ inserted' = inserted \ {e} /\ effect_bytes' = effect_bytes - e.retained
        /\ removed' = removed
    BY <1>10 DEF CancelPending
  <2>2. /\ BytesOf(inserted') = BytesOf(inserted) - e.retained
        /\ BytesOf(inserted') \in Nat /\ e.retained \in Nat
    BY <1>10, <2>1, BytesLess
  <2>3. /\ effect_bytes' = BytesOf(inserted') + BytesOf(removed')
        /\ effect_bytes' \in 0..MaxEffectBytes
    BY <2>1, <2>2, Limits
  <2>4. (events' \ inserted') \cup removed' = (events \ inserted) \cup removed
    BY <1>2, <1>10, <2>1
  <2>5. Transaction'
    <3>1. before' = (events' \ inserted') \cup removed'
      BY <1>6, <2>4 DEF Transaction
    <3>2. Cardinality(before') <= MaxEvents /\ BytesOf(before') <= MaxBytes
      BY <1>6 DEF Transaction
    <3>3. /\ IsFiniteSet(events') /\ IsFiniteSet(removed')
          /\ inserted' \subseteq events' /\ removed' \cap events' = {}
      BY <1>2, <1>3, <1>4, <2>1 DEF TimelineSafe
    <3>4. QED
      BY <1>6, <2>3, <3>1, <3>2, <3>3 DEF Transaction
  <2>6. CancelledCanReturn'
    BY <1>2, <1>6, <2>1 DEF CancelledCanReturn
  <2>7. CausesKnown'
    BY <1>6, <2>1, <2>4 DEF CausesKnown
  <2>8. inserted' \subseteq Event /\ removed' \subseteq Event
    BY <2>1
  <2>9. QED
    BY <1>1, <1>3, <1>7, <1>8, <1>9, <2>3, <2>5, <2>6, <2>7, <2>8, EffectKeeps
<1>11. CASE e \notin inserted
  <2>1. /\ removed' = removed \cup {e} /\ effect_bytes' = effect_bytes + e.retained
        /\ effect_bytes + e.retained <= MaxEffectBytes /\ inserted' = inserted
    BY <1>11 DEF CancelPending
  <2>2. /\ BytesOf(removed') = BytesOf(removed) + e.retained /\ e.retained \in Nat
        /\ IsFiniteSet(removed')
    BY <1>3, <1>4, <2>1, BytesAdd
  <2>3. /\ effect_bytes' = BytesOf(inserted') + BytesOf(removed')
        /\ effect_bytes' \in 0..MaxEffectBytes
    BY <2>1, <2>2, Limits
  <2>4. (events' \ inserted') \cup removed' = (events \ inserted) \cup removed
    BY <1>2, <1>11, <2>1
  <2>5. Transaction'
    <3>1. before' = (events' \ inserted') \cup removed'
      BY <1>6, <2>4 DEF Transaction
    <3>2. Cardinality(before') <= MaxEvents /\ BytesOf(before') <= MaxBytes
      BY <1>6 DEF Transaction
    <3>3. /\ IsFiniteSet(events') /\ IsFiniteSet(removed')
          /\ inserted' \subseteq events' /\ removed' \cap events' = {}
      BY <1>2, <1>3, <1>4, <1>11, <2>1, <2>2 DEF TimelineSafe
    <3>4. QED
      BY <1>6, <2>3, <3>1, <3>2, <3>3 DEF Transaction
  <2>6. CancelledCanReturn'
    <3>1. events' \cup removed' = events \cup removed
      BY <1>2, <2>1
    <3>2. QED
      BY <1>2, <1>5, <1>6, <2>1, <3>1 DEF CancelledCanReturn
  <2>7. CausesKnown'
    BY <1>6, <2>1, <2>4 DEF CausesKnown
  <2>8. inserted' \subseteq Event /\ removed' \subseteq Event
    BY <1>3, <2>1
  <2>9. QED
    BY <1>1, <1>3, <1>7, <1>8, <1>9, <2>3, <2>5, <2>6, <2>7, <2>8, EffectKeeps
<1>12. QED
  BY <1>10, <1>11

---------------------------------------------------------------------------
(* Injection, between the steps                                            *)

LEMMA InjectKeeps ==
  ASSUME SimulationInv, NEW target \in Duties, NEW at \in Moments, NEW size \in Sizes,
         Inject(target, at, size)
  PROVE  SimulationInv'
<1> USE InvUnfolds
<1> DEFINE payload == [target |-> target, cause |-> {}]
<1>1. /\ ScheduleAt(at, size, payload) /\ target \notin stopped
      /\ running = {} /\ phase = "active"
      /\ UNCHANGED kernelVars /\ UNCHANGED contextVars /\ UNCHANGED lifeVars
      /\ UNCHANGED <<running, before, committed>>
  BY DEF Inject, Usable
<1>2. payload \in Payloads /\ payload.target = target /\ payload.cause = {}
  BY Limits DEF Routed, Option
<1> HIDE DEF payload
<1>3. /\ TimelineSafe' /\ now' = now
      /\ \E e \in Event :
           /\ e.id \in next_id /\ e.at = at /\ e.retained = size /\ e.payload = payload
           /\ \A id \in next_id' : id = e.id + 1
           /\ e \notin events /\ events' = events \cup {e}
  BY <1>1, <1>2, Scheduled
<1>4. PICK e \in Event : e.payload = payload /\ events' = events \cup {e}
  BY <1>3
<1>5. /\ UNCHANGED <<interest, stopped, next_action, actions, actions_at_moment>>
      /\ UNCHANGED <<phase, poisoned, failure>> /\ UNCHANGED <<running, before, committed>>
  BY <1>1 DEF kernelVars, lifeVars
<1>6. UNCHANGED <<effects, effect_bytes, inserted, removed, observations, observation_bytes>>
  BY <1>1 DEF contextVars, effectVars, observationVars
<1>7. inserted = {} /\ removed = {} /\ IsFiniteSet(removed)
  BY <1>1 DEF Transaction
<1>8. SimulationTypeOK'
  <2>1. /\ interest' \in [Duties -> Interests] /\ stopped' \subseteq Duties
        /\ next_action' \in Option(0..U64) /\ actions' \in 0..TotalActions
        /\ actions_at_moment' \in 0..ActionsPerMoment
        /\ phase' \in Phases /\ poisoned' \in BOOLEAN
        /\ before' \subseteq Event /\ committed' \subseteq 0..U64
    BY <1>5 DEF SimulationTypeOK
  <2>2. /\ effects' \in 0..MaxEffects /\ effect_bytes' \in 0..MaxEffectBytes
        /\ observations' \in 0..MaxObservations
        /\ observation_bytes' \in 0..MaxObservationBytes
        /\ inserted' \subseteq Event /\ removed' \subseteq Event
    BY <1>6 DEF SimulationTypeOK
  <2>3. QED
    BY <1>1, <1>3, <2>1, <2>2 DEF SimulationTypeOK, TimelineSafe
<1>9. NoKernelFault'
  BY <1>3, <1>5 DEF NoKernelFault, TimelineSafe, NothingInThePast
<1>10. StoppedIsFinal' /\ OnlyCommittedCauses'
  BY <1>1, <1>2, <1>4, <1>5 DEF StoppedIsFinal, OnlyCommittedCauses
<1>11. OneAction' /\ StopsAgree'
  BY <1>5 DEF OneAction, StopsAgree
<1>12. Transaction'
  BY <1>1, <1>3, <1>6, <1>7 DEF Transaction, TimelineSafe
<1>13. CancelledCanReturn'
  BY <1>3, <1>6, <1>7 DEF CancelledCanReturn, TimelineSafe, NothingInThePast
<1>14. CausesKnown'
  BY <1>1, <1>6, <1>7, <1>10 DEF CausesKnown, OnlyCommittedCauses
<1>15. QED
  BY <1>3, <1>8, <1>9, <1>10, <1>11, <1>12, <1>13, <1>14
     DEF SimulationInv, SimulationSafe, TimelineSafe

---------------------------------------------------------------------------
(* The callback returns                                                    *)

\* Rollback finds room for what it puts back: it restores what the callback found.
LEMMA RollsBack ==
  ASSUME SimulationInv, NEW action \in running, Rollback
  PROVE  /\ TimelineSafe' /\ events' = before /\ retained' = BytesOf(before)
         /\ UNCHANGED <<now, next_id, timelinePanic>>
<1> USE InvUnfolds, ContextTyped
<1> DEFINE kept == events \ inserted
<1>1. /\ before = kept \cup removed /\ inserted \subseteq events
      /\ Cardinality(before) <= MaxEvents /\ BytesOf(before) <= MaxBytes
      /\ removed \cap events = {} /\ IsFiniteSet(events)
  BY DEF Transaction
<1>2. /\ IsFiniteSet(kept) /\ kept \in SUBSET Event /\ IsFiniteSet(before)
      /\ before \in SUBSET Event /\ kept \cap removed = {} /\ kept \cap inserted = {}
      /\ kept \cup inserted = events
  <2>1. IsFiniteSet(kept) /\ kept \in SUBSET Event
    BY <1>1, FS_Subset
  <2>2. IsFiniteSet(kept \cup removed)
    BY <2>1, FS_Union
  <2>3. QED
    BY <1>1, <2>1, <2>2
<1>3. /\ BytesOf(before) = BytesOf(kept) + BytesOf(removed)
      /\ BytesOf(events) = BytesOf(kept) + BytesOf(inserted)
      /\ BytesOf(kept) \in Nat /\ BytesOf(before) \in Nat
  <2>1. /\ \A e \in kept \cup removed : e.retained \in Nat
        /\ \A e \in kept \cup inserted : e.retained \in Nat
        /\ \A e \in kept : e.retained \in Nat
    BY <1>2, EventSizes
  <2> HIDE DEF kept
  <2>2. BytesOf(kept \cup removed) = BytesOf(kept) + BytesOf(removed)
    BY <1>2, <2>1, BytesUnion
  <2>3. BytesOf(kept \cup inserted) = BytesOf(kept) + BytesOf(inserted)
    BY <1>2, <2>1, BytesUnion
  <2>4. BytesOf(kept) \in Nat
    BY <1>2, <2>1, BytesType
  <2>5. BytesOf(before) \in Nat
    BY <1>1, <2>2, <2>4
  <2>6. QED
    BY <1>1, <1>2, <2>2, <2>3, <2>4, <2>5
<1>4. /\ events' = before /\ retained' = retained - BytesOf(inserted) + BytesOf(removed)
      /\ now' = now /\ next_id' = next_id
  BY <1>1 DEF Rollback
<1>5. retained' = BytesOf(before)
  <2>1. retained = BytesOf(kept) + BytesOf(inserted)
    BY <1>3 DEF TimelineSafe, TimelineAccounts
  <2> HIDE DEF kept
  <2>2. QED
    BY <1>3, <1>4, <2>1
<1>6. timelinePanic' = timelinePanic
  <2>1. ~\E e \in removed : e.at < now
    <3>1. \A e \in removed : e.at >= now
      BY DEF CancelledCanReturn
    <3>2. now \in Nat /\ \A e \in removed : e.at \in Nat
      BY Limits DEF Event, TimelineSafe, TimelineTypeOK
    <3>3. QED BY <3>1, <3>2
  <2>2. Cardinality(before) \in Nat
    BY <1>2, FS_CardinalityType
  <2>3. ~(Cardinality(before) > MaxEvents) /\ ~(BytesOf(before) > MaxBytes)
    BY <1>1, <1>3, <2>2, Limits
  <2>4. ~\E e \in kept, f \in removed : e.at = f.at /\ e.id = f.id
    BY <1>1, <1>2 DEF CancelledCanReturn
  <2>5. ~RestorePanics(kept, removed)
    BY <1>1, <2>1, <2>3, <2>4 DEF RestorePanics
  <2>6. timelinePanic' = (timelinePanic \/ ~(inserted \subseteq events)
                                       \/ RestorePanics(kept, removed))
    BY DEF Rollback
  <2>7. timelinePanic \in BOOLEAN
    BY DEF TimelineSafe, TimelineTypeOK
  <2>8. QED
    BY <1>1, <2>5, <2>6, <2>7
<1>7. before \subseteq events \cup removed
  BY <1>1
<1>8. TimelineTypeOK'
  <2>1. retained' \in 0..U64
    BY <1>1, <1>3, <1>5, Limits
  <2>2. QED
    BY <1>2, <1>4, <1>6, <2>1 DEF TimelineSafe, TimelineTypeOK
<1>9. NothingInThePast'
  <2>1. \A e \in before : e.at >= now
    BY <1>7 DEF CancelledCanReturn, TimelineSafe, NothingInThePast
  <2>2. \A e, f \in before : e.id = f.id => e = f
    BY <1>7 DEF CancelledCanReturn
  <2>3. \A e \in before, id \in next_id : e.id < id
    BY <1>7 DEF CancelledCanReturn
  <2>4. QED
    BY <1>4, <1>6, <2>1, <2>2, <2>3 DEF TimelineSafe, NothingInThePast
<1>10. TimelineAccounts' /\ IsFiniteSet(events')
  BY <1>1, <1>2, <1>4, <1>5 DEF TimelineAccounts
<1>11. QED
  BY <1>4, <1>5, <1>6, <1>8, <1>9, <1>10 DEF TimelineSafe

LEMMA RollbackKeeps ==
  ASSUME SimulationInv, NEW action \in running, Rollback, CloseContext,
         UNCHANGED kernelVars, UNCHANGED committed,
         phase' \in {"active", "failed"}, poisoned' \in BOOLEAN, failure' # "kernel"
  PROVE  SimulationInv'
<1> USE InvUnfolds, RollsBack
<1>1. UNCHANGED <<interest, stopped, next_action, actions, actions_at_moment>>
  BY DEF kernelVars
<1>2. /\ effects' = 0 /\ effect_bytes' = 0 /\ inserted' = {} /\ removed' = {}
      /\ observations' = 0 /\ observation_bytes' = 0
      /\ running' = {} /\ before' = {}
  BY DEF CloseContext, EmptyContext
<1>3. before = (events \ inserted) \cup removed
  BY DEF Transaction
<1>4. SimulationTypeOK'
  <2>1. /\ interest' \in [Duties -> Interests] /\ stopped' \subseteq Duties
        /\ next_action' \in Option(0..U64) /\ actions' \in 0..TotalActions
        /\ actions_at_moment' \in 0..ActionsPerMoment /\ committed' \subseteq 0..U64
    BY <1>1 DEF SimulationTypeOK
  <2>2. /\ effects' \in 0..MaxEffects /\ effect_bytes' \in 0..MaxEffectBytes
        /\ observations' \in 0..MaxObservations
        /\ observation_bytes' \in 0..MaxObservationBytes
        /\ inserted' \subseteq Event /\ removed' \subseteq Event /\ before' \subseteq Event
    BY <1>2, Limits
  <2>3. phase' \in Phases
    BY DEF Phases
  <2>4. QED
    BY <1>2, <2>1, <2>2, <2>3 DEF SimulationTypeOK, TimelineSafe
<1>5. NoKernelFault'
  BY DEF NoKernelFault, TimelineSafe, NothingInThePast
<1>6. StoppedIsFinal'
  BY <1>1, <1>2, <1>3 DEF StoppedIsFinal, CancelledCanReturn
<1>7. OnlyCommittedCauses'
  BY <1>3 DEF OnlyCommittedCauses, CausesKnown
<1>8. OneAction' /\ StopsAgree'
  BY <1>1, <1>2 DEF OneAction, StopsAgree
<1>9. Transaction'
  BY <1>2, BytesEmpty DEF Transaction, TimelineSafe
<1>10. CancelledCanReturn' /\ CausesKnown'
  BY <1>2, <1>7 DEF CancelledCanReturn, CausesKnown, OnlyCommittedCauses,
                    TimelineSafe, NothingInThePast
<1>11. QED
  BY <1>4, <1>5, <1>6, <1>7, <1>8, <1>9, <1>10
     DEF SimulationInv, SimulationSafe, TimelineSafe

LEMMA CommitKeeps ==
  ASSUME SimulationInv, NEW action \in running, NEW next \in Interests,
         Commit(action, next)
  PROVE  SimulationInv' /\ committed' # committed
<1> USE InvUnfolds
<1>1. /\ UNCHANGED <<now, events, next_id, retained, timelinePanic>>
      /\ UNCHANGED <<next_action, actions, actions_at_moment>>
      /\ ~StrandsEvents(action, next)
      /\ interest' = [interest EXCEPT ![action.key.duty] = next]
      /\ stopped' = IF next = <<"stop">> THEN stopped \cup {action.key.duty} ELSE stopped
      /\ committed' = committed \cup {action.id}
  BY DEF Commit, timelineVars
<1>2. /\ effects' = 0 /\ effect_bytes' = 0 /\ inserted' = {} /\ removed' = {}
      /\ observations' = 0 /\ observation_bytes' = 0
      /\ running' = {} /\ before' = {}
  BY DEF Commit, CloseContext, EmptyContext
<1>3. /\ phase = "active" /\ action.id \in 0..U64 /\ action.key.duty \in Duties
      /\ action.id < actions /\ action.id \notin committed
      /\ action.key.duty \notin stopped /\ interest \in [Duties -> Interests]
  BY DEF OneAction, SimulationTypeOK, StoppedIsFinal
<1>4. phase' \in {"active", "failed"} /\ poisoned' \in BOOLEAN /\ failure' # "kernel"
  BY <1>3 DEF Commit, Fail, lifeVars, SimulationTypeOK, NoKernelFault
<1>5. TimelineSafe'
  BY <1>1 DEF TimelineSafe, TimelineTypeOK, NothingInThePast, TimelineAccounts
<1>6. SimulationTypeOK'
  <2>1. interest' \in [Duties -> Interests] /\ stopped' \subseteq Duties
    BY <1>1, <1>3 DEF SimulationTypeOK
  <2>2. /\ next_action' \in Option(0..U64) /\ actions' \in 0..TotalActions
        /\ actions_at_moment' \in 0..ActionsPerMoment /\ committed' \subseteq 0..U64
    BY <1>1, <1>3 DEF SimulationTypeOK
  <2>3. /\ effects' \in 0..MaxEffects /\ effect_bytes' \in 0..MaxEffectBytes
        /\ observations' \in 0..MaxObservations
        /\ observation_bytes' \in 0..MaxObservationBytes
        /\ inserted' \subseteq Event /\ removed' \subseteq Event /\ before' \subseteq Event
    BY <1>2, Limits
  <2>4. phase' \in Phases
    BY <1>4 DEF Phases
  <2>5. QED
    BY <1>2, <1>4, <1>5, <2>1, <2>2, <2>3, <2>4 DEF SimulationTypeOK, TimelineSafe
<1>7. NoKernelFault'
  BY <1>4, <1>5 DEF NoKernelFault, TimelineSafe, NothingInThePast
<1>8. StoppedIsFinal'
  <2>1. \A e \in events : e.payload.target \notin stopped'
    BY <1>1 DEF StrandsEvents, StoppedIsFinal
  <2>2. QED
    BY <1>1, <1>2, <1>4, <2>1 DEF StoppedIsFinal
<1>9. OnlyCommittedCauses'
  <2>1. \A e \in events : e \in inserted \/ e \in (events \ inserted) \cup removed
    OBVIOUS
  <2>2. \A e \in events : e.payload.cause \subseteq committed \cup {action.id}
    BY <2>1 DEF CausesKnown
  <2>3. QED
    BY <1>1, <2>2 DEF OnlyCommittedCauses
<1>10. OneAction'
  BY <1>1, <1>2, <1>3 DEF OneAction
<1>11. StopsAgree'
  <2>1. ASSUME NEW d \in Duties, d # action.key.duty
        PROVE  interest'[d] = <<"stop">> <=> d \in stopped'
    BY <1>1, <1>3, <2>1 DEF StopsAgree
  <2>2. interest'[action.key.duty] = <<"stop">> <=> action.key.duty \in stopped'
    BY <1>1, <1>3
  <2>3. QED
    BY <2>1, <2>2 DEF StopsAgree
<1>12. Transaction'
  BY <1>2, <1>5, BytesEmpty DEF Transaction, TimelineSafe
<1>13. CancelledCanReturn' /\ CausesKnown'
  BY <1>2, <1>5, <1>9 DEF CancelledCanReturn, CausesKnown, OnlyCommittedCauses,
                           TimelineSafe, NothingInThePast
<1>14. committed' # committed
  BY <1>1, <1>3
<1>15. QED
  BY <1>5, <1>6, <1>7, <1>8, <1>9, <1>10, <1>11, <1>12, <1>13, <1>14
     DEF SimulationInv, SimulationSafe, TimelineSafe

\* However the callback returns, the books are right; and they are what they were
\* before it unless its action commits.
LEMMA ReturnKeeps ==
  ASSUME SimulationInv, NEW action \in running, Return(action)
  PROVE  /\ SimulationInv' /\ now' = now
         /\ committed' = committed => events' = before /\ retained' = BytesOf(before)
<1> USE InvUnfolds, RollsBack
<1>1. phase = "active" /\ poisoned \in BOOLEAN /\ failure # "kernel"
  BY DEF OneAction, SimulationTypeOK, NoKernelFault
<1>2. CASE CallbackEnds
  <2>1. /\ Rollback /\ CloseContext /\ UNCHANGED kernelVars /\ UNCHANGED committed
    BY <1>2 DEF CallbackEnds
  <2>2. phase' \in {"active", "failed"} /\ poisoned' \in BOOLEAN /\ failure' # "kernel"
    BY <1>1, <1>2 DEF CallbackEnds, Fail, lifeVars
  <2>3. QED
    BY <2>1, <2>2, RollbackKeeps
<1>3. ASSUME NEW next \in Interests, StopRefused(action, next)
      PROVE  /\ SimulationInv' /\ now' = now
             /\ committed' = committed => events' = before /\ retained' = BytesOf(before)
  <2>1. /\ Rollback /\ CloseContext /\ UNCHANGED kernelVars /\ UNCHANGED committed
    BY <1>3 DEF StopRefused
  <2>2. phase' \in {"active", "failed"} /\ poisoned' \in BOOLEAN /\ failure' # "kernel"
    BY <1>3 DEF StopRefused, Fail
  <2>3. QED
    BY <2>1, <2>2, RollbackKeeps
<1>4. ASSUME NEW next \in Interests, Commit(action, next)
      PROVE  SimulationInv' /\ now' = now /\ committed' # committed
  <2>1. now' = now
    BY <1>4 DEF Commit, timelineVars
  <2>2. QED
    BY <1>4, <2>1, CommitKeeps
<1>5. QED
  BY <1>2, <1>3, <1>4 DEF Return

---------------------------------------------------------------------------
(* The theorems                                                            *)

\* Every step keeps the invariant; only AdvanceTime moves time; only Return ends a
\* callback.
LEMMA SimulationSteps ==
  ASSUME SimulationInv, SimulationNext
  PROVE  /\ SimulationInv'
         /\ now' = now \/ AdvanceTime
         /\ \/ \E action \in running : Return(action)
            \/ ~(running # {} /\ running' = {})
<1> USE InvUnfolds
<1>1. CASE StepFails
  BY <1>1, StepFailsKeeps DEF StepFails, timelineVars
<1>2. CASE Finish
  BY <1>2, FinishKeeps DEF Finish, timelineVars
<1>3. CASE AdvanceTime
  BY <1>3, AdvanceTimeKeeps DEF AdvanceTime
<1>4. CASE BeginSome
  <2>1. PICK key \in Ready : Begin(key)
    BY <1>4 DEF BeginSome
  <2>2. running = {}
    BY <2>1 DEF Begin, Usable
  <2>3. QED
    BY <2>1, <2>2, BeginKeeps, Begins
<1>5. ASSUME NEW action \in running, NEW d \in Duties, NEW at \in Moments,
             NEW size \in Sizes, Send(action, d, at, size)
      PROVE  SimulationInv' /\ now' = now /\ running' = running
  BY <1>5, SendKeeps DEF Send, ScheduleAt
<1>6. ASSUME NEW action \in running, NEW e \in events, CancelPending(e)
      PROVE  SimulationInv' /\ now' = now /\ running' = running
  BY <1>6, CancelKeeps DEF CancelPending, CancelEvent
<1>7. ASSUME NEW action \in running, NEW size \in Sizes, Observe(size)
      PROVE  SimulationInv' /\ now' = now /\ running' = running
  BY <1>7, ObserveKeeps DEF Observe, timelineVars
<1>8. ASSUME NEW action \in running, Return(action)
      PROVE  SimulationInv' /\ now' = now
  BY <1>8, ReturnKeeps
<1>9. ASSUME NEW d \in Duties, NEW at \in Moments, NEW size \in Sizes, Inject(d, at, size)
      PROVE  SimulationInv' /\ now' = now /\ running = {}
  BY <1>9, InjectKeeps DEF Inject, ScheduleAt, Usable
<1>10. QED
  BY <1>1, <1>2, <1>3, <1>4, <1>5, <1>6, <1>7, <1>8, <1>9 DEF SimulationNext

LEMMA SimulationStutters ==
  ASSUME SimulationInv, UNCHANGED simVars
  PROVE  SimulationInv'
<1> USE InvUnfolds
<1>1. /\ UNCHANGED timelineVars /\ UNCHANGED kernelVars /\ UNCHANGED contextVars
      /\ UNCHANGED lifeVars /\ UNCHANGED <<running, before, committed>>
  BY DEF simVars
<1>2. /\ UNCHANGED <<now, events, next_id, retained, timelinePanic>>
      /\ UNCHANGED <<interest, stopped, next_action, actions, actions_at_moment>>
      /\ UNCHANGED <<phase, poisoned, failure>>
  BY <1>1 DEF timelineVars, kernelVars, lifeVars
<1>3. UNCHANGED <<effects, effect_bytes, inserted, removed, observations, observation_bytes>>
  BY <1>1 DEF contextVars, effectVars, observationVars
<1>4. TimelineTypeOK' /\ NothingInThePast' /\ TimelineAccounts'
  BY <1>2 DEF TimelineSafe, TimelineTypeOK, NothingInThePast, TimelineAccounts
<1>5. SimulationTypeOK'
  <2>1. /\ interest' \in [Duties -> Interests] /\ stopped' \subseteq Duties
        /\ next_action' \in Option(0..U64) /\ actions' \in 0..TotalActions
        /\ actions_at_moment' \in 0..ActionsPerMoment
        /\ phase' \in Phases /\ poisoned' \in BOOLEAN
        /\ before' \subseteq Event /\ committed' \subseteq 0..U64
    BY <1>1, <1>2 DEF SimulationTypeOK
  <2>2. /\ effects' \in 0..MaxEffects /\ effect_bytes' \in 0..MaxEffectBytes
        /\ observations' \in 0..MaxObservations
        /\ observation_bytes' \in 0..MaxObservationBytes
        /\ inserted' \subseteq Event /\ removed' \subseteq Event
    BY <1>3 DEF SimulationTypeOK
  <2>3. \A a \in running' :
          a.id \in 0..U64 /\ a.key.duty \in Duties /\ a.key.event \subseteq Event
    BY <1>1 DEF SimulationTypeOK
  <2>4. QED
    BY <1>4, <2>1, <2>2, <2>3 DEF SimulationTypeOK
<1>6. NoKernelFault' /\ StoppedIsFinal' /\ OnlyCommittedCauses'
  BY <1>1, <1>2 DEF NoKernelFault, StoppedIsFinal, OnlyCommittedCauses
<1>7. OneAction' /\ CancelledCanReturn' /\ CausesKnown' /\ StopsAgree'
  BY <1>1, <1>2, <1>3 DEF OneAction, CancelledCanReturn, CausesKnown, StopsAgree
<1>8. Transaction'
  BY <1>1, <1>2, <1>3 DEF Transaction
<1>9. QED
  BY <1>4, <1>5, <1>6, <1>7, <1>8 DEF SimulationInv, SimulationSafe

LEMMA SimulationAlways == SimulationSpec => []SimulationInv
<1>1. SimulationInit => SimulationInv
  BY SimulationStarts
<1>2. SimulationInv /\ [SimulationNext]_simVars => SimulationInv'
  BY SimulationSteps, SimulationStutters
<1>3. QED
  BY <1>1, <1>2, PTL DEF SimulationSpec

\* Whatever the callbacks, the scheduler and the monitor do, on every topology and
\* under every limit: the timeline's books are exact, no event lies in the past or
\* goes to a duty that stopped, no effect of an uncommitted action is delivered, and
\* neither the kernel's own failures nor the timeline's assertions are reached.
THEOREM SimulationSafety == SimulationSpec => []SimulationSafe
<1>1. SimulationInv => SimulationSafe
  BY DEF SimulationInv
<1>2. QED
  BY <1>1, SimulationAlways, PTL

\* A callback that fails, unwinds or stops in vain leaves the timeline as it found it.
THEOREM RollbackExact == SimulationSpec => RollbackIsExact
<1>1. ASSUME SimulationInv, [SimulationNext]_simVars
      PROVE  [running # {} /\ running' = {} /\ committed' = committed =>
                events' = before /\ retained' = BytesOf(before)]_simVars
  BY <1>1, SimulationSteps, ReturnKeeps
<1>2. QED
  BY <1>1, SimulationAlways, PTL DEF SimulationSpec, RollbackIsExact

LEMMA TimeSkipsNothing ==
  ASSUME SimulationInv, AdvanceTime, now' # now
  PROVE  /\ now' > now
         /\ \A e \in events : e.at >= now'
         /\ \A d \in Duties : interest[d][1] = "wake_or" => interest[d][2] >= now'
         /\ \A d \in Duties : interest[d] # <<"now">>
<1> DEFINE next == Min(Upcoming)
<1>1. Ready = {} /\ Upcoming # {} /\ ClockTo(next) /\ next > now
  BY DEF AdvanceTime
<1>2. /\ next \in Nat /\ now \in Nat
      /\ \A t \in Upcoming : next <= t /\ t \in Nat
  BY <1>1, UpcomingMoments, InvUnfolds, Limits DEF TimelineSafe, TimelineTypeOK
<1>3. now' = next
  BY <1>1, <1>2 DEF ClockTo
<1> HIDE DEF next
<1>4. /\ \A e \in events : e.at \in Upcoming
      /\ \A d \in Duties : interest[d][1] = "wake_or" => interest[d][2] \in Upcoming
  BY DEF Upcoming, Deadlines
<1>5. \A d \in Duties : interest[d] # <<"now">>
  BY <1>1, WellRouted
<1>6. QED
  BY <1>1, <1>2, <1>3, <1>4, <1>5

\* Virtual time moves forward, to the first moment that an event or a deadline
\* waits for, and only when nothing is ready at the present one.
THEOREM TimeNeverSkips == SimulationSpec => NoTimeSkipped
<1>1. ASSUME SimulationInv, [SimulationNext]_simVars
      PROVE  [now' # now =>
                /\ now' > now
                /\ \A e \in events : e.at >= now'
                /\ \A d \in Duties : interest[d][1] = "wake_or" => interest[d][2] >= now'
                /\ \A d \in Duties : interest[d] # <<"now">>]_simVars
  BY <1>1, TimeSkipsNothing, SimulationSteps
<1>2. QED
  BY <1>1, SimulationAlways, PTL DEF SimulationSpec, NoTimeSkipped

===========================================================================
