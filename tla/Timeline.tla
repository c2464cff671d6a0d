----------------------------- MODULE Timeline -----------------------------
(***************************************************************************)
(* The simulator's event timeline (crates/calandria-sim/src/timeline):     *)
(* virtual time, and a bounded schedule of events by (moment, identity).   *)
(* Each operation takes &mut self, so it is one action; an event carries   *)
(* whatever its owner routes with it.  Simulation and ScriptedTimeline run *)
(* these operations.                                                       *)
(***************************************************************************)
EXTENDS Naturals, FiniteSets, FiniteSetsExt

CONSTANTS
  MaxEvents,    \* TimelineLimits.pending_events
  MaxBytes,     \* TimelineLimits.retained_bytes
  U64,          \* the largest u64: of an identity, of a byte count
  Moments,      \* the moments the clock's width can tell apart
  Sizes,        \* the measurements of the events that occur
  Payloads      \* what an event carries

ASSUME TimelineAssumption ==
  /\ MaxEvents \in Nat \ {0} /\ U64 \in Nat /\ MaxBytes \in 0..U64
  /\ Moments \subseteq Nat /\ Moments = 0..Max(Moments) /\ Sizes \subseteq 0..U64

VARIABLES
  now,          \* VirtualClock
  events,       \* BTreeMap<(Moment, EventId), Entry<E>>
  next_id,      \* Option<u64>: the empty set, or the next identity alone
  retained,     \* RetainedBytes
  timelinePanic \* an advance moved backward, or a rollback did not fit

timelineVars == <<now, events, next_id, retained, timelinePanic>>

\* The token of an event is its identity and moment; this timeline's, since a
\* token of another timeline is refused first.
Event == [id : 0..U64, at : Moments, retained : Sizes, payload : Payloads]

\* Empty, at an explicit moment.
TimelineInit ==
  /\ now \in Moments
  /\ events = {}
  /\ next_id = {0}
  /\ retained = 0
  /\ timelinePanic = FALSE

---------------------------------------------------------------------------
(* A plausible mistake, substituted for FirstOf: the timeline is keyed by  *)
(* identity alone.                                                         *)

FirstByIdentity(es) == {e \in es : \A f \in es : e.id <= f.id}

---------------------------------------------------------------------------
(* Operations                                                              *)

BytesOf(es) == MapThenSumSet(LAMBDA e : e.retained, es)
NextRaw(id) == {i \in {id + 1} : i <= U64}
InPast(at) == at < now

\* The checked_add of schedule_after().
TimeOverflows(delay) == now + delay \notin Moments

\* The refusals of schedule_validated(): count, bytes, width, identities.
ScheduleFails(size) ==
  \/ Cardinality(events) >= MaxEvents
  \/ retained + size > U64
  \/ retained + size > MaxBytes
  \/ next_id = {}

\* schedule_at(), and schedule_after() with its delay added; refusals change nothing.
ScheduleAt(at, size, payload) ==
  /\ ~InPast(at)
  /\ ~ScheduleFails(size)
  /\ \E id \in next_id :
       /\ next_id' = NextRaw(id)
       /\ events' = events \cup
            {[id |-> id, at |-> at, retained |-> size, payload |-> payload]}
  /\ retained' = retained + size
  /\ UNCHANGED <<now, timelinePanic>>

CancelEvent(e) ==
  /\ e \in events
  /\ events' = events \ {e}
  /\ retained' = retained - e.retained
  /\ UNCHANGED <<now, next_id, timelinePanic>>

\* VirtualClock::advance_to: a move backward is refused, which every caller in
\* the timeline answers with a panic.
ClockTo(at) ==
  /\ now' = IF at < now THEN now ELSE at
  /\ timelinePanic' = (timelinePanic \/ at < now)

\* BTreeMap::pop_first: the least (moment, identity).
FirstOf(es) ==
  {e \in es : \A f \in es : e.at < f.at \/ (e.at = f.at /\ e.id <= f.id)}

\* pop_next(): the clock moves to the first event, which leaves for delivery.
PopNext(e) ==
  /\ e \in FirstOf(events)
  /\ ClockTo(e.at)
  /\ events' = events \ {e}
  /\ retained' = retained - e.retained
  /\ UNCHANGED next_id

---------------------------------------------------------------------------
(* Properties                                                              *)

TimelineTypeOK ==
  /\ now \in Moments
  /\ events \subseteq Event
  /\ next_id \subseteq 0..U64 /\ Cardinality(next_id) <= 1
  /\ retained \in 0..U64
  /\ timelinePanic \in BOOLEAN

\* No pending event lies in the past, so pop_next()'s clock never has to move
\* backward; pending identities are distinct and below the next one.
NothingInThePast ==
  /\ ~timelinePanic
  /\ \A e \in events : e.at >= now
  /\ \A e, f \in events : e.id = f.id => e = f
  /\ \A e \in events, id \in next_id : e.id < id

\* The byte account is exact and both limits hold, so no subtraction panics.
TimelineAccounts ==
  /\ retained = BytesOf(events)
  /\ retained <= MaxBytes
  /\ Cardinality(events) <= MaxEvents

===========================================================================
