---------------------------- MODULE Schedulers ----------------------------
(***************************************************************************)
(* The built-in schedulers of the simulator                                *)
(* (crates/calandria-sim/src/scheduler) and the canonical order of the     *)
(* ready set they choose from (action.rs).  Each is a function of its own  *)
(* small state and of the ready set; Replay records runs they schedule.    *)
(***************************************************************************)
EXTENDS Naturals, Sequences, SequencesExt, FiniteSets, FiniteSetsExt

CONSTANTS
  DrawCount,       \* the values that an entropy draw can take, 2^64 in the code
  MaxSelections    \* the largest count of Seeded.selections, 2^64 - 1 in the code

ASSUME SchedulersAssumption == DrawCount \in Nat \ {0} /\ MaxSelections \in Nat

\* ActionKey: a turn of a duty, or the delivery of the event <<at, id>> to it.
ActionKey == [duty : Nat, event : {<<>>} \cup (Nat \X Nat)]
TurnKey(duty) == [duty |-> duty, event |-> <<>>]
DeliveryKey(duty, at, id) == [duty |-> duty, event |-> <<at, id>>]

\* ActionKey::cmp, with one timeline: deliveries by moment and identity first,
\* then turns by duty.
Precedes(a, b) ==
  IF a.event # <<>> /\ b.event # <<>>
  THEN \/ a.event[1] < b.event[1]
       \/ a.event[1] = b.event[1] /\ a.event[2] < b.event[2]
       \/ a.event = b.event /\ a.duty < b.duty
  ELSE IF a.event # <<>> \/ b.event # <<>> THEN a.event # <<>>
  ELSE a.duty < b.duty

\* ReadySet::actions: every ready action once, in that order.
Canonical(ready) ==
  CHOOSE s \in [1..Cardinality(ready) -> ready] :
    ToSet(s) = ready /\ \A i, j \in DOMAIN s : i < j => Precedes(s[i], s[j])

DutiesOf(ready) == {key.duty : key \in ready}

---------------------------------------------------------------------------
(* A plausible mistake, substituted for OwnerAfter: the cursor's own duty  *)
(* is a candidate again.                                                   *)

OwnerFrom(cursor, ready) ==
  LET after == {d \in DutiesOf(ready) : \E c \in cursor : d >= c}
  IN IF after # {} THEN Min(after) ELSE Min(DutiesOf(ready))

---------------------------------------------------------------------------
(* The policies                                                            *)

\* Fifo::choose
FifoChoice(ready) == Canonical(ready)[1]

\* RoundRobin::choose: the next ready duty after the cursor, or the first.
OwnerAfter(cursor, ready) ==
  LET after == {d \in DutiesOf(ready) : \E c \in cursor : d > c}
  IN IF after # {} THEN Min(after) ELSE Min(DutiesOf(ready))

\* and the first canonical action of that duty.
RoundRobinChoice(cursor, ready) ==
  FifoChoice({key \in ready : key.duty = OwnerAfter(cursor, ready)})

\* Seeded::choose scales a draw to an index; entropy is any draw.
Draws == 0..(DrawCount - 1)
SeededIndex(draw, ready) == (draw * Cardinality(ready)) \div DrawCount
SeededChoices(ready) == {Canonical(ready)[SeededIndex(draw, ready) + 1] : draw \in Draws}

\* SeededError::SelectionsExhausted
SelectionsExhausted(selections) == selections >= MaxSelections

===========================================================================
