---------------------------- MODULE TimerQueue ----------------------------
(***************************************************************************)
(* The owner-local timer queue (crates/calandria/src/timer): timers at     *)
(* absolute deadlines, bounded in number and in retained bytes, cancelled  *)
(* by exact token and delivered by (deadline, identity).                   *)
(*                                                                         *)
(* Every operation takes &mut self, so it is one action.  The BinaryHeap   *)
(* is the set of its entries: Scheduled::cmp is a total order on entries   *)
(* of distinct identities, so what pop() removes does not depend on the    *)
(* heap's layout.  Time belongs to the caller and only moves forward.      *)
(* TimedHost runs these operations.                                        *)
(***************************************************************************)
EXTENDS Time, Sequences, FiniteSets, SequencesExt, FiniteSetsExt

CONSTANTS
  Owner,        \* TimerQueue.owner
  Owners,       \* the owners whose tokens may meet this queue's
  MaxTimers,    \* TimerLimits.timers
  MaxBytes,     \* TimerLimits.retained_bytes
  FirstId,      \* starting_at's first_id
  Sizes,        \* the measurements of the values that are scheduled
  Deadlines     \* the moments at which timers are scheduled

ASSUME OwnerAssumption == Owner \in Owners
ASSUME LimitAssumption ==
  /\ MaxTimers \in Nat \ {0}
  /\ MaxBytes \in 0..U64 /\ FirstId \in 0..U64
  /\ Sizes \subseteq 0..U64 /\ Deadlines \subseteq Moments

VARIABLES
  timers,       \* BinaryHeap<Scheduled<T>>
  next_id,      \* Option<TimerId>: the empty set, or the next identity alone
  retained,     \* RetainedBytes
  now,          \* external: the moment the caller has reached
  report,       \* what the last operation answered
  accepted,     \* history: the tokens schedule() returned
  delivered,    \* history: what pop_due and drain_due_into handed out, in order
  cancelled     \* history: <<the token presented, the timer handed back>>

timerVars == <<timers, next_id, retained, now, report, accepted, delivered, cancelled>>
timerHistory == <<accepted, delivered, cancelled>>

Token == [owner : Owners, id : 0..U64, deadline : Deadlines]
Timer == [token : Token, retained : Sizes]

TimerInit ==
  /\ timers = {}
  /\ next_id = {FirstId}
  /\ retained = 0
  /\ now = 0
  /\ report = [op |-> "none"]
  /\ accepted = {}
  /\ delivered = <<>>
  /\ cancelled = {}

---------------------------------------------------------------------------
(* Plausible mistakes in this code, substituted one at a time for the      *)
(* definition they are named after to show that the properties notice.     *)

\* Equal deadlines are left to the heap.
BeforeByDeadline(a, b) ==
  \/ a.token.deadline < b.token.deadline
  \/ a.token.deadline = b.token.deadline /\ a.token.id > b.token.id

\* Identities wrap around.
CheckedNextWraps(id) == {(id + 1) % (U64 + 1)}

---------------------------------------------------------------------------
(* Helpers                                                                 *)

\* Scheduled::cmp, reversed for a max-heap: earlier deadline, then older identity.
Before(a, b) ==
  \/ a.token.deadline < b.token.deadline
  \/ a.token.deadline = b.token.deadline /\ a.token.id < b.token.id

\* TimerId::checked_next
CheckedNext(id) == {i \in {id + 1} : i <= U64}

\* Deadline::is_elapsed_at(now)
Elapsed(deadline) == ElapsedAt(deadline, now)

\* The comparison cancel() makes: the owner first, then the whole token.
Matches(t, token) == token.owner = Owner /\ t.token = token

Due == {t \in timers : Elapsed(t.token.deadline)}
Bytes(ts) == MapThenSumSet(LAMBDA t : t.retained, ts)

\* The order in which pop() takes them out of the heap.
InOrder(ts) ==
  CHOOSE s \in [1..Cardinality(ts) -> ts] :
    ToSet(s) = ts /\ \A i, j \in DOMAIN s : i < j => Before(s[i], s[j])

\* The refusals of schedule() and check_retained(), in their order.
Refusal(size) ==
  IF Cardinality(timers) >= MaxTimers THEN "capacity"
  ELSE IF retained + size > U64 THEN "overflow"
  ELSE IF retained + size > MaxBytes THEN "bytes"
  ELSE IF next_id = {} THEN "ids"
  ELSE "none"

---------------------------------------------------------------------------
(* Operations                                                              *)

Accept(deadline, size, id) ==
  LET token == [owner |-> Owner, id |-> id, deadline |-> deadline]
  IN /\ next_id' = CheckedNext(id)
     /\ timers' = timers \cup {[token |-> token, retained |-> size]}
     /\ retained' = retained + size
     /\ accepted' = accepted \cup {token}
     /\ report' = [op |-> "schedule", failure |-> "none"]
     /\ UNCHANGED <<now, delivered, cancelled>>

Refuse(failure) ==
  /\ report' = [op |-> "schedule", failure |-> failure]
  /\ UNCHANGED <<timers, next_id, retained, now, timerHistory>>

Schedule(deadline, size) ==
  IF Refusal(size) = "none" THEN \E id \in next_id : Accept(deadline, size, id)
                            ELSE Refuse(Refusal(size))

\* cancel() takes any token: a live one, a spent one, another queue's.
Cancel(token) ==
  LET found == {t \in timers : Matches(t, token)}
  IN /\ timers' = timers \ found
     /\ retained' = retained - Bytes(found)
     /\ cancelled' = cancelled \cup {<<token, t>> : t \in found}
     /\ report' = [op |-> "cancel", found |-> found # {}]
     /\ UNCHANGED <<next_id, now, accepted, delivered>>

\* drain_due_into pops due timers until the budget is spent; pop_due is a drain
\* of one whose report is dropped.
Drain(budget) ==
  LET due   == InOrder(Due)
      fired == SubSeq(due, 1, Min({budget, Len(due)}))
  IN /\ timers' = timers \ ToSet(fired)
     /\ retained' = retained - Bytes(ToSet(fired))
     /\ delivered' = delivered \o fired
     /\ report' = [op |-> "drain", fired |-> Len(fired), budget |-> budget,
                   more_due |-> Due \ ToSet(fired) # {}]
     /\ UNCHANGED <<next_id, now, accepted, cancelled>>

\* A token can only come out of schedule(): of this queue, or of another one,
\* whose identities and deadlines may coincide with this one's.
Presentable == accepted \cup {token \in Token : token.owner # Owner}

---------------------------------------------------------------------------
(* Properties                                                              *)

TimerTypeOK ==
  /\ timers \subseteq Timer
  /\ next_id \subseteq 0..U64 /\ Cardinality(next_id) <= 1
  /\ retained \in 0..U64
  /\ now \in 0..U64
  /\ accepted \subseteq Token
  /\ delivered \in Seq(Timer)
  /\ cancelled \subseteq Presentable \X Timer

\* The byte account is exact after any interleaving of admissions, cancellations
\* and deliveries, so subtract_retained() cannot panic, and both limits hold.
TimerAccounts ==
  /\ retained = Bytes(timers)
  /\ retained <= MaxBytes
  /\ Cardinality(timers) <= MaxTimers

\* A timer is pending, delivered or cancelled, once and not twice, and it is
\* cancelled by its own token: a token that outlives its timer, or comes from a
\* queue of another owner, never names a later timer.
TimerEndsOnce ==
  /\ Cardinality(timers) + Len(delivered) + Cardinality(cancelled) = Cardinality(accepted)
  /\ accepted = {t.token : t \in timers \cup ToSet(delivered)} \cup {c[1] : c \in cancelled}
  /\ \A c \in cancelled : c[2].token = c[1]

\* After drain_due_into, more_due says whether a due timer stayed behind, and none
\* does when the budget was not spent.
DrainIsHonest ==
  report.op = "drain" =>
    /\ report.more_due <=> \E t \in timers : t.token.deadline <= now
    /\ report.fired < report.budget => ~report.more_due

\* After any sequence of admissions, refusals, cancellations and drains: exact
\* accounts within both limits, honest reports, and one end for every timer.
TimerSafe == TimerTypeOK /\ TimerAccounts /\ DrainIsHonest /\ TimerEndsOnce

\* What TimerSafe rests on: this queue's identities only ascend and none is issued twice.
IdsAscend ==
  /\ IsFiniteSet(timers) /\ IsFiniteSet(cancelled) /\ IsFiniteSet(accepted)
  /\ \A a \in accepted : a.owner = Owner
  /\ \A a, b \in accepted : a.id = b.id => a = b
  /\ \A a \in accepted, id \in next_id : a.id < id

\* A pending timer is the only one of its token, and neither delivered nor cancelled.
PendingOnce ==
  /\ \A s, t \in timers : s.token = t.token => s = t
  /\ \A t \in timers, d \in ToSet(delivered) : t.token # d.token
  /\ \A t \in timers, c \in cancelled : t.token # c[1]

TimerInv == TimerSafe /\ IdsAscend /\ PendingOnce

\* The documented order: earlier deadline, then earlier admission.
Precedes(a, b) ==
  \/ a.token.deadline < b.token.deadline
  \/ a.token.deadline = b.token.deadline /\ a.token.id < b.token.id

\* Timers leave for delivery when due, earliest deadline first and, of equal
\* deadlines, in the order of their admission; whatever stays comes after.
DeliveryOrder ==
  [][LET fired == SubSeq(delivered', Len(delivered) + 1, Len(delivered'))
     IN \A i \in DOMAIN fired :
          /\ fired[i].token.deadline <= now
          /\ \A j \in (i + 1)..Len(fired) : Precedes(fired[i], fired[j])
          /\ \A t \in timers' : Precedes(fired[i], t)]_timerVars

===========================================================================
