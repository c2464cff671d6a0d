-------------------------- MODULE TimedHostProofs --------------------------
(***************************************************************************)
(* Turns, the host that obeys them, and the two owners it serves, for      *)
(* every time width, wait ceiling, limit and clock: the algebra behind     *)
(* composite duties - owners may be merged in any order and any grouping,  *)
(* and the merged turn waits exactly as long as the most urgent of them -  *)
(* (turn.rs), the decisions of a host that merges the turns of several     *)
(* owners (host/embedded.rs, host/action.rs), and the accounts, the ends   *)
(* and the order of the timers and events they own (timer, batch).         *)
(***************************************************************************)
EXTENDS TimedHost, FiniteSetTheorems, SequenceTheorems, WellFoundedInduction,
        NaturalsInduction, TLAPS

\* Every Next is one of four kinds, and only WakeOr carries a deadline.
LEMMA NextCases ==
  ASSUME NEW n \in Nexts
  PROVE  \/ n = Now \/ n = Wake \/ n = Stop
         \/ \E d \in Moments : n = WakeOr(d)
BY DEF Nexts, WakeOr, Now, Wake, Stop

\* Next::merge answers a Next, whatever its operands.
LEMMA MergeType ==
  ASSUME NEW a \in Nexts, NEW b \in Nexts
  PROVE  MergeNext(a, b) \in Nexts
BY DEF Nexts, MergeNext, Now, Wake, Stop

\* Next::merge does not depend on the order of the owners.
THEOREM MergeCommutes ==
  ASSUME NEW a \in Nexts, NEW b \in Nexts
  PROVE  MergeNext(a, b) = MergeNext(b, a)
<1>1. CASE a.kind = "wake_or" /\ b.kind = "wake_or"
  <2>1. PICK d \in Moments : a = WakeOr(d)
    BY <1>1, NextCases DEF Now, Wake, Stop
  <2>2. PICK e \in Moments : b = WakeOr(e)
    BY <1>1, NextCases DEF Now, Wake, Stop
  <2>3. d = e \/ d < e \/ e < d
    BY WidthAssumption DEF Moments
  <2> QED
    BY <1>1, <2>1, <2>2, <2>3, WidthAssumption DEF MergeNext, WakeOr, Moments
<1>2. CASE ~(a.kind = "wake_or" /\ b.kind = "wake_or")
  BY <1>2 DEF MergeNext, Nexts, Now, Wake, Stop
<1> QED BY <1>1, <1>2

\* Nor on how they are grouped.
THEOREM MergeAssociates ==
  ASSUME NEW a \in Nexts, NEW b \in Nexts, NEW c \in Nexts
  PROVE  MergeNext(a, MergeNext(b, c)) = MergeNext(MergeNext(a, b), c)
<1>1. \A n \in Nexts : n.kind = "wake_or" => n.deadline \in Nat
  BY WidthAssumption DEF Nexts, Moments, Now, Wake, Stop
<1>2. \A n \in Nexts : n.kind \in NextKinds
  BY DEF Nexts, NextKinds, Now, Wake, Stop
<1> QED
  BY <1>1, <1>2 DEF MergeNext, NextKinds, Now, Wake, Stop

\* The aggregate stops exactly when every owner does.
THEOREM StopIsUnanimousInMerge ==
  ASSUME NEW a \in Nexts, NEW b \in Nexts
  PROVE  MergeNext(a, b) = Stop <=> a = Stop /\ b = Stop
BY DEF MergeNext, Nexts, Now, Wake, Stop

\* No owner is overslept: the merged bounded wait is the shorter of the two.
THEOREM MergedWaitIsShorter ==
  ASSUME NEW a \in Nexts, NEW b \in Nexts, NEW moment \in Moments, NEW ceiling \in Spans
  PROVE  BoundedWait(MergeNext(a, b), moment, ceiling)
           = Shorter(BoundedWait(a, moment, ceiling), BoundedWait(b, moment, ceiling))
<1>1. \A n \in Nexts : n.kind = "wake_or" => n.deadline \in Nat
  BY WidthAssumption DEF Nexts, Moments, Now, Wake, Stop
<1>2. \A n \in Nexts : n.kind \in NextKinds
  BY DEF Nexts, NextKinds, Now, Wake, Stop
<1>3. moment \in Nat /\ ceiling \in Nat
  BY WidthAssumption DEF Moments, Spans
<1> QED
  BY <1>1, <1>2, <1>3
     DEF BoundedWait, MergeNext, Shorter, RemainingAt, NextKinds, Now, Wake, Stop

\* The host waits for a Next that does not stop exactly as long as bounded_wait
\* says, and does not wait at all for nothing.
THEOREM HostWaitsAsBounded ==
  ASSUME NEW n \in Nexts, n # Stop, NEW moment \in Moments
  PROVE  ForNext(n, moment) = FromWait(BoundedWait(n, moment, WaitCeiling))
BY DEF ForNext, BoundedWait, FromWait, Nexts, Now, Wake, Stop

---------------------------------------------------------------------------
(* The host.                                                                *)

\* A decision to run again no later than d.
Covers(n, d) == n.kind = "now" \/ (n.kind = "wake_or" /\ n.deadline <= d)

\* Between the turn and the decision, the merged turn already stands for every
\* owner: what it reported, and what it owns.
Decided ==
  at = "observe" =>
    /\ \A n \in reported : /\ n.kind = "now" => turn.next.kind = "now"
                           /\ n.kind = "wake_or" => Covers(turn.next, n.deadline)
    /\ \A t \in timers : Covers(turn.next, t.token.deadline)
    /\ turn.next.kind = "stop" => reported = {Stop} /\ timers = {} /\ ready.events = <<>>

\* The inductive invariant.
HostInv ==
  /\ HostTypeOK
  /\ \A t \in timers : t.token.deadline \in Deadlines
  /\ hostPhase = "stopped" => at = "done"
  /\ Decided
  /\ NeverOversleeps
  /\ StopIsUnanimous

---------------------------------------------------------------------------
(* Lemmas                                                                  *)

\* Clock and deadlines are natural numbers.
LEMMA Widths ==
  /\ Moments \subseteq Nat /\ Horizon \in Moments /\ Deadlines \subseteq Moments
  /\ WaitCeiling \in Nat /\ U64 \in Nat
BY WidthAssumption, CeilingAssumption, LimitAssumption, HostAssumption DEF Moments, Spans

\* A deadline in a decision is a natural number.
LEMMA DeadlineType == \A n \in Nexts : n.kind = "wake_or" => n.deadline \in Nat
BY WidthAssumption DEF Nexts, Moments, Now, Wake, Stop

\* Each owner of the queue answers a Next.
LEMMA NextsOfOwners ==
  ASSUME \A t \in timers : t.token.deadline \in Deadlines
  PROVE  TimersNexts \subseteq Nexts /\ ReadyNexts \subseteq Nexts
<1>1. Resting \subseteq Nexts /\ Now \in Nexts
  BY DEF Resting, Nexts, Now
<1>2. \A d \in Deadlines : WakeOr(d) \in Nexts
  BY Widths DEF Nexts, WakeOr
<1> QED
  BY <1>1, <1>2 DEF TimersNexts, ReadyNexts

\* Turn::merge keeps its type and answers for both operands.
LEMMA MergeCovers ==
  ASSUME NEW a \in Turns, NEW b \in Turns
  PROVE  /\ MergeTurn(a, b) \in Turns
         /\ \A n \in {a.next, b.next} :
              /\ n.kind = "now" => MergeTurn(a, b).next.kind = "now"
              /\ n.kind = "wake_or" => Covers(MergeTurn(a, b).next, n.deadline)
         /\ MergeTurn(a, b).next.kind = "stop" => a.next = Stop /\ b.next = Stop
<1>1. \A n \in Nexts : n.kind = "wake_or" => n.deadline \in Nat
  BY DeadlineType
<1>2. a.next \in Nexts /\ b.next \in Nexts /\ a.work \in 0..U64 /\ b.work \in 0..U64
  BY DEF Turns
<1>3. SaturatingAdd(a.work, b.work) \in 0..U64
  BY <1>2, Widths DEF SaturatingAdd
<1>4. MergeNext(a.next, b.next) \in Nexts
  BY <1>2 DEF MergeNext, Nexts, Now, Wake, Stop
<1>5. MergeTurn(a, b) \in Turns
  BY <1>3, <1>4 DEF MergeTurn, Turns
<1>6. \A n \in {a.next, b.next} :
        /\ n.kind = "now" => MergeNext(a.next, b.next).kind = "now"
        /\ n.kind = "wake_or" => Covers(MergeNext(a.next, b.next), n.deadline)
  BY <1>1, <1>2 DEF MergeNext, Covers, Nexts, Now, Wake, Stop
<1>7. MergeNext(a.next, b.next).kind = "stop" => a.next = Stop /\ b.next = Stop
  BY <1>2 DEF MergeNext, Nexts, Now, Wake, Stop
<1> QED
  BY <1>5, <1>6, <1>7 DEF MergeTurn

---------------------------------------------------------------------------
(* The invariant                                                           *)

\* EmbeddedHost::new establishes it.
LEMMA HostInitInv == HostInit => HostInv
BY Widths DEF HostInit, TimerInit, HostInv, HostTypeOK, Decided, NeverOversleeps, StopIsUnanimous,
   Idle, Turns, Nexts, Stop

\* What the timer queue's own operations keep, whichever one it is.
LEMMA QueueStep ==
  ASSUME HostInv,
         \/ \E d \in Deadlines, size \in Sizes : Schedule(d, size)
         \/ \E token \in Presentable : Cancel(token)
         \/ \E budget \in 1..MaxTimers : Drain(budget)
  PROVE  now' = now /\ \A t \in timers' : t.token.deadline \in Deadlines
<1>1. ASSUME NEW d \in Deadlines, NEW size \in Sizes, Schedule(d, size)
      PROVE  now' = now /\ \A t \in timers' : t.token.deadline \in Deadlines
  BY <1>1 DEF Schedule, Accept, Refuse, HostInv
<1>2. ASSUME NEW token \in Presentable, Cancel(token)
      PROVE  now' = now /\ \A t \in timers' : t.token.deadline \in Deadlines
  BY <1>2 DEF Cancel, HostInv
<1>3. ASSUME NEW budget \in 1..MaxTimers, Drain(budget)
      PROVE  now' = now /\ \A t \in timers' : t.token.deadline \in Deadlines
  BY <1>3 DEF Drain, HostInv
<1> QED
  BY <1>1, <1>2, <1>3

\* Every step keeps the invariant.
LEMMA HostNextInv == HostInv /\ [HostNext]_vars => HostInv'
<1> SUFFICES ASSUME HostInv, [HostNext]_vars PROVE HostInv'
  OBVIOUS
<1> USE DEF HostInv
<1>1. CASE BeginStep
  <2>1. CASE ObserveFails
    BY <1>1, <2>1 DEF ObserveFails, timerVars, timerHistory, HostTypeOK, Decided, NeverOversleeps,
       StopIsUnanimous
  <2>2. CASE Observed(clock) /\ at' = "turn" /\ UNCHANGED <<hostPhase, turn, wakeAt, reported>>
    BY <1>1, <2>2 DEF BeginStep, Observed, HostTypeOK, Decided, NeverOversleeps, StopIsUnanimous
  <2> QED
    BY <1>1, <2>1, <2>2 DEF BeginStep
<1>2. CASE EndStep
  <2>1. CASE ObserveFails
    BY <2>1 DEF ObserveFails, timerVars, timerHistory, HostTypeOK, Decided, NeverOversleeps,
       StopIsUnanimous
  <2>2. CASE ~ObserveFails
    <3> DEFINE action == ForNext(turn.next, clock)
    <3>1. /\ at = "observe" /\ Observed(clock) /\ turn' = Idle
          /\ at' = CASE action.kind = "continue" -> "idle"
                     [] action.kind = "wait" -> "waiting"
                     [] action.kind = "stop" -> "done"
          /\ wakeAt' = IF action.kind = "wait" THEN clock + action.span ELSE 0
          /\ hostPhase' = IF action.kind = "stop" THEN "stopped" ELSE hostPhase
          /\ reported' = IF action.kind = "continue" THEN {} ELSE reported
      BY <1>2, <2>2 DEF EndStep
    <3>2. now' = clock /\ clock' = clock /\ timers' = timers /\ ready' = ready
      BY <3>1 DEF Observed
    <3>3. turn.next \in Nexts /\ clock \in Nat /\ reported \subseteq Nexts
      BY Widths DEF HostTypeOK, Turns
    <3>4. turn' \in Turns
      BY <3>1, Widths DEF Idle, Turns, Nexts, Stop
    <3>5. CASE action.kind = "continue"
      BY <3>1, <3>2, <3>4, <3>5 DEF HostTypeOK, Decided, NeverOversleeps, StopIsUnanimous
    <3>6. CASE action.kind = "wait"
      <4>1. /\ action.span \in Nat /\ action.span > 0 /\ action.span <= WaitCeiling
            /\ turn.next.kind \in {"wake", "wake_or"}
        BY <3>3, <3>6, Widths DEF ForNext, FromWait, Continue, Wait, Finish, Shorter, RemainingAt,
           Nexts, Now, Wake, Stop, Moments
      <4>2. turn.next.kind = "wake_or" =>
              turn.next.deadline \in Nat /\ clock + action.span <= turn.next.deadline
        BY <3>3, <3>6, Widths DEF ForNext, FromWait, Continue, Wait, Finish, Shorter, RemainingAt,
           Nexts, Now, Wake, Stop, Moments
      <4>3. at' = "waiting" /\ wakeAt' = clock + action.span /\ hostPhase' = hostPhase
            /\ reported' = reported
        BY <3>1, <3>6
      <4>4. \A t \in timers : wakeAt' <= t.token.deadline
        BY <3>1, <3>3, <4>1, <4>2, <4>3, Widths DEF Decided, Covers
      <4>5. \A n \in reported : n.kind # "now" /\ (n.kind = "wake_or" => wakeAt' <= n.deadline)
        <5> SUFFICES ASSUME NEW n \in reported
                     PROVE  n.kind # "now" /\ (n.kind = "wake_or" => wakeAt' <= n.deadline)
          OBVIOUS
        <5>1. n.kind = "wake_or" => n.deadline \in Nat
          BY <3>3, DeadlineType
        <5> QED
          BY <3>1, <3>3, <4>1, <4>2, <4>3, <5>1 DEF Decided, Covers
      <4>6. NeverOversleeps'
        BY <3>2, <3>3, <4>1, <4>3, <4>4, <4>5, Widths DEF NeverOversleeps
      <4> QED
        BY <3>1, <3>2, <3>3, <3>4, <4>1, <4>3, <4>6, Widths DEF HostTypeOK, Decided, StopIsUnanimous
    <3>7. CASE action.kind = "stop"
      <4>1. turn.next.kind = "stop"
        BY <3>3, <3>7 DEF ForNext, FromWait, Continue, Wait, Finish, Nexts, Now, Wake, Stop
      <4>2. at' = "done" /\ wakeAt' = 0 /\ hostPhase' = "stopped" /\ reported' = reported
        BY <3>1, <3>7
      <4> QED
        BY <3>1, <3>2, <3>4, <4>1, <4>2 DEF HostTypeOK, Decided, NeverOversleeps, StopIsUnanimous
    <3>8. action.kind \in {"continue", "wait", "stop"}
      BY <3>3 DEF ForNext, FromWait, Continue, Wait, Finish
    <3> QED
      BY <3>5, <3>6, <3>7, <3>8
  <2> QED
    BY <2>1, <2>2
<1>3. ASSUME NEW budget \in 1..MaxTimers, FireDue(budget) PROVE HostInv'
  <2>1. Drain(budget) /\ at = "turn" /\ at' = "drained"
        /\ UNCHANGED <<clock, hostPhase, turn, wakeAt, reported, ready>>
    BY <1>3 DEF FireDue
  <2>2. now' = now /\ \A t \in timers' : t.token.deadline \in Deadlines
    BY <2>1, QueueStep
  <2> QED
    BY <2>1, <2>2 DEF HostTypeOK, Decided, NeverOversleeps, StopIsUnanimous
<1>4. ASSUME NEW a \in Reports(TimersNexts), NEW b \in Reports(ReadyNexts), EndTurn(a, b)
      PROVE  HostInv'
  <2>1. /\ at = "drained" /\ at' = "observe"
        /\ turn' = MergeTurn(a, b) /\ reported' = {a.next, b.next}
        /\ timers' = timers /\ now' = now /\ clock' = clock
        /\ hostPhase' = hostPhase /\ wakeAt' = wakeAt /\ ready' = ready
    BY <1>4 DEF EndTurn, timerVars
  <2>2. a.next \in TimersNexts /\ b.next \in ReadyNexts
    BY DEF Reports
  <2>3. a \in Turns /\ b \in Turns
    BY NextsOfOwners, HostAssumption DEF Reports, Turns
  <2>4. \A t \in timers : Covers(turn'.next, t.token.deadline)
    <3> SUFFICES ASSUME NEW t \in timers PROVE Covers(turn'.next, t.token.deadline)
      OBVIOUS
    <3>1. PICK x \in timers : /\ a.next = WakeOr(x.token.deadline)
                              /\ x.token.deadline <= t.token.deadline
      BY <2>2 DEF TimersNexts
    <3>2. Covers(turn'.next, x.token.deadline)
      BY <2>1, <2>3, <3>1, MergeCovers DEF WakeOr
    <3>3. x.token.deadline \in Nat /\ t.token.deadline \in Nat
      BY Widths
    <3>4. turn'.next.kind = "wake_or" => turn'.next.deadline \in Nat
      BY <2>1, <2>3, MergeCovers, DeadlineType DEF Turns
    <3> QED
      BY <3>1, <3>2, <3>3, <3>4 DEF Covers
  <2>5. turn'.next.kind = "stop" => reported' = {Stop} /\ timers = {} /\ ready.events = <<>>
    <3> SUFFICES ASSUME turn'.next.kind = "stop"
                 PROVE  reported' = {Stop} /\ timers = {} /\ ready.events = <<>>
      OBVIOUS
    <3>1. a.next = Stop /\ b.next = Stop
      BY <2>1, <2>3, MergeCovers
    <3>2. timers = {}
      BY <2>2, <3>1 DEF TimersNexts, WakeOr, Stop
    <3>3. ready.events = <<>>
      BY <2>2, <3>1 DEF ReadyNexts, WakeOr, Stop, Now
    <3> QED
      BY <2>1, <3>1, <3>2, <3>3
  <2>6. Decided'
    BY <2>1, <2>3, <2>4, <2>5, MergeCovers DEF Decided
  <2>7. turn' \in Turns /\ reported' \subseteq Nexts
    BY <2>1, <2>3, MergeCovers DEF Turns
  <2> QED
    BY <2>1, <2>6, <2>7 DEF HostTypeOK, NeverOversleeps, StopIsUnanimous
<1>5. CASE TimerWork
  <2>1. InTurn /\ UNCHANGED <<hostVars, ready>>
    BY <1>5 DEF TimerWork
  <2>2. now' = now /\ \A t \in timers' : t.token.deadline \in Deadlines
    BY <1>5, QueueStep DEF TimerWork
  <2> QED
    BY <2>1, <2>2 DEF InTurn, hostVars, HostTypeOK, Decided, NeverOversleeps, StopIsUnanimous
<1>6. CASE ReadyWork
  <2>1. InTurn /\ UNCHANGED <<hostVars, timerVars>>
    BY <1>6 DEF ReadyWork
  <2> QED
    BY <2>1 DEF InTurn, hostVars, timerVars, HostTypeOK, Decided, NeverOversleeps, StopIsUnanimous
<1>7. CASE FailTurn
  BY <1>7 DEF FailTurn, timerVars, HostTypeOK, Decided, NeverOversleeps, StopIsUnanimous
<1>8. CASE Resume \/ Notified
  BY <1>8 DEF Resume, Notified, EndWait, timerVars, HostTypeOK, Decided, NeverOversleeps,
     StopIsUnanimous
<1>9. CASE Tick
  <2>1. clock' \in 0..Horizon /\ now' \in 0..clock'
    BY <1>9, Widths DEF Tick, timerVars, HostTypeOK, Moments
  <2> QED
    BY <1>9, <2>1 DEF Tick, timerVars, HostTypeOK, Decided, NeverOversleeps, StopIsUnanimous
<1>10. CASE UNCHANGED vars
  BY <1>10 DEF vars, hostVars, timerVars, HostTypeOK, Decided, NeverOversleeps, StopIsUnanimous
<1> QED
  BY <1>1, <1>2, <1>3, <1>4, <1>5, <1>6, <1>7, <1>8, <1>9, <1>10 DEF HostNext, HostStep

---------------------------------------------------------------------------
(* The theorem                                                             *)

\* HostSafe for every instance: whatever the clock does between the start of a turn,
\* its completion and the end of the wait, a host of several owners never sleeps
\* past a deadline of any of them and stops only when all of them have.
THEOREM HostSafety == HostSpec => []HostSafe
<1>1. HostInit => HostInv
  BY HostInitInv
<1>2. HostInv /\ [HostNext]_vars => HostInv'
  BY HostNextInv
<1>3. HostInv => HostSafe
  BY DEF HostInv, HostSafe
<1> QED
  BY <1>1, <1>2, <1>3, PTL DEF HostSpec

---------------------------------------------------------------------------
(* Sums over finite sets: of w[x] for the x in T.  The byte accounts of    *)
(* queue and batch are such sums; a recursive function has no equation     *)
(* until one is shown to exist, and each fact comes from a least           *)
(* counterexample.                                                         *)

\* The element that the sum takes next.
Next1(s) == CHOOSE x \in s : TRUE

\* f gives the sum of every subset of T.
Sums(w, f, T) ==
  f = [s \in SUBSET T |-> IF s = {} THEN 0 ELSE w[Next1(s)] + f[s \ {Next1(s)}]]

Total(w, T) == (CHOOSE f : Sums(w, f, T))[T]

\* A set of natural numbers has a least one.
LEMMA LeastNatural ==
  ASSUME NEW B \in SUBSET Nat, B # {}
  PROVE  \E n \in B : \A m \in Nat : m < n => m \notin B
<1>1. PICK n \in B : \A m \in B : ~(<<m, n>> \in OpToRel(<, Nat))
  BY NatLessThanWellFounded, WFMin, Zenon
<1>2. \A m \in B : ~(m < n)
  BY <1>1, Zenon DEF OpToRel
<1>3. QED
  BY <1>2

\* A finite set without one of its elements.
LEMMA Without ==
  ASSUME NEW s, IsFiniteSet(s), s # {}
  PROVE  /\ Next1(s) \in s
         /\ \A x \in s : /\ IsFiniteSet(s \ {x}) /\ Cardinality(s) \in Nat
                         /\ Cardinality(s \ {x}) \in Nat
                         /\ Cardinality(s \ {x}) < Cardinality(s)
<1>1. Next1(s) \in s
  BY DEF Next1
<1>2. ASSUME NEW x \in s
      PROVE  /\ IsFiniteSet(s \ {x}) /\ Cardinality(s) \in Nat
             /\ Cardinality(s \ {x}) \in Nat
             /\ Cardinality(s \ {x}) < Cardinality(s)
  <2>1. IsFiniteSet(s \ {x}) /\ Cardinality(s \ {x}) = Cardinality(s) - 1
    BY <1>2, FS_RemoveElement
  <2>2. Cardinality(s) \in Nat /\ Cardinality(s \ {x}) \in Nat
    BY <2>1, FS_CardinalityType
  <2>3. QED
    BY <2>1, <2>2
<1>3. QED
  BY <1>1, <1>2

\* Sums of the same weights agree where both are defined.
LEMMA SumsUnique ==
  ASSUME NEW w, NEW v, NEW T, NEW U, NEW f, NEW g, Sums(w, f, T), Sums(v, g, U),
         IsFiniteSet(T), NEW u \in SUBSET T, u \subseteq U, \A x \in u : w[x] = v[x]
  PROVE  f[u] = g[u]
<1> DEFINE Bad == {n \in Nat : \E s \in SUBSET u : Cardinality(s) = n /\ f[s] # g[s]}
<1>1. \A s \in SUBSET u : f[s] = IF s = {} THEN 0 ELSE w[Next1(s)] + f[s \ {Next1(s)}]
  BY DEF Sums
<1>2. \A s \in SUBSET u : g[s] = IF s = {} THEN 0 ELSE v[Next1(s)] + g[s \ {Next1(s)}]
  BY DEF Sums
<1>3. IsFiniteSet(u) /\ Cardinality(u) \in Nat
  BY FS_Subset, FS_CardinalityType
<1>4. ASSUME Bad # {} PROVE FALSE
  <2>1. PICK n \in Bad : \A m \in Nat : m < n => m \notin Bad
    BY <1>4, LeastNatural
  <2>2. PICK s \in SUBSET u : Cardinality(s) = n /\ f[s] # g[s]
    BY <2>1
  <2>3. s # {} /\ IsFiniteSet(s)
    BY <2>2, <1>1, <1>2, <1>3, FS_Subset
  <2> DEFINE r == s \ {Next1(s)}
  <2>4. r \in SUBSET u /\ Cardinality(r) \in Nat /\ Cardinality(r) < n /\ Next1(s) \in u
    BY <2>2, <2>3, Without
  <2>5. Cardinality(r) \notin Bad
    BY <2>1, <2>4
  <2>6. f[r] = g[r]
    BY <2>4, <2>5
  <2>7. QED
    BY <2>2, <2>3, <2>4, <2>6, <1>1, <1>2
<1>5. Cardinality(u) \notin Bad /\ u \in SUBSET u
  BY <1>4
<1>6. QED
  BY <1>3, <1>5

\* Every finite set has one.
LEMMA SumsExist ==
  ASSUME NEW w, NEW T, IsFiniteSet(T)
  PROVE  \E f : Sums(w, f, T)
<1> DEFINE Bad == {n \in Nat : \E s \in SUBSET T : Cardinality(s) = n /\ ~\E f : Sums(w, f, s)}
<1>1. ASSUME Bad # {} PROVE FALSE
  <2>1. PICK n \in Bad : \A m \in Nat : m < n => m \notin Bad
    BY <1>1, LeastNatural
  <2>2. PICK s \in SUBSET T : Cardinality(s) = n /\ ~\E f : Sums(w, f, s)
    BY <2>1
  <2>3. IsFiniteSet(s)
    BY FS_Subset
  <2> DEFINE sol(r) == CHOOSE f : Sums(w, f, r)
  <2>4. \A r \in SUBSET s : r # s => Sums(w, sol(r), r) /\ IsFiniteSet(r)
    <3> SUFFICES ASSUME NEW r \in SUBSET s, r # s PROVE Sums(w, sol(r), r) /\ IsFiniteSet(r)
      OBVIOUS
    <3>1. IsFiniteSet(r) /\ Cardinality(r) <= n /\ Cardinality(r) # n
      BY <2>2, <2>3, FS_Subset
    <3>2. Cardinality(r) \in Nat /\ Cardinality(r) < n
      BY <3>1, FS_CardinalityType
    <3>3. \E f : Sums(w, f, r)
      BY <2>1, <3>2
    <3>4. QED
      BY <3>1, <3>3
  <2> HIDE DEF sol
  <2> DEFINE total(r) == IF r = {} THEN 0
                         ELSE w[Next1(r)] + sol(r \ {Next1(r)})[r \ {Next1(r)}]
             h == [r \in SUBSET s |-> IF r = s THEN total(s) ELSE sol(r)[r]]
  <2>5. \A r \in SUBSET s : r # s => sol(r)[r] = total(r)
    <3> SUFFICES ASSUME NEW r \in SUBSET s, r # s PROVE sol(r)[r] = total(r)
      OBVIOUS
    <3>1. sol(r)[r] = IF r = {} THEN 0 ELSE w[Next1(r)] + sol(r)[r \ {Next1(r)}]
      BY <2>4 DEF Sums
    <3>2. CASE r = {}
      BY <3>1, <3>2
    <3>3. CASE r # {}
      <4> DEFINE q == r \ {Next1(r)}
      <4>1. q \in SUBSET s /\ q # s /\ q \in SUBSET r
        BY <3>3
      <4>2. Sums(w, sol(r), r) /\ Sums(w, sol(q), q) /\ IsFiniteSet(r)
        BY <2>4, <4>1
      <4>3. sol(r)[q] = sol(q)[q]
        BY <4>1, <4>2, SumsUnique
      <4>4. QED
        BY <3>1, <3>3, <4>3
    <3>4. QED BY <3>2, <3>3
  <2>6. \A r \in SUBSET s : h[r] = total(r)
    BY <2>5
  <2>7. ASSUME NEW r \in SUBSET s, r # {}
        PROVE  h[r \ {Next1(r)}] = sol(r \ {Next1(r)})[r \ {Next1(r)}]
    <3>1. r \ {Next1(r)} \in SUBSET s /\ r \ {Next1(r)} # s
      BY <2>7 DEF Next1
    <3>2. QED
      BY <3>1
  <2>8. \A r \in SUBSET s :
          h[r] = IF r = {} THEN 0 ELSE w[Next1(r)] + h[r \ {Next1(r)}]
    BY <2>6, <2>7
  <2> HIDE DEF total
  <2>9. h = [r \in SUBSET s |-> h[r]]
    OBVIOUS
  <2> HIDE DEF h
  <2>10. h = [r \in SUBSET s |-> IF r = {} THEN 0 ELSE w[Next1(r)] + h[r \ {Next1(r)}]]
    BY <2>8, <2>9
  <2>11. QED
    BY <2>2, <2>10 DEF Sums
<1>2. Cardinality(T) \in Nat /\ Cardinality(T) \notin Bad /\ T \in SUBSET T
  BY <1>1, FS_CardinalityType
<1>3. QED
  BY <1>2

\* The equation that defines Total().
LEMMA TotalUnfold ==
  ASSUME NEW w, NEW T, IsFiniteSet(T)
  PROVE  Total(w, T) = IF T = {} THEN 0 ELSE w[Next1(T)] + Total(w, T \ {Next1(T)})
<1> DEFINE f == CHOOSE f : Sums(w, f, T)
           R == T \ {Next1(T)}
           g == CHOOSE g : Sums(w, g, R)
<1>1. Sums(w, f, T)
  BY SumsExist
<1>2. Total(w, T) = f[T]
  BY DEF Total
<1>3. f[T] = IF T = {} THEN 0 ELSE w[Next1(T)] + f[R]
  BY <1>1 DEF Sums
<1>4. CASE T = {}
  BY <1>2, <1>3, <1>4
<1>5. CASE T # {}
  <2>1. IsFiniteSet(R)
    BY FS_RemoveElement
  <2>2. Sums(w, g, R) /\ Total(w, R) = g[R]
    BY <2>1, SumsExist DEF Total
  <2>3. f[R] = g[R]
    BY <1>1, <2>2, SumsUnique
  <2>4. QED
    BY <1>2, <1>3, <1>5, <2>2, <2>3
<1>6. QED BY <1>4, <1>5

LEMMA TotalEmpty == ASSUME NEW w PROVE Total(w, {}) = 0
<1>1. IsFiniteSet({})
  BY FS_EmptySet
<1>2. QED
  BY <1>1, TotalUnfold

\* Equal weights give equal totals.
LEMMA TotalEqual ==
  ASSUME NEW w, NEW v, NEW T, IsFiniteSet(T), \A x \in T : w[x] = v[x]
  PROVE  Total(w, T) = Total(v, T)
<1>1. Sums(w, CHOOSE f : Sums(w, f, T), T) /\ Sums(v, CHOOSE f : Sums(v, f, T), T)
  BY SumsExist
<1>2. QED
  BY <1>1, SumsUnique DEF Total

\* A sum of sizes is a size.
LEMMA TotalType ==
  ASSUME NEW w, NEW T, IsFiniteSet(T), \A x \in T : w[x] \in Nat
  PROVE  Total(w, T) \in Nat
<1> DEFINE Bad == {n \in Nat : \E s \in SUBSET T : Cardinality(s) = n /\ Total(w, s) \notin Nat}
<1>1. ASSUME Bad # {} PROVE FALSE
  <2>1. PICK n \in Bad : \A m \in Nat : m < n => m \notin Bad
    BY <1>1, LeastNatural
  <2>2. PICK s \in SUBSET T : Cardinality(s) = n /\ Total(w, s) \notin Nat
    BY <2>1
  <2>3. IsFiniteSet(s)
    BY FS_Subset
  <2>4. s # {}
    BY <2>2, TotalEmpty
  <2> DEFINE r == s \ {Next1(s)}
  <2>5. r \in SUBSET T /\ Cardinality(r) \in Nat /\ Cardinality(r) < n /\ Next1(s) \in T
    BY <2>2, <2>3, <2>4, Without
  <2>6. Cardinality(r) \notin Bad
    BY <2>1, <2>5
  <2>7. Total(w, r) \in Nat
    BY <2>5, <2>6
  <2>8. QED
    BY <2>2, <2>3, <2>4, <2>5, <2>7, TotalUnfold
<1>2. Cardinality(T) \in Nat /\ Cardinality(T) \notin Bad /\ T \in SUBSET T
  BY <1>1, FS_CardinalityType
<1>3. QED
  BY <1>2

\* Any element may be taken out first.
LEMMA TotalRemove ==
  ASSUME NEW w, NEW T, IsFiniteSet(T), \A x \in T : w[x] \in Nat, NEW e \in T
  PROVE  Total(w, T) = w[e] + Total(w, T \ {e})
<1> DEFINE Bad == {n \in Nat : \E s \in SUBSET T, x \in T :
                     /\ x \in s /\ Cardinality(s) = n
                     /\ Total(w, s) # w[x] + Total(w, s \ {x})}
<1>1. ASSUME Bad # {} PROVE FALSE
  <2>1. PICK n \in Bad : \A m \in Nat : m < n => m \notin Bad
    BY <1>1, LeastNatural
  <2>2. PICK s \in SUBSET T, x \in T : /\ x \in s /\ Cardinality(s) = n
                                       /\ Total(w, s) # w[x] + Total(w, s \ {x})
    BY <2>1
  <2>3. IsFiniteSet(s) /\ s # {}
    BY <2>2, FS_Subset
  <2> DEFINE c == Next1(s)
  <2>4. c \in s /\ Total(w, s) = w[c] + Total(w, s \ {c})
    BY <2>3, Without, TotalUnfold
  <2>5. c # x
    BY <2>2, <2>4
  <2>6. /\ Cardinality(s \ {c}) \in Nat /\ Cardinality(s \ {c}) < n
        /\ Cardinality(s \ {x}) \in Nat /\ Cardinality(s \ {x}) < n
    BY <2>2, <2>3, <2>4, Without
  <2>7. Total(w, s \ {c}) = w[x] + Total(w, (s \ {c}) \ {x})
    <3>1. s \ {c} \in SUBSET T /\ x \in s \ {c}
      BY <2>2, <2>4, <2>5
    <3>2. Cardinality(s \ {c}) \notin Bad
      BY <2>1, <2>6
    <3>3. QED
      BY <3>1, <3>2, <2>6
  <2>8. Total(w, s \ {x}) = w[c] + Total(w, (s \ {x}) \ {c})
    <3>1. s \ {x} \in SUBSET T /\ c \in s \ {x} /\ c \in T
      BY <2>2, <2>4, <2>5
    <3>2. Cardinality(s \ {x}) \notin Bad
      BY <2>1, <2>6
    <3>3. QED
      BY <3>1, <3>2, <2>6
  <2>9. (s \ {c}) \ {x} = (s \ {x}) \ {c}
    OBVIOUS
  <2>10. Total(w, (s \ {c}) \ {x}) \in Nat
    <3>1. IsFiniteSet((s \ {c}) \ {x})
      BY <2>3, FS_RemoveElement
    <3>2. QED
      BY <3>1, TotalType
  <2>11. w[c] \in Nat /\ w[x] \in Nat
    BY <2>4
  <2>12. ASSUME NEW a \in Nat, NEW b \in Nat, NEW rest \in Nat
         PROVE  a + (b + rest) = b + (a + rest)
    OBVIOUS
  <2>13. w[c] + (w[x] + Total(w, (s \ {c}) \ {x})) = w[x] + (w[c] + Total(w, (s \ {c}) \ {x}))
    BY <2>10, <2>11, <2>12
  <2>14. Total(w, s) = w[c] + (w[x] + Total(w, (s \ {c}) \ {x}))
    BY <2>4, <2>7, Zenon
  <2>15. w[x] + Total(w, s \ {x}) = w[x] + (w[c] + Total(w, (s \ {c}) \ {x}))
    BY <2>8, <2>9, Zenon
  <2>16. QED
    BY <2>2, <2>13, <2>14, <2>15, Zenon
<1>2. Cardinality(T) \in Nat /\ T \in SUBSET T
  BY FS_CardinalityType
<1>3. Cardinality(T) \notin Bad
  BY <1>1
<1>4. QED
  BY <1>2, <1>3

\* The totals of two disjoint sets add up.
LEMMA TotalUnion ==
  ASSUME NEW w, NEW S, NEW T, IsFiniteSet(S), IsFiniteSet(T), S \cap T = {},
         \A x \in S \cup T : w[x] \in Nat
  PROVE  Total(w, S \cup T) = Total(w, S) + Total(w, T)
<1> DEFINE Bad == {n \in Nat : \E t \in SUBSET T :
                     /\ Cardinality(t) = n
                     /\ Total(w, S \cup t) # Total(w, S) + Total(w, t)}
<1>1. ASSUME Bad # {} PROVE FALSE
  <2>1. PICK n \in Bad : \A m \in Nat : m < n => m \notin Bad
    BY <1>1, LeastNatural
  <2>2. PICK t \in SUBSET T : /\ Cardinality(t) = n
                             /\ Total(w, S \cup t) # Total(w, S) + Total(w, t)
    BY <2>1
  <2>3. IsFiniteSet(t) /\ IsFiniteSet(S \cup t)
    BY FS_Subset, FS_Union
  <2>4. Total(w, S) \in Nat /\ \A u \in SUBSET T : Total(w, u) \in Nat
    BY FS_Subset, TotalType
  <2>5. t # {}
    <3>1. S \cup {} = S /\ Total(w, S) = Total(w, S) + 0
      BY <2>4
    <3>2. QED
      BY <3>1, <2>2, TotalEmpty
  <2> DEFINE c == Next1(t)
             r == t \ {c}
  <2>6. c \in t /\ r \in SUBSET T /\ Cardinality(r) \in Nat /\ Cardinality(r) < n
    BY <2>2, <2>3, <2>5, Without
  <2>7. Total(w, S \cup r) = Total(w, S) + Total(w, r)
    <3>1. Cardinality(r) \notin Bad
      BY <2>1, <2>6
    <3>2. QED
      BY <3>1, <2>6
  <2>8. (S \cup t) \ {c} = S \cup r /\ c \in S \cup t
    BY <2>6
  <2>9. Total(w, S \cup t) = w[c] + Total(w, S \cup r)
    BY <2>3, <2>8, TotalRemove
  <2>10. Total(w, t) = w[c] + Total(w, r)
    BY <2>3, <2>6, TotalRemove
  <2>11. w[c] \in Nat /\ Total(w, r) \in Nat
    BY <2>4, <2>6
  <2>12. QED
    BY <2>2, <2>4, <2>7, <2>9, <2>10, <2>11
<1>2. Cardinality(T) \in Nat /\ T \in SUBSET T
  BY FS_CardinalityType
<1>3. Cardinality(T) \notin Bad
  BY <1>1
<1>4. QED
  BY <1>2, <1>3

---------------------------------------------------------------------------
(* The queue's byte account as such a sum                                  *)

Weight == [t \in Timer |-> t.retained]

TimerSums(f, ts) ==
  f = [s \in SUBSET ts |-> IF s = {} THEN 0 ELSE Next1(s).retained + f[s \ {Next1(s)}]]

LEMMA BytesTotal ==
  ASSUME NEW ts \in SUBSET Timer, IsFiniteSet(ts)
  PROVE  Bytes(ts) = Total(Weight, ts)
<1> DEFINE f == CHOOSE f : TimerSums(f, ts)
           g == CHOOSE g : Sums(Weight, g, ts)
<1>1. Bytes(ts) = f[ts]
  BY DEF Bytes, MapThenSumSet, MapThenFoldSet, TimerSums, Next1
<1>2. ASSUME NEW h PROVE TimerSums(h, ts) <=> Sums(Weight, h, ts)
  <2>1. ASSUME NEW s \in SUBSET ts, s # {} PROVE Weight[Next1(s)] = Next1(s).retained
    <3>1. Next1(s) \in Timer
      BY <2>1 DEF Next1
    <3>2. QED
      BY <3>1 DEF Weight
  <2>2. [s \in SUBSET ts |-> IF s = {} THEN 0 ELSE Next1(s).retained + h[s \ {Next1(s)}]]
          = [s \in SUBSET ts |-> IF s = {} THEN 0 ELSE Weight[Next1(s)] + h[s \ {Next1(s)}]]
    BY <2>1
  <2>3. QED
    BY <2>2 DEF TimerSums, Sums
<1>3. Sums(Weight, g, ts)
  BY SumsExist
<1>4. Sums(Weight, f, ts)
  BY <1>2, <1>3
<1>5. f[ts] = g[ts]
  BY <1>3, <1>4, SumsUnique
<1>6. QED
  BY <1>1, <1>5 DEF Total

---------------------------------------------------------------------------
(* The order in which timers leave the heap                                *)

IsOrder(s, ts) ==
  /\ s \in [1..Cardinality(ts) -> ts] /\ ToSet(s) = ts
  /\ \A i, j \in DOMAIN s : i < j => Before(s[i], s[j])

\* Distinct identities make Before a total order.
Identified(ts) == \A a, b \in ts : a.token.id = b.token.id => a = b

LEMMA TimerParts ==
  ASSUME NEW t \in Timer
  PROVE  /\ t.token \in Token /\ t.token.id \in Nat /\ t.token.deadline \in Nat
         /\ t.token.deadline \in Deadlines /\ t.retained \in Nat
<1>1. t.token \in Token /\ t.retained \in Sizes
  BY DEF Timer
<1>2. t.token.id \in 0..U64 /\ t.token.deadline \in Deadlines
  BY <1>1 DEF Token
<1>3. U64 \in Nat /\ Deadlines \subseteq 0..U64 /\ Sizes \subseteq 0..U64
  BY WidthAssumption, LimitAssumption DEF Moments
<1>4. t.token.deadline \in 0..U64 /\ t.retained \in 0..U64
  BY <1>1, <1>2, <1>3
<1>5. \A n \in 0..U64 : n \in Nat
  BY <1>3
<1>6. QED
  BY <1>1, <1>2, <1>4, <1>5

\* Of any timers one leaves first.
LEMMA Earliest ==
  ASSUME NEW ts \in SUBSET Timer, ts # {}, Identified(ts)
  PROVE  \E m \in ts : \A t \in ts \ {m} : Before(m, t)
<1> DEFINE D == {t.token.deadline : t \in ts}
<1>1. D \in SUBSET Nat /\ D # {}
  BY TimerParts
<1>2. PICK d \in D : \A e \in Nat : e < d => e \notin D
  BY <1>1, LeastNatural
<1> DEFINE I == {t.token.id : t \in {x \in ts : x.token.deadline = d}}
<1>3. I \in SUBSET Nat /\ I # {}
  BY <1>2, TimerParts
<1>4. PICK k \in I : \A e \in Nat : e < k => e \notin I
  BY <1>3, LeastNatural
<1>5. PICK m \in ts : m.token.deadline = d /\ m.token.id = k
  BY <1>4
<1>6. ASSUME NEW t \in ts \ {m} PROVE Before(m, t)
  <2>1. /\ t.token.deadline \in Nat /\ t.token.id \in Nat /\ t.token.deadline \in D
        /\ m.token.deadline \in Nat /\ m.token.id \in Nat
    BY TimerParts
  <2>2. d <= t.token.deadline
    BY <1>2, <1>5, <2>1
  <2>3. CASE t.token.deadline = d
    <3>1. t.token.id \in I
      BY <2>3
    <3>2. k <= t.token.id
      BY <1>4, <1>5, <2>1, <3>1
    <3>3. t.token.id # k
      BY <1>5 DEF Identified
    <3>4. QED
      BY <1>5, <2>1, <2>3, <3>2, <3>3 DEF Before
  <2>4. CASE t.token.deadline # d
    BY <1>5, <2>1, <2>2, <2>4 DEF Before
  <2>5. QED BY <2>3, <2>4
<1>7. QED
  BY <1>6

\* Any finite set of them has an order: the earliest, then the others in theirs.
LEMMA OrderExists ==
  ASSUME NEW ts \in SUBSET Timer, IsFiniteSet(ts), Identified(ts)
  PROVE  \E s : IsOrder(s, ts)
<1> DEFINE Bad == {n \in Nat : \E us \in SUBSET ts :
                     Cardinality(us) = n /\ ~\E s : IsOrder(s, us)}
<1>1. ASSUME Bad # {} PROVE FALSE
  <2>1. PICK n \in Bad : \A m \in Nat : m < n => m \notin Bad
    BY <1>1, LeastNatural
  <2>2. PICK us \in SUBSET ts : Cardinality(us) = n /\ ~\E s : IsOrder(s, us)
    BY <2>1
  <2>3. IsFiniteSet(us) /\ us \in SUBSET Timer /\ Identified(us)
    BY FS_Subset DEF Identified
  <2>4. us # {}
    <3>1. SUFFICES ASSUME us = {} PROVE FALSE
      OBVIOUS
    <3>2. Cardinality(us) = 0
      BY <3>1, FS_EmptySet
    <3> DEFINE s == [i \in 1..0 |-> i]
    <3>3. IsOrder(s, us)
      BY <3>1, <3>2 DEF IsOrder, ToSet
    <3>4. QED
      BY <2>2, <3>3
  <2>5. PICK m \in us : \A t \in us \ {m} : Before(m, t)
    BY <2>3, <2>4, Earliest
  <2> DEFINE rs == us \ {m}
  <2>6. Cardinality(rs) \in Nat /\ Cardinality(rs) = n - 1 /\ n \in Nat /\ rs \in SUBSET ts
    <3>1. IsFiniteSet(rs) /\ Cardinality(rs) = n - 1
      BY <2>2, <2>3, FS_RemoveElement
    <3>2. QED
      BY <2>1, <3>1, FS_CardinalityType
  <2>7. PICK q : IsOrder(q, rs)
    <3>1. Cardinality(rs) \notin Bad
      BY <2>1, <2>6
    <3>2. QED
      BY <2>6, <3>1
  <2> DEFINE s == [i \in 1..n |-> IF i = 1 THEN m ELSE q[i - 1]]
  <2>8. /\ q \in [1..(n - 1) -> rs] /\ \A t \in rs : \E i \in 1..(n - 1) : q[i] = t
        /\ \A i, j \in 1..(n - 1) : i < j => Before(q[i], q[j])
    BY <2>6, <2>7 DEF IsOrder, ToSet
  <2>9. n >= 1
    BY <2>6
  <2>10. s \in [1..n -> us]
    <3>1. \A i \in 1..n : i # 1 => i - 1 \in 1..(n - 1)
      BY <2>6
    <3>2. \A i \in 1..n : s[i] \in us
      BY <2>8, <3>1
    <3>3. QED
      BY <3>2
  <2>11. ToSet(s) = us
    <3>1. ASSUME NEW t \in us PROVE \E i \in 1..n : s[i] = t
      <4>1. CASE t = m
        BY <2>6, <2>9, <4>1
      <4>2. CASE t # m
        <5>1. PICK i \in 1..(n - 1) : q[i] = t
          BY <2>8, <4>2
        <5>2. i + 1 \in 1..n /\ i + 1 # 1 /\ (i + 1) - 1 = i
          BY <2>6
        <5>3. s[i + 1] = t
          BY <5>1, <5>2
        <5>4. QED
          BY <5>2, <5>3
      <4>3. QED BY <4>1, <4>2
    <3>2. QED
      BY <2>10, <3>1 DEF ToSet
  <2>12. ASSUME NEW i \in 1..n, NEW j \in 1..n, i < j PROVE Before(s[i], s[j])
    <3>1. j # 1 /\ j - 1 \in 1..(n - 1)
      BY <2>6, <2>12
    <3>2. CASE i = 1
      <4>1. s[i] = m /\ s[j] \in rs
        BY <2>8, <3>1, <3>2
      <4>2. QED
        BY <2>5, <4>1
    <3>3. CASE i # 1
      <4>1. i - 1 \in 1..(n - 1) /\ i - 1 < j - 1
        BY <2>6, <2>12, <3>3
      <4>2. QED
        BY <2>8, <3>1, <3>3, <4>1
    <3>4. QED BY <3>2, <3>3
  <2>13. IsOrder(s, us)
    BY <2>2, <2>10, <2>11, <2>12 DEF IsOrder
  <2>14. QED
    BY <2>2, <2>13
<1>2. Cardinality(ts) \in Nat /\ ts \in SUBSET ts
  BY FS_CardinalityType
<1>3. Cardinality(ts) \notin Bad
  BY <1>1
<1>4. QED
  BY <1>2, <1>3

\* InOrder() lists its timers, each once, first come first.
LEMMA Listed ==
  ASSUME NEW ts \in SUBSET Timer, IsFiniteSet(ts), Identified(ts)
  PROVE  /\ InOrder(ts) \in Seq(Timer) /\ Len(InOrder(ts)) = Cardinality(ts)
         /\ Cardinality(ts) \in Nat
         /\ \A i \in 1..Cardinality(ts) : InOrder(ts)[i] \in ts
         /\ \A t \in ts : \E i \in 1..Cardinality(ts) : InOrder(ts)[i] = t
         /\ \A i, j \in 1..Cardinality(ts) : i < j => Before(InOrder(ts)[i], InOrder(ts)[j])
<1> DEFINE s == InOrder(ts)
           n == Cardinality(ts)
<1>1. n \in Nat
  BY FS_CardinalityType
<1>2. IsOrder(s, ts)
  <2>1. PICK q : IsOrder(q, ts)
    BY OrderExists
  <2>2. \E o \in [1..n -> ts] :
          ToSet(o) = ts /\ \A i, j \in DOMAIN o : i < j => Before(o[i], o[j])
    BY <2>1 DEF IsOrder
  <2>3. QED
    BY <2>2 DEF InOrder, IsOrder
<1> HIDE DEF s
<1>3. s \in [1..n -> ts] /\ DOMAIN s = 1..n
  BY <1>2 DEF IsOrder
<1>4. s \in Seq(Timer) /\ Len(s) = n
  <2>1. s \in [1..n -> Timer]
    BY <1>3
  <2> HIDE DEF n
  <2>2. s \in Seq(Timer)
    BY <1>1, <2>1, IsASeq
  <2>3. QED
    BY <1>1, <1>3, <2>2, LenProperties
<1>5. /\ \A t \in ts : \E i \in 1..n : s[i] = t
      /\ \A i, j \in 1..n : i < j => Before(s[i], s[j])
  BY <1>2, <1>3 DEF IsOrder, ToSet
<1>6. \A i \in 1..n : s[i] \in ts
  BY <1>3
<1>7. QED
  BY <1>1, <1>4, <1>5, <1>6 DEF s

\* No timer leaves before itself.
LEMMA BeforeStrict ==
  ASSUME NEW a \in Timer, NEW b \in Timer, Before(a, b)
  PROVE  a # b /\ ~Before(b, a)
<1>1. /\ a.token.id \in Nat /\ a.token.deadline \in Nat
      /\ b.token.id \in Nat /\ b.token.deadline \in Nat
  BY TimerParts
<1>2. QED
  BY <1>1 DEF Before

\* What a drain of at most budget timers hands out: the first of those due.
LEMMA Fired ==
  ASSUME NEW ts \in SUBSET Timer, IsFiniteSet(ts), Identified(ts), NEW budget \in Nat
  PROVE  LET due   == InOrder(ts)
             n     == Min({budget, Len(due)})
             fired == SubSeq(due, 1, n)
         IN  /\ n \in 0..Cardinality(ts) /\ n <= budget /\ Cardinality(ts) \in Nat
             /\ n < budget => n = Cardinality(ts)
             /\ fired \in Seq(Timer) /\ Len(fired) = n
             /\ \A i \in 1..n : fired[i] = due[i]
             /\ ToSet(fired) \subseteq ts /\ IsFiniteSet(ToSet(fired))
             /\ Cardinality(ToSet(fired)) = n
<1> DEFINE due   == InOrder(ts)
           n     == Min({budget, Len(due)})
           fired == SubSeq(due, 1, n)
<1>1. /\ due \in Seq(Timer) /\ Len(due) = Cardinality(ts) /\ Cardinality(ts) \in Nat
      /\ \A i \in 1..Cardinality(ts) : due[i] \in ts
      /\ \A i, j \in 1..Cardinality(ts) : i < j => Before(due[i], due[j])
  BY Listed
<1>2. /\ n \in 0..Cardinality(ts) /\ n <= budget /\ n \in Nat
      /\ n < budget => n = Cardinality(ts)
  <2> HIDE DEF due
  <2>1. n \in {budget, Len(due)} /\ \A x \in {budget, Len(due)} : n <= x
    <3>1. \E x \in {budget, Len(due)} : \A y \in {budget, Len(due)} : x <= y
      BY <1>1
    <3>2. QED
      BY <3>1 DEF Min
  <2>2. QED
    BY <1>1, <2>1
<1> HIDE DEF due, n
<1>3. fired \in Seq(Timer) /\ Len(fired) = n /\ \A i \in 1..n : fired[i] = due[i]
  BY <1>1, <1>2, SubSeqProperties
<1> HIDE DEF fired
<1>4. DOMAIN fired = 1..n
  BY <1>2, <1>3, LenProperties
<1>5. ToSet(fired) = {due[i] : i \in 1..n}
  BY <1>3, <1>4 DEF ToSet
<1>6. ToSet(fired) \subseteq ts
  BY <1>1, <1>2, <1>5
<1>7. IsFiniteSet(ToSet(fired)) /\ Cardinality(ToSet(fired)) = n
  <2> DEFINE g == [i \in 1..n |-> due[i]]
  <2>1. \A i, j \in 1..n : due[i] = due[j] => i = j
    <3>1. \A i, j \in 1..n : i < j => due[i] # due[j]
      BY <1>1, <1>2, BeforeStrict
    <3>2. QED
      BY <1>2, <3>1
  <2>2. g \in Bijection(1..n, ToSet(fired))
    BY <1>5, <2>1 DEF Bijection, Injection, Surjection, IsInjective
  <2>3. IsFiniteSet(1..n) /\ Cardinality(1..n) = n
    BY <1>2, FS_Interval
  <2>4. QED
    BY <2>2, <2>3, FS_Bijection DEF ExistsBijection
<1>8. QED
  BY <1>1, <1>2, <1>3, <1>6, <1>7 DEF due, n, fired

---------------------------------------------------------------------------
(* The queue's invariant                                                   *)

\* Timers that leave take exactly their bytes with them.
LEMMA BytesLeft ==
  ASSUME NEW ts \in SUBSET Timer, IsFiniteSet(ts), NEW us \in SUBSET ts
  PROVE  /\ Bytes(ts) \in Nat /\ Bytes(us) \in Nat /\ Bytes(ts \ us) \in Nat
         /\ Bytes(ts \ us) = Bytes(ts) - Bytes(us)
<1> DEFINE rest == ts \ us
<1>1. /\ us \in SUBSET Timer /\ rest \in SUBSET Timer /\ IsFiniteSet(us) /\ IsFiniteSet(rest)
      /\ us \cup rest = ts /\ us \cap rest = {}
  BY FS_Subset
<1>2. \A t \in Timer : Weight[t] \in Nat
  BY TimerParts DEF Weight
<1>3. Total(Weight, us \cup rest) = Total(Weight, us) + Total(Weight, rest)
  <2> HIDE DEF rest
  <2>1. \A t \in us \cup rest : Weight[t] \in Nat
    BY <1>1, <1>2
  <2>2. QED
    BY <1>1, <2>1, TotalUnion
<1>4. Total(Weight, us) \in Nat /\ Total(Weight, rest) \in Nat
  <2> HIDE DEF rest
  <2>1. (\A t \in us : Weight[t] \in Nat) /\ (\A t \in rest : Weight[t] \in Nat)
    BY <1>1, <1>2
  <2>2. QED
    BY <1>1, <2>1, TotalType
<1>5. Bytes(ts) = Total(Weight, ts) /\ Bytes(us) = Total(Weight, us)
      /\ Bytes(rest) = Total(Weight, rest)
  BY <1>1, BytesTotal
<1>6. Bytes(ts) = Bytes(us) + Bytes(rest) /\ Bytes(us) \in Nat /\ Bytes(rest) \in Nat
  <2> HIDE DEF rest
  <2>1. Total(Weight, ts) = Total(Weight, us) + Total(Weight, rest)
    BY <1>1, <1>3
  <2>2. QED
    BY <1>4, <1>5, <2>1
<1>7. QED
  BY <1>6

\* A timer that joins brings exactly its own.
LEMMA BytesJoined ==
  ASSUME NEW ts \in SUBSET Timer, IsFiniteSet(ts), NEW t \in Timer, t \notin ts
  PROVE  Bytes(ts \cup {t}) = Bytes(ts) + t.retained
<1> DEFINE all == ts \cup {t}
<1>1. all \in SUBSET Timer /\ IsFiniteSet(all) /\ t \in all /\ all \ {t} = ts
  BY FS_AddElement
<1>2. \A x \in all : Weight[x] \in Nat
  BY <1>1, TimerParts DEF Weight
<1>3. Total(Weight, all) = Weight[t] + Total(Weight, ts)
  <2> HIDE DEF all
  <2>1. QED
    BY <1>1, <1>2, TotalRemove
<1>4. Bytes(all) = Total(Weight, all) /\ Bytes(ts) = Total(Weight, ts)
  BY <1>1, BytesTotal
<1>5. Weight[t] = t.retained /\ t.retained \in Nat
  BY TimerParts DEF Weight
<1>6. Total(Weight, ts) \in Nat
  <2>1. \A x \in ts : Weight[x] \in Nat
    BY <1>2
  <2>2. QED
    BY <2>1, TotalType
<1>7. QED
  BY <1>3, <1>4, <1>5, <1>6

\* What the invariant says of the pending timers.
LEMMA QueueFacts ==
  ASSUME TimerInv
  PROVE  /\ timers \in SUBSET Timer /\ IsFiniteSet(timers) /\ Identified(timers)
         /\ \A t \in timers : t.token \in accepted /\ t.token.owner = Owner
         /\ Cardinality(timers) \in Nat /\ Cardinality(cancelled) \in Nat
         /\ Cardinality(accepted) \in Nat /\ delivered \in Seq(Timer) /\ Len(delivered) \in Nat
         /\ DOMAIN delivered = 1..Len(delivered)
         /\ retained \in Nat /\ U64 \in Nat /\ MaxBytes \in Nat /\ MaxTimers \in Nat
<1> USE DEF TimerInv, TimerSafe
<1>1. timers \in SUBSET Timer /\ IsFiniteSet(timers) /\ IsFiniteSet(cancelled) /\ IsFiniteSet(accepted)
      /\ delivered \in Seq(Timer)
  BY DEF TimerTypeOK, IdsAscend
<1>2. \A t \in timers : t.token \in accepted /\ t.token.owner = Owner
  BY DEF TimerEndsOnce, IdsAscend
<1>3. Identified(timers)
  BY <1>2 DEF Identified, IdsAscend, PendingOnce
<1>4. /\ Cardinality(timers) \in Nat /\ Cardinality(cancelled) \in Nat
      /\ Cardinality(accepted) \in Nat
  BY <1>1, FS_CardinalityType
<1>5. U64 \in Nat /\ MaxBytes \in 0..U64 /\ MaxTimers \in Nat
  BY WidthAssumption, LimitAssumption
<1>6. retained \in 0..U64
  BY DEF TimerTypeOK
<1>7. QED
  BY <1>1, <1>2, <1>3, <1>4, <1>5, <1>6, LenProperties

\* starting_at
LEMMA TimerInitInv == TimerInit => TimerInv
<1> SUFFICES ASSUME TimerInit PROVE TimerInv
  OBVIOUS
<1>1. /\ timers = {} /\ next_id = {FirstId} /\ retained = 0 /\ now = 0
      /\ report = [op |-> "none"] /\ accepted = {} /\ delivered = <<>> /\ cancelled = {}
  BY DEF TimerInit
<1>2. /\ IsFiniteSet({}) /\ Cardinality({}) = 0 /\ Cardinality({FirstId}) = 1
      /\ {} \in SUBSET Timer
  BY FS_EmptySet, FS_Singleton
<1>3. U64 \in Nat /\ MaxBytes \in 0..U64 /\ MaxTimers \in Nat \ {0} /\ FirstId \in 0..U64
  BY WidthAssumption, LimitAssumption
<1>4. Bytes({}) = 0
  BY <1>2, BytesTotal, TotalEmpty
<1>5. ToSet(delivered) = {} /\ Len(delivered) = 0 /\ delivered \in Seq(Timer)
  BY <1>1 DEF ToSet
<1>6. TimerTypeOK /\ TimerAccounts
  BY <1>1, <1>2, <1>3, <1>4, <1>5 DEF TimerTypeOK, TimerAccounts
<1>7. TimerEndsOnce /\ DrainIsHonest
  BY <1>1, <1>2, <1>5 DEF TimerEndsOnce, DrainIsHonest
<1>8. IdsAscend /\ PendingOnce
  BY <1>1, <1>2, <1>5 DEF IdsAscend, PendingOnce
<1>9. QED
  BY <1>6, <1>7, <1>8 DEF TimerInv, TimerSafe

\* Time passes, or the last answer is dropped.
LEMMA ObservedInv ==
  ASSUME TimerInv, now' \in 0..U64, report' = [op |-> "none"],
         UNCHANGED <<timers, next_id, retained, timerHistory>>
  PROVE  TimerInv'
<1>1. /\ timers' = timers /\ next_id' = next_id /\ retained' = retained
      /\ accepted' = accepted /\ delivered' = delivered /\ cancelled' = cancelled
  BY DEF timerHistory
<1>2. DrainIsHonest'
  BY DEF DrainIsHonest
<1>3. TimerTypeOK'
  BY <1>1 DEF TimerInv, TimerSafe, TimerTypeOK, Presentable
<1>4. (TimerAccounts /\ TimerEndsOnce)' /\ (IdsAscend /\ PendingOnce)'
  BY <1>1 DEF TimerInv, TimerSafe, TimerAccounts, TimerEndsOnce, IdsAscend, PendingOnce
<1>5. QED
  BY <1>2, <1>3, <1>4 DEF TimerInv, TimerSafe

\* A refusal changes nothing.
LEMMA RefuseInv ==
  ASSUME TimerInv, NEW failure, Refuse(failure)
  PROVE  TimerInv'
<1>1. /\ timers' = timers /\ next_id' = next_id /\ retained' = retained /\ now' = now
      /\ accepted' = accepted /\ delivered' = delivered /\ cancelled' = cancelled
      /\ report'.op = "schedule"
  BY DEF Refuse, timerHistory
<1>2. DrainIsHonest'
  BY <1>1 DEF DrainIsHonest
<1>3. TimerTypeOK'
  BY <1>1 DEF TimerInv, TimerSafe, TimerTypeOK, Presentable
<1>4. (TimerAccounts /\ TimerEndsOnce)' /\ (IdsAscend /\ PendingOnce)'
  BY <1>1 DEF TimerInv, TimerSafe, TimerAccounts, TimerEndsOnce, IdsAscend, PendingOnce
<1>5. QED
  BY <1>2, <1>3, <1>4 DEF TimerInv, TimerSafe

\* An admission takes the next identity, one place and its bytes.
LEMMA AcceptInv ==
  ASSUME TimerInv, NEW deadline \in Deadlines, NEW size \in Sizes, NEW id \in next_id,
         Refusal(size) = "none", Accept(deadline, size, id)
  PROVE  TimerInv'
<1> DEFINE token == [owner |-> Owner, id |-> id, deadline |-> deadline]
           t == [token |-> token, retained |-> size]
<1>1. /\ next_id' = CheckedNext(id) /\ timers' = timers \cup {t} /\ retained' = retained + size
      /\ accepted' = accepted \cup {token} /\ report'.op = "schedule"
      /\ now' = now /\ delivered' = delivered /\ cancelled' = cancelled
  BY DEF Accept
<1>2. /\ id \in 0..U64 /\ size \in Nat /\ U64 \in Nat
      /\ token \in Token /\ t \in Timer /\ t.token = token /\ t.retained = size
      /\ token.id = id /\ token.owner = Owner
  <2>1. id \in 0..U64 /\ U64 \in Nat /\ Owner \in Owners
    BY WidthAssumption, OwnerAssumption DEF TimerInv, TimerSafe, TimerTypeOK
  <2>2. token \in Token
    BY <2>1 DEF Token
  <2>3. t \in Timer
    BY <2>2 DEF Timer
  <2>4. size \in Nat
    BY <2>3, TimerParts
  <2>5. QED
    BY <2>1, <2>2, <2>3, <2>4
<1>3. token \notin accepted /\ \A a \in accepted : a.id < id
  BY <1>2 DEF TimerInv, IdsAscend
<1>4. t \notin timers /\ \A x \in timers : x.token # token
  BY <1>2, <1>3, QueueFacts
<1>5. /\ Cardinality(timers) < MaxTimers /\ retained + size <= MaxBytes
      /\ retained + size <= U64
  <2>1. ~(Cardinality(timers) >= MaxTimers) /\ ~(retained + size > U64)
        /\ ~(retained + size > MaxBytes)
    BY DEF Refusal
  <2>2. QED
    BY <1>2, <2>1, QueueFacts
<1> HIDE DEF token, t
<1>6. /\ IsFiniteSet(timers') /\ Cardinality(timers') = Cardinality(timers) + 1
      /\ IsFiniteSet(accepted') /\ Cardinality(accepted') = Cardinality(accepted) + 1
  <2>1. IsFiniteSet(timers) /\ IsFiniteSet(accepted)
    BY DEF TimerInv, IdsAscend
  <2>2. QED
    BY <1>1, <1>3, <1>4, <2>1, FS_AddElement
<1>7. TimerTypeOK'
  <2>1. timers' \in SUBSET Timer /\ accepted' \in SUBSET Token
    BY <1>1, <1>2 DEF TimerInv, TimerSafe, TimerTypeOK
  <2>2. next_id' \subseteq 0..U64 /\ Cardinality(next_id') <= 1
    <3>1. CASE id + 1 <= U64
      <4>1. next_id' = {id + 1}
        BY <1>1, <3>1 DEF CheckedNext
      <4>2. Cardinality({id + 1}) = 1
        BY FS_Singleton
      <4>3. QED
        BY <1>2, <3>1, <4>1, <4>2
    <3>2. CASE ~(id + 1 <= U64)
      <4>1. next_id' = {}
        BY <1>1, <3>2 DEF CheckedNext
      <4>2. QED
        BY <4>1, FS_EmptySet
    <3>3. QED BY <3>1, <3>2
  <2>3. retained' \in 0..U64
    BY <1>1, <1>2, <1>5, QueueFacts
  <2>4. cancelled' \subseteq Presentable' \X Timer
    BY <1>1 DEF TimerInv, TimerSafe, TimerTypeOK, Presentable
  <2>5. now' \in 0..U64 /\ delivered' \in Seq(Timer)
    BY <1>1 DEF TimerInv, TimerSafe, TimerTypeOK
  <2>6. QED
    BY <2>1, <2>2, <2>3, <2>4, <2>5 DEF TimerTypeOK
<1>8. TimerAccounts'
  <2>1. retained = Bytes(timers)
    BY DEF TimerInv, TimerSafe, TimerAccounts
  <2>2. Bytes(timers') = Bytes(timers) + size
    BY <1>1, <1>2, <1>4, QueueFacts, BytesJoined
  <2>3. Cardinality(timers') <= MaxTimers
    BY <1>5, <1>6, QueueFacts
  <2>4. QED
    BY <1>1, <1>5, <2>1, <2>2, <2>3 DEF TimerAccounts
<1>9. DrainIsHonest'
  BY <1>1 DEF DrainIsHonest
<1>10. TimerEndsOnce'
  <2>1. /\ Cardinality(timers) + Len(delivered) + Cardinality(cancelled) = Cardinality(accepted)
        /\ accepted = {x.token : x \in timers \cup ToSet(delivered)} \cup {c[1] : c \in cancelled}
        /\ \A c \in cancelled : c[2].token = c[1]
    BY DEF TimerInv, TimerSafe, TimerEndsOnce
  <2>2. Cardinality(timers') + Len(delivered') + Cardinality(cancelled') = Cardinality(accepted')
    BY <1>1, <1>6, <2>1, QueueFacts
  <2>3. accepted' = {x.token : x \in timers' \cup ToSet(delivered')} \cup {c[1] : c \in cancelled'}
    BY <1>1, <1>2, <2>1
  <2>4. QED
    BY <1>1, <2>1, <2>2, <2>3 DEF TimerEndsOnce
<1>11. IdsAscend'
  <2>1. \A a \in accepted : a.owner = Owner /\ a.id \in Nat /\ a.id < id
    <3>1. \A a \in accepted : a \in Token
      BY DEF TimerInv, TimerSafe, TimerTypeOK
    <3>2. \A a \in Token : a.id \in Nat
      BY <1>2 DEF Token
    <3>3. QED
      BY <1>3, <3>1, <3>2 DEF TimerInv, IdsAscend
  <2>2. \A a, b \in accepted' : a.id = b.id => a = b
    BY <1>1, <1>2, <2>1 DEF TimerInv, IdsAscend
  <2>3. \A a \in accepted', i \in next_id' : a.id < i
    BY <1>1, <1>2, <2>1 DEF CheckedNext
  <2>4. \A a \in accepted' : a.owner = Owner
    BY <1>1, <1>2, <2>1
  <2>5. IsFiniteSet(cancelled')
    BY <1>1 DEF TimerInv, IdsAscend
  <2>6. QED
    BY <1>6, <2>2, <2>3, <2>4, <2>5 DEF IdsAscend
<1>12. PendingOnce'
  <2>1. \A d \in ToSet(delivered) : d.token \in accepted
    BY DEF TimerInv, TimerSafe, TimerEndsOnce
  <2>2. \A c \in cancelled : c[1] \in accepted
    BY DEF TimerInv, TimerSafe, TimerEndsOnce
  <2>3. QED
    BY <1>1, <1>2, <1>3, <1>4, <2>1, <2>2 DEF TimerInv, PendingOnce
<1>13. QED
  BY <1>7, <1>8, <1>9, <1>10, <1>11, <1>12 DEF TimerInv, TimerSafe

\* Both kinds of exit: timers leave with their bytes, and for one history.
LEMMA LeaveInv ==
  ASSUME TimerInv, NEW gone \in SUBSET timers,
         timers' = timers \ gone, retained' = retained - Bytes(gone),
         next_id' = next_id, now' = now, accepted' = accepted
  PROVE  /\ timers' \in SUBSET Timer /\ IsFiniteSet(timers') /\ IsFiniteSet(gone)
         /\ Cardinality(timers') \in Nat /\ Cardinality(gone) \in Nat
         /\ Cardinality(timers) = Cardinality(timers') + Cardinality(gone)
         /\ retained' \in 0..U64
         /\ TimerAccounts'
<1>1. /\ timers \in SUBSET Timer /\ IsFiniteSet(timers)
      /\ retained \in Nat /\ U64 \in Nat /\ MaxBytes \in Nat /\ MaxTimers \in Nat
      /\ Cardinality(timers) \in Nat
  BY QueueFacts
<1>2. /\ IsFiniteSet(gone) /\ IsFiniteSet(timers')
      /\ Cardinality(gone) \in Nat /\ Cardinality(timers') \in Nat
  BY <1>1, FS_Subset, FS_CardinalityType
<1>3. Cardinality(timers) = Cardinality(timers') + Cardinality(gone)
  <2>1. timers' \cup gone = timers /\ timers' \cap gone = {}
    OBVIOUS
  <2>2. Cardinality({}) = 0
    BY FS_EmptySet
  <2>3. Cardinality(timers' \cup gone)
          = Cardinality(timers') + Cardinality(gone) - Cardinality(timers' \cap gone)
    BY <1>2, FS_Union
  <2>4. Cardinality(timers) = Cardinality(timers') + Cardinality(gone) - 0
    BY <2>1, <2>2, <2>3, Zenon
  <2>5. QED
    BY <1>2, <2>4
<1>4. /\ retained = Bytes(timers) /\ retained <= MaxBytes /\ retained <= U64
      /\ Cardinality(timers) <= MaxTimers
  BY DEF TimerInv, TimerSafe, TimerAccounts, TimerTypeOK
<1>5. /\ Bytes(timers) \in Nat /\ Bytes(gone) \in Nat /\ Bytes(timers') \in Nat
      /\ Bytes(timers') = Bytes(timers) - Bytes(gone)
  BY <1>1, BytesLeft
<1>6. retained' = Bytes(timers') /\ retained' <= MaxBytes /\ retained' \in 0..U64
  BY <1>1, <1>4, <1>5
<1>7. Cardinality(timers') <= MaxTimers
  BY <1>1, <1>2, <1>3, <1>4
<1>8. QED
  BY <1>1, <1>2, <1>3, <1>6, <1>7 DEF TimerAccounts

\* A cancellation takes the one timer of the token, or none: a spent token, or one
\* of another queue, has no timer here.
LEMMA CancelInv ==
  ASSUME TimerInv, NEW token \in Presentable, Cancel(token)
  PROVE  TimerInv'
<1> DEFINE found == {t \in timers : Matches(t, token)}
           pairs == {<<token, t>> : t \in found}
<1>1. /\ timers' = timers \ found /\ retained' = retained - Bytes(found)
      /\ cancelled' = cancelled \cup pairs /\ report'.op = "cancel"
      /\ next_id' = next_id /\ now' = now /\ accepted' = accepted /\ delivered' = delivered
  BY DEF Cancel
<1>2. /\ timers' \in SUBSET Timer /\ IsFiniteSet(timers')
      /\ Cardinality(timers') \in Nat /\ Cardinality(found) \in Nat
      /\ Cardinality(timers) = Cardinality(timers') + Cardinality(found)
      /\ retained' \in 0..U64 /\ TimerAccounts'
  BY <1>1, LeaveInv
<1>3. \A t \in found : t \in timers /\ t.token = token
  BY DEF Matches
<1>4. found = {} \/ \E t \in timers : t.token = token /\ found = {t}
  BY <1>3 DEF TimerInv, PendingOnce
<1>5. \A t \in timers' : t.token # token
  <2>1. \A t \in timers : t.token = token => t \in found
    BY QueueFacts DEF Matches
  <2>2. QED
    BY <1>1, <2>1
<1>6. /\ IsFiniteSet(cancelled') /\ Cardinality(cancelled') \in Nat
      /\ Cardinality(cancelled') = Cardinality(cancelled) + Cardinality(found)
  <2>1. IsFiniteSet(cancelled) /\ Cardinality(cancelled) \in Nat
    BY QueueFacts DEF TimerInv, IdsAscend
  <2>2. CASE found = {}
    <3>1. cancelled' = cancelled /\ Cardinality(found) = 0
      BY <1>1, <2>2, FS_EmptySet
    <3>2. QED
      BY <2>1, <3>1
  <2>3. ASSUME NEW t \in timers, t.token = token, found = {t}
        PROVE  /\ IsFiniteSet(cancelled') /\ Cardinality(cancelled') \in Nat
               /\ Cardinality(cancelled') = Cardinality(cancelled) + Cardinality(found)
    <3>1. cancelled' = cancelled \cup {<<token, t>>} /\ Cardinality(found) = 1
      BY <1>1, <2>3, FS_Singleton
    <3>2. <<token, t>> \notin cancelled
      BY <2>3 DEF TimerInv, PendingOnce
    <3>3. IsFiniteSet(cancelled') /\ Cardinality(cancelled') = Cardinality(cancelled) + 1
      BY <2>1, <3>1, <3>2, FS_AddElement
    <3>4. QED
      BY <2>1, <3>1, <3>3
  <2>4. QED
    BY <1>4, <2>2, <2>3
<1>7. TimerTypeOK'
  <2>1. Presentable' = Presentable
    BY <1>1 DEF Presentable
  <2>2. found \subseteq Timer /\ token \in Presentable
    BY <1>3, QueueFacts
  <2>3. cancelled' \subseteq Presentable' \X Timer
    BY <1>1, <2>1, <2>2 DEF TimerInv, TimerSafe, TimerTypeOK
  <2>4. QED
    BY <1>1, <1>2, <2>3 DEF TimerInv, TimerSafe, TimerTypeOK
<1>8. DrainIsHonest'
  BY <1>1 DEF DrainIsHonest
<1>9. TimerEndsOnce'
  <2>1. /\ Cardinality(timers) + Len(delivered) + Cardinality(cancelled) = Cardinality(accepted)
        /\ accepted = {x.token : x \in timers \cup ToSet(delivered)} \cup {c[1] : c \in cancelled}
        /\ \A c \in cancelled : c[2].token = c[1]
    BY DEF TimerInv, TimerSafe, TimerEndsOnce
  <2>2. Cardinality(timers') + Len(delivered') + Cardinality(cancelled') = Cardinality(accepted')
    BY <1>1, <1>2, <1>6, <2>1, QueueFacts
  <2>3. \A c \in cancelled' : c[2].token = c[1]
    BY <1>1, <1>3, <2>1
  <2>4. timers = timers' \cup found
    BY <1>1
  <2>5. {c[1] : c \in cancelled'} = {c[1] : c \in cancelled} \cup {t.token : t \in found}
    <3>1. \A c \in pairs : \E t \in found : c[1] = t.token
      BY <1>3
    <3>2. \A t \in found : \E c \in pairs : c[1] = t.token
      <4>1. \A t \in found : <<token, t>> \in pairs /\ <<token, t>>[1] = token
        OBVIOUS
      <4>2. QED
        BY <1>3, <4>1
    <3>3. QED
      BY <1>1, <3>1, <3>2
  <2>6. accepted' = {x.token : x \in timers' \cup ToSet(delivered')} \cup {c[1] : c \in cancelled'}
    BY <1>1, <2>1, <2>4, <2>5
  <2>7. QED
    BY <2>2, <2>3, <2>6 DEF TimerEndsOnce
<1>10. IdsAscend'
  BY <1>1, <1>2, <1>6 DEF TimerInv, IdsAscend
<1>11. PendingOnce'
  <2>1. \A c \in pairs : c[1] = token
    OBVIOUS
  <2>2. \A t \in timers', c \in cancelled' : t.token # c[1]
    BY <1>1, <1>5, <2>1 DEF TimerInv, PendingOnce
  <2>3. QED
    BY <1>1, <2>2 DEF TimerInv, PendingOnce
<1>12. QED
  BY <1>2, <1>7, <1>8, <1>9, <1>10, <1>11 DEF TimerInv, TimerSafe

\* What a drain does, in terms of the order of the due timers.
LEMMA Drained ==
  ASSUME TimerInv, NEW budget \in 1..MaxTimers, Drain(budget)
  PROVE  \E n \in 0..Cardinality(Due) :
           LET due   == InOrder(Due)
               fired == SubSeq(due, 1, n)
           IN  /\ n \in Nat /\ (n < budget => n = Cardinality(Due))
               /\ n <= budget
               /\ Due \in SUBSET timers /\ Cardinality(Due) \in Nat
               /\ fired \in Seq(Timer) /\ Len(fired) = n
               /\ \A i \in 1..n : fired[i] = due[i]
               /\ ToSet(fired) \in SUBSET Due /\ Cardinality(ToSet(fired)) = n
               /\ timers' = timers \ ToSet(fired)
               /\ retained' = retained - Bytes(ToSet(fired))
               /\ delivered' = delivered \o fired
               /\ report'.op = "drain" /\ report'.fired = n /\ report'.budget = budget
               /\ report'.more_due = (Due \ ToSet(fired) # {})
               /\ next_id' = next_id /\ now' = now /\ accepted' = accepted
               /\ cancelled' = cancelled
<1> DEFINE due   == InOrder(Due)
           n     == Min({budget, Len(due)})
           fired == SubSeq(due, 1, n)
<1>1. budget \in Nat
  BY LimitAssumption
<1>2. Due \in SUBSET timers /\ Due \in SUBSET Timer /\ IsFiniteSet(Due) /\ Identified(Due)
  BY QueueFacts, FS_Subset DEF Due, Identified
<1>3. /\ n \in 0..Cardinality(Due) /\ n <= budget /\ Cardinality(Due) \in Nat
      /\ n < budget => n = Cardinality(Due)
      /\ fired \in Seq(Timer) /\ Len(fired) = n
      /\ \A i \in 1..n : fired[i] = due[i]
      /\ ToSet(fired) \subseteq Due /\ IsFiniteSet(ToSet(fired))
      /\ Cardinality(ToSet(fired)) = n
  BY <1>1, <1>2, Fired
<1>4. /\ timers' = timers \ ToSet(fired) /\ retained' = retained - Bytes(ToSet(fired))
      /\ delivered' = delivered \o fired
      /\ report' = [op |-> "drain", fired |-> Len(fired), budget |-> budget,
                    more_due |-> Due \ ToSet(fired) # {}]
      /\ next_id' = next_id /\ now' = now /\ accepted' = accepted /\ cancelled' = cancelled
  BY DEF Drain
<1> HIDE DEF due, n
<1>5. n \in Nat
  BY <1>3
<1> HIDE DEF fired
<1>6. /\ report'.op = "drain" /\ report'.fired = n /\ report'.budget = budget
      /\ report'.more_due = (Due \ ToSet(fired) # {})
  BY <1>3, <1>4
<1>7. QED
  BY <1>2, <1>3, <1>4, <1>5, <1>6 DEF due, fired

\* A drain moves the first due timers to the delivered ones.
LEMMA DrainInv ==
  ASSUME TimerInv, NEW budget \in 1..MaxTimers, Drain(budget)
  PROVE  TimerInv'
<1>1. PICK n \in 0..Cardinality(Due) :
           LET due   == InOrder(Due)
               fired == SubSeq(due, 1, n)
           IN  /\ n \in Nat /\ (n < budget => n = Cardinality(Due))
               /\ n <= budget
               /\ Due \in SUBSET timers /\ Cardinality(Due) \in Nat
               /\ fired \in Seq(Timer) /\ Len(fired) = n
               /\ \A i \in 1..n : fired[i] = due[i]
               /\ ToSet(fired) \in SUBSET Due /\ Cardinality(ToSet(fired)) = n
               /\ timers' = timers \ ToSet(fired)
               /\ retained' = retained - Bytes(ToSet(fired))
               /\ delivered' = delivered \o fired
               /\ report'.op = "drain" /\ report'.fired = n /\ report'.budget = budget
               /\ report'.more_due = (Due \ ToSet(fired) # {})
               /\ next_id' = next_id /\ now' = now /\ accepted' = accepted
               /\ cancelled' = cancelled
  BY Drained
<1> DEFINE fired == SubSeq(InOrder(Due), 1, n)
           gone == ToSet(fired)
<1>2. /\ n \in Nat /\ fired \in Seq(Timer) /\ Len(fired) = n
      /\ gone \in SUBSET Due /\ gone \in SUBSET timers /\ Cardinality(gone) = n
      /\ timers' = timers \ gone /\ retained' = retained - Bytes(gone)
      /\ delivered' = delivered \o fired
      /\ next_id' = next_id /\ now' = now /\ accepted' = accepted /\ cancelled' = cancelled
  BY <1>1
<1>3. /\ report'.op = "drain" /\ report'.fired = n /\ report'.budget = budget
      /\ report'.more_due = (Due \ gone # {})
      /\ n < budget => n = Cardinality(Due)
  BY <1>1
<1> HIDE DEF fired
<1>4. /\ timers' \in SUBSET Timer /\ IsFiniteSet(timers')
      /\ Cardinality(timers') \in Nat
      /\ Cardinality(timers) = Cardinality(timers') + n
      /\ retained' \in 0..U64 /\ TimerAccounts'
  <2> HIDE DEF gone
  <2>1. QED
    BY <1>2, LeaveInv
<1>5. /\ delivered' \in Seq(Timer) /\ Len(delivered') = Len(delivered) + n
      /\ ToSet(delivered') = ToSet(delivered) \cup gone
  <2>1. delivered \in Seq(Timer)
    BY QueueFacts
  <2>2. delivered \o fired \in Seq(Timer) /\ Len(delivered \o fired) = Len(delivered) + n
    BY <1>2, <2>1, ConcatProperties
  <2>3. Range(delivered \o fired) = Range(delivered) \cup Range(fired)
    BY <1>2, <2>1, SeqOfRange, RangeConcatenation
  <2>4. \A s : Range(s) = ToSet(s)
    BY DEF Range, ToSet
  <2>5. ToSet(delivered \o fired) = ToSet(delivered) \cup gone
    BY <2>3, <2>4
  <2>6. QED
    BY <1>2, <2>2, <2>5
<1> HIDE DEF gone
<1>6. TimerTypeOK'
  <2>1. Presentable' = Presentable
    BY <1>2 DEF Presentable
  <2>2. QED
    BY <1>2, <1>4, <1>5, <2>1 DEF TimerInv, TimerSafe, TimerTypeOK
<1>7. DrainIsHonest'
  <2>1. \A t \in timers' : t.token.deadline <= now' <=> t \in Due
    BY <1>2 DEF Due, Elapsed, ElapsedAt
  <2>2. report'.more_due <=> \E t \in timers' : t.token.deadline <= now'
    <3>1. Due \ gone # {} <=> \E t \in timers' : t \in Due
      BY <1>2 DEF Due
    <3>2. QED
      BY <1>3, <2>1, <3>1
  <2>3. n < budget => ~report'.more_due
    <3>1. n < budget => gone = Due
      <4>1. IsFiniteSet(Due)
        BY QueueFacts, FS_Subset DEF Due
      <4>2. QED
        BY <1>2, <1>3, <4>1, FS_Subset
    <3>2. QED
      BY <1>3, <3>1
  <2>4. QED
    BY <1>3, <2>2, <2>3 DEF DrainIsHonest
<1>8. TimerEndsOnce'
  <2>1. /\ Cardinality(timers) + Len(delivered) + Cardinality(cancelled) = Cardinality(accepted)
        /\ accepted = {x.token : x \in timers \cup ToSet(delivered)} \cup {c[1] : c \in cancelled}
        /\ \A c \in cancelled : c[2].token = c[1]
    BY DEF TimerInv, TimerSafe, TimerEndsOnce
  <2>2. Cardinality(timers') + Len(delivered') + Cardinality(cancelled') = Cardinality(accepted')
    BY <1>2, <1>4, <1>5, <2>1, QueueFacts
  <2>3. timers \cup ToSet(delivered) = timers' \cup ToSet(delivered')
    BY <1>2, <1>5
  <2>4. accepted' = {x.token : x \in timers' \cup ToSet(delivered')} \cup {c[1] : c \in cancelled'}
    BY <1>2, <2>1, <2>3
  <2>5. QED
    BY <1>2, <2>1, <2>2, <2>4 DEF TimerEndsOnce
<1>9. IdsAscend'
  BY <1>2, <1>4 DEF TimerInv, IdsAscend
<1>10. PendingOnce'
  <2>1. \A t \in timers', d \in ToSet(delivered') : t.token # d.token
    BY <1>2, <1>5 DEF TimerInv, PendingOnce
  <2>2. QED
    BY <1>2, <2>1 DEF TimerInv, PendingOnce
<1>11. QED
  BY <1>4, <1>6, <1>7, <1>8, <1>9, <1>10 DEF TimerInv, TimerSafe

\* Which of the queue's operations a step of the host runs, if any.
LEMMA QueueSteps ==
  ASSUME HostInv, [HostNext]_vars
  PROVE  \/ UNCHANGED timerVars
         \/ /\ now' \in 0..U64 /\ report' = [op |-> "none"]
            /\ UNCHANGED <<timers, next_id, retained, timerHistory>>
         \/ \E d \in Deadlines, size \in Sizes : Schedule(d, size)
         \/ \E token \in Presentable : Cancel(token)
         \/ \E budget \in 1..MaxTimers : Drain(budget)
<1>1. clock \in 0..U64
  BY Widths DEF HostInv, HostTypeOK, Moments
<1>2. CASE BeginStep \/ EndStep
  BY <1>1, <1>2 DEF BeginStep, EndStep, ObserveFails, Observed
<1>3. CASE ~(BeginStep \/ EndStep)
  BY <1>3 DEF HostNext, HostStep, FireDue, EndTurn, TimerWork, ReadyWork, FailTurn, Resume, Notified,
     EndWait, Tick, vars
<1>4. QED
  BY <1>2, <1>3

\* Every step keeps the queue's invariant.
LEMMA TimerNextInv == TimerInv /\ HostInv /\ [HostNext]_vars => TimerInv'
<1> SUFFICES ASSUME TimerInv, HostInv, [HostNext]_vars PROVE TimerInv'
  OBVIOUS
<1>1. CASE UNCHANGED timerVars
  BY <1>1 DEF timerVars, TimerInv, TimerSafe, TimerTypeOK, TimerAccounts, TimerEndsOnce,
     DrainIsHonest, IdsAscend, PendingOnce, Presentable
<1>2. CASE /\ now' \in 0..U64 /\ report' = [op |-> "none"]
           /\ UNCHANGED <<timers, next_id, retained, timerHistory>>
  BY <1>2, ObservedInv
<1>3. ASSUME NEW d \in Deadlines, NEW size \in Sizes, Schedule(d, size) PROVE TimerInv'
  <2>1. CASE Refusal(size) = "none"
    BY <1>3, <2>1, AcceptInv DEF Schedule
  <2>2. CASE Refusal(size) # "none"
    BY <1>3, <2>2, RefuseInv DEF Schedule
  <2>3. QED BY <2>1, <2>2
<1>4. ASSUME NEW token \in Presentable, Cancel(token) PROVE TimerInv'
  BY <1>4, CancelInv
<1>5. ASSUME NEW budget \in 1..MaxTimers, Drain(budget) PROVE TimerInv'
  BY <1>5, DrainInv
<1>6. QED
  BY <1>1, <1>2, <1>3, <1>4, <1>5, QueueSteps

\* The timers that a step hands out are the ones it appended.
LEMMA Appended ==
  ASSUME NEW s \in Seq(Timer), NEW r \in Seq(Timer)
  PROVE  LET u == SubSeq(s \o r, Len(s) + 1, Len(s \o r))
         IN  DOMAIN u = 1..Len(r) /\ Len(u) = Len(r) /\ \A i \in 1..Len(r) : u[i] = r[i]
<1> DEFINE all == s \o r
           u == SubSeq(all, Len(s) + 1, Len(all))
<1>1. Len(s) \in Nat /\ Len(r) \in Nat
  BY LenProperties
<1>2. /\ all \in Seq(Timer) /\ Len(all) = Len(s) + Len(r)
      /\ \A i \in 1..(Len(s) + Len(r)) : all[i] = IF i <= Len(s) THEN s[i] ELSE r[i - Len(s)]
  BY ConcatProperties
<1> HIDE DEF all
<1>3. /\ u \in Seq(Timer) /\ Len(u) = Len(r)
      /\ \A i \in 1..Len(r) : u[i] = all[Len(s) + i]
  <2>1. CASE Len(r) = 0
    BY <1>1, <1>2, <2>1, SubSeqProperties
  <2>2. CASE Len(r) # 0
    BY <1>1, <1>2, <2>2, SubSeqProperties
  <2>3. QED BY <2>1, <2>2
<1> HIDE DEF u
<1>4. ASSUME NEW i \in 1..Len(r) PROVE u[i] = r[i]
  <2>1. Len(s) + i \in 1..(Len(s) + Len(r)) /\ ~(Len(s) + i <= Len(s)) /\ (Len(s) + i) - Len(s) = i
    BY <1>1
  <2>2. QED
    BY <1>2, <1>3, <2>1
<1>5. DOMAIN u = 1..Len(r)
  BY <1>3, LenProperties
<1>6. QED
  BY <1>3, <1>4, <1>5 DEF all, u

\* Every step delivers in order.
LEMMA StepDelivers ==
  ASSUME TimerInv, HostInv, [HostNext]_vars
  PROVE  LET fired == SubSeq(delivered', Len(delivered) + 1, Len(delivered'))
         IN  \A i \in DOMAIN fired :
               /\ fired[i].token.deadline <= now
               /\ \A j \in (i + 1)..Len(fired) : Precedes(fired[i], fired[j])
               /\ \A t \in timers' : Precedes(fired[i], t)
<1>1. delivered \in Seq(Timer)
  BY QueueFacts
<1>2. ASSUME delivered' = delivered
      PROVE  DOMAIN SubSeq(delivered', Len(delivered) + 1, Len(delivered')) = {}
  <2>1. SubSeq(delivered, Len(delivered) + 1, Len(delivered)) = << >>
    BY <1>1, SubSeqEmpty, LenProperties
  <2>2. QED
    BY <1>2, <2>1
<1>3. ASSUME NEW budget \in 1..MaxTimers, Drain(budget)
      PROVE  LET out == SubSeq(delivered', Len(delivered) + 1, Len(delivered'))
             IN  \A i \in DOMAIN out :
                   /\ out[i].token.deadline <= now
                   /\ \A j \in (i + 1)..Len(out) : Precedes(out[i], out[j])
                   /\ \A t \in timers' : Precedes(out[i], t)
  <2> DEFINE due == InOrder(Due)
             out == SubSeq(delivered', Len(delivered) + 1, Len(delivered'))
  <2>1. PICK n \in 0..Cardinality(Due) :
           LET fired == SubSeq(due, 1, n)
           IN  /\ n \in Nat /\ Cardinality(Due) \in Nat
               /\ fired \in Seq(Timer) /\ Len(fired) = n
               /\ \A i \in 1..n : fired[i] = due[i]
               /\ timers' = timers \ ToSet(fired)
               /\ delivered' = delivered \o fired
    BY <1>3, Drained
  <2> DEFINE fired == SubSeq(due, 1, n)
  <2>2. /\ n \in Nat /\ Cardinality(Due) \in Nat /\ n <= Cardinality(Due)
        /\ fired \in Seq(Timer) /\ Len(fired) = n
        /\ \A i \in 1..n : fired[i] = due[i]
        /\ timers' = timers \ ToSet(fired)
        /\ delivered' = delivered \o fired
    BY <2>1
  <2>3. /\ \A i \in 1..Cardinality(Due) : due[i] \in Due
        /\ \A t \in Due : \E i \in 1..Cardinality(Due) : due[i] = t
        /\ \A i, j \in 1..Cardinality(Due) : i < j => Before(due[i], due[j])
    <3>1. Due \in SUBSET Timer /\ IsFiniteSet(Due) /\ Identified(Due)
      BY QueueFacts, FS_Subset DEF Due, Identified
    <3>2. QED
      BY <3>1, Listed
  <2> HIDE DEF due, fired
  <2>4. DOMAIN out = 1..n /\ Len(out) = n /\ \A i \in 1..n : out[i] = due[i]
    <3> HIDE DEF out
    <3>1. DOMAIN out = 1..Len(fired) /\ Len(out) = Len(fired) /\ \A i \in 1..Len(fired) : out[i] = fired[i]
      BY <1>1, <2>2, Appended DEF out
    <3>2. QED
      BY <2>2, <3>1
  <2> HIDE DEF out
  <2>5. \A a, b : Precedes(a, b) <=> Before(a, b)
    BY DEF Precedes, Before
  <2>6. SUFFICES ASSUME NEW i \in 1..n
                 PROVE  /\ out[i].token.deadline <= now
                        /\ \A j \in (i + 1)..n : Precedes(out[i], out[j])
                        /\ \A t \in timers' : Precedes(out[i], t)
    BY <2>4 DEF out
  <2>7. i \in 1..Cardinality(Due) /\ due[i] \in Due
    BY <2>2, <2>3
  <2>8. due[i].token.deadline <= now
    BY <2>7 DEF Due, Elapsed, ElapsedAt
  <2>9. ASSUME NEW j \in (i + 1)..n PROVE Precedes(out[i], out[j])
    <3>1. j \in 1..Cardinality(Due) /\ j \in 1..n /\ i < j
      BY <2>2, <2>9
    <3>2. Before(due[i], due[j])
      BY <2>3, <2>7, <3>1
    <3>3. QED
      BY <2>4, <2>5, <3>1, <3>2
  <2>10. ASSUME NEW t \in timers' PROVE Before(due[i], t)
    <3>1. t \in timers /\ t \notin ToSet(fired)
      BY <2>2
    <3>2. CASE t \in Due
      <4>1. PICK k \in 1..Cardinality(Due) : due[k] = t
        BY <2>3, <3>2
      <4>2. ~(k <= n)
        <5>1. SUFFICES ASSUME k <= n PROVE FALSE
          OBVIOUS
        <5>2. k \in 1..n /\ fired[k] = t
          BY <2>2, <4>1, <5>1
        <5>3. DOMAIN fired = 1..n
          BY <2>2, LenProperties
        <5>4. QED
          BY <3>1, <5>2, <5>3 DEF ToSet
      <4>3. i < k
        BY <2>2, <4>1, <4>2
      <4>4. QED
        BY <2>3, <2>7, <4>1, <4>3
    <3>3. CASE t \notin Due
      <4>1. ~(t.token.deadline <= now)
        BY <3>1, <3>3 DEF Due, Elapsed, ElapsedAt
      <4>2. t.token.deadline \in Nat /\ due[i].token.deadline \in Nat /\ now \in Nat
        <5>1. t \in Timer /\ due[i] \in Timer /\ now \in 0..U64
          BY <2>7, <3>1, QueueFacts DEF Due, TimerInv, TimerSafe, TimerTypeOK
        <5>2. QED
          BY <5>1, TimerParts
      <4>3. QED
        BY <2>8, <4>1, <4>2 DEF Before
    <3>4. QED BY <3>2, <3>3
  <2>11. QED
    BY <2>4, <2>5, <2>8, <2>9, <2>10
<1>4. CASE delivered' = delivered
  BY <1>2, <1>4
<1>5. CASE \E budget \in 1..MaxTimers : Drain(budget)
  BY <1>3, <1>5
<1>6. delivered' = delivered \/ \E budget \in 1..MaxTimers : Drain(budget)
  BY QueueSteps DEF timerVars, timerHistory, Schedule, Accept, Refuse, Cancel
<1>7. QED BY <1>4, <1>5, <1>6

---------------------------------------------------------------------------
(* The batch's invariant                                                   *)

EventEntry == [event : EventSizes, retained : EventSizes]
EntryWeight(s) == [i \in 1..Len(s) |-> s[i].retained]

BatchSums(f, s, T) ==
  f = [u \in SUBSET T |-> IF u = {} THEN 0 ELSE s[Next1(u)].retained + f[u \ {Next1(u)}]]

\* The account of a batch is a sum over its positions.
LEMMA BatchTotal ==
  ASSUME NEW batch, batch.events \in Seq(EventEntry)
  PROVE  Batch!BatchAccounts(batch) <=>
           /\ batch.retained = Total(EntryWeight(batch.events), 1..Len(batch.events))
           /\ batch.retained <= BatchLimits.retained_bytes
           /\ Len(batch.events) <= BatchLimits.events
<1> DEFINE s == batch.events
           T == 1..Len(s)
           w == EntryWeight(s)
           f == CHOOSE f : BatchSums(f, s, T)
           g == CHOOSE g : Sums(w, g, T)
<1>1. DOMAIN s = T /\ IsFiniteSet(T)
  BY LenProperties, FS_Interval
<1>2. Batch!BatchAccounts(batch) <=>
        /\ batch.retained = f[T]
        /\ batch.retained <= BatchLimits.retained_bytes
        /\ Len(batch.events) <= BatchLimits.events
  BY <1>1 DEF Batch!BatchAccounts, Batch!FoldSeq, Batch!FoldFunction, Batch!FoldFunctionOnSet,
              Batch!MapThenFoldSet, BatchSums, Next1
<1> HIDE DEF T
<1>3. ASSUME NEW h PROVE BatchSums(h, s, T) <=> Sums(w, h, T)
  <2>1. ASSUME NEW u \in SUBSET T, u # {} PROVE w[Next1(u)] = s[Next1(u)].retained
    <3>1. Next1(u) \in T
      BY <2>1 DEF Next1
    <3>2. QED
      BY <3>1 DEF EntryWeight, T
  <2>2. [u \in SUBSET T |-> IF u = {} THEN 0 ELSE s[Next1(u)].retained + h[u \ {Next1(u)}]]
          = [u \in SUBSET T |-> IF u = {} THEN 0 ELSE w[Next1(u)] + h[u \ {Next1(u)}]]
    BY <2>1
  <2>3. QED
    BY <2>2 DEF BatchSums, Sums
<1>4. Sums(w, g, T)
  BY <1>1, SumsExist
<1>5. Sums(w, f, T)
  BY <1>3, <1>4
<1>6. f[T] = g[T]
  BY <1>1, <1>4, <1>5, SumsUnique
<1>7. f[T] = Total(EntryWeight(s), 1..Len(s))
  BY <1>6 DEF Total, T
<1>8. QED
  BY <1>2, <1>7

\* What an entry measures and what a batch may hold are natural numbers.
LEMMA EntryNumbers ==
  /\ \A e \in EventEntry : e.retained \in Nat
  /\ BatchLimits.events \in Nat /\ BatchLimits.retained_bytes \in Nat
  /\ \A n \in EventSizes : n \in Nat
<1>1. U64 \in Nat
  BY WidthAssumption
<1>2. \A n \in 0..U64 : n \in Nat
  BY <1>1
<1>3. \A n \in EventSizes : n \in Nat
  BY <1>2, HostAssumption
<1>4. \A e \in EventEntry : e.retained \in EventSizes
  BY DEF EventEntry
<1>5. BatchLimits.events \in Nat \ {0} /\ BatchLimits.retained_bytes \in 0..U64
  BY HostAssumption
<1>6. QED
  BY <1>2, <1>3, <1>4, <1>5

\* So is the account.
LEMMA BatchNumbers ==
  ASSUME NEW s \in Seq(EventEntry)
  PROVE  /\ Len(s) \in Nat /\ IsFiniteSet(1..Len(s))
         /\ \A i \in 1..Len(s) : EntryWeight(s)[i] \in Nat
         /\ Total(EntryWeight(s), 1..Len(s)) \in Nat
<1>1. Len(s) \in Nat /\ IsFiniteSet(1..Len(s))
  BY LenProperties, FS_Interval
<1>2. \A i \in 1..Len(s) : EntryWeight(s)[i] \in Nat
  <2>1. \A i \in 1..Len(s) : s[i] \in EventEntry
    BY ElementOfSeq
  <2>2. QED
    BY <2>1, EntryNumbers DEF EntryWeight
<1>3. QED
  BY <1>1, <1>2, TotalType

\* The last entry of a sequence counts for itself.
LEMMA LastCounts ==
  ASSUME NEW s \in Seq(EventEntry), NEW r \in Seq(EventEntry), Len(s) = Len(r) + 1,
         \A i \in 1..Len(r) : s[i] = r[i]
  PROVE  Total(EntryWeight(s), 1..Len(s)) = s[Len(s)].retained + Total(EntryWeight(r), 1..Len(r))
<1> DEFINE n == Len(s)
<1>1. /\ n \in Nat /\ Len(r) \in Nat /\ n \in 1..n /\ (1..n) \ {n} = 1..Len(r)
      /\ IsFiniteSet(1..n) /\ IsFiniteSet(1..Len(r))
  BY BatchNumbers
<1>2. \A i \in 1..n : EntryWeight(s)[i] \in Nat
  BY BatchNumbers
<1>3. EntryWeight(s)[n] = s[n].retained
  BY <1>1 DEF EntryWeight
<1>4. \A i \in 1..Len(r) : EntryWeight(s)[i] = EntryWeight(r)[i]
  BY <1>1 DEF EntryWeight
<1> HIDE DEF n
<1>5. Total(EntryWeight(s), 1..n) = EntryWeight(s)[n] + Total(EntryWeight(s), (1..n) \ {n})
  BY <1>1, <1>2, TotalRemove
<1>6. Total(EntryWeight(s), 1..Len(r)) = Total(EntryWeight(r), 1..Len(r))
  BY <1>1, <1>4, TotalEqual
<1>7. QED
  BY <1>1, <1>3, <1>5, <1>6 DEF n

\* A batch as new(), clear() and drain() leave it.
LEMMA EmptyBatchSafe ==
  ASSUME NEW batch, batch = Batch!EmptyBatch
  PROVE  /\ batch \in [events : Seq(EventEntry), retained : Nat]
         /\ Batch!BatchAccounts(batch)
<1>1. /\ batch.events = <<>> /\ batch.retained = 0 /\ <<>> \in Seq(EventEntry) /\ Len(<<>>) = 0
      /\ batch \in [events : Seq(EventEntry), retained : Nat]
  BY DEF Batch!EmptyBatch
<1>2. Total(EntryWeight(<<>>), 1..0) = 0
  <2>1. 1..0 = {}
    OBVIOUS
  <2>2. QED
    BY <2>1, TotalEmpty
<1>3. /\ batch.retained = Total(EntryWeight(batch.events), 1..Len(batch.events))
      /\ batch.retained <= BatchLimits.retained_bytes /\ Len(batch.events) <= BatchLimits.events
  BY <1>1, <1>2, EntryNumbers
<1>4. batch.events \in Seq(EventEntry)
  BY <1>1
<1>5. QED
  BY <1>1, <1>3, <1>4, BatchTotal

\* What the invariant says of the batch.
LEMMA BatchFacts ==
  ASSUME BatchInv
  PROVE  /\ ready.events \in Seq(EventEntry) /\ ready.retained \in Nat /\ Len(ready.events) \in Nat
         /\ ready.retained = Total(EntryWeight(ready.events), 1..Len(ready.events))
         /\ ready.retained <= BatchLimits.retained_bytes
         /\ Len(ready.events) <= BatchLimits.events
<1>1. ready.events \in Seq(EventEntry) /\ ready.retained \in Nat
  BY DEF BatchInv, EventEntry
<1>2. Batch!BatchAccounts(ready)
  BY DEF BatchInv, BatchSafe
<1>3. QED
  BY <1>1, <1>2, BatchTotal, LenProperties

\* try_push
LEMMA PushSafe ==
  ASSUME BatchInv, NEW size \in EventSizes, ready' = Batch!TryPush(ready, size, size)
  PROVE  BatchInv'
<1> DEFINE s == ready.events
           e == [event |-> size, retained |-> size]
           all == Append(s, e)
<1>1. /\ s \in Seq(EventEntry) /\ ready.retained \in Nat /\ Len(s) \in Nat
      /\ ready.retained = Total(EntryWeight(s), 1..Len(s))
      /\ size \in Nat /\ e \in EventEntry
      /\ BatchLimits.events \in Nat /\ BatchLimits.retained_bytes \in Nat
  BY BatchFacts, EntryNumbers DEF EventEntry
<1>2. CASE Batch!PushFailure(ready, size) # "none"
  BY <1>2 DEF Batch!TryPush, BatchInv, BatchSafe
<1>3. CASE Batch!PushFailure(ready, size) = "none"
  <2>1. ready' = [events |-> all, retained |-> ready.retained + size]
    BY <1>3 DEF Batch!TryPush, Batch!Pushed, Batch!EntryOf
  <2>2. Len(s) < BatchLimits.events /\ ready.retained + size <= BatchLimits.retained_bytes
    <3>1. ~(Len(s) >= BatchLimits.events) /\ ~(ready.retained + size > BatchLimits.retained_bytes)
      BY <1>3 DEF Batch!PushFailure
    <3> HIDE DEF s
    <3>2. QED
      BY <1>1, <3>1
  <2>3. ready'.events = all /\ ready'.retained = ready.retained + size
    BY <2>1
  <2>4. /\ all \in Seq(EventEntry) /\ Len(all) = Len(s) + 1
        /\ \A i \in 1..Len(s) : all[i] = s[i]
        /\ all[Len(s) + 1] = e
    <3> HIDE DEF s, e
    <3>1. QED
      BY <1>1, AppendProperties
  <2>5. e.retained = size
    OBVIOUS
  <2> HIDE DEF s, e, all
  <2>6. Total(EntryWeight(all), 1..Len(all)) = size + Total(EntryWeight(s), 1..Len(s))
    BY <1>1, <2>4, <2>5, LastCounts
  <2>7. /\ ready'.retained = Total(EntryWeight(all), 1..Len(all))
        /\ ready'.retained <= BatchLimits.retained_bytes /\ ready'.retained \in Nat
    BY <1>1, <2>2, <2>3, <2>6
  <2>8. Len(all) <= BatchLimits.events
    BY <1>1, <2>2, <2>4
  <2>9. Batch!BatchAccounts(ready')
    BY <2>3, <2>4, <2>7, <2>8, BatchTotal
  <2>10. ready' \in [events : Seq(EventEntry), retained : Nat]
    BY <2>1, <2>3, <2>4, <2>7
  <2>11. QED
    BY <2>9, <2>10 DEF BatchInv, BatchSafe, EventEntry
<1>4. QED BY <1>2, <1>3

\* pop
LEMMA PopSafe ==
  ASSUME BatchInv, ready.events # <<>>, ready' = Batch!Popped(ready)
  PROVE  BatchInv'
<1> DEFINE s == ready.events
           rest == SubSeq(s, 1, Len(s) - 1)
<1>1. /\ s \in Seq(EventEntry) /\ ready.retained \in Nat /\ Len(s) \in Nat
      /\ ready.retained = Total(EntryWeight(s), 1..Len(s))
      /\ ready.retained <= BatchLimits.retained_bytes /\ Len(s) <= BatchLimits.events
      /\ BatchLimits.events \in Nat /\ BatchLimits.retained_bytes \in Nat
  BY BatchFacts, EntryNumbers
<1>2. ready' = [events |-> rest, retained |-> ready.retained - s[Len(s)].retained]
  BY DEF Batch!Popped, Batch!Front, Batch!Last
<1>3. ready'.events = rest /\ ready'.retained = ready.retained - s[Len(s)].retained
  BY <1>2
<1>4. s # <<>>
  OBVIOUS
<1> HIDE DEF s
<1>5. Len(s) # 0 /\ \A i \in 1..Len(s) : s[i] \in EventEntry
  BY <1>1, <1>4, EmptySeq, ElementOfSeq
<1>6. /\ rest \in Seq(EventEntry) /\ Len(s) = Len(rest) + 1 /\ Len(rest) \in Nat
      /\ \A i \in 1..Len(rest) : s[i] = rest[i]
  <2>1. Len(s) - 1 \in Nat /\ \A i \in 1..(Len(s) - 1) : s[i] \in EventEntry
    BY <1>1, <1>5
  <2> DEFINE k == Len(s) - 1
  <2>2. k \in Int /\ 1 \in Int /\ \A i \in 1..k : s[i] \in EventEntry
    BY <2>1
  <2> HIDE DEF k
  <2>3. /\ SubSeq(s, 1, k) \in Seq(EventEntry)
        /\ Len(SubSeq(s, 1, k)) = IF 1 <= k THEN k - 1 + 1 ELSE 0
        /\ \A i \in 1..(k - 1 + 1) : SubSeq(s, 1, k)[i] = s[1 + i - 1]
    BY <2>2, SubSeqProperties
  <2>4. k \in Nat /\ Len(s) = k + 1 /\ rest = SubSeq(s, 1, k)
    BY <1>1, <2>1 DEF k
  <2> HIDE DEF rest
  <2>5. Len(rest) = k /\ \A i \in 1..k : s[i] = rest[i]
    BY <2>3, <2>4
  <2>6. QED
    BY <2>3, <2>4, <2>5
<1>7. s[Len(s)].retained \in Nat
  BY <1>1, <1>5, EntryNumbers
<1> HIDE DEF rest
<1>8. Total(EntryWeight(s), 1..Len(s)) = s[Len(s)].retained + Total(EntryWeight(rest), 1..Len(rest))
  BY <1>1, <1>6, LastCounts
<1>9. Total(EntryWeight(rest), 1..Len(rest)) \in Nat
  BY <1>6, BatchNumbers
<1>10. /\ ready'.retained = Total(EntryWeight(rest), 1..Len(rest))
       /\ ready'.retained \in Nat /\ ready'.retained <= BatchLimits.retained_bytes
  BY <1>1, <1>3, <1>7, <1>8, <1>9
<1>11. Len(rest) <= BatchLimits.events
  BY <1>1, <1>6
<1>12. Batch!BatchAccounts(ready')
  BY <1>3, <1>6, <1>10, <1>11, BatchTotal
<1>13. ready' \in [events : Seq(EventEntry), retained : Nat]
  BY <1>2, <1>3, <1>6, <1>10
<1>14. QED
  BY <1>12, <1>13 DEF BatchInv, BatchSafe, EventEntry

\* Every step of the host.
LEMMA BatchNextInv == BatchInv /\ [HostNext]_vars => BatchInv'
<1> SUFFICES ASSUME BatchInv, [HostNext]_vars PROVE BatchInv'
  OBVIOUS
<1>1. CASE ready' = ready
  BY <1>1 DEF BatchInv, BatchSafe
<1>2. CASE ReadyWork
  <2>1. ASSUME NEW size \in EventSizes, ready' = Batch!TryPush(ready, size, size)
        PROVE  BatchInv'
    BY <2>1, PushSafe
  <2>2. CASE ready.events # <<>> /\ ready' = Batch!Popped(ready)
    BY <2>2, PopSafe
  <2>3. CASE ready' = Batch!EmptyBatch
    BY <2>3, EmptyBatchSafe DEF BatchInv, BatchSafe, EventEntry
  <2>4. QED
    BY <1>2, <2>1, <2>2, <2>3 DEF ReadyWork, Batch!Cleared, Batch!Drained
<1>3. ready' = ready \/ ReadyWork
  BY DEF HostNext, HostStep, BeginStep, EndStep, Observed, ObserveFails, FireDue, EndTurn, TimerWork,
     FailTurn, Resume, Notified, EndWait, Tick, vars
<1>4. QED BY <1>1, <1>2, <1>3

---------------------------------------------------------------------------
(* The theorems                                                            *)

\* TimerSafe for every queue: after any admissions, refusals, cancellations and
\* drains the accounts are exact and within both limits, drains report honestly and
\* every timer ends once, by its own token.
THEOREM TimerSafety == HostSpec => []TimerSafe
<1>1. HostInit => TimerInv /\ HostInv
  BY TimerInitInv, HostInitInv DEF HostInit
<1>2. (TimerInv /\ HostInv) /\ [HostNext]_vars => (TimerInv /\ HostInv)'
  BY TimerNextInv, HostNextInv
<1>3. TimerInv => TimerSafe
  BY DEF TimerInv
<1> QED
  BY <1>1, <1>2, <1>3, PTL DEF HostSpec

\* DeliveryOrder for every queue: what a drain hands out is due, comes in the order
\* of deadline and admission, and precedes whatever stays.
THEOREM TimersInOrder == HostSpec => DeliveryOrder
<1>1. HostInit => TimerInv /\ HostInv
  BY TimerInitInv, HostInitInv DEF HostInit
<1>2. (TimerInv /\ HostInv) /\ [HostNext]_vars => (TimerInv /\ HostInv)'
  BY TimerNextInv, HostNextInv
<1>3. TimerInv /\ HostInv /\ [HostNext]_vars =>
        [LET fired == SubSeq(delivered', Len(delivered) + 1, Len(delivered'))
         IN \A i \in DOMAIN fired :
              /\ fired[i].token.deadline <= now
              /\ \A j \in (i + 1)..Len(fired) : Precedes(fired[i], fired[j])
              /\ \A t \in timers' : Precedes(fired[i], t)]_timerVars
  BY StepDelivers
<1> QED
  BY <1>1, <1>2, <1>3, PTL DEF HostSpec, DeliveryOrder

\* BatchSafe for every batch: the account is what the held entries measured on their
\* admission, within both limits, whatever is pushed, popped, cleared or drained.
THEOREM BatchSafety == HostSpec => []BatchSafe
<1>1. HostInit => BatchInv
  BY EmptyBatchSafe DEF HostInit, BatchInv, BatchSafe, EventEntry
<1>2. BatchInv /\ [HostNext]_vars => BatchInv'
  BY BatchNextInv
<1>3. BatchInv => BatchSafe
  BY DEF BatchInv
<1> QED
  BY <1>1, <1>2, <1>3, PTL DEF HostSpec

===========================================================================
