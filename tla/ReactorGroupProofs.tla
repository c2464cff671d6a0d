------------------------- MODULE ReactorGroupProofs ------------------------
(***************************************************************************)
(* Many threads and one verdict.  ShutdownInv is inductive for every set   *)
(* of threads, every capacity and any number of calls; GroupInv for every  *)
(* limit, topology, set of clients and of requesters, with one lemma per   *)
(* action.  The ownership, outcome and fence properties of the group       *)
(* follow, and every member is seen to live as ReactorLifecycle allows.    *)
(***************************************************************************)
EXTENDS Shutdown, ReactorGroup, FiniteSetTheorems, WellFoundedInduction, TLAPS

---------------------------------------------------------------------------
(* The shutdown barrier                                                    *)

\* A fresh barrier satisfies the invariant.
LEMMA ShutdownInitInv == ShutdownInit => ShutdownInv
<1> SUFFICES ASSUME ShutdownInit PROVE ShutdownInv
  OBVIOUS
<1>1. ShutdownTypeOK
  <2>1. settled \in BOOLEAN
    BY Zenon DEF ShutdownInit
  <2>2. QED BY <2>1 DEF ShutdownInit, ShutdownTypeOK, Pcs, Outcomes
<1>2. WithinCapacity /\ HeldUntilSettled
  BY FS_EmptySet, ShutdownConstants DEF ShutdownInit, WithinCapacity, HeldUntilSettled, Terminal
<1>3. \A t \in Threads : pc[t] = "out" /\ outcome[t] = "none" /\ handle[t] = "none"
  BY DEF ShutdownInit
<1>4. NoShutdownPanic /\ PublishedOnce /\ NobodyForgotten /\ OneVerdict
      /\ OneRequest /\ ReturnIsTrue
  BY <1>3 DEF ShutdownInit, NoShutdownPanic, PublishedOnce, NobodyForgotten, OneVerdict,
              OneRequest, Requesting, ReturnIsTrue
<1>5. QED
  BY <1>1, <1>2, <1>4 DEF ShutdownInv, ShutdownSafe

\* A call that adds a subscriber does so while there is room.
LEMMA CapacityKept ==
  ASSUME ShutdownInv, NEW t \in Threads, subscribers' = subscribers \cup {t}, UNCHANGED taken,
         taken = {}, Cardinality(subscribers) < Capacity \/ subscribers = {}
  PROVE  WithinCapacity' /\ IsFiniteSet(subscribers') /\ IsFiniteSet(taken')
<1>1. IsFiniteSet(subscribers) /\ IsFiniteSet(taken)
  BY DEF ShutdownInv, HeldUntilSettled
<1>2. Cardinality(subscribers) \in Nat
  BY <1>1, FS_CardinalityType
<1>3. /\ IsFiniteSet(subscribers \cup {t})
      /\ Cardinality(subscribers \cup {t})
           \in {Cardinality(subscribers), Cardinality(subscribers) + 1}
  BY <1>1, FS_AddElement
<1>4. Cardinality(taken') = 0
  BY FS_EmptySet
<1>5. Cardinality(subscribers) < Capacity
  BY FS_EmptySet, ShutdownConstants
<1>6. QED
  BY <1>1, <1>2, <1>3, <1>4, <1>5, ShutdownConstants DEF WithinCapacity

\* A step that keeps both sets keeps their bound.
LEMMA CapacityUntouched ==
  ASSUME ShutdownInv, UNCHANGED <<subscribers, taken>>
  PROVE  WithinCapacity' /\ IsFiniteSet(subscribers') /\ IsFiniteSet(taken')
BY DEF ShutdownInv, ShutdownSafe, WithinCapacity, HeldUntilSettled

\* The steps of subscribe() that leave the subscribers alone.
LEMMA CallKeeps ==
  ASSUME ShutdownInv, NEW t \in Threads,
         \/ Subscribe(t) \/ Request(t) \/ FinishRequestFailure(t) \/ AbortRequest(t)
         \/ NotifyAll(t) \/ Return(t) \/ SpuriousWakeup(t)
  PROVE  ShutdownInv'
<1>1. WithinCapacity' /\ IsFiniteSet(subscribers') /\ IsFiniteSet(taken')
  BY CapacityUntouched
     DEF Subscribe, Request, FinishRequestFailure, AbortRequest, NotifyAll, Return, SpuriousWakeup
<1> USE <1>1
        DEF ShutdownInv, ShutdownSafe, ShutdownTypeOK, NoShutdownPanic, PublishedOnce,
            NobodyForgotten, OneVerdict, OneRequest, HeldUntilSettled, ReturnIsTrue, Requesting,
            Terminal, Goto, Pcs, Outcomes
<1>2. CASE Subscribe(t)            BY <1>2 DEF Subscribe
<1>3. CASE Request(t)              BY <1>3 DEF Request
<1>4. CASE FinishRequestFailure(t) BY <1>4 DEF FinishRequestFailure
<1>5. CASE AbortRequest(t)         BY <1>5 DEF AbortRequest
<1>6. CASE NotifyAll(t)            BY <1>6 DEF NotifyAll, Released
<1>7. CASE Return(t)               BY <1>7 DEF Return
<1>8. CASE SpuriousWakeup(t)       BY <1>8 DEF SpuriousWakeup
<1>9. QED BY <1>2, <1>3, <1>4, <1>5, <1>6, <1>7, <1>8

\* The steps that may add a subscriber: the check of the loop and the end of a
\* callback that succeeded.
LEMMA SubscribeKeeps ==
  ASSUME ShutdownInv, NEW t \in Threads, Check(t) \/ FinishRequestSuccess(t)
  PROVE  ShutdownInv'
<1>1. WithinCapacity' /\ IsFiniteSet(subscribers') /\ IsFiniteSet(taken')
  <2>1. CASE UNCHANGED subscribers
    BY <2>1, CapacityUntouched DEF Check, FinishRequestSuccess
  <2>2. CASE CheckRequested(t, Cardinality(subscribers) >= Capacity) /\ Check(t)
             /\ subscribers' # subscribers
    <3>1. /\ ~(Cardinality(subscribers) >= Capacity) /\ barrier = "requested"
          /\ subscribers' = subscribers \cup {t} /\ UNCHANGED taken
      BY <2>2 DEF CheckRequested, Check
    <3>2. Cardinality(subscribers) < Capacity /\ taken = {}
      BY <3>1, FS_CardinalityType, ShutdownConstants DEF ShutdownInv, HeldUntilSettled, Terminal
    <3>3. QED BY <3>1, <3>2, CapacityKept
  <2>3. CASE FinishRequestSuccess(t) /\ barrier = "requesting"
    <3>1. subscribers = {} /\ taken = {}
      BY <2>3 DEF ShutdownInv, HeldUntilSettled, Terminal
    <3>2. QED BY <2>3, <3>1, CapacityKept DEF FinishRequestSuccess
  <2>4. QED BY <2>1, <2>2, <2>3 DEF Check, CheckOpen, CheckRequested, FinishRequestSuccess
<1> USE <1>1
        DEF ShutdownInv, ShutdownSafe, ShutdownTypeOK, NoShutdownPanic, PublishedOnce,
            NobodyForgotten, OneVerdict, OneRequest, HeldUntilSettled, ReturnIsTrue, Requesting,
            Terminal, Goto, Pcs, Outcomes
<1>2. CASE Check(t) BY <1>2 DEF Check, CheckOpen, CheckRequested
<1>3. CASE FinishRequestSuccess(t) BY <1>3 DEF FinishRequestSuccess
<1>4. QED BY <1>2, <1>3

\* The completer takes all subscribers out once, and resolves each of them.
LEMMA CompleterKeeps ==
  ASSUME ShutdownInv,
         Complete \/ Close \/ CompleterStep \/ UNCHANGED shutdownVars
  PROVE  ShutdownInv'
<1>1. IsFiniteSet(subscribers) /\ IsFiniteSet(taken)
  BY DEF ShutdownInv, HeldUntilSettled
<1>2. ASSUME NEW terminal \in {"completed", "closed"}, ~Terminal, Settle(terminal)
      PROVE  ShutdownInv'
  <2>1. taken = {} /\ subscribers' = taken /\ taken' = subscribers
    BY <1>2 DEF ShutdownInv, HeldUntilSettled, Settle
  <2>2. WithinCapacity' /\ IsFiniteSet(subscribers') /\ IsFiniteSet(taken')
    BY <1>1, <2>1, FS_CardinalityType DEF ShutdownInv, ShutdownSafe, WithinCapacity
  <2>3. QED
    BY <1>2, <2>1, <2>2
       DEF ShutdownInv, ShutdownSafe, ShutdownTypeOK, NoShutdownPanic, PublishedOnce,
           NobodyForgotten, OneVerdict, OneRequest, HeldUntilSettled, ReturnIsTrue, Requesting,
           Terminal, Settle
<1>3. ASSUME NEW t \in Threads, Resolve(t) PROVE ShutdownInv'
  <2>1. /\ IsFiniteSet(taken \ {t}) /\ Cardinality(taken \ {t}) = Cardinality(taken) - 1
        /\ Cardinality(taken) \in Nat /\ Cardinality(subscribers) \in Nat
    BY <1>1, <1>3, FS_RemoveElement, FS_CardinalityType DEF Resolve
  <2>2. WithinCapacity' /\ IsFiniteSet(subscribers') /\ IsFiniteSet(taken')
    BY <1>1, <1>3, <2>1, ShutdownConstants
       DEF ShutdownInv, ShutdownSafe, WithinCapacity, Resolve
  <2>3. QED
    BY <1>3, <2>2
       DEF ShutdownInv, ShutdownSafe, ShutdownTypeOK, NoShutdownPanic, PublishedOnce,
           NobodyForgotten, OneVerdict, OneRequest, HeldUntilSettled, ReturnIsTrue, Requesting,
           Terminal, Resolve
<1>4. CASE \/ Close /\ Terminal
           \/ CompleterNotifies \/ CompleterReturns \/ UNCHANGED shutdownVars
  <2>1. WithinCapacity' /\ IsFiniteSet(subscribers') /\ IsFiniteSet(taken')
    BY <1>4, CapacityUntouched DEF Close, CompleterNotifies, CompleterReturns, shutdownVars
  <2> USE <2>1
          DEF ShutdownInv, ShutdownSafe, ShutdownTypeOK, NoShutdownPanic, PublishedOnce,
              NobodyForgotten, OneVerdict, OneRequest, HeldUntilSettled, ReturnIsTrue, Requesting,
              Terminal, Pcs
  <2>2. CASE Close /\ Terminal BY <2>2 DEF Close
  <2>3. CASE CompleterNotifies BY <2>3 DEF CompleterNotifies, Released
  <2>4. CASE CompleterReturns BY <2>4 DEF CompleterReturns
  <2>5. CASE UNCHANGED shutdownVars BY <2>5 DEF shutdownVars
  <2>6. QED BY <1>4, <2>2, <2>3, <2>4, <2>5
<1>5. CASE Complete
  BY <1>2, <1>5 DEF Complete, ShutdownInv, HeldUntilSettled
<1>6. QED BY <1>2, <1>3, <1>4, <1>5 DEF Close, CompleterStep

\* For any number of threads, calls and subscribers that fit, whichever callbacks
\* fail or panic and whenever the barrier settles: the request is published at most
\* once, the "unreachable" panics are unreachable, the capacity holds, and no
\* subscriber is forgotten or told another end than the rest.
THEOREM ShutdownSafety == ShutdownSpec => []ShutdownSafe
<1>1. ShutdownInv /\ [ShutdownNext]_shutdownVars => ShutdownInv'
  BY CallKeeps, SubscribeKeeps, CompleterKeeps DEF ShutdownNext, CallStep
<1>2. ShutdownInv => ShutdownSafe
  BY DEF ShutdownInv
<1>3. QED
  BY ShutdownInitInv, <1>1, <1>2, PTL DEF ShutdownSpec

---------------------------------------------------------------------------
(* The reactor group                                                       *)

\* Positions are naturals, and the agents of the group are told apart.
LEMMA GroupSets ==
  /\ Limit \in Nat /\ Ids \subseteq Nat /\ NoReactor \notin Ids
  /\ Ids \subseteq Closers /\ Requesters \subseteq Closers /\ Supervisor \in Closers
  /\ Supervisor \notin Ids /\ Supervisor \notin Requesters /\ Ids \cap Requesters = {}
BY GroupConstants DEF Ids, NoReactor, Closers

\* A channel of distinct members is no longer than the group is large.
LEMMA ChannelHoldsMembers ==
  ASSUME NEW seq \in Seq(Ids), \A j, k \in DOMAIN seq : seq[j] = seq[k] => j = k
  PROVE  Len(seq) <= Limit
<1>1. Limit \in Nat /\ Len(seq) \in Nat /\ DOMAIN seq = 1 .. Len(seq)
  BY GroupSets
<1>2. IsFiniteSet(1 .. Len(seq)) /\ Cardinality(1 .. Len(seq)) = Len(seq)
  <2>1. IsFiniteSet(1 .. Len(seq))
        /\ Cardinality(1 .. Len(seq)) = IF 1 > Len(seq) THEN 0 ELSE Len(seq) - 1 + 1
    BY <1>1, FS_Interval
  <2>2. QED BY <1>1, <2>1
<1>3. IsFiniteSet(Ids) /\ Cardinality(Ids) = Limit
  <2>1. 0 \in Int /\ Limit - 1 \in Int
    BY <1>1
  <2>2. IsFiniteSet(0 .. (Limit - 1))
        /\ Cardinality(0 .. (Limit - 1)) = IF 0 > Limit - 1 THEN 0 ELSE (Limit - 1) - 0 + 1
    BY <2>1, FS_Interval, Zenon
  <2>3. QED BY <1>1, <2>2 DEF Ids
<1>4. seq \in Injection(1 .. Len(seq), Ids)
  BY <1>1 DEF Injection, IsInjective
<1>5. Cardinality(1 .. Len(seq)) <= Cardinality(Ids)
  BY <1>2, <1>3, <1>4, FS_Injection
<1>6. QED BY <1>2, <1>3, <1>5

\* The lowest member with a property is a member.
LEMMA LowestExists ==
  ASSUME NEW T, T \subseteq Nat, T # {}
  PROVE  \E r \in T : \A q \in T : r <= q
<1>1. PICK r \in T : \A q \in T : <<q, r>> \notin OpToRel(<, Nat)
  BY NatLessThanWellFounded, WFMin, Zenon
<1>2. \A q \in T : ~(q < r)
  BY <1>1, Zenon DEF OpToRel
<1>3. QED BY <1>2

\* What aggregate() answers: the most severe kind that occurred, of some member.
LEMMA AggregateType ==
  ASSUME members \subseteq Ids
  PROVE  /\ Aggregate(result).kind \in GroupOutcomes
         /\ Aggregate(result).id \in members \cup {NoReactor}
         /\ Aggregate(result).kind = "stopped" =>
              \A r \in members : result[r] \notin {"panicked", "failed", "terminated"}
         /\ Aggregate(result).kind = "terminated" =>
              \A r \in members : result[r] \notin {"panicked", "failed"}
<1> DEFINE lowest(kind) ==
             CHOOSE r \in members :
               result[r] = kind /\ \A q \in members : result[q] = kind => r <= q
<1>1. ASSUME NEW kind, \E r \in members : result[r] = kind
      PROVE  lowest(kind) \in members
  <2>1. PICK r \in {q \in members : result[q] = kind} :
               \A q \in {x \in members : result[x] = kind} : r <= q
    BY <1>1, LowestExists, GroupSets
  <2>2. \E x \in members : result[x] = kind /\ \A q \in members : result[q] = kind => x <= q
    BY <2>1
  <2>3. QED BY <2>2
<1> HIDE DEF lowest
<1>2. CASE \E r \in members : result[r] = "panicked"
  <2>1. Aggregate(result) = [kind |-> "panicked", id |-> lowest("panicked")]
    BY <1>2 DEF Aggregate, lowest
  <2>2. QED BY <1>1, <1>2, <2>1 DEF GroupOutcomes
<1>3. CASE ~(\E r \in members : result[r] = "panicked") /\ \E r \in members : result[r] = "failed"
  <2>1. Aggregate(result) = [kind |-> "failed", id |-> lowest("failed")]
    BY <1>3 DEF Aggregate, lowest
  <2>2. QED BY <1>1, <1>3, <2>1 DEF GroupOutcomes
<1>4. CASE ~(\E r \in members : result[r] \in {"panicked", "failed"})
  <2>1. Aggregate(result) = IF \E r \in members : result[r] = "terminated"
                            THEN [kind |-> "terminated", id |-> NoReactor]
                            ELSE [kind |-> "stopped", id |-> NoReactor]
    BY <1>4 DEF Aggregate
  <2>2. QED BY <1>4, <2>1 DEF GroupOutcomes
<1>5. QED BY <1>2, <1>3, <1>4

\* Leaving try_send releases the fence that the send held, and no other.
LEMMA LeaveSendKeeps ==
  ASSUME GroupInv, NEW c \in Clients, sending[c] \in {"fenced", "admit"}, LeaveSend(c),
         UNCHANGED <<spawner, members, stage, at>>
  PROVE  FenceInv'
<1>1. target[c] \in Ids /\ fence[target[c]] = c
  BY DEF GroupInv, GroupSafe, FenceInv, GroupTypeOK
<1>2. /\ \A d \in Clients : d # c => sending'[d] = sending[d] /\ target'[d] = target[d]
      /\ sending'[c] = "out"
      /\ \A r \in Ids : fence[r] # c => fence'[r] = fence[r]
  BY <1>1 DEF GroupInv, GroupSafe, GroupTypeOK, LeaveSend
<1>3. QED BY <1>2 DEF GroupInv, GroupSafe, FenceInv, GroupTypeOK, Started

\* validate() accepts only identities that equal their positions.
LEMMA SpawnKeeps ==
  ASSUME GroupInv, NEW ids \in Topologies, Spawn(ids)
  PROVE  GroupInv'
<1> USE GroupConstants
       DEF GroupInv, GroupSafe, Spawn, Valid,
           spawnVars, workerVars, superVars, sendVars, closeVars
<1>1. GroupTypeOK'
  <2>1. members = {} /\ gate = "none"
    BY DEF StartupInv, Started, GroupTypeOK
  <2>2. Len(ids) \in Nat
    OBVIOUS
  <2>3. members' \subseteq Ids
    BY <2>1, <2>2 DEF Ids
  <2>4. asked = {} /\ groupOutcome.id = NoReactor /\ joined = {} /\ known = {} /\ exits = {}
    BY <2>1 DEF GroupTypeOK
  <2>5. QED BY <2>1, <2>3, <2>4 DEF GroupTypeOK
<1>2. (NoGroupPanic /\ Contiguous /\ StartupInv)'
  <2>1. members = {} /\ known = {} /\ joined = {}
    BY DEF StartupInv, GroupTypeOK
  <2>2. Len(ids) \in Nat
    OBVIOUS
  <2>3. Valid(ids) => 0 \in 0 .. Len(ids) - 1
    BY <2>2
  <2>4. members' = {} <=> spawner' \in {"validate", "rejected"}
    BY <2>1, <2>3
  <2>5. Contiguous'
    BY <2>1, <2>2 DEF Contiguous, Ids
  <2>6. StartupInv'
    BY <2>1, <2>4 DEF StartupInv, Started
  <2>7. QED BY <2>5, <2>6 DEF NoGroupPanic
<1>3. WorkerInv'
  BY DEF WorkerInv, GroupTypeOK, StartupInv, MemberExits
<1>4. CollectedInv'
  BY DEF CollectedInv, Reported, Started, GroupTypeOK, StartupInv, WorkerInv, MemberExits
<1>5. (PublishedBeforeWakes /\ CloserInv)'
  BY DEF PublishedBeforeWakes, CloserInv, WorkerInv, StartupInv, CollectedInv, Started,
         Contiguous, GroupTypeOK, Closers, Ids
<1>6. FenceInv'
  BY DEF FenceInv, Started
<1>7. (AskedInv /\ OutcomeIsHonest)'
  <2>1. groupOutcome.kind = "none" /\ asked = {}
    BY DEF StartupInv, CollectedInv, GroupTypeOK
  <2>2. QED BY <2>1 DEF AskedInv, OutcomeIsHonest
<1>8. QED BY <1>1, <1>2, <1>3, <1>4, <1>5, <1>6, <1>7

\* A worker thread starts behind the gate, or the attempt is given up.
LEMMA SpawnWorkerKeeps ==
  ASSUME GroupInv, NEW r \in Ids, SpawnWorker(r)
  PROVE  GroupInv'
<1> USE GroupConstants
       DEF GroupInv, GroupSafe, SpawnWorker,
           spawnVars, workerVars, superVars, sendVars, closeVars
<1>1. GroupTypeOK'
  BY DEF GroupTypeOK
<1>2. (NoGroupPanic /\ Contiguous /\ StartupInv)'
  BY DEF NoGroupPanic, Contiguous, StartupInv, Started, GroupTypeOK
<1>3. WorkerInv'
  BY DEF WorkerInv, StartupInv, Started, GroupTypeOK, MemberExits
<1>4. CollectedInv'
  BY DEF CollectedInv, Reported, Started, GroupTypeOK, StartupInv, WorkerInv, MemberExits
<1>5. (PublishedBeforeWakes /\ CloserInv)'
  <2>1. ~Started /\ ~Started'
    BY DEF Started
  <2>2. \A p \in Closers : stage[p] = "out"
    BY <2>1 DEF CloserInv
  <2>3. QED BY <2>2, GroupSets DEF PublishedBeforeWakes, CloserInv
<1>6. FenceInv'
  BY DEF FenceInv, Started
<1>7. (AskedInv /\ OutcomeIsHonest)'
  BY DEF AskedInv, OutcomeIsHonest
<1>8. QED BY <1>1, <1>2, <1>3, <1>4, <1>5, <1>6, <1>7

\* The supervisor takes the workers over, or gives them back.
LEMMA SpawnSupervisorKeeps ==
  ASSUME GroupInv, SpawnSupervisor
  PROVE  GroupInv'
<1> USE GroupConstants
       DEF GroupInv, GroupSafe, SpawnSupervisor,
           spawnVars, workerVars, superVars, sendVars, closeVars
<1>1. GroupTypeOK'
  BY DEF GroupTypeOK
<1>2. (NoGroupPanic /\ Contiguous /\ StartupInv)'
  BY DEF NoGroupPanic, Contiguous, StartupInv, Started, GroupTypeOK
<1>3. WorkerInv'
  BY DEF WorkerInv
<1>4. CollectedInv'
  BY DEF CollectedInv, Reported, Started, GroupTypeOK, StartupInv, WorkerInv, MemberExits
<1>5. (PublishedBeforeWakes /\ CloserInv)'
  BY DEF PublishedBeforeWakes, CloserInv, Started
<1>6. FenceInv'
  BY DEF FenceInv, Started
<1>7. (AskedInv /\ OutcomeIsHonest)'
  BY DEF AskedInv, OutcomeIsHonest
<1>8. QED BY <1>1, <1>2, <1>3, <1>4, <1>5, <1>6, <1>7

\* The gate opens for a complete group.
LEMMA StartGroupKeeps ==
  ASSUME GroupInv, StartGroup
  PROVE  GroupInv'
<1> USE GroupConstants
       DEF GroupInv, GroupSafe, StartGroup,
           spawnVars, workerVars, superVars, sendVars, closeVars
<1>1. GroupTypeOK'
  BY DEF GroupTypeOK
<1>2. (NoGroupPanic /\ Contiguous /\ StartupInv)'
  BY DEF NoGroupPanic, Contiguous, StartupInv, Started
<1>3. WorkerInv'
  BY DEF WorkerInv, GroupTypeOK, StartupInv, MemberExits
<1>4. CollectedInv'
  BY DEF CollectedInv, Reported, Started, GroupTypeOK, StartupInv, WorkerInv, MemberExits
<1>5. (PublishedBeforeWakes /\ CloserInv)'
  BY DEF PublishedBeforeWakes, CloserInv, Started
<1>6. FenceInv'
  BY DEF FenceInv, Started
<1>7. (AskedInv /\ OutcomeIsHonest)'
  BY DEF AskedInv, OutcomeIsHonest
<1>8. QED BY <1>1, <1>2, <1>3, <1>4, <1>5, <1>6, <1>7

\* The gate tells the workers that there will be no group.
LEMMA AbortKeeps ==
  ASSUME GroupInv, Abort
  PROVE  GroupInv'
<1> USE GroupConstants
       DEF GroupInv, GroupSafe, Abort,
           spawnVars, workerVars, superVars, sendVars, closeVars
<1>1. GroupTypeOK'
  BY DEF GroupTypeOK
<1>2. (NoGroupPanic /\ Contiguous /\ StartupInv)'
  BY DEF NoGroupPanic, Contiguous, StartupInv, Started
<1>3. WorkerInv'
  BY DEF WorkerInv, StartupInv, Started, GroupTypeOK, MemberExits
<1>4. CollectedInv'
  BY DEF CollectedInv, Reported, Started, GroupTypeOK, StartupInv, WorkerInv, MemberExits
<1>5. (PublishedBeforeWakes /\ CloserInv)'
  BY DEF PublishedBeforeWakes, CloserInv, Started
<1>6. FenceInv'
  BY DEF FenceInv, Started
<1>7. (AskedInv /\ OutcomeIsHonest)'
  BY DEF AskedInv, OutcomeIsHonest
<1>8. QED BY <1>1, <1>2, <1>3, <1>4, <1>5, <1>6, <1>7

\* A worker that an aborting spawn() joins never ran.
LEMMA JoinAbortedKeeps ==
  ASSUME GroupInv, NEW r \in Ids, JoinAborted(r)
  PROVE  GroupInv'
<1> USE GroupConstants
       DEF GroupInv, GroupSafe, JoinAborted,
           spawnVars, workerVars, superVars, sendVars, closeVars
<1>1. GroupTypeOK'
  BY DEF GroupTypeOK
<1>2. (NoGroupPanic /\ Contiguous /\ StartupInv)'
  BY DEF NoGroupPanic, Contiguous, StartupInv, Started, GroupTypeOK, WorkerInv, MemberExits
<1>3. WorkerInv'
  BY DEF WorkerInv
<1>4. CollectedInv'
  BY DEF CollectedInv, Reported, Started
<1>5. (PublishedBeforeWakes /\ CloserInv)'
  BY DEF PublishedBeforeWakes, CloserInv, Started
<1>6. FenceInv'
  BY DEF FenceInv, Started
<1>7. (AskedInv /\ OutcomeIsHonest)'
  BY DEF AskedInv, OutcomeIsHonest
<1>8. QED BY <1>1, <1>2, <1>3, <1>4, <1>5, <1>6, <1>7

\* Every slot still holds its reactor, and no worker an Arc of the ingress.
LEMMA ReturnMembersKeeps ==
  ASSUME GroupInv, ReturnMembers
  PROVE  GroupInv'
<1> USE GroupConstants
       DEF GroupInv, GroupSafe, ReturnMembers, Holders,
           spawnVars, workerVars, superVars, sendVars, closeVars
<1>1. GroupTypeOK'
  BY DEF GroupTypeOK
<1>2. (NoGroupPanic /\ Contiguous /\ StartupInv)'
  BY DEF NoGroupPanic, Contiguous, StartupInv, Started, GroupTypeOK
<1>3. WorkerInv'
  BY DEF WorkerInv
<1>4. CollectedInv'
  BY DEF CollectedInv, Reported, Started
<1>5. (PublishedBeforeWakes /\ CloserInv)'
  BY DEF PublishedBeforeWakes, CloserInv, Started
<1>6. FenceInv'
  BY DEF FenceInv, Started
<1>7. (AskedInv /\ OutcomeIsHonest)'
  BY DEF AskedInv, OutcomeIsHonest
<1>8. QED BY <1>1, <1>2, <1>3, <1>4, <1>5, <1>6, <1>7

\* A worker runs or ends as the gate decided.
LEMMA PassGateKeeps ==
  ASSUME GroupInv, NEW r \in Ids, PassGate(r)
  PROVE  GroupInv'
<1> USE GroupConstants
       DEF GroupInv, GroupSafe, PassGate,
           spawnVars, workerVars, superVars, sendVars, closeVars
<1>1. GroupTypeOK'
  BY DEF GroupTypeOK, MemberExits, GroupOutcomes
<1>2. (NoGroupPanic /\ Contiguous /\ StartupInv)'
  BY DEF NoGroupPanic, Contiguous, StartupInv, Started, GroupTypeOK
<1>3. WorkerInv'
  BY DEF WorkerInv, GroupTypeOK, StartupInv, MemberExits
<1>4. CollectedInv'
  BY DEF CollectedInv, Reported, Started, GroupTypeOK, StartupInv, WorkerInv, MemberExits
<1>5. (PublishedBeforeWakes /\ CloserInv)'
  <2>1. PublishedBeforeWakes'
    BY DEF PublishedBeforeWakes
  <2>2. \A p \in Ids : stage[p] # "out" => p # r /\ worker'[p] = worker[p]
    BY GroupSets DEF CloserInv, GroupTypeOK
  <2>3. CloserInv'
    BY <2>2, GroupSets DEF CloserInv, Started
  <2>4. QED BY <2>1, <2>3
<1>6. FenceInv'
  BY DEF FenceInv, Started
<1>7. (AskedInv /\ OutcomeIsHonest)'
  BY DEF AskedInv, OutcomeIsHonest, WorkerInv, CollectedInv, GroupTypeOK, MemberExits, Fatal
<1>8. QED BY <1>1, <1>2, <1>3, <1>4, <1>5, <1>6, <1>7

\* A member ends once, and tells whether it was asked to.
LEMMA RunEndsKeeps ==
  ASSUME GroupInv, NEW r \in Ids,
         NEW how \in {"stopped", "terminated", "failed", "panicked"}, RunEnds(r, how)
  PROVE  GroupInv'
<1> USE GroupConstants
       DEF GroupInv, GroupSafe, RunEnds, StopOutcome, IsFatal, Fatal,
           spawnVars, workerVars, superVars, sendVars, closeVars
<1>1. GroupTypeOK'
  <2>1. result' \in [Ids -> {"none", "aborted"} \cup MemberExits]
    BY DEF GroupTypeOK, MemberExits
  <2>2. worker' \in [Ids -> {"none", "gated", "running", "terminating", "finishing", "sent",
                              "ended"}]
    BY DEF GroupTypeOK
  <2>3. stage' \in [Closers -> {"out", "close", "fence", "publish", "wake", "done"}]
    BY DEF GroupTypeOK
  <2>4. control' \in [Ids -> {"running", "requested", "exited"}]
    BY DEF GroupTypeOK
  <2>5. QED BY <2>1, <2>2, <2>3, <2>4 DEF GroupTypeOK
<1>2. (NoGroupPanic /\ Contiguous /\ StartupInv)'
  BY DEF NoGroupPanic, Contiguous, StartupInv, Started, GroupTypeOK
<1>3. WorkerInv'
  BY DEF WorkerInv, GroupTypeOK, StartupInv, MemberExits
<1>4. CollectedInv'
  BY DEF CollectedInv, Reported, Started, GroupTypeOK
<1>5. (PublishedBeforeWakes /\ CloserInv)'
  <2>1. Started /\ stage[r] = "out" /\ r \in Closers
    BY GroupSets DEF CloserInv, WorkerInv, StartupInv, Started, GroupTypeOK
  <2>2. /\ \A p \in Closers : p # r => stage'[p] = stage[p]
        /\ stage'[r] \in {"out", "close"}
    BY <2>1 DEF GroupTypeOK
  <2>3. \A q \in Ids : control[q] # "running" => control'[q] # "running"
    BY DEF GroupTypeOK
  <2>4. \A q \in Ids : worker[q] \notin {"none", "gated", "running"}
                         => worker'[q] \notin {"none", "gated", "running"}
    BY DEF GroupTypeOK
  <2>5. worker'[r] \notin {"none", "gated", "running"}
    BY DEF GroupTypeOK
  <2>6. PublishedBeforeWakes'
    BY <2>2, <2>3, GroupSets DEF PublishedBeforeWakes, GroupTypeOK
  <2>7. CloserInv'
    BY <2>1, <2>2, <2>3, <2>4, <2>5, GroupSets DEF CloserInv, Started, GroupTypeOK
  <2>8. QED BY <2>6, <2>7
<1>6. FenceInv'
  BY DEF FenceInv, Started, GroupTypeOK
<1>7. (AskedInv /\ OutcomeIsHonest)'
  BY DEF AskedInv, OutcomeIsHonest, WorkerInv, CollectedInv, GroupTypeOK, MemberExits
<1>8. QED BY <1>1, <1>2, <1>3, <1>4, <1>5, <1>6, <1>7

\* A fatal worker is done with the group's termination.
LEMMA TerminatedKeeps ==
  ASSUME GroupInv, NEW r \in Ids, Terminated(r)
  PROVE  GroupInv'
<1> USE GroupConstants
       DEF GroupInv, GroupSafe, Terminated,
           spawnVars, workerVars, superVars, sendVars, closeVars
<1>1. GroupTypeOK'
  BY DEF GroupTypeOK
<1>2. (NoGroupPanic /\ Contiguous /\ StartupInv)'
  BY DEF NoGroupPanic, Contiguous, StartupInv, Started
<1>3. WorkerInv'
  BY DEF WorkerInv
<1>4. CollectedInv'
  BY DEF CollectedInv, Reported, Started
<1>5. (PublishedBeforeWakes /\ CloserInv)'
  <2>1. PublishedBeforeWakes'
    BY DEF PublishedBeforeWakes
  <2>2. \A q \in Ids : worker[q] \notin {"none", "gated", "running"}
                         => worker'[q] \notin {"none", "gated", "running"}
    BY DEF GroupTypeOK
  <2>3. CloserInv'
    BY <2>2, GroupSets DEF CloserInv, Started
  <2>4. QED BY <2>1, <2>3
<1>6. FenceInv'
  BY DEF FenceInv, Started
<1>7. (AskedInv /\ OutcomeIsHonest)'
  BY DEF AskedInv, OutcomeIsHonest
<1>8. QED BY <1>1, <1>2, <1>3, <1>4, <1>5, <1>6, <1>7

\* A worker reports once, so the channel never holds more than the members.
LEMMA ReportCompletionKeeps ==
  ASSUME GroupInv, NEW r \in Ids, ReportCompletion(r)
  PROVE  GroupInv'
<1> USE GroupConstants
       DEF GroupInv, GroupSafe, ReportCompletion,
           spawnVars, workerVars, superVars, sendVars, closeVars
<1>1. CollectedInv'
  <2>1. Started /\ r \in members /\ r \notin exits /\ r \notin Reported
    BY DEF WorkerInv, CollectedInv, StartupInv, Started, GroupTypeOK
  <2>2. completed \in Seq(Ids) /\ completed' = Append(completed, r) /\ Len(completed) \in Nat
    BY DEF GroupTypeOK
  <2>3. /\ Len(completed') = Len(completed) + 1 /\ completed'[Len(completed) + 1] = r
        /\ \A k \in 1 .. Len(completed) : completed'[k] = completed[k]
        /\ DOMAIN completed = 1 .. Len(completed) /\ DOMAIN completed' = 1 .. Len(completed')
    BY <2>2
  <2>4. Reported' = Reported \cup {r}
    BY <2>2, <2>3 DEF Reported
  <2>5. \A j, k \in DOMAIN completed' : completed'[j] = completed'[k] => j = k
    BY <2>1, <2>2, <2>3 DEF CollectedInv, Reported
  <2>6. completed' # <<>>
    BY <2>2, <2>3
  <2>7. QED BY <2>1, <2>4, <2>5, <2>6 DEF CollectedInv, StartupInv, Started, GroupTypeOK
<1>2. (NoGroupPanic /\ Contiguous /\ StartupInv)'
  BY DEF NoGroupPanic, Contiguous, StartupInv, Started
<1>3. WorkerInv'
  BY DEF WorkerInv
<1>4. GroupTypeOK'
  <2>1. completed' \in Seq(Ids)
    BY DEF GroupTypeOK
  <2>2. Len(completed') <= Limit
    BY <1>1, <2>1, ChannelHoldsMembers DEF CollectedInv
  <2>3. QED BY <2>1, <2>2 DEF GroupTypeOK
<1>5. (PublishedBeforeWakes /\ CloserInv)'
  <2>1. PublishedBeforeWakes'
    BY DEF PublishedBeforeWakes
  <2>2. \A q \in Ids : worker[q] \notin {"none", "gated", "running"}
                         => worker'[q] \notin {"none", "gated", "running"}
    BY DEF GroupTypeOK
  <2>3. CloserInv'
    BY <2>2, GroupSets DEF CloserInv, Started
  <2>4. QED BY <2>1, <2>3
<1>6. FenceInv'
  BY DEF FenceInv, Started
<1>7. (AskedInv /\ OutcomeIsHonest)'
  BY DEF AskedInv, OutcomeIsHonest
<1>8. QED BY <1>1, <1>2, <1>3, <1>4, <1>5, <1>6, <1>7

\* A reported worker ends.
LEMMA EndWorkerKeeps ==
  ASSUME GroupInv, NEW r \in Ids, EndWorker(r)
  PROVE  GroupInv'
<1> USE GroupConstants
       DEF GroupInv, GroupSafe, EndWorker,
           spawnVars, workerVars, superVars, sendVars, closeVars
<1>1. GroupTypeOK'
  BY DEF GroupTypeOK
<1>2. (NoGroupPanic /\ Contiguous /\ StartupInv)'
  BY DEF NoGroupPanic, Contiguous, StartupInv, Started
<1>3. WorkerInv'
  BY DEF WorkerInv
<1>4. CollectedInv'
  BY DEF CollectedInv, Reported, Started
<1>5. (PublishedBeforeWakes /\ CloserInv)'
  <2>1. PublishedBeforeWakes'
    BY DEF PublishedBeforeWakes
  <2>2. \A q \in Ids : worker[q] \notin {"none", "gated", "running"}
                         => worker'[q] \notin {"none", "gated", "running"}
    BY DEF GroupTypeOK
  <2>3. CloserInv'
    BY <2>2, GroupSets DEF CloserInv, Started
  <2>4. QED BY <2>1, <2>3
<1>6. FenceInv'
  BY DEF FenceInv, Started
<1>7. (AskedInv /\ OutcomeIsHonest)'
  BY DEF AskedInv, OutcomeIsHonest
<1>8. QED BY <1>1, <1>2, <1>3, <1>4, <1>5, <1>6, <1>7

\* A user enters request_termination().
LEMMA RequestTerminationKeeps ==
  ASSUME GroupInv, NEW p \in Closers, RequestTermination(p)
  PROVE  GroupInv'
<1> USE GroupConstants
       DEF GroupInv, GroupSafe, RequestTermination,
           spawnVars, workerVars, superVars, sendVars, closeVars
<1>1. GroupTypeOK'
  BY DEF GroupTypeOK
<1>2. (NoGroupPanic /\ Contiguous /\ StartupInv)'
  BY DEF NoGroupPanic, Contiguous, StartupInv, Started
<1>3. WorkerInv'
  BY DEF WorkerInv
<1>4. CollectedInv'
  BY DEF CollectedInv, Reported, Started
<1>5. (PublishedBeforeWakes /\ CloserInv)'
  BY DEF PublishedBeforeWakes, CloserInv, WorkerInv, StartupInv, CollectedInv, Started,
         Contiguous, GroupTypeOK, Closers, Ids
<1>6. FenceInv'
  BY DEF FenceInv, Started
<1>7. (AskedInv /\ OutcomeIsHonest)'
  BY DEF AskedInv, OutcomeIsHonest
<1>8. QED BY <1>1, <1>2, <1>3, <1>4, <1>5, <1>6, <1>7

\* close() shuts the flag before it passes any fence.
LEMMA CloseFlagKeeps ==
  ASSUME GroupInv, NEW p \in Closers, CloseFlag(p)
  PROVE  GroupInv'
<1> USE GroupConstants
       DEF GroupInv, GroupSafe, CloseFlag,
           spawnVars, workerVars, superVars, sendVars, closeVars
<1>1. GroupTypeOK'
  <2>1. stage' \in [Closers -> {"out", "close", "fence", "publish", "wake", "done"}]
    BY DEF GroupTypeOK
  <2>2. open' \in BOOLEAN
    BY Zenon
  <2>3. QED BY <2>1, <2>2 DEF GroupTypeOK
<1>2. (NoGroupPanic /\ Contiguous /\ StartupInv)'
  BY DEF NoGroupPanic, Contiguous, StartupInv, Started
<1>3. WorkerInv'
  BY DEF WorkerInv
<1>4. CollectedInv'
  BY DEF CollectedInv, Reported, Started
<1>5. (PublishedBeforeWakes /\ CloserInv)'
  <2>1. /\ \A q \in Closers : q # p => stage'[q] = stage[q] /\ at'[q] = at[q]
        /\ stage'[p] = "fence"
    BY DEF CloserInv, GroupTypeOK
  <2>2. at' \in [Closers -> Nat] /\ open' = FALSE
    BY DEF CloserInv
  <2>3. PublishedBeforeWakes'
    BY <2>1, GroupSets DEF PublishedBeforeWakes
  <2>4. CloserInv'
    BY <2>1, <2>2 DEF CloserInv, Started
  <2>5. QED BY <2>3, <2>4
<1>6. FenceInv'
  <2>1. /\ \A q \in Closers : q # p => stage'[q] = stage[q] /\ at'[q] = at[q]
        /\ stage'[p] = "fence" /\ at'[p] = 0
    BY DEF CloserInv, GroupTypeOK
  <2>2. \A c \in Clients : sending[c] = "admit" => target[c] \in Nat
    BY GroupSets DEF FenceInv, GroupTypeOK
  <2>3. QED BY <2>1, <2>2 DEF FenceInv, Started
<1>7. (AskedInv /\ OutcomeIsHonest)'
  BY DEF AskedInv, OutcomeIsHonest
<1>8. QED BY <1>1, <1>2, <1>3, <1>4, <1>5, <1>6, <1>7

\* A fence that close() passes has no send behind it.
LEMMA PassFenceKeeps ==
  ASSUME GroupInv, NEW p \in Closers, PassFence(p)
  PROVE  GroupInv'
<1> USE GroupConstants
       DEF GroupInv, GroupSafe, PassFence,
           spawnVars, workerVars, superVars, sendVars, closeVars
<1>1. GroupTypeOK'
  BY DEF GroupTypeOK
<1>2. (NoGroupPanic /\ Contiguous /\ StartupInv)'
  BY DEF NoGroupPanic, Contiguous, StartupInv, Started
<1>3. WorkerInv'
  BY DEF WorkerInv
<1>4. CollectedInv'
  BY DEF CollectedInv, Reported, Started
<1>5. (PublishedBeforeWakes /\ CloserInv)'
  <2>1. at' \in [Closers -> Nat]
    BY DEF CloserInv
  <2>2. \A q \in Closers : q # p => stage'[q] = stage[q] /\ at'[q] = at[q]
    BY DEF CloserInv, GroupTypeOK
  <2>3. /\ stage'[p] = "fence" \/ (stage'[p] = "done" /\ p = Supervisor)
           \/ (stage'[p] = "publish" /\ p # Supervisor /\ at'[p] = 0)
    BY DEF CloserInv, GroupTypeOK
  <2>4. PublishedBeforeWakes'
    BY <2>2, <2>3, GroupSets DEF PublishedBeforeWakes
  <2>5. Started /\ ~open
    BY DEF CloserInv
  <2>6. p \in Ids => worker[p] \notin {"none", "gated", "running"}
    BY DEF CloserInv
  <2>7. \A r \in members : ~(r < 0)
    BY GroupSets DEF GroupTypeOK
  <2>8. CloserInv'
    BY <2>1, <2>2, <2>3, <2>5, <2>6, <2>7 DEF CloserInv, Started
  <2>9. QED BY <2>4, <2>8
<1>6. FenceInv'
  <2>1. \A q \in Closers : q # p => stage'[q] = stage[q] /\ at'[q] = at[q]
    BY DEF CloserInv, GroupTypeOK
  <2>2. ASSUME NEW c \in Clients, sending[c] = "admit"
        PROVE  /\ stage'[p] \notin {"publish", "wake", "done"}
               /\ stage'[p] = "fence" => at'[p] <= target[c]
    <3>1. /\ target[c] \in members /\ fence[target[c]] = c /\ at[p] <= target[c]
          /\ at[p] \in Nat /\ target[c] \in Nat /\ c # "none"
      <4>1. target[c] \in members /\ fence[target[c]] = c /\ at[p] <= target[c]
        BY <2>2 DEF FenceInv
      <4>2. at[p] \in Nat
        BY DEF CloserInv
      <4>3. QED BY <4>1, <4>2, GroupSets DEF GroupTypeOK
    <3>2. at[p] \in members
      BY <3>1, GroupSets DEF Contiguous, GroupTypeOK, Ids
    <3>3. stage' = stage /\ at[p] # target[c] /\ at'[p] = at[p] + 1
      BY <3>1, <3>2 DEF CloserInv
    <3>4. QED BY <3>1, <3>3
  <2>3. QED BY <2>1, <2>2 DEF FenceInv, Started
<1>7. (AskedInv /\ OutcomeIsHonest)'
  BY DEF AskedInv, OutcomeIsHonest
<1>8. QED BY <1>1, <1>2, <1>3, <1>4, <1>5, <1>6, <1>7

\* One more member is asked to terminate, if it still runs.
LEMMA PublishOneKeeps ==
  ASSUME GroupInv, NEW p \in Closers, PublishOne(p)
  PROVE  GroupInv'
<1> USE GroupConstants
       DEF GroupInv, GroupSafe, PublishOne,
           spawnVars, workerVars, superVars, sendVars, closeVars
<1>1. GroupTypeOK'
  BY DEF GroupTypeOK
<1>2. (NoGroupPanic /\ Contiguous /\ StartupInv)'
  BY DEF NoGroupPanic, Contiguous, StartupInv, Started
<1>3. WorkerInv'
  BY DEF WorkerInv
<1>4. CollectedInv'
  BY DEF CollectedInv, Reported, Started
<1>5. (PublishedBeforeWakes /\ CloserInv)'
  <2>1. \A r \in Ids : control[r] # "running" => control'[r] # "running"
    BY DEF GroupTypeOK
  <2>2. at[p] \in Ids /\ control'[at[p]] # "running"
    BY DEF GroupTypeOK
  <2>3. PublishedBeforeWakes'
    BY <2>1 DEF PublishedBeforeWakes, GroupTypeOK
  <2>4. /\ \A q \in Closers : q # p => at'[q] = at[q]
        /\ at' \in [Closers -> Nat] /\ at'[p] = at[p] + 1 /\ at[p] \in Nat
    BY DEF CloserInv
  <2>5. \A r \in members : r < at[p] + 1 => control'[r] # "running"
    BY <2>1, <2>2, <2>4, GroupSets DEF CloserInv, GroupTypeOK
  <2>6. CloserInv'
    BY <2>1, <2>4, <2>5 DEF CloserInv, Started, GroupTypeOK
  <2>7. QED BY <2>3, <2>6
<1>6. FenceInv'
  BY DEF FenceInv, Started
<1>7. (AskedInv /\ OutcomeIsHonest)'
  BY DEF AskedInv, OutcomeIsHonest, WorkerInv, CollectedInv, GroupTypeOK, MemberExits, Fatal
<1>8. QED BY <1>1, <1>2, <1>3, <1>4, <1>5, <1>6, <1>7

\* The publishing loop has met every member when it ends.
LEMMA PublishedAllKeeps ==
  ASSUME GroupInv, NEW p \in Closers, PublishedAll(p)
  PROVE  GroupInv'
<1> USE GroupConstants
       DEF GroupInv, GroupSafe, PublishedAll,
           spawnVars, workerVars, superVars, sendVars, closeVars
<1>1. GroupTypeOK'
  BY DEF GroupTypeOK
<1>2. (NoGroupPanic /\ Contiguous /\ StartupInv)'
  BY DEF NoGroupPanic, Contiguous, StartupInv, Started
<1>3. WorkerInv'
  BY DEF WorkerInv
<1>4. CollectedInv'
  BY DEF CollectedInv, Reported, Started
<1>5. (PublishedBeforeWakes /\ CloserInv)'
  BY DEF PublishedBeforeWakes, CloserInv, WorkerInv, StartupInv, CollectedInv, Started,
         Contiguous, GroupTypeOK, Closers, Ids
<1>6. FenceInv'
  BY DEF FenceInv, Started
<1>7. (AskedInv /\ OutcomeIsHonest)'
  BY DEF AskedInv, OutcomeIsHonest
<1>8. QED BY <1>1, <1>2, <1>3, <1>4, <1>5, <1>6, <1>7

\* Wakes change nothing the group relies on.
LEMMA WakeOneKeeps ==
  ASSUME GroupInv, NEW p \in Closers, WakeOne(p)
  PROVE  GroupInv'
<1> USE GroupConstants
       DEF GroupInv, GroupSafe, WakeOne,
           spawnVars, workerVars, superVars, sendVars, closeVars
<1>1. GroupTypeOK'
  BY DEF GroupTypeOK, MemberExits, GroupOutcomes
<1>2. (NoGroupPanic /\ Contiguous /\ StartupInv)'
  BY DEF NoGroupPanic, Contiguous, StartupInv, Started
<1>3. WorkerInv'
  BY DEF WorkerInv
<1>4. CollectedInv'
  BY DEF CollectedInv, Reported, Started
<1>5. (PublishedBeforeWakes /\ CloserInv)'
  BY DEF PublishedBeforeWakes, CloserInv, WorkerInv, StartupInv, CollectedInv, Started,
         Contiguous, GroupTypeOK, Closers, Ids
<1>6. FenceInv'
  BY DEF FenceInv, Started
<1>7. (AskedInv /\ OutcomeIsHonest)'
  BY DEF AskedInv, OutcomeIsHonest
<1>8. QED BY <1>1, <1>2, <1>3, <1>4, <1>5, <1>6, <1>7

\* A send starts towards a member.
LEMMA TrySendKeeps ==
  ASSUME GroupInv, NEW c \in Clients, NEW r \in Ids \cup {NoReactor}, TrySend(c, r)
  PROVE  GroupInv'
<1> USE GroupConstants
       DEF GroupInv, GroupSafe, TrySend,
           spawnVars, workerVars, superVars, sendVars, closeVars
<1>1. GroupTypeOK'
  BY DEF GroupTypeOK
<1>2. (NoGroupPanic /\ Contiguous /\ StartupInv)'
  BY DEF NoGroupPanic, Contiguous, StartupInv, Started
<1>3. WorkerInv'
  BY DEF WorkerInv
<1>4. CollectedInv'
  BY DEF CollectedInv, Reported, Started
<1>5. (PublishedBeforeWakes /\ CloserInv)'
  BY DEF PublishedBeforeWakes, CloserInv, Started
<1>6. FenceInv'
  <2>1. /\ \A d \in Clients : d # c => sending'[d] = sending[d] /\ target'[d] = target[d]
        /\ sending'[c] \in {"out", "lock"} /\ Started /\ Started'
        /\ sending'[c] = "lock" => target'[c] \in members
    BY DEF GroupTypeOK, Started
  <2>2. QED BY <2>1 DEF FenceInv
<1>7. (AskedInv /\ OutcomeIsHonest)'
  BY DEF AskedInv, OutcomeIsHonest
<1>8. QED BY <1>1, <1>2, <1>3, <1>4, <1>5, <1>6, <1>7

\* A send takes a free fence.
LEMMA LockFenceKeeps ==
  ASSUME GroupInv, NEW c \in Clients, LockFence(c)
  PROVE  GroupInv'
<1> USE GroupConstants
       DEF GroupInv, GroupSafe, LockFence,
           spawnVars, workerVars, superVars, sendVars, closeVars
<1>1. GroupTypeOK'
  <2>1. target[c] \in Ids /\ fence' \in [Ids -> Clients \cup {"none"}]
    BY DEF FenceInv, GroupTypeOK
  <2>2. QED BY <2>1 DEF GroupTypeOK
<1>2. (NoGroupPanic /\ Contiguous /\ StartupInv)'
  BY DEF NoGroupPanic, Contiguous, StartupInv, Started
<1>3. WorkerInv'
  BY DEF WorkerInv
<1>4. CollectedInv'
  BY DEF CollectedInv, Reported, Started
<1>5. (PublishedBeforeWakes /\ CloserInv)'
  BY DEF PublishedBeforeWakes, CloserInv, Started
<1>6. FenceInv'
  <2>1. target[c] \in Ids /\ target[c] \in members /\ Started /\ Started'
    BY DEF FenceInv, GroupTypeOK, Started
  <2>2. /\ \A d \in Clients : d # c => sending'[d] = sending[d]
        /\ sending'[c] = "fenced" /\ fence'[target[c]] = c
        /\ \A r \in Ids : fence[r] # "none" => fence'[r] = fence[r]
    BY <2>1 DEF GroupTypeOK
  <2>3. \A d \in Clients : d # "none"
    OBVIOUS
  <2>4. QED BY <2>1, <2>2, <2>3 DEF FenceInv, GroupTypeOK
<1>7. (AskedInv /\ OutcomeIsHonest)'
  BY DEF AskedInv, OutcomeIsHonest
<1>8. QED BY <1>1, <1>2, <1>3, <1>4, <1>5, <1>6, <1>7

\* The second look at the flag: behind it, close() is yet to pass the fence.
LEMMA RecheckKeeps ==
  ASSUME GroupInv, NEW c \in Clients, Recheck(c)
  PROVE  GroupInv'
<1> USE GroupConstants
       DEF GroupInv, GroupSafe, Recheck, LeaveSend,
           spawnVars, workerVars, superVars, sendVars, closeVars
<1>1. GroupTypeOK'
  <2>1. target[c] \in Ids
    BY DEF FenceInv, GroupTypeOK
  <2>2. fence' \in [Ids -> Clients \cup {"none"}]
    BY <2>1 DEF GroupTypeOK
  <2>3. /\ sending' \in [Clients -> {"out", "lock", "fenced", "admit"}]
        /\ target' \in [Clients -> Ids \cup {NoReactor}]
    BY DEF GroupTypeOK
  <2>4. QED BY <2>2, <2>3 DEF GroupTypeOK
<1>2. (NoGroupPanic /\ Contiguous /\ StartupInv)'
  BY DEF NoGroupPanic, Contiguous, StartupInv, Started
<1>3. WorkerInv'
  BY DEF WorkerInv
<1>4. CollectedInv'
  BY DEF CollectedInv, Reported, Started
<1>5. (PublishedBeforeWakes /\ CloserInv)'
  BY DEF PublishedBeforeWakes, CloserInv, Started
<1>6. FenceInv'
  <2>1. CASE open
    <3>1. /\ \A d \in Clients : d # c => sending'[d] = sending[d]
          /\ sending'[c] = "admit" /\ UNCHANGED <<fence, target>>
      BY <2>1 DEF GroupTypeOK
    <3>2. \A p \in Closers : stage[p] \in {"out", "close"}
      BY <2>1 DEF CloserInv, GroupTypeOK
    <3>3. QED BY <3>1, <3>2 DEF FenceInv, Started
  <2>2. CASE ~open
    <3>1. FenceInv'
      BY <2>2, LeaveSendKeeps
    <3>2. QED BY <3>1
  <2>3. QED BY <2>1, <2>2
<1>7. (AskedInv /\ OutcomeIsHonest)'
  BY DEF AskedInv, OutcomeIsHonest
<1>8. QED BY <1>1, <1>2, <1>3, <1>4, <1>5, <1>6, <1>7

\* The mailbox has answered, the fence is released.
LEMMA AskMailboxKeeps ==
  ASSUME GroupInv, NEW c \in Clients, AskMailbox(c)
  PROVE  GroupInv'
<1> USE GroupConstants
       DEF GroupInv, GroupSafe, AskMailbox, LeaveSend,
           spawnVars, workerVars, superVars, sendVars, closeVars
<1>1. GroupTypeOK'
  <2>1. target[c] \in Ids
    BY DEF FenceInv, GroupTypeOK
  <2>2. fence' \in [Ids -> Clients \cup {"none"}]
    BY <2>1 DEF GroupTypeOK
  <2>3. /\ sending' \in [Clients -> {"out", "lock", "fenced", "admit"}]
        /\ target' \in [Clients -> Ids \cup {NoReactor}]
    BY DEF GroupTypeOK
  <2>4. QED BY <2>2, <2>3 DEF GroupTypeOK
<1>2. (NoGroupPanic /\ Contiguous /\ StartupInv)'
  BY DEF NoGroupPanic, Contiguous, StartupInv, Started
<1>3. WorkerInv'
  BY DEF WorkerInv
<1>4. CollectedInv'
  BY DEF CollectedInv, Reported, Started
<1>5. (PublishedBeforeWakes /\ CloserInv)'
  BY DEF PublishedBeforeWakes, CloserInv, Started
<1>6. FenceInv'
  BY DEF FenceInv, Started, GroupTypeOK
<1>7. (AskedInv /\ OutcomeIsHonest)'
  BY DEF AskedInv, OutcomeIsHonest
<1>8. QED BY <1>1, <1>2, <1>3, <1>4, <1>5, <1>6, <1>7

\* recv() finds a sender, or a completion that was not collected yet.
LEMMA ReceiveCompletionKeeps ==
  ASSUME GroupInv, ReceiveCompletion
  PROVE  GroupInv'
<1> USE GroupConstants
       DEF GroupInv, GroupSafe, ReceiveCompletion,
           spawnVars, workerVars, superVars, sendVars, closeVars
<1>1. GroupTypeOK'
  BY DEF GroupTypeOK
<1>2. (NoGroupPanic /\ Contiguous /\ StartupInv)'
  <2>1. Contiguous'
    BY DEF Contiguous
  <2>2. completed # <<>> => Head(completed) \notin exits
    <3>1. completed # <<>> => 1 \in DOMAIN completed /\ Head(completed) = completed[1]
      BY DEF GroupTypeOK
    <3>2. QED BY <3>1 DEF CollectedInv, Reported
  <2>3. completed = <<>> => \E r \in members : worker[r] # "ended"
    <3> SUFFICES ASSUME completed = <<>>, \A r \in members : worker[r] = "ended" PROVE FALSE
      OBVIOUS
    <3>1. PICK r \in members : r \notin exits
      BY DEF GroupTypeOK
    <3>2. Reported = {}
      BY DEF Reported
    <3>3. gate = "start"
      BY <3>1 DEF WorkerInv, StartupInv, GroupTypeOK
    <3>4. QED BY <3>1, <3>2, <3>3 DEF CollectedInv, StartupInv, Started
  <2>4. supervisor' \in {"recv", "join"}
    BY <2>2, <2>3
  <2>5. StartupInv' /\ NoGroupPanic'
    BY <2>4 DEF StartupInv, Started, NoGroupPanic
  <2>6. QED BY <2>1, <2>5
<1>3. WorkerInv'
  BY DEF WorkerInv
<1>4. CollectedInv'
  BY DEF CollectedInv, Reported, Started
<1>5. (PublishedBeforeWakes /\ CloserInv)'
  BY DEF PublishedBeforeWakes, CloserInv, Started
<1>6. FenceInv'
  BY DEF FenceInv, Started
<1>7. (AskedInv /\ OutcomeIsHonest)'
  BY DEF AskedInv, OutcomeIsHonest
<1>8. QED BY <1>1, <1>2, <1>3, <1>4, <1>5, <1>6, <1>7

\* The supervisor collects the member whose completion it received.
LEMMA JoinWorkerKeeps ==
  ASSUME GroupInv, JoinWorker
  PROVE  GroupInv'
<1> USE GroupConstants
       DEF GroupInv, GroupSafe, JoinWorker,
           spawnVars, workerVars, superVars, sendVars, closeVars
<1>1. GroupTypeOK'
  <2>1. completed \in Seq(Ids) /\ completed # <<>>
    BY DEF CollectedInv, GroupTypeOK
  <2>2. /\ Tail(completed) \in Seq(Ids) /\ Len(Tail(completed)) = Len(completed) - 1
        /\ Head(completed) = completed[1] /\ 1 \in DOMAIN completed /\ Len(completed) \in Nat
    BY <2>1
  <2>3. Head(completed) \in members
    BY <2>2 DEF CollectedInv, Reported
  <2>4. Len(Tail(completed)) <= Limit
    BY <2>2, GroupSets DEF GroupTypeOK
  <2>5. QED BY <2>2, <2>3, <2>4 DEF GroupTypeOK
<1>2. (NoGroupPanic /\ Contiguous /\ StartupInv)'
  BY DEF NoGroupPanic, Contiguous, StartupInv, WorkerInv, CollectedInv, Started, GroupTypeOK
<1>3. WorkerInv'
  BY DEF WorkerInv
<1>4. CollectedInv'
  <2> DEFINE h == Head(completed)
             rest == Tail(completed)
  <2>1. completed \in Seq(Ids) /\ completed # <<>> /\ Started
    BY DEF CollectedInv, GroupTypeOK, StartupInv, Started
  <2>2. /\ h = completed[1] /\ rest \in Seq(Ids) /\ Len(rest) = Len(completed) - 1
        /\ \A k \in 1 .. Len(rest) : rest[k] = completed[k + 1]
        /\ DOMAIN completed = 1 .. Len(completed) /\ DOMAIN rest = 1 .. Len(rest)
        /\ Len(completed) \in Nat \ {0}
    BY <2>1
  <2>3. completed' = rest /\ exits' = exits \cup {h}
    OBVIOUS
  <2> HIDE DEF h, rest
  <2>4. h \in Reported /\ h \in members /\ h \notin exits
    BY <2>2 DEF CollectedInv, Reported
  <2>5. h \notin Reported'
    <3> SUFFICES ASSUME NEW k \in 1 .. Len(rest), rest[k] = h PROVE FALSE
      BY <2>2, <2>3 DEF Reported
    <3>1. k + 1 \in DOMAIN completed /\ 1 \in DOMAIN completed /\ completed[k + 1] = completed[1]
      BY <2>2
    <3>2. QED BY <2>2, <3>1 DEF CollectedInv
  <2>6. Reported = Reported' \cup {h}
    <3>1. \A x \in Reported' : x \in Reported
      BY <2>2, <2>3 DEF Reported
    <3>2. ASSUME NEW k \in 1 .. Len(completed), k # 1 PROVE completed[k] \in Reported'
      <4>1. k - 1 \in 1 .. Len(rest) /\ rest[k - 1] = completed[(k - 1) + 1] /\ (k - 1) + 1 = k
        BY <2>2, <3>2
      <4>2. QED BY <2>2, <2>3, <4>1 DEF Reported
    <3>3. QED BY <2>2, <2>4, <3>1, <3>2 DEF Reported
  <2>7. \A j, k \in DOMAIN rest : rest[j] = rest[k] => j = k
    <3> SUFFICES ASSUME NEW j \in DOMAIN rest, NEW k \in DOMAIN rest, rest[j] = rest[k]
                 PROVE  j = k
      OBVIOUS
    <3>1. j + 1 \in DOMAIN completed /\ k + 1 \in DOMAIN completed
          /\ completed[j + 1] = completed[k + 1]
      BY <2>2
    <3>2. j + 1 = k + 1
      BY <3>1 DEF CollectedInv
    <3>3. QED BY <2>2, <3>2
  <2>8. worker[h] = "ended" /\ supervisor' # "join"
    BY DEF h
  <2>9. groupOutcome.kind = "none"
    BY DEF CollectedInv
  <2>10. QED
    BY <2>1, <2>3, <2>4, <2>5, <2>6, <2>7, <2>8, <2>9 DEF CollectedInv, StartupInv, Started
<1>5. (PublishedBeforeWakes /\ CloserInv)'
  BY DEF PublishedBeforeWakes, CloserInv, Started
<1>6. FenceInv'
  BY DEF FenceInv, Started
<1>7. (AskedInv /\ OutcomeIsHonest)'
  BY DEF AskedInv, OutcomeIsHonest
<1>8. QED BY <1>1, <1>2, <1>3, <1>4, <1>5, <1>6, <1>7

\* The supervisor closes admission once it has collected every member.
LEMMA CloseAdmissionKeeps ==
  ASSUME GroupInv, CloseAdmission
  PROVE  GroupInv'
<1> USE GroupConstants
       DEF GroupInv, GroupSafe, CloseAdmission,
           spawnVars, workerVars, superVars, sendVars, closeVars
<1>1. GroupTypeOK'
  <2>1. stage' \in [Closers -> {"out", "close", "fence", "publish", "wake", "done"}]
    BY DEF GroupTypeOK
  <2>2. QED BY <2>1 DEF GroupTypeOK
<1>2. (NoGroupPanic /\ Contiguous /\ StartupInv)'
  BY DEF NoGroupPanic, Contiguous, StartupInv, Started
<1>3. WorkerInv'
  BY DEF WorkerInv
<1>4. CollectedInv'
  BY DEF CollectedInv, Reported, Started
<1>5. (PublishedBeforeWakes /\ CloserInv)'
  BY DEF PublishedBeforeWakes, CloserInv, Started
<1>6. FenceInv'
  BY DEF FenceInv, Started
<1>7. (AskedInv /\ OutcomeIsHonest)'
  BY DEF AskedInv, OutcomeIsHonest
<1>8. QED BY <1>1, <1>2, <1>3, <1>4, <1>5, <1>6, <1>7

\* The outcome is the aggregate of results that no longer change.
LEMMA FinishSupervisionKeeps ==
  ASSUME GroupInv, FinishSupervision
  PROVE  GroupInv'
<1> USE GroupConstants
       DEF GroupInv, GroupSafe, FinishSupervision,
           spawnVars, workerVars, superVars, sendVars, closeVars
<1>1. GroupTypeOK'
  <2>1. /\ groupOutcome'.kind \in GroupOutcomes
        /\ groupOutcome'.id \in members \cup {NoReactor}
    BY AggregateType DEF GroupTypeOK
  <2>2. QED BY <2>1 DEF GroupTypeOK
<1>2. (NoGroupPanic /\ Contiguous /\ StartupInv)'
  BY DEF NoGroupPanic, Contiguous, StartupInv, Started
<1>3. WorkerInv'
  BY DEF WorkerInv
<1>4. CollectedInv'
  BY DEF CollectedInv, Reported, Started
<1>5. (PublishedBeforeWakes /\ CloserInv)'
  BY DEF PublishedBeforeWakes, CloserInv, Started
<1>6. FenceInv'
  BY DEF FenceInv, Started
<1>7. (AskedInv /\ OutcomeIsHonest)'
  <2>1. exits = members /\ \A r \in members : r \in Ids /\ worker[r] = "ended"
    BY DEF CollectedInv, GroupTypeOK
  <2>2. gate # "abort"
    BY DEF StartupInv
  <2>3. \A r \in members : result[r] \in MemberExits
    BY <2>1, <2>2 DEF WorkerInv, GroupTypeOK
  <2>4. groupOutcome'.kind = "stopped" => asked = {}
    <3> SUFFICES ASSUME groupOutcome'.kind = "stopped", NEW r \in asked PROVE FALSE
      OBVIOUS
    <3>1. r \in members /\ result[r] # "stopped"
      BY DEF AskedInv, GroupTypeOK
    <3>2. \A q \in members : result[q] \notin {"panicked", "failed", "terminated"}
      BY AggregateType DEF GroupTypeOK
    <3>3. QED BY <2>3, <3>1, <3>2 DEF MemberExits
  <2>5. groupOutcome'.kind = "terminated" => \A r \in members : result[r] \notin Fatal
    BY AggregateType DEF Fatal, GroupTypeOK
  <2>6. QED BY <2>4, <2>5 DEF AskedInv, OutcomeIsHonest
<1>8. QED BY <1>1, <1>2, <1>3, <1>4, <1>5, <1>6, <1>7

\* Nothing has been started: the invariant holds of the initial state.
LEMMA GroupInitInv == GroupInit => GroupInv
<1> SUFFICES ASSUME GroupInit PROVE GroupInv
  OBVIOUS
<1> USE DEF GroupInit
<1>1. GroupTypeOK
  <2>1. open \in BOOLEAN
    BY Zenon
  <2>2. QED BY <2>1, GroupConstants DEF GroupTypeOK, MemberExits, NoReactor
<1>2. NoGroupPanic /\ PublishedBeforeWakes /\ OutcomeIsHonest /\ Contiguous /\ AskedInv
  BY GroupSets DEF NoGroupPanic, PublishedBeforeWakes, OutcomeIsHonest, Contiguous, AskedInv
<1>3. StartupInv /\ WorkerInv /\ CollectedInv
  BY DEF StartupInv, WorkerInv, CollectedInv, Reported, Started, MemberExits
<1>4. CloserInv /\ FenceInv
  BY DEF CloserInv, FenceInv
<1>5. QED BY <1>1, <1>2, <1>3, <1>4 DEF GroupInv, GroupSafe

\* Stuttering keeps the invariant.
LEMMA GroupStutterKeeps ==
  ASSUME GroupInv, UNCHANGED groupVars
  PROVE  GroupInv'
<1> USE DEF groupVars, spawnVars, workerVars, superVars, sendVars, closeVars, GroupInv, GroupSafe
<1>1. GroupTypeOK'
  BY DEF GroupTypeOK
<1>2. (NoGroupPanic /\ PublishedBeforeWakes /\ OutcomeIsHonest /\ Contiguous /\ AskedInv)'
  BY DEF NoGroupPanic, PublishedBeforeWakes, OutcomeIsHonest, Contiguous, AskedInv
<1>3. (StartupInv /\ WorkerInv /\ CollectedInv)'
  BY DEF StartupInv, WorkerInv, CollectedInv, Reported, Started
<1>4. (CloserInv /\ FenceInv)'
  BY DEF CloserInv, FenceInv, Started
<1>5. QED BY <1>1, <1>2, <1>3, <1>4

\* Every step of spawn(), a worker, a closer, a sender or the supervisor keeps it.
LEMMA GroupNextInv == GroupInv /\ [GroupNext]_groupVars => GroupInv'
<1> SUFFICES ASSUME GroupInv, [GroupNext]_groupVars PROVE GroupInv'
  OBVIOUS
<1>1. CASE SpawnStep \/ \E ids \in Topologies : Spawn(ids)
  BY <1>1, SpawnKeeps, SpawnWorkerKeeps, SpawnSupervisorKeeps, StartGroupKeeps, AbortKeeps,
     JoinAbortedKeeps, ReturnMembersKeeps
     DEF SpawnStep
<1>2. CASE SuperviseStep
  BY <1>2, ReceiveCompletionKeeps, JoinWorkerKeeps, CloseAdmissionKeeps, FinishSupervisionKeeps
     DEF SuperviseStep
<1>3. CASE \E r \in Ids : WorkerStep(r) \/ RunEndsSomehow(r)
  BY <1>3, PassGateKeeps, TerminatedKeeps, ReportCompletionKeeps, EndWorkerKeeps, RunEndsKeeps
     DEF WorkerStep, RunEndsSomehow
<1>4. CASE \E p \in Closers : RequestTermination(p) \/ CloseStep(p)
  BY <1>4, RequestTerminationKeeps, CloseFlagKeeps, PassFenceKeeps, PublishOneKeeps,
     PublishedAllKeeps, WakeOneKeeps
     DEF CloseStep
<1>5. CASE \E c \in Clients : SendStep(c) \/ \E r \in Ids \cup {NoReactor} : TrySend(c, r)
  BY <1>5, TrySendKeeps, LockFenceKeeps, RecheckKeeps, AskMailboxKeeps DEF SendStep
<1>6. QED BY <1>1, <1>2, <1>3, <1>4, <1>5, GroupStutterKeeps DEF GroupNext

---------------------------------------------------------------------------

\* For every limit, topology, number of clients and of requesters, whichever thread
\* fails to start and in whatever order members end: no panic of spawn() or of the
\* supervisor is reachable, every termination is published before any wake, and
\* the group's outcome agrees with its members'.
THEOREM GroupSafety == GroupSpec => []GroupSafe
<1>1. GroupInv => GroupSafe
  BY DEF GroupInv
<1>2. QED
  BY GroupInitInv, GroupNextInv, <1>1, PTL DEF GroupSpec

\* Once any close() has returned, no send is accepted any more, however many were
\* past their first look at the flag.
THEOREM GroupAdmissionFence == GroupSpec => AdmissionFence
<1>1. ASSUME GroupInv, [GroupNext]_groupVars,
             NEW p \in Closers, stage[p] \in {"publish", "wake", "done"}
      PROVE  admitted' = admitted
  <2>1. \A c \in Clients : sending[c] # "admit"
    BY <1>1 DEF GroupInv, FenceInv
  <2>2. CASE SpawnStep \/ (\E ids \in Topologies : Spawn(ids)) \/ SuperviseStep
    BY <2>2 DEF SpawnStep, SuperviseStep, Spawn, SpawnSupervisor, StartGroup, Abort, ReturnMembers,
                SpawnWorker, JoinAborted, ReceiveCompletion, JoinWorker, CloseAdmission,
                FinishSupervision, sendVars
  <2>3. CASE \E r \in Ids : WorkerStep(r) \/ RunEndsSomehow(r)
    BY <2>3 DEF WorkerStep, PassGate, Terminated, ReportCompletion, EndWorker, RunEndsSomehow,
                RunEnds, sendVars
  <2>4. CASE \E q \in Closers : RequestTermination(q) \/ CloseStep(q)
    BY <2>4 DEF RequestTermination, CloseStep, CloseFlag, PassFence, PublishOne, PublishedAll,
                WakeOne, sendVars
  <2>5. CASE \E c \in Clients : SendStep(c) \/ \E r \in Ids \cup {NoReactor} : TrySend(c, r)
    BY <2>1, <2>5 DEF SendStep, LockFence, Recheck, AskMailbox, TrySend
  <2>6. QED BY <1>1, <2>2, <2>3, <2>4, <2>5 DEF GroupNext, groupVars, sendVars
<1>2. GroupInv /\ [GroupNext]_groupVars
        => [(\E p \in Closers : stage[p] \in {"publish", "wake", "done"})
              => UNCHANGED admitted]_groupVars
  BY <1>1
<1>3. QED
  BY GroupInitInv, GroupNextInv, <1>2, PTL DEF GroupSpec, AdmissionFence

\* Steps that touch neither control nor result are stutters of every member.
LEMMA MembersStutter ==
  ASSUME UNCHANGED <<control, result>>
  PROVE  \A r \in Ids : UNCHANGED Member(r)!lifecycleVars
BY DEF Member!lifecycleVars

\* Every step of the group is, for each member, a step its life cycle allows: it is
\* asked at most once, exits once, and says so truthfully.
THEOREM GroupMembersAreReactors == GroupSpec => MembersAreReactors
<1>1. ASSUME GroupInv, [GroupNext]_groupVars, NEW r \in Ids
      PROVE  Member(r)!LifecycleNext \/ UNCHANGED Member(r)!lifecycleVars
  <2> USE <1>1 DEF GroupInv, GroupSafe
  <2>1. ASSUME NEW q \in Ids, PassGate(q)
        PROVE  UNCHANGED Member(r)!lifecycleVars
    <3>1. control' = control /\ result[q] = "none"
      BY <2>1 DEF PassGate, WorkerInv
    <3>2. result' = result \/ result' = [result EXCEPT ![q] = "aborted"]
      BY <2>1 DEF PassGate
    <3>3. QED BY <3>1, <3>2 DEF Member!lifecycleVars, GroupTypeOK
  <2>2. ASSUME NEW q \in Ids, NEW how \in {"stopped", "terminated", "failed", "panicked"},
               RunEnds(q, how)
        PROVE  Member(r)!LifecycleNext \/ UNCHANGED Member(r)!lifecycleVars
    <3>1. control[q] # "exited" /\ result[q] = "none"
      BY <2>2 DEF RunEnds, WorkerInv, MemberExits
    <3>2. CASE r # q
      BY <2>2, <3>2 DEF RunEnds, Member!lifecycleVars, GroupTypeOK
    <3>3. CASE r = q
      <4>1. /\ control'[q] = "exited"
            /\ result'[q] \in {"stopped", "terminated", "failed", "panicked"}
            /\ result'[q] = "stopped" => control[q] # "requested"
            /\ result'[q] = "terminated" => control[q] = "requested"
        BY <2>2 DEF RunEnds, StopOutcome, GroupTypeOK
      <4>2. control[q] \in {"running", "requested"}
        BY <3>1 DEF GroupTypeOK
      <4>3. QED BY <3>1, <3>3, <4>1, <4>2 DEF Member!LifecycleNext, Member!Exit
    <3>4. QED BY <3>2, <3>3
  <2>3. ASSUME NEW p \in Closers, PublishOne(p)
        PROVE  Member(r)!LifecycleNext \/ UNCHANGED Member(r)!lifecycleVars
    <3>1. result' = result /\ control \in [Ids -> {"running", "requested", "exited"}]
      BY <2>3 DEF PublishOne, workerVars, GroupTypeOK
    <3>2. CASE control[at[p]] = "running" /\ r = at[p]
      BY <2>3, <3>1, <3>2 DEF PublishOne, Member!LifecycleNext, Member!Request
    <3>3. CASE ~(control[at[p]] = "running" /\ r = at[p])
      <4>1. control'[r] = control[r]
        BY <2>3, <3>1, <3>3 DEF PublishOne
      <4>2. QED BY <3>1, <4>1 DEF Member!lifecycleVars
    <3>4. QED BY <3>2, <3>3
  <2>4. CASE SpawnStep \/ (\E ids \in Topologies : Spawn(ids)) \/ SuperviseStep
             \/ UNCHANGED groupVars
    <3>1. UNCHANGED <<control, result>>
      BY <2>4 DEF SpawnStep, SuperviseStep, Spawn, SpawnSupervisor, StartGroup, Abort,
                  ReturnMembers, SpawnWorker, JoinAborted, ReceiveCompletion, JoinWorker,
                  CloseAdmission, FinishSupervision, workerVars, groupVars
    <3>2. QED BY <3>1, MembersStutter
  <2>5. ASSUME NEW q \in Ids, Terminated(q) \/ ReportCompletion(q) \/ EndWorker(q)
        PROVE  UNCHANGED Member(r)!lifecycleVars
    <3>1. UNCHANGED <<control, result>>
      BY <2>5 DEF Terminated, ReportCompletion, EndWorker
    <3>2. QED BY <3>1, MembersStutter
  <2>6. ASSUME NEW p \in Closers,
               \/ RequestTermination(p) \/ CloseFlag(p) \/ PassFence(p) \/ PublishedAll(p)
               \/ WakeOne(p)
        PROVE  UNCHANGED Member(r)!lifecycleVars
    <3>1. UNCHANGED <<control, result>>
      BY <2>6 DEF RequestTermination, CloseFlag, PassFence, PublishedAll, WakeOne, workerVars
    <3>2. QED BY <3>1, MembersStutter
  <2>7. CASE \E c \in Clients : SendStep(c) \/ \E q \in Ids \cup {NoReactor} : TrySend(c, q)
    <3>1. UNCHANGED <<control, result>>
      BY <2>7 DEF SendStep, LockFence, Recheck, AskMailbox, TrySend, workerVars
    <3>2. QED BY <3>1, MembersStutter
  <2>8. QED
    BY <2>1, <2>2, <2>3, <2>4, <2>5, <2>6, <2>7
       DEF GroupNext, WorkerStep, RunEndsSomehow, CloseStep
<1>2. GroupInv /\ [GroupNext]_groupVars
        => [\A r \in Ids : Member(r)!LifecycleNext \/ UNCHANGED Member(r)!lifecycleVars]_groupVars
  BY <1>1
<1>3. QED
  BY GroupInitInv, GroupNextInv, <1>2, PTL DEF GroupSpec, MembersAreReactors
============================================================================
