------------------------ MODULE ReactorServiceProofs ------------------------
(***************************************************************************)
(* The wake handle, the mailbox built on it and the reactor that serves    *)
(* the mailbox, for every set of callers, senders, requesters and items    *)
(* and for all limits.  WakeInv is inductive for the handle alone;         *)
(* MailboxInv adds what the mailbox's lock makes of it, and LaneInv, which *)
(* rests on MailboxInv, keeps the accounts of the lanes.  Every step of    *)
(* the service is a step of the mailbox or changes only the token, so both *)
(* are kept there, and ServiceInv adds where the token must still be.      *)
(***************************************************************************)
EXTENDS ReactorService, FiniteSetTheorems, SequenceTheorems, TLAPS

(* The wake handle.  The lemmas are stated per group of actions so that the *)
(* mailbox's proofs can cite them.                                          *)

\* The initial state satisfies the inductive invariant.
LEMMA WakeInitInv == WakeInit => WakeInv
<1> SUFFICES ASSUME WakeInit PROVE WakeInv
  OBVIOUS
<1>1. \A t \in Callers : call[t] = "out"
  BY DEF WakeInit
<1>2. WakeTypeOK
  BY DEF WakeInit, WakeTypeOK, Phases, CallStates, AckStates
<1>3. Exclusive
  BY <1>1 DEF WakeInit, Exclusive, InFlight
<1>4. NoWakePanic /\ Accounted /\ Covering
  BY <1>1 DEF WakeInit, NoWakePanic, Accounted, Covering, InCall
<1>5. QED
  BY <1>2, <1>3, <1>4 DEF WakeInv

\* Entering wake() keeps the invariant: the call starts covered exactly when a
\* counted wake already stands.
LEMMA BeginWakeKeeps ==
  ASSUME NEW t \in Callers, WakeInv, BeginWake(t)
  PROVE  WakeInv'
  BY DEF BeginWake, WakeInv, WakeTypeOK, NoWakePanic, Exclusive, Accounted, Covering,
         InFlight, InCall, Phases, CallStates, AckStates

\* Leaving wake() keeps the invariant.
LEMMA ReturnWakeKeeps ==
  ASSUME NEW t \in Callers, WakeInv, ReturnWake(t)
  PROVE  WakeInv'
  BY DEF ReturnWake, WakeInv, WakeTypeOK, NoWakePanic, Exclusive, Accounted, Covering,
         InFlight, InCall, Phases, CallStates, AckStates

\* Every step inside wake(), of any caller, keeps the invariant.
LEMMA WakeStepKeeps ==
  ASSUME NEW t \in Callers, WakeInv, WakeStep(t)
  PROVE  WakeInv'
<1> USE DEF WakeInv, WakeTypeOK, NoWakePanic, Exclusive, Accounted, Covering,
            InFlight, InCall, Phases, CallStates, AckStates
<1>1. CASE Load(t)        BY <1>1 DEF Load
<1>2. CASE Claim(t)       BY <1>2 DEF Claim
<1>3. CASE SourceOk(t)    BY <1>3 DEF SourceOk
<1>4. CASE SourceErr(t)   BY <1>4 DEF SourceErr
<1>5. CASE CompleteOk(t)  BY <1>5 DEF CompleteOk
<1>6. CASE StoreIdle(t)   BY <1>6 DEF StoreIdle
<1>7. CASE CompleteErr(t) BY <1>7 DEF CompleteErr
<1>8. QED BY <1>1, <1>2, <1>3, <1>4, <1>5, <1>6, <1>7 DEF WakeStep

\* Every step of acknowledge() keeps the invariant: in particular an
\* acknowledgement that meets an unfinished request leaves it resolvable.
LEMMA AckKeeps ==
  ASSUME WakeInv, AckBegin \/ AckStep \/ AckReturn
  PROVE  WakeInv'
<1> USE DEF WakeInv, WakeTypeOK, NoWakePanic, Exclusive, Accounted, Covering,
            InFlight, InCall, Phases, CallStates, AckStates
<1>1. CASE AckBegin  BY <1>1 DEF AckBegin
<1>2. CASE AckLoad   BY <1>2 DEF AckLoad
<1>3. CASE AckCas("cas_requested", "requested", "idle")
  BY <1>3 DEF AckCas
<1>4. CASE AckCas("cas_waking", "waking", "waking_ack")
  BY <1>4 DEF AckCas
<1>5. CASE AckReturn BY <1>5 DEF AckReturn
<1>6. QED BY <1>1, <1>2, <1>3, <1>4, <1>5 DEF AckStep

\* Consuming the backend token, or a step outside the handle, keeps the invariant.
LEMMA ObserveKeeps ==
  ASSUME WakeInv, Observe \/ UNCHANGED wakeVars
  PROVE  WakeInv'
  BY DEF Observe, wakeVars, WakeInv, WakeTypeOK, NoWakePanic, Exclusive, Accounted,
         Covering, InFlight, InCall, Phases, CallStates, AckStates

\* The properties a reader cares about follow from the invariant.
LEMMA WakeInvImplies ==
  ASSUME WakeInv
  PROVE  NoWakePanic /\ OkIsSignalled /\ Coalesced /\ RequestedIsIssued
<1>1. ASSUME phase = "waking" PROVE issued <= 1
  <2>1. PICK t \in Callers : InFlight(t)
    BY <1>1 DEF WakeInv, Exclusive
  <2>2. QED
    BY <1>1, <2>1 DEF WakeInv, Exclusive, Accounted, InFlight
<1>2. Coalesced
  BY <1>1 DEF WakeInv, Accounted, Coalesced, WakeTypeOK, Phases
<1>3. QED
  BY <1>2 DEF WakeInv, Accounted, Covering, NoWakePanic, OkIsSignalled,
              RequestedIsIssued

\* For every set of callers, whatever the interleaving: wake.rs never reaches
\* its panics, a returned Ok always stands for a successful backend wake since
\* the last acknowledgement, and racing requests are coalesced into one.
THEOREM WakeSafety ==
  WakeSpec => [](WakeTypeOK /\ NoWakePanic /\ OkIsSignalled /\ Coalesced /\ RequestedIsIssued)
<1>1. WakeInv /\ [WakeNext]_wakeVars => WakeInv'
  BY BeginWakeKeeps, ReturnWakeKeeps, WakeStepKeeps, AckKeeps, ObserveKeeps DEF WakeNext
<1>2. WakeInv => WakeTypeOK /\ NoWakePanic /\ OkIsSignalled /\ Coalesced /\ RequestedIsIssued
  BY WakeInvImplies DEF WakeInv
<1>3. QED
  BY WakeInitInv, <1>1, <1>2, PTL DEF WakeSpec

---------------------------------------------------------------------------
(* The mailbox: MailboxInv is inductive.                                    *)

\* A fresh mailbox satisfies the invariant.
LEMMA MailboxInitInv == MailboxInit => MailboxInv
<1> SUFFICES ASSUME MailboxInit PROVE MailboxInv
  OBVIOUS
<1>1. WakeInv
  BY WakeInitInv DEF MailboxInit
<1>2. MailboxTypeOK
  <2>1. queue \in [Lanes -> Seq(Items)] /\ accepted \in [Lanes -> Seq(Items)]
        /\ removed \in [Lanes -> Seq(Items)]
    BY DEF MailboxInit
  <2>2. rejections \in [Lanes -> LaneCounters]
    BY DEF MailboxInit, LaneCounters
  <2>3. retained \in [Lanes -> Int] /\ senders \in Nat /\ budget \in Nat
        /\ calls \in Nat /\ failedDrops \in Nat /\ closedCount \in Nat /\ wakeFailures \in Nat
    BY DEF MailboxInit
  <2>4. receiverAlive \in BOOLEAN /\ receiverGone \in BOOLEAN /\ live \subseteq Senders
    BY DEF MailboxInit
  <2>5. /\ pc \in [Senders -> {"idle", "send", "drop"}]
        /\ offer \in [Senders -> {<<>>} \cup (Lanes \X Items)]
        /\ owner \in {"idle", "pop", "ack", "close_ack", "close_pop"}
        /\ status \in {"none", "idle", "more_pending", "closed"}
    BY DEF MailboxInit
  <2>6. QED BY <1>1, <2>1, <2>2, <2>3, <2>4, <2>5 DEF MailboxTypeOK, WakeInv
<1>3. /\ \A s \in Senders : pc[s] = "idle" /\ call[s] = "out"
      /\ ack = "out"
  BY MailboxConstants DEF MailboxInit, WakeInit
<1>4. LockInv /\ HeldWake /\ OwnerInv
  BY <1>3 DEF MailboxInit, LockInv, HeldWake, OwnerInv, InFlight
<1>5. NoStranded /\ LastDropSeen
  BY DEF MailboxInit, NoStranded, LastDropSeen, Empty
<1>6. QED
  BY <1>1, <1>2, <1>4, <1>5 DEF MailboxInv

\* try_send up to its wake, or its refusal, keeps the invariant.
LEMMA TrySendKeeps ==
  ASSUME MailboxInv, NEW s \in Senders, NEW l \in Lanes, NEW i \in Items, TrySend(s, l, i)
  PROVE  MailboxInv'
<1>1. CASE Refusal(l, i) # "none"
  <2>1. Refusal(l, i) \in {"closed", "messages", "bytes"}
    BY <1>1 DEF Refusal
  <2>2. rejections' \in [Lanes -> LaneCounters] /\ closedCount' \in Nat
    <3>1. CountRefusal(Refusal(l, i), l)
      BY <1>1 DEF TrySend
    <3>2. CASE Refusal(l, i) = "closed"
      BY <3>1, <3>2 DEF CountRefusal, MailboxInv, MailboxTypeOK
    <3>3. ASSUME NEW why \in {"messages", "bytes"}, Refusal(l, i) = why
          PROVE  rejections' \in [Lanes -> LaneCounters]
                 /\ closedCount' \in Nat
      <4>1. rejections' = [rejections EXCEPT ![l] = [rejections[l] EXCEPT ![why] = @ + 1]]
            /\ closedCount' = closedCount
        BY <3>1, <3>3 DEF CountRefusal
      <4>2. rejections[l] \in LaneCounters
        BY DEF MailboxInv, MailboxTypeOK
      <4>3. [rejections[l] EXCEPT ![why] = @ + 1] \in LaneCounters
        BY <4>2 DEF LaneCounters
      <4>4. QED BY <4>1, <4>3 DEF MailboxInv, MailboxTypeOK
    <3>4. QED BY <2>1, <3>2, <3>3
  <2>3. /\ calls' = calls + 1
        /\ UNCHANGED <<wakeVars, pc, offer, owner, budget, queue, retained, receiverAlive,
                       senders, wakeFailures, live, status, receiverGone, failedDrops,
                       accepted, removed>>
    BY <1>1 DEF TrySend
  <2>4. WakeInv'
    BY <2>3, ObserveKeeps DEF MailboxInv
  <2>5. MailboxTypeOK'
    <3>1. MailboxTypeOK /\ WakeTypeOK'
      BY <2>4 DEF MailboxInv, WakeInv
    <3>2. QED BY <2>2, <2>3, <3>1 DEF MailboxTypeOK
  <2>6. (LockInv /\ HeldWake /\ OwnerInv /\ NoStranded /\ LastDropSeen)'
    BY <2>3 DEF MailboxInv, wakeVars, LockInv, HeldWake, InFlight, OwnerInv, NoStranded,
                LastDropSeen, Empty
  <2>7. QED BY <2>4, <2>5, <2>6 DEF MailboxInv
<1>2. CASE Refusal(l, i) = "none"
  <2>1. /\ BeginWake(s) /\ Unlocked
        /\ pc' = [pc EXCEPT ![s] = "send"]
        /\ offer' = [offer EXCEPT ![s] = <<l, i>>]
        /\ UNCHANGED <<counterVars, owner, budget, queue, retained, receiverAlive, senders,
                       live, status, receiverGone, failedDrops, accepted, removed>>
        /\ calls' = calls + 1
    BY <1>2 DEF TrySend, counterVars
  <2>2. WakeInv'
    BY <2>1, BeginWakeKeeps, MailboxConstants DEF MailboxInv
  <2>3. MailboxTypeOK'
    BY <2>1, <2>2 DEF MailboxInv, MailboxTypeOK, WakeInv, counterVars
  <2>4. LockInv' /\ HeldWake'
    BY <2>1, MailboxConstants
       DEF MailboxInv, MailboxTypeOK, WakeTypeOK, LockInv, HeldWake, InFlight, BeginWake,
           Unlocked
  <2>5. (OwnerInv /\ NoStranded /\ LastDropSeen)'
    BY <2>1 DEF MailboxInv, OwnerInv, NoStranded, LastDropSeen, Empty, BeginWake
  <2>6. QED BY <2>2, <2>3, <2>4, <2>5 DEF MailboxInv
<1>3. QED BY <1>1, <1>2

\* Publication keeps the invariant: the request it rests on still stands.
LEMMA PublishKeeps ==
  ASSUME MailboxInv, NEW s \in Senders, Publish(s)
  PROVE  MailboxInv'
<1>1. WakeInv'
  BY ReturnWakeKeeps, MailboxConstants DEF MailboxInv, Publish
<1>2. offer[s] \in Lanes \X Items /\ phase = "requested" /\ phase' = phase
  BY DEF MailboxInv, LockInv, HeldWake, Publish, ReturnWake
<1> DEFINE l == offer[s][1]
           i == offer[s][2]
<1>3. MailboxTypeOK'
  <2>1. l \in Lanes /\ i \in Items /\ Bytes[i] \in Nat
    BY <1>2, MailboxConstants
  <2>2. queue' \in [Lanes -> Seq(Items)] /\ accepted' \in [Lanes -> Seq(Items)]
    <3>1. /\ queue' = [queue EXCEPT ![l] = Append(queue[l], i)]
          /\ accepted' = [accepted EXCEPT ![l] = Append(accepted[l], i)]
          /\ queue \in [Lanes -> Seq(Items)] /\ accepted \in [Lanes -> Seq(Items)]
      BY DEF Publish, MailboxInv, MailboxTypeOK
    <3>2. Append(queue[l], i) \in Seq(Items) /\ Append(accepted[l], i) \in Seq(Items)
      BY <2>1, <3>1
    <3>3. QED BY <3>1, <3>2
  <2>3. retained' \in [Lanes -> Int]
    BY <2>1 DEF Publish, MailboxInv, MailboxTypeOK
  <2>4. /\ pc' \in [Senders -> {"idle", "send", "drop"}]
        /\ offer' \in [Senders -> {<<>>} \cup (Lanes \X Items)]
    BY DEF Publish, MailboxInv, MailboxTypeOK
  <2>5. QED BY <1>1, <2>2, <2>3, <2>4 DEF MailboxInv, MailboxTypeOK, WakeInv, Publish, counterVars
<1>4. LockInv' /\ HeldWake'
  BY <1>2, MailboxConstants
     DEF MailboxInv, MailboxTypeOK, WakeTypeOK, LockInv, HeldWake, InFlight, ReturnWake, Publish
<1>5. OwnerInv'
  BY DEF MailboxInv, LockInv, OwnerInv, Publish
<1>6. NoStranded' /\ LastDropSeen'
  BY <1>2 DEF NoStranded, LastDropSeen
<1>7. QED BY <1>1, <1>3, <1>4, <1>5, <1>6 DEF MailboxInv

\* A refused wake leaves the lanes as they were.
LEMMA RefuseWakeKeeps ==
  ASSUME MailboxInv, NEW s \in Senders, RefuseWake(s)
  PROVE  MailboxInv'
<1>1. WakeInv'
  BY ReturnWakeKeeps, MailboxConstants DEF MailboxInv, RefuseWake
<1>2. MailboxTypeOK'
  BY <1>1 DEF MailboxInv, MailboxTypeOK, WakeInv, RefuseWake, historyVars, counterVars
<1>3. LockInv' /\ HeldWake'
  BY MailboxConstants
     DEF MailboxInv, MailboxTypeOK, WakeTypeOK, LockInv, HeldWake, InFlight, ReturnWake, RefuseWake
<1>4. (OwnerInv /\ NoStranded /\ LastDropSeen)'
  BY DEF MailboxInv, OwnerInv, NoStranded, LastDropSeen, Empty, ReturnWake, RefuseWake, historyVars
<1>5. QED BY <1>1, <1>2, <1>3, <1>4 DEF MailboxInv

\* Cloning a sender, and a drop that is not the last, touch only the count.
LEMMA CloneKeeps ==
  ASSUME MailboxInv, NEW s \in Senders, NEW n \in Senders, Clone(s, n)
  PROVE  MailboxInv'
<1>1. WakeInv'
  BY ObserveKeeps DEF MailboxInv, Clone
<1>2. MailboxTypeOK'
  BY <1>1 DEF MailboxInv, MailboxTypeOK, WakeInv, Clone, historyVars, counterVars, lockVars,
              wakeVars
<1>3. (LockInv /\ HeldWake /\ OwnerInv /\ NoStranded)'
  BY DEF MailboxInv, LockInv, HeldWake, InFlight, OwnerInv, NoStranded, Empty, Clone, lockVars,
         wakeVars, Unlocked
<1>4. LastDropSeen'
  BY DEF MailboxInv, MailboxTypeOK, LastDropSeen, Clone
<1>5. QED BY <1>1, <1>2, <1>3, <1>4 DEF MailboxInv

\* Dropping a sender keeps the invariant: the last one of a live receiver enters wake().
LEMMA DropSenderKeeps ==
  ASSUME MailboxInv, NEW s \in Senders, DropSender(s)
  PROVE  MailboxInv'
<1>1. CASE senders = 1 /\ receiverAlive
  <2>1. /\ BeginWake(s) /\ Unlocked
        /\ pc' = [pc EXCEPT ![s] = "drop"]
        /\ UNCHANGED <<senders, live, offer, owner, budget, queue, retained, receiverAlive,
                       counterVars, status, receiverGone, historyVars>>
    BY <1>1 DEF DropSender
  <2>2. WakeInv'
    BY <2>1, BeginWakeKeeps, MailboxConstants DEF MailboxInv
  <2>3. MailboxTypeOK'
    BY <2>1, <2>2 DEF MailboxInv, MailboxTypeOK, WakeInv, counterVars, historyVars
  <2>4. LockInv' /\ HeldWake'
    BY <1>1, <2>1, MailboxConstants
       DEF MailboxInv, MailboxTypeOK, WakeTypeOK, LockInv, HeldWake, InFlight, BeginWake, Unlocked
  <2>5. (OwnerInv /\ NoStranded /\ LastDropSeen)'
    BY <2>1 DEF MailboxInv, OwnerInv, NoStranded, LastDropSeen, Empty, BeginWake, historyVars
  <2>6. QED BY <2>2, <2>3, <2>4, <2>5 DEF MailboxInv
<1>2. CASE ~(senders = 1 /\ receiverAlive)
  <2>1. /\ senders' = IF senders = 0 THEN 0 ELSE senders - 1
        /\ live' = live \ {s}
        /\ Unlocked
        /\ UNCHANGED <<wakeVars, pc, offer, owner, budget, queue, retained, receiverAlive,
                       counterVars, status, receiverGone, historyVars>>
    BY <1>2 DEF DropSender
  <2>2. WakeInv'
    BY <2>1, ObserveKeeps DEF MailboxInv
  <2>3. MailboxTypeOK'
    BY <2>1, <2>2 DEF MailboxInv, MailboxTypeOK, WakeInv, counterVars, historyVars, wakeVars
  <2>4. (LockInv /\ HeldWake /\ OwnerInv /\ NoStranded)'
    BY <2>1 DEF MailboxInv, LockInv, HeldWake, InFlight, OwnerInv, NoStranded, Empty, wakeVars,
                Unlocked
  <2>5. LastDropSeen'
    BY <1>2, <2>1 DEF MailboxInv, MailboxTypeOK, LastDropSeen, wakeVars, historyVars
  <2>6. QED BY <2>2, <2>3, <2>4, <2>5 DEF MailboxInv
<1>3. QED BY <1>1, <1>2

\* The end of the last drop: unless its wake failed, the request stands.
LEMMA FinishDropKeeps ==
  ASSUME MailboxInv, NEW s \in Senders, FinishDrop(s)
  PROVE  MailboxInv'
<1>1. WakeInv'
  BY ReturnWakeKeeps, MailboxConstants DEF MailboxInv, FinishDrop
<1>2. MailboxTypeOK'
  BY <1>1 DEF MailboxInv, MailboxTypeOK, WakeInv, FinishDrop, LockInv
<1>3. LockInv' /\ HeldWake'
  BY MailboxConstants
     DEF MailboxInv, MailboxTypeOK, WakeTypeOK, LockInv, HeldWake, InFlight, ReturnWake, FinishDrop
<1>4. OwnerInv' /\ NoStranded'
  BY DEF MailboxInv, OwnerInv, NoStranded, Empty, ReturnWake, FinishDrop
<1>5. LastDropSeen'
  BY DEF MailboxInv, MailboxTypeOK, HeldWake, LastDropSeen, ReturnWake, FinishDrop
<1>6. QED BY <1>1, <1>2, <1>3, <1>4, <1>5 DEF MailboxInv

\* drain_into takes the lock and its budget.
LEMMA DrainKeeps ==
  ASSUME MailboxInv, NEW limit \in DrainLimits, Drain(limit)
  PROVE  MailboxInv'
<1>1. WakeInv'
  BY ObserveKeeps DEF MailboxInv, Drain
<1>2. MailboxTypeOK'
  BY <1>1, MailboxConstants
     DEF MailboxInv, MailboxTypeOK, WakeInv, Drain, stateVars, historyVars, counterVars, wakeVars
<1>3. (LockInv /\ HeldWake /\ OwnerInv /\ NoStranded /\ LastDropSeen)'
  BY DEF MailboxInv, LockInv, HeldWake, InFlight, OwnerInv, NoStranded, LastDropSeen, Empty,
         Unlocked, Drain, wakeVars, stateVars, historyVars
<1>4. QED BY <1>1, <1>2, <1>3 DEF MailboxInv

\* Taking one item keeps the invariant: what stays behind was already announced.
LEMMA PopKeeps ==
  ASSUME MailboxInv, Pop
  PROVE  MailboxInv'
<1> DEFINE l == ControlFirst
           q == queue[l]
<1>1. /\ owner \in {"pop", "close_pop"} /\ budget > 0 /\ ~Empty
      /\ queue' = [queue EXCEPT ![l] = Tail(q)]
      /\ retained' = [retained EXCEPT ![l] = @ - Bytes[Head(q)]]
      /\ removed' = [removed EXCEPT ![l] = Append(@, Head(q))]
      /\ budget' = budget - 1
      /\ UNCHANGED <<wakeVars, pc, offer, owner, receiverAlive, senders, counterVars, live,
                     status, receiverGone, calls, failedDrops, accepted>>
  BY DEF Pop, PopFrom
<1>2. WakeInv'
  BY <1>1, ObserveKeeps DEF MailboxInv
<1>3. l \in Lanes /\ q \in Seq(Items) /\ q # <<>>
  BY <1>1 DEF ControlFirst, Empty, Lanes, MailboxInv, MailboxTypeOK
<1>4. Tail(q) \in Seq(Items) /\ Head(q) \in Items /\ Bytes[Head(q)] \in Nat
  BY <1>3, MailboxConstants
<1>5. MailboxTypeOK'
  <2>1. queue' \in [Lanes -> Seq(Items)]
    BY <1>1, <1>4 DEF MailboxInv, MailboxTypeOK
  <2>2. removed' \in [Lanes -> Seq(Items)]
    <3>1. Append(removed[l], Head(q)) \in Seq(Items)
      BY <1>3, <1>4 DEF MailboxInv, MailboxTypeOK
    <3>2. QED BY <1>1, <3>1 DEF MailboxInv, MailboxTypeOK
  <2>3. retained' \in [Lanes -> Int] /\ budget' \in Nat
    BY <1>1, <1>3, <1>4 DEF MailboxInv, MailboxTypeOK
  <2>4. QED
    BY <1>1, <1>2, <2>1, <2>2, <2>3
       DEF MailboxInv, MailboxTypeOK, WakeInv, counterVars, wakeVars
<1>6. LockInv' /\ HeldWake' /\ OwnerInv'
  BY <1>1 DEF MailboxInv, LockInv, HeldWake, InFlight, OwnerInv, wakeVars
<1>7. NoStranded' /\ LastDropSeen'
  BY <1>1 DEF MailboxInv, NoStranded, LastDropSeen, wakeVars
<1>8. QED BY <1>2, <1>5, <1>6, <1>7 DEF MailboxInv

\* The end of the popping loop: only an owner that left nothing acknowledges.
LEMMA EndPopKeeps ==
  ASSUME MailboxInv, EndPop
  PROVE  MailboxInv'
<1>1. WakeInv'
  BY AckKeeps, ObserveKeeps DEF MailboxInv, EndPop
<1>2. MailboxTypeOK'
  BY <1>1 DEF MailboxInv, MailboxTypeOK, WakeInv, EndPop, historyVars, counterVars
<1>3. (LockInv /\ HeldWake /\ OwnerInv /\ NoStranded /\ LastDropSeen)'
  BY DEF MailboxInv, LockInv, HeldWake, InFlight, OwnerInv, NoStranded, LastDropSeen, Empty,
         EndPop, AckBegin, wakeVars, historyVars
<1>4. QED BY <1>1, <1>2, <1>3 DEF MailboxInv

\* The end of a drain that emptied both lanes: Closed is answered exactly when due.
LEMMA EndDrainKeeps ==
  ASSUME MailboxInv, EndDrain
  PROVE  MailboxInv'
<1>1. WakeInv'
  BY AckKeeps DEF MailboxInv, EndDrain
<1>2. MailboxTypeOK'
  BY <1>1 DEF MailboxInv, MailboxTypeOK, WakeInv, EndDrain, historyVars, counterVars
<1>3. (LockInv /\ HeldWake /\ OwnerInv /\ NoStranded /\ LastDropSeen)'
  BY DEF MailboxInv, LockInv, HeldWake, InFlight, OwnerInv, NoStranded, LastDropSeen, Empty,
         EndDrain, AckReturn, historyVars
<1>4. QED BY <1>1, <1>2, <1>3 DEF MailboxInv

\* Closing: admission is shut before the wake request is retired.
LEMMA CloseKeeps ==
  ASSUME MailboxInv, (\E byDrop \in BOOLEAN : Close(byDrop)) \/ CloseDrain \/ EndClose
  PROVE  MailboxInv'
<1>1. CASE \E byDrop \in BOOLEAN : Close(byDrop)
  <2>1. PICK byDrop \in BOOLEAN : Close(byDrop)
    BY <1>1
  <2>2. WakeInv'
    BY <2>1, AckKeeps DEF MailboxInv, Close
  <2>3. MailboxTypeOK'
    BY <2>1, <2>2 DEF MailboxInv, MailboxTypeOK, WakeInv, Close, historyVars, counterVars
  <2>4. (LockInv /\ HeldWake /\ OwnerInv /\ NoStranded /\ LastDropSeen)'
    BY <2>1 DEF MailboxInv, LockInv, HeldWake, InFlight, OwnerInv, NoStranded, LastDropSeen,
                Empty, Unlocked, Close, AckBegin
  <2>5. QED BY <2>2, <2>3, <2>4 DEF MailboxInv
<1>2. CASE CloseDrain
  <2>1. WakeInv'
    BY <1>2, AckKeeps DEF MailboxInv, CloseDrain
  <2>2. Len(queue["control"]) + Len(queue["work"]) \in Nat
    BY DEF MailboxInv, MailboxTypeOK, Lanes
  <2>3. MailboxTypeOK'
    BY <1>2, <2>1, <2>2
       DEF MailboxInv, MailboxTypeOK, WakeInv, CloseDrain, stateVars, historyVars, counterVars
  <2>4. (LockInv /\ HeldWake /\ OwnerInv /\ NoStranded /\ LastDropSeen)'
    BY <1>2 DEF MailboxInv, LockInv, HeldWake, InFlight, OwnerInv, NoStranded, LastDropSeen,
                Empty, CloseDrain, AckReturn, stateVars
  <2>5. QED BY <2>1, <2>3, <2>4 DEF MailboxInv
<1>3. CASE EndClose
  <2>1. WakeInv'
    BY <1>3, ObserveKeeps DEF MailboxInv, EndClose
  <2>2. MailboxTypeOK'
    BY <1>3, <2>1
       DEF MailboxInv, MailboxTypeOK, WakeInv, EndClose, stateVars, historyVars, counterVars,
           wakeVars
  <2>3. (LockInv /\ HeldWake /\ OwnerInv /\ NoStranded /\ LastDropSeen)'
    BY <1>3 DEF MailboxInv, LockInv, HeldWake, InFlight, OwnerInv, NoStranded, LastDropSeen,
                Empty, EndClose, stateVars, wakeVars
  <2>4. QED BY <2>1, <2>2, <2>3 DEF MailboxInv
<1>4. QED BY <1>1, <1>2, <1>3

\* Steps that leave everything but the wake handle alone keep the types.
LEMMA OnlyWakeChanges ==
  ASSUME MailboxInv, WakeInv', UNCHANGED <<lockVars, stateVars, historyVars>>
  PROVE  MailboxTypeOK' /\ OwnerInv'
BY DEF MailboxInv, MailboxTypeOK, WakeInv, OwnerInv, Empty, lockVars, stateVars, historyVars,
       counterVars

\* A step inside wake() by any thread that is inside it: a producer's request is
\* not overtaken, and a standing request is not withdrawn.
LEMMA AnyWakeStepKeeps ==
  ASSUME MailboxInv, NEW t \in Callers, t \in Senders => pc[t] # "idle", WakeStep(t),
         UNCHANGED <<lockVars, stateVars, historyVars>>
  PROVE  MailboxInv'
<1>1. WakeInv'
  BY WakeStepKeeps DEF MailboxInv
<1>2. MailboxTypeOK' /\ OwnerInv'
  BY <1>1, OnlyWakeChanges
<1>3. /\ ack' = ack
      /\ call \in [Callers -> CallStates]
      /\ \E r \in CallStates \ {"out"} : call' = [call EXCEPT ![t] = r]
  BY DEF WakeStep, Load, Claim, SourceOk, SourceErr, CompleteOk, StoreIdle, CompleteErr,
         CallStates, MailboxInv, WakeInv, WakeTypeOK
<1>4. LockInv'
  BY <1>3, MailboxConstants DEF MailboxInv, LockInv, lockVars, stateVars
<1>5. phase = "requested" => phase' = "requested" /\ ~InFlight(t)
  BY DEF MailboxInv, WakeInv, Exclusive, InFlight, WakeStep, Load, Claim, SourceOk, SourceErr,
         CompleteOk, StoreIdle, CompleteErr
<1>6. NoStranded' /\ LastDropSeen'
  BY <1>5 DEF MailboxInv, NoStranded, LastDropSeen, Empty, lockVars, stateVars, historyVars
<1>7. HeldWake'
  <2> SUFFICES ASSUME NEW s \in Senders
               PROVE  (InFlight(s) => phase = "waking")' /\ (call[s] = "ok" => phase = "requested")'
    BY DEF HeldWake
  <2>1. CASE s # t
    <3>1. s \in Callers /\ call'[s] = call[s]
      BY <1>3, <2>1, MailboxConstants
    <3>2. InFlight(s) => ~InFlight(t) /\ phase = "waking"
      BY <2>1, <3>1 DEF MailboxInv, HeldWake, WakeInv, Exclusive
    <3>3. phase = "waking" /\ ~InFlight(t) => phase' = "waking"
      BY DEF InFlight, WakeStep, Load, Claim, SourceOk, SourceErr, CompleteOk, StoreIdle,
             CompleteErr
    <3>4. QED BY <1>5, <3>1, <3>2, <3>3 DEF InFlight, MailboxInv, HeldWake
  <2>2. CASE s = t
    BY <2>2, <1>3 DEF InFlight, MailboxInv, HeldWake, WakeInv, NoWakePanic, Exclusive, CallStates,
           WakeStep, Load, Claim, SourceOk, SourceErr, CompleteOk, StoreIdle, CompleteErr
  <2>3. QED BY <2>1, <2>2
<1>8. QED BY <1>1, <1>2, <1>4, <1>6, <1>7 DEF MailboxInv

\* Outside the critical sections a waker comes and goes as it likes.
LEMMA FreeWakeKeeps ==
  ASSUME MailboxInv, NEW w \in Wakers, FreeWake(w)
  PROVE  MailboxInv'
<1>1. CASE WakeStep(w)
  BY <1>1, AnyWakeStepKeeps DEF FreeWake, Wakers
<1>2. CASE BeginWake(w) \/ ReturnWake(w)
  <2>1. WakeInv'
    BY <1>2, BeginWakeKeeps, ReturnWakeKeeps DEF MailboxInv, Wakers
  <2>2. MailboxTypeOK' /\ OwnerInv'
    BY <2>1, OnlyWakeChanges DEF FreeWake
  <2>3. /\ \A s \in Senders : call'[s] = call[s]
        /\ UNCHANGED <<phase, ack>>
    BY <1>2, MailboxConstants
       DEF MailboxInv, WakeInv, WakeTypeOK, BeginWake, ReturnWake, Wakers
  <2>4. (LockInv /\ HeldWake /\ NoStranded /\ LastDropSeen)'
    BY <2>3 DEF FreeWake, MailboxInv, LockInv, HeldWake, InFlight, NoStranded, LastDropSeen,
                Empty, lockVars, stateVars, historyVars
  <2>5. QED BY <2>1, <2>2, <2>4 DEF MailboxInv
<1>3. QED BY <1>1, <1>2 DEF FreeWake

\* acknowledge() runs under the lock: no producer is between wake and publication.
LEMMA LockedAckKeeps ==
  ASSUME MailboxInv, LockedAck
  PROVE  MailboxInv'
<1>1. WakeInv'
  BY AckKeeps DEF MailboxInv, LockedAck
<1>2. MailboxTypeOK' /\ OwnerInv'
  BY <1>1, OnlyWakeChanges DEF LockedAck
<1>3. /\ ack # "out" /\ ack' # "out" /\ call' = call
      /\ phase' # phase => phase = "requested" \/ phase = "waking"
  BY DEF LockedAck, AckStep, AckLoad, AckCas
<1>4. owner \in {"ack", "close_ack"} /\ \A s \in Senders : call[s] = "out"
  BY <1>3 DEF MailboxInv, LockInv
<1>5. LockInv'
  BY <1>3 DEF LockedAck, MailboxInv, LockInv, lockVars, stateVars
<1>6. HeldWake'
  BY <1>3, <1>4 DEF HeldWake, InFlight
<1>7. NoStranded' /\ LastDropSeen'
  BY <1>4 DEF LockedAck, MailboxInv, OwnerInv, NoStranded, LastDropSeen, Empty, lockVars,
              stateVars, historyVars
<1>8. QED BY <1>1, <1>2, <1>5, <1>6, <1>7 DEF MailboxInv

\* The host consuming the backend token, and stuttering, do not matter.
LEMMA FreeObserveKeeps ==
  ASSUME MailboxInv, FreeObserve \/ UNCHANGED mailboxVars
  PROVE  MailboxInv'
<1>1. /\ Observe \/ UNCHANGED wakeVars
      /\ UNCHANGED <<lockVars, stateVars, historyVars>>
  BY DEF FreeObserve, mailboxVars
<1>2. WakeInv'
  BY <1>1, ObserveKeeps DEF MailboxInv
<1>3. MailboxTypeOK' /\ OwnerInv'
  BY <1>1, <1>2, OnlyWakeChanges
<1>4. UNCHANGED <<phase, call, ack>>
  BY <1>1 DEF Observe, wakeVars
<1>5. (LockInv /\ HeldWake /\ NoStranded /\ LastDropSeen)'
  BY <1>1, <1>4 DEF MailboxInv, LockInv, HeldWake, InFlight, NoStranded, LastDropSeen, Empty,
                    lockVars, stateVars, historyVars
<1>6. QED BY <1>2, <1>3, <1>5 DEF MailboxInv

\* Every step of the mailbox keeps its invariant.
LEMMA NextKeepsMailbox ==
  ASSUME MailboxInv, [MailboxNext]_mailboxVars
  PROVE  MailboxInv'
<1>1. ASSUME NEW s \in Senders, LockedWake(s) PROVE MailboxInv'
  BY <1>1, AnyWakeStepKeeps, MailboxConstants DEF LockedWake
<1>2. QED
  BY <1>1, TrySendKeeps, PublishKeeps, RefuseWakeKeeps, CloneKeeps, DropSenderKeeps,
     FinishDropKeeps, FreeWakeKeeps, DrainKeeps, PopKeeps, EndPopKeeps, EndDrainKeeps,
     CloseKeeps, LockedAckKeeps, FreeObserveKeeps
     DEF MailboxNext

\* For every number of senders, wakers, items and limits: while the receiver of a
\* mailbox is alive nothing accepted is ever queued without a standing wake
\* request, and the departure of the last sender is never missed unless the
\* backend refused its wake.
THEOREM MailboxSafety == MailboxSpec => [](MailboxTypeOK /\ NoStranded /\ LastDropSeen)
<1>1. MailboxInv /\ [MailboxNext]_mailboxVars => MailboxInv'
  BY NextKeepsMailbox
<1>2. MailboxInv => MailboxTypeOK /\ NoStranded /\ LastDropSeen
  BY DEF MailboxInv
<1>3. QED
  BY MailboxInitInv, <1>1, <1>2, PTL DEF MailboxSpec

---------------------------------------------------------------------------
(* The lanes: LaneInv is inductive relative to MailboxInv.                  *)

\* What is appended to the end of a lane is appended to its history.
LEMMA AppendLast ==
  ASSUME NEW r \in Seq(Items), NEW q \in Seq(Items), NEW i \in Items
  PROVE  Append(r \o q, i) = r \o Append(q, i)
<1> DEFINE x == Append(r \o q, i)
           y == r \o Append(q, i)
<1>1. x \in Seq(Items) /\ y \in Seq(Items) /\ Len(x) = Len(y)
  OBVIOUS
<1>2. \A k \in 1..Len(x) : x[k] = y[k]
  OBVIOUS
<1>3. QED BY <1>1, <1>2, SeqEqual

\* A head that moves from the lane to the removed items keeps the history.
LEMMA MoveHead ==
  ASSUME NEW r \in Seq(Items), NEW q \in Seq(Items), q # <<>>
  PROVE  Append(r, Head(q)) \o Tail(q) = r \o q
<1> DEFINE x == Append(r, Head(q)) \o Tail(q)
           y == r \o q
<1>1. x \in Seq(Items) /\ y \in Seq(Items) /\ Len(x) = Len(y)
  OBVIOUS
<1>2. \A k \in 1..Len(x) : x[k] = y[k]
  OBVIOUS
<1>3. QED BY <1>1, <1>2, SeqEqual

\* The queue that gained item i has running totals that gained Bytes[i].
LEMMA AppendTotals ==
  ASSUME NEW q \in Seq(Items), NEW i \in Items, NEW total \in Int,
         RunningTotals(q, total) # {}
  PROVE  RunningTotals(Append(q, i), total + Bytes[i]) # {}
<1>1. PICK sum \in [0..Len(q) -> 0..total] :
        /\ sum[0] = 0 /\ sum[Len(q)] = total
        /\ \A k \in 1..Len(q) : sum[k] = sum[k - 1] + Bytes[q[k]]
        /\ \A j, k \in 0..Len(q) : j <= k => sum[j] <= sum[k]
  BY DEF RunningTotals
<1>2. Bytes[i] \in Nat /\ Len(q) \in Nat /\ total \in Nat
  <2>1. Bytes[i] \in Nat /\ Len(q) \in Nat
    BY MailboxConstants
  <2>2. 0 \in 0..Len(q) /\ sum[0] \in 0..total
    BY <1>1, <2>1
  <2>3. QED BY <2>1, <2>2
<1> DEFINE p == Append(q, i)
           grown == [k \in 0..Len(p) |-> IF k <= Len(q) THEN sum[k] ELSE total + Bytes[i]]
<1>3. /\ Len(p) = Len(q) + 1 /\ p[Len(p)] = i
      /\ \A k \in 1..Len(q) : p[k] = q[k]
  OBVIOUS
<1>4. \A k \in 0..Len(p) : grown[k] = IF k <= Len(q) THEN sum[k] ELSE total + Bytes[i]
  OBVIOUS
<1> HIDE DEF grown, p
<1>5. grown \in [0..Len(p) -> 0..(total + Bytes[i])]
  BY <1>1, <1>2, <1>3 DEF grown
<1>6. grown[0] = 0 /\ grown[Len(p)] = total + Bytes[i]
  BY <1>1, <1>2, <1>3, <1>4
<1>7. \A k \in 1..Len(p) : grown[k] = grown[k - 1] + Bytes[p[k]]
  <2> SUFFICES ASSUME NEW k \in 1..Len(p) PROVE grown[k] = grown[k - 1] + Bytes[p[k]]
    OBVIOUS
  <2>1. CASE k <= Len(q)
    <3>1. k \in 1..Len(q) /\ k \in 0..Len(p) /\ k - 1 \in 0..Len(p) /\ k - 1 <= Len(q)
      BY <2>1, <1>2, <1>3
    <3>2. grown[k] = sum[k] /\ grown[k - 1] = sum[k - 1]
      BY <2>1, <3>1, <1>4
    <3>3. p[k] = q[k] /\ sum[k] = sum[k - 1] + Bytes[q[k]]
      BY <3>1, <1>1, <1>3
    <3>4. QED
      BY <3>2, <3>3
  <2>2. CASE k = Len(q) + 1
    <3>1. /\ k \in 0..Len(p) /\ ~(k <= Len(q)) /\ k = Len(p)
          /\ k - 1 = Len(q) /\ Len(q) \in 0..Len(p) /\ Len(q) <= Len(q)
      BY <2>2, <1>2, <1>3
    <3>2. grown[k] = total + Bytes[i] /\ grown[k - 1] = total
      BY <3>1, <1>1, <1>4
    <3>3. p[k] = i
      BY <3>1, <1>3
    <3>4. QED
      BY <3>2, <3>3
  <2>3. QED BY <2>1, <2>2, <1>2, <1>3
<1>8. \A j, k \in 0..Len(p) : j <= k => grown[j] <= grown[k]
  <2> SUFFICES ASSUME NEW j \in 0..Len(p), NEW k \in 0..Len(p), j <= k
               PROVE  grown[j] <= grown[k]
    OBVIOUS
  <2>1. \A m \in 0..Len(q) : sum[m] \in 0..total
    BY <1>1
  <2>2. CASE k <= Len(q)
    <3>1. j \in 0..Len(q) /\ k \in 0..Len(q)
      BY <2>2, <1>2, <1>3
    <3>2. grown[j] = sum[j] /\ grown[k] = sum[k]
      BY <3>1, <1>2, <1>4
    <3>3. QED
      BY <3>1, <3>2, <1>1
  <2>3. CASE ~(k <= Len(q))
    <3>1. grown[k] = total + Bytes[i]
      BY <2>3, <1>4
    <3>2. CASE j <= Len(q)
      <4>1. j \in 0..Len(q) /\ grown[j] = sum[j]
        BY <3>2, <1>2, <1>3, <1>4
      <4>2. QED
        BY <3>1, <4>1, <2>1, <1>2
    <3>3. CASE ~(j <= Len(q))
      <4>1. grown[j] = total + Bytes[i]
        BY <3>3, <1>4
      <4>2. QED
        BY <3>1, <4>1, <1>2
    <3>4. QED
      BY <3>2, <3>3
  <2>4. QED
    BY <2>2, <2>3
<1>9. grown \in RunningTotals(p, total + Bytes[i])
  BY <1>5, <1>6, <1>7, <1>8 DEF RunningTotals
<1>10. QED BY <1>9 DEF p

\* The queue that lost its head has running totals that lost the head's bytes, and
\* the head's bytes were there to lose.
LEMMA TailTotals ==
  ASSUME NEW q \in Seq(Items), q # <<>>, NEW total \in Int,
         RunningTotals(q, total) # {}
  PROVE  /\ RunningTotals(Tail(q), total - Bytes[Head(q)]) # {}
         /\ Bytes[Head(q)] \in Nat /\ Bytes[Head(q)] <= total
<1>1. PICK sum \in [0..Len(q) -> 0..total] :
        /\ sum[0] = 0 /\ sum[Len(q)] = total
        /\ \A k \in 1..Len(q) : sum[k] = sum[k - 1] + Bytes[q[k]]
        /\ \A j, k \in 0..Len(q) : j <= k => sum[j] <= sum[k]
  BY DEF RunningTotals
<1> DEFINE p == Tail(q)
           first == Bytes[Head(q)]
           rest == [k \in 0..Len(p) |-> sum[k + 1] - first]
<1>2. /\ Len(q) \in Nat \ {0} /\ Len(p) = Len(q) - 1 /\ Head(q) = q[1] /\ Head(q) \in Items
      /\ \A k \in 1..Len(p) : p[k] = q[k + 1]
  OBVIOUS
<1>3. first \in Nat
  BY <1>2, MailboxConstants
<1>4. sum[1] = first /\ first <= total
  <2>1. 1 \in 1..Len(q) /\ 1 \in 0..Len(q) /\ 1 - 1 = 0
    BY <1>2
  <2>2. sum[1] = sum[1 - 1] + Bytes[q[1]] /\ sum[1] \in 0..total
    BY <1>1, <2>1
  <2>3. QED BY <1>1, <1>2, <1>3, <2>1, <2>2
<1>5. \A k \in 0..Len(p) : rest[k] = sum[k + 1] - first
  OBVIOUS
<1> HIDE DEF rest, p, first
<1>6. rest \in [0..Len(p) -> 0..(total - first)]
  <2> SUFFICES ASSUME NEW k \in 0..Len(p) PROVE sum[k + 1] - first \in 0..(total - first)
    BY DEF rest
  <2>1. k + 1 \in 0..Len(q) /\ 1 \in 0..Len(q) /\ 1 <= k + 1
    BY <1>2
  <2>2. sum[1] <= sum[k + 1] /\ sum[k + 1] \in 0..total
    BY <1>1, <2>1
  <2>3. QED BY <1>3, <1>4, <2>2
<1>7. rest[0] = 0 /\ rest[Len(p)] = total - first
  BY <1>1, <1>2, <1>3, <1>4, <1>5
<1>8. \A k \in 1..Len(p) : rest[k] = rest[k - 1] + Bytes[p[k]]
  <2> SUFFICES ASSUME NEW k \in 1..Len(p) PROVE rest[k] = rest[k - 1] + Bytes[p[k]]
    OBVIOUS
  <2>1. k + 1 \in 1..Len(q) /\ k \in 0..Len(q) /\ k - 1 \in 0..Len(p) /\ k \in 0..Len(p)
    BY <1>2
  <2>2. sum[k + 1] = sum[k] + Bytes[q[k + 1]] /\ sum[k] \in Int /\ sum[k + 1] \in Int
    <3>1. sum[k + 1] = sum[(k + 1) - 1] + Bytes[q[k + 1]]
      BY <1>1, <2>1
    <3>2. (k + 1) - 1 = k /\ k + 1 \in 0..Len(q)
      BY <2>1
    <3>3. sum[k] \in 0..total /\ sum[k + 1] \in 0..total
      BY <1>1, <2>1, <3>2
    <3>4. QED
      BY <3>1, <3>2, <3>3
  <2>3. rest[k] = sum[k + 1] - first /\ rest[k - 1] = sum[k] - first
    BY <1>5, <2>1
  <2>4. p[k] = q[k + 1] /\ q[k + 1] \in Items
    BY <1>2, <2>1
  <2>5. Bytes[p[k]] = Bytes[q[k + 1]] /\ Bytes[p[k]] \in Int
    BY <2>4, MailboxConstants
  <2>6. \A a, b, c, f \in Int : a = b + c => a - f = (b - f) + c
    OBVIOUS
  <2> DEFINE new == sum[k + 1]
             old == sum[k]
             own == Bytes[p[k]]
  <2>7. /\ new \in Int /\ old \in Int /\ own \in Int /\ first \in Int /\ new = old + own
        /\ rest[k] = new - first /\ rest[k - 1] = old - first
    BY <1>3, <2>2, <2>3, <2>5
  <2> HIDE DEF new, old, own
  <2>8. rest[k] = rest[k - 1] + own
    BY <2>6, <2>7
  <2>9. QED BY <2>8 DEF own
<1>9. \A j, k \in 0..Len(p) : j <= k => rest[j] <= rest[k]
  <2> SUFFICES ASSUME NEW j \in 0..Len(p), NEW k \in 0..Len(p), j <= k
               PROVE  rest[j] <= rest[k]
    OBVIOUS
  <2>1. j + 1 \in 0..Len(q) /\ k + 1 \in 0..Len(q) /\ j + 1 <= k + 1
    BY <1>2
  <2>2. sum[j + 1] <= sum[k + 1] /\ sum[j + 1] \in Int /\ sum[k + 1] \in Int
    BY <1>1, <2>1
  <2>3. QED BY <1>3, <1>5, <2>2
<1>10. rest \in RunningTotals(p, total - first)
  BY <1>6, <1>7, <1>8, <1>9 DEF RunningTotals
<1>11. QED BY <1>3, <1>4, <1>10 DEF p, first

\* A fresh mailbox: empty lanes, one handle.
LEMMA LaneInitInv == MailboxInit => LaneInv
<1> SUFFICES ASSUME MailboxInit PROVE LaneInv
  OBVIOUS
<1>1. \A l \in Lanes : /\ queue[l] = <<>> /\ accepted[l] = <<>> /\ removed[l] = <<>>
                       /\ retained[l] = 0
                       /\ rejections[l]["messages"] = 0 /\ rejections[l]["bytes"] = 0
  BY DEF MailboxInit
<1>2. Fifo
  <2>1. <<>> \o <<>> = <<>>
    OBVIOUS
  <2>2. QED BY <1>1, <2>1 DEF Fifo
<1>3. Bounded
  BY <1>1, MailboxConstants DEF Bounded
<1>4. ExactBytes
  <2>1. [k \in 0..0 |-> 0] \in RunningTotals(<<>>, 0)
    BY DEF RunningTotals
  <2>2. QED BY <1>1, <2>1 DEF ExactBytes
<1>5. CallsAccounted /\ RoomHeld /\ ClosedKnown
  BY <1>1 DEF MailboxInit, CallsAccounted, LaneCalls, SendInFlight, RoomHeld, ClosedKnown, Lanes
<1>6. SendersCounted
  <2>1. PICK s \in Senders : live = {s}
    BY DEF MailboxInit
  <2>2. IsFiniteSet(live) /\ Cardinality(live) = 1
    BY <2>1, FS_Singleton
  <2>3. QED BY <2>2 DEF MailboxInit, SendersCounted
<1>7. QED BY <1>2, <1>3, <1>4, <1>5, <1>6 DEF LaneInv

\* Steps that move no item keep the lanes' order, bounds and byte accounts.
LEMMA LanesAlone ==
  ASSUME LaneInv, UNCHANGED <<queue, retained, accepted, removed>>
  PROVE  (Fifo /\ Bounded /\ ExactBytes)'
BY DEF LaneInv, Fifo, Bounded, ExactBytes

\* The calls a lane accounts for, and that they stay when its counters do.
LEMMA LaneCallsNat ==
  ASSUME MailboxInv
  PROVE  \A k \in Lanes : /\ LaneCalls(k) \in Nat /\ Len(accepted[k]) \in Nat
                         /\ rejections[k]["messages"] \in Nat /\ rejections[k]["bytes"] \in Nat
<1>1. /\ accepted \in [Lanes -> Seq(Items)] /\ rejections \in [Lanes -> LaneCounters]
  BY DEF MailboxInv, MailboxTypeOK
<1>2. \A k \in Lanes : /\ Len(accepted[k]) \in Nat
                      /\ rejections[k]["messages"] \in Nat /\ rejections[k]["bytes"] \in Nat
  BY <1>1 DEF LaneCounters
<1>3. \A a, b, c \in Nat : a + b + c \in Nat
  OBVIOUS
<1>4. QED
  BY <1>2, <1>3, Zenon DEF LaneCalls

LEMMA LaneCallsAlone ==
  ASSUME UNCHANGED <<accepted, rejections>>
  PROVE  \A k \in Lanes : LaneCalls(k)' = LaneCalls(k)
  BY DEF LaneCalls

\* try_send: a refusal is counted once, and what is admitted to the wake has room.
LEMMA TrySendKeepsLanes ==
  ASSUME MailboxInv, LaneInv, NEW s \in Senders, NEW l \in Lanes, NEW i \in Items,
         TrySend(s, l, i)
  PROVE  LaneInv'
<1>1. (Fifo /\ Bounded /\ ExactBytes)'
  BY LanesAlone DEF TrySend
<1>2. ~SendInFlight /\ \A u \in Senders : pc[u] = "idle"
  BY DEF TrySend, Unlocked, SendInFlight
<1>3. /\ \A k \in Lanes : Len(accepted[k]) \in Nat /\ rejections[k] \in LaneCounters
      /\ pc \in [Senders -> {"idle", "send", "drop"}] /\ calls \in Nat
      /\ closedCount \in Nat /\ wakeFailures \in Nat /\ failedDrops \in Nat
  BY DEF MailboxInv, MailboxTypeOK
<1>4. SendersCounted' /\ ClosedKnown'
  BY <1>2, <1>3 DEF TrySend, LaneInv, SendersCounted, ClosedKnown
<1>5. RoomHeld'
  <2>1. CASE Refusal(l, i) # "none"
    BY <1>2, <2>1 DEF TrySend, RoomHeld
  <2>2. CASE Refusal(l, i) = "none"
    <3>1. /\ receiverAlive /\ Len(queue[l]) < MessageLimit[l]
          /\ retained[l] + Bytes[i] <= ByteLimit[l]
      <4>1. /\ Len(queue[l]) \in Nat /\ MessageLimit[l] \in Nat /\ retained[l] \in Int
            /\ Bytes[i] \in Nat /\ ByteLimit[l] \in Nat
        BY MailboxConstants DEF MailboxInv, MailboxTypeOK
      <4>2. QED BY <2>2, <4>1 DEF Refusal
    <3>2. /\ pc' = [pc EXCEPT ![s] = "send"] /\ offer' = [offer EXCEPT ![s] = <<l, i>>]
          /\ UNCHANGED <<receiverAlive, queue, retained>>
          /\ offer \in [Senders -> {<<>>} \cup (Lanes \X Items)]
      BY <2>2 DEF TrySend, MailboxInv, MailboxTypeOK
    <3>3. QED BY <1>2, <1>3, <3>1, <3>2 DEF RoomHeld
  <2>3. QED BY <2>1, <2>2
<1>6. CallsAccounted'
  <2>1. calls' = calls + 1 /\ UNCHANGED <<accepted, wakeFailures, failedDrops>>
    BY DEF TrySend
  <2>2. calls = LaneCalls("control") + LaneCalls("work") + closedCount
                + wakeFailures - failedDrops
    <3>1. \A k \in Lanes : LaneCalls(k) \in Nat
      BY LaneCallsNat
    <3>2. QED BY <1>2, <1>3, <3>1 DEF LaneInv, CallsAccounted, Lanes
  <2>3. CASE Refusal(l, i) = "none"
    <3>1. SendInFlight'
      BY <1>3, <2>3 DEF TrySend, SendInFlight
    <3>2. UNCHANGED <<rejections, closedCount>>
      BY <2>3 DEF TrySend
    <3>3. QED BY <1>3, <2>1, <2>2, <3>1, <3>2 DEF CallsAccounted, LaneCalls, LaneCounters, Lanes
  <2>4. CASE Refusal(l, i) # "none"
    <3>1. ~SendInFlight' /\ CountRefusal(Refusal(l, i), l)
      BY <1>2, <2>4 DEF TrySend, SendInFlight
    <3>2. CASE Refusal(l, i) = "closed"
      <4>1. \A k \in Lanes : LaneCalls(k) \in Nat /\ LaneCalls(k)' = LaneCalls(k)
        BY <2>1, <3>1, <3>2, LaneCallsNat, LaneCallsAlone DEF CountRefusal
      <4>2. QED
        BY <1>3, <2>1, <2>2, <3>1, <3>2, <4>1 DEF CountRefusal, CallsAccounted, Lanes
    <3>3. ASSUME NEW why \in {"messages", "bytes"}, Refusal(l, i) = why
          PROVE  CallsAccounted'
      <4>1. /\ rejections' = [rejections EXCEPT ![l] = [rejections[l] EXCEPT ![why] = @ + 1]]
            /\ closedCount' = closedCount
        BY <3>1, <3>3 DEF CountRefusal
      <4>2. rejections \in [Lanes -> LaneCounters]
        BY DEF MailboxInv, MailboxTypeOK
      <4>3. /\ rejections'[l][why] = rejections[l][why] + 1
            /\ \A k \in Lanes, c \in {"messages", "bytes"} :
                 k # l \/ c # why => rejections'[k][c] = rejections[k][c]
            /\ \A k \in Lanes, c \in {"messages", "bytes"} : rejections[k][c] \in Nat
        BY <4>1, <4>2 DEF LaneCounters
      <4>4. LaneCalls(l)' = LaneCalls(l) + 1
        <5>1. \/ /\ rejections'[l]["messages"] = rejections[l]["messages"] + 1
                 /\ rejections'[l]["bytes"] = rejections[l]["bytes"]
              \/ /\ rejections'[l]["messages"] = rejections[l]["messages"]
                 /\ rejections'[l]["bytes"] = rejections[l]["bytes"] + 1
          BY <4>3
        <5>2. /\ rejections[l]["messages"] \in Nat /\ rejections[l]["bytes"] \in Nat
              /\ Len(accepted[l]) \in Nat
          BY <1>3, <4>3
        <5>3. LaneCalls(l)' = Len(accepted[l]) + rejections'[l]["messages"]
                              + rejections'[l]["bytes"]
          BY <2>1 DEF LaneCalls
        <5>4. LaneCalls(l) = Len(accepted[l]) + rejections[l]["messages"]
                             + rejections[l]["bytes"]
          BY DEF LaneCalls
        <5> DEFINE n == Len(accepted[l])
                   a == rejections[l]["messages"]
                   b == rejections[l]["bytes"]
        <5>5. LaneCalls(l)' = n + (a + 1) + b \/ LaneCalls(l)' = n + a + (b + 1)
          BY <5>1, <5>3, Zenon
        <5>6. n \in Nat /\ a \in Nat /\ b \in Nat /\ LaneCalls(l) = n + a + b
          BY <5>2, <5>4
        <5> HIDE DEF n, a, b
        <5>7. QED BY <5>5, <5>6
      <4>5. \A k \in Lanes : k # l => LaneCalls(k)' = LaneCalls(k)
        BY <2>1, <4>3 DEF LaneCalls
      <4>6. \A k \in Lanes : LaneCalls(k) \in Nat
        BY LaneCallsNat
      <4>7. LaneCalls("control")' + LaneCalls("work")'
              = LaneCalls("control") + LaneCalls("work") + 1
        BY <4>4, <4>5, <4>6 DEF Lanes
      <4>8. calls' = LaneCalls("control")' + LaneCalls("work")' + closedCount'
                     + wakeFailures' - failedDrops'
        <5>1. LaneCalls("control") \in Nat /\ LaneCalls("work") \in Nat
          BY <4>6 DEF Lanes
        <5>2. QED
          BY <1>3, <2>1, <2>2, <4>1, <4>7, <5>1
      <4>9. LaneCalls("control")' + LaneCalls("work")' \in Nat
        BY <4>6, <4>7 DEF Lanes
      <4>10. QED BY <1>3, <2>1, <3>1, <4>1, <4>8, <4>9 DEF CallsAccounted
    <3>4. QED BY <2>4, <3>2, <3>3 DEF Refusal
  <2>5. QED BY <2>3, <2>4
<1>7. QED BY <1>1, <1>4, <1>5, <1>6 DEF LaneInv

\* Publication uses the room that was found, at the end of its lane.
LEMMA PublishKeepsLanes ==
  ASSUME MailboxInv, LaneInv, NEW s \in Senders, Publish(s)
  PROVE  LaneInv'
<1>1. offer[s] \in Lanes \X Items /\ pc[s] = "send"
  BY DEF MailboxInv, LockInv, Publish
<1> PICK l \in Lanes, i \in Items : offer[s] = <<l, i>>
  BY <1>1
<1>2. l \in Lanes /\ i \in Items /\ Bytes[i] \in Nat
  BY <1>1, MailboxConstants
<1>3. /\ queue' = [queue EXCEPT ![l] = Append(@, i)]
      /\ retained' = [retained EXCEPT ![l] = @ + Bytes[i]]
      /\ accepted' = [accepted EXCEPT ![l] = Append(@, i)]
      /\ pc' = [pc EXCEPT ![s] = "idle"]
      /\ UNCHANGED <<owner, budget, receiverAlive, senders, counterVars, live, status,
                     receiverGone, calls, failedDrops, removed>>
  BY DEF Publish
<1>4. /\ queue \in [Lanes -> Seq(Items)] /\ accepted \in [Lanes -> Seq(Items)]
      /\ removed \in [Lanes -> Seq(Items)] /\ retained \in [Lanes -> Int]
      /\ rejections \in [Lanes -> LaneCounters] /\ pc \in [Senders -> {"idle", "send", "drop"}]
      /\ calls \in Nat /\ closedCount \in Nat /\ wakeFailures \in Nat /\ failedDrops \in Nat
  BY DEF MailboxInv, MailboxTypeOK
<1>5. /\ Len(queue[l]) < MessageLimit[l] /\ MessageLimit[l] \in Nat
      /\ retained[l] + Bytes[i] <= ByteLimit[l]
  BY <1>1, <1>2, MailboxConstants DEF LaneInv, RoomHeld
<1>6. Fifo'
  <2> SUFFICES ASSUME NEW k \in Lanes PROVE (accepted[k] = removed[k] \o queue[k])'
    BY DEF Fifo
  <2>1. accepted[k] = removed[k] \o queue[k] /\ removed' = removed
    BY <1>3 DEF LaneInv, Fifo
  <2>2. CASE k # l
    BY <2>1, <2>2, <1>2, <1>3, <1>4
  <2>3. CASE k = l
    <3>1. accepted'[l] = Append(accepted[l], i) /\ queue'[l] = Append(queue[l], i)
      BY <1>2, <1>3, <1>4
    <3>2. removed[l] \in Seq(Items) /\ queue[l] \in Seq(Items)
      BY <1>2, <1>4
    <3>3. Append(removed[l] \o queue[l], i) = removed[l] \o Append(queue[l], i)
      BY <1>2, <3>2, AppendLast
    <3>4. QED BY <2>1, <2>3, <3>1, <3>3
  <2>4. QED BY <2>2, <2>3
<1>7. Bounded'
  <2> SUFFICES ASSUME NEW k \in Lanes
               PROVE  (Len(queue[k]) <= MessageLimit[k] /\ retained[k] <= ByteLimit[k])'
    BY DEF Bounded
  <2>1. CASE k # l
    BY <2>1, <1>2, <1>3, <1>4 DEF LaneInv, Bounded
  <2>2. CASE k = l
    <3>1. queue'[l] = Append(queue[l], i) /\ queue[l] \in Seq(Items)
          /\ retained'[l] = retained[l] + Bytes[i]
      BY <1>2, <1>3, <1>4
    <3>2. Len(queue'[l]) = Len(queue[l]) + 1 /\ Len(queue[l]) \in Nat
      BY <1>2, <3>1
    <3>3. QED BY <2>2, <1>5, <3>1, <3>2
  <2>3. QED BY <2>1, <2>2
<1>8. ExactBytes'
  <2> SUFFICES ASSUME NEW k \in Lanes PROVE RunningTotals(queue'[k], retained'[k]) # {}
    BY DEF ExactBytes, RunningTotals
  <2>1. RunningTotals(queue[k], retained[k]) # {}
    BY DEF LaneInv, ExactBytes
  <2>2. CASE k # l
    BY <2>1, <2>2, <1>2, <1>3, <1>4
  <2>3. CASE k = l
    <3>1. queue'[l] = Append(queue[l], i) /\ retained'[l] = retained[l] + Bytes[i]
          /\ queue[l] \in Seq(Items) /\ retained[l] \in Int
      BY <1>2, <1>3, <1>4
    <3>2. QED BY <2>1, <2>3, <1>2, <3>1, AppendTotals
  <2>4. QED BY <2>2, <2>3
<1>9. \A u \in Senders : pc'[u] = "idle"
  BY <1>1, <1>3, <1>4 DEF MailboxInv, LockInv
<1>10. CallsAccounted'
  <2>1. SendInFlight /\ ~SendInFlight'
    BY <1>1, <1>9 DEF SendInFlight
  <2>2. /\ Len(accepted'[l]) = Len(accepted[l]) + 1
        /\ \A k \in Lanes : Len(accepted[k]) \in Nat /\ (k # l => accepted'[k] = accepted[k])
    BY <1>2, <1>3, <1>4
  <2>3. LaneCalls(l)' = LaneCalls(l) + 1
    <3>1. rejections' = rejections
      BY <1>3 DEF counterVars
    <3>2. /\ rejections[l]["messages"] \in Nat /\ rejections[l]["bytes"] \in Nat
          /\ Len(accepted[l]) \in Nat
      BY <1>2, <1>4, <2>2 DEF LaneCounters
    <3>3. LaneCalls(l)' = (Len(accepted[l]) + 1) + rejections[l]["messages"]
                          + rejections[l]["bytes"]
      BY <2>2, <3>1 DEF LaneCalls
    <3>4. LaneCalls(l) = Len(accepted[l]) + rejections[l]["messages"] + rejections[l]["bytes"]
      BY DEF LaneCalls
    <3>5. QED BY <3>2, <3>3, <3>4
  <2>4. \A k \in Lanes : LaneCalls(k) \in Nat /\ (k # l => LaneCalls(k)' = LaneCalls(k))
    <3>1. rejections' = rejections
      BY <1>3 DEF counterVars
    <3>2. QED
      BY <2>2, <3>1, LaneCallsNat DEF LaneCalls
  <2>5. QED
    <3>1. calls = LaneCalls("control") + LaneCalls("work") + closedCount
                  + wakeFailures - failedDrops + 1
      BY <2>1 DEF LaneInv, CallsAccounted
    <3>2. LaneCalls("control")' + LaneCalls("work")'
            = LaneCalls("control") + LaneCalls("work") + 1
          /\ LaneCalls("control") \in Nat /\ LaneCalls("work") \in Nat
      BY <1>2, <2>3, <2>4 DEF Lanes
    <3>3. UNCHANGED <<calls, closedCount, wakeFailures, failedDrops>>
      BY <1>3 DEF counterVars
    <3>4. calls' = LaneCalls("control")' + LaneCalls("work")' + closedCount'
                   + wakeFailures' - failedDrops'
      BY <1>4, <3>1, <3>2, <3>3
    <3>5. LaneCalls("control")' + LaneCalls("work")' \in Nat
      BY <3>2
    <3>6. QED BY <1>4, <2>1, <3>3, <3>4, <3>5 DEF CallsAccounted
<1>11. (RoomHeld /\ SendersCounted /\ ClosedKnown)'
  BY <1>3, <1>9 DEF LaneInv, RoomHeld, SendersCounted, ClosedKnown
<1>12. QED BY <1>6, <1>7, <1>8, <1>10, <1>11 DEF LaneInv

\* Taking one item: the head of its lane, with its bytes.
LEMMA PopKeepsLanes ==
  ASSUME MailboxInv, LaneInv, Pop
  PROVE  LaneInv'
<1> DEFINE l == ControlFirst
           q == queue[l]
<1>1. /\ owner \in {"pop", "close_pop"} /\ ~Empty
      /\ queue' = [queue EXCEPT ![l] = Tail(q)]
      /\ retained' = [retained EXCEPT ![l] = @ - Bytes[Head(q)]]
      /\ removed' = [removed EXCEPT ![l] = Append(@, Head(q))]
      /\ UNCHANGED <<wakeVars, pc, offer, owner, receiverAlive, senders, counterVars, live,
                     status, receiverGone, calls, failedDrops, accepted>>
  BY DEF Pop, PopFrom
<1>2. l \in Lanes /\ q \in Seq(Items) /\ q # <<>>
  BY <1>1 DEF ControlFirst, Empty, Lanes, MailboxInv, MailboxTypeOK
<1>3. /\ queue \in [Lanes -> Seq(Items)] /\ removed \in [Lanes -> Seq(Items)]
      /\ retained \in [Lanes -> Int]
  BY DEF MailboxInv, MailboxTypeOK
<1> HIDE DEF l
<1>4. /\ RunningTotals(Tail(q), retained[l] - Bytes[Head(q)]) # {}
      /\ Bytes[Head(q)] \in Nat /\ Bytes[Head(q)] <= retained[l]
  BY <1>2, <1>3, TailTotals DEF LaneInv, ExactBytes
<1>5. ExactBytes'
  <2> SUFFICES ASSUME NEW k \in Lanes PROVE RunningTotals(queue'[k], retained'[k]) # {}
    BY DEF ExactBytes, RunningTotals
  <2>1. CASE k # l
    BY <2>1, <1>1, <1>2, <1>3 DEF LaneInv, ExactBytes
  <2>2. CASE k = l
    BY <2>2, <1>1, <1>2, <1>3, <1>4
  <2>3. QED BY <2>1, <2>2
<1>6. Bounded'
  <2> SUFFICES ASSUME NEW k \in Lanes
               PROVE  (Len(queue[k]) <= MessageLimit[k] /\ retained[k] <= ByteLimit[k])'
    BY DEF Bounded
  <2>1. Len(queue[k]) <= MessageLimit[k] /\ retained[k] <= ByteLimit[k]
    BY DEF LaneInv, Bounded
  <2>2. CASE k # l
    BY <2>1, <2>2, <1>1, <1>2, <1>3
  <2>3. CASE k = l
    <3>1. Len(Tail(q)) = Len(q) - 1 /\ Len(q) \in Nat
      BY <1>2
    <3>2. queue'[l] = Tail(q) /\ retained'[l] = retained[l] - Bytes[Head(q)]
      BY <1>1, <1>2, <1>3
    <3>3. MessageLimit[l] \in Nat /\ ByteLimit[l] \in Nat /\ retained[l] \in Int
      BY <1>2, <1>3, MailboxConstants
    <3>4. QED BY <2>1, <2>3, <1>4, <3>1, <3>2, <3>3
  <2>4. QED BY <2>2, <2>3
<1>7. Fifo'
  <2> SUFFICES ASSUME NEW k \in Lanes PROVE (accepted[k] = removed[k] \o queue[k])'
    BY DEF Fifo
  <2>1. accepted[k] = removed[k] \o queue[k] /\ accepted' = accepted
    BY <1>1 DEF LaneInv, Fifo
  <2>2. CASE k # l
    BY <2>1, <2>2, <1>1, <1>2, <1>3
  <2>3. CASE k = l
    <3>1. queue'[l] = Tail(q) /\ removed'[l] = Append(removed[l], Head(q))
      BY <1>1, <1>2, <1>3
    <3>2. removed[l] \in Seq(Items)
      BY <1>2, <1>3
    <3>3. Append(removed[l], Head(q)) \o Tail(q) = removed[l] \o q
      BY <1>2, <3>2, MoveHead
    <3>4. QED BY <2>1, <2>3, <3>1, <3>3
  <2>4. QED BY <2>2, <2>3
<1>8. \A u \in Senders : pc'[u] = "idle"
  BY <1>1 DEF MailboxInv, LockInv
<1>9. (CallsAccounted /\ RoomHeld /\ SendersCounted /\ ClosedKnown)'
  BY <1>1, <1>8 DEF LaneInv, CallsAccounted, LaneCalls, SendInFlight, RoomHeld, SendersCounted,
                    ClosedKnown, counterVars
<1>10. QED BY <1>5, <1>6, <1>7, <1>9 DEF LaneInv

\* A refused wake is counted in the place of the call it ends.
LEMMA RefuseWakeKeepsLanes ==
  ASSUME MailboxInv, LaneInv, NEW s \in Senders, RefuseWake(s)
  PROVE  LaneInv'
<1>1. (Fifo /\ Bounded /\ ExactBytes)'
  BY LanesAlone DEF RefuseWake, historyVars
<1>2. SendInFlight /\ \A u \in Senders : pc'[u] = "idle"
  BY DEF RefuseWake, MailboxInv, MailboxTypeOK, LockInv, SendInFlight
<1>3. CallsAccounted'
  <2>1. \A k \in Lanes : LaneCalls(k) \in Nat /\ LaneCalls(k)' = LaneCalls(k)
    BY LaneCallsNat, LaneCallsAlone DEF RefuseWake, historyVars
  <2>2. ~SendInFlight'
    BY <1>2 DEF SendInFlight
  <2>3. /\ wakeFailures' = wakeFailures + 1 /\ UNCHANGED <<calls, closedCount, failedDrops>>
        /\ calls \in Nat /\ closedCount \in Nat /\ wakeFailures \in Nat /\ failedDrops \in Nat
    BY DEF RefuseWake, historyVars, MailboxInv, MailboxTypeOK
  <2>4. calls = LaneCalls("control") + LaneCalls("work") + closedCount
                + wakeFailures - failedDrops + 1
    BY <1>2 DEF LaneInv, CallsAccounted
  <2>5. QED
    BY <2>1, <2>2, <2>3, <2>4 DEF CallsAccounted, Lanes
<1>4. (RoomHeld /\ SendersCounted /\ ClosedKnown)'
  BY <1>2 DEF RefuseWake, LaneInv, RoomHeld, SendersCounted, ClosedKnown
<1>5. QED BY <1>1, <1>3, <1>4 DEF LaneInv

\* Handles come and go one at a time, and none comes back after the last.
LEMMA HandlesKeepLanes ==
  ASSUME MailboxInv, LaneInv, NEW s \in Senders,
         (\E n \in Senders : Clone(s, n)) \/ DropSender(s) \/ FinishDrop(s)
  PROVE  LaneInv'
<1>1. (Fifo /\ Bounded /\ ExactBytes)'
  BY LanesAlone DEF Clone, DropSender, FinishDrop, historyVars
<1>2. ~SendInFlight /\ ~SendInFlight'
  BY DEF Clone, DropSender, FinishDrop, Unlocked, SendInFlight, lockVars, MailboxInv,
         MailboxTypeOK, LockInv
<1>3. RoomHeld'
  BY <1>2 DEF RoomHeld, SendInFlight
<1>4. CallsAccounted'
  <2>1. \A k \in Lanes : LaneCalls(k) \in Nat /\ LaneCalls(k)' = LaneCalls(k)
    BY DEF Clone, DropSender, FinishDrop, historyVars, counterVars, MailboxInv, MailboxTypeOK,
           LaneCalls, LaneCounters
  <2>2. /\ wakeFailures' - failedDrops' = wakeFailures - failedDrops
        /\ UNCHANGED <<calls, closedCount>>
        /\ wakeFailures' \in Nat /\ failedDrops' \in Nat
    <3>1. wakeFailures \in Nat /\ failedDrops \in Nat
      BY DEF MailboxInv, MailboxTypeOK
    <3>2. CASE \E n \in Senders : Clone(s, n)
      BY <3>1, <3>2 DEF Clone, historyVars, counterVars
    <3>3. CASE DropSender(s)
      BY <3>1, <3>3 DEF DropSender, historyVars, counterVars
    <3>4. CASE FinishDrop(s)
      BY <3>1, <3>4 DEF FinishDrop
    <3>5. QED BY <3>2, <3>3, <3>4
  <2>3. QED
    BY <1>2, <2>1, <2>2 DEF MailboxInv, MailboxTypeOK, LaneInv, CallsAccounted, Lanes
<1>5. IsFiniteSet(live) /\ senders = Cardinality(live) /\ Cardinality(live) \in Nat
  BY FS_CardinalityType DEF LaneInv, SendersCounted
<1>6. SendersCounted' /\ ClosedKnown'
  <2>1. ASSUME NEW n \in Senders, Clone(s, n)
        PROVE  SendersCounted' /\ ClosedKnown'
    <3>1. IsFiniteSet(live') /\ Cardinality(live') = Cardinality(live) + 1
      BY <1>5, <2>1, FS_AddElement DEF Clone
    <3>2. senders # 0
      BY <1>5, <2>1, FS_EmptySet DEF Clone
    <3>3. QED
      BY <1>5, <2>1, <3>1, <3>2 DEF Clone, lockVars, LaneInv, SendersCounted, ClosedKnown
  <2>2. ASSUME s \in live, live' = live \ {s}, senders' = senders - 1,
               \A u \in Senders : pc'[u] = "idle", UNCHANGED <<status, receiverAlive>>
        PROVE  SendersCounted' /\ ClosedKnown'
    <3>1. IsFiniteSet(live') /\ Cardinality(live') = Cardinality(live) - 1
      BY <1>5, <2>2, FS_RemoveElement
    <3>2. senders # 0
      BY <1>5, <2>2, FS_EmptySet
    <3>3. QED BY <1>5, <2>2, <3>1, <3>2 DEF LaneInv, SendersCounted, ClosedKnown
  <2>3. CASE DropSender(s)
    <3>1. CASE senders = 1 /\ receiverAlive
      <4>1. /\ pc' = [pc EXCEPT ![s] = "drop"] /\ s \in live
            /\ \A u \in Senders : pc[u] = "idle"
            /\ UNCHANGED <<senders, live, status, receiverAlive>>
        BY <2>3, <3>1 DEF DropSender, Unlocked
      <4>2. pc \in [Senders -> {"idle", "send", "drop"}]
        BY DEF MailboxInv, MailboxTypeOK
      <4>3. \A u \in Senders : pc'[u] # "idle" => u \in live
        BY <4>1, <4>2
      <4>4. QED BY <4>1, <4>3 DEF LaneInv, SendersCounted, ClosedKnown
    <3>2. CASE ~(senders = 1 /\ receiverAlive)
      <4>1. senders # 0
        BY <1>5, <2>3, FS_EmptySet DEF DropSender
      <4>2. QED BY <2>2, <2>3, <3>2, <4>1 DEF DropSender, Unlocked
    <3>3. QED BY <3>1, <3>2
  <2>4. CASE FinishDrop(s)
    <3>1. \A u \in Senders : pc'[u] = "idle"
      BY <2>4 DEF FinishDrop, MailboxInv, MailboxTypeOK, LockInv
    <3>2. s \in live
      BY <2>4 DEF FinishDrop, LaneInv, SendersCounted
    <3>3. QED BY <2>2, <2>4, <3>1, <3>2 DEF FinishDrop
  <2>5. QED BY <2>1, <2>3, <2>4
<1>7. QED BY <1>1, <1>3, <1>4, <1>6 DEF LaneInv

\* Everything else leaves the lanes, the handles and the accounts alone; admission
\* closes only under the lock, and Closed is answered for a reason.
LEMMA OthersKeepLanes ==
  ASSUME MailboxInv, LaneInv,
         UNCHANGED <<queue, retained, accepted, removed, counterVars, calls, failedDrops, live,
                     senders, pc, offer>>,
         receiverAlive' = receiverAlive \/ (receiverAlive' = FALSE /\ Unlocked),
         status' # status /\ status' = "closed" => ~receiverAlive' \/ senders' = 0
  PROVE  LaneInv'
<1>1. (Fifo /\ Bounded /\ ExactBytes)'
  BY LanesAlone
<1>2. (CallsAccounted /\ SendersCounted)'
  BY DEF LaneInv, CallsAccounted, LaneCalls, SendInFlight, SendersCounted, counterVars
<1>3. RoomHeld'
  BY DEF LaneInv, RoomHeld, Unlocked
<1>4. ClosedKnown'
  BY DEF LaneInv, ClosedKnown
<1>5. QED BY <1>1, <1>2, <1>3, <1>4 DEF LaneInv

\* Every step of the mailbox keeps the accounts of its lanes.
LEMMA NextKeepsLanes ==
  ASSUME MailboxInv, LaneInv, [MailboxNext]_mailboxVars
  PROVE  LaneInv'
<1>1. CASE \/ \E limit \in DrainLimits : Drain(limit)
           \/ EndPop \/ CloseDrain \/ EndClose \/ LockedAck \/ FreeObserve
           \/ \E s \in Senders : LockedWake(s)
           \/ \E w \in Wakers : FreeWake(w)
           \/ UNCHANGED mailboxVars
  BY <1>1, OthersKeepLanes
     DEF Drain, EndPop, CloseDrain, EndClose, LockedAck, FreeObserve, LockedWake, FreeWake,
         mailboxVars, lockVars, stateVars, historyVars, counterVars
<1>2. CASE EndDrain
  BY <1>2, OthersKeepLanes DEF EndDrain, historyVars
<1>3. CASE \E byDrop \in BOOLEAN : Close(byDrop)
  BY <1>3, OthersKeepLanes DEF Close, historyVars
<1>4. QED
  BY <1>1, <1>2, <1>3, TrySendKeepsLanes, PublishKeepsLanes, PopKeepsLanes,
     RefuseWakeKeepsLanes, HandlesKeepLanes
     DEF MailboxNext

---------------------------------------------------------------------------
(* What follows from the two invariants.                                   *)

\* Both invariants hold in every state of every behaviour.
LEMMA MailboxInvariants == MailboxSpec => [](MailboxInv /\ LaneInv)
<1>1. MailboxInit => MailboxInv /\ LaneInv
  BY MailboxInitInv, LaneInitInv
<1>2. MailboxInv /\ LaneInv /\ [MailboxNext]_mailboxVars => (MailboxInv /\ LaneInv)'
  BY NextKeepsMailbox, NextKeepsLanes
<1>3. QED BY <1>1, <1>2, PTL DEF MailboxSpec

\* For any senders, wakers, items, sizes and limits, through every interleaving:
\* each lane is first in, first out and loses nothing, both limits hold although
\* room is checked before the wake and used after it, retained bytes and refusal
\* counters are exact, and every returned Ok was signalled.
THEOREM MailboxLanesSafe == MailboxSpec => [](MailboxSafe /\ OkIsSignalled)
<1>1. MailboxInv /\ LaneInv => MailboxSafe /\ OkIsSignalled
  BY WakeInvImplies DEF MailboxInv, LaneInv, MailboxSafe
<1>2. QED BY MailboxInvariants, <1>1, PTL

\* After a drain has answered Closed no try_send is ever accepted, whatever handles
\* were still being cloned or dropped when it looked.
THEOREM MailboxClosedIsFinal == MailboxSpec => ClosedIsFinal
<1>1. ASSUME MailboxInv, LaneInv, [MailboxNext]_mailboxVars, status = "closed"
      PROVE  UNCHANGED accepted
  <2>1. ASSUME NEW s \in Senders, Publish(s) PROVE FALSE
    <3>1. receiverAlive /\ s \in live
      BY <1>1, <2>1 DEF Publish, LaneInv, RoomHeld, SendersCounted
    <3>2. Cardinality(live) = 0
      BY <1>1, <3>1 DEF LaneInv, ClosedKnown, SendersCounted
    <3>3. QED BY <1>1, <3>1, <3>2, FS_EmptySet DEF LaneInv, SendersCounted
  <2>2. QED
    BY <1>1, <2>1
       DEF MailboxNext, TrySend, RefuseWake, DropSender, FinishDrop, LockedWake, Clone, FreeWake,
           Drain, Close, Pop, PopFrom, EndPop, EndDrain, CloseDrain, EndClose, LockedAck,
           FreeObserve, mailboxVars, historyVars
<1>2. MailboxInv /\ LaneInv /\ [MailboxNext]_mailboxVars
        => [status = "closed" => UNCHANGED accepted]_mailboxVars
  BY <1>1
<1>3. QED
  BY MailboxInvariants, <1>2, PTL DEF MailboxSpec, ClosedIsFinal

\* The phases of a wake, seen through the refinement mapping: a caller only ever
\* raises the notification.
LEMMA WakeStepNotifies ==
  ASSUME MailboxInv, NEW t \in Callers, WakeStep(t), UNCHANGED <<queue, receiverAlive>>
  PROVE  Contract!Notify \/ UNCHANGED Contract!contractVars
<1>1. phase = "requested" => phase' = "requested"
  BY DEF MailboxInv, WakeInv, Exclusive, InFlight, WakeStep, Load, Claim, SourceOk, SourceErr,
         CompleteOk, StoreIdle, CompleteErr
<1>2. QED BY <1>1 DEF Contract!Notify, Contract!contractVars

\* An acknowledgement retires the notification, of lanes the owner has emptied or closed.
LEMMA LockedAckRetires ==
  ASSUME MailboxInv, LockedAck
  PROVE  Contract!Retire \/ UNCHANGED Contract!contractVars
<1>1. UNCHANGED <<queue, receiverAlive>> /\ ack # "out"
  BY DEF LockedAck, AckStep, AckLoad, AckCas, stateVars
<1>2. receiverAlive => Empty
  BY <1>1 DEF MailboxInv, LockInv, OwnerInv
<1>3. phase' = "requested" => phase = "requested"
  BY DEF LockedAck, AckStep, AckLoad, AckCas
<1>4. QED
  BY <1>1, <1>2, <1>3
     DEF Contract!Retire, Contract!contractVars, Contract!LaneNames, Empty, Lanes

\* An item is published only while its notification stands.
LEMMA PublishAccepts ==
  ASSUME MailboxInv, LaneInv, NEW s \in Senders, Publish(s)
  PROVE  \E l \in Contract!LaneNames, i \in Items : Contract!Accept(l, i)
<1>1. pc[s] = "send" /\ offer[s] \in Lanes \X Items /\ call[s] = "ok"
  BY DEF Publish, MailboxInv, LockInv
<1>2. PICK l \in Lanes, i \in Items : offer[s] = <<l, i>>
  BY <1>1
<1>3. phase = "requested" /\ receiverAlive /\ Len(queue[l]) < MessageLimit[l]
  BY <1>1, <1>2 DEF MailboxInv, HeldWake, LaneInv, RoomHeld
<1>4. /\ queue' = [queue EXCEPT ![l] = Append(@, i)]
      /\ UNCHANGED <<receiverAlive, phase>>
  BY <1>2 DEF Publish, ReturnWake
<1>5. Contract!Accept(l, i)
  BY <1>3, <1>4 DEF Contract!Accept
<1>6. QED BY <1>5 DEF Contract!LaneNames, Lanes

\* The owner takes the oldest item, control before work.
LEMMA PopTakes ==
  ASSUME MailboxInv, Pop
  PROVE  \E l \in Contract!LaneNames : Contract!Take(l)
<1> DEFINE l == ControlFirst
<1>1. l \in Lanes /\ queue[l] # <<>> /\ (l = "work" => queue["control"] = <<>>)
  BY DEF Pop, PopFrom, ControlFirst, Empty, Lanes, MailboxInv, MailboxTypeOK
<1>2. /\ queue' = [queue EXCEPT ![l] = Tail(@)]
      /\ UNCHANGED <<receiverAlive, phase>>
  BY DEF Pop, PopFrom, wakeVars
<1> HIDE DEF l
<1>3. Contract!Take(l)
  BY <1>1, <1>2 DEF Contract!Take
<1>4. QED BY <1>1, <1>3 DEF Contract!LaneNames, Lanes

\* The mailbox with its threads, lock and wake protocol implements the contract of
\* two bounded lanes and one notification, for any constants.
THEOREM MailboxImplementsContract == MailboxSpec => ImplementsContract
<1>1. MailboxInit => Contract!ContractInit
  BY DEF MailboxInit, WakeInit, Contract!ContractInit, Contract!LaneNames, Lanes
<1>2. MailboxInv /\ LaneInv /\ [MailboxNext]_mailboxVars
        => [Contract!ContractNext]_(Contract!contractVars)
  <2> SUFFICES ASSUME MailboxInv, LaneInv, [MailboxNext]_mailboxVars
               PROVE  Contract!ContractNext \/ UNCHANGED Contract!contractVars
    OBVIOUS
  <2>1. ASSUME NEW s \in Senders, Publish(s) PROVE Contract!ContractNext
    BY <2>1, PublishAccepts DEF Contract!ContractNext
  <2>2. CASE Pop
    BY <2>2, PopTakes DEF Contract!ContractNext
  <2>3. CASE LockedAck
    BY <2>3, LockedAckRetires DEF Contract!ContractNext
  <2>4. ASSUME NEW t \in Callers, WakeStep(t), UNCHANGED stateVars
        PROVE  Contract!ContractNext \/ UNCHANGED Contract!contractVars
    BY <2>4, WakeStepNotifies DEF Contract!ContractNext, stateVars
  <2>5. ASSUME NEW byDrop \in BOOLEAN, Close(byDrop)
        PROVE  Contract!ContractNext
    BY <2>5 DEF Close, AckBegin, Contract!ContractNext, Contract!Shut
  <2>6. CASE UNCHANGED <<queue, receiverAlive, phase>>
    BY <2>6 DEF Contract!contractVars
  <2>7. ASSUME NEW s \in Senders,
               \/ \E l \in Lanes, i \in Items : TrySend(s, l, i)
               \/ RefuseWake(s) \/ DropSender(s) \/ FinishDrop(s)
               \/ \E n \in Senders : Clone(s, n)
        PROVE  UNCHANGED <<queue, receiverAlive, phase>>
    BY <2>7 DEF TrySend, RefuseWake, DropSender, FinishDrop, Clone, BeginWake, ReturnWake, wakeVars
  <2>8. ASSUME NEW w \in Wakers, BeginWake(w) \/ ReturnWake(w), FreeWake(w)
        PROVE  UNCHANGED <<queue, receiverAlive, phase>>
    BY <2>8 DEF FreeWake, BeginWake, ReturnWake, stateVars
  <2>9. CASE \/ \E limit \in DrainLimits : Drain(limit)
             \/ EndPop \/ EndDrain \/ CloseDrain \/ EndClose \/ FreeObserve
             \/ UNCHANGED mailboxVars
    <3>1. UNCHANGED <<queue, receiverAlive, phase>>
      BY <2>9 DEF Drain, EndPop, EndDrain, CloseDrain, EndClose, FreeObserve, Observe, AckBegin,
                  AckReturn, wakeVars, stateVars, mailboxVars
    <3>2. QED BY <2>6, <3>1
  <2>10. QED
    BY <2>1, <2>2, <2>3, <2>4, <2>5, <2>6, <2>7, <2>8, <2>9, MailboxConstants
       DEF MailboxNext, LockedWake, FreeWake, Wakers
<1>3. QED
  BY MailboxInvariants, <1>1, <1>2, PTL
     DEF MailboxSpec, ImplementsContract, Contract!ContractSpec

---------------------------------------------------------------------------
(* The service of mailbox and reactor.                                      *)

\* The reactor's thread and its requesters touch nothing of the mailbox but the
\* token, on which its invariants do not depend.
LEMMA TokenOnlyKeeps ==
  ASSUME MailboxInv, LaneInv, UNCHANGED mailboxOnly, signal' \in BOOLEAN
  PROVE  (MailboxInv /\ LaneInv)'
<1> USE DEF mailboxOnly, lockVars, stateVars, historyVars, counterVars
<1>1. WakeInv'
  BY DEF MailboxInv, WakeInv, WakeTypeOK, NoWakePanic, Exclusive, Accounted, Covering,
         InFlight, InCall
<1>2. MailboxTypeOK' /\ OwnerInv'
  BY <1>1, OnlyWakeChanges
<1>3. (LockInv /\ HeldWake /\ NoStranded /\ LastDropSeen)'
  BY DEF MailboxInv, LockInv, HeldWake, InFlight, NoStranded, LastDropSeen, Empty
<1>4. LaneInv'
  BY OthersKeepLanes
<1>5. QED
  BY <1>1, <1>2, <1>3, <1>4 DEF MailboxInv

\* What the mailbox does for the duty and the senders keeps its own invariants.
LEMMA MailboxStepKeeps ==
  ASSUME MailboxInv, LaneInv, MailboxNext
  PROVE  (MailboxInv /\ LaneInv)'
  BY NextKeepsMailbox, NextKeepsLanes

\* A step that leaves the reactor alone keeps its types and how it ends.
LEMMA ReactorAloneKeeps ==
  ASSUME R!ReactorTypeOK, R!EndsTogether, UNCHANGED runVars, signal' \in BOOLEAN
  PROVE  (R!ReactorTypeOK /\ R!EndsTogether)'
  BY DEF R!ReactorTypeOK, R!EndsTogether, runVars

\* What the parts say of single variables.
LEMMA ServiceTypes ==
  ASSUME ServiceInv
  PROVE  /\ signal \in BOOLEAN /\ issued \in Nat
         /\ turnAt \in {"out", "drained", "closing"}
         /\ runner \in {"new", "check", "step", "turn", "observe", "recheck", "wait", "parked",
                        "stop", "terminate", "fail", "done"}
         /\ status \in {"none", "idle", "more_pending", "closed"}
  BY DEF ServiceInv, ServiceTypeOK, MailboxTypeOK, WakeTypeOK, R!ReactorTypeOK

\* The service begins with an empty mailbox and a reactor that has not run.
LEMMA ServiceInitInv == ServiceInit => ServiceInv
<1> SUFFICES ASSUME ServiceInit PROVE ServiceInv
  OBVIOUS
<1>1. MailboxInv /\ LaneInv
  BY MailboxInitInv, LaneInitInv DEF ServiceInit
<1>2. MailboxTypeOK /\ receiverAlive
  BY <1>1 DEF MailboxInv, ServiceInit, MailboxInit
<1>3. R!ReactorTypeOK
  <2>1. signal \in BOOLEAN
    BY <1>2 DEF MailboxTypeOK, WakeTypeOK
  <2>2. wakeError \in [Requesters -> BOOLEAN]
    BY DEF ServiceInit, R!ReactorInit
  <2>3. lateTurns \in 0 .. R!LateCap
    BY DEF ServiceInit, R!ReactorInit, R!LateCap
  <2>4. QED
    BY <2>1, <2>2, <2>3
       DEF ServiceInit, R!ReactorInit, R!ReactorTypeOK, R!HostPhases, R!Nexts
<1>4. ServiceTypeOK
  BY <1>2, <1>3 DEF ServiceInit, ServiceTypeOK
<1>5. R!EndsTogether
  BY DEF ServiceInit, R!ReactorInit, R!EndsTogether
<1>6. TurnInv
  BY <1>2 DEF ServiceInit, R!ReactorInit, TurnInv
<1>7. TokenHeld /\ RequestHeard
  BY DEF ServiceInit, R!ReactorInit, TokenHeld, Unconsumed, RequestHeard
<1>8. QED
  BY <1>1, <1>4, <1>5, <1>6, <1>7 DEF ServiceInv

---------------------------------------------------------------------------
(* The mailbox's side                                                      *)

\* A step of a caller or of the lock never makes the wakes of a request more
\* without leaving the token there.
LEMMA WakeLeavesToken ==
  ASSUME NEW t \in Callers, MailboxInv, BeginWake(t) \/ WakeStep(t) \/ ReturnWake(t)
  PROVE  /\ ack' = ack
         /\ (signal' = signal /\ issued' = issued) \/ signal' = TRUE
  BY DEF BeginWake, WakeStep, ReturnWake, Load, Claim, SourceOk, SourceErr, CompleteOk,
         StoreIdle, CompleteErr

\* A step of the mailbox that leaves the owner and the receiver alone keeps
\* everything that the service adds.
LEMMA SendersKeep ==
  ASSUME ServiceInv, MailboxNext, UNCHANGED <<runVars, turnVars>>,
         UNCHANGED <<owner, ack, status, receiverAlive>>,
         (signal' = signal /\ issued' = issued) \/ signal' = TRUE
  PROVE  ServiceInv'
<1>1. (MailboxInv /\ LaneInv)'
  BY MailboxStepKeeps DEF ServiceInv
<1>2. MailboxTypeOK' /\ signal' \in BOOLEAN
  BY <1>1 DEF MailboxInv, MailboxTypeOK, WakeTypeOK
<1>3. (R!ReactorTypeOK /\ R!EndsTogether)'
  BY <1>2, ReactorAloneKeeps DEF ServiceInv, ServiceTypeOK
<1>4. ServiceTypeOK'
  BY <1>2, <1>3 DEF ServiceInv, ServiceTypeOK, turnVars
<1>5. TurnInv'
  BY DEF ServiceInv, TurnInv, runVars, turnVars
<1>6. TokenHeld'
  BY DEF ServiceInv, TokenHeld, Unconsumed, runVars, turnVars
<1>7. RequestHeard'
  BY DEF ServiceInv, RequestHeard, runVars
<1>8. QED
  BY <1>1, <1>3, <1>4, <1>5, <1>6, <1>7 DEF ServiceInv

\* try_send, clones and drops of senders, up to and inside their wakes.
LEMMA SenderKeeps ==
  ASSUME ServiceInv, NEW s \in Senders, SenderCall(s) \/ SenderStep(s)
  PROVE  ServiceInv'
<1>1. s \in Callers /\ MailboxInv
  BY MailboxConstants DEF ServiceInv
<1>2. MailboxNext /\ UNCHANGED <<runVars, turnVars>>
  BY DEF SenderCall, SenderStep, MailboxNext
<1>3. UNCHANGED <<owner, status, receiverAlive>>
  BY DEF SenderCall, SenderStep, TrySend, DropSender, Clone, Publish, RefuseWake, FinishDrop,
         LockedWake, lockVars, stateVars
<1>4. \/ BeginWake(s) \/ WakeStep(s) \/ ReturnWake(s)
      \/ UNCHANGED wakeVars
  BY DEF SenderCall, SenderStep, TrySend, DropSender, Clone, Publish, RefuseWake, FinishDrop,
         LockedWake
<1>5. ack' = ack /\ ((signal' = signal /\ issued' = issued) \/ signal' = TRUE)
  BY <1>1, <1>4, WakeLeavesToken DEF wakeVars
<1>6. QED
  BY <1>2, <1>3, <1>5, SendersKeep

\* The critical sections of drain_into and close: the owner acknowledges before it
\* answers that nothing is left.
LEMMA ReceiverStepKeeps ==
  ASSUME ServiceInv, ReceiverStep
  PROVE  ServiceInv'
<1>1. MailboxNext /\ UNCHANGED <<runVars, turnVars>>
  BY DEF ReceiverStep, MailboxNext
<1>2. CASE Pop
  <2>1. /\ UNCHANGED <<owner, ack, status, receiverAlive>>
        /\ signal' = signal /\ issued' = issued
    BY <1>2 DEF Pop, PopFrom, wakeVars
  <2>2. QED
    BY <2>1, <1>1, SendersKeep
<1>3. CASE EndPop \/ EndDrain \/ CloseDrain \/ EndClose \/ LockedAck
  <2>1. (MailboxInv /\ LaneInv)'
    BY <1>1, MailboxStepKeeps DEF ServiceInv
  <2>2. MailboxTypeOK' /\ signal' \in BOOLEAN
    BY <2>1 DEF MailboxInv, MailboxTypeOK, WakeTypeOK
  <2>3. (R!ReactorTypeOK /\ R!EndsTogether)'
    BY <1>1, <2>2, ReactorAloneKeeps DEF ServiceInv, ServiceTypeOK
  <2>4. ServiceTypeOK'
    BY <1>1, <2>2, <2>3 DEF ServiceInv, ServiceTypeOK, turnVars
  <2>5. signal' = signal /\ receiverAlive' = receiverAlive
    BY <1>3 DEF EndPop, EndDrain, CloseDrain, EndClose, LockedAck, AckBegin, AckReturn, AckStep,
                AckLoad, AckCas, wakeVars, stateVars
  <2>6. TurnInv' /\ TokenHeld'
    <3> USE <1>1, <2>5 DEF ServiceInv, TurnInv, TokenHeld, Unconsumed, runVars, turnVars
    <3>1. CASE EndPop
      BY <3>1 DEF EndPop, AckBegin, wakeVars
    <3>2. CASE EndDrain
      BY <3>2 DEF EndDrain, AckReturn
    <3>3. CASE CloseDrain
      BY <3>3 DEF CloseDrain, AckReturn, stateVars
    <3>4. CASE EndClose
      <4>1. ~receiverAlive /\ owner' = "idle" /\ UNCHANGED <<wakeVars, status>>
        BY <3>4 DEF EndClose, stateVars, MailboxInv, OwnerInv
      <4>2. turnAt # "drained"
        BY <4>1
      <4>3. QED
        BY <4>1, <4>2 DEF wakeVars
    <3>5. CASE LockedAck
      <4>1. UNCHANGED <<owner, status>> /\ (ack' = "done" => issued' = 0)
            /\ (issued' = issued \/ issued' = 0)
        BY <3>5 DEF LockedAck, AckStep, AckLoad, AckCas, lockVars, stateVars
      <4>2. QED
        BY <4>1
    <3>6. QED
      BY <1>3, <3>1, <3>2, <3>3, <3>4, <3>5
  <2>7. RequestHeard'
    BY <1>1, <2>5 DEF ServiceInv, RequestHeard, runVars
  <2>8. QED
    BY <2>1, <2>3, <2>4, <2>6, <2>7 DEF ServiceInv
<1>4. QED
  BY <1>2, <1>3 DEF ReceiverStep

\* The receiver of a reactor that is done is dropped.
LEMMA DropReceiverKeeps ==
  ASSUME ServiceInv, DropReceiver
  PROVE  ServiceInv'
<1>1. MailboxNext /\ UNCHANGED <<runVars, turnVars>> /\ runner = "done"
  BY DEF DropReceiver, MailboxNext
<1>2. (MailboxInv /\ LaneInv)'
  BY <1>1, MailboxStepKeeps DEF ServiceInv
<1>3. MailboxTypeOK' /\ signal' \in BOOLEAN
  BY <1>2 DEF MailboxInv, MailboxTypeOK, WakeTypeOK
<1>4. (R!ReactorTypeOK /\ R!EndsTogether)'
  BY <1>1, <1>3, ReactorAloneKeeps DEF ServiceInv, ServiceTypeOK
<1>5. ServiceTypeOK'
  BY <1>1, <1>3, <1>4 DEF ServiceInv, ServiceTypeOK, turnVars
<1>6. TurnInv' /\ TokenHeld' /\ RequestHeard'
  BY <1>1 DEF ServiceInv, TurnInv, TokenHeld, Unconsumed, RequestHeard, runVars, turnVars
<1>7. QED
  BY <1>2, <1>4, <1>5, <1>6 DEF ServiceInv

---------------------------------------------------------------------------
(* The duty                                                                *)

\* A turn begins with a drain, of which nothing is known yet.
LEMMA BeginTurnKeeps ==
  ASSUME ServiceInv, NEW limit \in DrainLimits, BeginTurn(limit)
  PROVE  ServiceInv'
<1>1. MailboxNext /\ UNCHANGED <<runVars, seen>> /\ runner = "turn"
  BY DEF BeginTurn, MailboxNext
<1>2. (MailboxInv /\ LaneInv)'
  BY <1>1, MailboxStepKeeps DEF ServiceInv
<1>3. MailboxTypeOK' /\ signal' \in BOOLEAN
  BY <1>2 DEF MailboxInv, MailboxTypeOK, WakeTypeOK
<1>4. (R!ReactorTypeOK /\ R!EndsTogether)'
  BY <1>1, <1>3, ReactorAloneKeeps DEF ServiceInv, ServiceTypeOK
<1>5. ServiceTypeOK'
  BY <1>1, <1>3, <1>4 DEF ServiceInv, ServiceTypeOK, BeginTurn
<1>6. turnAt' = "drained" /\ owner' = "pop" /\ receiverAlive' = receiverAlive /\ turnAt = "out"
  BY DEF BeginTurn, Drain, stateVars
<1>7. TurnInv' /\ TokenHeld' /\ RequestHeard'
  BY <1>1, <1>6 DEF ServiceInv, TurnInv, TokenHeld, Unconsumed, RequestHeard, runVars
<1>8. QED
  BY <1>2, <1>4, <1>5, <1>7 DEF ServiceInv

\* What the duty answers, given what its drain answered.
LEMMA EndTurnKeeps ==
  ASSUME ServiceInv, NEW stopping \in BOOLEAN, EndTurnWith(stopping), owner = "idle",
         turnAt = IF stopping THEN "closing" ELSE "drained"
  PROVE  ServiceInv'
<1>1. /\ UNCHANGED mailboxOnly /\ signal' = signal
      /\ runner = "turn" /\ runner' = "observe" /\ next' = NextFor(stopping)
      /\ turnAt' = "out" /\ seen' = [l \in Lanes |-> Len(removed[l])]
      /\ UNCHANGED <<control, hostPhase, outcome, request, told, wakeError, lateTurns>>
  BY DEF EndTurnWith, R!EndTurn, R!requesterVars
<1>2. (MailboxInv /\ LaneInv)'
  BY <1>1, TokenOnlyKeeps, ServiceTypes DEF ServiceInv
<1>3. MailboxTypeOK' /\ signal' \in BOOLEAN
  BY <1>2 DEF MailboxInv, MailboxTypeOK, WakeTypeOK
<1>4. NextFor(stopping) \in {"now", "wake", "stop"}
  BY DEF NextFor
<1>5. (R!ReactorTypeOK /\ R!EndsTogether)'
  BY <1>1, <1>3, <1>4 DEF ServiceInv, ServiceTypeOK, R!ReactorTypeOK, R!EndsTogether, R!Nexts
<1>6. ServiceTypeOK'
  <2>1. seen' \in [Lanes -> Nat]
    BY <1>1 DEF ServiceInv, ServiceTypeOK, MailboxTypeOK
  <2>2. QED
    BY <2>1, <1>1, <1>3, <1>5 DEF ServiceTypeOK
<1>7. TurnInv' /\ TokenHeld'
  <2> USE <1>1 DEF ServiceInv, TurnInv, TokenHeld, Unconsumed, NextFor, mailboxOnly, stateVars,
                   lockVars
  <2>1. CASE stopping
    <3>1. next' = "stop"
      BY <2>1
    <3>2. QED
      BY <3>1
  <2>2. CASE ~stopping
    <3>1. status \in {"idle", "more_pending", "closed"}
      BY <2>2, ServiceTypes
    <3>2. next' = "wake" => status = "idle"
      BY <2>2, <3>1
    <3>3. receiverAlive
      BY <2>2
    <3>4. next' \in {"now", "wake", "stop"}
      BY <1>4
    <3>5. QED
      BY <2>2, <3>2, <3>3, <3>4
  <2>3. QED
    BY <2>1, <2>2
<1>8. RequestHeard'
  BY <1>1 DEF RequestHeard
<1>9. QED
  BY <1>2, <1>5, <1>6, <1>7, <1>8 DEF ServiceInv

\* The duty found Command::Stop and closes the mailbox.
LEMMA CloseForStopKeeps ==
  ASSUME ServiceInv, turnAt = "drained", Close(FALSE), turnAt' = "closing",
         UNCHANGED <<runVars, seen>>
  PROVE  ServiceInv'
<1>1. MailboxNext
  BY DEF MailboxNext
<1>2. (MailboxInv /\ LaneInv)'
  BY <1>1, MailboxStepKeeps DEF ServiceInv
<1>3. MailboxTypeOK' /\ signal' \in BOOLEAN
  BY <1>2 DEF MailboxInv, MailboxTypeOK, WakeTypeOK
<1>4. (R!ReactorTypeOK /\ R!EndsTogether)'
  BY <1>3, ReactorAloneKeeps DEF ServiceInv, ServiceTypeOK
<1>5. ServiceTypeOK'
  BY <1>3, <1>4 DEF ServiceInv, ServiceTypeOK
<1>6. owner' = "close_ack" /\ runner = "turn"
  BY DEF Close, ServiceInv, TurnInv
<1>7. TurnInv' /\ TokenHeld' /\ RequestHeard'
  BY <1>6 DEF ServiceInv, TurnInv, TokenHeld, Unconsumed, RequestHeard, runVars
<1>8. QED
  BY <1>2, <1>4, <1>5, <1>7 DEF ServiceInv

\* Every step of ChecksumShard::turn.
LEMMA DutyKeeps ==
  ASSUME ServiceInv, DutyStep
  PROVE  ServiceInv'
<1>1. ASSUME NEW limit \in DrainLimits, BeginTurn(limit) PROVE ServiceInv'
  BY <1>1, BeginTurnKeeps
<1>2. CASE ReceiverStep
  BY <1>2, ReceiverStepKeeps
<1>3. CASE ApplyDrained
  BY <1>3, EndTurnKeeps, CloseForStopKeeps DEF ApplyDrained
<1>4. CASE ApplyClosed
  <2>1. EndTurnWith(TRUE) /\ turnAt = "closing" /\ owner = "idle" /\ TRUE \in BOOLEAN
    BY <1>4 DEF ApplyClosed
  <2>2. QED
    BY <2>1, EndTurnKeeps
<1>5. QED
  BY <1>1, <1>2, <1>3, <1>4 DEF DutyStep

---------------------------------------------------------------------------
(* The reactor's side                                                      *)

\* What is left to show of a step that touches only the reactor and the token.
LEMMA ReactorSideKeeps ==
  ASSUME ServiceInv, UNCHANGED <<mailboxOnly, turnVars>>, R!ReactorTypeOK', R!EndsTogether',
         TurnInv', TokenHeld', RequestHeard'
  PROVE  ServiceInv'
<1>1. signal' \in BOOLEAN
  BY DEF R!ReactorTypeOK
<1>2. (MailboxInv /\ LaneInv)'
  BY <1>1, TokenOnlyKeeps DEF ServiceInv
<1>3. ServiceTypeOK'
  BY <1>2 DEF ServiceInv, ServiceTypeOK, MailboxInv, turnVars
<1>4. QED
  BY <1>2, <1>3 DEF ServiceInv

\* The loop consumes the token only when it goes on to a new step, and waits only
\* after a turn that asked for a wake.
LEMMA LoopKeeps ==
  ASSUME ServiceInv, LoopStep \/ OtherRunStep \/ NotifiedStep
  PROVE  ServiceInv'
<1> USE DEF ServiceInv, ServiceTypeOK
<1>1. /\ UNCHANGED <<mailboxOnly, turnVars>>
      /\ \/ R!CheckTermination \/ R!BeginStep \/ R!Recheck \/ R!EnterWait
         \/ \E remaining \in {0, 1} : R!EndStep(remaining)
         \/ R!FinishStop \/ R!FinishTerminate \/ R!FinishFail
         \/ R!Run \/ R!DropUnrun \/ R!TimedOut \/ R!Notified
  BY DEF LoopStep, OtherRunStep, NotifiedStep
<1>2. UNCHANGED <<owner, ack, status, issued, receiverAlive, turnAt>>
  BY <1>1 DEF mailboxOnly, lockVars, stateVars, turnVars
<1> DEFINE Kept == /\ R!ReactorTypeOK' /\ R!EndsTogether'
                   /\ TurnInv' /\ TokenHeld' /\ RequestHeard'
<1>3. ASSUME R!BeginStep PROVE lateTurns' \in 0 .. R!LateCap
  <2>1. lateTurns \in 0 .. 2
    BY DEF R!ReactorTypeOK, R!LateCap
  <2>2. \/ lateTurns' = lateTurns
        \/ lateTurns < 2 /\ lateTurns' = lateTurns + 1
    BY <1>3 DEF R!BeginStep, R!LateCap
  <2>3. QED
    BY <2>1, <2>2 DEF R!LateCap
<1>4. Kept
  <2> USE <1>2 DEF R!ReactorTypeOK, R!EndsTogether, TurnInv, TokenHeld, Unconsumed, RequestHeard,
                   R!HostPhases, R!Nexts, R!requesterVars, R!Outcomes, R!Exit, R!Fail
  <2>1. CASE R!CheckTermination
    BY <2>1 DEF R!CheckTermination
  <2>2. CASE R!BeginStep
    <3>1. R!ReactorTypeOK' /\ R!EndsTogether'
      BY <2>2, <1>3 DEF R!BeginStep
    <3>2. TurnInv' /\ TokenHeld' /\ RequestHeard'
      BY <2>2 DEF R!BeginStep
    <3>3. QED
      BY <3>1, <3>2
  <2>3. CASE R!Recheck
    BY <2>3 DEF R!Recheck
  <2>4. CASE R!EnterWait
    BY <2>4 DEF R!EnterWait
  <2>5. ASSUME NEW remaining \in {0, 1}, R!EndStep(remaining) PROVE Kept
    BY <2>5 DEF R!EndStep, R!ActionFor, R!FromWait
  <2>6. CASE R!FinishStop
    BY <2>6 DEF R!FinishStop
  <2>7. CASE R!FinishTerminate
    BY <2>7 DEF R!FinishTerminate
  <2>8. CASE R!FinishFail
    BY <2>8 DEF R!FinishFail
  <2>9. CASE R!Run
    BY <2>9 DEF R!Run
  <2>10. CASE R!DropUnrun
    BY <2>10 DEF R!DropUnrun
  <2>11. CASE R!TimedOut
    BY <2>11 DEF R!TimedOut
  <2>12. CASE R!Notified
    BY <2>12 DEF R!Notified
  <2>13. QED
    BY <1>1, <2>1, <2>2, <2>3, <2>4, <2>5, <2>6, <2>7, <2>8, <2>9, <2>10, <2>11, <2>12
<1>5. QED
  BY <1>1, <1>4, ReactorSideKeeps

\* A request is published, and then announced or refused by the backend.
LEMMA RequestKeeps ==
  ASSUME ServiceInv, NEW t \in Requesters, RequestStep(t)
  PROVE  ServiceInv'
<1> USE DEF ServiceInv, ServiceTypeOK
<1>1. UNCHANGED <<owner, ack, status, issued, receiverAlive, turnAt>>
  BY DEF RequestStep, mailboxOnly, lockVars, stateVars, turnVars
<1>2. R!ReactorTypeOK' /\ R!EndsTogether'
  <2>1. CASE R!PublishTermination(t)
    BY <2>1 DEF R!PublishTermination, R!ReactorTypeOK, R!EndsTogether, R!TerminationStatuses
  <2>2. CASE R!CompleteTermination(t)
    <3>1. wakeError' \in [Requesters -> BOOLEAN] /\ signal' \in BOOLEAN
      BY <2>2 DEF R!CompleteTermination, R!ReactorTypeOK
    <3>2. QED
      BY <2>2, <3>1 DEF R!CompleteTermination, R!ReactorTypeOK, R!EndsTogether
  <2>3. QED
    BY <2>1, <2>2 DEF RequestStep
<1>3. TurnInv' /\ TokenHeld'
  BY <1>1 DEF RequestStep, R!PublishTermination, R!CompleteTermination, TurnInv, TokenHeld,
              Unconsumed
<1>4. RequestHeard'
  <2>1. CASE R!PublishTermination(t)
    BY <2>1 DEF R!PublishTermination, RequestHeard, R!ReactorTypeOK
  <2>2. CASE R!CompleteTermination(t)
    <3>1. signal' = TRUE \/ wakeError'[t]
      BY <2>2 DEF R!CompleteTermination, R!ReactorTypeOK
    <3>2. QED
      BY <2>2, <3>1 DEF R!CompleteTermination, RequestHeard
  <2>3. QED
    BY <2>1, <2>2 DEF RequestStep
<1>5. QED
  BY <1>2, <1>3, <1>4, ReactorSideKeeps DEF RequestStep

---------------------------------------------------------------------------

\* The inductive invariant holds in every state of the service.
LEMMA ServiceAlways == ServiceSpec => []ServiceInv
<1>1. ServiceInv /\ [ServiceNext]_serviceVars => ServiceInv'
  <2> SUFFICES ASSUME ServiceInv, [ServiceNext]_serviceVars PROVE ServiceInv'
    OBVIOUS
  <2>1. CASE ServiceNext
    BY <2>1, DutyKeeps, LoopKeeps, DropReceiverKeeps, RequestKeeps, SenderKeeps DEF ServiceNext
  <2>2. CASE UNCHANGED serviceVars
    <3>1. UNCHANGED <<mailboxOnly, turnVars>> /\ UNCHANGED runVars /\ signal' = signal
      BY <2>2 DEF serviceVars, mailboxVars, mailboxOnly, wakeVars
    <3>2. R!ReactorTypeOK' /\ R!EndsTogether'
      BY <3>1, ReactorAloneKeeps, ServiceTypes DEF ServiceInv, ServiceTypeOK
    <3>3. TurnInv' /\ TokenHeld' /\ RequestHeard'
      BY <3>1 DEF ServiceInv, TurnInv, TokenHeld, Unconsumed, RequestHeard, mailboxOnly, turnVars,
                  runVars, lockVars, stateVars
    <3>4. QED
      BY <3>1, <3>2, <3>3, ReactorSideKeeps
  <2>3. QED
    BY <2>1, <2>2
<1>2. QED
  BY ServiceInitInv, <1>1, PTL DEF ServiceSpec

\* No lost wake-up, for any number of senders and requesters: a reactor that parks
\* on the token it shares with its mailbox, and finds none, has empty lanes, and
\* no termination but one whose requester is about to announce it or could not.
THEOREM ServiceSafety == ServiceSpec => []ServiceSafe
<1>1. ServiceInv => ServiceSafe
  <2> SUFFICES ASSUME ServiceInv, runner = "parked", ~signal
               PROVE  /\ Empty
                      /\ \/ control = "running"
                         \/ \E t \in Requesters : request[t] = "wake" \/ wakeError[t]
    BY DEF ServiceInv, ServiceSafe, ParkedIsQuiet
  <2>1. next = "wake" /\ receiverAlive
    <3>1. runner # "turn" /\ runner # "observe" /\ runner \notin {"stop", "fail", "done"}
      OBVIOUS
    <3>2. QED
      BY <3>1 DEF ServiceInv, TurnInv
  <2>2. ~(issued > 0)
    BY <2>1 DEF ServiceInv, TokenHeld, Unconsumed
  <2>3. phase # "requested"
    BY <2>2 DEF ServiceInv, MailboxInv, WakeInv, Accounted
  <2>4. Empty
    BY <2>1, <2>3 DEF ServiceInv, MailboxInv, NoStranded
  <2>5. control # "exited"
    BY DEF ServiceInv, R!EndsTogether
  <2>6. control = "requested" => \E t \in Requesters : request[t] = "wake" \/ wakeError[t]
    BY DEF ServiceInv, RequestHeard
  <2>7. control \in {"running", "requested", "exited"}
    BY DEF ServiceInv, ServiceTypeOK, R!ReactorTypeOK
  <2>8. QED
    BY <2>4, <2>5, <2>6, <2>7
<1>2. QED
  BY <1>1, ServiceAlways, PTL

\* The mailbox keeps its own promises under a reactor that serves it.
THEOREM ServedMailboxIsSafe == ServiceSpec => [](MailboxSafe /\ OkIsSignalled)
<1>1. ServiceInv => MailboxSafe /\ OkIsSignalled
  BY WakeInvImplies DEF ServiceInv, MailboxSafe, MailboxInv, LaneInv
<1>2. QED
  BY <1>1, ServiceAlways, PTL

=============================================================================
