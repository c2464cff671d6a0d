------------------------------ MODULE Mailbox ------------------------------
(***************************************************************************)
(* The bounded two-lane mailbox (crates/calandria/src/mailbox): cloneable  *)
(* producers, one consuming owner, and the WakeHandle by which producers   *)
(* announce work.                                                          *)
(*                                                                         *)
(* The state mutex is held across wake() and acknowledge().  A producer    *)
(* that holds it has pc # "idle", the owner has owner # "idle"; everything *)
(* that a critical section does without touching the wake phase is one     *)
(* action, and each atomic access to the phase is one of WakeHandle's.     *)
(* Wakers hold clones of the wake handle (MailboxReceiver::wake_handle) and*)
(* call wake() without the mutex.                                          *)
(***************************************************************************)
EXTENDS WakeHandle, Integers, Sequences, FiniteSets

CONSTANTS
  Senders,        \* MailboxSender handles, one thread each
  Items,          \* the values producers own
  Bytes,          \* Bytes[i]: RetainedBytes of item i
  MessageLimit,   \* MessageLimit[l], ByteLimit[l]: MailboxLimits
  ByteLimit,
  DrainLimits,    \* the limits the owner passes to drain_into
  MaxCalls        \* bound on try_send calls

Lanes == {"control", "work"}

ASSUME MailboxConstants ==
  /\ Senders \subseteq Callers
  /\ Senders # {}
  /\ Bytes \in [Items -> Nat]
  /\ MessageLimit \in [Lanes -> Nat \ {0}]
  /\ ByteLimit \in [Lanes -> Nat]
  /\ DrainLimits \subseteq Nat \ {0}
  /\ MaxCalls \in Nat

Wakers == Callers \ Senders

VARIABLES
  queue,          \* queue[l]: State.{control,work}.queue
  retained,       \* retained[l]: State.{control,work}.retained
  receiverAlive,  \* State.receiver_alive
  senders,        \* State.senders
  rejections,     \* rejections[l]: LaneCounters.{messages,bytes}
  closedCount,    \* Counters.closed
  wakeFailures,   \* Counters.wake_failures
  live,           \* the handles that exist
  pc,             \* pc[s]: idle, or the critical section s is in: send, drop
  offer,          \* offer[s]: <<lane, item>> of the try_send in progress, or <<>>
  owner,          \* idle, or the owner's critical section: pop, ack, close_ack, close_pop
  budget,         \* how many more items drain_into may take
  status,         \* the last DrainStatus
  receiverGone,   \* the MailboxReceiver was dropped
  calls,          \* history: try_send calls
  failedDrops,    \* history: last-sender drops whose wake failed
  accepted,       \* history: accepted[l], the items try_send answered Ok for, in order
  removed         \* history: removed[l], the items that left the lane, in order

counterVars == <<rejections, closedCount, wakeFailures>>
lockVars == <<pc, offer, owner, budget>>
stateVars == <<queue, retained, receiverAlive, senders, counterVars, live, status, receiverGone>>
historyVars == <<calls, failedDrops, accepted, removed>>
mailboxVars == <<wakeVars, lockVars, stateVars, historyVars>>

Empty == \A l \in Lanes : queue[l] = <<>>

\* The state mutex is free.
Unlocked == owner = "idle" /\ \A s \in Senders : pc[s] = "idle"

Offered == {offer[s][2] : s \in {u \in Senders : pc[u] = "send"}}
Elements(seq) == {seq[n] : n \in DOMAIN seq}

\* The items producers own: never accepted, and not inside a call.
Held == {i \in Items \ Offered : \A l \in Lanes : i \notin Elements(accepted[l])}

\* mailbox(): one sender, both lanes empty.
MailboxInit ==
  /\ WakeInit
  /\ queue = [l \in Lanes |-> <<>>]
  /\ retained = [l \in Lanes |-> 0]
  /\ receiverAlive = TRUE
  /\ senders = 1
  /\ rejections = [l \in Lanes |-> [why \in {"messages", "bytes"} |-> 0]]
  /\ closedCount = 0
  /\ wakeFailures = 0
  /\ \E s \in Senders : live = {s}
  /\ pc = [s \in Senders |-> "idle"]
  /\ offer = [s \in Senders |-> <<>>]
  /\ owner = "idle"
  /\ budget = 0
  /\ status = "none"
  /\ receiverGone = FALSE
  /\ calls = 0
  /\ failedDrops = 0
  /\ accepted = [l \in Lanes |-> <<>>]
  /\ removed = [l \in Lanes |-> <<>>]

---------------------------------------------------------------------------
\* One turn of the drain_into loop: `taken` leaves lane l, `rest` stays.
PopFrom(l, taken, rest, bytes) ==
  /\ owner \in {"pop", "close_pop"}
  /\ budget > 0
  /\ ~Empty
  /\ queue' = [queue EXCEPT ![l] = rest]
  /\ retained' = [retained EXCEPT ![l] = @ - bytes]
  /\ removed' = [removed EXCEPT ![l] = Append(@, taken)]
  /\ budget' = budget - 1
  /\ UNCHANGED <<wakeVars, pc, offer, owner, receiverAlive, senders, counterVars, live,
                 status, receiverGone, calls, failedDrops, accepted>>

ControlFirst == IF queue["control"] # <<>> THEN "control" ELSE "work"

---------------------------------------------------------------------------
(* Plausible mistakes in this code, substituted one at a time for the      *)
(* definition they are named after to show that the properties notice.     *)

\* The byte limit is held against the total without the new item.
RefusalOldTotal(l, i) ==
  CASE ~receiverAlive -> "closed"
    [] receiverAlive /\ Len(queue[l]) >= MessageLimit[l] -> "messages"
    [] receiverAlive /\ Len(queue[l]) < MessageLimit[l] /\ retained[l] > ByteLimit[l] -> "bytes"
    [] OTHER -> "none"

WorkFirst == IF queue["work"] # <<>> THEN "work" ELSE "control"

\* Work overtakes control.
PopWorkFirst ==
  PopFrom(WorkFirst, Head(queue[WorkFirst]), Tail(queue[WorkFirst]), Bytes[Head(queue[WorkFirst])])

\* The owner acknowledges whatever it left in the lanes.
EndPopAcknowledges ==
  /\ owner = "pop"
  /\ budget = 0 \/ Empty
  /\ owner' = "ack"
  /\ AckBegin
  /\ budget' = 0
  /\ UNCHANGED <<pc, offer, stateVars, historyVars>>

\* The budget is one short: `< limit` became `< limit - 1`.
DrainOffByOne(limit) ==
  /\ Unlocked
  /\ ~receiverGone
  /\ owner' = "pop"
  /\ budget' = limit - 1
  /\ UNCHANGED <<wakeVars, pc, offer, stateVars, historyVars>>

EndDrainWith(closed) ==
  /\ owner = "ack"
  /\ AckReturn
  /\ owner' = "idle"
  /\ status' = IF closed THEN "closed" ELSE "idle"
  /\ UNCHANGED <<pc, offer, budget, queue, retained, receiverAlive, senders, counterVars, live,
                 receiverGone, historyVars>>
\* The last sender is taken for gone, or its departure overlooked.
EndDrainClosesEarly == EndDrainWith(~receiverAlive \/ senders <= 1)
EndDrainForgetsSenders == EndDrainWith(~receiverAlive)

---------------------------------------------------------------------------
(* MailboxSender                                                           *)

\* Why try_send_materialized turns item i away from lane l, in the order of its
\* checks.  An overflowing checked_add exceeds every limit, and is told and
\* counted as one that does.
Refusal(l, i) ==
  CASE ~receiverAlive -> "closed"
    [] receiverAlive /\ Len(queue[l]) >= MessageLimit[l] -> "messages"
    [] receiverAlive /\ Len(queue[l]) < MessageLimit[l]
         /\ retained[l] + Bytes[i] > ByteLimit[l] -> "bytes"
    [] OTHER -> "none"

CountRefusal(why, l) ==
  IF why = "closed"
  THEN closedCount' = closedCount + 1 /\ UNCHANGED rejections
  ELSE rejections' = [rejections EXCEPT ![l][why] = @ + 1] /\ UNCHANGED closedCount

\* try_send_materialized up to wake(): lock, and either refuse or keep the lock.
TrySend(s, l, i) ==
  /\ Unlocked
  /\ s \in live
  /\ i \in Held
  /\ calls < MaxCalls
  /\ calls' = calls + 1
  /\ \/ /\ Refusal(l, i) # "none"
        /\ CountRefusal(Refusal(l, i), l)
        /\ UNCHANGED <<wakeVars, pc, offer>>
     \/ /\ Refusal(l, i) = "none"
        /\ pc' = [pc EXCEPT ![s] = "send"]
        /\ offer' = [offer EXCEPT ![s] = <<l, i>>]
        /\ BeginWake(s)
        /\ UNCHANGED <<rejections, closedCount>>
  /\ UNCHANGED <<owner, budget, queue, retained, receiverAlive, senders, wakeFailures, live,
                 status, receiverGone, failedDrops, accepted, removed>>

\* wake() was Ok: materialize, admit, unlock.
Publish(s) ==
  LET l == offer[s][1]
      i == offer[s][2]
  IN  /\ pc[s] = "send"
      /\ call[s] = "ok"
      /\ ReturnWake(s)
      /\ queue' = [queue EXCEPT ![l] = Append(@, i)]
      /\ retained' = [retained EXCEPT ![l] = @ + Bytes[i]]
      /\ accepted' = [accepted EXCEPT ![l] = Append(@, i)]
      /\ pc' = [pc EXCEPT ![s] = "idle"]
      /\ offer' = [offer EXCEPT ![s] = <<>>]
      /\ UNCHANGED <<owner, budget, receiverAlive, senders, counterVars, live, status,
                     receiverGone, calls, failedDrops, removed>>

\* wake() failed: the owner gets its value back.
RefuseWake(s) ==
  /\ pc[s] = "send"
  /\ call[s] = "err"
  /\ ReturnWake(s)
  /\ wakeFailures' = wakeFailures + 1
  /\ pc' = [pc EXCEPT ![s] = "idle"]
  /\ offer' = [offer EXCEPT ![s] = <<>>]
  /\ UNCHANGED <<owner, budget, queue, retained, receiverAlive, senders, rejections,
                 closedCount, live, status, receiverGone, historyVars>>

Clone(s, n) ==
  /\ Unlocked
  /\ s \in live
  /\ n \in Senders \ live
  /\ senders' = senders + 1
  /\ live' = live \cup {n}
  /\ UNCHANGED <<wakeVars, lockVars, queue, retained, receiverAlive, counterVars, status,
                 receiverGone, historyVars>>

\* Drop: the last sender of a live receiver wakes the owner before it goes.
DropSender(s) ==
  /\ Unlocked
  /\ s \in live
  /\ IF senders = 1 /\ receiverAlive
     THEN /\ pc' = [pc EXCEPT ![s] = "drop"]
          /\ BeginWake(s)
          /\ UNCHANGED <<senders, live>>
     ELSE /\ senders' = IF senders = 0 THEN 0 ELSE senders - 1
          /\ live' = live \ {s}
          /\ UNCHANGED <<wakeVars, pc>>
  /\ UNCHANGED <<offer, owner, budget, queue, retained, receiverAlive, counterVars, status,
                 receiverGone, historyVars>>

FinishDrop(s) ==
  /\ pc[s] = "drop"
  /\ call[s] \in {"ok", "err"}
  /\ ReturnWake(s)
  /\ \/ /\ call[s] = "ok"
        /\ UNCHANGED <<wakeFailures, failedDrops>>
     \/ /\ call[s] = "err"
        /\ wakeFailures' = wakeFailures + 1
        /\ failedDrops' = failedDrops + 1
  /\ senders' = senders - 1
  /\ live' = live \ {s}
  /\ pc' = [pc EXCEPT ![s] = "idle"]
  /\ UNCHANGED <<offer, owner, budget, queue, retained, receiverAlive, rejections,
                 closedCount, status, receiverGone, calls, accepted, removed>>

---------------------------------------------------------------------------
(* MailboxReceiver                                                         *)

\* drain_into(limit): lock, then take control before work, one item at a time.
Drain(limit) ==
  /\ Unlocked
  /\ ~receiverGone
  /\ owner' = "pop"
  /\ budget' = limit
  /\ UNCHANGED <<wakeVars, pc, offer, stateVars, historyVars>>

Pop ==
  LET q == queue[ControlFirst]
  IN  PopFrom(ControlFirst, Head(q), Tail(q), Bytes[Head(q)])

\* Only an owner that emptied both lanes acknowledges, still under the lock.
EndPop ==
  /\ owner = "pop"
  /\ \/ /\ Empty
        /\ owner' = "ack"
        /\ AckBegin
        /\ UNCHANGED status
     \/ /\ budget = 0 /\ ~Empty
        /\ owner' = "idle"
        /\ status' = "more_pending"
        /\ UNCHANGED wakeVars
  /\ budget' = 0
  /\ UNCHANGED <<pc, offer, queue, retained, receiverAlive, senders, counterVars, live,
                 receiverGone, historyVars>>

EndDrain ==
  /\ owner = "ack"
  /\ AckReturn
  /\ owner' = "idle"
  /\ status' = IF ~receiverAlive \/ senders = 0 THEN "closed" ELSE "idle"
  /\ UNCHANGED <<pc, offer, budget, queue, retained, receiverAlive, senders, counterVars, live,
                 receiverGone, historyVars>>

\* close_inner, from close() or from Drop (after which the receiver is gone):
\* close admission, acknowledge, then take everything.
Close(byDrop) ==
  /\ Unlocked
  /\ ~receiverGone
  /\ receiverAlive' = FALSE
  /\ receiverGone' = byDrop
  /\ owner' = "close_ack"
  /\ AckBegin
  /\ UNCHANGED <<pc, offer, budget, queue, retained, senders, counterVars, live, status,
                 historyVars>>

CloseDrain ==
  /\ owner = "close_ack"
  /\ AckReturn
  /\ owner' = "close_pop"
  /\ budget' = Len(queue["control"]) + Len(queue["work"])
  /\ UNCHANGED <<pc, offer, stateVars, historyVars>>

EndClose ==
  /\ owner = "close_pop"
  /\ budget = 0
  /\ owner' = "idle"
  /\ UNCHANGED <<wakeVars, pc, offer, budget, stateVars, historyVars>>

---------------------------------------------------------------------------

\* wake() and acknowledge() inside the critical sections.
LockedWake(s) == pc[s] # "idle" /\ WakeStep(s) /\ UNCHANGED <<lockVars, stateVars, historyVars>>
LockedAck == AckStep /\ UNCHANGED <<lockVars, stateVars, historyVars>>

\* A clone of the wake handle, and the owner's host consuming the token.
FreeWake(w) ==
  /\ BeginWake(w) \/ WakeStep(w) \/ ReturnWake(w)
  /\ UNCHANGED <<lockVars, stateVars, historyVars>>
FreeObserve == Observe /\ UNCHANGED <<lockVars, stateVars, historyVars>>

MailboxNext ==
  \/ \E s \in Senders :
       \/ \E l \in Lanes, i \in Items : TrySend(s, l, i)
       \/ Publish(s) \/ RefuseWake(s) \/ DropSender(s) \/ FinishDrop(s) \/ LockedWake(s)
       \/ \E n \in Senders : Clone(s, n)
  \/ \E w \in Wakers : FreeWake(w)
  \/ \E limit \in DrainLimits : Drain(limit)
  \/ \E byDrop \in BOOLEAN : Close(byDrop)
  \/ Pop \/ EndPop \/ EndDrain \/ CloseDrain \/ EndClose \/ LockedAck \/ FreeObserve

MailboxSpec == MailboxInit /\ [][MailboxNext]_mailboxVars

---------------------------------------------------------------------------
(* Properties                                                              *)

LaneCounters == [{"messages", "bytes"} -> Nat]

MailboxTypeOK ==
  /\ WakeTypeOK
  /\ queue \in [Lanes -> Seq(Items)]
  /\ retained \in [Lanes -> Int]
  /\ receiverAlive \in BOOLEAN
  /\ senders \in Nat
  /\ rejections \in [Lanes -> LaneCounters]
  /\ closedCount \in Nat
  /\ wakeFailures \in Nat
  /\ live \subseteq Senders
  /\ pc \in [Senders -> {"idle", "send", "drop"}]
  /\ offer \in [Senders -> {<<>>} \cup (Lanes \X Items)]
  /\ owner \in {"idle", "pop", "ack", "close_ack", "close_pop"}
  /\ budget \in Nat
  /\ status \in {"none", "idle", "more_pending", "closed"}
  /\ receiverGone \in BOOLEAN
  /\ calls \in Nat
  /\ failedDrops \in Nat
  /\ accepted \in [Lanes -> Seq(Items)]
  /\ removed \in [Lanes -> Seq(Items)]

\* Accepted work always has a progress path: while anything is queued for a live
\* receiver the wake request stands, whatever wakers, failed backends and
\* acknowledgements interleave with publication.
NoStranded == receiverAlive /\ ~Empty => phase = "requested"

\* The owner learns that the last sender is gone: unless that drop's wake failed,
\* the request stands until a drain answers Closed.
LastDropSeen ==
  receiverAlive /\ senders = 0 /\ failedDrops = 0 /\ owner # "ack" /\ status # "closed"
    => phase = "requested"

\* Nothing accepted is lost, duplicated or reordered within its lane.
Fifo == \A l \in Lanes : accepted[l] = removed[l] \o queue[l]

\* Both limits of both lanes hold at every moment, although room is checked
\* before the wake and used after it.
Bounded ==
  \A l \in Lanes :
    /\ Len(queue[l]) <= MessageLimit[l]
    /\ retained[l] <= ByteLimit[l]

\* LaneState.retained is the exact total of what is queued, so the checked_sub
\* of drain_into never panics: it is the last of the running totals of the queue.
RunningTotals(q, total) ==
  {sum \in [0..Len(q) -> 0..total] :
     /\ sum[0] = 0 /\ sum[Len(q)] = total
     /\ \A k \in 1..Len(q) : sum[k] = sum[k - 1] + Bytes[q[k]]
     /\ \A j, k \in 0..Len(q) : j <= k => sum[j] <= sum[k]}

ExactBytes == \A l \in Lanes : RunningTotals(queue[l], retained[l]) # {}

LaneCalls(l) == Len(accepted[l]) + rejections[l]["messages"] + rejections[l]["bytes"]
SendInFlight == \E s \in Senders : pc[s] = "send"

\* Every try_send is accounted for once: accepted, counted under the reason it
\* was refused for, or still inside the call.
CallsAccounted ==
  calls = LaneCalls("control") + LaneCalls("work") + closedCount
          + wakeFailures - failedDrops + (IF SendInFlight THEN 1 ELSE 0)

\* Closed is final: after a drain has answered Closed nothing is ever accepted.
ClosedIsFinal == [][status = "closed" => UNCHANGED accepted]_mailboxVars

\* The refinement mapping: the notification is the REQUESTED phase.
Contract == INSTANCE MailboxContract
  WITH lane <- queue, open <- receiverAlive, notified <- phase = "requested"

\* The mailbox with its threads, lock and wake protocol implements the contract.
ImplementsContract == Contract!ContractSpec

---------------------------------------------------------------------------
(* The inductive invariant behind NoStranded and LastDropSeen.             *)

\* The mutex excludes, and a thread is inside wake() or acknowledge() exactly
\* where its critical section says so.
LockInv ==
  /\ owner # "idle" => \A s \in Senders : pc[s] = "idle"
  /\ \A s, u \in Senders : pc[s] # "idle" /\ pc[u] # "idle" => s = u
  /\ \A s \in Senders : pc[s] = "idle" <=> call[s] = "out"
  /\ \A s \in Senders : pc[s] = "send" => offer[s] \in Lanes \X Items
  /\ \A s \in Senders : pc[s] = "drop" => senders = 1
  /\ ack # "out" <=> owner \in {"ack", "close_ack"}

\* Under the lock no acknowledgement can overtake a producer's own request.
HeldWake ==
  \A s \in Senders :
    /\ InFlight(s) => phase = "waking"
    /\ call[s] = "ok" => phase = "requested"

\* An acknowledging owner left nothing behind, or closed admission first.
OwnerInv ==
  /\ owner = "ack" => Empty
  /\ owner \in {"close_ack", "close_pop"} => ~receiverAlive

MailboxInv ==
  /\ WakeInv /\ MailboxTypeOK /\ LockInv /\ HeldWake /\ OwnerInv
  /\ NoStranded /\ LastDropSeen

\* Through every interleaving of producers, wakers, refusals, bounded drains and
\* close(): nothing accepted is lost or reordered, both limits of both lanes
\* hold, the byte and rejection accounts are exact, and the inductive invariant
\* of the wake requests, with the announcement of the last drop, is maintained.
MailboxSafe ==
  /\ MailboxInv
  /\ Fifo /\ Bounded
  /\ ExactBytes /\ CallsAccounted

---------------------------------------------------------------------------
(* The inductive invariant behind the lanes' accounts, on top of MailboxInv.*)

\* The room try_send found is still there when the wake has answered.
RoomHeld ==
  \A s \in Senders : pc[s] = "send" =>
    /\ receiverAlive
    /\ Len(queue[offer[s][1]]) < MessageLimit[offer[s][1]]
    /\ retained[offer[s][1]] + Bytes[offer[s][2]] <= ByteLimit[offer[s][1]]

\* State.senders counts the handles that exist, and only they are in a call.
SendersCounted ==
  /\ IsFiniteSet(live) /\ senders = Cardinality(live)
  /\ \A s \in Senders : pc[s] # "idle" => s \in live

\* A drain that answered Closed had found the receiver or every sender gone.
ClosedKnown == status = "closed" => ~receiverAlive \/ senders = 0

LaneInv ==
  /\ Fifo /\ Bounded /\ ExactBytes /\ CallsAccounted
  /\ RoomHeld /\ SendersCounted /\ ClosedKnown

===========================================================================
