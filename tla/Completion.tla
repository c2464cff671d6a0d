---------------------------- MODULE Completion ----------------------------
(***************************************************************************)
(* An exactly-once completion pair (crates/calandria/src/completion): one  *)
(* Completer, one Completion that is observed by blocking, by trying or as *)
(* a future.                                                               *)
(*                                                                         *)
(* A critical section of the state mutex is one action.  What the producer *)
(* does after it unlocks, notify_all and then the task waker it carried    *)
(* out, are actions of their own: the observer runs in between.            *)
(***************************************************************************)
EXTENDS Naturals

CONSTANTS
  Tasks,     \* the executor tasks that may poll the future
  NoTask

ASSUME NoTaskAssumption == NoTask \notin Tasks

VARIABLES
  state,          \* pending, ready_ok, ready_closed or consumed
  observerAlive,  \* State::Pending.observer_alive
  waker,          \* State::Pending.waker
  producer,       \* live; notify, wake: what complete/close_producer has left to do; gone
  carried,        \* the waker taken out of the state by the producer
  answer,         \* what complete() answers: none, ok, err
  observer,       \* live; waiting: parked in the condvar; notified; gone
  awaiting,       \* the task whose latest poll answered Pending
  scheduled,      \* external: the tasks the executor was told to poll
  value,          \* history: producer, slot, observer, returned, discarded
  got,            \* history: the first result the observer took: none, value, closed
  consumedAnswers \* history: the observer was answered Consumed

completionVars == <<state, observerAlive, waker, producer, carried, answer, observer, awaiting,
                    scheduled, value, got, consumedAnswers>>

CompletionInit ==
  /\ state = "pending"
  /\ observerAlive = TRUE
  /\ waker = NoTask
  /\ producer = "live"
  /\ carried = NoTask
  /\ answer = "none"
  /\ observer = "live"
  /\ awaiting = NoTask
  /\ scheduled = {}
  /\ value = "producer"
  /\ got = "none"
  /\ consumedAnswers = FALSE

---------------------------------------------------------------------------
(* Plausible mistakes in this code, substituted one at a time for the      *)
(* definition they are named after to show that the properties notice.     *)

\* The waker of the first poll is kept for ever.
StoreFirstWaker(t) == waker' = IF waker = NoTask THEN t ELSE waker

\* The condition variable is forgotten: only futures are woken.
NotifyNobody ==
  /\ producer = "notify"
  /\ producer' = "wake"
  /\ UNCHANGED <<state, observerAlive, waker, carried, answer, observer, awaiting, scheduled,
                 value, got, consumedAnswers>>

---------------------------------------------------------------------------
(* Completer                                                               *)

\* Leave the critical section of complete() or close_producer().
Settle ==
  /\ producer = "live"
  /\ producer' = "notify"
  /\ carried' = IF state = "pending" /\ observerAlive THEN waker ELSE NoTask
  /\ waker' = NoTask
  /\ UNCHANGED <<observerAlive, observer, awaiting, scheduled, got, consumedAnswers>>

Complete ==
  /\ Settle
  /\ IF state = "pending" /\ observerAlive
     THEN state' = "ready_ok" /\ answer' = "ok" /\ value' = "slot"
     ELSE /\ state' = IF state = "pending" THEN "consumed" ELSE state
          /\ answer' = "err"
          /\ value' = "returned"

\* close(), or Drop of a completer that was not settled.
CloseProducer ==
  /\ Settle
  /\ state' = IF state # "pending" THEN state
              ELSE IF observerAlive THEN "ready_closed" ELSE "consumed"
  /\ UNCHANGED <<answer, value>>

NotifyAll ==
  /\ producer = "notify"
  /\ producer' = "wake"
  /\ observer' = IF observer = "waiting" THEN "notified" ELSE observer
  /\ UNCHANGED <<state, observerAlive, waker, carried, answer, awaiting, scheduled, value, got,
                 consumedAnswers>>

WakeCarried ==
  /\ producer = "wake"
  /\ producer' = "gone"
  /\ scheduled' = scheduled \cup ({carried} \ {NoTask})
  /\ carried' = NoTask
  /\ UNCHANGED <<state, observerAlive, waker, answer, observer, awaiting, value, got,
                 consumedAnswers>>

---------------------------------------------------------------------------
(* Completion                                                              *)

\* mem::replace(state, Consumed) on a state that is not Pending.
Take ==
  /\ state' = "consumed"
  /\ got' = CASE state = "ready_ok" -> "value" [] state = "ready_closed" -> "closed" [] OTHER -> got
  /\ value' = IF state = "ready_ok" THEN "observer" ELSE value
  /\ consumedAnswers' = (consumedAnswers \/ state = "consumed")

NoTake == UNCHANGED <<state, got, value, consumedAnswers>>

TryTake ==
  /\ observer = "live"
  /\ IF state = "pending" THEN NoTake ELSE Take
  /\ UNCHANGED <<observerAlive, waker, producer, carried, answer, observer, awaiting, scheduled>>

\* will_wake: polling again from the same task keeps the stored waker.
StoreWaker(t) == waker' = t

Poll(t) ==
  /\ observer = "live"
  /\ \/ /\ state = "pending"
        /\ StoreWaker(t)
        /\ awaiting' = t
        /\ NoTake
     \/ /\ state # "pending"
        /\ awaiting' = NoTask
        /\ Take
        /\ UNCHANGED waker
  /\ scheduled' = scheduled \ {t}
  /\ UNCHANGED <<observerAlive, producer, carried, answer, observer>>

\* wait(): take, or park in the condvar (which may wake spuriously) and look
\* again.  wait() consumes the Completion, so its Drop follows.
Wait ==
  /\ observer \in {"live", "notified"}
  /\ \/ /\ state = "pending"
        /\ observer' = "waiting"
        /\ NoTake
        /\ UNCHANGED observerAlive
     \/ /\ state # "pending"
        /\ observer' = "gone"
        /\ Take
        /\ UNCHANGED observerAlive
  /\ awaiting' = NoTask
  /\ UNCHANGED <<waker, producer, carried, answer, scheduled>>

SpuriousWakeup ==
  /\ observer = "waiting"
  /\ observer' = "notified"
  /\ UNCHANGED <<state, observerAlive, waker, producer, carried, answer, awaiting, scheduled,
                 value, got, consumedAnswers>>

\* abandon(), or Drop: a result nobody took is dropped.
Abandon ==
  /\ observer = "live"
  /\ observer' = "gone"
  /\ awaiting' = NoTask
  /\ IF state = "pending"
     THEN observerAlive' = FALSE /\ waker' = NoTask /\ UNCHANGED <<state, value>>
     ELSE /\ state' = "consumed"
          /\ value' = IF state = "ready_ok" THEN "discarded" ELSE value
          /\ UNCHANGED <<observerAlive, waker>>
  /\ UNCHANGED <<producer, carried, answer, scheduled, got, consumedAnswers>>

---------------------------------------------------------------------------

ProducerStep == NotifyAll \/ WakeCarried
ObserverStep == observer = "notified" /\ Wait

CompletionNext ==
  \/ Complete \/ CloseProducer \/ ProducerStep
  \/ TryTake \/ Wait \/ SpuriousWakeup \/ Abandon \/ \E t \in Tasks : Poll(t)

CompletionSpec == CompletionInit /\ [][CompletionNext]_completionVars

\* A producer inside complete() or close() finishes it, a thread woken in wait()
\* runs, and the executor polls what was scheduled.  Nobody has to complete.
FairCompletionSpec ==
  /\ CompletionSpec
  /\ WF_completionVars(ProducerStep)
  /\ WF_completionVars(ObserverStep)
  /\ \A t \in Tasks : WF_completionVars(t \in scheduled /\ Poll(t))

---------------------------------------------------------------------------
(* Properties                                                              *)

CompletionTypeOK ==
  /\ state \in {"pending", "ready_ok", "ready_closed", "consumed"}
  /\ observerAlive \in BOOLEAN
  /\ waker \in Tasks \cup {NoTask}
  /\ producer \in {"live", "notify", "wake", "gone"}
  /\ carried \in Tasks \cup {NoTask}
  /\ answer \in {"none", "ok", "err"}
  /\ observer \in {"live", "waiting", "notified", "gone"}
  /\ awaiting \in Tasks \cup {NoTask}
  /\ scheduled \subseteq Tasks
  /\ value \in {"producer", "slot", "observer", "returned", "discarded"}
  /\ got \in {"none", "value", "closed"}
  /\ consumedAnswers \in BOOLEAN

\* complete() answers truthfully and the value has one owner: Ok hands it over,
\* to be observed or dropped with the observer; Err gives it back, and only when
\* the observer was abandoned first.
OneOwner ==
  /\ answer = "ok" => value \in {"slot", "observer", "discarded"}
  /\ answer = "err" => value = "returned" /\ got = "none" /\ observer = "gone"
  /\ got = "value" => answer = "ok" /\ value = "observer"
  /\ value = "slot" <=> state = "ready_ok"

\* Consumed is only ever answered to an observer that already took its result.
ConsumedAfterTake == consumedAnswers => got # "none"

\* Whoever sleeps on a settled completion still has a wake-up coming: the latest
\* task to poll, not an earlier one, and a thread parked before the notify.
Blocked ==
  observer = "waiting" \/ (observer = "live" /\ awaiting # NoTask /\ awaiting \notin scheduled)

WakeupPending ==
  Blocked /\ state # "pending" =>
    IF observer = "waiting" THEN producer = "notify"
                            ELSE producer \in {"notify", "wake"} /\ carried = awaiting

\* Whoever blocks, polls, tries, abandons or closes in whatever order: both ends
\* agree on what became of the one value, and nobody sleeps on a settled
\* completion without a wake-up on its way.
CompletionSafe == CompletionTypeOK /\ OneOwner /\ ConsumedAfterTake /\ WakeupPending

---------------------------------------------------------------------------
(* The inductive invariant behind CompletionSafe.                          *)

\* The completer settles the state once, and before that nothing was taken.
SettledOnce ==
  /\ producer = "live" <=> state = "pending"
  /\ state = "pending" => answer = "none" /\ got = "none" /\ ~consumedAnswers
  /\ value = "producer" <=> answer = "none"
  /\ state = "ready_closed" \/ got = "closed" => answer = "none"
  /\ state \in {"ready_ok", "ready_closed"} => got = "none"

\* An observer that is still there was not abandoned, and finds the slot empty
\* only after it emptied it.
ObserverHere ==
  observer # "gone" => observerAlive /\ (state = "consumed" => got # "none")

\* The stored waker is the one of the latest poll.
WakerIsLatest ==
  state = "pending" /\ observer = "live" /\ awaiting # NoTask => waker = awaiting

CompletionInv == CompletionSafe /\ SettledOnce /\ ObserverHere /\ WakerIsLatest

---------------------------------------------------------------------------

\* Once the producer settled, a blocked observer is released and takes a result:
\* wait() returns, and the task that awaits the future is polled again.
Released ==
  /\ observer \in {"waiting", "notified"} /\ producer # "live" ~> observer = "gone"
  /\ awaiting # NoTask /\ producer # "live" ~> awaiting = NoTask

===========================================================================
