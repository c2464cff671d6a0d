--------------------------- MODULE ReactorProofs ---------------------------
(***************************************************************************)
(* One thread and those who wait for it.  CompletionInv is inductive for   *)
(* every set of tasks that may poll the future; ReactorInv for every set   *)
(* of requesters and every wait ceiling, and the reactor implements the    *)
(* life cycle that a group relies on for each of its members.              *)
(***************************************************************************)
EXTENDS Completion, Reactor, TLAPS

---------------------------------------------------------------------------
(* The completion                                                          *)

\* A fresh pair satisfies the invariant.
LEMMA CompletionInitInv == CompletionInit => CompletionInv
<1> SUFFICES ASSUME CompletionInit PROVE CompletionInv
  OBVIOUS
<1>1. CompletionTypeOK
  <2>1. observerAlive \in BOOLEAN /\ consumedAnswers \in BOOLEAN
    BY Zenon DEF CompletionInit
  <2>2. QED BY <2>1 DEF CompletionInit, CompletionTypeOK
<1>2. QED
  BY <1>1 DEF CompletionInit, CompletionInv, CompletionSafe, OneOwner, ConsumedAfterTake,
              WakeupPending, Blocked, SettledOnce, ObserverHere, WakerIsLatest

\* Looking at the slot, whether it is emptied or not, keeps the types of what it changes.
LEMMA TakeTypes ==
  ASSUME CompletionTypeOK, Take \/ NoTake
  PROVE  /\ state' \in {"pending", "ready_ok", "ready_closed", "consumed"}
         /\ value' \in {"producer", "slot", "observer", "returned", "discarded"}
         /\ got' \in {"none", "value", "closed"}
         /\ consumedAnswers' \in BOOLEAN
<1>1. consumedAnswers' \in BOOLEAN
  BY Zenon DEF CompletionTypeOK, Take, NoTake
<1>2. QED
  BY <1>1 DEF CompletionTypeOK, Take, NoTake

\* The types are kept by every step.
LEMMA CompletionTypes ==
  ASSUME CompletionTypeOK, [CompletionNext]_completionVars
  PROVE  CompletionTypeOK'
<1> USE DEF CompletionTypeOK
<1>1. CASE Complete       BY <1>1 DEF Complete, Settle
<1>2. CASE CloseProducer  BY <1>2 DEF CloseProducer, Settle
<1>3. CASE NotifyAll      BY <1>3 DEF NotifyAll
<1>4. CASE WakeCarried    BY <1>4 DEF WakeCarried
<1>5. CASE TryTake        BY <1>5, TakeTypes DEF TryTake
<1>6. CASE Wait           BY <1>6, TakeTypes DEF Wait
<1>7. CASE SpuriousWakeup BY <1>7 DEF SpuriousWakeup
<1>8. CASE Abandon
  <2>1. /\ observer' = "gone" /\ awaiting' = NoTask
        /\ UNCHANGED <<producer, carried, answer, scheduled, got, consumedAnswers>>
    BY <1>8 DEF Abandon
  <2>2. CASE state = "pending"
    BY <1>8, <2>1, <2>2 DEF Abandon
  <2>3. CASE state # "pending"
    <3>1. /\ state' = "consumed" /\ value' \in {value, "discarded"}
          /\ observerAlive' = observerAlive /\ waker' = waker
      BY <1>8, <2>3 DEF Abandon
    <3>2. QED
      BY <2>1, <3>1
  <2>4. QED BY <2>2, <2>3
<1>9. ASSUME NEW t \in Tasks, Poll(t) PROVE CompletionTypeOK'
  BY <1>9, TakeTypes DEF Poll, StoreWaker, NoTake
<1>10. CASE UNCHANGED completionVars
  BY <1>10 DEF completionVars
<1>11. QED
  BY <1>1, <1>2, <1>3, <1>4, <1>5, <1>6, <1>7, <1>8, <1>9, <1>10
     DEF CompletionNext, ProducerStep

\* The completer's steps: it settles a pending state, carries the latest waker out
\* of it and wakes whoever waits.
LEMMA CompleterKeeps ==
  ASSUME CompletionInv, CompletionTypeOK',
         Complete \/ CloseProducer \/ NotifyAll \/ WakeCarried
  PROVE  CompletionInv'
<1> USE DEF CompletionInv, CompletionSafe, CompletionTypeOK, OneOwner, ConsumedAfterTake,
            WakeupPending, Blocked, SettledOnce, ObserverHere, WakerIsLatest
<1>1. CASE Complete      BY <1>1 DEF Complete, Settle
<1>2. CASE CloseProducer BY <1>2 DEF CloseProducer, Settle
<1>3. CASE NotifyAll     BY <1>3 DEF NotifyAll
<1>4. CASE WakeCarried   BY <1>4 DEF WakeCarried
<1>5. QED BY <1>1, <1>2, <1>3, <1>4

\* The observer's steps: whatever it does, it takes what is there at most once.
LEMMA ObserverKeeps ==
  ASSUME CompletionInv, CompletionTypeOK',
         \/ TryTake \/ Wait \/ SpuriousWakeup \/ Abandon
         \/ \E t \in Tasks : Poll(t)
         \/ UNCHANGED completionVars
  PROVE  CompletionInv'
<1> USE NoTaskAssumption
        DEF CompletionInv, CompletionSafe, CompletionTypeOK, OneOwner, ConsumedAfterTake,
            WakeupPending, Blocked, SettledOnce, ObserverHere, WakerIsLatest
<1>1. CASE TryTake        BY <1>1 DEF TryTake, Take, NoTake
<1>2. CASE Wait           BY <1>2 DEF Wait, Take, NoTake
<1>3. CASE SpuriousWakeup BY <1>3 DEF SpuriousWakeup
<1>4. CASE Abandon        BY <1>4 DEF Abandon
<1>5. ASSUME NEW t \in Tasks, Poll(t) PROVE CompletionInv'
  BY <1>5 DEF Poll, StoreWaker, Take, NoTake
<1>6. CASE UNCHANGED completionVars
  BY <1>6 DEF completionVars
<1>7. QED BY <1>1, <1>2, <1>3, <1>4, <1>5, <1>6

\* For any number of tasks, whoever blocks, polls, tries, abandons or closes and in
\* whatever order: the value has one owner on which both ends agree, Consumed is
\* answered only to who took the result, and nobody sleeps on a settled completion
\* without a wake-up on its way.
THEOREM CompletionSafety == CompletionSpec => []CompletionSafe
<1>1. CompletionInv /\ [CompletionNext]_completionVars => CompletionInv'
  BY CompletionTypes, CompleterKeeps, ObserverKeeps
     DEF CompletionNext, ProducerStep, CompletionInv, CompletionSafe
<1>2. CompletionInv => CompletionSafe
  BY DEF CompletionInv
<1>3. QED
  BY CompletionInitInv, <1>1, <1>2, PTL DEF CompletionSpec

---------------------------------------------------------------------------
(* The reactor                                                             *)

\* A reactor made from a host in any phase satisfies the invariant.
LEMMA ReactorInitInv == ReactorInit => ReactorInv
<1> SUFFICES ASSUME ReactorInit PROVE ReactorInv
  OBVIOUS
<1>1. ReactorTypeOK
  <2>1. /\ request \in [Requesters -> {"out", "wake", "done"}]
        /\ told \in [Requesters -> {"none"} \cup TerminationStatuses]
        /\ wakeError \in [Requesters -> BOOLEAN]
    BY DEF ReactorInit
  <2>2. lateTurns \in 0 .. LateCap /\ next \in Nexts
    BY DEF ReactorInit, LateCap, Nexts
  <2>3. token \in BOOLEAN
    BY Zenon DEF ReactorInit
  <2>4. QED BY <2>1, <2>2, <2>3 DEF ReactorInit, ReactorTypeOK
<1>2. \A t \in Requesters : told[t] = "none"
  BY DEF ReactorInit
<1>3. ReactorSafe
  BY <1>1, <1>2 DEF ReactorInit, ReactorSafe, AcceptedIsHonoured, ExitedIsOver, OnePublisher,
                    PromptTermination, PhaseAgrees
<1>4. QED
  BY <1>2, <1>3 DEF ReactorInit, ReactorInv, EndsTogether, ToldIsCurrent, LateTurnIsLast,
                    PhaseRecorded

\* A step of the thread that does not exit keeps the invariant if it moves the
\* program counter, and the history, as the loop does.
LEMMA MoveKeeps ==
  ASSUME ReactorInv, ReactorTypeOK', UNCHANGED <<control, outcome, requesterVars>>,
         runner # "done", runner' # "done",
         LateTurnIsLast', lateTurns' <= 1, PhaseRecorded'
  PROVE  ReactorInv'
<1>1. UNCHANGED <<told, request, wakeError>>
  BY DEF requesterVars
<1>2. ReactorSafe'
  BY <1>1 DEF ReactorInv, ReactorSafe, AcceptedIsHonoured, ExitedIsOver, OnePublisher,
              PromptTermination, PhaseAgrees, EndsTogether, ToldIsCurrent
<1>3. QED
  BY <1>1, <1>2 DEF ReactorInv, EndsTogether, ToldIsCurrent

\* Whatever a turn's Next and its deadline are, the host acts in one of three ways.
LEMMA ActionIsOneOfThree ==
  ASSUME NEW n \in Nexts, NEW remaining \in {0, 1}
  PROVE  ActionFor(n, remaining) \in {"continue", "wait", "stop"}
BY CeilingAssumption DEF ActionFor, FromWait, Least, Nexts

\* The steps of the loop before it is decided that it ends.
LEMMA LoopKeeps ==
  ASSUME ReactorInv,
         \/ Run \/ CheckTermination \/ BeginStep \/ Recheck \/ EnterWait \/ Notified
         \/ TimedOut \/ FailTurn \/ FailWait
         \/ \E n \in Nexts : EndTurn(n)
         \/ \E remaining \in {0, 1} : EndStep(remaining)
  PROVE  ReactorInv'
<1> USE DEF ReactorInv, ReactorSafe, ReactorTypeOK, LateTurnIsLast, PromptTermination,
            PhaseRecorded, EndsTogether, LateCap, HostPhases, requesterVars, Fail
<1>1. CASE Run              BY <1>1, MoveKeeps DEF Run
<1>2. CASE CheckTermination BY <1>2, MoveKeeps DEF CheckTermination
<1>3. CASE BeginStep        BY <1>3, MoveKeeps DEF BeginStep
<1>4. CASE Recheck          BY <1>4, MoveKeeps DEF Recheck
<1>5. CASE EnterWait        BY <1>5, MoveKeeps DEF EnterWait
<1>6. CASE Notified         BY <1>6, MoveKeeps DEF Notified
<1>7. CASE TimedOut         BY <1>7, MoveKeeps DEF TimedOut
<1>8. CASE FailTurn         BY <1>8, MoveKeeps DEF FailTurn
<1>9. CASE FailWait         BY <1>9, MoveKeeps DEF FailWait
<1>10. ASSUME NEW n \in Nexts, EndTurn(n) PROVE ReactorInv'
  BY <1>10, MoveKeeps DEF EndTurn
<1>11. ASSUME NEW remaining \in {0, 1}, EndStep(remaining) PROVE ReactorInv'
  <2>1. ActionFor(next, remaining) \in {"continue", "wait", "stop"}
    BY ActionIsOneOfThree
  <2>2. QED BY <1>11, <2>1, MoveKeeps DEF EndStep
<1>12. QED BY <1>1, <1>2, <1>3, <1>4, <1>5, <1>6, <1>7, <1>8, <1>9, <1>10, <1>11

\* Whoever exits was not gone before, and says how in agreement with the host.
LEMMA ExitKeeps ==
  ASSUME ReactorInv, DropUnrun \/ FinishStop \/ FinishTerminate \/ FinishFail \/ Unwind
  PROVE  ReactorInv'
<1>1. /\ control # "exited" /\ control' = "exited" /\ runner' = "done"
      /\ outcome' \in Outcomes
      /\ hostPhase' \in {hostPhase, "terminated"}
      /\ UNCHANGED <<next, request, told, wakeError, token, lateTurns>>
      /\ outcome' = "stopped" => control = "running" /\ hostPhase' = "stopped"
      /\ outcome' = "terminated" => hostPhase' = "terminated"
  BY DEF ReactorInv, EndsTogether, PhaseRecorded, DropUnrun, FinishStop, FinishTerminate,
         FinishFail, Unwind, Exit, Outcomes, requesterVars, ReactorSafe, ReactorTypeOK
<1>2. ReactorTypeOK'
  BY <1>1 DEF ReactorInv, ReactorSafe, ReactorTypeOK, HostPhases
<1>3. ReactorSafe'
  BY <1>1, <1>2
     DEF ReactorInv, ReactorSafe, AcceptedIsHonoured, ExitedIsOver, OnePublisher,
         PromptTermination, PhaseAgrees, ToldIsCurrent
<1>4. (EndsTogether /\ ToldIsCurrent /\ LateTurnIsLast /\ PhaseRecorded)'
  BY <1>1 DEF ReactorInv, EndsTogether, ToldIsCurrent, LateTurnIsLast, PhaseRecorded, Outcomes
<1>5. QED BY <1>3, <1>4 DEF ReactorInv

\* Publication is decided by the control phase, under its mutex.
LEMMA PublishKeeps ==
  ASSUME ReactorInv, NEW t \in Requesters, PublishTermination(t)
  PROVE  ReactorInv'
<1>1. PICK status \in TerminationStatuses, where \in {"wake", "done"} :
        /\ told' = [told EXCEPT ![t] = status]
        /\ request' = [request EXCEPT ![t] = where]
        /\ status = "requested" <=> control = "running"
        /\ status = "exited" <=> control = "exited"
  BY DEF PublishTermination, TerminationStatuses, ReactorInv, ReactorSafe, ReactorTypeOK
<1>2. /\ control' = IF control = "running" THEN "requested" ELSE control
      /\ UNCHANGED <<runner, hostPhase, next, outcome, wakeError, token, lateTurns>>
  BY DEF PublishTermination
<1>3. ReactorTypeOK'
  BY <1>1, <1>2 DEF ReactorInv, ReactorSafe, ReactorTypeOK
<1>4. \A u \in Requesters : told'[u] = IF u = t THEN status ELSE told[u]
  BY <1>1 DEF ReactorInv, ReactorSafe, ReactorTypeOK
<1>5. (AcceptedIsHonoured /\ ExitedIsOver /\ OnePublisher)'
  BY <1>1, <1>2, <1>4
     DEF ReactorInv, ReactorSafe, AcceptedIsHonoured, ExitedIsOver, OnePublisher, EndsTogether,
         ToldIsCurrent
<1>6. (EndsTogether /\ ToldIsCurrent /\ LateTurnIsLast /\ PhaseRecorded)'
  BY <1>1, <1>2, <1>4
     DEF ReactorInv, ReactorSafe, EndsTogether, ToldIsCurrent, LateTurnIsLast, PhaseRecorded,
         TerminationStatuses
<1>7. QED
  BY <1>2, <1>3, <1>5, <1>6
     DEF ReactorInv, ReactorSafe, PromptTermination, PhaseAgrees

\* Wakes, and stuttering, change nothing the invariant is about.
LEMMA WakeKeeps ==
  ASSUME ReactorInv,
         \/ \E t \in Requesters : CompleteTermination(t)
         \/ OtherWake \/ UNCHANGED reactorVars
  PROVE  ReactorInv'
<1>1. UNCHANGED <<control, runner, hostPhase, next, outcome, told, lateTurns>>
  BY DEF CompleteTermination, OtherWake, reactorVars, requesterVars
<1>2. ReactorTypeOK'
  BY DEF ReactorInv, ReactorSafe, ReactorTypeOK, CompleteTermination, OtherWake, reactorVars,
         requesterVars
<1>3. QED
  BY <1>1, <1>2
     DEF ReactorInv, ReactorSafe, AcceptedIsHonoured, ExitedIsOver, OnePublisher,
         PromptTermination, PhaseAgrees, EndsTogether, ToldIsCurrent, LateTurnIsLast,
         PhaseRecorded

\* The invariant is inductive.
LEMMA ReactorStep == ReactorInv /\ [ReactorNext]_reactorVars => ReactorInv'
BY LoopKeeps, ExitKeeps, PublishKeeps, WakeKeeps DEF ReactorNext, Loop

\* For every number of requesters and every wait ceiling: the accepted request is
\* honoured by a reactor that stops in the same moment, Exited means that no turn
\* runs again, one requester published, at most one turn is late, and the host's
\* phase and the outcome agree.
THEOREM ReactorSafety == ReactorSpec => []ReactorSafe
<1>1. ReactorInv => ReactorSafe
  BY DEF ReactorInv
<1>2. QED
  BY ReactorInitInv, ReactorStep, <1>1, PTL DEF ReactorSpec

\* Every step of the loop, of its exits and of the racing requesters is a request,
\* an exit or nothing to whoever supervises the reactor.
LEMMA LifecycleStep ==
  ASSUME ReactorInv, [ReactorNext]_reactorVars
  PROVE  [Lifecycle!LifecycleNext]_Lifecycle!lifecycleVars
<1> USE DEF Lifecycle!LifecycleNext, Lifecycle!lifecycleVars
<1>1. CASE DropUnrun \/ FinishStop \/ FinishTerminate \/ FinishFail \/ Unwind
  <2>1. control # "exited"
    BY <1>1 DEF ReactorInv, EndsTogether, DropUnrun, FinishStop, FinishTerminate, FinishFail,
                Unwind
  <2>2. /\ outcome' = "terminated" => control = "requested"
        /\ outcome' = "stopped" => control # "requested"
    BY <1>1 DEF ReactorInv, PhaseRecorded, FinishStop, FinishTerminate, FinishFail,
                Unwind, DropUnrun, Exit
  <2>3. Lifecycle!Exit
    BY <1>1, <2>1, <2>2
       DEF Lifecycle!Exit, DropUnrun, FinishStop, FinishTerminate, FinishFail, Unwind, Exit,
           ReactorInv, ReactorSafe, ReactorTypeOK
  <2>4. QED BY <2>3
<1>2. CASE \E t \in Requesters : PublishTermination(t)
  BY <1>2 DEF PublishTermination, Lifecycle!Request
<1>3. CASE ~(DropUnrun \/ FinishStop \/ FinishTerminate \/ FinishFail \/ Unwind
             \/ \E t \in Requesters : PublishTermination(t))
  BY <1>3 DEF ReactorNext, Loop, Run, CheckTermination, BeginStep, Recheck, EnterWait, Notified,
              TimedOut, FailTurn, FailWait, EndTurn, EndStep, CompleteTermination, OtherWake,
              reactorVars
<1>4. QED BY <1>1, <1>2, <1>3

\* The reactor implements the life cycle that a supervisor relies on.
THEOREM ReactorImplementsLifecycle == ReactorSpec => ImplementsLifecycle
<1>1. ReactorInit => Lifecycle!LifecycleInit
  BY DEF ReactorInit, Lifecycle!LifecycleInit
<1>2. QED
  BY ReactorInitInv, ReactorStep, LifecycleStep, <1>1, PTL
     DEF ReactorSpec, ImplementsLifecycle, Lifecycle!LifecycleSpec
============================================================================
