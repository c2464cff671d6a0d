------------------------------ MODULE Reactor ------------------------------
(***************************************************************************)
(* One reactor (crates/calandria/src/reactor, host): the turn-and-wait loop*)
(* of runner::run around EmbeddedHost::step, and the threads that request  *)
(* its termination through ReactorControl.                                 *)
(*                                                                         *)
(* The duty, the clock and the waiter belong to the user: each may answer  *)
(* anything its trait allows, an error or a panic included.  Every         *)
(* acquisition of the control mutex is one action.                         *)
(***************************************************************************)
EXTENDS Naturals

CONSTANTS
  Requesters,    \* the threads that call request_termination, once each
  WaitCeiling    \* HostConfig::wait_ceiling, in ticks

ASSUME CeilingAssumption == WaitCeiling \in Nat

VARIABLES
  control,     \* Shared.phase of ReactorControl
  runner,      \* where runner::run is
  hostPhase,   \* HostSnapshot.phase
  next,        \* Turn.next of the turn in progress
  outcome,     \* ReactorOutcome, or how the thread ended otherwise
  request,     \* where each requester is: out, wake, done
  told,        \* the ReactorTerminationStatus each was answered
  wakeError,   \* ReactorTermination.wake_error of each
  token,       \* external: the waiter's pending notification
  lateTurns    \* history: turns begun after termination was published, counted up to LateCap

reactorVars ==
  <<control, runner, hostPhase, next, outcome, request, told, wakeError, token, lateTurns>>

\* Bound on the history counter.
LateCap == 2

HostPhases == {"running", "stopped", "terminated", "failed"}

\* ReactorOutcome, and how a reactor ends that returns none.
Outcomes == {"stopped", "terminated", "failed"} \cup {"dropped", "panicked"}

\* ReactorTerminationStatus
TerminationStatuses == {"requested", "already_requested", "exited"}
Nexts == {"now", "wake", "wake_or", "stop"}

\* A host handed to from_host may have been stepped to its end before.
ReactorInit ==
  /\ control = "running"
  /\ runner = "new"
  /\ hostPhase \in HostPhases
  /\ next = "now"
  /\ outcome = "none"
  /\ request = [t \in Requesters |-> "out"]
  /\ told = [t \in Requesters |-> "none"]
  /\ wakeError = [t \in Requesters |-> FALSE]
  /\ token = FALSE
  /\ lateTurns = 0

requesterVars == <<request, told, wakeError>>

---------------------------------------------------------------------------
(* Plausible mistakes in this code, substituted one at a time for the      *)
(* definition they are named after to show that the properties notice.     *)

\* The head of the loop does not look for a termination.
CheckNothing ==
  /\ runner = "check"
  /\ runner' = "step"
  /\ UNCHANGED <<control, hostPhase, next, outcome, requesterVars, token, lateTurns>>

\* The answer of control.finish() is ignored.
FinishStopAlways ==
  /\ runner = "stop"
  /\ control' = "exited"
  /\ outcome' = "stopped"
  /\ runner' = "done"
  /\ UNCHANGED <<hostPhase, next, requesterVars, token, lateTurns>>

\* The phase is not advanced by the first request.
PublishKeepsRunning(t) ==
  /\ request[t] = "out"
  /\ told' = [told EXCEPT ![t] = IF control = "running" THEN "requested" ELSE "exited"]
  /\ request' = [request EXCEPT ![t] = IF control = "running" THEN "wake" ELSE "done"]
  /\ UNCHANGED <<control, runner, hostPhase, next, outcome, wakeError, token, lateTurns>>

\* A notification reaches only a thread that is already parked.
CompleteUnlatched(t) ==
  /\ request[t] = "wake"
  /\ request' = [request EXCEPT ![t] = "done"]
  /\ token' = (token \/ runner = "parked")
  /\ UNCHANGED <<control, runner, hostPhase, next, outcome, told, wakeError, lateTurns>>

---------------------------------------------------------------------------
(* HostAction::for_next                                                    *)

FromWait(wait) == IF wait = 0 THEN "continue" ELSE "wait"

Least(a, b) == IF a <= b THEN a ELSE b

\* `remaining` is deadline.remaining_at(now), 0 when the deadline has passed.
ActionFor(n, remaining) ==
  CASE n = "now" -> "continue"
    [] n = "wake" -> FromWait(WaitCeiling)
    [] n = "wake_or" -> FromWait(Least(remaining, WaitCeiling))
    [] n = "stop" -> "stop"

---------------------------------------------------------------------------
(* runner::run                                                             *)

Run ==
  /\ runner = "new"
  /\ runner' = "check"
  /\ UNCHANGED <<control, hostPhase, next, outcome, requesterVars, token, lateTurns>>

\* A reactor that is dropped before it ran, also one that a failed spawn handed
\* back: its ReactorControlOwner finishes the control.
DropUnrun ==
  /\ runner = "new"
  /\ runner' = "done"
  /\ control' = "exited"
  /\ outcome' = "dropped"
  /\ UNCHANGED <<hostPhase, next, requesterVars, token, lateTurns>>

\* The head of the loop.
CheckTermination ==
  /\ runner = "check"
  /\ IF control = "requested"
     THEN hostPhase' = "terminated" /\ runner' = "terminate"
     ELSE runner' = "step" /\ UNCHANGED hostPhase
  /\ UNCHANGED <<control, next, outcome, requesterVars, token, lateTurns>>

Fail ==
  /\ hostPhase' = "failed"
  /\ runner' = "fail"

\* EmbeddedHost::step up to the call of the duty: the host must be running and
\* the clock must answer, and not run backwards.
BeginStep ==
  /\ runner = "step"
  /\ \/ /\ hostPhase # "running"
        /\ runner' = "fail"
        /\ UNCHANGED <<hostPhase, lateTurns>>
     \/ /\ hostPhase = "running"
        /\ runner' = "turn"
        /\ lateTurns' = IF control = "requested" /\ lateTurns < LateCap
                       THEN lateTurns + 1 ELSE lateTurns
        /\ UNCHANGED hostPhase
     \/ /\ hostPhase = "running"
        /\ Fail
        /\ UNCHANGED lateTurns
  /\ UNCHANGED <<control, next, outcome, requesterVars, token>>

\* Duty::turn answers.
EndTurn(n) ==
  /\ runner = "turn"
  /\ runner' = "observe"
  /\ next' = n
  /\ UNCHANGED <<control, hostPhase, outcome, requesterVars, token, lateTurns>>

FailTurn ==
  /\ runner = "turn"
  /\ Fail
  /\ UNCHANGED <<control, next, outcome, requesterVars, token, lateTurns>>

\* The rest of step: the clock again, then the action it records.
EndStep(remaining) ==
  /\ runner = "observe"
  /\ \/ /\ runner' = CASE ActionFor(next, remaining) = "continue" -> "check"
                       [] ActionFor(next, remaining) = "wait" -> "recheck"
                       [] ActionFor(next, remaining) = "stop" -> "stop"
        /\ hostPhase' = IF ActionFor(next, remaining) = "stop" THEN "stopped" ELSE hostPhase
     \/ Fail
  /\ UNCHANGED <<control, next, outcome, requesterVars, token, lateTurns>>

\* HostAction::Wait: look for a termination once more before waiting.
Recheck ==
  /\ runner = "recheck"
  /\ runner' = IF control = "requested" THEN "check" ELSE "wait"
  /\ UNCHANGED <<control, hostPhase, next, outcome, requesterVars, token, lateTurns>>

\* Waiter::wait, for which ThreadParker stands: a token that is already there
\* ends it at once, otherwise the thread parks until a token or the ceiling.
EnterWait ==
  /\ runner = "wait"
  /\ runner' = IF token THEN "check" ELSE "parked"
  /\ token' = FALSE
  /\ UNCHANGED <<control, hostPhase, next, outcome, requesterVars, lateTurns>>

Notified ==
  /\ runner = "parked"
  /\ token
  /\ token' = FALSE
  /\ runner' = "check"
  /\ UNCHANGED <<control, hostPhase, next, outcome, requesterVars, lateTurns>>

TimedOut ==
  /\ runner = "parked"
  /\ ~token
  /\ runner' = "check"
  /\ UNCHANGED <<control, hostPhase, next, outcome, requesterVars, token, lateTurns>>

FailWait ==
  /\ runner \in {"wait", "parked"}
  /\ Fail
  /\ UNCHANGED <<control, next, outcome, requesterVars, token, lateTurns>>

Exit(how) ==
  /\ control' = "exited"
  /\ outcome' = how
  /\ runner' = "done"
  /\ UNCHANGED <<next, requesterVars, token, lateTurns>>

\* HostAction::Stop: control.finish() decides between Stopped and Terminated.
FinishStop ==
  /\ runner = "stop"
  /\ IF control = "requested"
     THEN Exit("terminated") /\ hostPhase' = "terminated"
     ELSE Exit("stopped") /\ UNCHANGED hostPhase

FinishTerminate == runner = "terminate" /\ Exit("terminated") /\ UNCHANGED hostPhase
FinishFail == runner = "fail" /\ Exit("failed") /\ UNCHANGED hostPhase

\* A panic of the clock, the duty or the waiter unwinds into ReactorControlOwner::drop.
Unwind ==
  /\ runner \in {"step", "turn", "observe", "wait", "parked"}
  /\ Exit("panicked")
  /\ UNCHANGED hostPhase

---------------------------------------------------------------------------
(* request_termination                                                     *)

\* publish_termination: the first one also carries the wake handle out.
PublishTermination(t) ==
  /\ request[t] = "out"
  /\ \/ /\ control = "running"
        /\ control' = "requested"
        /\ told' = [told EXCEPT ![t] = "requested"]
        /\ request' = [request EXCEPT ![t] = "wake"]
     \/ /\ control # "running"
        /\ told' = [told EXCEPT ![t] = IF control = "exited" THEN "exited" ELSE "already_requested"]
        /\ request' = [request EXCEPT ![t] = "done"]
        /\ UNCHANGED control
  /\ UNCHANGED <<runner, hostPhase, next, outcome, wakeError, token, lateTurns>>

\* PublishedTermination::complete.  The termination handle is a wake domain of
\* its own in which only the first request ever calls wake(): the call finds it
\* idle and either signals the waiter or reports the backend's error.
CompleteTermination(t) ==
  /\ request[t] = "wake"
  /\ request' = [request EXCEPT ![t] = "done"]
  /\ \/ token' = TRUE /\ UNCHANGED wakeError
     \/ wakeError' = [wakeError EXCEPT ![t] = TRUE] /\ UNCHANGED token
  /\ UNCHANGED <<control, runner, hostPhase, next, outcome, told, lateTurns>>

\* Another domain of the same parker, say a mailbox, notifies the waiter.
OtherWake ==
  /\ token' = TRUE
  /\ UNCHANGED <<control, runner, hostPhase, next, outcome, requesterVars, lateTurns>>

---------------------------------------------------------------------------

Loop ==
  \/ CheckTermination \/ BeginStep \/ Recheck \/ EnterWait
  \/ FailTurn \/ \E n \in Nexts : EndTurn(n)
  \/ \E remaining \in {0, 1} : EndStep(remaining)
  \/ FinishStop \/ FinishTerminate \/ FinishFail

ReactorNext ==
  \/ Run \/ DropUnrun \/ Loop \/ Notified \/ TimedOut \/ FailWait \/ Unwind \/ OtherWake
  \/ \E t \in Requesters : PublishTermination(t) \/ CompleteTermination(t)

ReactorSpec == ReactorInit /\ [][ReactorNext]_reactorVars

\* The reactor thread is scheduled, user code returns, a pending notification
\* ends a wait, and a requester finishes its call.  Time need not pass.
FairReactorSpec ==
  /\ ReactorSpec
  /\ WF_reactorVars(Loop)
  /\ WF_reactorVars(Notified)
  /\ \A t \in Requesters : WF_reactorVars(CompleteTermination(t))

---------------------------------------------------------------------------
(* Properties                                                              *)

ReactorTypeOK ==
  /\ control \in {"running", "requested", "exited"}
  /\ runner \in {"new", "check", "step", "turn", "observe", "recheck", "wait", "parked",
                 "stop", "terminate", "fail", "done"}
  /\ hostPhase \in HostPhases
  /\ next \in Nexts
  /\ outcome \in {"none"} \cup Outcomes
  /\ request \in [Requesters -> {"out", "wake", "done"}]
  /\ told \in [Requesters -> {"none"} \cup TerminationStatuses]
  /\ wakeError \in [Requesters -> BOOLEAN]
  /\ token \in BOOLEAN
  /\ lateTurns \in 0 .. LateCap

\* A termination that was accepted is not lost to a reactor that stops by itself
\* in the same moment: Stopped is never the outcome of one that was told to end.
AcceptedIsHonoured ==
  outcome = "stopped" =>
    \A t \in Requesters : told[t] \notin {"requested", "already_requested"}

\* Exited is only answered once no turn will ever run again.
ExitedIsOver ==
  \A t \in Requesters : told[t] = "exited" => runner = "done"

\* Exactly one caller is told that it published the termination.
OnePublisher ==
  \A t, u \in Requesters : told[t] = "requested" /\ told[u] = "requested" => t = u

\* Termination is prompt: at most the turn that had already passed the check of
\* the loop begins after the request.
PromptTermination == lateTurns <= 1

\* The phase left in the returned host agrees with the outcome of the reactor.
PhaseAgrees ==
  /\ outcome = "terminated" => hostPhase = "terminated"
  /\ outcome = "stopped" => hostPhase = "stopped"

\* Termination racing a loop that continues, waits, stops, fails or unwinds: one
\* publisher, at most one late turn, and an outcome, a host phase and an answer
\* to every requester that agree with each other.
ReactorSafe ==
  /\ ReactorTypeOK
  /\ AcceptedIsHonoured /\ ExitedIsOver /\ OnePublisher
  /\ PromptTermination /\ PhaseAgrees

---------------------------------------------------------------------------
(* The inductive invariant behind ReactorSafe.                             *)

\* The control phase, the thread and the outcome end together.
EndsTogether ==
  /\ control = "exited" <=> runner = "done"
  /\ outcome = "none" <=> runner # "done"

\* What a requester was told is still true of the control phase.
ToldIsCurrent ==
  \A t \in Requesters :
    /\ told[t] = "exited" => control = "exited"
    /\ told[t] \in {"requested", "already_requested"} => control # "running"

\* Once a turn was late the loop finds the request before it steps again.
LateTurnIsLast == lateTurns # 0 => control # "running" /\ runner \notin {"new", "step"}

\* The host was told how it ends before the control phase is.
PhaseRecorded ==
  /\ runner = "terminate" => hostPhase = "terminated" /\ control = "requested"
  /\ runner = "stop" => hostPhase = "stopped"

ReactorInv == ReactorSafe /\ EndsTogether /\ ToldIsCurrent /\ LateTurnIsLast /\ PhaseRecorded

---------------------------------------------------------------------------

Lifecycle == INSTANCE ReactorLifecycle

\* The loop, the control mutex and its racing requesters implement the life cycle
\* that a group relies on for each member.
ImplementsLifecycle == Lifecycle!LifecycleSpec

\* A request whose wake succeeded ends a running reactor without any help from
\* the wait ceiling, wherever between two waits it arrives.
HeardTermination ==
  \A t \in Requesters :
    /\ told[t] = "requested" /\ request[t] = "done" /\ ~wakeError[t]
    /\ runner # "new"
    ~> runner = "done"

\* "A wake failure does not retract a first request": if waits also end at their
\* ceiling, every published termination ends the reactor, failed wakes included.
CeilingTerminates ==
  WF_reactorVars(TimedOut) => (control = "requested" /\ runner # "new" ~> runner = "done")

===========================================================================
