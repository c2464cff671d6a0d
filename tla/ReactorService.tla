--------------------------- MODULE ReactorService ---------------------------
(***************************************************************************)
(* A reactor whose duty serves a mailbox, composed of Mailbox and Reactor. *)
(*                                                                         *)
(* The duty is the one every user of the two writes, and the repository's  *)
(* own checksum service has (examples/checksum_service/service.rs,         *)
(* ChecksumShard::turn): drain up to a budget, close the mailbox when a    *)
(* Stop command came, and turn the drain's status into a Next.  The mailbox*)
(* and the termination each have a wake domain of their own on the same    *)
(* ThreadParker, as in member(): the parker's token is both the mailbox's  *)
(* `signal` and the reactor's `token`.                                     *)
(***************************************************************************)
EXTENDS Mailbox

CONSTANTS
  Requesters, WaitCeiling,   \* of Reactor
  StopItems                  \* the items that are Command::Stop

ASSUME ServiceConstants ==
  /\ StopItems \subseteq Items
  /\ WaitCeiling \in Nat

VARIABLES
  control, runner, hostPhase, next, outcome, request, told, wakeError, lateTurns,
  turnAt,     \* where ChecksumShard::turn is: out, drained, closing
  seen        \* how many removed items of each lane apply_scratch has gone over

R == INSTANCE Reactor WITH token <- signal

\* What Reactor's actions leave to this module, the token apart.
runVars ==
  <<control, runner, hostPhase, next, outcome, request, told, wakeError, lateTurns>>
turnVars == <<turnAt, seen>>
mailboxOnly ==
  <<phase, call, ack, issued, covered, lockVars, stateVars, historyVars>>
serviceVars == <<mailboxVars, runVars, turnVars>>

ServiceInit ==
  /\ MailboxInit
  /\ R!ReactorInit
  /\ hostPhase = "running"
  /\ turnAt = "out"
  /\ seen = [l \in Lanes |-> 0]

---------------------------------------------------------------------------
(* A plausible mistake, substituted for NextFor.                           *)

\* The duty sleeps on what its budget did not cover.
NextForSleeps(stopping) ==
  IF stopping \/ status = "closed" THEN "stop" ELSE "wake"

---------------------------------------------------------------------------
(* ChecksumShard::turn                                                     *)

\* Command::Stop is among the commands drained since the last apply_scratch.
Stopping ==
  \E l \in Lanes : \E n \in (seen[l] + 1) .. Len(removed[l]) : removed[l][n] \in StopItems

NextFor(stopping) ==
  CASE stopping \/ status = "closed" -> "stop"
    [] ~stopping /\ status = "more_pending" -> "now"
    [] OTHER -> "wake"

BeginTurn(limit) ==
  /\ runner = "turn"
  /\ turnAt = "out"
  /\ Drain(limit)
  /\ turnAt' = "drained"
  /\ UNCHANGED <<runVars, seen>>

EndTurnWith(stopping) ==
  /\ R!EndTurn(NextFor(stopping))
  /\ turnAt' = "out"
  /\ seen' = [l \in Lanes |-> Len(removed[l])]
  /\ UNCHANGED mailboxOnly

\* apply_scratch after drain_into: nothing to stop for, or close the mailbox.
ApplyDrained ==
  /\ turnAt = "drained"
  /\ owner = "idle"
  /\ \/ /\ ~Stopping
        /\ EndTurnWith(FALSE)
     \/ /\ Stopping
        /\ Close(FALSE)
        /\ turnAt' = "closing"
        /\ UNCHANGED <<runVars, seen>>

\* apply_scratch over what close() returned.
ApplyClosed ==
  /\ turnAt = "closing"
  /\ owner = "idle"
  /\ EndTurnWith(TRUE)

\* The critical sections of drain_into and close.
ReceiverStep ==
  /\ Pop \/ EndPop \/ EndDrain \/ CloseDrain \/ EndClose \/ LockedAck
  /\ UNCHANGED <<runVars, turnVars>>

\* The exited reactor hands the duty back and its receiver is dropped.
DropReceiver ==
  /\ runner = "done"
  /\ owner = "idle"
  /\ Close(TRUE)
  /\ UNCHANGED <<runVars, turnVars>>

---------------------------------------------------------------------------
(* The rest of the reactor's thread, and everybody else                    *)

LoopStep ==
  /\ \/ R!CheckTermination \/ R!BeginStep \/ R!Recheck \/ R!EnterWait
     \/ \E remaining \in {0, 1} : R!EndStep(remaining)
     \/ R!FinishStop \/ R!FinishTerminate \/ R!FinishFail
  /\ UNCHANGED <<mailboxOnly, turnVars>>

OtherRunStep ==
  /\ R!Run \/ R!DropUnrun \/ R!TimedOut
  /\ UNCHANGED <<mailboxOnly, turnVars>>

NotifiedStep == R!Notified /\ UNCHANGED <<mailboxOnly, turnVars>>

RequestStep(t) ==
  /\ R!PublishTermination(t) \/ R!CompleteTermination(t)
  /\ UNCHANGED <<mailboxOnly, turnVars>>

SenderCall(s) ==
  /\ \/ \E l \in Lanes, i \in Items : TrySend(s, l, i)
     \/ DropSender(s)
     \/ \E n \in Senders : Clone(s, n)
  /\ UNCHANGED <<runVars, turnVars>>

SenderStep(s) ==
  /\ Publish(s) \/ RefuseWake(s) \/ FinishDrop(s) \/ LockedWake(s)
  /\ UNCHANGED <<runVars, turnVars>>

DutyStep ==
  \/ \E limit \in DrainLimits : BeginTurn(limit)
  \/ ReceiverStep \/ ApplyDrained \/ ApplyClosed

ServiceNext ==
  \/ DutyStep \/ LoopStep \/ OtherRunStep \/ NotifiedStep \/ DropReceiver
  \/ \E t \in Requesters : RequestStep(t)
  \/ \E s \in Senders : SenderCall(s) \/ SenderStep(s)

\* The reactor's thread runs, a parked thread with a token resumes, and whoever
\* holds the mailbox's lock or has begun to wake the reactor goes on.  No
\* deadline and no wait ceiling ever expires by fairness.
ServiceSpec ==
  /\ ServiceInit /\ [][ServiceNext]_serviceVars
  /\ WF_serviceVars(DutyStep \/ LoopStep)
  /\ WF_serviceVars(NotifiedStep)
  /\ \A t \in Requesters : WF_serviceVars(request[t] = "wake" /\ RequestStep(t))
  /\ \A s \in Senders : WF_serviceVars(SenderStep(s))

---------------------------------------------------------------------------
(* Properties                                                              *)

ServiceTypeOK ==
  /\ MailboxTypeOK
  /\ R!ReactorTypeOK
  /\ turnAt \in {"out", "drained", "closing"}
  /\ seen \in [Lanes -> Nat]

\* No lost wake-up: a reactor that parks with no token pending has either nothing
\* to do, or is about to be notified by somebody who is inside a call.
ParkedIsQuiet ==
  runner = "parked" /\ ~signal =>
    /\ Empty
    /\ \/ control = "running"
       \/ \E t \in Requesters : request[t] = "wake" \/ wakeError[t]

\* In every state of the composition the two components hold what they need, and
\* no wake-up of either domain is lost.
ServiceSafe == ServiceTypeOK /\ ParkedIsQuiet

\* Accepted cross-thread work has a progress path of notifications alone: as long
\* as the reactor runs, everything try_send accepted is taken from the mailbox.
AcceptedIsServed ==
  \A i \in Items :
    (\E l \in Lanes : i \in Elements(accepted[l])) /\ runner # "new"
      ~> runner = "done" \/ \E l \in Lanes : i \in Elements(removed[l])

\* The departure of the last sender whose wake succeeded ends the reactor.
LastDropStops ==
  senders = 0 /\ failedDrops = 0 /\ runner # "new" ~> runner = "done"

---------------------------------------------------------------------------
(* The inductive invariant behind ServiceSafe, on top of MailboxInv.       *)

\* The turn, the loop and the mailbox agree on how far a turn has come: only a
\* drain that answered decides what follows, only "wake" waits, and a mailbox
\* closed by the duty is closed on the way out.
TurnInv ==
  /\ turnAt # "out" => runner = "turn"
  /\ turnAt = "drained" /\ owner = "idle" => status # "none"
  /\ next \in {"now", "wake", "stop"}
  /\ runner \in {"recheck", "wait", "parked"} => next = "wake"
  /\ ~receiverAlive =>
       \/ turnAt = "closing"
       \/ runner = "observe" /\ next = "stop"
       \/ runner \in {"stop", "fail", "done"}

\* The duty has acknowledged and found both lanes empty, and since then the
\* reactor has not consumed a notification.
Unconsumed ==
  \/ turnAt = "drained" /\ owner = "ack" /\ ack = "done"
  \/ turnAt = "drained" /\ owner = "idle" /\ status = "idle"
  \/ runner \in {"observe", "recheck", "wait", "parked"} /\ next = "wake"

\* Every wake of the mailbox since that acknowledgement is still pending.
TokenHeld == Unconsumed /\ issued > 0 => signal

\* A request published after the last look at the control phase is about to be
\* announced, was announced, or could not be.
RequestHeard ==
  control = "requested" /\ runner \in {"wait", "parked"} =>
    \/ signal
    \/ \E t \in Requesters : request[t] = "wake" \/ wakeError[t]

ServiceInv ==
  /\ MailboxInv /\ LaneInv
  /\ ServiceTypeOK /\ R!EndsTogether
  /\ TurnInv /\ TokenHeld /\ RequestHeard

=============================================================================
