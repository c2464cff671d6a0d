----------------------------- MODULE Shutdown -----------------------------
(***************************************************************************)
(* The shutdown barrier (crates/calandria/src/shutdown): many requesters   *)
(* subscribe to one terminal authority; the first of them publishes the    *)
(* request with a callback that runs outside the lock and may fail or      *)
(* panic, while others wait on the condvar for its outcome.                *)
(*                                                                         *)
(* A critical section is one action; notify_all and the resolution of      *)
(* completions, which happen after unlocking, are actions of their own.    *)
(***************************************************************************)
EXTENDS Naturals, FiniteSets

CONSTANTS
  Threads,    \* the threads that call subscribe()
  Capacity,   \* capacity of the barrier
  MaxCalls    \* bound on the calls of one thread

ASSUME ShutdownConstants == Capacity \in Nat \ {0} /\ MaxCalls \in Nat

VARIABLES
  barrier,      \* State.phase
  subscribers,  \* State.subscribers, by the thread that owns the completion
  pc,           \* where each thread is in subscribe()
  outcome,      \* what the call will return once it has notified
  handle,       \* the completion of thread t: none, pending, ok or closed
  calls,        \* calls[t]: subscribe() calls of t
  completer,    \* the ShutdownCompleter: live; notify, resolve: inside complete/close; gone
  settled,      \* ShutdownCompleter.settled
  taken,        \* the subscribers settle() took out, still to be resolved
  published     \* history: request callbacks that returned Ok

shutdownVars ==
  <<barrier, subscribers, pc, outcome, handle, calls, completer, settled, taken, published>>

\* out, panic; check: about to lock; waiting: parked in the condvar; request:
\* running the callback; ok, err, unwind: it returned or panicked; notify;
\* return: about to resolve the own completer or drop it
Pcs == {"out", "check", "waiting", "request", "ok", "err", "unwind", "notify", "return", "panic"}
Outcomes == {"none", "subscribed", "completed", "closed", "full", "failed", "panicked"}

Terminal == barrier \in {"completed", "closed"}

\* The thread that moved the barrier to Requesting and has not finished that.
Requesting(t) == pc[t] \in {"request", "ok", "err", "unwind"}

ShutdownInit ==
  /\ barrier = "open"
  /\ subscribers = {}
  /\ pc = [t \in Threads |-> "out"]
  /\ outcome = [t \in Threads |-> "none"]
  /\ handle = [t \in Threads |-> "none"]
  /\ calls = [t \in Threads |-> 0]
  /\ completer = "live"
  /\ settled = FALSE
  /\ taken = {}
  /\ published = 0

Goto(t, where, what) ==
  /\ pc' = [pc EXCEPT ![t] = where]
  /\ outcome' = [outcome EXCEPT ![t] = what]

\* Everyone parked in the condvar looks again.
Released(pcs) == [u \in Threads |-> IF pcs[u] = "waiting" THEN "check" ELSE pcs[u]]

\* The arms of subscribe() for Phase::Requested and Phase::Open.
CheckRequested(t, full) ==
  /\ barrier = "requested"
  /\ IF full
     THEN Goto(t, "return", "full") /\ UNCHANGED subscribers
     ELSE Goto(t, "return", "subscribed") /\ subscribers' = subscribers \cup {t}
  /\ UNCHANGED barrier

CheckOpen(t) ==
  /\ barrier = "open"
  /\ barrier' = "requesting"
  /\ Goto(t, "request", "none")
  /\ UNCHANGED subscribers

---------------------------------------------------------------------------
(* Plausible mistakes in this code, substituted one at a time for the      *)
(* definition they are named after to show that the properties notice.     *)

\* The barrier publishes but does not keep the subscriber that published.
FinishForgetsFirst(t) ==
  /\ pc[t] = "ok"
  /\ IF barrier = "requesting"
     THEN barrier' = "requested" /\ Goto(t, "notify", "subscribed")
     ELSE Goto(t, "notify", barrier) /\ UNCHANGED barrier
  /\ UNCHANGED <<subscribers, handle, calls, completer, settled, taken, published>>

\* The waiters are not told that the attempt was given up.
AbortSilently(t) ==
  /\ pc[t] = "unwind"
  /\ barrier' = IF barrier = "requesting" THEN "open" ELSE barrier
  /\ Goto(t, "return", "panicked")
  /\ UNCHANGED <<subscribers, handle, calls, completer, settled, taken, published>>

---------------------------------------------------------------------------
(* ShutdownRequester                                                       *)

\* subscribe() makes a fresh completion.  A thread that holds a subscription
\* keeps it; one that was refused may call again.
Subscribe(t) ==
  /\ pc[t] = "out"
  /\ handle[t] = "none"
  /\ calls[t] < MaxCalls
  /\ calls' = [calls EXCEPT ![t] = @ + 1]
  /\ handle' = [handle EXCEPT ![t] = "pending"]
  /\ Goto(t, "check", "none")
  /\ UNCHANGED <<barrier, subscribers, completer, settled, taken, published>>

\* One turn of the loop, under the lock.
Check(t) ==
  /\ pc[t] = "check"
  /\ \/ CheckOpen(t)
     \/ CheckRequested(t, Cardinality(subscribers) >= Capacity)
     \/ /\ barrier = "requesting"
        /\ Goto(t, "waiting", "none")
        /\ UNCHANGED <<barrier, subscribers>>
     \/ /\ Terminal
        /\ Goto(t, "return", barrier)
        /\ UNCHANGED <<barrier, subscribers>>
  /\ UNCHANGED <<handle, calls, completer, settled, taken, published>>

\* The callback, outside the lock: Ok, Err or a panic.
Request(t) ==
  /\ pc[t] = "request"
  /\ \/ Goto(t, "ok", "none") /\ published' = published + 1
     \/ Goto(t, "err", "none") /\ UNCHANGED published
     \/ Goto(t, "unwind", "none") /\ UNCHANGED published
  /\ UNCHANGED <<barrier, subscribers, handle, calls, completer, settled, taken>>

FinishRequestSuccess(t) ==
  /\ pc[t] = "ok"
  /\ IF barrier = "requesting"
     THEN /\ barrier' = "requested"
          /\ subscribers' = subscribers \cup {t}
          /\ Goto(t, "notify", "subscribed")
     ELSE /\ IF Terminal THEN Goto(t, "notify", barrier) ELSE Goto(t, "panic", "none")
          /\ UNCHANGED <<barrier, subscribers>>
  /\ UNCHANGED <<handle, calls, completer, settled, taken, published>>

FinishRequestFailure(t) ==
  /\ pc[t] = "err"
  /\ IF barrier = "requesting"
     THEN barrier' = "open" /\ Goto(t, "notify", "failed")
     ELSE /\ IF Terminal THEN Goto(t, "notify", barrier) ELSE Goto(t, "panic", "none")
          /\ UNCHANGED barrier
  /\ UNCHANGED <<subscribers, handle, calls, completer, settled, taken, published>>

\* RequestAttempt::drop during the unwinding of the callback.
AbortRequest(t) ==
  /\ pc[t] = "unwind"
  /\ IF barrier = "requesting"
     THEN barrier' = "open" /\ Goto(t, "notify", "panicked")
     ELSE UNCHANGED barrier /\ Goto(t, "return", "panicked")
  /\ UNCHANGED <<subscribers, handle, calls, completer, settled, taken, published>>

NotifyAll(t) ==
  /\ pc[t] = "notify"
  /\ pc' = Released([pc EXCEPT ![t] = "return"])
  /\ UNCHANGED <<barrier, subscribers, outcome, handle, calls, completer, settled, taken,
                 published>>

\* The caller's own completer: completed when the barrier was, kept by the
\* barrier when subscribed, otherwise dropped together with the completion.
Return(t) ==
  /\ pc[t] = "return"
  /\ Goto(t, "out", outcome[t])
  /\ handle' = [handle EXCEPT ![t] = CASE outcome[t] = "subscribed" -> @
                                       [] outcome[t] = "completed" -> "ok"
                                       [] OTHER -> "none"]
  /\ UNCHANGED <<barrier, subscribers, calls, completer, settled, taken, published>>

SpuriousWakeup(t) ==
  /\ pc[t] = "waiting"
  /\ Goto(t, "check", "none")
  /\ UNCHANGED <<barrier, subscribers, handle, calls, completer, settled, taken, published>>

---------------------------------------------------------------------------
(* ShutdownCompleter                                                       *)

\* settle(terminal): the first terminal phase wins and takes the subscribers.
Settle(terminal) ==
  /\ completer = "live"
  /\ settled' = TRUE
  /\ barrier' = terminal
  /\ taken' = subscribers
  /\ subscribers' = {}
  /\ completer' = "notify"
  /\ UNCHANGED <<pc, outcome, handle, calls, published>>

\* complete(); a second call returns early.
Complete == ~settled /\ Settle("completed")

\* close(), or Drop: of a completed barrier it changes nothing.
Close ==
  \/ ~Terminal /\ Settle("closed")
  \/ /\ Terminal
     /\ completer = "live"
     /\ completer' = "gone"
     /\ settled' = TRUE
     /\ UNCHANGED <<barrier, subscribers, pc, outcome, handle, calls, taken, published>>

CompleterNotifies ==
  /\ completer = "notify"
  /\ completer' = "resolve"
  /\ pc' = Released(pc)
  /\ UNCHANGED <<barrier, subscribers, outcome, handle, calls, settled, taken, published>>

\* complete(()) or drop of one subscriber after the other.
Resolve(t) ==
  /\ completer = "resolve"
  /\ t \in taken
  /\ taken' = taken \ {t}
  /\ handle' = [handle EXCEPT ![t] = IF barrier = "completed" THEN "ok" ELSE "closed"]
  /\ UNCHANGED <<barrier, subscribers, pc, outcome, calls, completer, settled, published>>

\* complete() returns to its owner, close() consumed the completer.
CompleterReturns ==
  /\ completer = "resolve"
  /\ taken = {}
  /\ completer' = IF barrier = "completed" THEN "live" ELSE "gone"
  /\ UNCHANGED <<barrier, subscribers, pc, outcome, handle, calls, settled, taken, published>>

---------------------------------------------------------------------------

CallStep(t) ==
  \/ Check(t) \/ Request(t) \/ FinishRequestSuccess(t) \/ FinishRequestFailure(t)
  \/ AbortRequest(t) \/ NotifyAll(t) \/ Return(t)

CompleterStep == CompleterNotifies \/ CompleterReturns \/ \E t \in Threads : Resolve(t)

ShutdownNext ==
  \/ \E t \in Threads : Subscribe(t) \/ CallStep(t) \/ SpuriousWakeup(t)
  \/ Complete \/ Close \/ CompleterStep

ShutdownSpec == ShutdownInit /\ [][ShutdownNext]_shutdownVars

\* Threads inside a call keep running, the callback returns or panics, and a
\* completer inside complete() or close() finishes it.  Nobody has to settle.
FairShutdownSpec ==
  /\ ShutdownSpec
  /\ \A t \in Threads : WF_shutdownVars(CallStep(t))
  /\ WF_shutdownVars(CompleterStep)

---------------------------------------------------------------------------
(* Properties                                                              *)

ShutdownTypeOK ==
  /\ barrier \in {"open", "requesting", "requested", "completed", "closed"}
  /\ subscribers \subseteq Threads
  /\ pc \in [Threads -> Pcs]
  /\ outcome \in [Threads -> Outcomes]
  /\ handle \in [Threads -> {"none", "pending", "ok", "closed"}]
  /\ calls \in [Threads -> Nat]
  /\ completer \in {"live", "notify", "resolve", "gone"}
  /\ settled \in BOOLEAN
  /\ taken \subseteq Threads
  /\ published \in Nat

\* The thread that finishes a request finds the barrier requesting or settled:
\* the "request-success" and "request-failure" panics are unreachable.
NoShutdownPanic == \A t \in Threads : pc[t] # "panic"

\* The shutdown request is published at most once, however many callers race,
\* whichever callbacks failed or panicked before, and whenever the barrier settles.
PublishedOnce == published <= 1

\* A barrier never holds more subscribers than its capacity.
WithinCapacity == Cardinality(subscribers) + Cardinality(taken) <= Capacity

\* No subscriber is forgotten: a subscription that is still pending is one the
\* barrier holds, or one its completer is about to resolve.
NobodyForgotten ==
  \A t \in Threads :
    pc[t] = "out" /\ handle[t] = "pending" => t \in subscribers \cup taken

\* All subscribers see the same end: a completion resolves as completed exactly
\* when the barrier was completed, and never before.
OneVerdict ==
  \A t \in Threads :
    /\ handle[t] = "ok" => barrier = "completed"
    /\ handle[t] = "closed" => barrier = "closed"

\* However many callers race, whichever callbacks fail or panic and whenever the
\* barrier settles: one publication, no broken assertion, no subscriber too many,
\* forgotten or told another end than the rest.
ShutdownSafe ==
  /\ ShutdownTypeOK /\ NoShutdownPanic
  /\ PublishedOnce /\ WithinCapacity /\ NobodyForgotten /\ OneVerdict

---------------------------------------------------------------------------
(* The inductive invariant behind ShutdownSafe.                            *)

\* One thread at a time runs the callback, and only it can have published.
OneRequest ==
  /\ \A t, u \in Threads : Requesting(t) /\ Requesting(u) => t = u
  /\ barrier \in {"open", "requested"} => \A t \in Threads : ~Requesting(t)
  /\ barrier = "open" => published = 0
  /\ \A t \in Threads : pc[t] \in {"request", "err", "unwind"} => published = 0

\* Subscribers are held between publication and settling, then taken out once.
HeldUntilSettled ==
  /\ settled <=> Terminal
  /\ completer # "live" => Terminal
  /\ subscribers # {} => barrier = "requested"
  /\ taken # {} => Terminal
  /\ IsFiniteSet(subscribers) /\ IsFiniteSet(taken)

\* What a call is about to return is true: its verdict is the barrier's, and its
\* subscription is held.
ReturnIsTrue ==
  \A t \in Threads :
    /\ outcome[t] \in {"completed", "closed"} => barrier = outcome[t]
    /\ pc[t] \in {"notify", "return"} /\ outcome[t] = "subscribed" /\ handle[t] = "pending"
         => t \in subscribers \cup taken

ShutdownInv == ShutdownSafe /\ OneRequest /\ HeldUntilSettled /\ ReturnIsTrue

---------------------------------------------------------------------------

\* Nobody waits for ever: subscribe() returns although waiters are only woken
\* after the unlock, and once the barrier settles every subscription is resolved.
SubscribersResolved ==
  \A t \in Threads :
    /\ pc[t] = "check" ~> pc[t] = "out"
    /\ Terminal /\ t \in subscribers \cup taken ~> handle[t] # "pending"

===========================================================================
