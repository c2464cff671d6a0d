---------------------------- MODULE ReactorGroup ----------------------------
(***************************************************************************)
(* A static group of reactors (crates/calandria/src/reactor/group): gated  *)
(* startup that can be taken back, ingress behind one admission flag and a *)
(* fence per shard, fail-closed termination, and a supervisor that collects*)
(* every member.                                                           *)
(*                                                                         *)
(* The members' run() is the abstract ReactorLifecycle, their mailboxes    *)
(* accept or refuse as they like.  Each access to the admission flag, each *)
(* acquisition of a fence or of a control mutex is an action.              *)
(***************************************************************************)
EXTENDS Naturals, Sequences, FiniteSets

CONSTANTS
  Topologies,    \* the identities members may declare, in order of position
  Limit,         \* ReactorGroupLimits.reactors
  Clients,       \* threads with a ReactorGroupHandle
  Requesters,    \* threads that call request_termination, once each
  MaxSends,      \* bound on the sends of one client
  Supervisor     \* the thread of supervise()

ASSUME GroupConstants ==
  /\ Limit \in Nat \ {0}
  /\ MaxSends \in Nat
  /\ \A ids \in Topologies : ids \in Seq(Nat)
  /\ Supervisor \notin Requesters \cup Nat
  /\ Requesters \cap Nat = {}
  /\ "none" \notin Clients

Ids == 0 .. Limit - 1
NoReactor == Limit

\* ReactorGroupMemberExit, with the outcome of the reactor that exited.
MemberExits == {"stopped", "terminated", "failed"} \cup {"panicked"}

\* ReactorGroupOutcome; the fatal ones name the reactor.
GroupOutcomes == {"stopped", "terminated", "failed", "panicked"}
Closers == Requesters \cup Ids \cup {Supervisor}

VARIABLES
  spawner,      \* where spawn() is
  members,      \* ReactorId of every member of the group being spawned
  gate,         \* StartGate.decision
  worker,       \* worker[r]: where the thread of reactor r is
  slot,         \* the reactors whose ReactorSlot still holds them
  joined,       \* workers that an aborting spawn() has joined
  known,        \* Pending.workers: the workers that spawn() can join
  control,      \* control[r]: ReactorControl of r
  result,       \* result[r]: ReactorGroupMemberExit, or aborted
  completed,    \* the channel of completed identities
  supervisor,   \* where supervise() is
  exits,        \* the members whose exit it has collected
  groupOutcome, \* ReactorGroupOutcome
  open,         \* admission::Shared.open
  fence,        \* fence[r]: the client that holds Shard.admission, or none
  sending,      \* sending[c]: where client c is in try_send
  target,       \* target[c]: the identity it sends to
  sends,        \* history: try_send calls of each client
  admitted,     \* history: items the mailboxes accepted
  stage,        \* stage[p]: where p is in close() and request_termination()
  at,           \* at[p]: the position its loop is at
  carried,      \* carried[p]: the wakes p's PublishedTerminations carry
  asked         \* history: the reactors for which some caller was told Requested

spawnVars == <<spawner, members, gate, joined, known>>
workerVars == <<worker, slot, result, completed>>
superVars == <<supervisor, exits, groupOutcome>>
sendVars == <<fence, sending, target, sends, admitted>>
closeVars == <<stage, at, carried>>
groupVars ==
  <<spawnVars, workerVars, superVars, sendVars, closeVars, control, open, asked>>

Fatal == {"failed", "panicked"}
Started == spawner = "started"

\* Whoever holds an Arc of the admission state, apart from spawn() itself.
Holders == {r \in members : worker[r] \notin {"none", "ended"}}

GroupInit ==
  /\ spawner = "validate"
  /\ members = {}
  /\ gate = "none"
  /\ worker = [r \in Ids |-> "none"]
  /\ slot = {}
  /\ joined = {}
  /\ known = {}
  /\ control = [r \in Ids |-> "running"]
  /\ result = [r \in Ids |-> "none"]
  /\ completed = <<>>
  /\ supervisor = "none"
  /\ exits = {}
  /\ groupOutcome = [kind |-> "none", id |-> NoReactor]
  /\ open = TRUE
  /\ fence = [r \in Ids |-> "none"]
  /\ sending = [c \in Clients |-> "out"]
  /\ target = [c \in Clients |-> NoReactor]
  /\ sends = [c \in Clients |-> 0]
  /\ admitted = 0
  /\ stage = [p \in Closers |-> "out"]
  /\ at = [p \in Closers |-> 0]
  /\ carried = [p \in Closers |-> {}]
  /\ asked = {}

---------------------------------------------------------------------------
(* ReactorGroup::spawn                                                     *)

\* validate(): not empty, within the limit, identities equal positions.
Valid(ids) ==
  /\ Len(ids) > 0
  /\ Len(ids) <= Limit
  /\ \A n \in 1 .. Len(ids) : ids[n] = n - 1

Spawn(ids) ==
  /\ spawner = "validate"
  /\ IF Valid(ids)
     THEN /\ spawner' = "workers"
          /\ members' = 0 .. Len(ids) - 1
          /\ slot' = members'
     ELSE spawner' = "rejected" /\ UNCHANGED <<members, slot>>
  /\ UNCHANGED <<gate, joined, known, worker, result, completed, superVars, sendVars, closeVars,
                 control, open, asked>>

\* Threads are started in order; the first that cannot be ends the attempt.
SpawnWorker(r) ==
  /\ spawner = "workers"
  /\ r = Cardinality(known)
  /\ r \in members
  /\ \/ /\ worker' = [worker EXCEPT ![r] = "gated"]
        /\ known' = known \cup {r}
        /\ UNCHANGED spawner
     \/ /\ spawner' = "abort"
        /\ UNCHANGED <<worker, known>>
  /\ UNCHANGED <<members, gate, joined, slot, result, completed, superVars, sendVars, closeVars,
                 control, open, asked>>

---------------------------------------------------------------------------
(* Plausible mistakes in this code, substituted one at a time for the      *)
(* definition they are named after to show that the properties notice.     *)

\* The flag is not read again behind the fence.
RecheckNothing(c) ==
  /\ sending[c] = "fenced"
  /\ sending' = [sending EXCEPT ![c] = "admit"]
  /\ UNCHANGED <<fence, target, sends, admitted, spawnVars, workerVars, superVars, closeVars,
                 control, open, asked>>

\* Only typed failures are fatal.
IsFatalForgetsPanics(how) == how = "failed"

\* A member that stops by itself does not look whether it was asked to.
StopOutcomeAlways(asking) == "stopped"

\* Only a group that was terminated as a whole counts as terminated.
AggregateAll(res) ==
  LET lowest(kind) == CHOOSE r \in members : res[r] = kind /\ \A q \in members : res[q] = kind => r <= q
  IN  CASE \E r \in members : res[r] = "panicked" -> [kind |-> "panicked", id |-> lowest("panicked")]
        [] (\A r \in members : res[r] # "panicked") /\ (\E r \in members : res[r] = "failed")
             -> [kind |-> "failed", id |-> lowest("failed")]
        [] \A r \in members : res[r] = "terminated" -> [kind |-> "terminated", id |-> NoReactor]
        [] OTHER -> [kind |-> "stopped", id |-> NoReactor]

\* Only fatal members report their completion.
ReportFatalOnly(r) ==
  /\ worker[r] = "finishing"
  /\ worker' = [worker EXCEPT ![r] = "sent"]
  /\ completed' = IF result[r] \in Fatal THEN Append(completed, r) ELSE completed
  /\ UNCHANGED <<slot, result, spawnVars, superVars, sendVars, closeVars, control, open, asked>>

---------------------------------------------------------------------------

\* A supervisor that cannot be started gives its assets back.
SpawnSupervisor ==
  /\ spawner = "workers"
  /\ known = members
  /\ \/ /\ supervisor' = "recv"
        /\ spawner' = "start"
        /\ known' = {}
     \/ /\ spawner' = "abort"
        /\ UNCHANGED <<supervisor, known>>
  /\ UNCHANGED <<members, gate, joined, workerVars, exits, groupOutcome, sendVars, closeVars,
                 control, open, asked>>

StartGroup ==
  /\ spawner = "start"
  /\ spawner' = "started"
  /\ gate' = "start"
  /\ UNCHANGED <<members, joined, known, workerVars, superVars, sendVars, closeVars, control, open,
                 asked>>

\* Pending::abort: tell the workers, join them, and take everything back.
Abort ==
  /\ spawner = "abort"
  /\ spawner' = "join"
  /\ gate' = "abort"
  /\ UNCHANGED <<members, joined, known, workerVars, superVars, sendVars, closeVars, control, open,
                 asked>>

JoinAborted(r) ==
  /\ spawner = "join"
  /\ r \in known \ joined
  /\ worker[r] = "ended"
  /\ joined' = joined \cup {r}
  /\ spawner' = IF result[r] = "aborted" THEN "join" ELSE "panic"
  /\ UNCHANGED <<members, gate, known, workerVars, superVars, sendVars, closeVars, control, open,
                 asked>>

\* take_reactor of every slot, and into_senders, which must be the last Arc.
ReturnMembers ==
  /\ spawner = "join"
  /\ joined = known
  /\ spawner' = IF slot = members /\ Holders = {} THEN "failed" ELSE "panic"
  /\ slot' = {}
  /\ UNCHANGED <<members, gate, joined, known, worker, result, completed, superVars, sendVars,
                 closeVars, control, open, asked>>

---------------------------------------------------------------------------
(* The worker threads                                                      *)

PassGate(r) ==
  /\ worker[r] = "gated"
  /\ gate # "none"
  /\ IF gate = "start"
     THEN /\ worker' = [worker EXCEPT ![r] = "running"]
          /\ slot' = slot \ {r}
          /\ UNCHANGED result
     ELSE /\ worker' = [worker EXCEPT ![r] = "ended"]
          /\ result' = [result EXCEPT ![r] = "aborted"]
          /\ UNCHANGED slot
  /\ UNCHANGED <<completed, spawnVars, superVars, sendVars, closeVars, control, open, asked>>

IsFatal(how) == how \in Fatal

\* control.finish() decides how a stop is told.
StopOutcome(asking) == IF asking THEN "terminated" ELSE "stopped"

\* run() returns or unwinds; a fatal member terminates the group.
RunEnds(r, how) ==
  /\ worker[r] = "running"
  /\ how = "terminated" => control[r] = "requested"
  /\ LET told == IF how = "stopped" THEN StopOutcome(control[r] = "requested") ELSE how
     IN  /\ result' = [result EXCEPT ![r] = told]
         /\ IF IsFatal(told)
            THEN /\ worker' = [worker EXCEPT ![r] = "terminating"]
                 /\ stage' = [stage EXCEPT ![r] = "close"]
            ELSE /\ worker' = [worker EXCEPT ![r] = "finishing"]
                 /\ UNCHANGED stage
  /\ control' = [control EXCEPT ![r] = "exited"]
  /\ UNCHANGED <<slot, completed, spawnVars, superVars, sendVars, at, carried, open, asked>>

Terminated(r) ==
  /\ worker[r] = "terminating"
  /\ stage[r] = "done"
  /\ worker' = [worker EXCEPT ![r] = "finishing"]
  /\ UNCHANGED <<slot, result, completed, spawnVars, superVars, sendVars, closeVars, control, open,
                 asked>>

\* Completion::drop.  The channel holds every member, so send() never blocks.
ReportCompletion(r) ==
  /\ worker[r] = "finishing"
  /\ worker' = [worker EXCEPT ![r] = "sent"]
  /\ completed' = Append(completed, r)
  /\ UNCHANGED <<slot, result, spawnVars, superVars, sendVars, closeVars, control, open, asked>>

EndWorker(r) ==
  /\ worker[r] = "sent"
  /\ worker' = [worker EXCEPT ![r] = "ended"]
  /\ UNCHANGED <<slot, result, completed, spawnVars, superVars, sendVars, closeVars, control, open,
                 asked>>

---------------------------------------------------------------------------
(* close() and request_termination(), by a user, a fatal worker or, close() *)
(* alone, the supervisor                                                   *)

RequestTermination(p) ==
  /\ Started
  /\ p \in Requesters
  /\ stage[p] = "out"
  /\ stage' = [stage EXCEPT ![p] = "close"]
  /\ UNCHANGED <<at, carried, spawnVars, workerVars, superVars, sendVars, control, open, asked>>

CloseFlag(p) ==
  /\ stage[p] = "close"
  /\ open' = FALSE
  /\ stage' = [stage EXCEPT ![p] = "fence"]
  /\ at' = [at EXCEPT ![p] = 0]
  /\ UNCHANGED <<carried, spawnVars, workerVars, superVars, sendVars, control, asked>>

\* Through every fence once; then close() returns.
PassFence(p) ==
  /\ stage[p] = "fence"
  /\ \/ /\ at[p] \in members
        /\ fence[at[p]] = "none"
        /\ at' = [at EXCEPT ![p] = @ + 1]
        /\ UNCHANGED stage
     \/ /\ at[p] \notin members
        /\ at' = [at EXCEPT ![p] = 0]
        /\ stage' = [stage EXCEPT ![p] = IF p = Supervisor THEN "done" ELSE "publish"]
  /\ UNCHANGED <<carried, spawnVars, workerVars, superVars, sendVars, control, open, asked>>

PublishOne(p) ==
  /\ stage[p] = "publish"
  /\ at[p] \in members
  /\ control' = [control EXCEPT ![at[p]] = IF @ = "running" THEN "requested" ELSE @]
  /\ asked' = IF control[at[p]] = "running" THEN asked \cup {at[p]} ELSE asked
  /\ carried' = [carried EXCEPT ![p] = IF control[at[p]] = "running" THEN @ \cup {at[p]} ELSE @]
  /\ at' = [at EXCEPT ![p] = @ + 1]
  /\ UNCHANGED <<stage, spawnVars, workerVars, superVars, sendVars, open>>

PublishedAll(p) ==
  /\ stage[p] = "publish"
  /\ at[p] \notin members
  /\ stage' = [stage EXCEPT ![p] = "wake"]
  /\ at' = [at EXCEPT ![p] = 0]
  /\ UNCHANGED <<carried, spawnVars, workerVars, superVars, sendVars, control, open, asked>>

\* PublishedTermination::complete, one after the other; what a wake achieves is
\* Reactor's matter.
WakeOne(p) ==
  /\ stage[p] = "wake"
  /\ \/ /\ carried[p] = {}
        /\ stage' = [stage EXCEPT ![p] = "done"]
        /\ UNCHANGED carried
     \/ /\ \E r \in carried[p] :
             /\ \A q \in carried[p] : r <= q
             /\ carried' = [carried EXCEPT ![p] = @ \ {r}]
        /\ UNCHANGED stage
  /\ UNCHANGED <<at, spawnVars, workerVars, superVars, sendVars, control, open, asked>>

CloseStep(p) == CloseFlag(p) \/ PassFence(p) \/ PublishOne(p) \/ PublishedAll(p) \/ WakeOne(p)

---------------------------------------------------------------------------
(* ReactorGroupHandle::try_send and its variants                           *)

\* The first look at the flag, and the identity.
TrySend(c, r) ==
  /\ Started
  /\ sending[c] = "out"
  /\ sends[c] < MaxSends
  /\ sends' = [sends EXCEPT ![c] = @ + 1]
  /\ IF open /\ r \in members
     THEN /\ target' = [target EXCEPT ![c] = r]
          /\ sending' = [sending EXCEPT ![c] = "lock"]
     ELSE UNCHANGED <<target, sending>>
  /\ UNCHANGED <<fence, admitted, spawnVars, workerVars, superVars, closeVars, control, open, asked>>

LockFence(c) ==
  /\ sending[c] = "lock"
  /\ fence[target[c]] = "none"
  /\ fence' = [fence EXCEPT ![target[c]] = c]
  /\ sending' = [sending EXCEPT ![c] = "fenced"]
  /\ UNCHANGED <<target, sends, admitted, spawnVars, workerVars, superVars, closeVars, control,
                 open, asked>>

LeaveSend(c) ==
  /\ sending' = [sending EXCEPT ![c] = "out"]
  /\ target' = [target EXCEPT ![c] = NoReactor]
  /\ fence' = [fence EXCEPT ![target[c]] = "none"]

\* The second look at the flag; leaving try_send releases the fence.
Recheck(c) ==
  /\ sending[c] = "fenced"
  /\ IF open
     THEN sending' = [sending EXCEPT ![c] = "admit"] /\ UNCHANGED <<fence, target>>
     ELSE LeaveSend(c)
  /\ UNCHANGED <<sends, admitted, spawnVars, workerVars, superVars, closeVars, control,
                 open, asked>>

\* The shard's mailbox accepts or refuses, under the fence.
AskMailbox(c) ==
  /\ sending[c] = "admit"
  /\ admitted' \in {admitted, admitted + 1}
  /\ LeaveSend(c)
  /\ UNCHANGED <<sends, spawnVars, workerVars, superVars, closeVars, control, open, asked>>

SendStep(c) == LockFence(c) \/ Recheck(c) \/ AskMailbox(c)

---------------------------------------------------------------------------
(* supervise()                                                             *)

\* recv() panics when every sender is gone; workers[position] was taken once.
ReceiveCompletion ==
  /\ supervisor = "recv"
  /\ exits # members
  /\ \/ /\ completed # <<>>
        /\ supervisor' = IF Head(completed) \in exits THEN "panic" ELSE "join"
        /\ UNCHANGED completed
     \/ /\ completed = <<>>
        /\ \A r \in members : worker[r] = "ended"
        /\ supervisor' = "panic"
        /\ UNCHANGED completed
  /\ UNCHANGED <<exits, groupOutcome, worker, slot, result, spawnVars, sendVars, closeVars, control,
                 open, asked>>

\* join() cannot fail here: run() is under catch_unwind, and what a worker does
\* after it unwinds only if a WakeSource panics, which its contract forbids.
JoinWorker ==
  /\ supervisor = "join"
  /\ worker[Head(completed)] = "ended"
  /\ supervisor' = IF result[Head(completed)] = "aborted" THEN "panic" ELSE "recv"
  /\ exits' = exits \cup {Head(completed)}
  /\ completed' = Tail(completed)
  /\ UNCHANGED <<groupOutcome, worker, slot, result, spawnVars, sendVars, closeVars, control, open,
                 asked>>

\* All collected: close admission, for a group that stopped gracefully.
CloseAdmission ==
  /\ supervisor = "recv"
  /\ exits = members
  /\ supervisor' = "close"
  /\ stage' = [stage EXCEPT ![Supervisor] = "close"]
  /\ UNCHANGED <<exits, groupOutcome, workerVars, spawnVars, sendVars, at, carried, control, open,
                 asked>>

\* aggregate(): panics, then failures, then terminations; the lowest identity.
Aggregate(res) ==
  LET lowest(kind) == CHOOSE r \in members : res[r] = kind /\ \A q \in members : res[q] = kind => r <= q
      some(kind) == \E r \in members : res[r] = kind
  IN  CASE some("panicked") -> [kind |-> "panicked", id |-> lowest("panicked")]
        [] ~some("panicked") /\ some("failed") -> [kind |-> "failed", id |-> lowest("failed")]
        [] ~some("panicked") /\ ~some("failed") /\ some("terminated")
             -> [kind |-> "terminated", id |-> NoReactor]
        [] OTHER -> [kind |-> "stopped", id |-> NoReactor]

FinishSupervision ==
  /\ supervisor = "close"
  /\ stage[Supervisor] = "done"
  /\ supervisor' = "done"
  /\ groupOutcome' = Aggregate(result)
  /\ UNCHANGED <<exits, workerVars, spawnVars, sendVars, closeVars, control, open, asked>>

---------------------------------------------------------------------------

SpawnStep ==
  \/ SpawnSupervisor \/ StartGroup \/ Abort \/ ReturnMembers
  \/ \E r \in Ids : SpawnWorker(r) \/ JoinAborted(r)

WorkerStep(r) == PassGate(r) \/ Terminated(r) \/ ReportCompletion(r) \/ EndWorker(r)

RunEndsSomehow(r) == \E how \in {"stopped", "terminated", "failed", "panicked"} : RunEnds(r, how)

SuperviseStep == ReceiveCompletion \/ JoinWorker \/ CloseAdmission \/ FinishSupervision

GroupNext ==
  \/ \E ids \in Topologies : Spawn(ids)
  \/ SpawnStep \/ SuperviseStep
  \/ \E r \in Ids : WorkerStep(r) \/ RunEndsSomehow(r)
  \/ \E p \in Closers : RequestTermination(p) \/ CloseStep(p)
  \/ \E c \in Clients : SendStep(c) \/ \E r \in Ids \cup {NoReactor} : TrySend(c, r)

GroupSpec == GroupInit /\ [][GroupNext]_groupVars

\* Every thread inside one of these functions goes on, and a reactor that was
\* asked to terminate ends (Reactor!CeilingTerminates).  No duty has to stop.
FairGroupSpec ==
  /\ GroupSpec
  /\ WF_groupVars(SpawnStep)
  /\ WF_groupVars(SuperviseStep)
  /\ \A r \in Ids : WF_groupVars(WorkerStep(r))
  /\ \A r \in Ids : WF_groupVars(control[r] = "requested" /\ RunEndsSomehow(r))
  /\ \A p \in Closers : WF_groupVars(CloseStep(p))
  /\ \A c \in Clients : WF_groupVars(SendStep(c))

---------------------------------------------------------------------------
(* Properties                                                              *)

GroupTypeOK ==
  /\ spawner \in {"validate", "workers", "start", "started", "abort", "join", "failed", "rejected",
                  "panic"}
  /\ members \subseteq Ids
  /\ gate \in {"none", "start", "abort"}
  /\ worker \in [Ids -> {"none", "gated", "running", "terminating", "finishing", "sent", "ended"}]
  /\ slot \subseteq members /\ joined \subseteq members /\ known \subseteq members
  /\ control \in [Ids -> {"running", "requested", "exited"}]
  /\ result \in [Ids -> {"none", "aborted"} \cup MemberExits]
  /\ completed \in Seq(Ids) /\ Len(completed) <= Limit
  /\ supervisor \in {"none", "recv", "join", "close", "done", "panic"}
  /\ exits \subseteq members
  /\ groupOutcome.kind \in {"none"} \cup GroupOutcomes
  /\ groupOutcome.id \in members \cup {NoReactor}
  /\ open \in BOOLEAN
  /\ fence \in [Ids -> Clients \cup {"none"}]
  /\ sending \in [Clients -> {"out", "lock", "fenced", "admit"}]
  /\ target \in [Clients -> Ids \cup {NoReactor}]
  /\ stage \in [Closers -> {"out", "close", "fence", "publish", "wake", "done"}]
  /\ carried \in [Closers -> SUBSET Ids]
  /\ asked \subseteq members

\* Startup ownership: whatever fails to start, no slot is found empty, no Arc of
\* the ingress is still held, no worker ran that was to be aborted, and the
\* supervisor meets every completion once: none of their panics is reachable.
NoGroupPanic == spawner # "panic" /\ supervisor # "panic"

\* "It publishes every framework termination before running best-effort wakes":
\* a slow or blocking wake of one reactor delays the termination of no other.
PublishedBeforeWakes ==
  \A p \in Requesters \cup Ids :
    stage[p] \in {"wake", "done"} => \A r \in members : control[r] # "running"

\* A group that says it stopped gracefully was never successfully asked to
\* terminate, and one that says it was terminated had no fatal member.
OutcomeIsHonest ==
  /\ groupOutcome.kind = "stopped" => asked = {}
  /\ groupOutcome.kind = "terminated" => \A r \in members : result[r] \notin Fatal

\* Whichever thread fails to start, whoever closes first and in whatever order
\* members end: ownership, termination order and the outcome stay coherent.
GroupSafe == GroupTypeOK /\ NoGroupPanic /\ PublishedBeforeWakes /\ OutcomeIsHonest

\* The fence: once anybody's close() has returned, no send that was already under
\* way, past its first look at the flag, is accepted any more.
AdmissionFence ==
  [][(\E p \in Closers : stage[p] \in {"publish", "wake", "done"}) => UNCHANGED admitted]_groupVars

---------------------------------------------------------------------------
(* The inductive invariant behind GroupSafe, AdmissionFence and            *)
(* MembersAreReactors.                                                     *)

\* Members have consecutive identities, so a loop over positions meets them all.
Contiguous == \A r \in members, q \in Ids : q < r => q \in members

\* The start gate tells how far spawn() has come, and a group that is not started
\* still owns every reactor and can join every worker.
StartupInv ==
  /\ gate = "start" <=> Started
  /\ gate = "abort" <=> spawner \in {"join", "failed"}
  /\ supervisor # "none" <=> spawner \in {"start", "started"}
  /\ members = {} <=> spawner \in {"validate", "rejected"}
  /\ gate # "start" /\ spawner # "failed" => slot = members
  /\ IF spawner \in {"start", "started"}
     THEN known = {} /\ \A r \in members : worker[r] # "none"
     ELSE \A r \in Ids : worker[r] # "none" <=> r \in known
  /\ gate # "abort" => joined = {}
  /\ \A r \in joined : worker[r] = "ended"

\* A worker thread's progress, its result and its control cell agree.
WorkerInv ==
  \A r \in Ids :
    /\ worker[r] # "none" => r \in members
    /\ gate = "none" => worker[r] \in {"none", "gated"}
    /\ gate = "abort" => worker[r] \in {"none", "gated", "ended"}
    /\ result[r] = "none" <=> worker[r] \in {"none", "gated", "running"}
    /\ result[r] = "aborted" <=> gate = "abort" /\ worker[r] = "ended"
    /\ control[r] = "exited" <=> result[r] \in MemberExits

Reported == {completed[k] : k \in DOMAIN completed}

\* Every worker that has reported is in the channel or collected, and only once.
CollectedInv ==
  /\ gate # "start" => completed = <<>> /\ exits = {}
  /\ Started => \A r \in members : worker[r] \in {"sent", "ended"} <=> r \in exits \cup Reported
  /\ Reported \subseteq members \ exits
  /\ \A j, k \in DOMAIN completed : completed[j] = completed[k] => j = k
  /\ \A r \in exits : worker[r] = "ended"
  /\ supervisor = "join" => completed # <<>>
  /\ supervisor \in {"close", "done"} => exits = members
  /\ groupOutcome.kind # "none" => supervisor = "done"

\* Who is inside close() or request_termination(), and how far its loop has come.
CloserInv ==
  /\ at \in [Closers -> Nat]
  /\ \A p \in Closers :
       /\ stage[p] # "out" => Started
       /\ p \in Ids /\ stage[p] # "out" => worker[p] \notin {"none", "gated", "running"}
       /\ p = Supervisor => stage[p] \notin {"publish", "wake"}
       /\ stage[p] \in {"fence", "publish", "wake", "done"} => ~open
       /\ stage[p] = "publish" => \A r \in members : r < at[p] => control[r] # "running"

\* A send past its second look holds its fence, which no close() has passed yet.
FenceInv ==
  \A c \in Clients :
    /\ sending[c] # "out" => Started /\ target[c] \in members
    /\ sending[c] \in {"fenced", "admit"} => fence[target[c]] = c
    /\ sending[c] = "admit" =>
         \A p \in Closers :
           /\ stage[p] \notin {"publish", "wake", "done"}
           /\ stage[p] = "fence" => at[p] <= target[c]

\* A reactor that somebody was told is terminating does not report that it stopped.
AskedInv == \A r \in asked : control[r] # "running" /\ result[r] # "stopped"

GroupInv ==
  /\ GroupSafe /\ Contiguous /\ StartupInv /\ WorkerInv /\ CollectedInv /\ CloserInv
  /\ FenceInv /\ AskedInv

---------------------------------------------------------------------------

Member(r) == INSTANCE ReactorLifecycle WITH control <- control[r],
               outcome <- IF result[r] = "aborted" THEN "none" ELSE result[r]

\* Every step of the group is, for each member, a step that the reactor life cycle
\* allows, which Reactor implements.
MembersAreReactors ==
  [][\A r \in Ids : Member(r)!LifecycleNext \/ UNCHANGED Member(r)!lifecycleVars]_groupVars

\* Fail closed: a member that fails or panics brings the whole group to its end.
FailClosed == (\E r \in Ids : result[r] \in Fatal) ~> supervisor = "done"

\* No thread of the group waits for ever: spawn() returns, however many threads
\* could be started, and once every member has exited the supervisor finishes.
AllCollected ==
  /\ spawner \in {"workers", "abort"} ~> spawner \in {"started", "failed"}
  /\ Started /\ (\A r \in members : result[r] # "none") ~> supervisor = "done"

=============================================================================
