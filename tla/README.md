# Calandria in TLA+

A model of the [calandria](../src) runtime: bounded mailboxes, coalesced wake-ups,
completions, shutdown barriers, the reactors and reactor groups that serve them,
timers, resources and readiness, and the deterministic simulator. Each module is
translated from the Rust source it names; TLC checks it on small instances and
TLAPS proves every safety and action property of the runs for every instance.

## 1. The system

`crates/calandria` is a library of owner-driven reactors. A *duty* is user code
that one thread (its owner) calls turn by turn; every other thread talks to it
through bounded channels and wake handles. `crates/calandria-mio` is a readiness
poller on Mio, `crates/calandria-sim` a deterministic simulator.

| Component | State | Operations | Hard part |
|---|---|---|---|
| WakeHandle (`wake.rs`) | one atomic phase: idle, waking, requested, waking-acknowledged | `wake`, `acknowledge`, `is_requested` | callers race each other, a failing backend and the acknowledging owner |
| Mailbox (`mailbox/`) | two queues with byte totals, sender count, receiver flag, counters, a WakeHandle | `try_send*`, `drain_into`, `close`, clone and drop of both ends | the wake is requested before the item is queued; acknowledge only when empty |
| Completion (`completion/`) | pending (observer alive, waker), ready, consumed | `complete`, `close`, `wait`, `try_take`, `poll`, `abandon` | producer and observer race; notification happens after the unlock |
| Shutdown barrier (`shutdown/`) | phase, subscribers | `subscribe(callback)`, `complete`, `close` | the callback runs unlocked, may fail or panic, and the barrier may settle meanwhile |
| Reactor and host (`reactor/`, `host/`) | control phase, host phase, the parker's token | `run`, `spawn`, `step`, `request_termination` | a request between the last check and the wait; duty stop racing termination |
| Reactor group (`reactor/group/`) | admission flag and per-shard fences, start gate, worker results | `spawn`, `try_send`, `request_termination`, supervision | admission closes while sends are in flight; startup aborts; fail-closed members |
| Turn and time (`turn.rs`, `time.rs`, `host/action.rs`) | values | `Next::merge`, `Turn::merge`, `bounded_wait`, `for_turn` | a merged decision must not oversleep or stop any of its owners |
| Timers (`timer/`) | a heap of entries, an index, capacity and byte accounts | `schedule`, `cancel`, `pop_due`, `drain_due_into` | identity across reuse, accounting |
| Resource table (`resource/`) | generational slots, active and exhausted counts | `admit`, `get`, `remove`, `snapshot` | stale tokens after slot reuse, generation exhaustion |
| Event batch (`batch/`) | bounded vector with byte total | `try_push`, `pop`, `clear`, `drain` | accounting at both limits, and when a drain is given up or leaked |
| I/O vocabulary (`io/`), retained bytes | values | pure functions | saturation, zero |
| Mio poller (`calandria-mio`) | token registrations, event buffer | `register`, `reregister`, `deregister`, `poll_once` | a half-done registration; events for tokens already removed |
| Simulation timeline (`calandria-sim/timeline`) | virtual clock, events by (moment, identity), byte account | `schedule_at`, `cancel`, `pop_next` | order at equal moments, limits |
| Simulation kernel (`calandria-sim/simulation`, `model/context`) | interest of each duty, phase, poison flag, action counters, the open transaction | `step`, `inject`, `send`, `cancel`, rollback, commit | callbacks fail or panic after they changed the timeline |
| Trace and replay (`calandria-sim/trace`, `scheduler/replay`) | bounded entries; cursor, awaiting flag | `after_action`, `choose`, `committed`, `finished` | a replayed run that differs, or fails between two calls |
| Built-in schedulers (`calandria-sim/scheduler`) | round robin's cursor; seeded's generator and budget | `choose` | fairness over a ready set that changes |
| Capability script (`calandria-sim/script`) | expected requests with planned outcomes, byte account | `try_new`, `respond` | only an exact match consumes a step; each outcome ends once |
| Entropy (`calandria-sim/entropy.rs`) | SplitMix64 state | `next_u64` | quality of mixing |

A producer calls `try_send`, which under the mailbox lock checks both limits, calls
`WakeHandle::wake`, and only then queues the item. `wake` reaches the backend (the
`ThreadParker` of a reactor, or Mio's waker) at most once per acknowledgement. The
reactor's thread waits on that backend, runs a turn of its duty, which drains the
mailbox and acknowledges once it is empty, and derives its next wait from the
turn's `Next`. A termination request publishes a phase and wakes the same backend
through a wake handle of its own. A group starts its members behind one gate, puts
their mailboxes behind one admission flag with a fence per shard, and closes them
all when one member fails. A duty that does I/O keeps its sources in a resource
table, registers each under its table token with the poller, and resolves the token
of every event before it touches a source. The simulator runs the same kind of duty
under virtual time: one callback at a time, its effects a transaction on the
timeline, each committed action told to a scheduler and a monitor.

What makes the parts correct: no lost wake-up and no stranded work (wake handle,
mailbox, reactor); exactly one owner of each value (completion, mailbox);
a settled verdict for everybody (shutdown, group); an exact account at every limit
(all bounded containers); a token that never reaches what it was not issued for
(timers, resources, poller); all-or-nothing actions and time that never skips
(simulator). `PROJECT.json` lists the hazards by source line.

## 2. Modules

| Module | Models | Extends / composes |
|---|---|---|
| `WakeHandle` | `wake.rs`, one action per atomic access | run by `Mailbox` |
| `Mailbox` | `mailbox/`, one action per stretch of a critical section between two accesses to the wake phase | extends `WakeHandle` |
| `MailboxContract` | what the mailbox promises: two FIFO lanes and a notification | refined by `Mailbox` |
| `Completion` | `completion/` | |
| `Shutdown` | `shutdown/` | |
| `Reactor` | `reactor/{runner,control,owner,handle}.rs`, `host/` | |
| `ReactorService` | the checksum service's duty on a mailbox and a reactor | extends `Mailbox`, instantiates `Reactor` on the same token |
| `ReactorLifecycle` | what a supervisor may rely on: asked once, exits once, honest reason | refined by `Reactor`; by each member of `ReactorGroup` |
| `ReactorGroup` | `reactor/group/` | members are `ReactorLifecycle`s |
| `Time`, `Turn` | `time.rs`, `turn.rs`, `host/action.rs`: pure operators | |
| `TimerQueue` | `timer/` | extends `Time`; run by `TimedHost` |
| `EventBatch` | `batch/`: operators that return the batch an operation leaves | run by `TimedHost` |
| `TimedHost` | `host/embedded.rs` stepping a duty of two owners, timers and a batch, in real time | extends `TimerQueue`, `Turn`; instantiates `EventBatch` |
| `ResourceTable` | `resource/` | run by `ReadinessOwner` |
| `MioPoller` | `calandria-mio/src`, against a selector that may refuse | |
| `ReadinessOwner` | the use `examples/framed_reactor.rs` makes of table and poller, for several sources | extends `ResourceTable` and `MioPoller` |
| `Timeline` | `calandria-sim/timeline`, `clock.rs`, `event.rs` | run by `Simulation` and `ScriptedTimeline` |
| `Simulation` | `calandria-sim/simulation`, `model/context` | extends `Timeline` |
| `Schedulers` | `scheduler/{fifo,round_robin,seeded}.rs` | |
| `Replay` | `calandria-sim/trace`, `scheduler/replay` | extends `Schedulers`, whose policies record the run |
| `ExactScript` | `calandria-sim/script` | |
| `ScriptedTimeline` | an owner that answers from a script and schedules the planned outcomes | extends `Timeline`, instantiates `ExactScript` |
| `ReactorServiceProofs` | theorems on the wake handle, the mailbox and the service | extends `ReactorService` |
| `ReactorProofs` | theorems on the completion and the reactor | extends `Completion`, `Reactor` |
| `ReactorGroupProofs` | theorems on the barrier and the group | extends `Shutdown`, `ReactorGroup` |
| `TimedHostProofs` | theorems on turns, timers, batch and host | extends `TimedHost` |
| `ReadinessOwnerProofs` | theorems on the table, the poller and their owner | extends `ReadinessOwner` |
| `TimelineProofs` | lemmas on sums and on the timeline's operations | extends `Timeline` |
| `SimulationProofs` | theorems on the kernel | extends `Simulation`, `TimelineProofs` |
| `ReplayProofs` | theorems on round robin, replay and scripts | extends `Replay`, `ScriptedTimeline`, `TimelineProofs` |
| `MC*` | small instances | |

How the models correspond to the code:

* **WakeHandle.** `phase` is the `AtomicU8`; `call[t]` and `ack` are program
  counters inside `wake` and `acknowledge`. The spin loop is the absence of a step:
  `Load` is disabled while the phase is in flight. `issued` and `covered` are
  history: which backend wakes stand since the last acknowledgement, and for whom.
* **Mailbox.** Threads that hold the mutex are marked in `pc` and `owner`; wake()
  and acknowledge() inside the critical section take WakeHandle's own steps, so
  holders of a bare wake-handle clone (`Wakers`) interleave with them. `retained`
  is an integer so that an accounting mistake shows as a wrong number;
  `checked_add` overflow is a byte refusal like any other and has no case of its
  own. `accepted` and `removed` are history.
* **Completion.** Critical sections are actions; `producer = "notify"` and `"wake"`
  are the two steps after the unlock. The executor that polls what a waker
  scheduled is external.
* **Shutdown.** A subscriber is named by its thread; a thread keeps at most one
  subscription, so abandoning a completion (which the barrier does not notice) is
  left to Completion.
* **Reactor.** `runner` is the program counter of `runner::run` and of
  `EmbeddedHost::step`. Duty, clock and waiter may answer anything their traits
  allow, fail or panic. Time appears only as "the deadline has passed or not" and
  "the wait may end at its ceiling". A host may be handed over in any phase.
* **ReactorService.** `Reactor` is instantiated with the mailbox's `signal` as its
  token: both wake domains notify one `ThreadParker`, as in `member()`.
* **ReactorGroup.** One action per access to the admission flag, per acquisition of
  a fence or of a control mutex, and per thread start or exit. A member's `run` is
  `ReactorLifecycle` and its mailbox accepts or refuses as it likes: what they do
  inside is Reactor's and Mailbox's subject. `MembersAreReactors` checks that the
  group treats each member as the lifecycle allows.
* **TimerQueue.** The heap is the set of its entries, because the order on entries
  is total. Any token may be presented, the queue's own or another's. Time is the
  caller's: in `TimedHost`, the last moment the host observed.
* **TimedHost.** The composition that `tests/host.rs` tests and
  `examples/owner_local.rs` suggests: two owners whose turns are merged into one.
  The time passes at any point, inside a turn and inside a wait, and `step()`
  observes it where the code does, at the start and at the completion of the turn.
  The owners do what they like with their containers, and report what an honest owner
  would: the timers' earliest deadline, `Now` or a flush deadline for a batch that
  is not empty. How much work they report is arbitrary.
* **EventBatch.** What `drain` leaves does not depend on how far its iterator is
  read, because the account and the vector are emptied before it yields; the
  parameter `leaked` is there for the mistake of settling in the destructor.
* **ResourceTable.** Any token may be presented at any time, since tokens are
  copyable and constructible. A resource is the number of its admission, so that
  two of them are never confused.
* **MioPoller.** The selector and the waker are external: they raise events between
  any two calls, refuse any call, and may deliver an event after its source was
  deregistered. An event is reduced to its token and, as history, the source that
  raised it; which readiness bits it carries is left out.
* **ReadinessOwner.** Events of one batch are ingested one by one, with closing,
  reopening and reregistering in between, and any token, live, stale or made up,
  presented to the table at any time.
* **Timeline, Simulation.** Whatever `step()` does up to the call of the model is one
  action, each effect of the callback is one, and all that follows its return is
  one: no other code can run in between, as everything takes `&mut self`. Model,
  scheduler and monitor are consumer code that may answer, fail or panic. The
  constraint that a `ready` entry is still pending when executed holds because both
  happen within one action. A step's limit check comes before the scheduler's choice,
  as in `step()`. Observations are counted; per-duty counters are left out.
* **ScriptedTimeline.** An outcome's payload is its place in the script, so that
  two equal outcomes are never confused. Requests that do not match, outcomes that
  the timeline refuses and cancellations interleave as they like.
* **Schedulers.** The ready set is ordered by `ActionKey`; the seeded scheduler's
  draws are any values, scaled to an index of the ready set as in the code
  (draw times size, divided by the number of draws).
* **Replay.** Determinism of the model is the assumption `same`: after the same
  actions the same set is ready and the selected action does the same. Without it
  the second run is arbitrary.

## 3. Runs

One run per question. Where several state invariants of a component belong
together they are named parts of one conjunction (`MailboxSafe`, `ReactorSafe`,
...), each part with its own comment in the module.

| Run | Instance | Shows |
|---|---|---|
| `mailbox` | 2 senders, 1 waker, 2 items, control lane of 1 message and 1 byte, work lane of 2 and 3, budgets 1 and 2, 3 calls | no false Ok; `NoStranded`; `MailboxSafe`: FIFO, bounds, exact accounting and the invariant of the proofs, which includes `LastDropSeen`; Closed is final; refinement of `MailboxContract` |
| `completion` | 2 tasks, fairness | one owner of the value, no lost wake-up, release |
| `shutdown` | 3 threads, capacity 2, 2 calls each, fairness | no panic, one publication, nobody forgotten, one verdict, every call returns |
| `reactor` | 2 requesters, ceiling 1, fairness | termination is honoured, prompt, agreed on, and heard without time passing; with the ceiling a failed wake only delays it; refinement of `ReactorLifecycle` |
| `service` | 2 senders, one job, one Stop command, 1 requester, budget 1, fairness | no lost wake-up in the composition; accepted work is served, the last drop stops the reactor, no timeout needed |
| `group` | topologies of up to two members and three that validation rejects, 1 client with 1 send, 1 requester, fairness | no panic, terminations published before any wake, honest outcome, nothing admitted after the fence, members treated as `ReactorLifecycle` allows; `spawn` returns, a fatal member ends the group, everybody is collected |
| `timed_host` | 2 timers, 3 identities, sizes that fit and do not, 2 deadlines, 2 owners of tokens, a batch of 2 events and 3 bytes, ceiling 2, time to 3 | timers: exact account, one end each, honest drain, delivery order; batch: exact account; host: never oversleeps, stops unanimously |
| `scripted_timeline` | scripts of up to 3 steps over 2 requests, limits of 3 steps, 5 outcomes and 7 bytes that some scripts exceed; moments 0 to 4, 3 pending events of 4 bytes in all | requests answered in order and by exact match only; every outcome ends once, on time, in order |
| `poller` | 3 tokens, 3 sources, 3 registrations, 4 backend tokens, buffers of 1 and 2 | no panic, table and selector agree, nothing misdelivered or lost, honest saturation |
| `readiness_owner` | 2 slots, 2 generations, 4 admissions, 2 owners, tokens out of range, batches of 2 | a token reaches only its resource, counters and retirement agree; readiness reaches only the source that raised it; only live resources are watched |
| `simulation` | 2 duties, 2 events, 2 effects per action, moments 0 to 3 with ceiling 2, deadlines 1 and 3, any start up to the ceiling, 1 observation per action, 3 actions, 2 per moment, fairness | exact rollback, only committed effects, no kernel fault, no time skipped, stop is final, exact byte account; every run loop ends |
| `replay` | 2 duties, 3 keys, 2 moments, 2 outcomes, 3 actions, trace of 2, all three policies | the same model is reproduced, any other is caught, completion means the whole trace; the round robin passes over no duty for ever |

**Bounds.** `MaxCalls` bounds the sends (and the subscriptions per thread), because
the history would otherwise grow for ever; it exceeds the capacity of the smaller
lane, so every refusal, a refill after a drain, and a send after close all occur.
In `mailbox` the two senders and a holder of the bare wake handle are three callers,
the smallest number in which one is in flight, one coalesces and one arrives after
an acknowledgement. `LateCap` stops a history counter one above
what the property allows. Symmetry (senders; tokens and sources of the poller) is
used in runs without liveness properties only. Fixed widths (`U64`, `MaxGen`, `UsizeMax`) are a few values
wide so that identities and byte totals do run out. `MaxSends`, `MaxAdmissions`
and `MaxActions` bound history in the same way; each is large enough to fill its
container and go beyond it. `CHECK_DEADLOCK FALSE` is set where the system may stop:
a settled completion, a settled barrier, a finished service.

**Fairness.** A thread that is inside a call keeps running and user callbacks
return; a parked thread whose token is set resumes; the executor polls tasks that
were woken. No fairness is assumed of anyone who has not begun a call: nobody has
to send, complete, settle or terminate. In `group` a member that was asked to
terminate ends, which `CeilingTerminates` shows of a reactor; no duty has to stop
by itself. In `simulation` the run loop keeps calling `step` and callbacks return.
There `WF_running(CallbackReturns)` is fairness of `Return`: no other step leaves a
callback, and `Return` is always enabled inside one.
That the wait ceiling expires is assumed nowhere but in the premise of
`CeilingTerminates`, whose claim is about it. In `service` the reactor's
thread waits for the mailbox lock under weak fairness only; this is enough because
the bounded calls leave the lock free in the end. A mutex that starves one thread
under endless traffic is outside the model.

**Mutants.** Each module carries plausible mistakes in that code (a dropped guard, an
off-by-one, a missing notification); `PROJECT.json` pairs each property with one
that it detects.

## 4. Proofs

Every invariant, action property and refinement that a run checks is a theorem of
the specification, for every value of the constants; the liveness properties are
not. Each invariant rests on an inductive one, which is defined in the model's
module next to what it strengthens (`HostInv` in its proofs) and which TLC checked
on the run's instance before it was proved. A proof has a lemma that the initial
states satisfy the inductive invariant, one lemma per action that the action keeps
it, and a last step that combines them.

**Wake-ups and mailbox** (`ReactorServiceProofs`).

* `WakeSafety`. `WakeInv` adds to the promises of the handle that an in-flight phase
  has exactly one holder (`Exclusive`), what `issued` is in each phase
  (`Accounted`), and that whoever is inside the call when a backend wake is counted
  is covered by it (`Covering`): without them an Ok could be answered for somebody
  else's wake.
* `MailboxSafety` (`MailboxInv`): the mutex excludes (`LockInv`); while a producer
  holds the lock no acknowledgement can turn its request (`HeldWake`); an
  acknowledging owner left nothing behind or closed admission first (`OwnerInv`).
* `MailboxLanesSafe` (`LaneInv`, on top of `MailboxInv`): first in, first out, both
  limits, exact bytes. A producer that waits for its wake request still has the room
  it found (`RoomHeld`), the sender count is the number of live senders
  (`SendersCounted`), and a drain that answered Closed had reason to
  (`ClosedKnown`).
* `MailboxClosedIsFinal`; `MailboxImplementsContract`: each step maps to a step of
  `MailboxContract` or a stutter.
* `ServiceSafety`, `ServedMailboxIsSafe` (`ServiceInv`): each step of the
  composition is a step of the mailbox or changes only the token, so the mailbox's
  invariants carry over. From the acknowledgement of an empty mailbox until the
  thread waits, every wake is still a token that nobody consumed (`Unconsumed`,
  `TokenHeld`); a request that the loop has not seen when it waits is announced
  (`RequestHeard`); turn, loop and mailbox agree on how far the turn has come
  (`TurnInv`).

**One thread** (`ReactorProofs`).

* `CompletionSafety` (`CompletionInv`): who may still take the result
  (`SettledOnce`, `ObserverHere`), and that the stored waker is the latest one
  (`WakerIsLatest`).
* `ReactorSafety` (`ReactorInv`): outcome and control phase change together
  (`EndsTogether`), what a requester was told is still true (`ToldIsCurrent`), and
  after a turn that began later than a request the loop finds the request before it
  steps again (`LateTurnIsLast`). `ReactorImplementsLifecycle` follows.

**Many threads** (`ReactorGroupProofs`).

* `ShutdownSafety` (`ShutdownInv`): one request is published; who still waits is
  held by the barrier until it settles; what a call is about to return is true.
* `GroupSafety`, `GroupAdmissionFence`, `GroupMembersAreReactors` (`GroupInv`). It
  says how far startup and each worker are (`StartupInv`, `WorkerInv`), what was
  collected (`CollectedInv`), how far whoever closes the group has come
  (`CloserInv`), which senders can still be inside a fence (`FenceInv`), and that a
  member that was asked does not stop by itself (`AskedInv`). The fence property
  needs them all: a send that passed the flag before it closed must be out of the
  fence before the closer passes it.

**Owners in real time** (`TimedHostProofs`).

* `MergeCommutes`, `MergeAssociates`, `StopIsUnanimousInMerge`,
  `MergedWaitIsShorter`, `HostWaitsAsBounded`: owners compose in any order and
  nesting, and the merge waits exactly as long as the most urgent of them.
* `HostSafety`. `HostInv` adds what holds between the duty's return and the host's
  decision (`Decided`): the merged turn covers every deadline that an owner reported
  or that a pending timer has, and is `Stop` only if nothing is left. It is needed
  because the time of the decision is observed later than that of the reports.
* `TimerSafety`, `TimersInOrder` (`TimerInv`): identities ascend, and a pending
  timer was neither delivered nor cancelled (`IdsAscend`, `PendingOnce`).
* `BatchSafety` (`BatchInv`: every entry was measured on admission).

**Resources and readiness** (`ReadinessOwnerProofs`).

* `TableInv` (behind `ResourceSafety`): how many generations each slot has spent,
  what is live was admitted, nothing is admitted twice.
* `PollerSafety`, `PollerDelivers`, `PollerLosesNothing` (`PollerInv`):
  registrations are sorted, backend tokens are never used twice, and whatever the
  selector watches or raised belongs to the source registered under it
  (`TiedToItsToken`). They hold for any tokens and sources and any behaviour of a
  user who keeps to the poller's interface.
* `OwnerTellsTheRightSource`, `OwnerWatchesLive`, `OwnerPollerSafe` (`OwnerInv`):
  the owner's calls are calls that the poller allows, and a token is registered only
  with the source admitted under it, so a stale event resolves to nothing.

**Simulation** (`SimulationProofs`, `TimelineProofs`, `ReplayProofs`).

* `SimulationSafety` (`SimulationInv`): at most one action runs; its transaction is
  the difference between the timeline and what it began with (`Transaction`,
  `CancelledCanReturn`), so a rollback fits; every pending event has a committed
  cause, or the running one (`CausesKnown`). `RollbackExact` and `TimeNeverSkips`
  are the action properties that follow.
* `ReplaySafety`, `ReplayIsFaithful` (`ReplayInv`): the trace is what was offered
  and chosen (`Recorded`), and the cursor counts what was matched (`Replayed`).
* `RoundRobinFair`: the rotation's next duty is the first ready one after the last
  chosen (`Rotates`), so with each selection the cursor comes nearer to a duty that
  stays ready; as many selections as there are duties cannot all pass it over.
* `ScriptSafety`, `OutcomesDeliveredOnce` (`ScriptInv`): the steps left are the
  script without the answered ones, as measured (`StepsLeft`); the plan is the rest
  of the last answer, given at this moment (`PlannedLast`); an outcome is planned,
  pending or ended but never two of these, and pending ones are on time and after
  all that was delivered (`OneFate`). That each outcome is in exactly one place
  follows from counting: the places hold as many as the answers have.

**Sums and orders.** Byte accounts are folds, and what a fold computes is a
recursive function. `TimelineProofs` and `TimedHostProofs` show from a least
counterexample that such a function exists and is unique, and from there that a
total grows and shrinks by the weight that enters or leaves; `ReadinessOwnerProofs`
and `TimedHostProofs` do the same for sorted sequences, `ReplayProofs` for the
canonical order of a ready set and the measure of a script. No induction scheme over
an operator is used.

**Assumptions.** Only those named in the modules, all of which TLC evaluates:
`MailboxConstants` (senders are callers, sizes and limits natural numbers, room for
at least one message per lane), `ServiceConstants`, `CeilingAssumption`,
`NoTaskAssumption`, `ShutdownConstants`, `GroupConstants` (reactor identities are
numbers, which requesters and the supervisor are not), `WidthAssumption`,
`LimitAssumption`, `HostAssumption` (limits, deadlines and sizes lie within their
widths), `TableAssumption`, `PollerAssumption` (a limit is at least 1, as the
constructors require), `OwnerAssumption` (the poller's tokens and sources are the
table's), `TimelineAssumption`, `SimulationAssumption`, `SchedulersAssumption`,
`ReplayAssumption` (finitely many action keys), `ScriptAssumption` (scripts are
sequences of steps with plans, measured in u64).

**Only model-checked.** The liveness properties, because the prover does not handle
`ENABLED` and fairness: `Released`, `SubscribersResolved`, `HeardTermination`,
`CeilingTerminates`, `AcceptedIsServed`, `LastDropStops`, `FailClosed`,
`AllCollected`, `RunTerminates`. An in-flight wake phase, on which other callers
spin, has no liveness property of its own: `Exclusive` (proved) says that it always
has a holder whose next step is enabled, and `AcceptedIsServed` would fail if the
holder did not resolve it.

## 5. Not modelled, and the plan

Left out for good: `Debug`/`Display` output, error values beyond their reason,
statistics counters, thread names, the `no_std` feature switch, SplitMix64 (64-bit
multiplication is beyond TLC's integers, and its quality beyond any small model),
retained-byte arithmetic on its own (each account has it with its width), the other
examples, tests and benches.

Left out so far:

* The I/O vocabulary: bit sets that are only joined and tested. `MioPoller` keeps
  interests as sets of kinds and leaves out which readiness bits an event carries.
* The framing of `examples/framed_reactor`: partial reads and writes under
  edge-triggered readiness, where the duty must run again until the socket would
  block. `ReadinessOwner` models its use of table and poller only.
* Member mailboxes inside `ReactorGroup`: they answer freely there.

Taken from the environment, and so outside what any run or theorem says:

* A `WakeSource` does not panic, as its trait demands (`wake.rs` 19-24). A worker of
  a group that met one while it requested termination would fail its `join()`
  (`supervisor.rs` 102-104); `JoinWorker` has no branch for it.
* The destructor of an event does not unwind. `EventBatch::clear` empties the vector
  before it resets the account (`batch/owner.rs` 102-105), so a destructor that unwound
  would leave the bytes of events that are gone counted. `Cleared` leaves this out,
  and `BatchSafe` holds under this premise; `drain` resets the account first.

Next:

1. A module for the framed connection, composed with `ReadinessOwner`'s poller: its
   frame is echoed if the client reads and writes.
2. Proofs of what the liveness properties rest on and can be said without fairness:
   that a state in which nothing can move any more has nothing left to do.
