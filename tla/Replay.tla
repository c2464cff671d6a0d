------------------------------- MODULE Replay -------------------------------
(***************************************************************************)
(* The causal trace and its replay (crates/calandria-sim/src/trace and     *)
(* scheduler/replay).  A first run of a simulation records every committed *)
(* action; a second run is scheduled by Replay::choose, which only hands   *)
(* out what the trace says, and checked by committed() and finished().     *)
(*                                                                         *)
(* The kernel (Simulation) appears as the order in which it calls the      *)
(* scheduler and the monitor.  When `same`, the second run is of the same  *)
(* deterministic model and injections: after the same actions the same set *)
(* is ready and the selected action does the same.  Otherwise the second   *)
(* run is of anything.  The first run is scheduled by one of the built-in  *)
(* policies of Schedulers.                                                 *)
(***************************************************************************)
EXTENDS Schedulers

CONSTANTS
  Keys,          \* ActionKey
  Instants,      \* moments of virtual time
  Results,       \* the rest of a TraceEntry: identity, cause and turn
  TraceCapacity, \* TraceLimits.entries
  MaxActions     \* bound: actions of one run

ASSUME ReplayAssumption ==
  /\ Keys # {} /\ Keys \subseteq ActionKey /\ IsFiniteSet(Keys)
  /\ Results # {} /\ Instants \subseteq Nat
  /\ TraceCapacity \in Nat \ {0} /\ MaxActions \in Nat

VARIABLES
  policy,          \* the Scheduler of the recorded run
  duty_cursor,     \* RoundRobin.cursor: an Option as a set
  same,            \* whether the second run is of the same model
  stage,           \* "record", then "replay"
  offered,         \* history: the moment, ready set and choice of each recorded selection
  trace,           \* Trace.entries
  ending,          \* how the recorded run ended
  cursor,          \* Replay.cursor, which Replay.position repeats
  awaiting_commit, \* Replay.awaiting_commit
  selected,        \* the kernel's action between choose() and committed()
  history,         \* the actions the second run committed
  run,             \* SimulationPhase of the second run
  divergence       \* ReplayDivergence, or none

recordVars == <<policy, duty_cursor, offered, trace, ending>>
replayVars == <<same, stage, recordVars, cursor, awaiting_commit, selected, history, run, divergence>>

Offer == [at : Instants, ready : (SUBSET Keys) \ {{}}]
TraceEntry == [key : Keys, at : Instants, result : Results]

Policies == {"fifo", "round_robin", "seeded"}

ReplayInit ==
  /\ policy \in Policies
  /\ duty_cursor = {}
  /\ same \in BOOLEAN
  /\ stage = "record"
  /\ offered = <<>> /\ trace = <<>> /\ ending = "open"
  /\ cursor = 0
  /\ awaiting_commit = FALSE
  /\ selected = {}
  /\ history = <<>>
  /\ run = "active"
  /\ divergence = "none"

---------------------------------------------------------------------------
(* Plausible mistakes in this code, substituted one at a time for the      *)
(* definition they are named after to show that the properties notice.     *)

\* Only the selection is compared, not what the action did.
CommitFailsByKey(actual) ==
  IF ~awaiting_commit THEN "unexpected"
  ELSE IF actual.key # trace[cursor + 1].key THEN "committed"
  ELSE "none"

\* A full trace overwrites its newest entry.
PushOverwrites(entry) ==
  /\ trace' = IF Len(trace) < TraceCapacity THEN Append(trace, entry) ELSE Append(Front(trace), entry)
  /\ UNCHANGED ending

---------------------------------------------------------------------------
(* The recorded run                                                        *)

\* Trace::after_action: an entry beyond the capacity fails the run instead.
Push(entry) ==
  IF Len(trace) < TraceCapacity
  THEN trace' = Append(trace, entry) /\ UNCHANGED ending
  ELSE ending' = "failed" /\ UNCHANGED trace

\* What Scheduler::choose may answer.
PolicyChoices(ready) ==
  CASE policy = "fifo" -> {FifoChoice(ready)}
    [] policy = "round_robin" -> {RoundRobinChoice(duty_cursor, ready)}
    [] policy = "seeded" -> SeededChoices(ready)

Recording(o) ==
  /\ stage = "record" /\ ending = "open"
  /\ Len(offered) < MaxActions
  /\ offered # <<>> => Last(offered).at <= o.at
  /\ UNCHANGED <<policy, same, stage, cursor, awaiting_commit, selected, history, run, divergence>>

SchedulerFails == policy = "seeded" /\ SelectionsExhausted(Len(offered))

\* One step of the recorded run.
Record(o, result) ==
  /\ Recording(o)
  /\ ~SchedulerFails
  /\ \E key \in PolicyChoices(o.ready) :
       /\ offered' = Append(offered, [at |-> o.at, ready |-> o.ready, key |-> key])
       /\ duty_cursor' = IF policy = "round_robin" THEN {key.duty} ELSE duty_cursor
       /\ Push([key |-> key, at |-> o.at, result |-> result])

\* The scheduler's error fails the run before anything is selected.
RecordFails(o) ==
  /\ Recording(o)
  /\ SchedulerFails
  /\ ending' = "failed"
  /\ UNCHANGED <<duty_cursor, offered, trace>>

\* Trace::replay on what was retained; the run completed, or stopped earlier.
StartReplay(how) ==
  /\ stage = "record"
  /\ stage' = "replay"
  /\ ending' = IF ending = "open" THEN how ELSE ending
  /\ UNCHANGED <<policy, duty_cursor, same, offered, trace, cursor, awaiting_commit, selected,
                 history, run, divergence>>

---------------------------------------------------------------------------
(* The replayed run                                                        *)

\* The two runs have done the same so far, and are of the same model.
InStep == same /\ IsPrefix(history, trace)

\* What the second run may present to its scheduler next.
Offers ==
  IF InStep /\ Len(history) < Len(offered) THEN {o \in Offer : \E i \in {Len(history) + 1} :
                                                         o.at = offered[i].at /\ o.ready = offered[i].ready}
  ELSE IF InStep /\ ending = "completed" THEN {}
  ELSE Offer

ChooseFails(o) ==
  IF awaiting_commit THEN "pending_commit"
  ELSE IF cursor >= Len(trace) THEN "exhausted"
  ELSE IF trace[cursor + 1].at # o.at THEN "moment"
  ELSE IF trace[cursor + 1].key \notin o.ready THEN "unavailable"
  ELSE "none"

Diverge(why) ==
  /\ divergence' = why
  /\ run' = "failed"

\* The selection goes to the kernel, which runs it at its own moment.
Await(key, at) ==
  /\ selected' = {[key |-> key, at |-> at]}
  /\ awaiting_commit' = TRUE

Active == stage = "replay" /\ run = "active"

Choose(o) ==
  /\ Active /\ selected = {}
  /\ Len(history) < MaxActions
  /\ IF ChooseFails(o) # "none"
     THEN Diverge(ChooseFails(o)) /\ UNCHANGED <<selected, awaiting_commit>>
     ELSE Await(trace[cursor + 1].key, o.at) /\ UNCHANGED <<divergence, run>>
  /\ UNCHANGED <<same, stage, recordVars, cursor, history>>

\* The selected action fails in the model: no commit, and no further step.
ModelFails ==
  /\ Active /\ selected # {}
  /\ ~InStep
  /\ selected' = {}
  /\ run' = "failed"
  /\ UNCHANGED <<same, stage, recordVars, cursor, awaiting_commit, history, divergence>>

CommitFails(actual) ==
  IF ~awaiting_commit THEN "unexpected"
  ELSE IF actual # trace[cursor + 1] THEN "committed"
  ELSE "none"

\* The action has committed when committed() hears of it.
Committed(s, result) ==
  LET actual == [key |-> s.key, at |-> s.at, result |-> result]
      why == CommitFails(actual)
  IN /\ Active
     /\ InStep /\ Len(history) < Len(trace) => result = trace[Len(history) + 1].result
     /\ selected' = {}
     /\ history' = Append(history, actual)
     /\ IF why # "none"
        THEN Diverge(why) /\ UNCHANGED <<cursor, awaiting_commit>>
        ELSE /\ cursor' = cursor + 1
             /\ awaiting_commit' = FALSE
             /\ UNCHANGED <<divergence, run>>
     /\ UNCHANGED <<same, stage, recordVars>>

FinishFails ==
  IF awaiting_commit THEN "pending_commit"
  ELSE IF cursor # Len(trace) THEN "remaining"
  ELSE "none"

\* Every duty stopped and nothing is pending: the kernel calls finished().
Finished ==
  /\ Active /\ selected = {}
  /\ InStep => ending = "completed" /\ history = trace
  /\ IF FinishFails # "none"
     THEN Diverge(FinishFails)
     ELSE run' = "completed" /\ UNCHANGED divergence
  /\ UNCHANGED <<same, stage, recordVars, cursor, awaiting_commit, selected, history>>

ReplayNext ==
  \/ \E o \in Offer, result \in Results : Record(o, result)
  \/ \E o \in Offer : RecordFails(o)
  \/ \E how \in {"completed", "stopped"} : StartReplay(how)
  \/ \E o \in Offers : Choose(o)
  \/ ModelFails
  \/ \E s \in selected, result \in Results : Committed(s, result)
  \/ Finished

ReplaySpec == ReplayInit /\ [][ReplayNext]_replayVars

---------------------------------------------------------------------------
(* Properties                                                              *)

ReplayTypeOK ==
  /\ same \in BOOLEAN /\ stage \in {"record", "replay"}
  /\ policy \in Policies /\ duty_cursor \subseteq DutiesOf(Keys)
  /\ Len(offered) <= MaxActions /\ trace \in Seq(TraceEntry) /\ Len(trace) <= TraceCapacity
  /\ ending \in {"open", "failed", "completed", "stopped"}
  /\ cursor \in 0..Len(trace)
  /\ awaiting_commit \in BOOLEAN
  /\ selected \subseteq [key : Keys, at : Instants]
  /\ history \in Seq(TraceEntry)
  /\ run \in {"active", "completed", "failed"}
  /\ divergence \in {"none", "pending_commit", "exhausted", "moment", "unavailable",
                     "unexpected", "committed", "remaining"}

\* Whatever is replayed, the second run follows the trace action by action; the
\* one action that committed differently is its last, and is reported.
FollowsTrace ==
  /\ IsPrefix(SubSeq(history, 1, cursor), trace)
  /\ Len(history) = cursor + (IF divergence = "committed" THEN 1 ELSE 0)
  /\ divergence = "committed" => history[Len(history)] # trace[Len(history)]

\* The scheduler and the kernel agree on whether an action is between choose() and
\* committed(): the two errors that guard this, and the lost entry's panic, are
\* out of reach, whatever fails.
InProtocol ==
  /\ divergence \notin {"pending_commit", "unexpected"}
  /\ run = "active" => (awaiting_commit <=> selected # {})
  /\ awaiting_commit => cursor < Len(trace)

\* The same model is replayed without a divergence up to the last recorded action;
\* after it, only an action the trace does not know is refused.
ReplayReproduces == same => divergence \in {"none", "exhausted"} /\ IsPrefix(history, trace)

\* A replay that completes has repeated the whole trace: nothing more, nothing less.
CompleteIsExact == run = "completed" => history = trace

\* A duty with an action ready at each of as many consecutive selections as there
\* are duties is selected at one of them, whatever else becomes ready or is
\* delivered meanwhile.
RoundRobinIsFair ==
  LET n == Cardinality(DutiesOf(Keys))
  IN policy = "round_robin" =>
       \A first \in 1..(Len(offered) - n + 1), d \in DutiesOf(Keys) :
         LET window == first..(first + n - 1)
         IN (\A i \in window : d \in DutiesOf(offered[i].ready))
              => \E i \in window : offered[i].key.duty = d

\* Of any two runs: the second is the trace as far as it goes, its first
\* difference is its last action, and only a whole trace counts as complete.
ReplaySafe == ReplayTypeOK /\ FollowsTrace /\ InProtocol /\ CompleteIsExact

---------------------------------------------------------------------------
(* The inductive invariant of the proofs.                                  *)

\* The trace is what was selected, in order, short of the entry that found it full.
Recorded ==
  /\ offered \in Seq([at : Instants, ready : (SUBSET Keys) \ {{}}, key : Keys])
  /\ \A i \in 1..Len(offered) : offered[i].key \in offered[i].ready
  /\ Len(trace) <= Len(offered)
  /\ ending # "failed" => Len(trace) = Len(offered)
  /\ \A i \in 1..Len(trace) : trace[i].key = offered[i].key /\ trace[i].at = offered[i].at

\* Nothing of the second run exists before the first has ended, and what was
\* selected is the next entry of the trace until it commits.
Replayed ==
  /\ stage = "record" => cursor = 0 /\ selected = {} /\ history = <<>> /\ run = "active"
  /\ run # "failed" => divergence = "none"
  /\ run = "active" =>
       \A s \in selected : s.key = trace[cursor + 1].key /\ s.at = trace[cursor + 1].at

\* Each selection of the round robin goes to the duty after the previous one.
Rotates ==
  policy = "round_robin" =>
    /\ duty_cursor = IF offered = <<>> THEN {} ELSE {offered[Len(offered)].key.duty}
    /\ \A i \in 1..Len(offered) :
         offered[i].key.duty =
           OwnerAfter(IF i = 1 THEN {} ELSE {offered[i - 1].key.duty}, offered[i].ready)

ReplayInv == ReplaySafe /\ ReplayReproduces /\ Recorded /\ Replayed /\ Rotates

=============================================================================
