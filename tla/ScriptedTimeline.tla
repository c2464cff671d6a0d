-------------------------- MODULE ScriptedTimeline --------------------------
(***************************************************************************)
(* A scripted capability: the owner of a simulated service answers requests*)
(* from an ExactScript and schedules the planned outcomes on a Timeline,   *)
(* from which they are delivered in virtual time (script, plan.rs,         *)
(* timeline; examples/timeline.rs is the delivery loop).  An outcome may be*)
(* dropped (an empty plan), delayed, reordered by its delay or repeated.   *)
(***************************************************************************)
EXTENDS Timeline, Sequences, SequencesExt

CONSTANTS
  ScriptLimits, RequestBytes,   \* of ExactScript
  Scripts                       \* the vectors of steps handed to try_new

ASSUME ScriptAssumption ==
  /\ ScriptLimits.steps \in Nat \ {0} /\ ScriptLimits.outcomes \in Nat \ {0}
  /\ ScriptLimits.retained_bytes \in 0..U64
  /\ \A request \in DOMAIN RequestBytes : RequestBytes[request] \in 0..U64
  /\ Scripts \subseteq Seq([expected : DOMAIN RequestBytes,
                            response : Seq([delay : Nat, size : Sizes])])
  /\ \A s \in Scripts : \A k \in DOMAIN s : \A i \in DOMAIN s[k].response :
       [step |-> k, index |-> i] \in Payloads

VARIABLES
  steps, scriptRetained,   \* of ExactScript
  phase,       \* how far the owner is: new, refused, built
  planned,     \* the outcomes of the last answer that are still to be scheduled
  script,      \* history: the vector the script was built from
  answered,    \* history: <<the request, the moment of the answer>> of each answered step
  delivered,   \* history: what pop_next() delivered, in order
  ended        \* history: <<outcome, how>> of those cancelled or refused

Script == INSTANCE ExactScript

vars == <<timelineVars, steps, scriptRetained, phase, planned, script, answered, delivered, ended>>

Requests == DOMAIN RequestBytes

ScriptedInit ==
  /\ TimelineInit
  /\ steps = <<>> /\ scriptRetained = 0
  /\ phase = "new"
  /\ planned = <<>>
  /\ script = <<>>
  /\ answered = <<>>
  /\ delivered = <<>>
  /\ ended = {}

---------------------------------------------------------------------------

\* try_new succeeds, or hands the vector back.
Build(s) ==
  /\ phase \in {"new", "refused"}
  /\ \/ /\ Script!TryNew(s)
        /\ phase' = "built"
        /\ script' = s
     \/ /\ Script!BuildFailure(s) # "none"
        /\ phase' = "refused"
        /\ UNCHANGED <<steps, scriptRetained, script>>
  /\ UNCHANGED <<timelineVars, planned, answered, delivered, ended>>

\* respond() on a request that matches; Exhausted and Mismatch change nothing.
Ask(request) ==
  /\ phase = "built"
  /\ planned = <<>>
  /\ ~Script!Exhausted
  /\ LET step == Head(steps).step
     IN /\ Script!Advance(request)
        /\ planned' = [i \in DOMAIN step.response |->
                         [delay |-> step.response[i].delay, size |-> step.response[i].size,
                          outcome |-> [step |-> Len(answered) + 1, index |-> i]]]
        /\ answered' = Append(answered, <<request, now>>)
  /\ UNCHANGED <<timelineVars, phase, script, delivered, ended>>

\* schedule_planned() of the next outcome; a refusal hands it back.
SchedulePlanned ==
  /\ planned # <<>>
  /\ planned' = Tail(planned)
  /\ LET p == Head(planned)
     IN \/ /\ ~TimeOverflows(p.delay)
           /\ ScheduleAt(now + p.delay, p.size, p.outcome)
           /\ UNCHANGED ended
        \/ /\ TimeOverflows(p.delay) \/ ScheduleFails(p.size)
           /\ ended' = ended \cup {<<p.outcome, "refused">>}
           /\ UNCHANGED timelineVars
  /\ UNCHANGED <<steps, scriptRetained, phase, script, answered, delivered>>

Deliver ==
  /\ planned = <<>>
  /\ \E e \in events : PopNext(e) /\ delivered' = Append(delivered, e)
  /\ UNCHANGED <<steps, scriptRetained, phase, planned, script, answered, ended>>

Cancel(e) ==
  /\ planned = <<>>
  /\ CancelEvent(e)
  /\ ended' = ended \cup {<<e.payload, "cancelled">>}
  /\ UNCHANGED <<steps, scriptRetained, phase, planned, script, answered, delivered>>

ScriptedNext ==
  \/ \E s \in Scripts : Build(s)
  \/ \E request \in Requests : Ask(request)
  \/ SchedulePlanned \/ Deliver
  \/ \E e \in events : Cancel(e)

ScriptedSpec == ScriptedInit /\ [][ScriptedNext]_vars

---------------------------------------------------------------------------
(* Properties                                                              *)

ScriptedTypeOK ==
  /\ TimelineTypeOK
  /\ phase \in {"new", "refused", "built"}
  /\ Len(delivered) + Cardinality(ended) <= ScriptLimits.outcomes

\* Requests are answered exactly in script order: what was answered, followed by
\* what remains, is the script it was built from, however many requests did not
\* match meanwhile.
AnsweredInOrder ==
  [i \in DOMAIN answered |-> answered[i][1]] \o [i \in DOMAIN steps |-> steps[i].step.expected]
    = [i \in DOMAIN script |-> script[i].expected]

\* The script's and the timeline's accounts stay exact and within their limits,
\* and requests are consumed in order and only by an exact match.
ScriptSafe ==
  /\ ScriptedTypeOK
  /\ Script!ScriptAccounts /\ AnsweredInOrder
  /\ TimelineAccounts /\ NothingInThePast

\* The outcomes of the answered steps.
OutcomesOf(s, n) == UNION {{[step |-> k, index |-> i] : i \in DOMAIN s[k].response} : k \in 1..n}
Outcomes == OutcomesOf(script, Len(answered))

DelayOf(s, o) == s[o.step].response[o.index].delay

\* Every outcome of an answered request is still to be scheduled, pending,
\* delivered, cancelled or refused, once and only once; it is delivered exactly its
\* delay after the request, and deliveries follow each other in (moment, identity).
OutcomesDelivered ==
  /\ Outcomes = {p.outcome : p \in ToSet(planned)} \cup {e.payload : e \in events}
                  \cup {e.payload : e \in ToSet(delivered)} \cup {x[1] : x \in ended}
  /\ Cardinality(Outcomes)
       = Len(planned) + Cardinality(events) + Len(delivered) + Cardinality(ended)
  /\ \A i \in DOMAIN delivered :
       LET e == delivered[i]
       IN /\ e.at = answered[e.payload.step][2] + DelayOf(script, e.payload)
          /\ \A j \in 1..(i - 1) :
               \/ delivered[j].at < e.at
               \/ delivered[j].at = e.at /\ delivered[j].id < e.id

---------------------------------------------------------------------------
(* The inductive invariant of the proofs.                                  *)

\* The answered steps are the first of the script; the others are left, as measured.
StepsLeft ==
  /\ script \in Scripts \cup {<<>>} /\ Script!CountOutcomes(script) <= ScriptLimits.outcomes
  /\ answered \in Seq(Requests \X Moments)
  /\ steps = [j \in 1..(Len(script) - Len(answered)) |->
               Script!Measured(script[Len(answered) + j])]
  /\ Len(answered) <= Len(script)
  /\ \A k \in DOMAIN answered : answered[k][1] = script[k].expected
  /\ phase # "built" => script = <<>>

\* The plan is the rest of the last answer, which was given at this moment.
PlannedLast ==
  /\ planned \in Seq([delay : Nat, size : Sizes, outcome : Payloads])
  /\ planned # <<>> =>
       LET k == Len(answered)
           rest == Len(script[k].response) - Len(planned)
       IN /\ k >= 1 /\ rest >= 0 /\ answered[k][2] = now
          /\ \A i \in DOMAIN planned :
               LET r == script[k].response[rest + i]
               IN planned[i] = [delay |-> r.delay, size |-> r.size,
                                outcome |-> [step |-> k, index |-> rest + i]]

PlannedOutcomes == {p.outcome : p \in ToSet(planned)}
EndedOutcomes == {x[1] : x \in ended}

\* An outcome leaves the plan for the timeline, and the timeline, only once; what is
\* pending is on time and after everything delivered.
OneFate ==
  /\ IsFiniteSet(events) /\ IsFiniteSet(ended) /\ delivered \in Seq(Event)
  /\ PlannedOutcomes \cap EndedOutcomes = {}
  /\ \A e \in events :
       /\ e.at = answered[e.payload.step][2] + DelayOf(script, e.payload)
       /\ e.payload \notin PlannedOutcomes \cup EndedOutcomes
       /\ \A f \in events : e.payload = f.payload => e = f
  /\ \A i \in DOMAIN delivered :
       /\ delivered[i].at <= now
       /\ \A id \in next_id : delivered[i].id < id
       /\ \A e \in events :
            \/ delivered[i].at < e.at
            \/ delivered[i].at = e.at /\ delivered[i].id < e.id

ScriptInv == ScriptSafe /\ OutcomesDelivered /\ StepsLeft /\ PlannedLast /\ OneFate

===========================================================================
