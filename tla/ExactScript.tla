---------------------------- MODULE ExactScript ----------------------------
(***************************************************************************)
(* A finite capability script (crates/calandria-sim/src/script): the       *)
(* requests a model must make, in order, each with a plan of zero or more  *)
(* delayed outcomes.  The whole script is measured and bounded before it   *)
(* exists; afterwards it only shrinks.                                     *)
(***************************************************************************)
EXTENDS Naturals, Sequences, SequencesExt

CONSTANTS
  U64,           \* the largest u64: of a byte count
  ScriptLimits,  \* steps, outcomes and retained_bytes
  RequestBytes   \* Q::retained_bytes, a function on the requests

VARIABLES
  steps,           \* VecDeque<MeasuredStep<Q, R>>
  scriptRetained   \* RetainedBytes

scriptVars == <<steps, scriptRetained>>

\* Planned: an outcome, here its measurement, after a delay.
PlannedOf(delay, size) == [delay |-> delay, size |-> size]

\* ScriptStep: the expected request and its Plan, a sequence of Planned.
StepOf(expected, response) == [expected |-> expected, response |-> response]

---------------------------------------------------------------------------
(* Plausible mistakes in this code, substituted one at a time for the      *)
(* definition they are named after to show that the properties notice.     *)

\* The step is popped before it is compared.
AdvanceAlways(request) ==
  /\ steps' = Tail(steps)
  /\ scriptRetained' = scriptRetained - Head(steps).retained

---------------------------------------------------------------------------
(* try_new                                                                 *)

\* measure_step: the request and every outcome.
MeasureStep(step) ==
  FoldSeq(LAMBDA planned, n : planned.size + n, RequestBytes[step.expected], step.response)

\* measure_steps; a total that no u64 holds is where its checked_add fails.
MeasureSteps(script) == FoldSeq(LAMBDA step, n : MeasureStep(step) + n, 0, script)

\* count_outcomes.  No vector in memory is long enough to overflow its usize.
CountOutcomes(script) == FoldSeq(LAMBDA step, n : Len(step.response) + n, 0, script)

BuildFailure(script) ==
  IF Len(script) > ScriptLimits.steps THEN "step_capacity"
  ELSE IF CountOutcomes(script) > ScriptLimits.outcomes THEN "outcome_capacity"
  ELSE IF MeasureSteps(script) > U64 THEN "byte_overflow"
  ELSE IF MeasureSteps(script) > ScriptLimits.retained_bytes THEN "byte_capacity"
  ELSE "none"

Measured(step) == [step |-> step, retained |-> MeasureStep(step)]

TryNew(script) ==
  /\ BuildFailure(script) = "none"
  /\ steps' = [i \in DOMAIN script |-> Measured(script[i])]
  /\ scriptRetained' = MeasureSteps(script)

---------------------------------------------------------------------------
(* respond                                                                 *)

Exhausted == steps = <<>>

Mismatch(request) == steps # <<>> /\ Head(steps).step.expected # request

\* The first step leaves with its bytes, and answers its plan.
Advance(request) ==
  /\ ~Mismatch(request)
  /\ steps' = Tail(steps)
  /\ scriptRetained' = scriptRetained - Head(steps).retained

---------------------------------------------------------------------------

RetainedBy(measured) == FoldSeq(LAMBDA m, n : m.retained + n, 0, measured)

\* The account is the exact total of the steps that remain.
ScriptAccounts ==
  /\ scriptRetained = RetainedBy(steps)
  /\ scriptRetained <= ScriptLimits.retained_bytes
  /\ Len(steps) <= ScriptLimits.steps

===========================================================================
