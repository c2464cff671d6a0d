------------------------------- MODULE Time -------------------------------
(***************************************************************************)
(* Fixed-width monotonic time (crates/calandria/src/time.rs): moments and  *)
(* spans are u64 nanoseconds, a deadline is a moment.                      *)
(***************************************************************************)
EXTENDS Naturals

CONSTANT U64     \* the largest u64

ASSUME WidthAssumption == U64 \in Nat

Moments == 0..U64
Spans == 0..U64

\* Span::min
Shorter(a, b) == IF a <= b THEN a ELSE b

\* Deadline::is_elapsed_at
ElapsedAt(deadline, moment) == deadline <= moment

\* Deadline::remaining_at: nothing once the deadline has passed.
RemainingAt(deadline, moment) == IF deadline >= moment THEN deadline - moment ELSE 0

===========================================================================
