---------------------------- MODULE EventBatch ----------------------------
(***************************************************************************)
(* The reusable owner-local event batch (crates/calandria/src/batch):      *)
(* events in insertion order, bounded in number and in retained bytes.     *)
(* Each operation takes &mut self; a module that owns a batch keeps it in  *)
(* a variable and assigns what these operators return.                     *)
(***************************************************************************)
EXTENDS Naturals, Sequences, SequencesExt

CONSTANTS
  U64,        \* the largest u64: of a byte count
  Limits      \* EventBatchLimits, as a record

\* EventBatch::new
EmptyBatch == [events |-> <<>>, retained |-> 0]

\* Entry: the event and what it measured on admission.
EntryOf(event, size) == [event |-> event, retained |-> size]

BatchFailures == {"none", "event_capacity", "byte_overflow", "byte_capacity"}

---------------------------------------------------------------------------
(* Plausible mistakes in this code, substituted one at a time for the      *)
(* definition they are named after to show that the properties notice.     *)

\* The account is settled by the iterator's destructor, which a leaked iterator
\* never runs.
DrainedLate(batch, leaked) ==
  [events |-> <<>>, retained |-> IF leaked THEN batch.retained ELSE 0]

---------------------------------------------------------------------------
(* Operations                                                              *)

\* The refusals of try_push, in their order.
PushFailure(batch, size) ==
  IF Len(batch.events) >= Limits.events THEN "event_capacity"
  ELSE IF batch.retained + size > U64 THEN "byte_overflow"
  ELSE IF batch.retained + size > Limits.retained_bytes THEN "byte_capacity"
  ELSE "none"

\* try_push that is not refused; a refused event goes back to the caller.
Pushed(batch, event, size) ==
  [events |-> Append(batch.events, EntryOf(event, size)), retained |-> batch.retained + size]

TryPush(batch, event, size) ==
  IF PushFailure(batch, size) = "none" THEN Pushed(batch, event, size) ELSE batch

\* pop: the most recently admitted event leaves, its bytes with it.
Popped(batch) ==
  [events |-> Front(batch.events), retained |-> batch.retained - Last(batch.events).retained]

\* clear; the destructors of the events are taken to return (one that unwinds
\* out of Vec::clear leaves the account as it was).
Cleared(batch) == EmptyBatch

\* drain empties the account, then Vec::drain(..) the vector, before the first
\* event is yielded: so it does not matter how far, from which end, or whether
\* the iterator runs, nor that it is leaked.
Drained(batch, leaked) == EmptyBatch

---------------------------------------------------------------------------

\* The account is the exact total of what the batch holds, so subtract_retained
\* cannot panic, and both limits hold.
BatchAccounts(batch) ==
  /\ batch.retained = FoldSeq(LAMBDA e, n : e.retained + n, 0, batch.events)
  /\ batch.retained <= Limits.retained_bytes
  /\ Len(batch.events) <= Limits.events

===========================================================================
