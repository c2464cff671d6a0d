-------------------------- MODULE ReadinessOwner --------------------------
(***************************************************************************)
(* A duty that owns sources in a ResourceTable and watches them through a  *)
(* MioPoller, as examples/framed_reactor.rs does for one connection: admit *)
(* and register, poll, resolve each event's token, deregister and remove.  *)
(*                                                                         *)
(* The batch is ingested event by event, and a source may be closed and    *)
(* its slot reused between two events of the same batch.  A source is the  *)
(* number of the admission that owns it.                                   *)
(***************************************************************************)
EXTENDS ResourceTable, MioPoller

VARIABLE
  applied   \* history: <<resource that was told, source that was ready>>

\* The poller registers the table's tokens, for the sources the table owns.
ASSUME OwnerAssumption == ResourceTokens = Token /\ Sources = Resources

ownerVars == <<resourceVars, pollerVars, applied>>

OwnerInit ==
  /\ ResourceInit
  /\ PollerInit
  /\ applied = {}

---------------------------------------------------------------------------
(* Plausible mistakes in this code, substituted one at a time for the      *)
(* definition they are named after to show that the properties notice.     *)

\* The resource is dropped before its source is deregistered.
CloseTable(token, source) == Resolves(token) /\ Remove(token) /\ UNCHANGED pollerVars

---------------------------------------------------------------------------
(* Steps of the owner                                                      *)

LiveTokens == {LiveToken(i) : i \in Live}
SourceAt(token) == slots[token.slot].resource

\* resources.admit()
Open(identity) == Admit(identity) /\ UNCHANGED <<pollerVars, applied>>

\* resources.get() by any token the owner has kept, or made up.
Present(token) == Use(token) /\ UNCHANGED <<pollerVars, applied>>

\* poller.register() and reregister() on the stream that get_mut() resolved
Watch(token, interest, accepts) ==
  /\ \/ Register(token, SourceAt(token), interest, accepts)
     \/ Reregister(token, SourceAt(token), interest, accepts)
  /\ UNCHANGED <<resourceVars, applied>>

\* finish_if_written(): deregister, and only when that succeeded remove.
CloseBoth(token, source) ==
  \/ Deregister(token, source, TRUE) /\ Remove(token)
  \/ Deregister(token, source, FALSE) /\ UNCHANGED resourceVars

Close(token) == CloseBoth(token, SourceAt(token)) /\ UNCHANGED applied

\* wait_for_io(), and the follow-up poll of ingest_poll_batches()
WaitForIo(capacity) == Poll(capacity) /\ UNCHANGED <<resourceVars, applied>>

\* One event of ingest_readiness(): the resource is told, or the event is stale.
Ingest(event) ==
  /\ batch' = batch \ {event}
  /\ IF Resolves(event.token)
     THEN /\ applied' = applied \cup {<<SourceAt(event.token), event.source>>}
          /\ Use(event.token)
     ELSE UNCHANGED <<applied, resourceVars>>
  /\ UNCHANGED <<entries, next_backend, selector, raised, wakeRaised, pollReport, pollerPanic,
                 bound, lost>>

\* external: the selector and the holders of wake handles
Outside ==
  /\ \/ \E watch \in selector : Raise(watch)
     \/ Pulse
  /\ UNCHANGED <<resourceVars, applied>>

OwnerNext ==
  \/ \E identity \in Identities : Open(identity)
  \/ \E token \in Token : Present(token)
  \/ \E token \in LiveTokens :
       \/ \E interest \in Interests, accepts \in BOOLEAN : Watch(token, interest, accepts)
       \/ Close(token)
  \/ \E capacity \in Capacities : WaitForIo(capacity)
  \/ \E event \in batch : Ingest(event)
  \/ Outside

OwnerSpec == OwnerInit /\ [][OwnerNext]_ownerVars

---------------------------------------------------------------------------
(* Properties                                                              *)

\* Readiness is only ever told to the resource whose source raised it, however
\* late the event is and whatever was closed and opened meanwhile.
ReadinessReachesItsSource == \A a \in applied : a[1] = a[2]

\* Whatever the selector watches belongs to a live resource, under its token.
WatchedIsLive ==
  \A i \in DOMAIN entries :
    /\ Resolves(entries[i].resource)
    /\ \E w \in selector : /\ w.backend = entries[i].backend
                           /\ w.source = SourceAt(entries[i].resource)

---------------------------------------------------------------------------
(* The inductive invariant behind both.                                    *)

\* A token is registered only with the source that was admitted under it.
BoundIsAdmitted ==
  \A b \in bound : \E a \in admissions : a.token = b[1] /\ a.resource = b[2]

OwnerInv ==
  /\ TableInv /\ PollerInv
  /\ ReadinessReachesItsSource /\ WatchedIsLive /\ BoundIsAdmitted

===========================================================================
