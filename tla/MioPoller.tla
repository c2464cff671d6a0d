----------------------------- MODULE MioPoller -----------------------------
(***************************************************************************)
(* The Mio readiness poller (crates/calandria-mio/src): registrations that *)
(* translate wide resource tokens to backend tokens, and poll_once, which  *)
(* translates the selector's events back into a bounded destination.       *)
(*                                                                         *)
(* The poller has one owner, so its operations are single actions.  The    *)
(* selector belongs to the operating system: it raises events between any  *)
(* two of them, it may refuse what it is asked, and an event it raised may *)
(* still arrive after the source was deregistered.                         *)
(***************************************************************************)
EXTENDS Naturals, Sequences, FiniteSets

CONSTANTS
  ResourceTokens,   \* the exact generations the owner registers
  Sources,          \* mio event sources
  MaxEvents,        \* MioPollerLimits.events
  MaxRegistrations, \* MioPollerLimits.registrations
  UsizeMax,         \* the last backend token
  Capacities,       \* capacities of the destinations the owner supplies
  Interests,        \* the interests the owner asks for: nonempty sets of kinds
  Supported         \* the kinds the platform has

ASSUME PollerAssumption ==
  /\ MaxEvents \in Nat \ {0} /\ MaxRegistrations \in Nat \ {0} /\ UsizeMax \in Nat \ {0}
  /\ Capacities \subseteq Nat \ {0}

VARIABLES
  entries,       \* Registrations.entries
  next_backend,  \* Option<usize>: the empty set, or the next backend token alone
  selector,      \* external: <<backend token, source>> the selector watches
  raised,        \* external: <<backend token, source>> whose event is waiting
  wakeRaised,    \* external: the waker was fired since the last poll that saw it
  batch,         \* PollEvents: the events in the destination, with the source that raised each
  pollReport,    \* how the last poll ended, and PollReport.saturated; its counts are left out
  pollerPanic,   \* an assertion of commit(), or the destination's, failed
  bound,         \* history: <<resource token, source>> ever committed
  lost           \* history: events of live registrations that a poll consumed without delivering

pollerVars == <<entries, next_backend, selector, raised, wakeRaised, batch, pollReport,
                pollerPanic, bound, lost>>

Vec == INSTANCE SequencesExt

WAKE_TOKEN == 0
Backends == 1..UsizeMax
NoReport == [result |-> "none", saturated |-> FALSE]

PollerInit ==
  /\ entries = <<>>
  /\ next_backend = {1}
  /\ selector = {}
  /\ raised = {}
  /\ wakeRaised = FALSE
  /\ batch = {}
  /\ pollReport = NoReport
  /\ pollerPanic = FALSE
  /\ bound = {}
  /\ lost = {}

---------------------------------------------------------------------------
(* Plausible mistakes in this code, substituted one at a time for the      *)
(* definition they are named after to show that the properties notice.     *)

\* Backend tokens are dense: a freed one is handed out again.
ReserveDense == IF Len(entries) + 1 <= UsizeMax THEN {Len(entries) + 1} ELSE {}

\* Vec::swap_remove instead of Vec::remove.
WithoutSwapped(i) ==
  IF i = Len(entries) THEN Vec!Front(entries)
  ELSE [Vec!Front(entries) EXCEPT ![i] = Vec!Last(entries)]

\* Saturation is reported one event late.
SaturatedLate(observed) == observed > MaxEvents

---------------------------------------------------------------------------
(* Registrations                                                           *)

Registered(token) == \E i \in DOMAIN entries : entries[i].resource = token
IndexOf(token) == CHOOSE i \in DOMAIN entries : entries[i].resource = token
BackendOf(token) == entries[IndexOf(token)].backend

Sorted == \A i, j \in DOMAIN entries : i < j => entries[i].backend < entries[j].backend

\* Registrations::resource(): a binary search by backend token, whose answer is
\* unspecified on an unsorted vector; here it finds nothing then.
ResourceOf(backend) ==
  {entries[i].resource : i \in {j \in DOMAIN entries : Sorted /\ entries[j].backend = backend}}

\* What reserve() hands out, and what it keeps for the next call.
Reserve == next_backend
After(raw) == {n \in {raw + 1} : n <= UsizeMax}

ReserveFails(token) ==
  \/ Registered(token)
  \/ Len(entries) >= MaxRegistrations
  \/ Reserve = {}

\* commit() asserts a fresh identity, room and an increasing backend token.
CommitPanics(token, backend) ==
  \/ Registered(token) \/ ResourceOf(backend) # {}
  \/ Len(entries) >= MaxRegistrations
  \/ entries # <<>> /\ Vec!Last(entries).backend >= backend

\* The vector after Registrations::remove took entry i out.
Without(i) == Vec!RemoveAt(entries, i)

---------------------------------------------------------------------------
(* register, reregister, deregister                                        *)

\* into_mio_interest(): every requested kind exists on the platform.
Mapped(interest) == interest \subseteq Supported

\* A refused interest and a refused reservation return before anything changed.
\* A backend token is spent even when the selector then refuses.
Register(token, source, interest, accepts) ==
  /\ Mapped(interest)
  /\ ~ReserveFails(token)
  /\ \E backend \in Reserve :
       /\ next_backend' = After(backend)
       /\ IF accepts
          THEN /\ selector' = selector \cup
                    {[backend |-> backend, source |-> source, interest |-> interest]}
               /\ pollerPanic' = (pollerPanic \/ CommitPanics(token, backend))
               /\ entries' = Append(entries, [resource |-> token, backend |-> backend])
               /\ bound' = bound \cup {<<token, source>>}
          ELSE UNCHANGED <<selector, pollerPanic, entries, bound>>
  /\ pollReport' = NoReport
  /\ UNCHANGED <<raised, wakeRaised, batch, lost>>

\* The entry the selector keeps for a source.
WatchOf(source) == {w \in selector : w.source = source}

Reregister(token, source, interest, accepts) ==
  /\ Registered(token)
  /\ Mapped(interest)
  /\ selector' = IF accepts
       THEN (selector \ WatchOf(source)) \cup
            {[backend |-> BackendOf(token), source |-> source, interest |-> interest]}
       ELSE selector
  /\ pollReport' = NoReport
  /\ UNCHANGED <<entries, next_backend, raised, wakeRaised, batch, pollerPanic, bound, lost>>

\* The selector forgets the source, then the entry goes.  An event that was
\* raised before may have been queued already.
Deregister(token, source, accepts) ==
  /\ Registered(token)
  /\ IF accepts
     THEN /\ selector' = selector \ WatchOf(source)
          /\ entries' = Without(IndexOf(token))
          /\ raised' \in {raised, {e \in raised : e.source # source}}
     ELSE UNCHANGED <<selector, entries, raised>>
  /\ pollReport' = NoReport
  /\ UNCHANGED <<next_backend, wakeRaised, batch, pollerPanic, bound, lost>>

---------------------------------------------------------------------------
(* The selector, and poll_once                                             *)

\* external: a watched source becomes ready.
Raise(watch) ==
  /\ raised' = raised \cup {[backend |-> watch.backend, source |-> watch.source]}
  /\ pollReport' = NoReport
  /\ UNCHANGED <<entries, next_backend, selector, wakeRaised, batch, pollerPanic, bound, lost>>

\* MioPulseHandle::pulse, and what a WakeHandle of this selector calls.
Pulse ==
  /\ wakeRaised' = TRUE
  /\ pollReport' = NoReport
  /\ UNCHANGED <<entries, next_backend, selector, raised, batch, pollerPanic, bound, lost>>

TooSmall(capacity) == capacity < MaxEvents
Saturated(observed) == observed >= MaxEvents
Stale(events) == {e \in events : ResourceOf(e.backend) = {}}

\* The destination is cleared first and stays empty on failure, which is a
\* destination too small or an error of the selector.
PollFails ==
  /\ batch' = {}
  /\ pollReport' = [result |-> "err", saturated |-> FALSE]
  /\ UNCHANGED <<entries, next_backend, selector, raised, wakeRaised, pollerPanic, bound, lost>>

\* external: the selector fills its event buffer from what is waiting.
Observations ==
  LET waiting == raised \cup (IF wakeRaised THEN {[backend |-> WAKE_TOKEN]} ELSE {})
  IN {s \in SUBSET waiting :
        Cardinality(s) = MaxEvents \/ (s = waiting /\ Cardinality(s) < MaxEvents)}

PollOnce(capacity) ==
  /\ ~TooSmall(capacity)
  /\ \E observed \in Observations :
       LET wakes     == {e \in observed : e.backend = WAKE_TOKEN}
           resources == observed \ wakes
           stale     == Stale(resources)
           delivered == UNION {{[token |-> t, source |-> e.source] : t \in ResourceOf(e.backend)} :
                                 e \in resources \ stale}
           total     == Cardinality(delivered) + Cardinality(wakes)
       IN /\ batch' = delivered
          /\ pollReport' = [result |-> "ok", saturated |-> Saturated(Cardinality(observed))]
          /\ pollerPanic' = (pollerPanic \/ total > capacity)
          /\ raised' = raised \ resources
          /\ wakeRaised' = (wakeRaised /\ wakes = {})
          /\ lost' = lost \cup {e \in resources :
               /\ \E i \in DOMAIN entries : entries[i].backend = e.backend
               /\ ~\E d \in delivered : d.source = e.source}
  /\ UNCHANGED <<entries, next_backend, selector, bound>>

Poll(capacity) == PollFails \/ PollOnce(capacity)

---------------------------------------------------------------------------
(* The owner: a source is registered under one token at a time and is the  *)
(* one presented for that token, as register() and deregister() ask of it. *)

SourceOf(token) == {w.source : w \in {v \in selector : v.backend = BackendOf(token)}}
Unwatched == {s \in Sources : WatchOf(s) = {}}

PollerNext ==
  \/ \E token \in ResourceTokens, accepts \in BOOLEAN, interest \in Interests :
       \/ \E source \in Unwatched : Register(token, source, interest, accepts)
       \/ Registered(token) /\ \E source \in SourceOf(token) :
            Reregister(token, source, interest, accepts) \/ Deregister(token, source, accepts)
  \/ \E watch \in selector : Raise(watch)
  \/ Pulse
  \/ \E capacity \in Capacities : Poll(capacity)

PollerSpec == PollerInit /\ [][PollerNext]_pollerVars

---------------------------------------------------------------------------
(* Properties                                                              *)

PollerTypeOK ==
  /\ entries \in Seq([resource : ResourceTokens, backend : Backends])
  /\ next_backend \subseteq Backends /\ Cardinality(next_backend) <= 1
  /\ selector \subseteq [backend : Backends, source : Sources, interest : Interests]
  /\ raised \subseteq [backend : Backends, source : Sources]
  /\ wakeRaised \in BOOLEAN
  /\ batch \subseteq [token : ResourceTokens, source : Sources]
  /\ pollReport \in [result : {"none", "err", "ok"}, saturated : BOOLEAN]
  /\ pollerPanic \in BOOLEAN
  /\ bound \subseteq ResourceTokens \X Sources

\* Neither commit()'s assertions on identity, room and order, nor the one that the
\* checked destination has room, ever fails.
NoPollerPanic == ~pollerPanic

\* Whatever call of the selector is refused, the poller's entries and the
\* selector's watches name the same backend tokens, one to one.
SelectorAgrees ==
  /\ {entries[i].backend : i \in DOMAIN entries} = {w.backend : w \in selector}
  /\ Cardinality(selector) = Len(entries)

\* Readiness is delivered under a token that was registered with the very source
\* that raised it, also when the event is older than the registrations it meets.
DeliveredToItsToken == \A e \in batch : <<e.token, e.source>> \in bound

\* A poll consumes no event of a live registration without delivering it.
NothingLost == lost = {}

\* A report that is not saturated leaves nothing waiting: the owner that skips the
\* immediate follow-up poll misses no edge.
SaturationIsHonest ==
  pollReport.result = "ok" /\ ~pollReport.saturated => raised = {} /\ ~wakeRaised

\* Whatever the selector refuses or keeps for later: the poller stays in agreement
\* with it, no assertion fails, and a report never hides waiting events.
PollerSafe == PollerTypeOK /\ NoPollerPanic /\ SelectorAgrees /\ SaturationIsHonest

---------------------------------------------------------------------------
(* The inductive invariant behind PollerSafe, DeliveredToItsToken and      *)
(* NothingLost.                                                            *)

\* Backend tokens only grow, so the next one is new to the entries and to every
\* event that still waits.
BackendsSpent ==
  \A n \in next_backend :
    /\ \A i \in DOMAIN entries : entries[i].backend < n
    /\ \A e \in raised : e.backend < n

\* reserve() refuses a token that is registered.
OneEntryPerToken ==
  \A i, j \in DOMAIN entries : entries[i].resource = entries[j].resource => i = j

\* The selector keeps one watch per source, and each has its own backend token.
OneWatch ==
  /\ IsFiniteSet(selector)
  /\ \A v, w \in selector : v.backend = w.backend \/ v.source = w.source => v = w

\* A waiting event that would be translated to a token comes from a source that
\* was registered under it.
TiedToItsToken ==
  /\ IsFiniteSet(raised)
  /\ \A i \in DOMAIN entries, e \in raised \cup selector :
       entries[i].backend = e.backend => <<entries[i].resource, e.source>> \in bound

PollerInv ==
  /\ PollerSafe /\ DeliveredToItsToken /\ NothingLost
  /\ Sorted /\ BackendsSpent /\ OneEntryPerToken /\ OneWatch /\ TiedToItsToken

===========================================================================
