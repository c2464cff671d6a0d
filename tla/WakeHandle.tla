---------------------------- MODULE WakeHandle ----------------------------
(***************************************************************************)
(* WakeHandle (crates/calandria/src/wake.rs): a coalescing wake request    *)
(* shared by many callers of wake() and one owner that calls               *)
(* acknowledge().                                                          *)
(*                                                                         *)
(* Every atomic access to `phase` is one action, so callers, the owner and *)
(* the backend interleave as the hardware allows.  The spin loop is an     *)
(* action that is not enabled: a caller that loads WAKING or               *)
(* WAKING_ACKNOWLEDGED just tries again.                                   *)
(***************************************************************************)
EXTENDS Naturals

CONSTANT Callers       \* the threads that may call wake()

VARIABLES
  phase,     \* WakeState.phase
  call,      \* call[t]: where thread t is inside wake()
  ack,       \* where the owner is inside acknowledge()
  signal,    \* the backend's pending token (ThreadParkState.notified, Mio's eventfd)
  issued,    \* history: successful backend wakes for requests claimed since the
             \* last acknowledgement
  covered    \* history: the callers for whom a backend wake succeeded since the
             \* last acknowledgement before their call

wakeVars == <<phase, call, ack, signal, issued, covered>>

Phases == {"idle", "waking", "requested", "waking_ack"}

\* out     not inside wake()          load    about to load the phase
\* cas     loaded IDLE                source  holds WAKING, inside source.wake()
\* issued  source.wake() was Ok       refused source.wake() was Err
\* store   the completing CAS saw WAKING_ACKNOWLEDGED, about to store IDLE
\* ok, err returned                   panic   hit a panic!/assert!
CallStates ==
  {"out", "load", "cas", "source", "issued", "refused", "store", "ok", "err", "panic"}

\* The same for acknowledge(): cas_requested and cas_waking name the loaded value.
AckStates == {"out", "load", "cas_requested", "cas_waking", "done"}

\* The caller that moved the phase out of IDLE and has not resolved it yet.
InFlight(t) == call[t] \in {"source", "issued", "refused", "store"}

InCall(t) == call[t] \notin {"out", "panic"}

WakeInit ==
  /\ phase = "idle"
  /\ call = [t \in Callers |-> "out"]
  /\ ack = "out"
  /\ signal = FALSE
  /\ issued = 0
  /\ covered = {}

---------------------------------------------------------------------------
(* A plausible mistake, substituted for Load.                              *)

\* A caller takes another caller's unfinished request for a successful one.
LoadJoinsUnfinished(t) ==
  /\ call[t] = "load"
  /\ call' = [call EXCEPT ![t] = IF phase = "idle" THEN "cas" ELSE "ok"]
  /\ UNCHANGED <<phase, ack, signal, issued, covered>>

---------------------------------------------------------------------------
(* wake()                                                                  *)

BeginWake(t) ==
  /\ call[t] = "out"
  /\ call' = [call EXCEPT ![t] = "load"]
  /\ covered' = IF issued > 0 THEN covered \cup {t} ELSE covered \ {t}
  /\ UNCHANGED <<phase, ack, signal, issued>>

\* REQUESTED: coalesced.  IDLE: try to claim.  Otherwise spin.
Load(t) ==
  /\ call[t] = "load"
  /\ phase \in {"requested", "idle"}
  /\ call' = [call EXCEPT ![t] = IF phase = "requested" THEN "ok" ELSE "cas"]
  /\ UNCHANGED <<phase, ack, signal, issued, covered>>

Claim(t) ==
  /\ call[t] = "cas"
  /\ IF phase = "idle"
     THEN /\ phase' = "waking"
          /\ call' = [call EXCEPT ![t] = "source"]
     ELSE /\ call' = [call EXCEPT ![t] = "load"]
          /\ UNCHANGED phase
  /\ UNCHANGED <<ack, signal, issued, covered>>

\* The backend accepts the wake.  A request claimed before the latest
\* acknowledgement runs under WAKING_ACKNOWLEDGED and is not counted.
SourceOk(t) ==
  /\ call[t] = "source"
  /\ call' = [call EXCEPT ![t] = "issued"]
  /\ signal' = TRUE
  /\ issued' = IF phase = "waking" THEN issued + 1 ELSE issued
  /\ covered' = covered \cup {u \in Callers : InCall(u)}
  /\ UNCHANGED <<phase, ack>>

SourceErr(t) ==
  /\ call[t] = "source"
  /\ call' = [call EXCEPT ![t] = "refused"]
  /\ UNCHANGED <<phase, ack, signal, issued, covered>>

\* finish_wake(Ok): WAKING becomes REQUESTED in one CAS.
CompleteOk(t) ==
  /\ call[t] = "issued"
  /\ phase' = IF phase = "waking" THEN "requested" ELSE phase
  /\ call' = [call EXCEPT ![t] =
       IF phase = "waking" THEN "ok" ELSE IF phase = "waking_ack" THEN "store" ELSE "panic"]
  /\ UNCHANGED <<ack, signal, issued, covered>>

\* finish_wake(Ok) after the CAS failed with WAKING_ACKNOWLEDGED.
StoreIdle(t) ==
  /\ call[t] = "store"
  /\ phase' = "idle"
  /\ call' = [call EXCEPT ![t] = "ok"]
  /\ UNCHANGED <<ack, signal, issued, covered>>

\* finish_wake(Err): swap IDLE, assert the previous value.
CompleteErr(t) ==
  /\ call[t] = "refused"
  /\ phase' = "idle"
  /\ call' = [call EXCEPT ![t] = IF phase \in {"waking", "waking_ack"} THEN "err" ELSE "panic"]
  /\ UNCHANGED <<ack, signal, issued, covered>>

ReturnWake(t) ==
  /\ call[t] \in {"ok", "err"}
  /\ call' = [call EXCEPT ![t] = "out"]
  /\ UNCHANGED <<phase, ack, signal, issued, covered>>

\* The steps of a call that has begun and not yet returned.
WakeStep(t) ==
  \/ Load(t) \/ Claim(t) \/ SourceOk(t) \/ SourceErr(t)
  \/ CompleteOk(t) \/ StoreIdle(t) \/ CompleteErr(t)

---------------------------------------------------------------------------
(* acknowledge(), called by the single owner                               *)

AckBegin ==
  /\ ack = "out"
  /\ ack' = "load"
  /\ UNCHANGED <<phase, call, signal, issued, covered>>

\* IDLE and WAKING_ACKNOWLEDGED need no change and return at once.
AckLoad ==
  /\ ack = "load"
  /\ \/ /\ phase \in {"idle", "waking_ack"}
        /\ ack' = "done"
        /\ issued' = 0
     \/ /\ phase = "requested"
        /\ ack' = "cas_requested"
        /\ UNCHANGED issued
     \/ /\ phase = "waking"
        /\ ack' = "cas_waking"
        /\ UNCHANGED issued
  /\ UNCHANGED <<phase, call, signal, covered>>

AckCas(pc, expected, new) ==
  /\ ack = pc
  /\ IF phase = expected
     THEN phase' = new /\ ack' = "done" /\ issued' = 0
     ELSE ack' = "load" /\ UNCHANGED <<phase, issued>>
  /\ UNCHANGED <<call, signal, covered>>

AckStep ==
  \/ AckLoad
  \/ AckCas("cas_requested", "requested", "idle")
  \/ AckCas("cas_waking", "waking", "waking_ack")

AckReturn ==
  /\ ack = "done"
  /\ ack' = "out"
  /\ UNCHANGED <<phase, call, signal, issued, covered>>

\* The owner's backend wait consumes the pending token.
Observe ==
  /\ signal
  /\ signal' = FALSE
  /\ UNCHANGED <<phase, call, ack, issued, covered>>

---------------------------------------------------------------------------

WakeNext ==
  \/ \E t \in Callers : BeginWake(t) \/ WakeStep(t) \/ ReturnWake(t)
  \/ AckBegin \/ AckStep \/ AckReturn \/ Observe

WakeSpec == WakeInit /\ [][WakeNext]_wakeVars

---------------------------------------------------------------------------
(* Properties                                                              *)

WakeTypeOK ==
  /\ phase \in Phases
  /\ call \in [Callers -> CallStates]
  /\ ack \in AckStates
  /\ signal \in BOOLEAN
  /\ issued \in Nat
  /\ covered \subseteq Callers

\* No interleaving of callers, failed backends and acknowledgements reaches the
\* panics of finish_wake: whoever resolves a request finds it still in flight.
NoWakePanic == \A t \in Callers : call[t] # "panic"

\* wake() never returns Ok on the strength of a request that failed: when it
\* returns Ok, the backend was woken after the last acknowledgement that
\* preceded the call, by this caller or by one it coalesced with.
OkIsSignalled == \A t \in Callers : call[t] = "ok" => t \in covered

\* Coalescing: of the requests claimed since the last acknowledgement at most
\* one reaches the backend successfully, however many callers race.
Coalesced == issued <= 1

\* REQUESTED is a promise: it is only ever visible while a successful backend
\* wake stands that no acknowledgement has retired.
RequestedIsIssued == phase = "requested" => issued = 1

---------------------------------------------------------------------------
(* The inductive invariant behind those properties.                        *)

\* At most one caller holds the request, and the phase says so.
Exclusive ==
  /\ \A t, u \in Callers : InFlight(t) /\ InFlight(u) => t = u
  /\ phase \in {"waking", "waking_ack"} <=> \E t \in Callers : InFlight(t)
  /\ \A t \in Callers : call[t] = "store" => phase = "waking_ack"

\* What `issued` is in each phase.
Accounted ==
  /\ phase = "requested" => issued = 1
  /\ phase \in {"idle", "waking_ack"} => issued = 0
  /\ \A t \in Callers : phase = "waking" =>
       /\ call[t] \in {"source", "refused"} => issued = 0
       /\ call[t] = "issued" => issued = 1

\* A caller inside wake() is covered as soon as a counted wake stands.
Covering ==
  \A t \in Callers :
    /\ InCall(t) /\ issued > 0 => t \in covered
    /\ call[t] \in {"issued", "store", "ok"} => t \in covered

WakeInv == WakeTypeOK /\ NoWakePanic /\ Exclusive /\ Accounted /\ Covering

===========================================================================
