-------------------------- MODULE MCReactorService --------------------------
(* Two senders with one command each, one of them Stop, and one requester.  *)
EXTENDS ReactorService, TLC

CONSTANTS s1, s2, job, stop

MCSenders == {s1, s2}
MCItems == {job, stop}
MCBytes == (job :> 1) @@ (stop :> 0)
MCMessageLimit == [l \in Lanes |-> 2]
MCByteLimit == [l \in Lanes |-> 1]
MCStopItems == {stop}
=============================================================================
