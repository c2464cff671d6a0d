----------------------------- MODULE MCMailbox -----------------------------
(* Two senders, one holder of a wake handle clone and two items.  Item a    *)
(* fills the control lane, b is too large for it, both fit the work lane:   *)
(* every refusal and every order of two items in a lane is reached.         *)
EXTENDS Mailbox, TLC

CONSTANTS s1, s2, w1, a, b

MCCallers == {s1, s2, w1}
MCSenders == {s1, s2}
MCItems == {a, b}
MCBytes == (a :> 1) @@ (b :> 2)
MCMessageLimit == [l \in Lanes |-> IF l = "control" THEN 1 ELSE 2]
MCByteLimit == [l \in Lanes |-> IF l = "control" THEN 1 ELSE 3]
SenderSymmetry == Permutations(Senders)

===========================================================================
