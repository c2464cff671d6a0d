------------------------ MODULE MCScriptedTimeline ------------------------
(* Every script of up to three steps over two requests and plans that drop, *)
(* delay, reorder and repeat their outcomes; some are refused for want of   *)
(* steps, outcomes or bytes, some outcomes for want of room or of time.     *)
EXTENDS ScriptedTimeline, TLC

CONSTANTS a, b

MCRequestBytes == (a :> 0) @@ (b :> 1)
MCScriptLimits == [steps |-> 3, outcomes |-> 5, retained_bytes |-> 7]
MCPayloads == [step : 1..4, index : 1..2]

P(delay, size) == Script!PlannedOf(delay, size)
Plans == {<<>>, <<P(0, 1)>>, <<P(2, 2)>>, <<P(1, 2), P(0, 1)>>, <<P(1, 1), P(1, 1)>>}
Steps == {Script!StepOf(q, p) : q \in Requests, p \in Plans}
Huge == Script!StepOf(b, <<P(1, 4), P(0, 4)>>)

MCScripts ==
  {<<>>, <<Huge>>} \cup {<<s>> : s \in Steps} \cup {<<s, t>> : s, t \in Steps}
    \cup {<<s, t, u>> : s, t, u \in Steps} \cup {<<s, s, s, s>> : s \in Steps}
===========================================================================
