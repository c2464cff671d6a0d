---------------------------- MODULE MCMioPoller ----------------------------
(* Three registrations of three tokens over three sources: backend tokens    *)
(* are spent, freed and run out while old events wait.  Two events and a     *)
(* wake saturate the buffer, a destination may be too small and an interest  *)
(* unsupported.  Tokens and sources are interchangeable.                     *)
EXTENDS MioPoller, TLC

PollerSymmetry == Permutations(ResourceTokens) \cup Permutations(Sources)
============================================================================
