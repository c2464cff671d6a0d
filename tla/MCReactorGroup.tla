--------------------------- MODULE MCReactorGroup ---------------------------
(* Groups of one and two reactors, and topologies that validation rejects.  *)
EXTENDS ReactorGroup

MCTopologies == {<<>>, <<0>>, <<0, 1>>, <<1, 0>>, <<0, 1, 2>>}
=============================================================================
