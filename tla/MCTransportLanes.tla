-------------------------- MODULE MCTransportLanes --------------------------
(***************************************************************************)
(* Constants of the runs of TransportLanes.                                *)
(***************************************************************************)
EXTENDS TransportLanes, TLC

OneDeep == [l \in Lanes |-> 1]
TwoDeep == [l \in Lanes |-> 2]

Symmetry == Permutations(Users) \cup Permutations(Controllers)
============================================================================
