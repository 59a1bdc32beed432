------------------------ MODULE MCTransportRequests ------------------------
(***************************************************************************)
(* Constants of the runs of TransportRequests.                             *)
(***************************************************************************)
EXTENDS TransportRequests, TLC

Symmetry == Permutations(Senders)
============================================================================
