------------------------------- MODULE MCLanes -------------------------------
(***************************************************************************)
(* TransportLanes with every producer and every kind of subscriber, on two *)
(* parts of its behaviours, of which a behaviour picks one: those in which *)
(* no controller subscribes ("data"), and those in which no user does and  *)
(* the reader alone receives motor status ("control").                     *)
(***************************************************************************)
EXTENDS TransportLanes

CONSTANT DataFrames   \* bound: frames received in a "data" behaviour

VARIABLE lane         \* the part of the behaviour, "data" or "control"

mcvars == <<vars, lane>>

OneDeep == [l \in Lanes |-> 1]

OfData ==
  /\ lane = "data"
  /\ csub' = csub
  /\ Len(frames') <= DataFrames

OfControl ==
  /\ lane = "control"
  /\ dsub' = dsub
  /\ \A n \in 1 .. Len(frames') : frames'[n] = [kind |-> "status", from |-> "reader"]

MCInit == Init /\ lane \in Lanes

MCNext == Next /\ (OfData \/ OfControl) /\ UNCHANGED lane

InData(action) == lane = "data" /\ action /\ UNCHANGED lane

(* With the fairness of TransportLanes for the "data" behaviours. *)
MCSpec ==
  /\ MCInit /\ [][MCNext]_mcvars
  /\ WF_mcvars(InData(ReaderStep))
  /\ \A p \in Producers : WF_mcvars(InData(HandOver(p)))
  /\ \A l \in Lanes : WF_mcvars(InData(WorkerStep(l)))
  /\ WF_mcvars(InData(StopStep))

-----------------------------------------------------------------------------
(* A producer that hands a frame over. *)
HandsOver(p) == lane = "data" /\ ppc[p] \in {"count", "control", "data"}

(* stop() returns, provided the user's callback does (transport.cpp:251), and
   no subscriber and no full queue keeps the reader, who resolves the ACKs,
   from reading on (transport.cpp:481). *)
NobodyIsStuck ==
  /\ lane = "data" => StopReturns
  /\ \A p \in Producers : HandsOver(p) ~> ~HandsOver(p)

=============================================================================
