--------------------------- MODULE MCEventStream ---------------------------
(***************************************************************************)
(* Instances of the event stream for TLC.                                  *)
(***************************************************************************)
EXTENDS EventStream

CONSTANT a

NoFaults == [k \in FaultKinds |-> 0]
PublishFaults == [NoFaults EXCEPT !["publish"] = 1]
StreamFaults == [k \in FaultKinds |-> 1]
=============================================================================
