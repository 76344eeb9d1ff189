--------------------------- MODULE MCDecisionLoop ---------------------------
(* The strategy alone on the handle, one target besides zero.               *)
EXTENDS DecisionLoop

MCSenders == {"strategy"}
MCModes   == {"split"}
MCModeOf  == [s \in MCSenders |-> "split"]
MCCallers == {"interlock"}
MCTargets == {"charge"}
=============================================================================
