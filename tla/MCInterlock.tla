---------------------------- MODULE MCInterlock ----------------------------
(* The system on small instances.                                           *)
EXTENDS Interlock

MCSenders    == {"strategy"}
MCNoSenders  == {}
MCModes      == {"split"}
MCModeOf     == [s \in MCSenders |-> "split"]
MCNoModes    == [s \in {} |-> "split"]
MCCallers    == {"runner", "operator"}
MCSources    == {"estop"}
MCNoInputs   == {}

(* The system with nobody at the console: liveness with a sender in flight  *)
(* stays within reach, and a latch, once set, is there to stay.             *)
NobodyThere ==
  \/ Runner
  \/ \E s \in Senders : Admit(s) \/ Dispatch(s)
  \/ PcsAlone
  \/ \E s \in Sources : Press(s) \/ Unpress(s)
  \/ Time
  \/ Crash

Unattended == Init /\ [][NobodyThere]_vars /\ Fairness
=============================================================================
