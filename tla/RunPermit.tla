----------------------------- MODULE RunPermit -----------------------------
(***************************************************************************)
(* What the PCS handle promises the safety chain, without tasks, locks or   *)
(* caches: while the interlock is engaged, a stop that has taken effect is  *)
(* final.  Orders to the device may come at any time except that one: no    *)
(* start after the stop.                                                    *)
(***************************************************************************)

VARIABLES
  engaged,  \* the interlock forbids running
  halted,   \* a stop has taken effect since it was engaged
  order,    \* the order the device has not carried out yet
  run       \* what the device is doing

permitVars == <<engaged, halted, order, run>>

PermitInit ==
  /\ engaged = FALSE /\ halted = FALSE
  /\ order = "none"
  /\ run \in {"stopped", "running"}

Engage ==
  /\ engaged' = TRUE
  /\ UNCHANGED <<halted, order, run>>

(* By an operator, by the state machine, or because the process died. *)
Disengage ==
  /\ engaged' = FALSE /\ halted' = FALSE
  /\ UNCHANGED <<order, run>>

OrderStop ==
  /\ order' = "stop"
  /\ halted' = (halted \/ engaged)
  /\ UNCHANGED <<engaged, run>>

OrderStart ==
  /\ ~halted
  /\ order' = "start"
  /\ UNCHANGED <<engaged, halted, run>>

CarryOut ==
  /\ order # "none"
  /\ run' = IF order = "start" THEN "running" ELSE "stopped"
  /\ order' = "none"
  /\ UNCHANGED <<engaged, halted>>

(* A protection trip or a power cycle. *)
FallsStopped ==
  /\ run' = "stopped" /\ order' = "none"
  /\ UNCHANGED <<engaged, halted>>

PermitNext ==
  Engage \/ Disengage \/ OrderStop \/ OrderStart \/ CarryOut \/ FallsStopped

PermitSpec == PermitInit /\ [][PermitNext]_permitVars

(* A halted device is stopped or about to stop. *)
HaltIsFinal ==
  halted => engaged /\ (order = "stop" \/ (run = "stopped" /\ order = "none"))

=============================================================================
