------------------------------- MODULE MCPcs -------------------------------
(* Two senders that need different modes, as the strategy loop (split) and  *)
(* the IEC 104 handler (const) do, and one interlock caller.                *)
EXTENDS Pcs

MCSenders == {"strategy", "iec104"}
MCModes   == {"const", "split"}
MCModeOf  == [s \in MCSenders |-> IF s = "strategy" THEN "split" ELSE "const"]
MCCallers == {"runner", "operator"}
=============================================================================
