--------------------------- MODULE MCIec104Uplink ---------------------------
(* The telemetry chain for a battery whose alarm block has an interval of   *)
(* its own: its bits are one group, the scalars are the carrier's.          *)
EXTENDS Iec104Uplink, TLC

MCGroups   == {"alarm", "unit"}
MCBitsOf   == ("alarm" :> {"b1", "b2"}) @@ ("unit" :> {})
MCScalars  == {"unit"}
MCAggrBits == {"b1", "b2"}
MCPoints   == {"b1", "b2", "aggr"}
MCClassC   == {"aggr"}

(* An uplink that is never behind: nothing is read, and nothing expires,    *)
(* while a change is under way.                                             *)
Moves ==
  \/ port = "idle" /\ <<table, station>>' # <<table, station>>
  \/ active /\ ~active'

Prompt == Init /\ [][Next /\ (Moves => Quiet /\ link = "started")]_vars
=============================================================================
