--------------------------- MODULE MCPollSchedule ---------------------------
(* A port with a meter and an air conditioner whose bits are a fast group.  *)
EXTENDS PollSchedule, TLC

MCEntries   == {"meter", "bits", "unit"}
MCStationOf == ("meter" :> "grid") @@ ("bits" :> "hvac") @@ ("unit" :> "hvac")
MCCarriers  == {"meter", "unit"}
MCInterval  == ("meter" :> 2) @@ ("bits" :> 1) @@ ("unit" :> 3)
MCRank      == ("meter" :> 1) @@ ("unit" :> 2) @@ ("bits" :> 3)
=============================================================================
