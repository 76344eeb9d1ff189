---------------------------- MODULE MCMqttUplink ----------------------------
(* One periodic task and the class C task over one station.                 *)
EXTENDS MqttUplink

MCStations == {"bms"}
MCPeriodic == {"a"}
MCDrains   == {"d1", "d2"}
=============================================================================
