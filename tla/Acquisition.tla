----------------------------- MODULE Acquisition -----------------------------
(***************************************************************************)
(* How a station's bits get into the table: `poll_group` with its trackers  *)
(* (crates/mupc-southd/src/scheduler.rs) and the sink behind it             *)
(* (`SouthSink` in crates/mupc-core-bin/src/startup.rs).                    *)
(*                                                                         *)
(* A station is polled in GROUPS of blocks by the one task of its port; one *)
(* group, the CARRIER, decides whether the station is online.  A tracker    *)
(* per group remembers the last reading, so that only bits that changed are *)
(* delivered; after a failure it is reset and everything is delivered.      *)
(*                                                                         *)
(* Abstractions: groups are polled in any order and at any time             *)
(* (PollSchedule has the times); failure counts are kept as "zero or not";  *)
(* events, scalars and the history path are left out, except that a group   *)
(* with scalars calls the sink in every round.                              *)
(***************************************************************************)
EXTENDS LatestValues

CONSTANTS
  Groups,      \* read groups of the station
  Carrier,     \* the one that carries the station (carrier_group)
  BitsOf,      \* BitsOf[g]: the bits of group g
  Scalars,     \* groups that also hold scalars
  AggrBits,    \* the bits of the aggregate; {} unless the station is a battery
  Aggr         \* the aggregate, a point of its own

Bits == UNION {BitsOf[g] : g \in Groups}

ASSUME GroupsAssumption ==
  /\ Carrier \in Groups /\ Scalars \subseteq Groups
  /\ BitsOf \in [Groups -> SUBSET Points]
  /\ \A g, h \in Groups : g # h => BitsOf[g] \cap BitsOf[h] = {}
ASSUME AggrAssumption ==
  /\ AggrBits \subseteq Bits /\ Aggr \notin Bits
  /\ Points = IF AggrBits = {} THEN Bits ELSE Bits \cup {Aggr}

VARIABLES
  offline,     \* offline_count > 0
  failing,     \* groups with group_fail_count > 0
  primed,      \* groups whose tracker has a base line
  last,        \* last[b]: the base line, meaningless unless primed
  port,        \* where the port's task is
  pending      \* the bits poll_group is about to deliver, with their values

station == <<offline, failing, primed, last>>
acqVars == <<table, channel, station, port, pending>>

NoBits == [b \in {} |-> "off"]

AcqTypeOK ==
  /\ value \in [Points -> Values] /\ quality \in [Points -> Qualities]
  /\ active \in BOOLEAN /\ lagged \in BOOLEAN
  /\ changes \in Seq(SUBSET Points) /\ Len(changes) <= ChangeCap
  /\ offline \in BOOLEAN /\ failing \subseteq Groups \ {Carrier}
  /\ primed \subseteq Groups /\ last \in [Bits -> Bit]
  /\ port \in {"idle", "online", "deliver", "aggregate"}
  /\ DOMAIN pending \subseteq Bits /\ \A b \in DOMAIN pending : pending[b] \in Bit

AcqInit ==
  /\ TableInit
  /\ offline = FALSE /\ failing = {} /\ primed = {}
  /\ last = [b \in Bits |-> "off"]
  /\ port = "idle" /\ pending = NoBits

-----------------------------------------------------------------------------
(* The port's task.                                                         *)

\* A mutant for the model checker: a recovery resets the carrier's tracker only.
ResetsCarrier(g) == IF (g = Carrier /\ offline) \/ g \in failing THEN {g} ELSE {}

(* The trackers that lose their base line when g has been read.             *)
Resets(g) ==
  (IF g = Carrier /\ offline THEN Groups ELSE {}) \cup (IF g \in failing THEN {g} ELSE {})

(* The bits to deliver: all of them without a base line, else the changed.  *)
ToDeliver(g, r) == {b \in BitsOf[g] : g \notin primed \ Resets(g) \/ r[b] # last[b]}

(* poll_group of g reads `r`.  What the trackers and mark_success do is seen *)
(* by this task only; the sink is called once or twice afterwards.           *)
PollOk(g, r) ==
  /\ port = "idle"
  /\ offline' = (offline /\ g # Carrier)
  /\ failing' = failing \ {g}
  /\ primed' = (primed \ Resets(g)) \cup {g}
  /\ last' = [b \in Bits |-> IF b \in BitsOf[g] THEN r[b] ELSE last[b]]
  /\ pending' = [b \in ToDeliver(g, r) |-> r[b]]
  /\ port' = IF g = Carrier /\ offline THEN "online"
             ELSE IF g \in Scalars \/ ToDeliver(g, r) # {} THEN "deliver" ELSE "idle"
  /\ UNCHANGED <<table, channel>>

(* poll_group of g fails: only the carrier's failure is the station's.  The *)
(* sink hears of the first one and then of one per stale_timeout_s.         *)
PollFail(g) ==
  /\ port = "idle"
  /\ IF g = Carrier
     THEN /\ offline' = TRUE
          /\ \/ MarkOffline
             \/ offline /\ UNCHANGED <<table, channel>>
          /\ UNCHANGED failing
     ELSE failing' = failing \cup {g} /\ UNCHANGED <<offline, table, channel>>
  /\ UNCHANGED <<primed, last, port, pending>>

-----------------------------------------------------------------------------
(* The sink, on the port's task.                                            *)

Read == {b \in AggrBits : quality[b] # "absent"}

AggrValue ==
  IF Read = {} THEN "none" ELSE IF \E b \in Read : value[b] = "on" THEN "on" ELSE "off"

AggrQuality ==
  IF Read # AggrBits THEN "unconfigured"
  ELSE IF \E b \in Read : quality[b] = "invalid" THEN "invalid" ELSE "ok"

\* A mutant for the model checker: only bits that are ok count.
ApplyAggregatesOk ==
  LET on == \E b \in Read : quality[b] = "ok" /\ value[b] = "on"
  IN  Apply([p \in {Aggr} |-> IF on THEN "on" ELSE "off"], [p \in {Aggr} |-> AggrQuality])

(* apply_bms_aggregates, for a battery.                                     *)
ApplyAggregates ==
  IF AggrBits = {} THEN UNCHANGED <<value, quality, channel>>
  ELSE Apply([p \in {Aggr} |-> AggrValue], [p \in {Aggr} |-> AggrQuality])

(* on_station_telemetry with the "online" event.                            *)
Online ==
  /\ port = "online"
  /\ active' = TRUE
  /\ ApplyAggregates
  /\ port' = "deliver"
  /\ UNCHANGED <<station, pending>>

(* on_station_telemetry with the round's points.                            *)
Deliver ==
  /\ port = "deliver"
  /\ active' = TRUE
  /\ Apply(pending, [b \in DOMAIN pending |-> "ok"])
  /\ port' = "aggregate"
  /\ pending' = NoBits
  /\ UNCHANGED station

Aggregate ==
  /\ port = "aggregate"
  /\ ApplyAggregates
  /\ port' = "idle"
  /\ UNCHANGED <<active, station, pending>>

(* stale_timeout_s passes without a call that marks the station as polled:  *)
(* a group of bits alone makes no call in a round without changes.          *)
Expire ==
  /\ active
  /\ active' = FALSE
  /\ UNCHANGED <<value, quality, channel, station, port, pending>>

Readings(g) == [BitsOf[g] -> Bit]

Sink == Online \/ Deliver \/ Aggregate

AcqNext ==
  \/ \E g \in Groups : (\E r \in Readings(g) : PollOk(g, r)) \/ PollFail(g)
  \/ Sink
  \/ Expire

(* The subscriber takes from the channel whenever it likes.                  *)
AcqSpec ==
  AcqInit /\ [][AcqNext \/ (Recv /\ UNCHANGED <<table, station, port, pending>>)]_acqVars

-----------------------------------------------------------------------------
(* Between rounds the table shows, for every group with a base line of a     *)
(* station that is online, exactly the last reading and shows it as valid:   *)
(* delivering changes only loses nothing, whatever failed and recovered      *)
(* (run_port_round, poll_group, mark_station_offline).                       *)
TableMirrorsReadings ==
  port = "idle" /\ ~offline =>
    \A g \in primed : \A b \in BitsOf[g] : value[b] = last[b] /\ quality[b] = "ok"

(* Between rounds the aggregate has the OR of its bits as the table has them, *)
(* and while the station is online their worst quality (apply_bms_aggregates *)
(* runs in both calls of the sink, mark_station_offline does not run it).    *)
AggregateAgrees ==
  port = "idle" /\ AggrBits # {} /\ quality[Aggr] # "absent" =>
    value[Aggr] = AggrValue /\ (offline \/ quality[Aggr] = AggrQuality)
=============================================================================
