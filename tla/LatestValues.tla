---------------------------- MODULE LatestValues ----------------------------
(***************************************************************************)
(* The table of latest values (`LatestValues` in                            *)
(* crates/data-processing/src/latest_values.rs), restricted to the points   *)
(* of one station, and its change channel as one subscriber sees it.  The   *)
(* table is written by the south sink and read by the uplinks; every        *)
(* operation is one critical section of its lock.                           *)
(*                                                                         *)
(* Abstractions: a point is a bit; time stamps and batch numbers are left   *)
(* out; `active` stands for "polled within stale_timeout_s".                *)
(***************************************************************************)
EXTENDS Naturals, Sequences, FiniteSets, Functions

CONSTANTS
  Points,      \* the station's points
  ChangeCap    \* CHANGE_CHANNEL_CAPACITY

ASSUME ChangeCapAssumption == ChangeCap \in Nat \ {0}

VARIABLES
  value,       \* PointValue.value; "none" before the first sample
  quality,     \* PointValue.quality; "absent" while the point is not in the map
  active,      \* station_poll_ms holds a time that is not stale
  changes,     \* batches the subscriber has not taken yet, the oldest first
  lagged       \* the channel has overwritten a batch the subscriber had not taken

Bit       == {"off", "on"}
Values    == Bit \cup {"none"}
Qualities == {"ok", "invalid", "unconfigured", "absent"}

table   == <<value, quality, active>>
channel == <<changes, lagged>>

TableInit ==
  /\ value = [p \in Points |-> "none"]
  /\ quality = [p \in Points |-> "absent"]
  /\ active = FALSE
  /\ changes = <<>> /\ lagged = FALSE

(* The batch goes out after the lock; a full channel forgets its oldest.    *)
Broadcast(batch) ==
  IF batch = {} THEN UNCHANGED channel
  ELSE IF Len(changes) < ChangeCap
       THEN changes' = Append(changes, batch) /\ UNCHANGED lagged
       ELSE changes' = Append(Tail(changes), batch) /\ lagged' = TRUE

(* recv of the subscriber; Lagged stands before the batches that are left.   *)
Recv ==
  IF lagged THEN lagged' = FALSE /\ UNCHANGED changes
  ELSE changes # <<>> /\ changes' = Tail(changes) /\ UNCHANGED lagged

(* What is announced: new points and those whose value is another one.      *)
Changed(v) == {p \in DOMAIN v : quality[p] = "absent" \/ v[p] # value[p]}

(* apply: the samples `v` with the qualities `q` (two functions).           *)
Apply(v, q) ==
  /\ value' = [p \in Points |-> IF p \in DOMAIN v THEN v[p] ELSE value[p]]
  /\ quality' = [p \in Points |-> IF p \in DOMAIN q THEN q[p] ELSE quality[p]]
  /\ Broadcast(Changed(v))

(* mark_station_offline: values stay, and nothing is announced.             *)
MarkOffline ==
  /\ quality' = [p \in Points |-> IF quality[p] = "absent" THEN "absent" ELSE "invalid"]
  /\ active' = FALSE
  /\ UNCHANGED <<value, channel>>

(* is_fresh of a bit, together with the `value.is_some()` of its callers.   *)
Fresh(p) == quality[p] = "ok" /\ active /\ value[p] # "none"
=============================================================================
