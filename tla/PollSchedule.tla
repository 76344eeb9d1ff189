---------------------------- MODULE PollSchedule ----------------------------
(***************************************************************************)
(* When the task of one port polls what: `DueCalc`, `run_port_round` and    *)
(* the back-off of crates/mupc-southd/src/scheduler.rs.                     *)
(*                                                                         *)
(* A round takes every group that is due, reads one after the other, and    *)
(* then puts off the groups that failed.  The round knows one time only,    *)
(* its own start, however long the reads take: a port with dead stations    *)
(* spends whole intervals on their time-outs.                               *)
(*                                                                         *)
(* Abstractions: times are relative to the present and in ticks; a group    *)
(* more than one interval late is as late as one interval; failure counts   *)
(* stop where the back-off stops growing.                                   *)
(***************************************************************************)
EXTENDS Integers, FiniteSets, FiniteSetsExt

CONSTANTS
  Entries,     \* the read groups of all the port's stations
  StationOf,   \* StationOf[e]: whose group it is
  Carriers,    \* the groups that carry their station
  Interval,    \* Interval[e] in ticks
  Rank,        \* Rank[e]: place in due_round's order
  MaxShift,    \* MAX_BACKOFF_SHIFT
  PollTicks,   \* poll_ms
  MaxRead,     \* ticks a group's reads may take, time-outs included
  Far          \* where the history stops to count

Stations == {StationOf[e] : e \in Entries}

ASSUME EntriesAssumption ==
  /\ IsFiniteSet(Entries) /\ Carriers \subseteq Entries
  /\ \A s \in Stations : \E e \in Carriers : StationOf[e] = s
  /\ \A e, f \in Carriers : StationOf[e] = StationOf[f] => e = f
ASSUME IntervalAssumption == Interval \in [Entries -> Nat \ {0}]
ASSUME RankAssumption ==
  Rank \in [Entries -> Nat] /\ \A e, f \in Entries : Rank[e] = Rank[f] => e = f
ASSUME BoundsAssumption ==
  MaxShift \in Nat /\ PollTicks \in Nat \ {0} /\ MaxRead \in Nat

Cap(x, most)    == IF x > most THEN most ELSE x
Floor(x, least) == IF x < least THEN least ELSE x

Longest(e) == Interval[e] * 2^MaxShift
RoundTicks == Cardinality(Entries) * MaxRead

ASSUME ShiftAssumption ==
  \A n \in 0 .. MaxShift : 2^n \in Nat \ {0} /\ 2^n <= 2^MaxShift
ASSUME FarAssumption ==
  /\ Far \in Nat
  /\ \A e \in Entries :
       /\ Far > 2 * Interval[e]
       /\ \A n \in 0 .. MaxShift : Far > Interval[e] * 2^n + RoundTicks + PollTicks

VARIABLES
  due,         \* next_due - now, not below -Interval
  todo,        \* groups taken in this round and not polled yet
  phase,       \* of the task: "look", "round" or "sleep"
  spent,       \* now - now_ms of the round
  failed,      \* groups that failed in this round
  offlineCount,  \* per station, by its carrier's failures
  groupFail,   \* group_fail_count
  since,       \* history: since the round that took the group last; see Far
  before,      \* history: since the round that took it before that
  streak       \* history: failures since the last answer

vars == <<due, todo, phase, spent, failed, offlineCount, groupFail, since, before, streak>>

Count == 0 .. MaxShift + 1
Up(n) == Cap(n + 1, MaxShift + 1)

TypeOK ==
  /\ due \in [Entries -> Int]
  /\ \A e \in Entries : -Interval[e] <= due[e] /\ due[e] <= Longest(e)
  /\ todo \subseteq Entries /\ failed \subseteq Entries \ todo
  /\ phase \in {"look", "round", "sleep"}
  /\ phase # "round" => todo = {} /\ failed = {} /\ spent = 0
  /\ spent \in 0 .. RoundTicks
  /\ offlineCount \in [Stations -> Count] /\ groupFail \in [Entries -> Count]
  /\ since \in [Entries -> 0 .. Far] /\ before \in [Entries -> 0 .. Far]
  /\ streak \in [Entries -> Count]

Init ==
  /\ due = [e \in Entries |-> 0]
  /\ todo = {} /\ phase = "look" /\ spent = 0 /\ failed = {}
  /\ offlineCount = [s \in Stations |-> 0] /\ groupFail = [e \in Entries |-> 0]
  /\ since = [e \in Entries |-> Far] /\ before = [e \in Entries |-> Far]
  /\ streak = [e \in Entries |-> 0]

(* `d` ticks go by.                                                         *)
Passed(d) == [e \in Entries |-> Floor(due[e] - d, -Interval[e])]

Aged(d) ==
  /\ since' = [e \in Entries |-> Cap(since[e] + d, Far)]
  /\ before' = [e \in Entries |-> Cap(before[e] + d, Far)]

-----------------------------------------------------------------------------
\* A mutant for the model checker: a late group catches up what it missed.
NextDueCatchUp(e) == due[e] + Interval[e]

(* due_round: the next time of a group that is taken.                       *)
NextDue(e) == IF due[e] <= -Interval[e] THEN Interval[e] ELSE due[e] + Interval[e]

StartRound ==
  LET taken == {e \in Entries : due[e] <= 0}
  IN  /\ phase = "look" /\ taken # {}
      /\ due' = [e \in Entries |-> IF e \in taken THEN NextDue(e) ELSE due[e]]
      /\ todo' = taken /\ phase' = "round" /\ spent' = 0
      /\ before' = [e \in Entries |-> IF e \in taken THEN since[e] ELSE before[e]]
      /\ since' = [e \in Entries |-> IF e \in taken THEN 0 ELSE since[e]]
      /\ UNCHANGED <<failed, offlineCount, groupFail, streak>>

(* poll_group of the first group that is left, with the counts it keeps:    *)
(* mark_success, handle_failure, clear_group_fail.                          *)
Poll(e, ok, d) ==
  /\ e \in todo /\ \A f \in todo : Rank[e] <= Rank[f]
  /\ todo' = todo \ {e}
  /\ due' = Passed(d) /\ Aged(d) /\ spent' = spent + d
  /\ failed' = IF ok THEN failed ELSE failed \cup {e}
  /\ offlineCount' = IF e \notin Carriers THEN offlineCount
                     ELSE [offlineCount EXCEPT ![StationOf[e]] = IF ok THEN 0 ELSE Up(@)]
  /\ groupFail' = IF ok THEN [groupFail EXCEPT ![e] = 0] ELSE groupFail
  /\ streak' = [streak EXCEPT ![e] = IF ok THEN 0 ELSE Up(@)]
  /\ UNCHANGED phase

(* backoff_extra                                                            *)
BackoffExtra(e, n) == Interval[e] * 2^Cap(n - 1, MaxShift)

\* A mutant for the model checker: the count before this failure.
ExtraStale(e) ==
  BackoffExtra(e, IF e \in Carriers THEN offlineCount[StationOf[e]] ELSE Floor(groupFail[e], 1))

(* The pause of a group that failed: a carrier counts for its station, any  *)
(* other group for itself (bump_group_fail counts before it answers).       *)
Extra(e) ==
  BackoffExtra(e, IF e \in Carriers THEN offlineCount[StationOf[e]] ELSE groupFail[e] + 1)

\* Mutants for the model checker: the whole station is put off with its
\* carrier; the pause comes on top of what is left already.
PutOffStation(e) ==
  LET mine == {f \in failed : StationOf[f] = StationOf[e]}
  IN  Max({due[e]} \cup {Extra(f) - spent : f \in mine})
PutOffMore(e) == IF e \in failed THEN Floor(due[e], 0) + Extra(e) ELSE due[e]

(* delay_group, from the start of the round.                                *)
PutOff(e) == IF e \in failed THEN Floor(due[e], Extra(e) - spent) ELSE due[e]

EndRound ==
  /\ phase = "round" /\ todo = {}
  /\ due' = [e \in Entries |-> PutOff(e)]
  /\ groupFail' = [e \in Entries |-> IF e \in failed \ Carriers THEN Up(groupFail[e]) ELSE groupFail[e]]
  /\ phase' = "sleep" /\ failed' = {} /\ spent' = 0
  /\ UNCHANGED <<todo, offlineCount, since, before, streak>>

(* The sleep after a round, or after a look that found nothing due.         *)
Sleep ==
  /\ phase = "sleep" \/ (phase = "look" /\ \A e \in Entries : due[e] > 0)
  /\ phase' = "look"
  /\ due' = Passed(PollTicks) /\ Aged(PollTicks)
  /\ UNCHANGED <<todo, spent, failed, offlineCount, groupFail, streak>>

Next ==
  \/ StartRound
  \/ \E e \in Entries, ok \in BOOLEAN, d \in 0 .. MaxRead : Poll(e, ok, d)
  \/ EndRound
  \/ Sleep

Spec == Init /\ [][Next]_vars
-----------------------------------------------------------------------------
Taken(e) == e \in todo' \ todo
Promised(e) == Interval[e] * 2^Cap(streak[e] - 1, MaxShift)

(* No group is taken three times within one of its intervals: what a long    *)
(* round made a group miss is not caught up (due_round).                     *)
NoCatchUp == [][\A e \in Entries : Taken(e) => before[e] > Interval[e]]_vars

(* A group that has failed n times in a row is left alone for 2^(n-1) of its *)
(* intervals, whoever else of its station was read meanwhile (backoff_extra, *)
(* delay_group, the two counts).                                             *)
BacksOff ==
  [][\A e \in Entries : Taken(e) /\ streak[e] > 0 => since[e] >= Promised(e)]_vars

(* No group waits longer than its interval, or while it fails its pause, and *)
(* one round and one sleep: neither a dead neighbour on the port nor a dead  *)
(* carrier slows it down, and no station is given up for good.               *)
NeverGivenUp ==
  \A e \in Entries : since[e] # Far =>
    since[e] <= (IF streak[e] = 0 THEN Interval[e] ELSE Promised(e)) + RoundTicks + PollTicks
=============================================================================
