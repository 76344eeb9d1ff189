------------------------- MODULE PollScheduleProofs -------------------------
(***************************************************************************)
(* For every port, whatever its stations, intervals and time-outs: no       *)
(* group is caught up, every failing group is left its pause, and no group  *)
(* is given up.                                                             *)
(***************************************************************************)
EXTENDS PollSchedule, FiniteSetTheorems, TLAPS

Shape ==
  /\ due \in [Entries -> Int] /\ \A e \in Entries : due[e] >= -Interval[e]
  /\ todo \subseteq Entries /\ failed \subseteq Entries /\ spent \in Nat
  /\ phase # "round" => todo = {} /\ failed = {}
  /\ offlineCount \in [Stations -> Count] /\ groupFail \in [Entries -> Count]
  /\ since \in [Entries -> 0 .. Far] /\ before \in [Entries -> 0 .. Far]
  /\ streak \in [Entries -> Count]

(* The next time is after the last round that took the group, and more than *)
(* an interval after the one before.                                        *)
Spaced ==
  \A e \in Entries : since[e] + due[e] > 0 /\ before[e] + due[e] > Interval[e]

(* The counts are the failures in a row, but for a group that has failed in  *)
(* this round and is counted at its end.                                    *)
Counted ==
  \A e \in Entries :
    IF e \in Carriers THEN offlineCount[StationOf[e]] = streak[e]
    ELSE streak[e] = IF e \in failed THEN Up(groupFail[e]) ELSE groupFail[e]

InHand ==
  /\ todo \cap failed = {}
  /\ \A e \in todo \cup failed : since[e] = Cap(spent, Far)
  /\ \A e \in failed : streak[e] > 0

Paused ==
  \A e \in Entries \ (todo \cup failed) :
    streak[e] > 0 => since[e] = Far \/ since[e] + due[e] >= Promised(e)

Inv == Shape /\ Spaced /\ Counted /\ InHand /\ Paused

LEMMA Constants ==
  /\ Interval \in [Entries -> Nat \ {0}] /\ MaxShift \in Nat /\ PollTicks \in Nat
  /\ MaxRead \in Nat /\ Far \in Nat /\ \A e \in Entries : Far > 2 * Interval[e]
  /\ Carriers \subseteq Entries /\ \A e \in Entries : StationOf[e] \in Stations
  /\ Count = 0 .. MaxShift + 1
BY EntriesAssumption, IntervalAssumption, BoundsAssumption, FarAssumption DEF Stations, Count

LEMMA RoundTicksType == RoundTicks \in Nat
<1>1. Cardinality(Entries) \in Nat
  BY EntriesAssumption, FS_CardinalityType
<1> QED
  BY <1>1, Constants DEF RoundTicks

LEMMA UpType == \A n \in Count : Up(n) \in Count /\ Up(n) > 0
BY Constants DEF Up, Cap

LEMMA PauseType ==
  ASSUME NEW e \in Entries, NEW n \in Count, n > 0
  PROVE  BackoffExtra(e, n) \in Nat /\ BackoffExtra(e, n) < Far
<1> DEFINE k == Cap(n - 1, MaxShift)
<1>1. k \in 0 .. MaxShift
  BY Constants DEF Cap
<1>2. Interval[e] \in Nat /\ 2^k \in Nat
  BY <1>1, Constants, ShiftAssumption
<1>3. Far > Interval[e] * 2^k + RoundTicks + PollTicks
  BY <1>1, FarAssumption
<1> DEFINE x == 2^k
<1>4. BackoffExtra(e, n) = Interval[e] * x
  BY DEF BackoffExtra
<1>5. x \in Nat /\ Far > Interval[e] * x + RoundTicks + PollTicks
  BY <1>2, <1>3
<1> HIDE DEF x
<1>6. Interval[e] * x \in Nat
  BY <1>2, <1>5
<1> QED
  BY <1>4, <1>5, <1>6, Constants, RoundTicksType

LEMMA PromisedIsBackoff == \A e \in Entries : Promised(e) = BackoffExtra(e, streak[e])
BY DEF Promised, BackoffExtra

LEMMA InvInit == Init => Inv
<1> SUFFICES ASSUME Init PROVE Inv
  OBVIOUS
<1>1. Shape /\ Spaced
  BY Constants DEF Init, Shape, Spaced
<1>2. Counted /\ InHand /\ Paused
  BY Constants DEF Init, Counted, InHand, Paused
<1> QED
  BY <1>1, <1>2 DEF Inv

(* Time passing keeps the spacing and the pauses.                           *)
LEMMA Passing ==
  ASSUME Shape, Spaced, NEW d \in Nat, due' = Passed(d), Aged(d), NEW e \in Entries
  PROVE  /\ due'[e] \in Int /\ due'[e] >= -Interval[e] /\ due'[e] <= Floor(due[e], 0)
         /\ since'[e] = Cap(since[e] + d, Far) /\ since'[e] \in 0 .. Far
         /\ before'[e] = Cap(before[e] + d, Far) /\ before'[e] \in 0 .. Far
         /\ since'[e] + due'[e] > 0 /\ before'[e] + due'[e] > Interval[e]
         /\ \A p \in Nat :
              since[e] = Far \/ since[e] + due[e] >= p
                => since'[e] = Far \/ since'[e] + due'[e] >= p
<1>1. /\ due'[e] = Floor(due[e] - d, -Interval[e])
      /\ since'[e] = Cap(since[e] + d, Far) /\ before'[e] = Cap(before[e] + d, Far)
  BY DEF Passed, Aged
<1>2. /\ due[e] \in Int /\ since[e] \in 0 .. Far /\ before[e] \in 0 .. Far
      /\ Interval[e] \in Nat \ {0} /\ Far \in Nat /\ Far > 2 * Interval[e]
      /\ since[e] + due[e] > 0 /\ before[e] + due[e] > Interval[e]
  BY Constants DEF Shape, Spaced
<1> QED
  BY <1>1, <1>2 DEF Floor, Cap

LEMMA PassingShape ==
  ASSUME Shape, Spaced, NEW d \in Nat, due' = Passed(d), Aged(d)
  PROVE  /\ due' \in [Entries -> Int] /\ \A e \in Entries : due'[e] >= -Interval[e]
         /\ since' \in [Entries -> 0 .. Far] /\ before' \in [Entries -> 0 .. Far]
         /\ Spaced'
<1>1. \A e \in Entries : /\ due'[e] \in Int /\ due'[e] >= -Interval[e]
                         /\ since'[e] \in 0 .. Far /\ before'[e] \in 0 .. Far
                         /\ since'[e] + due'[e] > 0 /\ before'[e] + due'[e] > Interval[e]
  BY Passing
<1>2. /\ due' = [e \in Entries |-> due'[e]]
      /\ since' = [e \in Entries |-> since'[e]] /\ before' = [e \in Entries |-> before'[e]]
  BY DEF Passed, Aged
<1> QED
  BY <1>1, <1>2 DEF Spaced

LEMMA StartRoundInv == Inv /\ StartRound => Inv'
<1> SUFFICES ASSUME Inv, StartRound PROVE Inv'
  OBVIOUS
<1> USE DEF Inv
<1> DEFINE taken == {e \in Entries : due[e] <= 0}
<1>1. /\ todo' = taken /\ spent' = 0 /\ phase' = "round" /\ todo = {} /\ failed = {}
      /\ UNCHANGED <<failed, offlineCount, groupFail, streak>>
  BY DEF StartRound, Shape
<1>2. ASSUME NEW e \in Entries
      PROVE  /\ due'[e] = IF e \in taken THEN NextDue(e) ELSE due[e]
             /\ before'[e] = IF e \in taken THEN since[e] ELSE before[e]
             /\ since'[e] = IF e \in taken THEN 0 ELSE since[e]
  BY DEF StartRound
<1>3. ASSUME NEW e \in Entries
      PROVE  /\ due[e] \in Int /\ due[e] >= -Interval[e] /\ Interval[e] \in Nat \ {0}
             /\ since[e] \in 0 .. Far /\ before[e] \in 0 .. Far /\ Far \in Nat
             /\ since[e] + due[e] > 0 /\ before[e] + due[e] > Interval[e]
  BY Constants DEF Shape, Spaced
<1>4. ASSUME NEW e \in Entries
      PROVE  /\ due'[e] \in Int /\ due'[e] >= -Interval[e]
             /\ since'[e] \in 0 .. Far /\ before'[e] \in 0 .. Far
             /\ since'[e] + due'[e] > 0 /\ before'[e] + due'[e] > Interval[e]
  <2>1. CASE e \in taken
    BY <1>2, <1>3, <2>1 DEF NextDue
  <2>2. CASE e \notin taken
    BY <1>2, <1>3, <2>2
  <2> QED
    BY <2>1, <2>2
<1>5. Shape'
  <2>1. /\ due' = [e \in Entries |-> due'[e]] /\ since' = [e \in Entries |-> since'[e]]
        /\ before' = [e \in Entries |-> before'[e]]
    BY DEF StartRound
  <2> QED
    BY <1>1, <1>4, <2>1 DEF Shape
<1>6. Spaced'
  BY <1>4 DEF Spaced
<1>7. Counted'
  BY <1>1 DEF Counted
<1>8. InHand'
  BY <1>1, <1>2, Constants DEF InHand, Cap
<1>9. Paused'
  BY <1>1, <1>2 DEF Paused, Promised
<1> QED
  BY <1>5, <1>6, <1>7, <1>8, <1>9

LEMMA PollInv ==
  ASSUME Inv, NEW e \in Entries, NEW ok \in BOOLEAN, NEW d \in 0 .. MaxRead, Poll(e, ok, d)
  PROVE  Inv'
<1> USE DEF Inv
<1>0. d \in Nat /\ due' = Passed(d) /\ Aged(d)
  BY Constants DEF Poll
<1>1. /\ todo' = todo \ {e} /\ e \in todo /\ spent' = spent + d /\ phase = "round" /\ phase' = phase
      /\ failed' = IF ok THEN failed ELSE failed \cup {e}
      /\ e \notin failed
  BY DEF Poll, Shape, InHand
<1>2. streak' = [streak EXCEPT ![e] = IF ok THEN 0 ELSE Up(@)]
  BY DEF Poll
<1>3. streak' \in [Entries -> Count] /\ (~ok => streak'[e] > 0)
  BY <1>2, UpType, Constants DEF Shape
<1>4. offlineCount' \in [Stations -> Count] /\ groupFail' \in [Entries -> Count]
  BY UpType, Constants DEF Poll, Shape
<1>5. Shape' /\ Spaced'
  <2>1. /\ due' \in [Entries -> Int] /\ \A f \in Entries : due'[f] >= -Interval[f]
        /\ since' \in [Entries -> 0 .. Far] /\ before' \in [Entries -> 0 .. Far]
        /\ Spaced'
    BY <1>0, PassingShape
  <2> QED
    BY <1>0, <1>1, <1>3, <1>4, <2>1 DEF Shape
<1>6. Counted'
  <2> SUFFICES ASSUME NEW f \in Entries
               PROVE  IF f \in Carriers THEN offlineCount'[StationOf[f]] = streak'[f]
                      ELSE streak'[f] = IF f \in failed' THEN Up(groupFail'[f]) ELSE groupFail'[f]
    BY DEF Counted, Up
  <2>1. CASE f = e
    BY <1>1, <1>2, <2>1, Constants DEF Counted, Poll, Shape
  <2>2. CASE f # e /\ f \in Carriers
    BY <1>2, <2>2, Constants, EntriesAssumption DEF Counted, Poll, Shape
  <2>3. CASE f # e /\ f \notin Carriers
    <3>1. streak'[f] = streak[f] /\ groupFail'[f] = groupFail[f] /\ (f \in failed' <=> f \in failed)
      BY <1>1, <1>2, <2>3 DEF Poll, Shape
    <3> QED
      BY <2>3, <3>1 DEF Counted
  <2> QED
    BY <2>1, <2>2, <2>3
<1>7. InHand'
  <2>1. \A f \in todo' \cup failed' : f \in todo \cup failed /\ f \in Entries
    BY <1>1 DEF Shape
  <2>2. \A f \in Entries : since'[f] = Cap(since[f] + d, Far)
    BY <1>0, Passing
  <2>3. \A f \in todo' \cup failed' : since'[f] = Cap(spent', Far)
    <3> SUFFICES ASSUME NEW f \in todo' \cup failed' PROVE since'[f] = Cap(spent', Far)
      OBVIOUS
    <3>1. since[f] = Cap(spent, Far) /\ since'[f] = Cap(since[f] + d, Far)
      BY <2>1, <2>2 DEF InHand
    <3> QED
      BY <1>0, <1>1, <3>1, Constants DEF Cap, Shape
  <2>4. \A f \in failed' : streak'[f] > 0
    BY <1>1, <1>2, <1>3 DEF InHand, Shape
  <2> QED
    BY <1>1, <2>3, <2>4 DEF InHand, Cap
<1>8. Paused'
  <2> SUFFICES ASSUME NEW f \in Entries, f \notin todo' \cup failed', streak'[f] > 0
               PROVE  since'[f] = Far \/ since'[f] + due'[f] >= Promised(f)'
    BY DEF Paused
  <2>1. f # e
    BY <1>1, <1>2 DEF Shape
  <2>2. f \notin todo \cup failed /\ streak'[f] = streak[f]
    BY <1>1, <1>2, <2>1
  <2>3. Promised(f)' = Promised(f) /\ Promised(f) \in Nat
    BY <2>2, PromisedIsBackoff, PauseType DEF Promised, Shape
  <2>4. since[f] = Far \/ since[f] + due[f] >= Promised(f)
    BY <2>2 DEF Paused
  <2> QED
    BY <1>0, <2>3, <2>4, Passing
<1> QED
  BY <1>5, <1>6, <1>7, <1>8

(* The pause of a group that failed in this round is the one promised.      *)
LEMMA ExtraIsPromised ==
  ASSUME Inv, NEW e \in failed
  PROVE  Extra(e) = Promised(e) /\ Promised(e) \in Nat
<1> USE DEF Inv
<1>0. e \in Entries /\ streak[e] > 0 /\ streak[e] \in Count /\ groupFail[e] \in Count
  BY DEF Shape, InHand
<1>1. Promised(e) \in Nat
  BY <1>0, PromisedIsBackoff, PauseType
<1>2. CASE e \in Carriers
  BY <1>0, <1>1, <1>2 DEF Extra, BackoffExtra, Promised, Counted
<1>3. CASE e \notin Carriers
  <2> DEFINE n == groupFail[e] + 1
  <2>1. Cap(n - 1, MaxShift) = Cap(streak[e] - 1, MaxShift)
    BY <1>0, <1>3, Constants DEF Counted, Up, Cap
  <2>2. Extra(e) = BackoffExtra(e, n)
    BY <1>3 DEF Extra
  <2> HIDE DEF n
  <2>3. BackoffExtra(e, n) = Promised(e)
    BY <2>1 DEF BackoffExtra, Promised
  <2> QED
    BY <1>1, <2>2, <2>3
<1> QED
  BY <1>2, <1>3

LEMMA EndRoundInv == Inv /\ EndRound => Inv'
<1> SUFFICES ASSUME Inv, EndRound PROVE Inv'
  OBVIOUS
<1> USE DEF Inv
<1>1. /\ todo = {} /\ todo' = {} /\ failed' = {} /\ spent' = 0 /\ phase' = "sleep"
      /\ UNCHANGED <<offlineCount, since, before, streak>>
  BY DEF EndRound
<1>2. ASSUME NEW e \in failed PROVE Extra(e) = Promised(e) /\ Promised(e) \in Nat
  BY ExtraIsPromised
<1>3. ASSUME NEW e \in Entries
      PROVE  /\ due'[e] = PutOff(e) /\ due'[e] \in Int /\ due'[e] >= due[e]
             /\ e \in failed => due'[e] >= Promised(e) - spent
  <2>1. due'[e] = PutOff(e) /\ due[e] \in Int /\ spent \in Nat
    BY DEF EndRound, Shape
  <2> QED
    BY <1>2, <2>1 DEF PutOff, Floor
<1>4. Shape'
  <2>1. due' = [e \in Entries |-> due'[e]]
    BY DEF EndRound
  <2>2. groupFail' \in [Entries -> Count]
    BY UpType DEF EndRound, Shape
  <2>3. \A e \in Entries : due'[e] \in Int /\ due'[e] >= -Interval[e]
    BY <1>3, Constants DEF Shape
  <2> QED
    BY <1>1, <2>1, <2>2, <2>3 DEF Shape
<1>5. Spaced'
  <2> SUFFICES ASSUME NEW e \in Entries
               PROVE  since'[e] + due'[e] > 0 /\ before'[e] + due'[e] > Interval[e]
    BY DEF Spaced
  <2> QED
    BY <1>1, <1>3, Constants DEF Spaced, Shape
<1>6. Counted'
  BY <1>1 DEF Counted, EndRound, Up, Cap, Shape
<1>7. InHand'
  BY <1>1 DEF InHand
<1>8. Paused'
  <2> SUFFICES ASSUME NEW e \in Entries, streak[e] > 0
               PROVE  since[e] = Far \/ since[e] + due'[e] >= Promised(e)
    BY <1>1 DEF Paused, Promised
  <2>0. since[e] \in 0 .. Far /\ spent \in Nat /\ due[e] \in Int /\ Far \in Nat
    BY Constants DEF Shape
  <2>1. Promised(e) \in Nat
    BY PromisedIsBackoff, PauseType DEF Shape
  <2>2. CASE e \in failed
    BY <1>3, <2>0, <2>1, <2>2 DEF InHand, Cap
  <2>3. CASE e \notin failed
    BY <1>1, <1>3, <2>0, <2>1, <2>3 DEF Paused
  <2> QED
    BY <2>2, <2>3
<1> QED
  BY <1>4, <1>5, <1>6, <1>7, <1>8

LEMMA SleepInv == Inv /\ Sleep => Inv'
<1> SUFFICES ASSUME Inv, Sleep PROVE Inv'
  OBVIOUS
<1> USE DEF Inv
<1>0. PollTicks \in Nat /\ due' = Passed(PollTicks) /\ Aged(PollTicks)
  BY Constants DEF Sleep
<1>1. /\ UNCHANGED <<todo, spent, failed, offlineCount, groupFail, streak>>
      /\ todo = {} /\ failed = {}
  BY DEF Sleep, Shape
<1>2. Shape' /\ Spaced'
  BY <1>0, <1>1, PassingShape DEF Shape
<1>3. Counted' /\ InHand'
  BY <1>1 DEF Counted, InHand
<1>4. Paused'
  <2> SUFFICES ASSUME NEW e \in Entries, streak[e] > 0
               PROVE  since'[e] = Far \/ since'[e] + due'[e] >= Promised(e)
    BY <1>1 DEF Paused, Promised
  <2>1. Promised(e) \in Nat
    BY PromisedIsBackoff, PauseType DEF Shape
  <2> QED
    BY <1>0, <1>1, <2>1, Passing DEF Paused
<1> QED
  BY <1>2, <1>3, <1>4

LEMMA InvNext == Inv /\ [Next]_vars => Inv'
<1> SUFFICES ASSUME Inv, [Next]_vars PROVE Inv'
  OBVIOUS
<1>1. CASE UNCHANGED vars
  BY <1>1 DEF vars, Inv, Shape, Spaced, Counted, InHand, Paused, Promised
<1> QED
  BY <1>1, StartRoundInv, PollInv, EndRoundInv, SleepInv DEF Next

(* The types, and what ties due times, counts of failures and the history   *)
(* of a port together, for every port: the induction of the theorems below. *)
THEOREM InvCorrect == Spec => []Inv
BY InvInit, InvNext, PTL DEF Spec

(* Only the start of a round takes groups.                                  *)
LEMMA TakenInStart ==
  ASSUME Inv, [Next]_vars, NEW e \in Entries, Taken(e)
  PROVE  StartRound /\ due[e] <= 0 /\ e \notin todo \cup failed
<1>1. StartRound
  BY DEF Next, Poll, EndRound, Sleep, vars, Taken
<1> QED
  BY <1>1 DEF StartRound, Taken, Inv, Shape

(* Whatever the rounds of a port last, no group is taken three times within  *)
(* one of its intervals (due_round).                                         *)
THEOREM NeverCatchesUp == Spec => NoCatchUp
<1>1. Inv /\ [Next]_vars => [\A e \in Entries : Taken(e) => before[e] > Interval[e]]_vars
  <2> SUFFICES ASSUME Inv, [Next]_vars, NEW e \in Entries, Taken(e)
               PROVE  before[e] > Interval[e]
    OBVIOUS
  <2>1. due[e] <= 0 /\ before[e] + due[e] > Interval[e]
    BY TakenInStart DEF Inv, Spaced
  <2>2. due[e] \in Int /\ before[e] \in Int /\ Interval[e] \in Int
    BY Constants DEF Inv, Shape
  <2> QED
    BY <2>1, <2>2
<1> QED
  BY <1>1, InvCorrect, PTL DEF Spec, NoCatchUp

(* Whatever the rounds last and whoever else of the station answers, a group *)
(* that failed is left alone for its pause (backoff_extra, delay_group).     *)
THEOREM AlwaysBacksOff == Spec => BacksOff
<1>1. Inv /\ [Next]_vars =>
        [\A e \in Entries : Taken(e) /\ streak[e] > 0 => since[e] >= Promised(e)]_vars
  <2> SUFFICES ASSUME Inv, [Next]_vars, NEW e \in Entries, Taken(e), streak[e] > 0
               PROVE  since[e] >= Promised(e)
    OBVIOUS
  <2>1. due[e] <= 0 /\ e \notin todo \cup failed
    BY TakenInStart
  <2>2. since[e] = Far \/ since[e] + due[e] >= Promised(e)
    BY <2>1 DEF Inv, Paused
  <2>3. Promised(e) \in Nat /\ Promised(e) < Far
    BY PromisedIsBackoff, PauseType DEF Inv, Shape
  <2>4. due[e] \in Int /\ since[e] \in Int /\ Far \in Nat
    BY Constants DEF Inv, Shape
  <2> QED
    BY <2>1, <2>2, <2>3, <2>4
<1> QED
  BY <1>1, InvCorrect, PTL DEF Spec, BacksOff
-----------------------------------------------------------------------------
(* How long a group may be left: `slack` is what may have passed since the   *)
(* port's task looked last, and a group that has just been taken, or has     *)
(* failed in this round, is measured by its interval until the round ends.   *)
Slack ==
  IF phase = "round" THEN spent
  ELSE IF phase = "sleep" THEN RoundTicks ELSE RoundTicks + PollTicks

Allowed(e) ==
  IF e \in todo \cup failed \/ streak[e] = 0 THEN Interval[e] ELSE Promised(e)

Waits(passed, left, p, k) ==
  passed # Far => IF left > 0 THEN passed + left <= p ELSE passed <= p + k

(* The reads still to come fit into what a round may last.                  *)
ReadsFit ==
  /\ phase \in {"look", "round", "sleep"} /\ (phase # "round" => spent = 0)
  /\ spent + Cardinality(todo) * MaxRead <= RoundTicks
  /\ \A e \in Entries : due[e] <= Longest(e)

Reached == \A e \in Entries : Waits(since[e], due[e], Allowed(e), Slack)

LEMMA Product ==
  ASSUME NEW a \in Nat, NEW b \in Nat, NEW c \in Nat, a <= b
  PROVE  a * c \in Nat /\ b * c \in Nat /\ a * c <= b * c
<1>1. PICK k \in Nat : b = a + k
  <2>1. b - a \in Nat /\ b = a + (b - a)
    OBVIOUS
  <2> QED
    BY <2>1
<1>2. b * c = a * c + k * c /\ k * c \in Nat /\ a * c \in Nat
  BY <1>1
<1> QED
  BY <1>2

LEMMA TodoSize ==
  ASSUME NEW T \in SUBSET Entries
  PROVE  /\ Cardinality(T) \in Nat /\ Cardinality(T) <= Cardinality(Entries)
         /\ Cardinality(T) * MaxRead \in Nat /\ Cardinality(T) * MaxRead <= RoundTicks
         /\ \A e \in T : /\ Cardinality(T \ {e}) * MaxRead \in Nat
                         /\ Cardinality(T) * MaxRead = Cardinality(T \ {e}) * MaxRead + MaxRead
<1>1. /\ IsFiniteSet(T) /\ Cardinality(T) \in Nat /\ Cardinality(Entries) \in Nat
      /\ Cardinality(T) <= Cardinality(Entries)
  BY EntriesAssumption, FS_Subset, FS_CardinalityType
<1> DEFINE n == Cardinality(T)
           m == Cardinality(Entries)
<1>2. n * MaxRead \in Nat /\ n * MaxRead <= m * MaxRead
  BY <1>1, Constants, Product
<1>3. ASSUME NEW e \in T
      PROVE  /\ Cardinality(T \ {e}) * MaxRead \in Nat
             /\ n * MaxRead = Cardinality(T \ {e}) * MaxRead + MaxRead
  <2> DEFINE k == Cardinality(T \ {e})
  <2>1. k \in Nat /\ n = k + 1
    <3>1. k = n - 1 /\ IsFiniteSet(T \ {e})
      BY <1>1, FS_RemoveElement
    <3>2. k \in Nat
      BY <3>1, FS_CardinalityType
    <3> QED
      BY <1>1, <3>1, <3>2
  <2> HIDE DEF k, n
  <2>2. k * MaxRead \in Nat /\ (k + 1) * MaxRead = k * MaxRead + MaxRead
    BY <2>1, Constants
  <2> QED
    BY <2>1, <2>2 DEF k
<1> QED
  BY <1>1, <1>2, <1>3 DEF RoundTicks

LEMMA PauseLength ==
  ASSUME NEW e \in Entries, NEW n \in Count, n > 0
  PROVE  /\ Longest(e) \in Nat
         /\ Interval[e] <= BackoffExtra(e, n) /\ BackoffExtra(e, n) <= Longest(e)
<1> DEFINE x == 2^Cap(n - 1, MaxShift)
           y == 2^MaxShift
<1>1. Cap(n - 1, MaxShift) \in 0 .. MaxShift /\ MaxShift \in 0 .. MaxShift
  BY Constants DEF Cap
<1>2. x \in Nat \ {0} /\ y \in Nat \ {0} /\ x <= y
  BY <1>1, ShiftAssumption
<1>3. Interval[e] \in Nat
  BY Constants
<1>4. BackoffExtra(e, n) = Interval[e] * x /\ Longest(e) = Interval[e] * y
  BY DEF BackoffExtra, Longest
<1> HIDE DEF x, y
<1>5. 1 * Interval[e] <= x * Interval[e] /\ x * Interval[e] <= y * Interval[e]
  BY <1>2, <1>3, Product
<1>6. /\ 1 * Interval[e] = Interval[e] /\ x * Interval[e] = Interval[e] * x
      /\ y * Interval[e] = Interval[e] * y /\ Interval[e] * y \in Nat
  BY <1>2, <1>3
<1> QED
  BY <1>4, <1>5, <1>6

LEMMA IntervalLength == \A e \in Entries : Longest(e) \in Nat /\ Interval[e] <= Longest(e)
<1> SUFFICES ASSUME NEW e \in Entries PROVE Longest(e) \in Nat /\ Interval[e] <= Longest(e)
  OBVIOUS
<1>1. Longest(e) \in Nat /\ Interval[e] <= BackoffExtra(e, 1) /\ BackoffExtra(e, 1) <= Longest(e)
  BY Constants, PauseLength
<1>2. BackoffExtra(e, 1) \in Nat
  BY Constants, PauseType
<1> QED
  BY <1>1, <1>2, Constants

LEMMA AllowedType ==
  ASSUME Shape, NEW e \in Entries
  PROVE  Allowed(e) \in Nat /\ Interval[e] \in Nat
<1>1. streak[e] \in Count /\ Interval[e] \in Nat
  BY Constants DEF Shape
<1>2. CASE streak[e] > 0
  <2>1. Promised(e) \in Nat
    BY <1>1, <1>2, PauseType, PromisedIsBackoff
  <2> QED
    BY <1>1, <2>1 DEF Allowed
<1>3. CASE ~(streak[e] > 0)
  BY <1>1, <1>3, Constants DEF Allowed
<1> QED
  BY <1>2, <1>3

(* Time passing uses up what is left, and then the slack.                   *)
LEMMA PassingWaits ==
  ASSUME Shape, NEW d \in Nat, due' = Passed(d), Aged(d), NEW e \in Entries,
         NEW p \in Nat, NEW k \in Nat, Waits(since[e], due[e], p, k)
  PROVE  /\ Waits(since'[e], due'[e], p, k + d)
         /\ due[e] > 0 => Waits(since'[e], due'[e], p, d)
<1>1. /\ due'[e] = Floor(due[e] - d, -Interval[e])
      /\ since'[e] = Cap(since[e] + d, Far)
  BY DEF Passed, Aged
<1>2. /\ due[e] \in Int /\ since[e] \in 0 .. Far
      /\ Interval[e] \in Nat \ {0} /\ Far \in Nat
  BY Constants DEF Shape
<1> QED
  BY <1>1, <1>2 DEF Waits, Floor, Cap

Waiting == ReadsFit /\ Reached

LEMMA WaitingInit == Init => Waiting
<1> SUFFICES ASSUME Init PROVE Waiting
  OBVIOUS
<1>1. Cardinality(todo) * MaxRead <= RoundTicks /\ Cardinality(todo) * MaxRead \in Nat
  BY TodoSize DEF Init
<1> QED
  BY <1>1, Constants, IntervalLength DEF Init, Waiting, ReadsFit, Reached, Waits

LEMMA WaitingStart == Inv /\ Waiting /\ StartRound => Waiting'
<1> SUFFICES ASSUME Inv, Waiting, StartRound PROVE Waiting'
  OBVIOUS
<1> USE DEF Inv, Waiting
<1> DEFINE taken == {e \in Entries : due[e] <= 0}
<1>1. /\ todo' = taken /\ spent' = 0 /\ phase' = "round" /\ todo = {} /\ failed = {} /\ failed' = {}
      /\ UNCHANGED streak
  BY DEF StartRound, Shape
<1>2. ASSUME NEW e \in Entries
      PROVE  /\ e \in taken => due'[e] = NextDue(e) /\ since'[e] = 0
             /\ e \notin taken => due'[e] = due[e] /\ since'[e] = since[e]
  BY DEF StartRound
<1>3. ASSUME NEW e \in Entries
      PROVE  /\ due[e] \in Int /\ due[e] >= -Interval[e] /\ Interval[e] \in Nat \ {0}
             /\ due[e] <= Longest(e) /\ Longest(e) \in Nat /\ Interval[e] <= Longest(e)
  BY Constants, IntervalLength DEF Shape, ReadsFit
<1>4. ReadsFit'
  <2>1. Cardinality(taken) * MaxRead <= RoundTicks /\ Cardinality(taken) * MaxRead \in Nat
    BY TodoSize
  <2>2. \A e \in Entries : due'[e] <= Longest(e)
    BY <1>2, <1>3 DEF NextDue
  <2> QED
    BY <1>1, <2>1, <2>2 DEF ReadsFit, Longest
<1>5. ASSUME NEW e \in Entries PROVE Waits(since'[e], due'[e], Allowed(e)', Slack')
  <2>1. CASE e \in taken
    <3>1. Allowed(e)' = Interval[e]
      BY <1>1, <2>1 DEF Allowed
    <3>2. due'[e] > 0 /\ due'[e] <= Interval[e] /\ since'[e] = 0 /\ due'[e] \in Int
      BY <1>2, <1>3, <2>1 DEF NextDue
    <3> QED
      BY <3>1, <3>2 DEF Waits
  <2>2. CASE e \notin taken
    <3>1. due[e] > 0
      BY <1>3, <2>2
    <3>2. Allowed(e)' = Allowed(e)
      BY <1>1, <2>2 DEF Allowed, Promised
    <3> QED
      BY <1>2, <2>2, <3>1, <3>2 DEF Waits, Reached
  <2> QED
    BY <2>1, <2>2
<1> QED
  BY <1>4, <1>5 DEF Reached

LEMMA WaitingPoll ==
  ASSUME Inv, Waiting, NEW e \in Entries, NEW ok \in BOOLEAN, NEW d \in 0 .. MaxRead,
         Poll(e, ok, d)
  PROVE  Waiting'
<1> USE DEF Inv, Waiting
<1>1. /\ d \in Nat /\ d <= MaxRead /\ due' = Passed(d) /\ Aged(d)
      /\ todo' = todo \ {e} /\ e \in todo /\ spent' = spent + d /\ phase' = phase
      /\ failed' = IF ok THEN failed ELSE failed \cup {e}
      /\ streak' = [streak EXCEPT ![e] = IF ok THEN 0 ELSE Up(@)]
  BY Constants DEF Poll
<1>2. phase = "round" /\ Slack = spent /\ Slack' = spent + d /\ spent \in Nat
  BY <1>1 DEF Shape, Slack
<1>3. ASSUME NEW f \in Entries PROVE Allowed(f)' = Allowed(f)
  <2>1. CASE f = e
    BY <1>1, <2>1 DEF Allowed, Shape
  <2>2. CASE f # e
    <3>1. streak'[f] = streak[f] /\ (f \in todo' \cup failed' <=> f \in todo \cup failed)
      BY <1>1, <2>2 DEF Shape
    <3> QED
      BY <3>1 DEF Allowed, Promised
  <2> QED
    BY <2>1, <2>2
<1>4. ASSUME NEW f \in Entries
      PROVE  Waits(since'[f], due'[f], Allowed(f)', Slack') /\ due'[f] <= Longest(f)
  <2>1. Waits(since[f], due[f], Allowed(f), spent) /\ Allowed(f) \in Nat
    BY <1>2, AllowedType DEF Reached
  <2>2. /\ Waits(since'[f], due'[f], Allowed(f), spent + d)
        /\ due'[f] \in Int /\ due'[f] <= Floor(due[f], 0)
    BY <1>1, <1>2, <2>1, Passing, PassingWaits
  <2>3. due'[f] <= Longest(f)
    <3>1. due[f] \in Int /\ due[f] <= Longest(f) /\ Longest(f) \in Nat
      BY IntervalLength DEF ReadsFit, Shape
    <3> QED
      BY <2>2, <3>1 DEF Floor
  <2> QED
    BY <1>2, <1>3, <2>2, <2>3
<1>5. ReadsFit'
  <2>1. /\ Cardinality(todo') * MaxRead \in Nat
        /\ Cardinality(todo) * MaxRead = Cardinality(todo') * MaxRead + MaxRead
    BY <1>1, TodoSize DEF Shape
  <2> DEFINE a == Cardinality(todo) * MaxRead
             b == Cardinality(todo') * MaxRead
  <2>2. spent + a <= RoundTicks /\ b \in Nat /\ a = b + MaxRead
    BY <2>1 DEF ReadsFit
  <2> HIDE DEF a, b
  <2>3. spent + d + b <= RoundTicks
    BY <1>1, <1>2, <2>2, Constants, RoundTicksType
  <2> QED
    BY <1>1, <1>2, <1>4, <2>3 DEF ReadsFit, b, Longest
<1> QED
  BY <1>4, <1>5 DEF Reached

(* What a failed group has been allowed turns into its pause.               *)
LEMMA WaitingEnd == Inv /\ Waiting /\ EndRound => Waiting'
<1> SUFFICES ASSUME Inv, Waiting, EndRound PROVE Waiting'
  OBVIOUS
<1> USE DEF Inv, Waiting
<1>1. /\ todo = {} /\ todo' = {} /\ failed' = {} /\ spent' = 0
      /\ phase = "round" /\ phase' = "sleep" /\ UNCHANGED <<since, streak>>
      /\ \A e \in Entries : due'[e] = PutOff(e)
  BY DEF EndRound
<1>2. /\ spent \in Nat /\ RoundTicks \in Nat /\ spent <= RoundTicks
      /\ Slack = spent /\ Slack' = RoundTicks
  <2>1. Cardinality(todo) * MaxRead \in Nat
    BY <1>1, TodoSize
  <2>2. RoundTicks' = RoundTicks
    BY DEF RoundTicks
  <2> QED
    BY <1>1, <2>1, <2>2, RoundTicksType DEF ReadsFit, Slack, Shape
<1>3. ASSUME NEW e \in Entries
      PROVE  /\ due[e] \in Int /\ since[e] \in 0 .. Far /\ Far \in Nat
             /\ due[e] <= Longest(e) /\ Longest(e) \in Nat
             /\ Interval[e] \in Nat /\ Waits(since[e], due[e], Allowed(e), spent)
  BY <1>2, Constants, IntervalLength DEF Shape, ReadsFit, Reached
<1>4. ASSUME NEW e \in failed
      PROVE  /\ Extra(e) = Promised(e) /\ Promised(e) \in Nat /\ e \in Entries
             /\ Interval[e] <= Promised(e) /\ Promised(e) <= Longest(e)
             /\ Allowed(e) = Interval[e] /\ Allowed(e)' = Promised(e)
             /\ since[e] = Cap(spent, Far)
  <2>1. /\ e \in Entries /\ streak[e] \in Count /\ streak[e] > 0 /\ groupFail[e] \in Count
        /\ since[e] = Cap(spent, Far)
    BY DEF Shape, InHand
  <2>2. Interval[e] <= Promised(e) /\ Promised(e) <= Longest(e) /\ Promised(e) \in Nat
    BY <2>1, PauseLength, PauseType, PromisedIsBackoff
  <2>3. Allowed(e) = Interval[e] /\ Allowed(e)' = Promised(e)
    BY <1>1, <2>1, Constants DEF Allowed, Promised
  <2>4. Extra(e) = Promised(e)
    BY <2>1, ExtraIsPromised
  <2> QED
    BY <2>1, <2>2, <2>3, <2>4
<1>5. ASSUME NEW e \in Entries
      PROVE  Waits(since'[e], due'[e], Allowed(e)', Slack') /\ due'[e] <= Longest(e)
  <2>1. CASE e \in failed
    <3>1. due'[e] = Floor(due[e], Promised(e) - spent)
      BY <1>1, <1>4, <2>1 DEF PutOff
    <3>2. Waits(since[e], due[e], Interval[e], spent)
      BY <1>3, <1>4, <2>1
    <3>3. since'[e] = since[e] /\ since[e] = Cap(spent, Far)
      BY <1>1, <1>4, <2>1
    <3> DEFINE p == Promised(e)
    <3>4. p \in Nat /\ Interval[e] <= p /\ p <= Longest(e) /\ due'[e] = Floor(due[e], p - spent)
      BY <1>4, <2>1, <3>1
    <3> HIDE DEF p
    <3>5. Waits(since'[e], due'[e], p, RoundTicks) /\ due'[e] <= Longest(e)
      BY <1>2, <1>3, <3>2, <3>3, <3>4 DEF Waits, Floor, Cap
    <3> QED
      BY <1>2, <1>4, <2>1, <3>5 DEF p
  <2>2. CASE e \notin failed
    <3>1. due'[e] = due[e] /\ since'[e] = since[e] /\ Allowed(e)' = Allowed(e)
      BY <1>1, <2>2 DEF PutOff, Allowed, Promised
    <3> QED
      BY <1>2, <1>3, <3>1, AllowedType DEF Waits
  <2> QED
    BY <2>1, <2>2
<1>6. ReadsFit'
  <2>1. Cardinality(todo') * MaxRead \in Nat /\ Cardinality(todo') * MaxRead <= RoundTicks
    BY <1>1, TodoSize
  <2> QED
    BY <1>1, <1>5, <2>1 DEF ReadsFit, Longest
<1> QED
  BY <1>5, <1>6 DEF Reached

LEMMA WaitingSleep == Inv /\ Waiting /\ Sleep => Waiting'
<1> SUFFICES ASSUME Inv, Waiting, Sleep PROVE Waiting'
  OBVIOUS
<1> USE DEF Inv, Waiting
<1>1. /\ PollTicks \in Nat /\ due' = Passed(PollTicks) /\ Aged(PollTicks)
      /\ UNCHANGED <<todo, spent, failed, streak>> /\ phase' = "look" /\ spent = 0
  BY Constants DEF Sleep, ReadsFit
<1>2. Slack' = RoundTicks + PollTicks /\ RoundTicks \in Nat
  BY <1>1, RoundTicksType DEF Slack, RoundTicks
<1>3. ASSUME NEW e \in Entries
      PROVE  Waits(since'[e], due'[e], Allowed(e)', Slack') /\ due'[e] <= Longest(e)
  <2>1. Allowed(e)' = Allowed(e) /\ Allowed(e) \in Nat
    BY <1>1, AllowedType DEF Allowed, Promised
  <2>2. Waits(since'[e], due'[e], Allowed(e), RoundTicks + PollTicks)
    <3>1. CASE phase = "sleep"
      <4>1. Waits(since[e], due[e], Allowed(e), RoundTicks)
        BY <3>1 DEF Reached, Slack
      <4> QED
        BY <1>1, <1>2, <2>1, <4>1, PassingWaits
    <3>2. CASE phase # "sleep"
      <4>1. due[e] > 0 /\ Waits(since[e], due[e], Allowed(e), Slack)
        BY <3>2 DEF Sleep, Reached
      <4>2. Waits(since[e], due[e], Allowed(e), 0)
        BY <4>1 DEF Waits
      <4>3. Waits(since'[e], due'[e], Allowed(e), PollTicks) /\ due'[e] \in Int
        BY <1>1, <2>1, <4>1, <4>2, Passing, PassingWaits
      <4>4. since'[e] \in Int
        BY <1>1, Passing, Constants DEF Shape
      <4> QED
        BY <1>1, <1>2, <2>1, <4>3, <4>4 DEF Waits
    <3> QED
      BY <3>1, <3>2
  <2>3. due'[e] \in Int /\ due'[e] <= Floor(due[e], 0)
    BY <1>1, Passing
  <2>4. due[e] \in Int /\ due[e] <= Longest(e) /\ Longest(e) \in Nat
    BY IntervalLength DEF ReadsFit, Shape
  <2> QED
    BY <1>2, <2>1, <2>2, <2>3, <2>4 DEF Floor
<1>4. ReadsFit'
  <2>1. spent' + Cardinality(todo') * MaxRead <= RoundTicks
    BY <1>1 DEF ReadsFit
  <2> QED
    BY <1>1, <1>3, <2>1 DEF ReadsFit, Longest, RoundTicks
<1> QED
  BY <1>3, <1>4 DEF Reached

LEMMA WaitingNext == Inv /\ Waiting /\ [Next]_vars => Waiting'
<1> SUFFICES ASSUME Inv, Waiting, [Next]_vars PROVE Waiting'
  OBVIOUS
<1>1. CASE UNCHANGED vars
  BY <1>1 DEF vars, Waiting, ReadsFit, Reached, Waits, Allowed, Promised, Slack, RoundTicks, Longest
<1> QED
  BY <1>1, WaitingStart, WaitingPoll, WaitingEnd, WaitingSleep DEF Next

LEMMA WaitingHolds == Spec => [](Inv /\ Waiting)
<1>1. Init => Inv /\ Waiting
  BY InvInit, WaitingInit
<1>2. Inv /\ Waiting /\ [Next]_vars => (Inv /\ Waiting)'
  BY InvNext, WaitingNext
<1> QED
  BY <1>1, <1>2, PTL DEF Spec

(* The types of the schedule, with how far a group may be put off and how    *)
(* long a round may last, for every port.                                    *)
THEOREM ScheduleTypeCorrect == Spec => []TypeOK
<1>1. Inv /\ Waiting => TypeOK
  <2> SUFFICES ASSUME Inv, Waiting PROVE TypeOK
    OBVIOUS
  <2>1. spent \in 0 .. RoundTicks
    <3>1. Cardinality(todo) * MaxRead \in Nat
      BY TodoSize DEF Inv, Shape
    <3> QED
      BY <3>1, RoundTicksType DEF Inv, Shape, Waiting, ReadsFit
  <2> QED
    BY <2>1 DEF Inv, Shape, InHand, Waiting, ReadsFit, TypeOK
<1> QED
  BY <1>1, WaitingHolds, PTL

(* No group is given up, and none waits longer than its interval or pause,   *)
(* one round and one sleep, however many stations of the port are dead.      *)
THEOREM NeverGivenUpCorrect == Spec => []NeverGivenUp
<1>1. Inv /\ Waiting => NeverGivenUp
  <2> SUFFICES ASSUME Inv, Waiting, NEW e \in Entries, since[e] # Far
               PROVE  since[e] <= (IF streak[e] = 0 THEN Interval[e] ELSE Promised(e))
                                    + RoundTicks + PollTicks
    BY DEF NeverGivenUp
  <2> DEFINE p == IF streak[e] = 0 THEN Interval[e] ELSE Promised(e)
  <2>1. Allowed(e) \in Nat /\ p \in Nat /\ Allowed(e) <= p
    <3>1. streak[e] \in Count /\ Allowed(e) \in Nat /\ Interval[e] \in Nat
      BY AllowedType DEF Inv, Shape
    <3>2. CASE streak[e] = 0
      BY <3>1, <3>2 DEF Allowed
    <3>3. CASE streak[e] # 0
      <4>1. streak[e] > 0
        BY <3>1, <3>3, Constants
      <4>2. Promised(e) \in Nat /\ Interval[e] <= Promised(e)
        BY <3>1, <4>1, PauseType, PauseLength, PromisedIsBackoff
      <4> QED
        BY <3>1, <3>3, <4>2 DEF Allowed
    <3> QED
      BY <3>2, <3>3
  <2> HIDE DEF p
  <2>2. Slack \in Nat /\ Slack <= RoundTicks + PollTicks /\ RoundTicks \in Nat /\ PollTicks \in Nat
    <3>1. Cardinality(todo) * MaxRead \in Nat
      BY TodoSize DEF Inv, Shape
    <3> QED
      BY <3>1, RoundTicksType, Constants DEF Inv, Shape, Waiting, ReadsFit, Slack
  <2>3. Waits(since[e], due[e], Allowed(e), Slack)
    BY DEF Waiting, Reached
  <2>4. since[e] \in Nat /\ due[e] \in Int
    BY Constants DEF Inv, Shape
  <2>5. since[e] <= p + RoundTicks + PollTicks
    BY <2>1, <2>2, <2>3, <2>4 DEF Waits
  <2> QED
    BY <2>5 DEF p
<1> QED
  BY <1>1, WaitingHolds, PTL
=============================================================================
