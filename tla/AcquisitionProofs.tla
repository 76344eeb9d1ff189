-------------------------- MODULE AcquisitionProofs --------------------------
(***************************************************************************)
(* Proofs about Acquisition, that the uplink of Iec104Uplink, which reads    *)
(* the table and takes from the channel, leaves them true, and that the      *)
(* master comes to have what is fresh.                                       *)
(***************************************************************************)
EXTENDS Iec104Uplink, SequenceTheorems, FiniteSetTheorems, FunctionTheorems, TLAPS

Take == Recv /\ UNCHANGED <<table, station, port, pending>>

LEMMA ConstantsType ==
  /\ Bits \subseteq Points
  /\ AggrBits \subseteq Bits
  /\ AggrBits # {} => Aggr \in Points /\ Aggr \notin Bits
  /\ \A g \in Groups : BitsOf[g] \subseteq Bits
  /\ Carrier \in Groups
BY GroupsAssumption, AggrAssumption DEF Bits

LEMMA BroadcastType ==
  ASSUME AcqTypeOK, NEW batch \in SUBSET Points, Broadcast(batch)
  PROVE  lagged' \in BOOLEAN /\ changes' \in Seq(SUBSET Points) /\ Len(changes') <= ChangeCap
<1> DEFINE S == SUBSET Points
<1> SUFFICES /\ lagged' \in BOOLEAN
             /\ changes' \in Seq(S) /\ Len(changes') <= ChangeCap
  OBVIOUS
<1>1. changes \in Seq(S) /\ batch \in S /\ Len(changes) <= ChangeCap /\ lagged \in BOOLEAN
  BY DEF AcqTypeOK
<1>2. ChangeCap \in Nat \ {0}
  BY ChangeCapAssumption
<1> HIDE DEF S
<1>3. CASE batch = {}
  BY <1>1, <1>3 DEF Broadcast, channel
<1>4. CASE batch # {} /\ Len(changes) < ChangeCap
  BY <1>1, <1>2, <1>4 DEF Broadcast
<1>5. CASE batch # {} /\ ~(Len(changes) < ChangeCap)
  <2>1. changes # <<>> /\ Tail(changes) \in Seq(S) /\ Len(Tail(changes)) = Len(changes) - 1
    BY <1>1, <1>2, <1>5
  <2>2. changes' = Append(Tail(changes), batch) /\ lagged' = TRUE
    BY <1>5 DEF Broadcast
  <2> QED
    BY <1>1, <1>2, <2>1, <2>2
<1> QED
  BY <1>3, <1>4, <1>5

LEMMA ApplyType ==
  ASSUME AcqTypeOK, NEW v, NEW q, DOMAIN v \subseteq Points, DOMAIN q \subseteq Points,
         \A p \in DOMAIN v : v[p] \in Values, \A p \in DOMAIN q : q[p] \in Qualities,
         Apply(v, q)
  PROVE  /\ value' \in [Points -> Values] /\ quality' \in [Points -> Qualities]
         /\ lagged' \in BOOLEAN
         /\ changes' \in Seq(SUBSET Points) /\ Len(changes') <= ChangeCap
<1>1. Changed(v) \in SUBSET Points
  BY DEF Changed
<1>2. Broadcast(Changed(v))
  BY DEF Apply
<1>3. value' \in [Points -> Values] /\ quality' \in [Points -> Qualities]
  BY DEF Apply, AcqTypeOK
<1> QED
  BY <1>1, <1>2, <1>3, BroadcastType

LEMMA AggregatesType ==
  ASSUME AcqTypeOK, ApplyAggregates
  PROVE  /\ value' \in [Points -> Values] /\ quality' \in [Points -> Qualities]
         /\ lagged' \in BOOLEAN
         /\ changes' \in Seq(SUBSET Points) /\ Len(changes') <= ChangeCap
<1>1. CASE AggrBits = {}
  BY <1>1 DEF ApplyAggregates, AcqTypeOK, channel
<1>2. CASE AggrBits # {}
  <2> DEFINE v == [p \in {Aggr} |-> AggrValue]
             q == [p \in {Aggr} |-> AggrQuality]
  <2>1. DOMAIN v \subseteq Points /\ DOMAIN q \subseteq Points
    BY <1>2, ConstantsType
  <2>2. \A p \in DOMAIN v : v[p] \in Values
    BY DEF AggrValue, Values, Bit
  <2>3. \A p \in DOMAIN q : q[p] \in Qualities
    BY DEF AggrQuality, Qualities
  <2>4. Apply(v, q)
    BY <1>2 DEF ApplyAggregates
  <2> HIDE DEF v, q
  <2> QED
    BY <2>1, <2>2, <2>3, <2>4, ApplyType
<1> QED
  BY <1>1, <1>2

LEMMA AcqTypeInit == AcqInit => AcqTypeOK
<1> SUFFICES ASSUME AcqInit PROVE AcqTypeOK
  OBVIOUS
<1>1. changes \in Seq(SUBSET Points) /\ Len(changes) <= ChangeCap
  BY ChangeCapAssumption DEF AcqInit, TableInit
<1>2. last \in [Bits -> Bit] /\ DOMAIN pending = {}
  BY DEF AcqInit, NoBits, Bit
<1> QED
  BY <1>1, <1>2 DEF AcqInit, AcqTypeOK, TableInit, Values, Bit, Qualities

LEMMA AcqTypeNext == AcqTypeOK /\ [AcqNext \/ Take]_acqVars => AcqTypeOK'
<1> SUFFICES ASSUME AcqTypeOK, [AcqNext \/ Take]_acqVars PROVE AcqTypeOK'
  OBVIOUS
<1> USE DEF AcqTypeOK
<1>1. ASSUME NEW g \in Groups, NEW r \in Readings(g), PollOk(g, r) PROVE AcqTypeOK'
  <2>1. \A b \in BitsOf[g] : b \in Bits /\ r[b] \in Bit
    BY ConstantsType DEF Readings
  <2>2. DOMAIN pending' \subseteq Bits /\ \A b \in DOMAIN pending' : pending'[b] \in Bit
    BY <1>1, <2>1 DEF PollOk, ToDeliver
  <2>3. last' \in [Bits -> Bit]
    BY <1>1, <2>1 DEF PollOk
  <2>4. primed' \subseteq Groups /\ failing' \subseteq Groups \ {Carrier} /\ offline' \in BOOLEAN
    BY <1>1 DEF PollOk
  <2>5. port' \in {"idle", "online", "deliver", "aggregate"}
    BY <1>1 DEF PollOk
  <2> QED
    BY <1>1, <2>2, <2>3, <2>4, <2>5 DEF PollOk, table, channel
<1>2. ASSUME NEW g \in Groups, PollFail(g) PROVE AcqTypeOK'
  BY <1>2 DEF PollFail, MarkOffline, table, channel, Qualities
<1>3. CASE Online
  BY <1>3, AggregatesType DEF Online, station
<1>4. CASE Deliver
  <2> DEFINE q == [b \in DOMAIN pending |-> "ok"]
  <2>1. DOMAIN pending \subseteq Points /\ \A p \in DOMAIN pending : pending[p] \in Values
    BY ConstantsType DEF Values
  <2>2. DOMAIN q \subseteq Points /\ \A p \in DOMAIN q : q[p] \in Qualities
    BY <2>1 DEF Qualities
  <2>3. Apply(pending, q)
    BY <1>4 DEF Deliver
  <2> HIDE DEF q
  <2>4. /\ value' \in [Points -> Values] /\ quality' \in [Points -> Qualities]
        /\ lagged' \in BOOLEAN
        /\ changes' \in Seq(SUBSET Points) /\ Len(changes') <= ChangeCap
    BY <2>1, <2>2, <2>3, ApplyType
  <2> QED
    BY <1>4, <2>4 DEF Deliver, station, NoBits
<1>5. CASE Aggregate
  BY <1>5, AggregatesType DEF Aggregate, station
<1>6. CASE Expire
  BY <1>6 DEF Expire, channel, station
<1>7. CASE Take
  <2> DEFINE S == SUBSET Points
  <2>1. /\ changes \in Seq(S) /\ Len(changes) <= ChangeCap /\ ChangeCap \in Nat
        /\ lagged \in BOOLEAN
    BY ChangeCapAssumption
  <2>2. changes' \in Seq(S) /\ Len(changes') <= ChangeCap /\ lagged' \in BOOLEAN
    <3> HIDE DEF S
    <3>1. CASE lagged
      BY <2>1, <1>7, <3>1 DEF Take, Recv
    <3>2. CASE ~lagged
      <4>1. changes # <<>> /\ changes' = Tail(changes) /\ lagged' = lagged
        BY <1>7, <3>2 DEF Take, Recv
      <4>2. Tail(changes) \in Seq(S) /\ Len(Tail(changes)) = Len(changes) - 1
        BY <2>1, <4>1
      <4>3. Len(changes) \in Nat
        BY <2>1
      <4> QED
        BY <2>1, <4>1, <4>2, <4>3
    <3> QED
      BY <3>1, <3>2
  <2> QED
    BY <2>2, <1>7 DEF Take, table, station
<1>8. CASE UNCHANGED acqVars
  BY <1>8 DEF acqVars, table, channel, station
<1> QED
  BY <1>1, <1>2, <1>3, <1>4, <1>5, <1>6, <1>7, <1>8 DEF AcqNext, Sink

(* The table, the channel and the state of the acquisition keep their types. *)
THEOREM AcqTypeCorrect == AcqSpec => []AcqTypeOK
BY AcqTypeInit, AcqTypeNext, PTL DEF AcqSpec, Take
-----------------------------------------------------------------------------
(* While a reading is on its way its bits are exempt; a failed carrier puts  *)
(* off the comparison until everything has been delivered again.            *)
Mirrors(b) ==
  IF b \in DOMAIN pending THEN pending[b] = last[b]
  ELSE ~offline => value[b] = last[b] /\ quality[b] = "ok"

MirrorInv ==
  /\ \A g \in primed : \A b \in BitsOf[g] : Mirrors(b)
  /\ port \in {"idle", "aggregate"} => DOMAIN pending = {}

LEMMA AggregatesLeaveBits ==
  ASSUME AcqTypeOK, ApplyAggregates
  PROVE  \A b \in Bits : value'[b] = value[b] /\ quality'[b] = quality[b]
<1>1. CASE AggrBits = {}
  BY <1>1 DEF ApplyAggregates
<1>2. CASE AggrBits # {}
  BY <1>2, ConstantsType DEF ApplyAggregates, Apply
<1> QED
  BY <1>1, <1>2

LEMMA MirrorInit == AcqInit => MirrorInv
BY DEF AcqInit, MirrorInv, NoBits

LEMMA MirrorPollOk ==
  ASSUME AcqTypeOK, MirrorInv, NEW g \in Groups, NEW r \in Readings(g), PollOk(g, r)
  PROVE  MirrorInv'
<1>1. port = "idle" /\ DOMAIN pending = {}
  BY DEF PollOk, MirrorInv
<1>2. /\ DOMAIN pending' = ToDeliver(g, r)
      /\ \A b \in ToDeliver(g, r) : pending'[b] = r[b] /\ b \in BitsOf[g]
  BY DEF PollOk, ToDeliver
<1>3. \A b \in Bits : last'[b] = IF b \in BitsOf[g] THEN r[b] ELSE last[b]
  BY DEF PollOk
<1>4. ASSUME NEW h \in primed', NEW b \in BitsOf[h] PROVE Mirrors(b)'
  <2>1. h \in Groups /\ b \in Bits
    BY ConstantsType DEF PollOk, AcqTypeOK
  <2>2. CASE h = g
    <3>1. CASE b \in ToDeliver(g, r)
      BY <1>2, <1>3, <2>1, <2>2, <3>1 DEF Mirrors
    <3>2. CASE b \notin ToDeliver(g, r)
      <4>1. g \in primed /\ g \notin Resets(g) /\ r[b] = last[b]
        BY <2>2, <3>2 DEF ToDeliver
      <4>2. ~offline' => ~offline
        BY <4>1 DEF PollOk, Resets
      <4>3. Mirrors(b) /\ b \notin DOMAIN pending
        BY <1>1, <2>2, <4>1 DEF MirrorInv
      <4>4. value' = value /\ quality' = quality /\ last'[b] = last[b]
        BY <1>3, <2>1, <2>2, <4>1 DEF PollOk, table
      <4> QED
        BY <1>2, <3>2, <4>2, <4>3, <4>4 DEF Mirrors
    <3> QED
      BY <3>1, <3>2
  <2>3. CASE h # g
    <3>1. b \notin BitsOf[g]
      BY <2>1, <2>3, GroupsAssumption
    <3>2. h \in primed /\ h \notin Resets(g)
      BY <2>3 DEF PollOk
    <3>3. ~offline' => ~offline
      BY <2>1, <3>2 DEF PollOk, Resets
    <3>4. Mirrors(b) /\ b \notin DOMAIN pending
      BY <1>1, <3>2 DEF MirrorInv
    <3>5. value' = value /\ quality' = quality /\ last'[b] = last[b] /\ b \notin DOMAIN pending'
      BY <1>2, <1>3, <2>1, <3>1 DEF PollOk, table
    <3> QED
      BY <3>3, <3>4, <3>5 DEF Mirrors
  <2> QED
    BY <2>2, <2>3
<1>5. port' = "idle" => DOMAIN pending' = {}
  BY <1>2 DEF PollOk
<1>6. port' # "aggregate"
  BY DEF PollOk
<1> QED
  BY <1>4, <1>5, <1>6 DEF MirrorInv

LEMMA MirrorNext == AcqTypeOK /\ MirrorInv /\ [AcqNext \/ Take]_acqVars => MirrorInv'
<1> SUFFICES ASSUME AcqTypeOK, MirrorInv, [AcqNext \/ Take]_acqVars PROVE MirrorInv'
  OBVIOUS
<1>0. \A g \in primed : \A b \in BitsOf[g] : b \in Bits /\ b \in Points
  BY ConstantsType DEF AcqTypeOK
<1>1. ASSUME NEW g \in Groups, NEW r \in Readings(g), PollOk(g, r) PROVE MirrorInv'
  BY <1>1, MirrorPollOk
<1>2. ASSUME NEW g \in Groups, PollFail(g) PROVE MirrorInv'
  <2>1. UNCHANGED <<primed, last, port, pending>> /\ (offline => offline')
    BY <1>2 DEF PollFail, AcqTypeOK
  <2>2. offline' \/ UNCHANGED <<value, quality>>
    BY <1>2 DEF PollFail, table
  <2> QED
    BY <2>1, <2>2 DEF MirrorInv, Mirrors
<1>3. CASE Online
  <2>1. UNCHANGED <<primed, last, offline, pending>> /\ port' = "deliver"
    BY <1>3 DEF Online, station
  <2>2. \A b \in Bits : value'[b] = value[b] /\ quality'[b] = quality[b]
    BY <1>3, AggregatesLeaveBits DEF Online
  <2> QED
    BY <1>0, <2>1, <2>2 DEF MirrorInv, Mirrors
<1>4. CASE Deliver
  <2>1. UNCHANGED <<primed, last, offline>> /\ port' = "aggregate" /\ DOMAIN pending' = {}
    BY <1>4 DEF Deliver, station, NoBits
  <2>2. \A b \in Points :
          /\ b \in DOMAIN pending => value'[b] = pending[b] /\ quality'[b] = "ok"
          /\ b \notin DOMAIN pending => value'[b] = value[b] /\ quality'[b] = quality[b]
    BY <1>4 DEF Deliver, Apply
  <2> QED
    BY <1>0, <2>1, <2>2 DEF MirrorInv, Mirrors
<1>5. CASE Aggregate
  <2>1. UNCHANGED <<primed, last, offline, pending>> /\ port' = "idle" /\ port = "aggregate"
    BY <1>5 DEF Aggregate, station
  <2>2. \A b \in Bits : value'[b] = value[b] /\ quality'[b] = quality[b]
    BY <1>5, AggregatesLeaveBits DEF Aggregate
  <2> QED
    BY <1>0, <2>1, <2>2 DEF MirrorInv, Mirrors
<1>6. CASE Expire \/ Take \/ UNCHANGED acqVars
  BY <1>6 DEF Expire, Take, acqVars, table, station, MirrorInv, Mirrors
<1> QED
  BY <1>1, <1>2, <1>3, <1>4, <1>5, <1>6 DEF AcqNext, Sink

LEMMA MirrorImplies == AcqTypeOK /\ MirrorInv => TableMirrorsReadings
BY DEF MirrorInv, Mirrors, TableMirrorsReadings

(* Delivering changes only loses no reading, for every station, grouping and *)
(* order of failures and recoveries (poll_group, mark_station_offline).      *)
THEOREM MirrorCorrect == AcqSpec => []TableMirrorsReadings
<1>1. AcqInit => AcqTypeOK /\ MirrorInv
  BY AcqTypeInit, MirrorInit
<1>2. AcqTypeOK /\ MirrorInv /\ [AcqNext \/ Take]_acqVars => (AcqTypeOK /\ MirrorInv)'
  BY AcqTypeNext, MirrorNext
<1> QED
  BY <1>1, <1>2, MirrorImplies, PTL DEF AcqSpec, Take
-----------------------------------------------------------------------------
(* The aggregate is out of step only between the two halves of a call of the *)
(* sink; a failed carrier changes its quality without evaluating it.         *)
AggregateInv ==
  AggrBits # {} /\ quality[Aggr] # "absent" =>
    /\ port # "aggregate" => value[Aggr] = AggrValue
    /\ offline \/ port \in {"online", "aggregate"} \/ quality[Aggr] = AggrQuality

LEMMA AggregatesEvaluated ==
  ASSUME AcqTypeOK, ApplyAggregates, AggrBits # {}
  PROVE  value'[Aggr] = AggrValue' /\ quality'[Aggr] = AggrQuality'
<1>1. \A b \in AggrBits : value'[b] = value[b] /\ quality'[b] = quality[b]
  BY AggregatesLeaveBits, ConstantsType
<1>2. Read' = Read
  BY <1>1 DEF Read
<1>3. AggrValue' = AggrValue
  BY <1>1, <1>2 DEF AggrValue, Read
<1>4. AggrQuality' = AggrQuality
  BY <1>1, <1>2 DEF AggrQuality, Read
<1>5. value'[Aggr] = AggrValue /\ quality'[Aggr] = AggrQuality
  BY ConstantsType DEF ApplyAggregates, Apply
<1> QED
  BY <1>3, <1>4, <1>5

LEMMA AggregateStable ==
  ASSUME UNCHANGED <<value, quality>>
  PROVE  AggrValue' = AggrValue /\ AggrQuality' = AggrQuality
BY DEF AggrValue, AggrQuality, Read

LEMMA AggregateInit == AcqInit => AggregateInv
BY ConstantsType DEF AcqInit, TableInit, AggregateInv

LEMMA AggregateNext ==
  AcqTypeOK /\ AggregateInv /\ [AcqNext \/ Take]_acqVars => AggregateInv'
<1> SUFFICES ASSUME AcqTypeOK, AggregateInv, [AcqNext \/ Take]_acqVars, AggrBits # {}
             PROVE  AggregateInv'
  BY DEF AggregateInv
<1>1. ASSUME NEW g \in Groups, NEW r \in Readings(g), PollOk(g, r) PROVE AggregateInv'
  <2>1. UNCHANGED <<value, quality>> /\ port = "idle"
    BY <1>1 DEF PollOk, table
  <2>2. offline /\ ~offline' => port' = "online"
    BY <1>1 DEF PollOk
  <2> QED
    BY <2>1, <2>2, AggregateStable DEF AggregateInv, AcqTypeOK
<1>2. ASSUME NEW g \in Groups, PollFail(g) PROVE AggregateInv'
  <2>1. CASE MarkOffline /\ offline' = TRUE /\ port' = port
    <3>1. \A p \in Points : quality'[p] = "absent" <=> quality[p] = "absent"
      BY <2>1 DEF MarkOffline
    <3>2. Read' = Read /\ value' = value
      BY <2>1, <3>1, ConstantsType DEF Read, MarkOffline
    <3>3. AggrValue' = AggrValue
      BY <3>2 DEF AggrValue
    <3> QED
      BY <2>1, <3>1, <3>2, <3>3, ConstantsType DEF AggregateInv
  <2>2. CASE UNCHANGED <<value, quality, offline, port>>
    BY <2>2, AggregateStable DEF AggregateInv
  <2> QED
    BY <1>2, <2>1, <2>2 DEF PollFail, table
<1>3. CASE Online \/ Aggregate
  BY <1>3, AggregatesEvaluated DEF Online, Aggregate, AggregateInv
<1>4. CASE Deliver
  BY <1>4 DEF Deliver, AggregateInv
<1>5. CASE Expire \/ Take \/ UNCHANGED acqVars
  <2>1. UNCHANGED <<value, quality, offline, port>>
    BY <1>5 DEF Expire, Take, acqVars, table, station
  <2> QED
    BY <2>1, AggregateStable DEF AggregateInv
<1> QED
  BY <1>1, <1>2, <1>3, <1>4, <1>5 DEF AcqNext, Sink

LEMMA AggregateImplies == AggregateInv => AggregateAgrees
BY DEF AggregateInv, AggregateAgrees

(* The aggregate never shows anything but its bits, for every battery        *)
(* (apply_bms_aggregates behind on_station_telemetry).                       *)
THEOREM AggregateCorrect == AcqSpec => []AggregateAgrees
<1>1. AcqInit => AcqTypeOK /\ AggregateInv
  BY AcqTypeInit, AggregateInit
<1>2. AcqTypeOK /\ AggregateInv /\ [AcqNext \/ Take]_acqVars => (AcqTypeOK /\ AggregateInv)'
  BY AcqTypeNext, AggregateNext
<1> QED
  BY <1>1, <1>2, AggregateImplies, PTL DEF AcqSpec, Take

-----------------------------------------------------------------------------
LEMMA UplinkStep == [Next]_vars => [AcqNext \/ Take]_acqVars
BY DEF Next, vars, Tracked, Acquire, CosRecv, CosSend, Accept, Write, SnapSend, StopDt,
       Interrogate, StartDt, Disconnect, Take, uplink

(* The whole chain behaves towards the table as Acquisition says, so that    *)
(* what is proved above holds of it.                                         *)
THEOREM UplinkImplementsAcq == Spec => AcqSpec
<1>1. Init => AcqInit
  BY DEF Init
<1> QED
  BY <1>1, UplinkStep, PTL DEF Spec, AcqSpec, Take

(* So the table mirrors the readings and the aggregate its bits whatever a  *)
(* master, its connection and the class C task do meanwhile.                *)
THEOREM UplinkInvariants == Spec => [](AcqTypeOK /\ TableMirrorsReadings /\ AggregateAgrees)
BY UplinkImplementsAcq, AcqTypeCorrect, MirrorCorrect, AggregateCorrect, PTL

-----------------------------------------------------------------------------
(* Sequences of items.                                                      *)

Uniq(s) == \A i, j \in DOMAIN s : s[i][1] = s[j][1] => i = j

\* Every item of s about p has value v.
Says(s, p, v) == \A i \in DOMAIN s : s[i][1] = p => s[i][2] = v

\* A master that has been told m and is told q ends with v for p.
LastSays(q, m, p, v) ==
  /\ \A i \in DOMAIN q :
       q[i][1] = p /\ (\A j \in DOMAIN q : i < j => q[j][1] # p) => q[i][2] = v
  /\ p \notin Named(q) => m[p] = v

LEMMA AppendLaw ==
  ASSUME NEW S, NEW s \in Seq(S), NEW e \in S, NEW t, t = Append(s, e)
  PROVE  /\ t \in Seq(S) /\ Len(s) \in Nat /\ Len(t) = Len(s) + 1
         /\ DOMAIN s = 1..Len(s) /\ DOMAIN t = 1..(Len(s) + 1)
         /\ \A i \in 1..Len(s) : t[i] = s[i]
         /\ t[Len(s) + 1] = e
BY AppendProperties, LenProperties

LEMMA TailLaw ==
  ASSUME NEW S, NEW s \in Seq(S), s # <<>>, NEW t, t = Tail(s)
  PROVE  /\ t \in Seq(S) /\ Len(s) \in Nat \ {0} /\ Len(t) = Len(s) - 1
         /\ DOMAIN s = 1..Len(s) /\ DOMAIN t = 1..(Len(s) - 1)
         /\ \A i \in 1..(Len(s) - 1) : t[i] = s[i + 1]
         /\ Head(s) = s[1] /\ Head(s) \in S
<1>1. Len(s) \in Nat \ {0} /\ DOMAIN s = 1..Len(s) /\ Head(s) = s[1] /\ Head(s) \in S
  BY LenProperties, EmptySeq, ElementOfSeq
<1>2. t \in Seq(S) /\ Len(t) = Len(s) - 1 /\ \A i \in 1..(Len(s) - 1) : t[i] = s[i + 1]
  BY HeadTailProperties
<1> QED
  BY <1>1, <1>2, LenProperties

Appended(S, s, e, t) == s \in Seq(S) /\ e \in S /\ t = Append(s, e)

LEMMA NamedAppend ==
  ASSUME NEW S, NEW s, NEW e, NEW t, Appended(S, s, e, t)
  PROVE  \A p : p \in Named(t) <=> p \in Named(s) \/ p = e[1]
<1>1. /\ Len(s) \in Nat /\ DOMAIN s = 1..Len(s) /\ DOMAIN t = 1..(Len(s) + 1)
      /\ \A i \in 1..Len(s) : t[i] = s[i]
      /\ t[Len(s) + 1] = e
  BY AppendLaw DEF Appended
<1>2. \A i \in DOMAIN t : i \in DOMAIN s \/ i = Len(s) + 1
  BY <1>1
<1>3. \A i \in DOMAIN s : i \in DOMAIN t
  BY <1>1
<1>4. Len(s) + 1 \in DOMAIN t
  BY <1>1
<1> QED
  BY <1>1, <1>2, <1>3, <1>4 DEF Named

Tailed(S, s, t) == s \in Seq(S) /\ s # <<>> /\ t = Tail(s)

\* What s names and says, its first item and the rest t name and say.
Popped(s, t) ==
  /\ \A p : p \in Named(s) <=> p \in Named(t) \/ p = Head(s)[1]
  /\ Uniq(s) => Uniq(t) /\ Head(s)[1] \notin Named(t)
  /\ \A p, v : Says(s, p, v) => Says(t, p, v) /\ (p = Head(s)[1] => Head(s)[2] = v)

LEMMA NamedTail ==
  ASSUME NEW S, NEW s, NEW t, Tailed(S, s, t)
  PROVE  Popped(s, t)
<1>1. /\ Len(s) \in Nat \ {0} /\ DOMAIN s = 1..Len(s) /\ DOMAIN t = 1..(Len(s) - 1)
      /\ \A i \in 1..(Len(s) - 1) : t[i] = s[i + 1]
      /\ Head(s) = s[1]
  BY TailLaw DEF Tailed
<1>2. \A i \in DOMAIN t : i + 1 \in DOMAIN s /\ i + 1 # 1 /\ t[i] = s[i + 1]
  BY <1>1
<1>3. \A i \in DOMAIN s : i = 1 \/ \E j \in DOMAIN t : i = j + 1
  <2> SUFFICES ASSUME NEW i \in DOMAIN s, i # 1 PROVE \E j \in DOMAIN t : i = j + 1
    OBVIOUS
  <2>1. i - 1 \in DOMAIN t /\ i = (i - 1) + 1
    BY <1>1
  <2> QED
    BY <2>1
<1>4. 1 \in DOMAIN s /\ \A i, j \in DOMAIN t : i + 1 = j + 1 => i = j
  BY <1>1
<1> HIDE DEF Named
<1>5. Named(s) = Named(t) \cup {Head(s)[1]}
  BY <1>1, <1>2, <1>3, <1>4 DEF Named
<1>6. Uniq(s) => Uniq(t) /\ Head(s)[1] \notin Named(t)
  BY <1>1, <1>2, <1>4 DEF Uniq, Named
<1>7. ASSUME NEW p, NEW v, Says(s, p, v)
      PROVE  Says(t, p, v) /\ (p = Head(s)[1] => Head(s)[2] = v)
  BY <1>1, <1>2, <1>4, <1>7 DEF Says
<1> QED
  BY <1>5, <1>6, <1>7 DEF Popped

LEMMA EmptyNames == Named(<<>>) = {} /\ Uniq(<<>>) /\ \A p, v : Says(<<>>, p, v)
BY DEF Named, Uniq, Says

(* What is put into the queue is the last the master will be told of it, and *)
(* leaves the rest as it was.                                               *)
LEMMA QueueLaw ==
  ASSUME NEW q, NEW e, NEW t, Appended(Items, q, e, t), NEW m, NEW p, NEW v
  PROVE  (IF e[1] = p THEN e[2] = v ELSE LastSays(q, m, p, v)) => LastSays(t, m, p, v)
<1>1. /\ Len(q) \in Nat /\ DOMAIN q = 1..Len(q) /\ DOMAIN t = 1..(Len(q) + 1)
      /\ \A i \in 1..Len(q) : t[i] = q[i]
      /\ t[Len(q) + 1] = e
      /\ p \in Named(t) <=> p \in Named(q) \/ p = e[1]
  <2>1. p \in Named(t) <=> p \in Named(q) \/ p = e[1]
    BY NamedAppend, Zenon
  <2> QED
    BY <2>1, AppendLaw DEF Appended
<1> SUFFICES ASSUME IF e[1] = p THEN e[2] = v ELSE LastSays(q, m, p, v)
             PROVE  LastSays(t, m, p, v)
  OBVIOUS
<1>2. Len(q) + 1 \in DOMAIN t /\ \A i \in DOMAIN q : i \in DOMAIN t /\ i < Len(q) + 1
  BY <1>1
<1>3. ASSUME NEW i \in DOMAIN t, t[i][1] = p, \A j \in DOMAIN t : i < j => t[j][1] # p
      PROVE  t[i][2] = v
  <2>1. CASE i = Len(q) + 1
    <3>1. t[i] = e
      BY <1>1, <2>1
    <3> QED
      BY <1>3, <3>1
  <2>2. CASE i # Len(q) + 1
    <3>1. i \in DOMAIN q /\ t[i] = q[i]
      BY <1>1, <2>2
    <3>2. e[1] # p
      BY <1>1, <1>2, <1>3, <3>1
    <3>3. \A j \in DOMAIN q : i < j => q[j][1] # p
      BY <1>1, <1>2, <1>3
    <3> QED
      BY <1>3, <3>1, <3>2, <3>3 DEF LastSays
  <2> QED
    BY <2>1, <2>2
<1>4. p \notin Named(t) => m[p] = v
  BY <1>1 DEF LastSays
<1> QED
  BY <1>3, <1>4 DEF LastSays

Written(q, t, m, w) ==
  /\ Tailed(Items, q, t) /\ m \in [ClassC -> Values]
  /\ w = [m EXCEPT ![Head(q)[1]] = Head(q)[2]]

(* What is written leaves what the master will have been told in the end.   *)
LEMMA WriteLaw ==
  ASSUME NEW q, NEW t, NEW m, NEW w, Written(q, t, m, w),
         NEW p \in ClassC, NEW v, LastSays(q, m, p, v)
  PROVE  LastSays(t, w, p, v)
<1>1. /\ Len(q) \in Nat \ {0} /\ DOMAIN q = 1..Len(q) /\ DOMAIN t = 1..(Len(q) - 1)
      /\ \A i \in 1..(Len(q) - 1) : t[i] = q[i + 1]
      /\ Head(q) = q[1] /\ Head(q) \in Items
      /\ p \in Named(q) <=> p \in Named(t) \/ p = Head(q)[1]
  <2>1. Tailed(Items, q, t)
    BY DEF Written
  <2>2. p \in Named(q) <=> p \in Named(t) \/ p = Head(q)[1]
    BY <2>1, NamedTail, Zenon DEF Popped
  <2> QED
    BY <2>1, <2>2, TailLaw DEF Tailed
<1>0. m \in [ClassC -> Values] /\ w = [m EXCEPT ![Head(q)[1]] = Head(q)[2]]
  BY DEF Written
<1>2. ASSUME NEW i \in DOMAIN t, t[i][1] = p, \A j \in DOMAIN t : i < j => t[j][1] # p
      PROVE  t[i][2] = v
  <2>1. i + 1 \in DOMAIN q /\ t[i] = q[i + 1]
    BY <1>1
  <2>2. ASSUME NEW j \in DOMAIN q, i + 1 < j PROVE q[j][1] # p
    <3>1. j - 1 \in DOMAIN t /\ i < j - 1 /\ t[j - 1] = q[j]
      <4>1. j \in Int /\ i \in Int
        BY <1>1
      <4> QED
        BY <1>1, <2>2, <4>1
    <3> QED
      BY <1>2, <3>1
  <2> QED
    BY <1>2, <2>1, <2>2 DEF LastSays
<1>3. ASSUME p \notin Named(t) PROVE w[p] = v
  <2>1. CASE Head(q)[1] = p
    <3>1. 1 \in DOMAIN q /\ q[1][1] = p
      BY <1>1, <2>1
    <3>2. ASSUME NEW j \in DOMAIN q, 1 < j PROVE q[j][1] # p
      <4>1. j - 1 \in DOMAIN t /\ t[j - 1] = q[j]
        BY <1>1, <3>2
      <4> QED
        BY <1>3, <4>1 DEF Named
    <3>3. q[1][2] = v
      BY <3>1, <3>2 DEF LastSays
    <3> QED
      BY <1>1, <1>0, <2>1, <3>3
  <2>2. CASE Head(q)[1] # p
    <3>1. m[p] = v
      BY <1>1, <1>3, <2>2 DEF LastSays
    <3> QED
      BY <1>0, <2>2, <3>1
  <2> QED
    BY <2>1, <2>2
<1> QED
  BY <1>2, <1>3 DEF LastSays

(* SetToSeq lists a finite set, each element once.                          *)
LEMMA ListLaw ==
  ASSUME NEW T, IsFiniteSet(T), NEW s, s = SetToSeq(T)
  PROVE  /\ s \in Seq(T) /\ \A i \in DOMAIN s : s[i] \in T
         /\ \A i, j \in DOMAIN s : s[i] = s[j] => i = j
         /\ \A e \in T : \E i \in DOMAIN s : s[i] = e
<1> DEFINE n == Cardinality(T)
<1>1. n \in Nat /\ ExistsBijection(1..n, T) /\ IsFiniteSet(1..n) /\ Cardinality(1..n) = n
  BY FS_CardinalityType, FS_Interval
<1>2. \E f \in [1..n -> T] : \A i, j \in DOMAIN f : f[i] = f[j] => i = j
  BY <1>1 DEF ExistsBijection, Bijection, Injection, IsInjective
<1>3. s \in [1..n -> T] /\ \A i, j \in DOMAIN s : s[i] = s[j] => i = j
  BY <1>2 DEF SetToSeq, IsInjective
<1>4. s \in Injection(1..n, T)
  BY <1>3, Fun_IsInj
<1> HIDE DEF n
<1>5. s \in Surjection(1..n, T)
  BY <1>1, <1>4, FS_Injection DEF n
<1>6. \A e \in T : \E i \in DOMAIN s : s[i] = e
  BY <1>5 DEF Surjection
<1> QED
  BY <1>1, <1>3, <1>6

-----------------------------------------------------------------------------
(* The channel: a point whose value has changed is announced, and stays     *)
(* announced until the subscriber reads it.                                 *)

Notified(p) == lagged \/ \E i \in DOMAIN changes : p \in changes[i]

LEMMA BroadcastLaw ==
  ASSUME AcqTypeOK, NEW batch \in SUBSET Points, Broadcast(batch), NEW p,
         Notified(p) \/ p \in batch
  PROVE  Notified(p)'
<1> DEFINE S == SUBSET Points
<1>1. changes \in Seq(S) /\ batch \in S
  BY DEF AcqTypeOK
<1> HIDE DEF S
<1>2. CASE batch = {}
  BY <1>2 DEF Broadcast, Notified, channel
<1>3. CASE batch # {} /\ Len(changes) < ChangeCap
  <2>1. changes' = Append(changes, batch) /\ lagged' = lagged
    BY <1>3 DEF Broadcast
  <2>2. /\ Len(changes) \in Nat /\ DOMAIN changes = 1..Len(changes)
        /\ DOMAIN changes' = 1..(Len(changes) + 1)
        /\ \A i \in 1..Len(changes) : changes'[i] = changes[i]
        /\ changes'[Len(changes) + 1] = batch
    BY <1>1, <2>1, AppendLaw
  <2>3. Len(changes) + 1 \in DOMAIN changes'
    BY <2>2
  <2>4. \A i \in DOMAIN changes : i \in DOMAIN changes' /\ changes'[i] = changes[i]
    BY <2>2
  <2> QED
    BY <2>1, <2>2, <2>3, <2>4 DEF Notified
<1>4. CASE batch # {} /\ ~(Len(changes) < ChangeCap)
  BY <1>4 DEF Broadcast, Notified
<1> QED
  BY <1>2, <1>3, <1>4

LEMMA ApplyNotifies ==
  ASSUME AcqTypeOK, NEW v, NEW q, DOMAIN v \subseteq Points, Apply(v, q), NEW p \in Points,
         Notified(p) \/ value'[p] # value[p]
  PROVE  Notified(p)'
<1>1. Changed(v) \in SUBSET Points /\ Broadcast(Changed(v))
  BY DEF Changed, Apply
<1>2. value'[p] # value[p] => p \in Changed(v)
  BY DEF Apply, Changed
<1> QED
  BY <1>1, <1>2, BroadcastLaw

LEMMA AcqNotifies ==
  ASSUME AcqTypeOK, AcqNext, NEW p \in Points, Notified(p) \/ value'[p] # value[p]
  PROVE  Notified(p)'
<1>1. ASSUME UNCHANGED <<value, channel>> PROVE Notified(p)'
  BY <1>1 DEF Notified, channel
<1>2. ASSUME ApplyAggregates PROVE Notified(p)'
  <2>1. CASE AggrBits = {}
    BY <1>1, <1>2, <2>1 DEF ApplyAggregates
  <2>2. CASE AggrBits # {}
    <3> DEFINE v == [b \in {Aggr} |-> AggrValue]
               q == [b \in {Aggr} |-> AggrQuality]
    <3>1. DOMAIN v \subseteq Points /\ Apply(v, q)
      BY <1>2, <2>2, ConstantsType DEF ApplyAggregates
    <3> HIDE DEF v, q
    <3> QED
      BY <3>1, ApplyNotifies
  <2> QED
    BY <2>1, <2>2
<1>3. ASSUME Deliver PROVE Notified(p)'
  <2> DEFINE q == [b \in DOMAIN pending |-> "ok"]
  <2>1. DOMAIN pending \subseteq Points /\ Apply(pending, q)
    BY <1>3, ConstantsType DEF Deliver, AcqTypeOK
  <2> HIDE DEF q
  <2> QED
    BY <2>1, ApplyNotifies
<1>4. ASSUME NEW g \in Groups, NEW r \in Readings(g), PollOk(g, r)
      PROVE  UNCHANGED <<value, channel>>
  BY <1>4 DEF PollOk, table
<1>5. ASSUME NEW g \in Groups, PollFail(g) PROVE UNCHANGED <<value, channel>>
  BY <1>5 DEF PollFail, MarkOffline, table
<1>6. Expire => UNCHANGED <<value, channel>>
  BY DEF Expire
<1>7. Online \/ Aggregate => ApplyAggregates
  BY DEF Online, Aggregate
<1> QED
  BY <1>1, <1>2, <1>3, <1>4, <1>5, <1>6, <1>7 DEF AcqNext, Sink

(* What the subscriber takes it reads: all of it after an overflow.         *)
LEMMA RecvLaw ==
  ASSUME AcqTypeOK, Recv, NEW p \in ClassC, Notified(p),
         p \notin (IF lagged THEN ClassC ELSE ClassC \cap Head(changes))
  PROVE  Notified(p)'
<1> DEFINE S == SUBSET Points
<1>1. ~lagged /\ changes # <<>> /\ changes' = Tail(changes) /\ changes \in Seq(S)
  BY DEF Recv, AcqTypeOK
<1> HIDE DEF S
<1>2. /\ Len(changes) \in Nat \ {0} /\ DOMAIN changes = 1..Len(changes)
      /\ DOMAIN changes' = 1..(Len(changes) - 1)
      /\ \A i \in 1..(Len(changes) - 1) : changes'[i] = changes[i + 1]
      /\ Head(changes) = changes[1]
  BY <1>1, TailLaw
<1>3. PICK i \in DOMAIN changes : p \in changes[i]
  BY <1>1 DEF Notified
<1>4. i # 1
  BY <1>1, <1>2, <1>3
<1>5. i - 1 \in DOMAIN changes' /\ changes'[i - 1] = changes[i]
  BY <1>2, <1>3, <1>4
<1> QED
  BY <1>3, <1>5 DEF Notified

(* build_items: one item for each fresh point, with its value.              *)
LEMMA ItemsLaw ==
  ASSUME AcqTypeOK, NEW S \in SUBSET ClassC, NEW s, s = ItemsOf(S)
  PROVE  /\ s \in Seq(Items) /\ Uniq(s)
         /\ \A p \in S : Fresh(p) => p \in Named(s)
         /\ \A p : Says(s, p, value[p])
<1> DEFINE F == {q \in S : Fresh(q)}
           T == {<<p, value[p]>> : p \in F}
<1>1. IsFiniteSet(F)
  <2>1. F \subseteq ClassC /\ IsFiniteSet(ClassC)
    BY ClassCAssumption
  <2> HIDE DEF F
  <2> QED
    BY <2>1, FS_Subset
<1>2. \A p \in F : p \in ClassC /\ value[p] \in Bit
  BY ClassCAssumption DEF AcqTypeOK, Values, Fresh
<1> HIDE DEF F
<1>3. IsFiniteSet(T)
  <2> DEFINE f == [p \in F |-> <<p, value[p]>>]
  <2>1. f \in Surjection(F, T)
    BY Fun_IsSurj
  <2> HIDE DEF f, T
  <2> QED
    BY <1>1, <2>1, FS_Surjection
<1>4. T \subseteq Items
  BY <1>2 DEF Items
<1>5. \A e \in T : e[1] \in F /\ e[2] = value[e[1]] /\ e = <<e[1], value[e[1]]>>
  OBVIOUS
<1>6. \A p \in F : <<p, value[p]>> \in T
  OBVIOUS
<1>7. s = SetToSeq(T)
  BY DEF ItemsOf, F
<1> HIDE DEF T
<1>8. /\ s \in Seq(T) /\ \A i \in DOMAIN s : s[i] \in T
      /\ \A i, j \in DOMAIN s : s[i] = s[j] => i = j
      /\ \A e \in T : \E i \in DOMAIN s : s[i] = e
  BY <1>3, <1>7, ListLaw
<1>9. s \in Seq(Items)
  BY <1>4, <1>8
<1>10. Uniq(s)
  BY <1>5, <1>8 DEF Uniq
<1>11. ASSUME NEW p \in F PROVE p \in Named(s)
  <2>1. PICK i \in DOMAIN s : s[i] = <<p, value[p]>>
    BY <1>6, <1>8
  <2>2. s[i][1] = p
    BY <2>1
  <2> QED
    BY <2>2 DEF Named
<1>12. \A p : Says(s, p, value[p])
  BY <1>5, <1>8 DEF Says
<1> QED
  BY <1>9, <1>10, <1>11, <1>12 DEF F

-----------------------------------------------------------------------------
(* The types of the uplink.                                                 *)

LEMMA QueueType ==
  ASSUME NEW s \in Seq(Items), s # <<>>, NEW q \in Seq(Items), Len(q) < QueueCap
  PROVE  /\ Head(s) \in Items /\ Head(s)[1] \in ClassC /\ Head(s)[2] \in Bit
         /\ Tail(s) \in Seq(Items)
         /\ Append(q, Head(s)) \in Seq(Items) /\ Len(Append(q, Head(s))) <= QueueCap
         /\ Appended(Items, q, Head(s), Append(q, Head(s)))
<1>1. Head(s) \in Items /\ Tail(s) \in Seq(Items)
  BY HeadTailProperties
<1>2. QueueCap \in Nat
  BY QueueCapAssumption
<1>3. /\ Append(q, Head(s)) \in Seq(Items) /\ Len(q) \in Nat
      /\ Len(Append(q, Head(s))) = Len(q) + 1
  BY <1>1, AppendProperties, LenProperties
<1>4. Len(Append(q, Head(s))) <= QueueCap
  BY <1>2, <1>3
<1>5. Head(s)[1] \in ClassC /\ Head(s)[2] \in Bit
  BY <1>1 DEF Items
<1> QED
  BY <1>1, <1>3, <1>4, <1>5 DEF Appended

LEMMA UplinkTypeInit == Init => TypeOK
<1> SUFFICES ASSUME Init PROVE TypeOK
  OBVIOUS
<1>1. AcqTypeOK
  BY AcqTypeInit DEF Init
<1>2. <<>> \in Seq(Items) /\ Len(<<>>) <= QueueCap
  BY QueueCapAssumption
<1>3. master \in [ClassC -> Values]
  BY DEF Init, Values
<1> QED
  BY <1>1, <1>2, <1>3 DEF Init, TypeOK

LEMMA UplinkTypeNext == TypeOK /\ [Next]_vars => TypeOK'
<1> SUFFICES ASSUME TypeOK, [Next]_vars PROVE TypeOK'
  OBVIOUS
<1>1. AcqTypeOK /\ AcqTypeOK'
  BY UplinkStep, AcqTypeNext DEF TypeOK
<1>2. /\ cos \in Seq(Items) /\ snap \in Seq(Items)
      /\ queue \in Seq(Items) /\ Len(queue) <= QueueCap
      /\ link \in {"down", "up", "started", "stopped"}
      /\ master \in [ClassC -> Values]
      /\ lapsed \subseteq ClassC /\ crossed \subseteq ClassC
  BY DEF TypeOK
<1>3. \A S \in SUBSET ClassC : ItemsOf(S) \in Seq(Items)
  BY <1>1, ItemsLaw
<1>4. Stale' \subseteq ClassC /\ <<>> \in Seq(Items) /\ Len(<<>>) <= QueueCap
  BY QueueCapAssumption DEF Stale
<1>5. lapsed' \subseteq ClassC
  BY <1>2, <1>4 DEF Next, Tracked, vars
<1> HIDE DEF Items
<1>6. ASSUME UNCHANGED <<uplink, crossed>> PROVE TypeOK'
  BY <1>1, <1>2, <1>5, <1>6 DEF TypeOK, uplink
<1>7. CASE CosRecv
  <2>1. cos' \in Seq(Items)
    BY <1>3, <1>4, <1>7 DEF CosRecv
  <2> QED
    BY <1>1, <1>2, <1>5, <1>7, <2>1 DEF CosRecv, TypeOK
<1>8. CASE CosSend
  <2>1. /\ Head(cos)[1] \in ClassC /\ Tail(cos) \in Seq(Items)
        /\ Append(queue, Head(cos)) \in Seq(Items) /\ Len(Append(queue, Head(cos))) <= QueueCap
    BY <1>2, <1>8, QueueType DEF CosSend
  <2>2. crossed' \subseteq ClassC
    BY <1>2, <1>8, <2>1 DEF CosSend
  <2> QED
    BY <1>1, <1>2, <1>5, <1>8, <2>1, <2>2 DEF CosSend, TypeOK
<1>9. CASE SnapSend
  <2>1. /\ Tail(snap) \in Seq(Items)
        /\ Append(queue, Head(snap)) \in Seq(Items) /\ Len(Append(queue, Head(snap))) <= QueueCap
    BY <1>2, <1>9, QueueType DEF SnapSend
  <2> QED
    BY <1>1, <1>2, <1>5, <1>9, <2>1 DEF SnapSend, TypeOK
<1>10. CASE Write
  <2>1. /\ Tail(queue) \in Seq(Items) /\ Len(Tail(queue)) <= QueueCap
        /\ Head(queue) \in Items
    <3>1. /\ Tail(queue) \in Seq(Items) /\ Head(queue) \in Items
          /\ Len(Tail(queue)) = Len(queue) - 1 /\ Len(queue) \in Nat /\ QueueCap \in Nat
      BY <1>2, <1>10, HeadTailProperties, LenProperties, QueueCapAssumption DEF Write
    <3> QED
      BY <1>2, <3>1
  <2>2. master' \in [ClassC -> Values]
    BY <1>2, <1>10, <2>1 DEF Write, Items, Values
  <2> QED
    BY <1>1, <1>2, <1>5, <1>10, <2>1, <2>2 DEF Write, TypeOK
<1>11. CASE Interrogate
  <2>1. \A p \in ClassC : value[p] \in Values
    BY <1>1, ClassCAssumption DEF AcqTypeOK
  <2>2. master' \in [ClassC -> Values]
    BY <1>2, <1>11, <2>1 DEF Interrogate
  <2> QED
    BY <1>1, <1>2, <1>5, <1>11, <2>2 DEF Interrogate, TypeOK
<1>12. CASE StartDt
  BY <1>1, <1>2, <1>3, <1>5, <1>12 DEF StartDt, TypeOK
<1>13. CASE Accept \/ StopDt
  BY <1>1, <1>2, <1>5, <1>13 DEF Accept, StopDt, TypeOK
<1>14. CASE Disconnect
  <2>1. master' \in [ClassC -> Values]
    BY <1>14 DEF Disconnect, Values
  <2> QED
    BY <1>1, <1>2, <1>4, <1>5, <1>14, <2>1 DEF Disconnect, TypeOK
<1>15. Acquire(AcqNext) \/ UNCHANGED vars => UNCHANGED <<uplink, crossed>>
  BY DEF Acquire, vars, uplink
<1> QED
  BY <1>6, <1>7, <1>8, <1>9, <1>10, <1>11, <1>12, <1>13, <1>14, <1>15 DEF Next, Tracked

(* The types of the whole chain, from the station to the master.            *)
THEOREM UplinkTypeCorrect == Spec => []TypeOK
BY UplinkTypeInit, UplinkTypeNext, PTL DEF Spec

-----------------------------------------------------------------------------
(* The master.  A point that is not announced stands with its present value *)
(* in the last place it is found, going from the batch under way over the   *)
(* snapshot and the queue to what the master has been told: the batch is    *)
(* read after whatever was announced, and the snapshot's item is queued     *)
(* before the batch's or the point counts as crossed.                       *)

Current(p) ==
  /\ Says(cos, p, value[p])
  /\ p \notin lapsed \cup crossed \cup Named(cos) =>
       IF p \in Named(snap) THEN Says(snap, p, value[p])
                            ELSE LastSays(queue, master, p, value[p])

UplinkInv ==
  /\ Uniq(cos) /\ Uniq(snap)
  /\ Stale \subseteq lapsed
  /\ link \in {"down", "up"} => ClassC \subseteq lapsed
  /\ \A p \in ClassC : Notified(p) \/ Current(p)

LEMMA UplinkInvInit == Init => UplinkInv
<1> SUFFICES ASSUME Init PROVE UplinkInv
  OBVIOUS
<1>1. cos = <<>> /\ snap = <<>> /\ lapsed = ClassC
  BY DEF Init
<1>2. \A p \in ClassC : Current(p)
  BY <1>1, EmptyNames DEF Current
<1>3. Stale \subseteq lapsed
  BY <1>1 DEF Stale
<1> QED
  BY <1>1, <1>2, <1>3, EmptyNames DEF UplinkInv

\* The parts of the invariant that are about one sequence or one history.
LEMMA UplinkOrder ==
  ASSUME TypeOK, UplinkInv, [Next]_vars
  PROVE  /\ Uniq(cos') /\ Uniq(snap')
         /\ Stale' \subseteq lapsed'
         /\ link' \in {"down", "up"} => ClassC \subseteq lapsed'
<1>1. AcqTypeOK /\ cos \in Seq(Items) /\ snap \in Seq(Items)
  BY DEF TypeOK
<1>2. \A S \in SUBSET ClassC : Uniq(ItemsOf(S))
  BY <1>1, ItemsLaw
<1>3. \A s \in Seq(Items) : s # <<>> /\ Uniq(s) => Uniq(Tail(s))
  <2> SUFFICES ASSUME NEW s \in Seq(Items), s # <<>>, Uniq(s) PROVE Uniq(Tail(s))
    OBVIOUS
  <2>1. Tailed(Items, s, Tail(s))
    BY DEF Tailed
  <2>2. Popped(s, Tail(s))
    BY <2>1, NamedTail, Zenon
  <2> QED
    BY <2>2 DEF Popped
<1>4. Uniq(cos) /\ Uniq(snap) /\ Uniq(<<>>)
  BY EmptyNames DEF UplinkInv
<1> HIDE DEF Uniq
<1>5. Uniq(cos')
  <2>1. CosRecv \/ CosSend \/ Disconnect \/ cos' = cos
    BY DEF Next, Tracked, Acquire, Accept, Write, SnapSend, StopDt, Interrogate, StartDt,
           uplink, vars
  <2>2. CASE CosRecv
    BY <1>2, <1>4, <2>2 DEF CosRecv
  <2>3. CASE CosSend
    BY <1>1, <1>3, <1>4, <2>3 DEF CosSend
  <2> QED
    BY <1>4, <2>1, <2>2, <2>3 DEF Disconnect
<1>6. Uniq(snap')
  <2>1. StartDt \/ SnapSend \/ Disconnect \/ snap' = snap
    BY DEF Next, Tracked, Acquire, Accept, Write, CosRecv, CosSend, StopDt, Interrogate,
           uplink, vars
  <2>2. CASE StartDt
    BY <1>2, <2>2 DEF StartDt
  <2>3. CASE SnapSend
    BY <1>1, <1>3, <1>4, <2>3 DEF SnapSend
  <2> QED
    BY <1>4, <2>1, <2>2, <2>3 DEF Disconnect
<1>7. Stale' \subseteq lapsed'
  <2>1. CASE UNCHANGED vars
    BY <2>1 DEF UplinkInv, Stale, Fresh, vars, acqVars, table
  <2>2. CASE Next
    BY <2>2 DEF Next, Tracked, Stale
  <2> QED
    BY <2>1, <2>2
<1>8. link' \in {"down", "up"} => ClassC \subseteq lapsed'
  <2>1. \/ Disconnect /\ lapsed' = ClassC
        \/ link' \in {"started", "stopped"}
        \/ lapsed \subseteq lapsed' /\ (link' = link \/ link = "down")
    BY DEF Next, Tracked, Acquire, CosRecv, CosSend, Accept, Write, SnapSend, StopDt,
           Interrogate, StartDt, uplink, vars
  <2> QED
    BY <2>1 DEF UplinkInv
<1> QED
  BY <1>5, <1>6, <1>7, <1>8

(* Nothing about p is on its way that was not, and what is said stays.      *)
LEMMA CurrentKept ==
  ASSUME NEW p, Current(p), UNCHANGED <<cos, snap>>, value'[p] = value[p],
         lapsed \subseteq lapsed', crossed \subseteq crossed',
         LastSays(queue, master, p, value[p]) => LastSays(queue', master', p, value[p])
  PROVE  Current(p)'
BY DEF Current

LEMMA CurrentStep ==
  ASSUME TypeOK, UplinkInv, [Next]_vars, NEW p \in ClassC
  PROVE  Notified(p)' \/ Current(p)'
<1>1. /\ AcqTypeOK /\ p \in Points
      /\ cos \in Seq(Items) /\ snap \in Seq(Items) /\ queue \in Seq(Items)
      /\ master \in [ClassC -> Values]
  BY ClassCAssumption DEF TypeOK
<1>2. Notified(p) \/ Current(p)
  BY DEF UplinkInv
<1>3. ASSUME UNCHANGED <<table, changes, lagged>>, Current(p) => Current(p)'
      PROVE  Notified(p)' \/ Current(p)'
  BY <1>2, <1>3 DEF Notified
<1>4. ASSUME Acquire(AcqNext), lapsed \subseteq lapsed' PROVE Notified(p)' \/ Current(p)'
  <2>1. CASE Notified(p) \/ value'[p] # value[p]
    BY <1>1, <1>4, <2>1, AcqNotifies DEF Acquire
  <2>2. CASE Current(p) /\ value'[p] = value[p]
    BY <1>4, <2>2, CurrentKept DEF Acquire, uplink
  <2> QED
    BY <1>2, <2>1, <2>2
<1>5. ASSUME CosRecv, lapsed' = lapsed \cup Stale' PROVE Notified(p)' \/ Current(p)'
  <2> DEFINE S == IF lagged THEN ClassC ELSE ClassC \cap Head(changes)
  <2>1. /\ cos = <<>> /\ Recv /\ UNCHANGED <<value, quality, active, snap, queue, master, crossed>>
        /\ cos' = IF link = "down" THEN <<>> ELSE ItemsOf(S)
    BY <1>5 DEF CosRecv, table
  <2>2. S \in SUBSET ClassC /\ (p \notin S /\ Notified(p) => Notified(p)')
    BY <1>1, <2>1, RecvLaw
  <2> HIDE DEF S
  <2>3. Says(cos', p, value[p])
    BY <1>1, <2>1, <2>2, ItemsLaw, EmptyNames
  <2>4. CASE Notified(p) /\ p \in S
    <3>1. ASSUME p \notin lapsed' PROVE p \in Named(cos')
      <4>1. Fresh(p) /\ link # "down"
        BY <1>5, <2>1, <3>1 DEF UplinkInv, Stale, Fresh
      <4> QED
        BY <1>1, <2>1, <2>2, <2>4, <4>1, ItemsLaw
    <3> QED
      BY <2>1, <2>3, <3>1 DEF Current
  <2>5. CASE Current(p)
    BY <1>5, <2>1, <2>3, <2>5, EmptyNames DEF Current
  <2> QED
    BY <1>2, <2>2, <2>4, <2>5
<1>6. ASSUME CosSend, lapsed' = lapsed \cup Stale' PROVE Notified(p)' \/ Current(p)'
  <2> DEFINE c == Head(cos)[1]
  <2>1. /\ cos # <<>> /\ cos' = Tail(cos) /\ queue' = Append(queue, Head(cos))
        /\ Len(queue) < QueueCap
        /\ crossed' = IF c \in Named(snap) THEN crossed \cup {c} ELSE crossed \ {c}
        /\ UNCHANGED <<table, changes, lagged, value, snap, master>>
    BY <1>6 DEF CosSend, acqVars, table, channel
  <2>2. /\ p \in Named(cos) <=> p \in Named(cos') \/ p = c
        /\ c \notin Named(cos')
        /\ Says(cos, p, value[p]) =>
             Says(cos', p, value[p]) /\ (p = c => Head(cos)[2] = value[p])
    <3>1. Tailed(Items, cos, cos')
      BY <1>1, <2>1 DEF Tailed
    <3>2. Popped(cos, cos')
      BY <3>1, NamedTail, Zenon
    <3>3. Uniq(cos)
      BY DEF UplinkInv
    <3> QED
      BY <3>2, <3>3 DEF Popped
  <2>3. Appended(Items, queue, Head(cos), queue')
    BY <1>1, <2>1, QueueType
  <2> HIDE DEF c
  <2> SUFFICES ASSUME Current(p) PROVE Current(p)'
    BY <1>3, <2>1
  <2>4. Says(cos', p, value'[p])
    BY <2>1, <2>2 DEF Current
  <2>5. CASE p = c
    <3>1. LastSays(queue', master', p, value[p])
      BY <2>1, <2>2, <2>3, <2>5, QueueLaw DEF Current, c
    <3> QED
      BY <2>1, <2>4, <2>5, <3>1 DEF Current
  <2>6. CASE p # c
    <3>1. LastSays(queue, master, p, value[p]) => LastSays(queue', master', p, value[p])
      BY <2>1, <2>3, <2>6, QueueLaw DEF c
    <3>2. p \in Named(cos) <=> p \in Named(cos')
      BY <2>2, <2>6
    <3>3. p \in crossed' <=> p \in crossed
      BY <2>1, <2>6
    <3> QED
      BY <1>6, <2>1, <2>4, <3>1, <3>2, <3>3 DEF Current
  <2> QED
    BY <2>5, <2>6
<1>7. ASSUME SnapSend, lapsed' = lapsed \cup Stale' PROVE Notified(p)' \/ Current(p)'
  <2> DEFINE c == Head(snap)[1]
  <2>1. /\ snap # <<>> /\ snap' = Tail(snap) /\ queue' = Append(queue, Head(snap))
        /\ Len(queue) < QueueCap
        /\ UNCHANGED <<table, changes, lagged, value, cos, master, crossed>>
    BY <1>7 DEF SnapSend, acqVars, table, channel
  <2>2. /\ p \in Named(snap) <=> p \in Named(snap') \/ p = c
        /\ c \notin Named(snap')
        /\ Says(snap, p, value[p]) =>
             Says(snap', p, value[p]) /\ (p = c => Head(snap)[2] = value[p])
    <3>1. Tailed(Items, snap, snap')
      BY <1>1, <2>1 DEF Tailed
    <3>2. Popped(snap, snap')
      BY <3>1, NamedTail, Zenon
    <3>3. Uniq(snap)
      BY DEF UplinkInv
    <3> QED
      BY <3>2, <3>3 DEF Popped
  <2>3. Appended(Items, queue, Head(snap), queue')
    BY <1>1, <2>1, QueueType
  <2> HIDE DEF c
  <2> SUFFICES ASSUME Current(p) PROVE Current(p)'
    BY <1>3, <2>1
  <2>4. p = c /\ Says(snap, p, value[p]) => LastSays(queue', master', p, value[p])
    BY <2>1, <2>2, <2>3, QueueLaw DEF c
  <2>5. p # c /\ LastSays(queue, master, p, value[p]) => LastSays(queue', master', p, value[p])
    BY <2>1, <2>3, QueueLaw DEF c
  <2> QED
    BY <1>7, <2>1, <2>2, <2>4, <2>5 DEF Current
<1>8. ASSUME Write, lapsed' = lapsed \cup Stale' PROVE Notified(p)' \/ Current(p)'
  <2>1. /\ queue # <<>> /\ queue' = Tail(queue)
        /\ master' = [master EXCEPT ![Head(queue)[1]] = Head(queue)[2]]
        /\ UNCHANGED <<table, changes, lagged, value, cos, snap, crossed>>
    BY <1>8 DEF Write, acqVars, table, channel
  <2>2. LastSays(queue, master, p, value[p]) => LastSays(queue', master', p, value[p])
    <3>1. Written(queue, queue', master, master')
      BY <1>1, <2>1 DEF Written, Tailed
    <3> QED
      BY <3>1, WriteLaw, Zenon
  <2> QED
    BY <1>3, <1>8, <2>1, <2>2, CurrentKept
<1>9. ASSUME Interrogate, lapsed' = lapsed \cup Stale' PROVE Notified(p)' \/ Current(p)'
  <2>1. UNCHANGED <<table, changes, lagged, value, cos, snap, queue, crossed>>
    BY <1>9 DEF Interrogate, acqVars, table, channel
  <2>2. master'[p] \in {value[p], master[p]}
    BY <1>9 DEF Interrogate
  <2>3. LastSays(queue, master, p, value[p]) => LastSays(queue', master', p, value[p])
    BY <2>1, <2>2 DEF LastSays
  <2> QED
    BY <1>3, <1>9, <2>1, <2>3, CurrentKept
<1>10. ASSUME StartDt, lapsed' = Stale' PROVE Notified(p)' \/ Current(p)'
  <2>1. /\ snap' = ItemsOf(ClassC)
        /\ UNCHANGED <<table, changes, lagged, value, cos, queue, master, crossed>>
        /\ UNCHANGED <<quality, active>>
    BY <1>10 DEF StartDt, acqVars, table, channel
  <2>2. Says(snap', p, value[p]) /\ (Fresh(p) => p \in Named(snap'))
    BY <1>1, <2>1, ItemsLaw
  <2>3. p \notin lapsed' => Fresh(p)
    BY <1>10, <2>1 DEF Stale, Fresh
  <2> SUFFICES ASSUME Current(p) PROVE Current(p)'
    BY <1>3, <2>1
  <2> QED
    BY <2>1, <2>2, <2>3 DEF Current
<1>11. ASSUME Accept \/ StopDt, lapsed' = lapsed \cup Stale'
       PROVE  Notified(p)' \/ Current(p)'
  <2>1. UNCHANGED <<table, changes, lagged, value, cos, snap, queue, master, crossed>>
    BY <1>11 DEF Accept, StopDt, acqVars, table, channel
  <2> QED
    BY <1>3, <1>11, <2>1, CurrentKept
<1>12. ASSUME Disconnect, lapsed' = ClassC PROVE Notified(p)' \/ Current(p)'
  <2>1. cos' = <<>>
    BY <1>12 DEF Disconnect
  <2> QED
    BY <1>12, <2>1, EmptyNames DEF Current
<1>13. ASSUME UNCHANGED vars PROVE Notified(p)' \/ Current(p)'
  <2>1. UNCHANGED <<table, changes, lagged, value, cos, snap, queue, master, lapsed, crossed>>
    BY <1>13 DEF vars, acqVars, uplink, table, channel
  <2> QED
    BY <1>3, <2>1, CurrentKept
<1> QED
  BY <1>4, <1>5, <1>6, <1>7, <1>8, <1>9, <1>10, <1>11, <1>12, <1>13 DEF Next, Tracked

LEMMA UplinkInvAlways == Spec => [](TypeOK /\ UplinkInv)
<1>1. TypeOK /\ UplinkInv /\ [Next]_vars => TypeOK' /\ UplinkInv'
  <2> SUFFICES ASSUME TypeOK, UplinkInv, [Next]_vars PROVE TypeOK' /\ UplinkInv'
    OBVIOUS
  <2>1. \A p \in ClassC : Notified(p)' \/ Current(p)'
    BY CurrentStep
  <2> QED
    BY <2>1, UplinkTypeNext, UplinkOrder DEF UplinkInv
<1> QED
  BY <1>1, UplinkTypeInit, UplinkInvInit, PTL DEF Spec

(* With nothing under way the master has the table's value of every point   *)
(* that has been fresh since the snapshot was read, unless an item of the   *)
(* snapshot was queued behind a newer one (uplink.rs: spawn_cos and         *)
(* publish_asdus; server.rs: on_connection_snapshot).                       *)
THEOREM MasterCurrentCorrect == Spec => []MasterCurrent
<1>1. UplinkInv => MasterCurrent
  <2> SUFFICES ASSUME UplinkInv, Quiet, NEW p \in ClassC \ (lapsed \cup crossed)
               PROVE  master[p] = value[p]
    BY DEF MasterCurrent
  <2>1. /\ changes = <<>> /\ ~lagged /\ cos = <<>> /\ snap = <<>> /\ queue = <<>>
    BY DEF Quiet
  <2>2. Current(p)
    BY <2>1 DEF UplinkInv, Notified
  <2> QED
    BY <2>1, <2>2, EmptyNames DEF Current, LastSays
<1> QED
  BY <1>1, UplinkInvAlways, PTL
=============================================================================
