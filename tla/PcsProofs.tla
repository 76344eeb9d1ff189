----------------------------- MODULE PcsProofs -----------------------------
(* The handle keeps the permit, for any number of senders and callers, any  *)
(* BadLimit, and whether or not replies are lost.                           *)
EXTENDS Pcs, TLAPS

(* PcsTypeOK is inductive on its own. *)
LEMMA PcsTypeStep == PcsTypeOK /\ [PcsNext]_pcsVars => PcsTypeOK'
<1> SUFFICES ASSUME PcsTypeOK, [PcsNext]_pcsVars
             PROVE  PcsTypeOK'
  OBVIOUS
<1> USE SendersAssumption, LimitAssumption DEF SendersAssumption, LimitAssumption
<1>1. CASE UNCHANGED pcsVars
  BY <1>1 DEF PcsTypeOK, pcsVars, handle, modes, poll, devVars
<1>2. ASSUME NEW s \in Senders, SendBegin(s) \/ Send(s)
      PROVE  PcsTypeOK'
  <2>1. CASE SendBegin(s) \/ Acquire(s) \/ EnsureStarted(s) \/ RecheckLatch(s) \/ WritePower(s)
    BY <2>1 DEF PcsTypeOK, SendBegin, Acquire, EnsureStarted, RecheckLatch, WritePower,
                Goto, Critical, handle, modes, poll, devVars
  <2>2. CASE EnsureMode(s)
    <3>1. dev' \in [run : RunStates, order : {"none", "start", "stop"}, mode : Modes]
      BY <2>2 DEF PcsTypeOK, EnsureMode
    <3>2. strayed' \in BOOLEAN /\ mode' \in Modes \cup {"unknown"}
      BY <2>2 DEF PcsTypeOK, EnsureMode, modes
    <3>3. at' \in [Senders -> {"idle", "wait"} \cup Critical]
      BY <2>2 DEF PcsTypeOK, EnsureMode, Goto, Critical
    <3> QED
      BY <2>2, <3>1, <3>2, <3>3 DEF PcsTypeOK, EnsureMode, poll
  <2>3. CASE ReadRunState(s)
    BY <2>3 DEF PcsTypeOK, ReadRunState, Goto, Critical, modes, poll, devVars
  <2>4. CASE WriteStart(s)
    BY <2>4 DEF PcsTypeOK, WriteStart, Goto, Critical, handle, modes, poll
  <2>5. CASE MarkStarted(s)
    BY <2>5 DEF PcsTypeOK, MarkStarted, Goto, Critical, modes, poll, devVars
  <2> QED
    BY <1>2, <2>1, <2>2, <2>3, <2>4, <2>5 DEF Send
<1>3. ASSUME NEW c \in Callers, AnyCaller(c)
      PROVE  PcsTypeOK'
  <2>1. latch' \in BOOLEAN /\ auth' \in BOOLEAN /\ started' \in BOOLEAN /\ halted' \in BOOLEAN
    BY <1>3 DEF PcsTypeOK, AnyCaller, CallStep, EngageLatch, ReleaseLatch, AuthCheck,
                VoidAuth, AuthReset, AuthGrant, handle
  <2>2. call' \in [Callers -> {"idle", "void", "reset", "grant"}]
    BY <1>3 DEF PcsTypeOK, AnyCaller, CallStep, EngageLatch, ReleaseLatch, AuthCheck,
                VoidAuth, AuthReset, AuthGrant
  <2>3. UNCHANGED <<modes, poll, at, devVars>>
    BY <1>3 DEF AnyCaller, CallStep, EngageLatch, ReleaseLatch, AuthCheck,
                VoidAuth, AuthReset, AuthGrant, handle
  <2> QED
    BY <2>1, <2>2, <2>3 DEF PcsTypeOK, modes, poll, devVars
<1>4. ASSUME NEW o \in Outcomes, Stop(o)
      PROVE  PcsTypeOK'
  BY <1>4 DEF PcsTypeOK, Stop, poll
<1>5. CASE CollectOk
  BY <1>5 DEF PcsTypeOK, CollectOk, BackOnline, Readings, RunStates, handle, modes, devVars
<1>6. CASE CollectFail
  <2>1. bad \in 0..BadLimit /\ BadLimit \in Nat
    BY DEF PcsTypeOK
  <2>2. bad' = IF bad < BadLimit THEN bad + 1 ELSE bad
    BY <1>6 DEF CollectFail, NextBad
  <2>3. bad' \in 0..BadLimit
    BY <2>1, <2>2
  <2>4. connected' \in BOOLEAN /\ started' \in BOOLEAN /\ strayed' \in BOOLEAN
    BY <1>6 DEF PcsTypeOK, CollectFail, ForgetDevice, ForgetCaches, modes
  <2>5. connected' => bad' < BadLimit /\ link' # "lost"
    <3>1. CASE bad' = BadLimit
      BY <1>6, <3>1 DEF CollectFail, ForgetDevice
    <3>2. CASE bad' # BadLimit
      <4>1. bad' < BadLimit
        BY <2>1, <2>3, <3>2
      <4>2. connected' = connected /\ link' = link
        BY <1>6, <3>2 DEF CollectFail
      <4> QED
        BY <4>1, <4>2 DEF PcsTypeOK
    <3> QED
      BY <3>1, <3>2
  <2>6. mode' \in Modes \cup {"unknown"} /\ link' \in {"up", "down", "lost"}
    BY <1>6 DEF PcsTypeOK, CollectFail, NextBad, ForgetDevice, ForgetCaches, modes
  <2> QED
    BY <1>6, <2>3, <2>4, <2>5, <2>6 DEF PcsTypeOK, CollectFail
<1>7. CASE Device
  <2>1. CASE DeviceObeys \/ DeviceTrips
    <3>1. dev' \in [run : RunStates, order : {"none", "start", "stop"}, mode : Modes]
      BY <2>1 DEF PcsTypeOK, DeviceObeys, DeviceTrips, RunStates
    <3> QED
      BY <2>1, <3>1 DEF PcsTypeOK, DeviceObeys, DeviceTrips, handle, modes, poll
  <2>2. CASE LinkDown \/ LinkUp
    BY <2>2 DEF PcsTypeOK, LinkDown, LinkUp, handle, modes, poll
  <2>3. CASE DeviceResets
    BY <2>3 DEF PcsTypeOK, DeviceResets, RunStates, handle, modes, poll
  <2> QED
    BY <1>7, <2>1, <2>2, <2>3 DEF Device
<1>8. CASE HandleRestart
  <2>1. bad' \in 0..BadLimit /\ link' \in {"up", "down", "lost"}
    BY <1>8 DEF PcsTypeOK, HandleRestart
  <2>2. /\ at' \in [Senders -> {"idle", "wait"} \cup Critical]
        /\ call' \in [Callers -> {"idle", "void", "reset", "grant"}]
    BY <1>8 DEF HandleRestart
  <2> QED
    BY <1>8, <2>1, <2>2 DEF PcsTypeOK, HandleRestart
<1> QED
  BY <1>1, <1>2, <1>3, <1>4, <1>5, <1>6, <1>7, <1>8 DEF PcsNext

LEMMA PcsTypeInit == PcsInit => PcsTypeOK
<1> SUFFICES ASSUME PcsInit
             PROVE  PcsTypeOK
  OBVIOUS
<1>1. bad \in 0..BadLimit
  BY LimitAssumption DEF PcsInit, HandleInit, LimitAssumption
<1>2. dev \in [run : RunStates, order : {"none", "start", "stop"}, mode : Modes]
  BY DEF PcsInit, DeviceInit
<1>3. /\ at \in [Senders -> {"idle", "wait"} \cup Critical]
      /\ call \in [Callers -> {"idle", "void", "reset", "grant"}]
  BY DEF PcsInit, HandleInit
<1> QED
  BY <1>1, <1>2, <1>3 DEF PcsInit, HandleInit, DeviceInit, PcsTypeOK

(* Every variable of the handle and its device keeps its type. *)
THEOREM PcsTypeCorrect == PcsSpec => []PcsTypeOK
  BY PcsTypeInit, PcsTypeStep, PTL DEF PcsSpec

-----------------------------------------------------------------------------
(* What makes the permit inductive: under a halt nobody is about to write   *)
(* 500=1.  A stop finds the line free, so no sender has passed its last     *)
(* look at the latch; afterwards that look finds the latch set.             *)

NobodyStarts == halted => latch /\ \A s \in Senders : at[s] # "start"

PermitInv == PcsTypeOK /\ HaltHolds /\ NobodyStarts

LEMMA PermitInvInit == PcsInit => PermitInv
  BY PcsTypeInit DEF PermitInv, PcsInit, HandleInit, HaltHolds, NobodyStarts, Permit!HaltIsFinal

LEMMA PermitInvStep == PermitInv /\ [PcsNext]_pcsVars => PermitInv'
<1> SUFFICES ASSUME PermitInv, [PcsNext]_pcsVars
             PROVE  HaltHolds' /\ NobodyStarts'
  BY PcsTypeStep DEF PermitInv
<1> USE DEF PermitInv, PcsTypeOK, HaltHolds, Permit!HaltIsFinal, NobodyStarts
<1>1. CASE UNCHANGED pcsVars
  BY <1>1 DEF pcsVars, handle, modes, devVars
<1>2. ASSUME NEW s \in Senders, SendBegin(s) \/ Send(s)
      PROVE  HaltHolds' /\ NobodyStarts'
  <2>1. CASE SendBegin(s) \/ Acquire(s) \/ EnsureStarted(s) \/ RecheckLatch(s) \/ WritePower(s)
    BY <2>1 DEF SendBegin, Acquire, EnsureStarted, RecheckLatch, WritePower, Goto,
                handle, modes, devVars
  <2>2. CASE EnsureMode(s)
    BY <2>2 DEF EnsureMode, Goto
  <2>3. CASE ReadRunState(s)
    BY <2>3 DEF ReadRunState, Goto, modes, devVars
  <2>4. CASE WriteStart(s)
    \* the sender is at "start", so the device is not halted
    BY <1>2, <2>4 DEF WriteStart, Goto, handle, modes
  <2>5. CASE MarkStarted(s)
    BY <2>5 DEF MarkStarted, Goto, modes, devVars
  <2> QED
    BY <1>2, <2>1, <2>2, <2>3, <2>4, <2>5 DEF Send
<1>3. ASSUME NEW c \in Callers, AnyCaller(c)
      PROVE  HaltHolds' /\ NobodyStarts'
  BY <1>3 DEF AnyCaller, CallStep, EngageLatch, ReleaseLatch, AuthCheck,
              VoidAuth, AuthReset, AuthGrant, handle, modes, devVars
<1>4. ASSUME NEW o \in Outcomes, Stop(o)
      PROVE  HaltHolds' /\ NobodyStarts'
  BY <1>4 DEF Stop, BusFree, Critical
<1>5. CASE CollectOk \/ CollectFail
  BY <1>5 DEF CollectOk, CollectFail, ForgetDevice, ForgetCaches, BackOnline, handle, modes, devVars
<1>6. CASE Device
  <2>1. CASE DeviceObeys
    BY <2>1 DEF DeviceObeys, handle, modes
  <2>2. CASE DeviceTrips
    BY <2>2 DEF DeviceTrips, handle, modes
  <2>3. CASE LinkDown \/ LinkUp
    BY <2>3 DEF LinkDown, LinkUp, handle, modes
  <2>4. CASE DeviceResets
    BY <2>4 DEF DeviceResets, handle, modes
  <2> QED
    BY <1>6, <2>1, <2>2, <2>3, <2>4 DEF Device
<1>7. CASE HandleRestart
  BY <1>7 DEF HandleRestart
<1> QED
  BY <1>1, <1>2, <1>3, <1>4, <1>5, <1>6, <1>7 DEF PcsNext

(* A stop that took effect under the latch is final: no sequence that was   *)
(* in flight when the latch was set can start the device again.             *)
THEOREM HaltCorrect == PcsSpec => []HaltHolds
<1>1. PcsSpec => []PermitInv
  BY PermitInvInit, PermitInvStep, PTL DEF PcsSpec
<1> QED
  BY <1>1, PTL DEF PermitInv

(* Each step of the handle is a step of the permit, or none. *)
LEMMA PermitStep ==
  PermitInv /\ [PcsNext]_pcsVars => [Permit!PermitNext]_<<latch, halted, dev.order, dev.run>>
<1> SUFFICES ASSUME PermitInv, [PcsNext]_pcsVars
             PROVE  Permit!PermitNext \/ UNCHANGED <<latch, halted, dev.order, dev.run>>
  OBVIOUS
<1> USE DEF PermitInv, PcsTypeOK, Permit!PermitNext
<1>1. CASE UNCHANGED pcsVars
  BY <1>1 DEF pcsVars, handle, modes, devVars
<1>2. ASSUME NEW s \in Senders, SendBegin(s) \/ Send(s)
      PROVE  Permit!PermitNext \/ UNCHANGED <<latch, halted, dev.order, dev.run>>
  <2>1. CASE SendBegin(s) \/ Acquire(s) \/ EnsureStarted(s) \/ RecheckLatch(s) \/ WritePower(s)
    BY <2>1 DEF SendBegin, Acquire, EnsureStarted, RecheckLatch, WritePower, handle, modes, devVars
  <2>2. CASE EnsureMode(s)
    BY <2>2 DEF EnsureMode
  <2>3. CASE ReadRunState(s)
    BY <2>3 DEF ReadRunState, modes, devVars
  <2>4. CASE WriteStart(s)
    BY <1>2, <2>4 DEF WriteStart, handle, modes, NobodyStarts, Permit!OrderStart
  <2>5. CASE MarkStarted(s)
    BY <2>5 DEF MarkStarted, modes, devVars
  <2> QED
    BY <1>2, <2>1, <2>2, <2>3, <2>4, <2>5 DEF Send
<1>3. ASSUME NEW c \in Callers, AnyCaller(c)
      PROVE  Permit!PermitNext \/ UNCHANGED <<latch, halted, dev.order, dev.run>>
  BY <1>3 DEF AnyCaller, CallStep, EngageLatch, ReleaseLatch, AuthCheck, VoidAuth, AuthReset,
              AuthGrant, handle, modes, devVars, Permit!Engage, Permit!Disengage
<1>4. ASSUME NEW o \in Outcomes, Stop(o)
      PROVE  Permit!PermitNext \/ UNCHANGED <<latch, halted, dev.order, dev.run>>
  BY <1>4 DEF Stop, Permit!OrderStop
<1>5. CASE CollectOk \/ CollectFail
  BY <1>5 DEF CollectOk, CollectFail, ForgetDevice, ForgetCaches, BackOnline, handle, modes, devVars
<1>6. CASE Device
  <2>1. CASE DeviceObeys
    BY <2>1 DEF DeviceObeys, handle, modes, Permit!CarryOut
  <2>2. CASE DeviceTrips
    BY <2>2 DEF DeviceTrips, handle, modes, Permit!FallsStopped
  <2>3. CASE LinkDown \/ LinkUp
    BY <2>3 DEF LinkDown, LinkUp, handle, modes
  <2>4. CASE DeviceResets
    BY <2>4 DEF DeviceResets, handle, modes, Permit!FallsStopped
  <2> QED
    BY <1>6, <2>1, <2>2, <2>3, <2>4 DEF Device
<1>7. CASE HandleRestart
  BY <1>7 DEF HandleRestart, Permit!Disengage
<1> QED
  BY <1>1, <1>2, <1>3, <1>4, <1>5, <1>6, <1>7 DEF PcsNext

(* The handle implements the permit. *)
THEOREM PermitKept == PcsSpec => KeepsPermit
<1>1. PcsInit => Permit!PermitInit
  BY DEF PcsInit, HandleInit, DeviceInit, RunStates, Permit!PermitInit
<1>2. PcsSpec => []PermitInv
  BY PermitInvInit, PermitInvStep, PTL DEF PcsSpec
<1> QED
  BY <1>1, <1>2, PermitStep, PTL
     DEF PcsSpec, KeepsPermit, Permit!PermitSpec, Permit!permitVars

-----------------------------------------------------------------------------
(* Power in the right mode.  The cached mode is the device's own until a    *)
(* mode write is carried out whose reply is lost.  Else only a power cycle   *)
(* could part them, and that needs a link the collector has declared lost - *)
(* which empties the cache, with no sequence on the line.                   *)

AfterMode == {"ensure", "read", "recheck", "start", "mark", "power"}

OneOnTheLine == \A s, t \in Senders : at[s] \in Critical /\ at[t] \in Critical => s = t
LostIsEmpty  == link = "lost" => mode = "unknown" /\ \A s \in Senders : at[s] \notin AfterMode
CacheIsTrue  == mode # "unknown" /\ ~strayed => dev.mode = mode
InMode       == \A s \in Senders : at[s] \in AfterMode /\ ~strayed => dev.mode = ModeOf[s]

ModeInv == PcsTypeOK /\ OneOnTheLine /\ LostIsEmpty /\ CacheIsTrue /\ InMode

LEMMA ModeInvInit == PcsInit => ModeInv
<1> SUFFICES ASSUME PcsInit
             PROVE  OneOnTheLine /\ LostIsEmpty /\ CacheIsTrue /\ InMode
  BY PcsTypeInit DEF ModeInv
<1> QED
  BY DEF PcsInit, HandleInit, DeviceInit, OneOnTheLine, LostIsEmpty, CacheIsTrue, InMode,
         Critical, AfterMode

LEMMA ModeInvStep == ModeInv /\ [PcsNext]_pcsVars => ModeInv'
<1> SUFFICES ASSUME ModeInv, [PcsNext]_pcsVars
             PROVE  OneOnTheLine' /\ LostIsEmpty' /\ CacheIsTrue' /\ InMode'
  BY PcsTypeStep DEF ModeInv
<1>0. /\ "unknown" \notin Modes /\ ModeOf \in [Senders -> Modes]
      /\ at \in [Senders -> {"idle", "wait"} \cup Critical]
      /\ dev \in [run : RunStates, order : {"none", "start", "stop"}, mode : Modes]
  BY SendersAssumption DEF SendersAssumption, ModeInv, PcsTypeOK
<1> USE DEF ModeInv, OneOnTheLine, LostIsEmpty, CacheIsTrue, InMode, Critical, AfterMode
<1>1. CASE UNCHANGED pcsVars
  BY <1>1 DEF pcsVars, handle, modes, devVars
<1>2. ASSUME NEW s \in Senders, SendBegin(s) \/ Send(s)
      PROVE  OneOnTheLine' /\ LostIsEmpty' /\ CacheIsTrue' /\ InMode'
  <2>1. CASE SendBegin(s) \/ EnsureStarted(s) \/ RecheckLatch(s) \/ WritePower(s)
    BY <1>0, <2>1
    DEF SendBegin, EnsureStarted, RecheckLatch, WritePower, Goto, handle, modes, devVars
  <2>2. CASE Acquire(s)
    \* the line was free
    BY <1>0, <2>2 DEF Acquire, BusFree, Goto, handle, modes, devVars
  <2>3. CASE EnsureMode(s)
    \* either the cache is right, or this sender, alone on the line, sets both
    <3>1. \A t \in Senders : t # s => at[t] \notin AfterMode
      BY <2>3 DEF EnsureMode
    <3>2. CASE mode = ModeOf[s] /\ Goto(s, "ensure") /\ UNCHANGED <<modes, dev, link>>
      BY <1>0, <2>3, <3>1, <3>2 DEF EnsureMode, Goto, modes
    <3>3. CASE \E o \in Outcomes :
                 /\ dev' = IF Executed(o) THEN [dev EXCEPT !.mode = ModeOf[s]] ELSE dev
                 /\ mode' = IF o = "ok" THEN ModeOf[s] ELSE mode
                 /\ strayed' = (o # "ok" /\ (strayed \/ (o = "lost" /\ mode # "unknown")))
                 /\ Goto(s, IF o = "ok" THEN "ensure" ELSE "idle")
                 /\ UNCHANGED link
      <4>1. PICK o \in Outcomes :
              /\ dev' = IF Executed(o) THEN [dev EXCEPT !.mode = ModeOf[s]] ELSE dev
              /\ mode' = IF o = "ok" THEN ModeOf[s] ELSE mode
              /\ strayed' = (o # "ok" /\ (strayed \/ (o = "lost" /\ mode # "unknown")))
              /\ Goto(s, IF o = "ok" THEN "ensure" ELSE "idle")
              /\ UNCHANGED link
        BY <3>3
      <4>2. CASE o = "ok"
        <5>1. link = "up"
          BY <4>2 DEF Outcomes
        <5>2. dev'.mode = ModeOf[s] /\ mode' = ModeOf[s] /\ Goto(s, "ensure")
          BY <1>0, <4>1, <4>2 DEF Executed
        <5> QED
          BY <1>0, <2>3, <3>1, <4>1, <5>1, <5>2 DEF EnsureMode, Goto
      <4>3. CASE o = "failed"
        BY <1>0, <3>1, <4>1, <4>3 DEF Executed, Goto
      <4>4. CASE o = "lost"
        \* carried out: either the cache was empty, and stays so, or it has strayed
        BY <1>0, <2>3, <3>1, <4>1, <4>4 DEF Executed, Goto, EnsureMode
      <4> QED
        BY <4>2, <4>3, <4>4 DEF Outcomes
    <3> QED
      BY <2>3, <3>2, <3>3 DEF EnsureMode
  <2>4. CASE ReadRunState(s)
    BY <1>0, <2>4 DEF ReadRunState, Goto, modes, devVars
  <2>5. CASE WriteStart(s)
    <3>1. dev'.mode = dev.mode
      BY <1>0, <2>5 DEF WriteStart
    <3> QED
      BY <1>0, <2>5, <3>1 DEF WriteStart, Goto, handle, modes
  <2>6. CASE MarkStarted(s)
    BY <1>0, <2>6 DEF MarkStarted, Goto, modes, devVars
  <2> QED
    BY <1>2, <2>1, <2>2, <2>3, <2>4, <2>5, <2>6 DEF Send
<1>3. ASSUME NEW c \in Callers, AnyCaller(c)
      PROVE  OneOnTheLine' /\ LostIsEmpty' /\ CacheIsTrue' /\ InMode'
  BY <1>3 DEF AnyCaller, CallStep, EngageLatch, ReleaseLatch, AuthCheck,
              VoidAuth, AuthReset, AuthGrant, handle, modes, devVars
<1>4. ASSUME NEW o \in Outcomes, Stop(o)
      PROVE  OneOnTheLine' /\ LostIsEmpty' /\ CacheIsTrue' /\ InMode'
  <2>1. dev'.mode = dev.mode
    BY <1>0, <1>4 DEF Stop
  <2>2. \A s \in Senders : at[s] \notin Critical
    BY <1>4 DEF Stop, BusFree
  <2> QED
    BY <1>4, <2>1, <2>2 DEF Stop
<1>5. CASE CollectOk
  BY <1>5 DEF CollectOk, BackOnline, handle, modes, devVars
<1>6. CASE CollectFail
  <2>1. \A s \in Senders : at[s] \notin Critical
    BY <1>6 DEF CollectFail, BusFree
  <2> QED
    BY <1>6, <2>1 DEF CollectFail, ForgetDevice, ForgetCaches, modes
<1>7. CASE Device
  <2>1. CASE DeviceObeys \/ DeviceTrips
    <3>1. dev'.mode = dev.mode
      BY <1>0, <2>1 DEF DeviceObeys, DeviceTrips
    <3> QED
      BY <2>1, <3>1 DEF DeviceObeys, DeviceTrips, handle, modes
  <2>2. CASE LinkDown \/ LinkUp
    BY <2>2 DEF LinkDown, LinkUp, handle, modes
  <2>3. CASE DeviceResets
    BY <2>3 DEF DeviceResets, handle, modes
  <2> QED
    BY <1>7, <2>1, <2>2, <2>3 DEF Device
<1>8. CASE HandleRestart
  BY <1>8 DEF HandleRestart
<1> QED
  BY <1>1, <1>2, <1>3, <1>4, <1>5, <1>6, <1>7, <1>8 DEF PcsNext

(* With lost replies and outages, power is only ever written in the mode of *)
(* the command it belongs to, unless the device has strayed from the cache.  *)
THEOREM ModeCorrect == PcsSpec => []PowerInMode
<1>1. ModeInv => PowerInMode
  BY DEF ModeInv, InMode, AfterMode, ModeEnsured, PowerInMode
<1> QED
  BY ModeInvInit, ModeInvStep, <1>1, PTL DEF PcsSpec

=============================================================================
