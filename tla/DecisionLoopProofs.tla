------------------------- MODULE DecisionLoopProofs -------------------------
(* Theorems about the decision loop, for any targets, periods and limits.   *)
EXTENDS DecisionLoop, PcsProofs

(* The loop, the interlock's calls and what surrounds them are uses of the  *)
(* handle that module Pcs allows.                                           *)
LEMMA LoopHandleSteps == [Next]_vars => [PcsNext]_pcsVars
<1> SUFFICES ASSUME [Next]_vars
             PROVE  PcsNext \/ UNCHANGED pcsVars
  OBVIOUS
<1>0. Strategy \in Senders
  BY StrategyAssumption DEF StrategyAssumption
<1>1. CASE UNCHANGED vars
  BY <1>1 DEF vars
<1>2. CASE Suppress \/ Decide \/ Telemetry \/ Second \/ Trigger \/ Release
  BY <1>2 DEF Suppress, Decide, Telemetry, Second, Trigger, Release
<1>3. CASE Begin \/ Proceed
  BY <1>0, <1>3 DEF Begin, Proceed, PcsNext
<1>4. CASE PowerOk \/ PowerFails
  <2>1. Send(Strategy)
    BY <1>4 DEF PowerOk, PowerFails, Send
  <2> QED
    BY <1>0, <2>1 DEF PcsNext
<1>5. CASE Engage \/ Unlatch \/ Acknowledge \/ CallerGoesOn
  BY <1>5 DEF Engage, Unlatch, Acknowledge, CallerGoesOn, PcsNext, AnyCaller
<1>6. CASE StopDevice
  BY <1>6 DEF StopDevice, PcsNext
<1>7. CASE Around
  BY <1>7 DEF Around, Alone, PcsNext, Device
<1>8. CASE Trip
  BY <1>8 DEF Trip, PcsNext, Device
<1> QED
  BY <1>1, <1>2, <1>3, <1>4, <1>5, <1>6, <1>7, <1>8 DEF Next, Loop, Interlock

(* The decision loop uses the handle only as the handle allows. *)
THEOREM LoopUsesHandle == Spec => PcsSpec
<1>1. Init => PcsInit
  BY DEF Init
<1> QED
  BY <1>1, LoopHandleSteps, PTL DEF Spec, PcsSpec

(* So no retry of the loop, however it falls between a latch and its stop,  *)
(* starts a device that was stopped for safety.                             *)
THEOREM LoopKeepsPermit == Spec => KeepsPermit
  BY LoopUsesHandle, PermitKept, PTL

-----------------------------------------------------------------------------
(* Types.  `at` is known from the handle; what is left are the loop's own   *)
(* variables and that a send is under way exactly while the loop is busy.   *)

LEMMA StepsOutsideTheLoop ==
  ASSUME Telemetry \/ Second \/ Interlock \/ Around \/ Trip
  PROVE  /\ UNCHANGED <<at, lastSent, sp>>
         /\ stage' = stage \/ (stage = "asleep" /\ stage' = "due")
<1>1. CASE Telemetry \/ Second
  BY <1>1 DEF Telemetry, Second, pcsVars, loopVars
<1>2. CASE Interlock
  BY <1>2 DEF Interlock, Trigger, Engage, StopDevice, Unlatch, Release, Acknowledge, CallerGoesOn,
              EngageLatch, Stop, ReleaseLatch, AuthCheck, CallStep, VoidAuth, AuthReset, AuthGrant,
              pcsVars, loopVars
<1>3. CASE Around \/ Trip
  BY <1>3 DEF Around, Trip, Alone, CollectFail, DeviceObeys, DeviceTrips, loopVars
<1> QED
  BY <1>1, <1>2, <1>3

(* How a send moves: it starts out of "begin", and it ends in "idle".       *)
LEMMA StepsOfASend ==
  ASSUME PcsTypeOK
  PROVE  /\ SendBegin(Strategy) => at'[Strategy] = "wait"
         /\ Send(Strategy) => at[Strategy] # "idle"
         /\ WritePower(Strategy) => at'[Strategy] = "idle"
<1> USE StrategyAssumption DEF StrategyAssumption, PcsTypeOK
<1>1. SendBegin(Strategy) => at'[Strategy] = "wait"
  BY DEF SendBegin, Goto
<1>2. Send(Strategy) => at[Strategy] # "idle"
  BY DEF Send, Acquire, EnsureMode, EnsureStarted, ReadRunState, RecheckLatch, WriteStart,
         MarkStarted, WritePower
<1>3. WritePower(Strategy) => at'[Strategy] = "idle"
  BY DEF WritePower, Goto
<1> QED
  BY <1>1, <1>2, <1>3

BusyIffSending == (stage = "busy") <=> (at[Strategy] # "idle")

LEMMA BusyStep == PcsTypeOK /\ BusyIffSending /\ [Next]_vars => BusyIffSending'
<1> SUFFICES ASSUME PcsTypeOK, BusyIffSending, [Next]_vars
             PROVE  BusyIffSending'
  OBVIOUS
<1> USE DEF BusyIffSending
<1>1. CASE UNCHANGED vars
  BY <1>1 DEF vars, pcsVars, loopVars
<1>2. CASE Telemetry \/ Second \/ Interlock \/ Around \/ Trip
  BY <1>2, StepsOutsideTheLoop
<1>3. CASE Suppress \/ Decide
  BY <1>3 DEF Suppress, Decide, SendIfNew, pcsVars
<1>4. CASE Begin
  <2>1. CASE SendBegin(Strategy) /\ stage' = "busy"
    BY <2>1, StepsOfASend
  <2>2. CASE Fail /\ UNCHANGED pcsVars
    BY <1>4, <2>2 DEF Begin, Fail, pcsVars
  <2> QED
    BY <1>4, <2>1, <2>2 DEF Begin
<1>5. CASE Proceed
  <2>1. at[Strategy] # "idle"
    BY <1>5, StepsOfASend DEF Proceed
  <2>2. CASE at'[Strategy] = "idle"
    BY <1>5, <2>2 DEF Proceed, Fail
  <2>3. CASE at'[Strategy] # "idle"
    BY <1>5, <2>1, <2>3 DEF Proceed
  <2> QED
    BY <2>2, <2>3
<1>6. CASE PowerOk \/ PowerFails
  BY <1>6, StepsOfASend DEF PowerOk, PowerFails, Fail
<1> QED
  BY <1>1, <1>2, <1>3, <1>4, <1>5, <1>6 DEF Next, Loop

(* The loop's own variables. *)
OwnTypes ==
  /\ lock \in {"free", "trigger", "held", "release"}
  /\ wasLatched \in BOOLEAN
  /\ lastSent \in Commands \cup {"none"}
  /\ stage \in {"asleep", "due", "begin", "busy"}
  /\ lastCmd \in Commands /\ want \in Targets \cup {"refuse"}
  /\ age \in -1..Oldest /\ since \in 0..Period
  /\ sp \in Commands \cup {"mixed"}
  /\ surprised \in BOOLEAN

LEMMA BoundFacts == Oldest \in Nat /\ Oldest > 0 /\ Period \in Nat /\ Period > 0
BY TimeAssumption DEF TimeAssumption, Oldest

(* A command is cached before it is sent, so a loop that sends knows what.  *)
Underway == stage \in {"begin", "busy"} => lastSent # "none"

(* What is on the way stays cached until the send ends.                     *)
LEMMA SendSteps ==
  ASSUME PcsTypeOK, BusyIffSending, Underway,
         Begin \/ Proceed \/ PowerOk \/ PowerFails
  PROVE  /\ lastSent # "none"
         /\ \/ lastSent' = "none" /\ stage' = "asleep"
            \/ UNCHANGED <<lastSent, sp>> /\ stage' = "busy"
            \/ lastSent' = lastSent /\ sp' = lastSent /\ stage' = "asleep"
         /\ sp' \in {sp, "mixed", lastSent}
<1> USE DEF BusyIffSending, Underway
<1>1. CASE Begin
  BY <1>1 DEF Begin, Fail
<1>2. CASE Proceed
  <2>1. at[Strategy] # "idle"
    BY <1>2, StepsOfASend DEF Proceed
  <2> QED
    BY <1>2, <2>1 DEF Proceed, Fail, taiVars
<1>3. CASE PowerOk
  <2>1. at[Strategy] # "idle"
    BY <1>3, StepsOfASend DEF PowerOk, Send
  <2> QED
    BY <1>3, <2>1 DEF PowerOk
<1>4. CASE PowerFails
  <2>1. at[Strategy] # "idle"
    BY <1>4, StepsOfASend DEF PowerFails, Send
  <2> QED
    BY <1>4, <2>1 DEF PowerFails, Fail
<1> QED
  BY <1>1, <1>2, <1>3, <1>4

LEMMA UnderwayStep == PcsTypeOK /\ BusyIffSending /\ Underway /\ [Next]_vars => Underway'
<1> SUFFICES ASSUME PcsTypeOK, BusyIffSending, Underway, [Next]_vars
             PROVE  Underway'
  OBVIOUS
<1>1. CASE UNCHANGED vars
  BY <1>1 DEF vars, loopVars, Underway
<1>2. CASE Telemetry \/ Second \/ Interlock \/ Around \/ Trip
  BY <1>2, StepsOutsideTheLoop DEF Underway
<1>3. CASE Suppress
  BY <1>3 DEF Suppress, Underway
<1>4. CASE Decide
  <2>1. "none" \notin Commands
    BY TargetAssumption DEF TargetAssumption, Commands
  <2> QED
    BY <1>4, <2>1 DEF Decide, SendIfNew, Underway
<1>5. CASE Begin \/ Proceed \/ PowerOk \/ PowerFails
  BY <1>5, SendSteps DEF Underway
<1> QED
  BY <1>1, <1>2, <1>3, <1>4, <1>5 DEF Next, Loop

LEMMA OwnStep ==
  PcsTypeOK /\ BusyIffSending /\ Underway /\ OwnTypes /\ [Next]_vars => OwnTypes'
<1> SUFFICES ASSUME PcsTypeOK, BusyIffSending, Underway, OwnTypes, [Next]_vars
             PROVE  OwnTypes'
  OBVIOUS
<1> USE DEF OwnTypes
<1>1. CASE UNCHANGED vars
  BY <1>1 DEF vars, loopVars, taiVars
<1>2. CASE Suppress
  BY <1>2 DEF Suppress, taiVars
<1>3. CASE Decide
  <2>1. Cached \in Commands \cup {"none"}
    BY DEF Cached
  <2>2. CASE age = -1
    BY <1>3, <2>1, <2>2 DEF Decide
  <2>3. CASE age # -1
    <3>1. PICK cmd \in Commands : /\ Refuse(cmd) \/ Repeat(cmd) \/ Control(cmd)
                                  /\ SendIfNew(cmd, Cached)
      BY <1>3, <2>3 DEF Decide
    <3>2. lastSent' \in Commands \cup {"none"} /\ stage' \in {"asleep", "begin"}
      BY <2>1, <3>1 DEF SendIfNew
    <3>3. lastCmd' \in Commands
      BY <3>1 DEF Refuse, Repeat, Control, Commands
    <3>4. since' \in 0..Period
      BY <3>1, BoundFacts DEF Refuse, Repeat, Control
    <3> QED
      BY <1>3, <3>2, <3>3, <3>4 DEF Decide
  <2> QED
    BY <2>2, <2>3
<1>4. CASE Begin \/ Proceed \/ PowerOk \/ PowerFails
  <2>1. /\ lastSent' \in Commands \cup {"none"}
        /\ sp' \in Commands \cup {"mixed"}
        /\ stage' \in {"asleep", "busy"}
    BY <1>4, SendSteps
  <2>2. surprised' \in BOOLEAN /\ UNCHANGED <<lock, wasLatched, taiVars>>
    BY <1>4 DEF Begin, Proceed, PowerOk, PowerFails
  <2> QED
    BY <2>1, <2>2 DEF taiVars
<1>5. CASE Telemetry
  BY <1>5, BoundFacts DEF Telemetry, Least, loopVars
<1>6. CASE Second
  BY <1>6, BoundFacts DEF Second, Least
<1>7. CASE Interlock
  BY <1>7 DEF Interlock, Trigger, Engage, StopDevice, Unlatch, Release, Acknowledge, CallerGoesOn,
              loopVars, taiVars
<1>8. CASE Around \/ Trip
  BY <1>8 DEF Around, Trip, Alone, loopVars, taiVars
<1> QED
  BY <1>1, <1>2, <1>3, <1>4, <1>5, <1>6, <1>7, <1>8 DEF Next, Loop

-----------------------------------------------------------------------------
(* The resend cache.                                                        *)

LEMMA CacheStep ==
  PcsTypeOK /\ BusyIffSending /\ Underway /\ CacheTruthful /\ [Next]_vars => CacheTruthful'
<1> SUFFICES ASSUME PcsTypeOK, BusyIffSending, Underway, CacheTruthful, [Next]_vars
             PROVE  CacheTruthful'
  OBVIOUS
<1>1. CASE UNCHANGED vars
  BY <1>1 DEF vars, loopVars, CacheTruthful
<1>2. CASE Telemetry \/ Second \/ Interlock \/ Around \/ Trip
  BY <1>2, StepsOutsideTheLoop DEF CacheTruthful
<1>3. CASE Suppress
  BY <1>3 DEF Suppress, CacheTruthful
<1>4. CASE Decide
  BY <1>4 DEF Decide, SendIfNew, Cached, CacheTruthful
<1>5. CASE Begin \/ Proceed \/ PowerOk \/ PowerFails
  BY <1>5, SendSteps DEF CacheTruthful
<1> QED
  BY <1>1, <1>2, <1>3, <1>4, <1>5 DEF Next, Loop

(* The inductive invariant: CacheTruthful says nothing of a send under way, *)
(* so the end of a send needs to know that the loop is busy and with what.  *)
LoopInv == OwnTypes /\ BusyIffSending /\ Underway /\ CacheTruthful

LEMMA LoopInvInit == Init => LoopInv
<1> SUFFICES ASSUME Init
             PROVE  LoopInv
  OBVIOUS
<1>1. at[Strategy] = "idle"
  BY StrategyAssumption DEF StrategyAssumption, Init, PcsInit, HandleInit
<1>2. -1 \in -1..Oldest /\ Period \in 0..Period
  BY BoundFacts
<1>3. age \in -1..Oldest /\ since \in 0..Period
  BY <1>2 DEF Init
<1>4. OwnTypes
  BY <1>3 DEF Init, OwnTypes, Commands
<1> QED
  BY <1>1, <1>4 DEF Init, LoopInv, BusyIffSending, Underway, CacheTruthful

THEOREM LoopInvariant == Spec => [](PcsTypeOK /\ LoopInv)
<1>1. Spec => []PcsTypeOK
  BY LoopUsesHandle, PcsTypeCorrect, PTL
<1>2. PcsTypeOK /\ LoopInv /\ [Next]_vars => LoopInv'
  BY OwnStep, BusyStep, UnderwayStep, CacheStep DEF LoopInv
<1> QED
  BY <1>1, <1>2, LoopInvInit, PTL DEF Spec

(* Every variable keeps its type, and the loop is busy exactly while its    *)
(* sequence is under way in the handle.                                     *)
THEOREM LoopTypeCorrect == Spec => []TypeOK
<1>1. PcsTypeOK /\ LoopInv => TypeOK
  BY DEF LoopInv, OwnTypes, BusyIffSending, TypeOK
<1> QED
  BY <1>1, LoopInvariant, PTL

(* The resend cache never claims what the device does not hold, however     *)
(* latches, failed polls, lost replies and acknowledgements fall.           *)
THEOREM CacheCorrect == Spec => []CacheTruthful
<1>1. LoopInv => CacheTruthful
  BY DEF LoopInv
<1> QED
  BY <1>1, LoopInvariant, PTL
=============================================================================
