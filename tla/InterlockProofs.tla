-------------------------- MODULE InterlockProofs --------------------------
(* Theorems about the interlock, for any inputs, senders, times and crashes.*)
EXTENDS Interlock, PcsProofs

(* The steps in which the runner or the operator calls the handle.          *)
LEMMA HandleSteps == [Next]_vars => [PcsNext]_pcsVars
<1> SUFFICES ASSUME [Next]_vars
             PROVE  PcsNext \/ UNCHANGED pcsVars
  OBVIOUS
<1>0. "runner" \in Callers /\ "operator" \in Callers
  BY CallersAssumption DEF CallersAssumption
<1>1. CASE UNCHANGED vars
  BY <1>1 DEF vars
<1>2. CASE Runner
  <2>1. CASE RestoreFromDb \/ SyncRecord \/ Sample \/ Tick \/ TriggerRecord \/ AutoRecord
             \/ MarkAttempt \/ Maintain \/ StopTimedOut
    BY <2>1 DEF RestoreFromDb, SyncRecord, Sample, Tick, TriggerRecord, AutoRecord,
                MarkAttempt, Maintain, StopTimedOut
  <2>2. CASE RestoreHandle \/ SyncFailsafe \/ TriggerHandle \/ AutoHandle
    BY <1>0, <2>2 DEF RestoreHandle, SyncFailsafe, TriggerHandle, AutoHandle, PcsNext, AnyCaller
  <2>3. CASE StopOnce
    BY <2>3 DEF StopOnce, StopWith, PcsNext
  <2> QED
    BY <1>2, <2>1, <2>2, <2>3 DEF Runner
<1>3. CASE ReleaseCheck \/ AckCheck
  BY <1>3 DEF ReleaseCheck, AckCheck
<1>4. CASE Release
  <2>1. CASE ReleaseHandle \/ ReleaseUndo
    BY <1>0, <2>1 DEF ReleaseHandle, ReleaseUndo, PcsNext, AnyCaller
  <2>2. CASE ReleaseClear \/ ReleaseReset \/ ReleaseRecord
    BY <2>2 DEF ReleaseClear, ReleaseReset, ReleaseRecord
  <2> QED
    BY <1>4, <2>1, <2>2 DEF Release
<1>5. CASE AckAuthorize
  BY <1>0, <1>5 DEF AckAuthorize, PcsNext, AnyCaller
<1>6. ASSUME NEW s \in Senders, Admit(s) \/ Dispatch(s)
      PROVE  PcsNext \/ UNCHANGED pcsVars
  BY <1>6 DEF Admit, Dispatch, PcsNext
<1>7. CASE PcsAlone
  BY <1>7 DEF PcsAlone, Alone, PcsNext, AnyCaller
<1>8. ASSUME NEW s \in Sources, Press(s) \/ Unpress(s)
      PROVE  UNCHANGED pcsVars
  BY <1>8 DEF Press, Unpress
<1>9. CASE Time
  BY <1>9 DEF Time
<1>10. CASE Crash
  BY <1>10 DEF Crash, PcsNext
<1> QED
  BY <1>1, <1>2, <1>3, <1>4, <1>5, <1>6, <1>7, <1>8, <1>9, <1>10 DEF Next

(* The interlock uses the handle only as the handle allows. *)
THEOREM UsesHandle == Spec => PcsSpec
<1>1. Init => PcsInit
  BY DEF Init
<1> QED
  BY <1>1, HandleSteps, PTL DEF Spec, PcsSpec

(* So what the handle promises holds in the whole system: a stop under the  *)
(* latch is final ...                                                       *)
THEOREM SystemHalts == Spec => []HaltHolds
  BY UsesHandle, HaltCorrect, PTL

(* ... the whole permit is kept ...                                         *)
THEOREM SystemKeepsPermit == Spec => KeepsPermit
  BY UsesHandle, PermitKept, PTL

(* ... and power is written in its own mode, lost replies and all, unless a *)
(* mode write went through unacknowledged and nothing has made good for it. *)
THEOREM SystemInMode == Spec => []PowerInMode
  BY UsesHandle, ModeCorrect, PTL

-----------------------------------------------------------------------------
(* StopFailedImpliesLatched is inductive: every writer of the mark either   *)
(* writes the latch with it or looks at the latch in the same step.         *)

LEMMA StopFailedStep ==
  StopFailedImpliesLatched /\ [Next]_vars => StopFailedImpliesLatched'
<1> SUFFICES ASSUME StopFailedImpliesLatched, [Next]_vars
             PROVE  StopFailedImpliesLatched'
  OBVIOUS
<1> USE DEF StopFailedImpliesLatched
<1>1. CASE UNCHANGED vars
  BY <1>1 DEF vars, ilkVars, machine
<1>2. CASE Runner
  <2>1. CASE RestoreHandle \/ SyncFailsafe \/ SyncRecord \/ Sample \/ TriggerHandle
             \/ TriggerRecord \/ AutoHandle \/ AutoRecord \/ StopOnce
    BY <2>1 DEF RestoreHandle, SyncFailsafe, SyncRecord, Sample, TriggerHandle, TriggerRecord,
                AutoHandle, AutoRecord, StopOnce, StopWith, machine
  <2>2. CASE RestoreFromDb
    <3>1. \/ latched' = TRUE
          \/ UNCHANGED <<latched, stopFailed>>
      BY <2>2 DEF RestoreFromDb
    <3> QED
      BY <3>1
  <2>3. CASE Tick
    <3>1. \/ stopFailed' = FALSE
          \/ UNCHANGED <<latched, stopFailed>>
      BY <2>3 DEF Tick, TickTrigger, TickAutoRelease, TickHold
    <3> QED
      BY <3>1
  <2>4. CASE MarkAttempt \/ StopTimedOut
    BY <2>4 DEF MarkAttempt, StopTimedOut, MarkStopFailed
  <2>5. CASE Maintain
    BY <2>5 DEF Maintain
  <2> QED
    BY <1>2, <2>1, <2>2, <2>3, <2>4, <2>5 DEF Runner
<1>3. CASE ReleaseCheck \/ AckCheck \/ AckAuthorize
  BY <1>3 DEF ReleaseCheck, AckCheck, AckAuthorize, machine
<1>4. CASE Release
  BY <1>4 DEF Release, ReleaseHandle, ReleaseClear, ReleaseUndo, ReleaseReset, ReleaseRecord,
              machine
<1>5. ASSUME NEW s \in Senders, Admit(s) \/ Dispatch(s)
      PROVE  StopFailedImpliesLatched'
  BY <1>5 DEF Admit, Dispatch, machine
<1>6. CASE PcsAlone
  BY <1>6 DEF PcsAlone, Alone, ilkVars, machine
<1>7. ASSUME NEW s \in Sources, Press(s) \/ Unpress(s)
      PROVE  StopFailedImpliesLatched'
  BY <1>7 DEF Press, Unpress, machine
<1>8. CASE Time \/ Crash
  BY <1>8 DEF Time, Crash, Reborn
<1> QED
  BY <1>1, <1>2, <1>3, <1>4, <1>5, <1>6, <1>7, <1>8 DEF Next

(* No stop is marked as failed without a latch to clear the mark with. *)
THEOREM StopFailedCorrect == Spec => []StopFailedImpliesLatched
<1>1. Init => StopFailedImpliesLatched
  BY DEF Init, StopFailedImpliesLatched
<1> QED
  BY <1>1, StopFailedStep, PTL DEF Spec

-----------------------------------------------------------------------------
(* Armed is inductive as well: the only frames that leave edges behind are  *)
(* those that latch or stay latched.                                        *)

LEMMA ArmedStep == Armed /\ [Next]_vars => Armed'
<1> SUFFICES ASSUME Armed, [Next]_vars
             PROVE  Armed'
  OBVIOUS
<1> USE DEF Armed
<1>1. CASE UNCHANGED vars
  BY <1>1 DEF vars, ilkVars, machine
<1>2. CASE Runner
  <2>1. CASE RestoreHandle \/ SyncFailsafe \/ SyncRecord \/ Sample \/ TriggerHandle
             \/ TriggerRecord \/ AutoHandle \/ AutoRecord \/ StopOnce
    BY <2>1 DEF RestoreHandle, SyncFailsafe, SyncRecord, Sample, TriggerHandle, TriggerRecord,
                AutoHandle, AutoRecord, StopOnce, StopWith, machine
  <2>2. CASE RestoreFromDb
    BY <2>2 DEF RestoreFromDb
  <2>3. CASE Tick
    BY <2>3 DEF Tick, TickTrigger, TickAutoRelease, TickHold, NewSources
  <2>4. CASE MarkAttempt \/ StopTimedOut
    BY <2>4 DEF MarkAttempt, StopTimedOut
  <2>5. CASE Maintain
    BY <2>5 DEF Maintain
  <2> QED
    BY <1>2, <2>1, <2>2, <2>3, <2>4, <2>5 DEF Runner
<1>3. CASE ReleaseCheck \/ AckCheck \/ AckAuthorize
  BY <1>3 DEF ReleaseCheck, AckCheck, AckAuthorize, OperatorAt, machine
<1>4. CASE Release
  BY <1>4 DEF Release, ReleaseHandle, ReleaseClear, ReleaseUndo, ReleaseReset, ReleaseRecord,
              OperatorAt, machine
<1>5. ASSUME NEW s \in Senders, Admit(s) \/ Dispatch(s)
      PROVE  Armed'
  BY <1>5 DEF Admit, Dispatch, machine
<1>6. CASE PcsAlone
  BY <1>6 DEF PcsAlone, Alone, ilkVars, machine
<1>7. ASSUME NEW s \in Sources, Press(s) \/ Unpress(s)
      PROVE  Armed'
  BY <1>7 DEF Press, Unpress, machine
<1>8. CASE Time \/ Crash
  BY <1>8 DEF Time, Crash, Reborn
<1> QED
  BY <1>1, <1>2, <1>3, <1>4, <1>5, <1>6, <1>7, <1>8 DEF Next

(* A controller that is not latched hears every source. *)
THEOREM ArmedCorrect == Spec => []Armed
<1>1. Init => Armed
  BY DEF Init, Armed
<1> QED
  BY <1>1, ArmedStep, PTL DEF Spec

-----------------------------------------------------------------------------
(* Types.                                                                   *)

LEMMA TypeInit == Init => TypeOK
<1> SUFFICES ASSUME Init
             PROVE  TypeOK
  OBVIOUS
<1>1. PcsTypeOK
  BY PcsTypeInit DEF Init
<1>2. count \in [Sources -> 0..Debounce]
  BY InputsAssumption DEF Init, InputsAssumption
<1>3. crashes \in 0..MaxCrashes
  BY OptionsAssumption DEF Init, OptionsAssumption
<1>4. broken \subseteq raw /\ raw \subseteq Sources
  BY DEF Init
<1> QED
  BY <1>1, <1>2, <1>3, <1>4 DEF Init, TypeOK, RunnerSteps, Boot, OpSteps

LEMMA TypeStep == TypeOK /\ [Next]_vars => TypeOK'
<1> SUFFICES ASSUME TypeOK, [Next]_vars
             PROVE  TypeOK'
  OBVIOUS
<1>0. PcsTypeOK'
  BY HandleSteps, PcsTypeStep DEF TypeOK
<1> USE <1>0 DEF TypeOK, RunnerSteps, Boot, OpSteps
<1>1. CASE UNCHANGED vars
  BY <1>1 DEF vars, ilkVars, inputs, machine
<1>2. CASE Runner
  <2>1. CASE RestoreFromDb
    <3>1. /\ latched' \in BOOLEAN /\ stopFailed' \in BOOLEAN
          /\ safeAge' \in {Unset} \cup 0..Hold /\ pc' \in RunnerSteps
      BY <2>1 DEF RestoreFromDb
    <3>2. \/ safeAge' = Unset
          \/ UNCHANGED <<safeAge, latched>>
      BY <2>1 DEF RestoreFromDb
    <3>3. safeAge' # Unset => latched' /\ prev' = {}
      BY <2>1, <3>2 DEF RestoreFromDb
    <3> QED
      BY <2>1, <3>1, <3>3 DEF RestoreFromDb, inputs
  <2>2. CASE RestoreHandle \/ TriggerHandle \/ AutoHandle
    BY <2>2 DEF RestoreHandle, TriggerHandle, AutoHandle, inputs, machine
  <2>3. CASE SyncFailsafe
    BY <2>3 DEF SyncFailsafe, inputs, machine
  <2>4. CASE SyncRecord \/ TriggerRecord \/ AutoRecord
    BY <2>4 DEF SyncRecord, TriggerRecord, AutoRecord, Record, inputs, machine
  <2>5. CASE Sample
    <3>1. count' \in [Sources -> 0..Debounce]
      BY <2>5, InputsAssumption DEF Sample, InputsAssumption
    <3>2. tripped' \subseteq Sources
      BY <2>5 DEF Sample
    <3> QED
      BY <2>5, <3>1, <3>2 DEF Sample, machine
  <2>6. CASE Tick
    <3>1. Hold \in Nat /\ 0 \in 0..Hold
      BY TimesAssumption DEF TimesAssumption
    <3>2. MarkedAge \in 0..Hold
      BY <3>1 DEF MarkedAge
    <3>3. /\ latched' \in BOOLEAN /\ stopFailed' \in BOOLEAN
          /\ safeAge' \in {Unset} \cup 0..Hold /\ pc' \in RunnerSteps
      BY <2>6, <3>2 DEF Tick, TickTrigger, TickAutoRelease, TickHold, MarkAfter
    <3>4. \/ safeAge' = Unset
          \/ latched /\ latched' = latched /\ tripped = {}
      BY <2>6 DEF Tick, TickTrigger, TickAutoRelease, TickHold, MarkAfter
    <3>5. safeAge' # Unset => latched' /\ prev' = {}
      BY <2>6, <3>4 DEF Tick
    <3> QED
      BY <2>6, <3>3, <3>5 DEF Tick, inputs
  <2>7. CASE StopOnce
    <3>1. PICK o \in Outcomes : StopWith(o)
      BY <2>7 DEF StopOnce
    <3>2. pc \in {"stop_trig", "stop_maint"}
      BY <3>1 DEF StopWith, RunnerAt
    <3>3. AfterStop[pc] \in {"maint", "sample"}
      BY <3>2 DEF AfterStop
    <3>4. attemptAge' \in {Unset} \cup 0..Confirm /\ pc' \in RunnerSteps
      BY <3>1, <3>2, <3>3, TimesAssumption DEF StopWith, TimesAssumption
    <3> QED
      BY <3>1, <3>4 DEF StopWith, inputs, machine
  <2>8. CASE MarkAttempt
    <3>1. pc \in {"mark_trig", "mark_maint"}
      BY <2>8 DEF MarkAttempt, RunnerAt
    <3>2. AfterStop[pc] \in {"maint", "sample"}
      BY <3>1 DEF AfterStop
    <3>3. 0 \in 0..Confirm
      BY TimesAssumption DEF TimesAssumption
    <3> QED
      BY <2>8, <3>2, <3>3 DEF MarkAttempt, MarkStopFailed, inputs
  <2>9. CASE Maintain
    BY <2>9 DEF Maintain, inputs
  <2>10. CASE StopTimedOut
    BY <2>10 DEF StopTimedOut, MarkStopFailed, inputs
  <2> QED
    BY <1>2, <2>1, <2>2, <2>3, <2>4, <2>5, <2>6, <2>7, <2>8, <2>9, <2>10 DEF Runner
<1>3. CASE ReleaseCheck \/ AckCheck \/ AckAuthorize
  BY <1>3 DEF ReleaseCheck, AckCheck, AckAuthorize, inputs, machine
<1>4. CASE Release
  <2>1. CASE ReleaseHandle \/ ReleaseUndo
    BY <2>1 DEF ReleaseHandle, ReleaseUndo, inputs, machine
  <2>2. CASE ReleaseClear
    BY <2>2 DEF ReleaseClear, inputs
  <2>3. CASE ReleaseReset
    BY <2>3 DEF ReleaseReset, inputs
  <2>4. CASE ReleaseRecord
    BY <2>4 DEF ReleaseRecord, Record, inputs, machine
  <2> QED
    BY <1>4, <2>1, <2>2, <2>3, <2>4 DEF Release
<1>5. ASSUME NEW s \in Senders, Admit(s) \/ Dispatch(s)
      PROVE  TypeOK'
  BY <1>5 DEF Admit, Dispatch, inputs, machine
<1>6. CASE PcsAlone
  BY <1>6 DEF PcsAlone, Alone, ilkVars, inputs, machine
<1>7. ASSUME NEW s \in Sources, Press(s) \/ Unpress(s)
      PROVE  TypeOK'
  BY <1>7 DEF Press, Unpress, machine
<1>8. CASE Time
  <2>1. Hold \in Nat /\ Confirm \in Nat
    BY TimesAssumption DEF TimesAssumption
  <2>2. ASSUME NEW n \in Nat, NEW age \in {Unset} \cup 0..n
        PROVE  Older(age, n) \in {Unset} \cup 0..n
    BY DEF Older, Unset
  <2>3. /\ safeAge' \in {Unset} \cup 0..Hold /\ attemptAge' \in {Unset} \cup 0..Confirm
        /\ safeAge' # Unset => safeAge # Unset
    BY <1>8, <2>1, <2>2 DEF Time, Older
  <2> QED
    BY <1>8, <2>3 DEF Time, inputs
<1>9. CASE Crash
  <2>1. count' \in [Sources -> 0..Debounce]
    BY <1>9, InputsAssumption DEF Crash, Reborn, InputsAssumption
  <2>2. crashes' \in 0..MaxCrashes
    BY <1>9, OptionsAssumption DEF Crash, OptionsAssumption
  <2>3. broken' \subseteq raw' /\ raw' \subseteq Sources
    BY <1>9, InputsAssumption DEF Crash, Reborn, InputsAssumption
  <2> QED
    BY <1>9, <2>1, <2>2, <2>3 DEF Crash, Reborn
<1> QED
  BY <1>1, <1>2, <1>3, <1>4, <1>5, <1>6, <1>7, <1>8, <1>9 DEF Next

(* Every variable of the system keeps its type. *)
THEOREM TypeCorrect == Spec => []TypeOK
  BY TypeInit, TypeStep, PTL DEF Spec

-----------------------------------------------------------------------------
(* The two latches.  With a hold and without automatic release, a release   *)
(* excludes the runner's own two writes of the latches: it starts only on a *)
(* safe mark as old as the hold, and while those writes are pending there   *)
(* is no mark; once it has started the controller stays latched, so that no *)
(* new trigger and no new pair of writes can begin.                         *)

Pending   == {"restore", "restore_set", "restore_clear", "sync", "trig"}
Releasing == {"release", "clear", "undo"}

Unmarked == pc \in Pending => safeAge = Unset
Excluded == op \in Releasing => latched /\ pc \notin Pending
Booting  ==
  /\ pc = "restore" \/ pc = "restore_clear" => latched = preset
  /\ pc = "restore_set" => latched
  /\ pc = "sync" => IF preset THEN latched ELSE latch = latched
Triggering == pc = "trig" => latched
Undoing    == op \in {"clear", "undo"} => ~latch
AgreeInv ==
  TypeOK /\ pc # "auto" /\ Unmarked /\ Excluded /\ Booting /\ Triggering /\ Undoing
  /\ LatchesAgree

LEMMA AgreeInit == Init => AgreeInv
  BY TypeInit
     DEF Init, AgreeInv, Unmarked, Excluded, Booting, Triggering, Undoing, LatchesAgree,
         Pending, Releasing, RunnerSettled, OperatorSettled

LEMMA AgreeStep == ~AutoRelease /\ Hold > 0 /\ AgreeInv /\ [Next]_vars => AgreeInv'
<1> DEFINE Goal == /\ pc # "auto" /\ Unmarked /\ Excluded /\ Booting /\ Triggering
                   /\ Undoing /\ LatchesAgree
<1> SUFFICES ASSUME ~AutoRelease, Hold > 0, AgreeInv, [Next]_vars
             PROVE  Goal'
  BY TypeStep DEF AgreeInv
<1>0. /\ latch \in BOOLEAN /\ latched \in BOOLEAN /\ preset \in BOOLEAN
      /\ Hold \in Nat /\ Hold # Unset
  BY TimesAssumption DEF TimesAssumption, AgreeInv, TypeOK, PcsTypeOK, Unset
<1> USE <1>0 DEF AgreeInv, Unmarked, Excluded, Booting, Triggering, Undoing, LatchesAgree,
                 Pending, Releasing, RunnerSettled, OperatorSettled
<1>1. CASE UNCHANGED vars
  BY <1>1 DEF vars, pcsVars, handle, modes, ilkVars, machine
<1>2. CASE Runner
  <2>1. CASE RestoreFromDb
    BY <2>1 DEF RestoreFromDb, RunnerAt, pcsVars, handle, modes
  <2>2. CASE RestoreHandle
    BY <2>2 DEF RestoreHandle, RunnerAt, EngageLatch, ReleaseLatch, machine
  <2>3. CASE SyncFailsafe
    BY <2>3 DEF SyncFailsafe, RunnerAt, EngageLatch, pcsVars, handle, modes, machine
  <2>4. CASE SyncRecord \/ TriggerRecord
    BY <2>4 DEF SyncRecord, TriggerRecord, RunnerAt, pcsVars, handle, modes, machine
  <2>5. CASE Sample
    BY <2>5 DEF Sample, RunnerAt, pcsVars, handle, modes, machine
  <2>6. CASE Tick
    <3>1. latch' = latch /\ op' = op /\ preset' = preset /\ pc = "tick"
      BY <2>6 DEF Tick, RunnerAt, pcsVars, handle, modes
    <3>2. CASE TickTrigger
      \* a release in progress would have kept the controller latched
      BY <3>1, <3>2 DEF TickTrigger
    <3>3. CASE TickAutoRelease
      BY <3>3 DEF TickAutoRelease, MayAutoRelease
    <3>4. CASE TickHold
      BY <3>1, <3>4 DEF TickHold, MarkAfter
    <3> QED
      BY <2>6, <3>2, <3>3, <3>4 DEF Tick
  <2>7. CASE TriggerHandle
    BY <2>7 DEF TriggerHandle, RunnerAt, EngageLatch, machine
  <2>8. CASE AutoHandle \/ AutoRecord
    <3>1. CASE AutoHandle
      BY <3>1 DEF AutoHandle, RunnerAt
    <3>2. CASE AutoRecord
      BY <3>2 DEF AutoRecord, RunnerAt, pcsVars, handle, modes, machine
    <3> QED
      BY <2>8, <3>1, <3>2
  <2>9. CASE StopOnce
    <3>1. PICK o \in Outcomes : StopWith(o)
      BY <2>9 DEF StopOnce
    <3>2. pc \in {"stop_trig", "stop_maint"}
      BY <3>1 DEF StopWith, RunnerAt
    <3>3. AfterStop[pc] \in {"maint", "sample"}
      BY <3>2 DEF AfterStop
    <3>4. pc' \in {"maint", "sample", "mark_trig", "mark_maint"}
      BY <3>1, <3>3 DEF StopWith
    <3> QED
      BY <3>1, <3>2, <3>4 DEF StopWith, Stop, machine
  <2>10. CASE MarkAttempt
    <3>1. pc \in {"mark_trig", "mark_maint"}
      BY <2>10 DEF MarkAttempt, RunnerAt
    <3>2. pc' \in {"maint", "sample"}
      BY <2>10, <3>1 DEF MarkAttempt, AfterStop
    <3> QED
      BY <2>10, <3>1, <3>2 DEF MarkAttempt, pcsVars, handle, modes
  <2>11. CASE Maintain \/ StopTimedOut
    BY <2>11 DEF Maintain, StopTimedOut, RunnerAt, pcsVars, handle, modes
  <2> QED
    BY <1>2, <2>1, <2>2, <2>3, <2>4, <2>5, <2>6, <2>7, <2>8, <2>9, <2>10, <2>11 DEF Runner
<1>3. CASE ReleaseCheck
  BY <1>3 DEF ReleaseCheck, Boot, OperatorAt, pcsVars, handle, modes, machine
<1>4. CASE Release
  <2>1. CASE ReleaseHandle
    BY <2>1 DEF ReleaseHandle, OperatorAt, ReleaseLatch, machine
  <2>2. CASE ReleaseClear
    BY <2>2 DEF ReleaseClear, OperatorAt, pcsVars, handle, modes
  <2>3. CASE ReleaseUndo
    BY <2>3 DEF ReleaseUndo, OperatorAt, EngageLatch, machine
  <2>4. CASE ReleaseReset \/ ReleaseRecord
    BY <2>4 DEF ReleaseReset, ReleaseRecord, OperatorAt, pcsVars, handle, modes, machine
  <2> QED
    BY <1>4, <2>1, <2>2, <2>3, <2>4 DEF Release
<1>5. CASE AckCheck \/ AckAuthorize
  BY <1>5 DEF AckCheck, AckAuthorize, OperatorAt, AuthCheck, pcsVars, handle, modes, machine
<1>6. ASSUME NEW s \in Senders, Admit(s) \/ Dispatch(s)
      PROVE  Goal'
  BY <1>6 DEF Admit, Dispatch, SendBegin, pcsVars, handle, modes, machine
<1>7. CASE PcsAlone
  <2>1. UNCHANGED ilkVars
    BY <1>7 DEF PcsAlone, Alone
  <2>2. latch' = latch
    BY <1>7 DEF PcsAlone, Alone, Send, Acquire, EnsureMode, EnsureStarted, ReadRunState,
                RecheckLatch, WriteStart, MarkStarted, WritePower, CallStep, VoidAuth,
                AuthReset, AuthGrant, CollectOk, CollectFail, BackOnline, ForgetDevice,
                ForgetCaches, Device,
                DeviceObeys, DeviceTrips, LinkDown, LinkUp, DeviceResets, handle, modes
  <2> QED
    BY <2>1, <2>2 DEF ilkVars, machine
<1>8. ASSUME NEW s \in Sources, Press(s) \/ Unpress(s)
      PROVE  Goal'
  BY <1>8 DEF Press, Unpress, pcsVars, handle, modes, machine
<1>9. CASE Time
  BY <1>9 DEF Time, Older, pcsVars, handle, modes
<1>10. CASE Crash
  BY <1>10 DEF Crash, Reborn, HandleRestart
<1> QED
  BY <1>1, <1>2, <1>3, <1>4, <1>5, <1>6, <1>7, <1>8, <1>9, <1>10 DEF Next

(* With a hold and manual release the controller and the handle never split:*)
(* outside the two writes of one task their latches are the same.           *)
THEOREM LatchesAgreeCorrect == ~AutoRelease /\ Hold > 0 => (Spec => []LatchesAgree)
<1> SUFFICES ASSUME ~AutoRelease, Hold > 0
             PROVE  Spec => []LatchesAgree
  OBVIOUS
<1>1. AgreeInv /\ [Next]_vars => AgreeInv'
  BY AgreeStep
<1>2. AgreeInv => LatchesAgree
  BY DEF AgreeInv
<1> QED
  BY AgreeInit, <1>1, <1>2, PTL DEF Spec

=============================================================================
