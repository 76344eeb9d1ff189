----------------------------- MODULE Interlock -----------------------------
(***************************************************************************)
(* The safety interlock of mupcd: `InterlockController` and `StateMachine`  *)
(* in crates/mupc-core-bin/src/interlock.rs, driving the PCS handle of      *)
(* module Pcs, with the event table it restores its latch from.             *)
(*                                                                         *)
(* Two tasks run the controller and do not exclude each other.  The RUNNER  *)
(* (restore_from_db, then run_loop: one tick_frame after another) samples   *)
(* the inputs, debounces them, steps the state machine and carries out its  *)
(* verdict.  The OPERATOR (request_release and ack_m1 of the control        *)
(* channel; one at a time, by op_in_flight) releases the latch or           *)
(* authorises a restart.  `pc` and `op` say where each one is between two   *)
(* points at which the other may run.  The latch exists twice: `latched`    *)
(* here, and `latch` in the handle.                                         *)
(*                                                                         *)
(* Abstractions: time is two saturating ages, of the "all sources reset"    *)
(* mark and of the last stop attempt; a read failure of an input is an      *)
(* active level; lamps, door events and alert texts are left out.           *)
(***************************************************************************)
EXTENDS Pcs, Integers

CONSTANTS
  Sources,      \* the pcs_stop inputs: emergency stop, flood, fire
  Fragile,      \* those whose GPIO may fail to open when the process starts
  Debounce,     \* frames an input must be active before it counts
  AutoRelease,  \* io.auto_release
  Hold,         \* io.release_hold_secs, in time units
  Confirm,      \* io.stop_confirm_ms, in time units
  DbFails,      \* may event inserts and the boot query fail?
  MaxCrashes    \* bound on the crashes of one behaviour

ASSUME InputsAssumption ==
  /\ Fragile \subseteq Sources
  /\ Debounce \in Nat \ {0}
ASSUME TimesAssumption == Hold \in Nat /\ Confirm \in Nat \ {0}
ASSUME OptionsAssumption ==
  /\ AutoRelease \in BOOLEAN /\ DbFails \in BOOLEAN /\ MaxCrashes \in Nat
ASSUME CallersAssumption == Callers = {"runner", "operator"}

VARIABLES
  broken,      \* the inputs that did not open: they read active for good
  raw,         \* the inputs whose level is active
  count,       \* DiRuntime.debounce, capped at Debounce
  tripped,     \* this frame's debounced active inputs
  prev,        \* StateMachine.prev: last frame's tripped inputs
  latched,     \* InterlockState.latched
  stopFailed,  \* InterlockState.stop_failed
  safeAge,     \* age of source_safe_since; -1 is None
  attemptAge,  \* age of last_stop_attempt; -1 is None
  preset,      \* failsafe_preset
  db,          \* the later of the triggered / cleared events on disk
  pc,          \* the runner
  op,          \* the operator's request
  admitted,    \* senders that passed is_latched_now
  crashes

inputs  == <<broken, raw, count, tripped>>
machine == <<prev, latched, stopFailed, safeAge>>
ilkVars == <<inputs, machine, attemptAge, preset, db, pc, op, admitted, crashes>>
vars    == <<pcsVars, ilkVars>>

Unset == -1
Boot == {"restore", "restore_set", "restore_clear"}
RunnerSteps ==
  Boot \cup {"sync", "sync_rec", "sample", "tick", "trig", "trig_rec", "stop_trig",
             "mark_trig", "auto", "auto_rec", "maint", "timeout", "stop_maint", "mark_maint"}
OpSteps == {"idle", "release", "clear", "undo", "reset", "record", "ack"}

(* The types.  A broken input reads active, and the safe mark stands only   *)
(* under the latch, while the last frame saw no source active: what a hold  *)
(* is counted from never dates from before an activation.                   *)
TypeOK ==
  /\ PcsTypeOK
  /\ broken \subseteq raw
  /\ raw \subseteq Sources /\ tripped \subseteq Sources /\ prev \subseteq Sources
  /\ count \in [Sources -> 0..Debounce]
  /\ latched \in BOOLEAN /\ stopFailed \in BOOLEAN /\ preset \in BOOLEAN
  /\ safeAge \in {Unset} \cup 0..Hold
  /\ safeAge # Unset => latched /\ prev = {}
  /\ attemptAge \in {Unset} \cup 0..Confirm
  /\ db \in {"none", "triggered", "cleared"}
  /\ pc \in RunnerSteps /\ op \in OpSteps
  /\ admitted \subseteq Senders
  /\ crashes \in 0..MaxCrashes

(* InterlockController::new: with a broken input the controller is born     *)
(* latched, the stop unconfirmed, and a flag tells run_loop to say so.      *)
Init ==
  /\ PcsInit
  /\ broken \in SUBSET Fragile
  /\ raw \in {r \in SUBSET Sources : broken \subseteq r}
  /\ count = [s \in Sources |-> 0]
  /\ tripped = {} /\ prev = {}
  /\ latched = (broken # {}) /\ stopFailed = (broken # {})
  /\ preset = (broken # {})
  /\ safeAge = Unset /\ attemptAge = Unset
  /\ db = "none"
  /\ pc = "restore" /\ op = "idle" /\ admitted = {}
  /\ crashes = 0

(* The same, after a crash: inputs, disk and device are as they were. *)
Reborn ==
  /\ broken' \in SUBSET Fragile
  /\ raw' = raw \cup broken'
  /\ count' = [s \in Sources |-> 0]
  /\ tripped' = {} /\ prev' = {}
  /\ latched' = (broken' # {}) /\ stopFailed' = (broken' # {})
  /\ preset' = (broken' # {})
  /\ safeAge' = Unset /\ attemptAge' = Unset
  /\ pc' = "restore" /\ op' = "idle" /\ admitted' = {}

-----------------------------------------------------------------------------
(* The event table.  Insert failures are logged and otherwise ignored.      *)

Record(event) == \/ db' = event
                 \/ DbFails /\ db' = db

(* The runner moves when it is not inside a two-step call of the handle. *)
RunnerAt(step) == pc = step /\ call["runner"] = "idle"
OperatorAt(step) == op = step /\ call["operator"] = "idle"

-----------------------------------------------------------------------------
(* Start-up.                                                                *)

(* restore_from_db: latched iff the later event is a trigger.  A failed     *)
(* query counts as no event of that type, so it may lose the latch and may  *)
(* bring back one that was cleared.                                         *)
RestoreFromDb ==
  /\ RunnerAt("restore")
  /\ \/ /\ db = "triggered" \/ (DbFails /\ db = "cleared")
        /\ latched' = TRUE /\ stopFailed' = TRUE /\ safeAge' = Unset
        /\ pc' = "restore_set"
     \/ /\ db # "triggered" \/ DbFails
        /\ pc' = "restore_clear"
        /\ UNCHANGED <<latched, stopFailed, safeAge>>
  /\ UNCHANGED <<pcsVars, inputs, prev, attemptAge, preset, db, op, admitted, crashes>>

RestoreHandle ==
  /\ \/ RunnerAt("restore_set") /\ EngageLatch("runner")
     \/ RunnerAt("restore_clear") /\ ReleaseLatch("runner")
  /\ pc' = "sync"
  /\ UNCHANGED <<inputs, machine, attemptAge, preset, db, op, admitted, crashes>>

(* sync_failsafe_latch, at the head of run_loop. *)
SyncFailsafe ==
  /\ RunnerAt("sync")
  /\ IF preset THEN EngageLatch("runner") /\ pc' = "sync_rec"
               ELSE pc' = "sample" /\ UNCHANGED pcsVars
  /\ preset' = FALSE
  /\ UNCHANGED <<inputs, machine, attemptAge, db, op, admitted, crashes>>

SyncRecord ==
  /\ RunnerAt("sync_rec")
  /\ Record("triggered")
  /\ pc' = "sample"
  /\ UNCHANGED <<pcsVars, inputs, machine, attemptAge, preset, op, admitted, crashes>>

-----------------------------------------------------------------------------
(* tick_frame.                                                              *)

\* A mutant for the model checker: one frame late, that is never.
CountsLate(n) == n > Debounce

Counts(n) == n >= Debounce

(* Steps 1 and 2: read every input and debounce it. *)
Sample ==
  /\ RunnerAt("sample")
  /\ count' = [s \in Sources |->
                 IF s \notin raw THEN 0
                 ELSE IF count[s] < Debounce THEN count[s] + 1 ELSE Debounce]
  /\ tripped' = {s \in raw : Counts(count'[s])}
  /\ pc' = "tick"
  /\ UNCHANGED <<pcsVars, broken, raw, machine, attemptAge, preset, db, op, admitted, crashes>>

(* Step 4, StateMachine::tick.  A new bit latches; while latched the safe   *)
(* mark runs from the first frame with no source active, and in automatic   *)
(* mode an old enough mark with the stop not failed releases.               *)
NewSources == tripped \ prev

\* A mutant for the model checker: the mark is set anew in every safe frame.
MarkedAnew == 0

MarkedAge == IF safeAge = Unset THEN 0 ELSE safeAge
MayAutoRelease == AutoRelease /\ ~stopFailed /\ MarkedAge >= Hold

\* A mutant for the model checker: a source active again leaves the mark alone.
MarkStays == IF tripped = {} THEN MarkedAge ELSE safeAge

MarkAfter == IF tripped = {} THEN MarkedAge ELSE Unset

TickTrigger ==
  /\ ~latched /\ NewSources # {}
  /\ latched' = TRUE /\ stopFailed' = FALSE /\ safeAge' = Unset
  /\ pc' = "trig"

TickAutoRelease ==
  /\ latched /\ tripped = {} /\ MayAutoRelease
  /\ latched' = FALSE /\ stopFailed' = FALSE /\ safeAge' = Unset
  /\ pc' = "auto"

TickHold ==
  /\ IF latched THEN tripped # {} \/ ~MayAutoRelease ELSE NewSources = {}
  /\ safeAge' = IF latched THEN MarkAfter ELSE safeAge
  /\ pc' = "maint"
  /\ UNCHANGED <<latched, stopFailed>>

Tick ==
  /\ RunnerAt("tick")
  /\ TickTrigger \/ TickAutoRelease \/ TickHold
  /\ prev' = tripped
  /\ UNCHANGED <<pcsVars, inputs, attemptAge, preset, db, op, admitted, crashes>>

(* on_trigger: the handle's latch, the event, one stop. *)
TriggerHandle ==
  /\ RunnerAt("trig")
  /\ EngageLatch("runner")
  /\ pc' = "trig_rec"
  /\ UNCHANGED <<inputs, machine, attemptAge, preset, db, op, admitted, crashes>>

TriggerRecord ==
  /\ RunnerAt("trig_rec")
  /\ Record("triggered")
  /\ pc' = "stop_trig"
  /\ UNCHANGED <<pcsVars, inputs, machine, attemptAge, preset, op, admitted, crashes>>

(* on_auto_release. *)
AutoHandle ==
  /\ RunnerAt("auto")
  /\ ReleaseLatch("runner")
  /\ pc' = "auto_rec"
  /\ UNCHANGED <<inputs, machine, attemptAge, preset, db, op, admitted, crashes>>

AutoRecord ==
  /\ RunnerAt("auto_rec")
  /\ Record("cleared")
  /\ pc' = "maint"
  /\ UNCHANGED <<pcsVars, inputs, machine, attemptAge, preset, op, admitted, crashes>>

(* Where a frame goes on after stop_once: on_trigger's stop is followed by  *)
(* post_stop_maintenance, the retry of post_stop_maintenance by the next    *)
(* frame.                                                                   *)
AfterStop == [stop_trig |-> "maint", mark_trig |-> "maint",
              stop_maint |-> "sample", mark_maint |-> "sample"]

(* stop_once: a stop that is not acknowledged is marked as failed. *)
StopWith(o) ==
  /\ \/ RunnerAt("stop_trig") \/ RunnerAt("stop_maint")
  /\ Stop(o)
  /\ IF o = "ok"
       THEN attemptAge' = 0 /\ pc' = AfterStop[pc]
       ELSE /\ pc' = IF pc = "stop_trig" THEN "mark_trig" ELSE "mark_maint"
            /\ UNCHANGED attemptAge
  /\ UNCHANGED <<inputs, machine, preset, db, op, admitted, crashes>>

StopOnce == \E o \in Outcomes : StopWith(o)

\* A mutant for the model checker: without the test.
MarkAlways == stopFailed' = TRUE

(* mark_stop_failed: tests `latched` in the lock section that writes. *)
MarkStopFailed == stopFailed' = (stopFailed \/ latched)

MarkAttempt ==
  /\ \/ RunnerAt("mark_trig") \/ RunnerAt("mark_maint")
  /\ MarkStopFailed
  /\ attemptAge' = 0
  /\ pc' = AfterStop[pc]
  /\ UNCHANGED <<pcsVars, inputs, prev, latched, safeAge, preset, db, op, admitted, crashes>>

\* A mutant for the model checker: no retry once a stop was attempted.
NeverRetried == attemptAge = Unset

RetryDue == attemptAge \in {Unset, Confirm}

(* post_stop_maintenance: the only judge of whether the device stopped. *)
Maintain ==
  /\ RunnerAt("maint")
  /\ \/ /\ latched /\ snap = "stopped"
        /\ stopFailed' = FALSE
        /\ pc' = "sample"
     \/ /\ latched /\ snap # "stopped" /\ RetryDue
        /\ pc' = IF attemptAge = Unset THEN "stop_maint" ELSE "timeout"
        /\ UNCHANGED stopFailed
     \/ /\ ~latched \/ (snap # "stopped" /\ ~RetryDue)
        /\ pc' = "sample"
        /\ UNCHANGED stopFailed
  /\ UNCHANGED <<pcsVars, inputs, prev, latched, safeAge, attemptAge, preset, db, op,
                 admitted, crashes>>

StopTimedOut ==
  /\ RunnerAt("timeout")
  /\ MarkStopFailed
  /\ pc' = "stop_maint"
  /\ UNCHANGED <<pcsVars, inputs, prev, latched, safeAge, attemptAge, preset, db, op,
                 admitted, crashes>>

Runner ==
  \/ RestoreFromDb \/ RestoreHandle \/ SyncFailsafe \/ SyncRecord
  \/ Sample \/ Tick \/ TriggerHandle \/ TriggerRecord \/ AutoHandle \/ AutoRecord
  \/ StopOnce \/ MarkAttempt \/ Maintain \/ StopTimedOut

-----------------------------------------------------------------------------
(* do_request_release.                                                      *)

(* Steps 1 and 2, with no await in them.  The levels are read live; the     *)
(* hold is skipped when 0.                                                  *)
ReleaseCheck ==
  /\ pc \notin Boot
  /\ OperatorAt("idle")
  /\ latched
  /\ raw = {}
  /\ Hold > 0 => safeAge = Hold
  /\ op' = "release"
  /\ UNCHANGED <<pcsVars, inputs, machine, attemptAge, preset, db, pc, admitted, crashes>>

(* Step 3, awaited: the handle first. *)
ReleaseHandle ==
  /\ OperatorAt("release")
  /\ ReleaseLatch("operator")
  /\ op' = "clear"
  /\ UNCHANGED <<inputs, machine, attemptAge, preset, db, pc, admitted, crashes>>

(* Step 4: under the state lock, look at the levels again, then clear. *)
ReleaseClear ==
  /\ OperatorAt("clear")
  /\ IF raw = {}
       THEN /\ latched' = FALSE /\ stopFailed' = FALSE /\ safeAge' = Unset
            /\ op' = "reset"
       ELSE op' = "undo" /\ UNCHANGED <<latched, stopFailed, safeAge>>
  /\ UNCHANGED <<pcsVars, inputs, prev, attemptAge, preset, db, pc, admitted, crashes>>

\* A mutant for the model checker: the handle is left released.
UndoForgotten ==
  /\ OperatorAt("undo")
  /\ op' = "idle"
  /\ UNCHANGED <<pcsVars, inputs, machine, attemptAge, preset, db, pc, admitted, crashes>>

ReleaseUndo ==
  /\ OperatorAt("undo")
  /\ EngageLatch("operator")
  /\ op' = "idle"
  /\ UNCHANGED <<inputs, machine, attemptAge, preset, db, pc, admitted, crashes>>

\* A mutant for the model checker: the edges are kept.
ResetForgotten ==
  /\ OperatorAt("reset")
  /\ op' = "record"
  /\ UNCHANGED <<pcsVars, inputs, machine, attemptAge, preset, db, pc, admitted, crashes>>

(* Step 5: forget the edges, then record the event. *)
ReleaseReset ==
  /\ OperatorAt("reset")
  /\ prev' = {}
  /\ op' = "record"
  /\ UNCHANGED <<pcsVars, inputs, latched, stopFailed, safeAge, attemptAge, preset, db, pc,
                 admitted, crashes>>

ReleaseRecord ==
  /\ OperatorAt("record")
  /\ Record("cleared")
  /\ op' = "idle"
  /\ UNCHANGED <<pcsVars, inputs, machine, attemptAge, preset, pc, admitted, crashes>>

Release ==
  \/ ReleaseHandle \/ ReleaseClear \/ ReleaseUndo \/ ReleaseReset \/ ReleaseRecord

(* ack_m1: the controller's own tests, then authorize_restart. *)
AckCheck ==
  /\ pc \notin Boot
  /\ OperatorAt("idle")
  /\ ~latched /\ ~stopFailed
  /\ op' = "ack"
  /\ UNCHANGED <<pcsVars, inputs, machine, attemptAge, preset, db, pc, admitted, crashes>>

AckAuthorize ==
  /\ OperatorAt("ack")
  /\ op' = "idle"
  /\ \/ AuthCheck("operator")
     \/ latch /\ UNCHANGED pcsVars
  /\ UNCHANGED <<inputs, machine, attemptAge, preset, db, pc, admitted, crashes>>

-----------------------------------------------------------------------------
(* Dispatch: a sender asks is_latched_now, then starts its sequence.        *)

Admit(s) ==
  /\ pc \notin Boot
  /\ at[s] = "idle" /\ s \notin admitted
  /\ ~latched
  /\ admitted' = admitted \cup {s}
  /\ UNCHANGED <<pcsVars, inputs, machine, attemptAge, preset, db, pc, op, crashes>>

Dispatch(s) ==
  /\ s \in admitted
  /\ SendBegin(s) \/ (latch /\ UNCHANGED pcsVars)
  /\ admitted' = admitted \ {s}
  /\ UNCHANGED <<inputs, machine, attemptAge, preset, db, pc, op, crashes>>

-----------------------------------------------------------------------------
(* The world.                                                               *)

Press(s) ==
  /\ s \notin raw
  /\ raw' = raw \cup {s}
  /\ UNCHANGED <<pcsVars, broken, count, tripped, machine, attemptAge, preset, db, pc, op,
                 admitted, crashes>>

Unpress(s) ==
  /\ s \in raw \ broken
  /\ raw' = raw \ {s}
  /\ UNCHANGED <<pcsVars, broken, count, tripped, machine, attemptAge, preset, db, pc, op,
                 admitted, crashes>>

Older(age, limit) == IF age = Unset \/ age = limit THEN age ELSE age + 1

Time ==
  /\ safeAge' = Older(safeAge, Hold)
  /\ attemptAge' = Older(attemptAge, Confirm)
  /\ <<safeAge, attemptAge>>' # <<safeAge, attemptAge>>
  /\ UNCHANGED <<pcsVars, inputs, prev, latched, stopFailed, preset, db, pc, op, admitted, crashes>>

(* The process dies at any point and starts again; disk, inputs and device  *)
(* survive it.                                                              *)
Crash ==
  /\ crashes < MaxCrashes
  /\ crashes' = crashes + 1
  /\ HandleRestart
  /\ Reborn
  /\ UNCHANGED db

Alone(A) == A /\ UNCHANGED ilkVars

PcsAlone ==
  \/ \E s \in Senders : Alone(Send(s))
  \/ \E c \in Callers : Alone(CallStep(c))
  \/ Alone(CollectOk) \/ Alone(CollectFail)
  \/ Alone(Device)

Next ==
  \/ Runner
  \/ ReleaseCheck \/ Release \/ AckCheck \/ AckAuthorize
  \/ \E s \in Senders : Admit(s) \/ Dispatch(s)
  \/ PcsAlone
  \/ \E s \in Sources : Press(s) \/ Unpress(s)
  \/ Time
  \/ Crash

Spec == Init /\ [][Next]_vars

(* What the scheduler and the world owe: tasks that can go on do (tokio),   *)
(* and the lock is handed over in turn, so a stop that waits for it gets it *)
(* (tokio::sync::Mutex is fair) - hence SF on StopOnce; a line that is      *)
(* retried for ever lets a stop and a poll through now and then; the device *)
(* carries out what it acknowledged.  Nobody owes a release or a press.     *)
Fairness ==
  /\ WF_vars(Runner) /\ SF_vars(StopOnce) /\ SF_vars(StopWith("ok"))
  /\ WF_vars(Release) /\ WF_vars(Time)
  /\ \A c \in Callers : WF_vars(Alone(CallStep(c)))
  /\ \A s \in Senders : WF_vars(Alone(Send(s)))
  /\ SF_vars(Alone(CollectOk /\ snap' = dev.run))
  /\ WF_vars(Alone(DeviceObeys))

FairSpec == Spec /\ Fairness

-----------------------------------------------------------------------------
(* Properties.                                                              *)

(* A stop can only be "failed" while the latch is set: otherwise no path    *)
(* would ever clear the mark and ack_m1 would refuse for good.  The mark is *)
(* written by the runner after tests made in earlier steps, with releases   *)
(* free to come between (mark_stop_failed, ack_m1).                         *)
StopFailedImpliesLatched == stopFailed => latched

(* The two copies of the latch agree whenever neither task is between the   *)
(* two writes: no "split" in which the controller believes the device is    *)
(* released and the handle refuses it, or the reverse (do_request_release,  *)
(* steps 3 and 4).                                                          *)
RunnerSettled   == pc \notin {"restore", "restore_set", "restore_clear", "sync", "trig", "auto"}
OperatorSettled == op \notin {"clear", "undo"}
LatchesAgree == RunnerSettled /\ OperatorSettled => latch = latched

(* An unlatched controller is armed: the next frame that sees any source    *)
(* active will find it a new edge and latch.  Stale edge memory would make  *)
(* the state machine deaf to a source that is pressed again                 *)
(* (do_request_release, step 5).                                            *)
Armed == ~latched /\ op # "reset" => prev = {}

(* A source that stays active is heard: the controller latches (tick_frame).*)
EdgeHeard == \A s \in Sources : s \in raw ~> latched \/ s \notin raw

(* A latch that lasts stops the device, however many stops are lost or      *)
(* outlived by a start that was already on its way (on_trigger's one stop   *)
(* and the retries of post_stop_maintenance).                               *)
LatchStops == latched ~> ~latched \/ dev.run = "stopped"

(* In automatic mode a latch whose sources stay reset is released, provided *)
(* polling is reliable in the end: the stop is then confirmed, and that     *)
(* takes the "failed" mark with it (post_stop_maintenance).                 *)
AutoReleases ==
  AutoRelease /\ <>[](snap # "none") =>
    (latched /\ raw = {} ~> ~latched \/ raw # {})

=============================================================================
