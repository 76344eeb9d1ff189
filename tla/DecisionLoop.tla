---------------------------- MODULE DecisionLoop ----------------------------
(***************************************************************************)
(* The strategy's decision loop on a PCS handle: the 1 Hz task of          *)
(* crates/mupc-core-bin/src/startup.rs, AiIntegrator in                    *)
(* crates/strategy-engine/src/ai_integration.rs (the resend cache          *)
(* `last_sent_tai`, the freshness guard) and TaiStorageStrategy in         *)
(* tai_storage.rs (control period, refusals), over module Pcs.             *)
(*                                                                         *)
(* The power registers hold a set point, not a pulse: the device goes on   *)
(* with the last one.  The loop therefore sends a command only when it     *)
(* differs from the one sent before, and everything that may have parted   *)
(* the device from the cache must clear the cache - a failed send, and the *)
(* stop of a safety latch, which the loop knows of by sampling it.         *)
(*                                                                         *)
(* Abstractions: what control() computes is `want`, any target for any     *)
(* measurement; the interlock is its latch and the order of its calls      *)
(* (module Interlock has the rest); the strategy is the handle's only      *)
(* sender; time passes in seconds, the period of the loop.                 *)
(***************************************************************************)
EXTENDS Pcs, Integers

CONSTANTS
  Strategy,    \* the sender
  Targets,     \* commands that control() may compute
  Zero,        \* the command of a refusal: all phases 0
  Period,      \* control_period_s
  StaleAfter   \* DATA_STALE_AFTER, in seconds

ASSUME StrategyAssumption == Senders = {Strategy}
ASSUME TargetAssumption   == "none" \notin Targets \cup {Zero} /\ "mixed" \notin Targets \cup {Zero}
ASSUME TimeAssumption     == Period \in Nat \ {0} /\ StaleAfter \in Nat \ {0}

VARIABLES
  lock,        \* the interlock: "free", "trigger", "held", "release"
  wasLatched,  \* was_latched
  lastSent,    \* last_sent_tai, "none" when cleared; the command under way
  stage,       \* the loop: "asleep", "due", "begin" or, in a send, "busy"
  lastCmd,     \* TaiStorageStrategy::last_cmd
  age,         \* seconds since the newest telemetry came; -1 before the first
  since,       \* from the last control's telemetry to the newest, capped
  want,        \* what control() computes from the newest telemetry, or "refuse"
               \* when no state of charge is known with it
  sp,          \* the device's power registers; "mixed" is none of the commands
  surprised    \* history: the device stopped and the loop was not told

loopVars == <<wasLatched, lastSent, stage>>
taiVars  == <<lastCmd, age, since, want>>
vars     == <<pcsVars, lock, loopVars, taiVars, sp, surprised>>

Commands == Targets \cup {Zero}
Oldest   == IF Period > StaleAfter THEN Period ELSE StaleAfter + 1   \* bound of `age`
Locked   == lock # "free"                                            \* is_latched_now

TypeOK ==
  /\ PcsTypeOK
  /\ lock \in {"free", "trigger", "held", "release"}
  /\ wasLatched \in BOOLEAN
  /\ lastSent \in Commands \cup {"none"}
  /\ stage \in {"asleep", "due", "begin", "busy"}
  /\ (stage = "busy") <=> (at[Strategy] # "idle")
  /\ lastCmd \in Commands /\ want \in Targets \cup {"refuse"}
  /\ age \in -1..Oldest /\ since \in 0..Period
  /\ sp \in Commands \cup {"mixed"}
  /\ surprised \in BOOLEAN

(* `new`: nothing sent, nothing measured; the first control is due at once. *)
Init ==
  /\ PcsInit
  /\ lock = "free"
  /\ wasLatched = FALSE /\ lastSent = "none" /\ stage = "asleep"
  /\ lastCmd = Zero /\ age = -1 /\ since = Period
  /\ want = "refuse"
  /\ sp = "mixed"
  /\ surprised = FALSE

-----------------------------------------------------------------------------
(* What the loop is to send, and what choosing it changes in the strategy.  *)

Unusable == age > StaleAfter \/ want = "refuse"

(* refuse_stale_data and refuse_missing_soc: zero, remembered as the last   *)
(* command; the control period runs on.                                     *)
Refuse(cmd) ==
  /\ Unusable
  /\ cmd = Zero
  /\ lastCmd' = Zero
  /\ UNCHANGED since

(* Within the control period the last command is repeated. *)
Repeat(cmd) ==
  /\ ~Unusable /\ since < Period
  /\ cmd = lastCmd
  /\ UNCHANGED <<lastCmd, since>>

Control(cmd) ==
  /\ ~Unusable /\ since >= Period
  /\ cmd = want
  /\ lastCmd' = want
  /\ since' = 0

(* dispatch_phase_pq up to the send: a command equal to the cached one is   *)
(* skipped, another is cached before it is sent.                            *)
SendIfNew(cmd, cached) ==
  IF cmd = cached
    THEN lastSent' = cached /\ stage' = "asleep"
    ELSE lastSent' = cmd /\ stage' = "begin"

(* One round.  Under the latch it only remembers it; the first round after  *)
(* a latch forgets what was sent; before the first telemetry it sends       *)
(* nothing.                                                                 *)
Suppress ==
  /\ stage = "due" /\ Locked
  /\ wasLatched' = TRUE
  /\ stage' = "asleep"
  /\ UNCHANGED <<pcsVars, lock, lastSent, taiVars, sp, surprised>>

(* Mutants for the model checker: no resend after a latch, a failed send    *)
(* that keeps the cache, a failed send that never comes to its end.         *)
CachedBlind == lastSent
FailKeeps   == stage' = "asleep" /\ UNCHANGED lastSent
FailHangs   == lastSent' = "none" /\ UNCHANGED stage

Cached == IF wasLatched THEN "none" ELSE lastSent

Decide ==
  /\ stage = "due" /\ ~Locked
  /\ wasLatched' = FALSE
  /\ IF age = -1
       THEN lastSent' = Cached /\ stage' = "asleep" /\ UNCHANGED <<lastCmd, since>>
       ELSE \E cmd \in Commands :
              /\ Refuse(cmd) \/ Repeat(cmd) \/ Control(cmd)
              /\ SendIfNew(cmd, Cached)
  /\ UNCHANGED <<pcsVars, lock, age, want, sp, surprised>>

-----------------------------------------------------------------------------
(* The send: send_tai_command, step by step.  Whatever makes it fail, the   *)
(* cache is cleared and the next round tries again.                         *)

Fail == lastSent' = "none" /\ stage' = "asleep"

Begin ==
  /\ stage = "begin"
  /\ \/ SendBegin(Strategy) /\ stage' = "busy" /\ UNCHANGED lastSent
     \/ latch /\ Fail /\ UNCHANGED pcsVars
  /\ UNCHANGED <<lock, wasLatched, taiVars, sp, surprised>>

(* The steps before the power registers; one that ends the sequence failed. *)
Proceed ==
  /\ at[Strategy] # "power"
  /\ Send(Strategy)
  /\ IF at'[Strategy] = "idle" THEN Fail ELSE UNCHANGED <<lastSent, stage>>
  /\ surprised' = (surprised /\ at'[Strategy] # "mark")
  /\ UNCHANGED <<lock, wasLatched, taiVars, sp>>

(* The six power registers: all acknowledged, or some written, or all       *)
(* written and the last reply lost.                                         *)
PowerOk ==
  /\ WritePower(Strategy)
  /\ link = "up"
  /\ sp' = lastSent
  /\ stage' = "asleep"
  /\ UNCHANGED <<lock, wasLatched, lastSent, taiVars, surprised>>

PowerFails ==
  /\ WritePower(Strategy)
  /\ sp' \in IF link = "up" THEN {sp, "mixed"} \cup (IF LostReplies THEN {lastSent} ELSE {})
                            ELSE {sp}
  /\ Fail
  /\ UNCHANGED <<lock, wasLatched, taiVars, surprised>>

Loop == Suppress \/ Decide \/ Begin \/ Proceed \/ PowerOk \/ PowerFails

-----------------------------------------------------------------------------
(* Telemetry and time.                                                      *)

Least(a, b) == IF a < b THEN a ELSE b

(* set_latest_data: the newest package, its stamp and what it asks for. *)
Telemetry ==
  /\ age' = 0
  /\ since' = IF age = -1 THEN since ELSE Least(since + age, Period)
  /\ want' \in Targets \cup {"refuse"}
  /\ UNCHANGED <<pcsVars, lock, loopVars, lastCmd, sp, surprised>>

(* A second; the loop's sleep ends with it, and a send may take several. *)
Second ==
  /\ stage # "due"
  /\ age' = IF age = -1 THEN -1 ELSE Least(age + 1, Oldest)
  /\ stage' = IF stage = "asleep" THEN "due" ELSE stage
  /\ UNCHANGED <<pcsVars, lock, wasLatched, lastSent, lastCmd, since, want, sp, surprised>>

-----------------------------------------------------------------------------
(* The interlock: the controller's latch, then the handle's, then the stop  *)
(* until it is executed; a release in the same order; a restart authorised  *)
(* by the operator.                                                         *)

Trigger ==
  /\ lock = "free"
  /\ lock' = "trigger"
  /\ UNCHANGED <<pcsVars, loopVars, taiVars, sp, surprised>>

Engage ==
  /\ lock = "trigger"
  /\ \E c \in Callers : EngageLatch(c)
  /\ lock' = "held"
  /\ UNCHANGED <<loopVars, taiVars, sp, surprised>>

(* A stop whose reply is lost leaves `started` cached. *)
StopDevice ==
  /\ lock = "held" /\ ~halted
  /\ \E o \in Outcomes : Stop(o) /\ surprised' = (surprised \/ o = "lost")
  /\ UNCHANGED <<lock, loopVars, taiVars, sp>>

Unlatch ==
  /\ lock = "held"
  /\ \E c \in Callers : ReleaseLatch(c)
  /\ lock' = "release"
  /\ UNCHANGED <<loopVars, taiVars, sp, surprised>>

(* A latch that came and went between two rounds was not seen by the loop. *)
Release ==
  /\ lock = "release"
  /\ lock' = "free"
  /\ surprised' = (surprised \/ ~wasLatched)
  /\ UNCHANGED <<pcsVars, loopVars, taiVars, sp>>

Acknowledge ==
  /\ lock = "free"
  /\ \E c \in Callers : AuthCheck(c)
  /\ UNCHANGED <<lock, loopVars, taiVars, sp, surprised>>

CallerGoesOn ==
  /\ \E c \in Callers : CallStep(c)
  /\ UNCHANGED <<lock, loopVars, taiVars, sp, surprised>>

Interlock == Trigger \/ Engage \/ StopDevice \/ Unlatch \/ Release \/ Acknowledge \/ CallerGoesOn

-----------------------------------------------------------------------------
(* The collector and the device.  A poll that succeeds changes only what    *)
(* the collector itself and the interlock read (bad, connected, snap); one  *)
(* that fails may forget `started` and `mode` under the loop's feet.        *)

Alone(A) == A /\ UNCHANGED <<lock, loopVars, taiVars, sp, surprised>>

Around == Alone(CollectFail) \/ Alone(DeviceObeys)

(* A protection trip.                                                       *)
Trip ==
  /\ DeviceTrips
  /\ surprised' = TRUE
  /\ UNCHANGED <<lock, loopVars, taiVars, sp>>

Next ==
  \/ Loop
  \/ Telemetry \/ Second
  \/ Interlock
  \/ Around \/ Trip

Spec == Init /\ [][Next]_vars

(* What the scheduler and the world owe: the loop and the tasks that have   *)
(* begun go on (tokio), seconds pass, the device obeys.  Nobody owes good   *)
(* replies, telemetry, a release or an acknowledgement: Follows asks for    *)
(* them.                                                                    *)
Fairness ==
  /\ WF_vars(Loop) /\ WF_vars(Second)
  /\ WF_vars(CallerGoesOn) /\ WF_vars(Alone(DeviceObeys))

FairSpec == Spec /\ Fairness

-----------------------------------------------------------------------------
(* Properties.                                                              *)

(* The resend cache never claims what the device does not hold: outside a   *)
(* send, a cached command is the device's set point.  The cache is written  *)
(* before the send and cleared by whoever fails - a failed write, a latch   *)
(* found at any of its looks, a missing authorisation (dispatch_phase_pq,   *)
(* send_tai_command).                                                       *)
CacheTruthful ==
  stage \in {"asleep", "due"} /\ lastSent # "none" => sp = lastSent

(* A step in which the world lets the loop down: a failed poll, a failed    *)
(* send that is not the refusal to start without an authorisation.          *)
Disturbed ==
  \/ mode # "unknown" /\ mode' = "unknown"
  \/ /\ at[Strategy] # "idle" /\ at'[Strategy] = "idle"
     /\ ~(at[Strategy] = "power" /\ sp' = lastSent /\ lastSent' = lastSent)
     /\ ~(at[Strategy] = "read" /\ dev.run = "stopped" /\ ~auth)

(* What the device should do: nothing while the measurements cannot be      *)
(* trusted, what control() wants of them else.                              *)
Goal == IF Unusable THEN Zero ELSE want

(* Once the world is calm - no disturbance, no latch, one goal for good,    *)
(* a device that is running or gets its authorisation - the device runs     *)
(* with the goal, whatever came before: releases, failed sends, refusals,   *)
(* throttled rounds, changes of the goal and back.  A stop the loop was     *)
(* not told of (a trip, a lost reply, a latch between two rounds) leaves    *)
(* the cache standing and is excepted until the device is started again.    *)
(* The resend after a release (startup.rs:1826), the retry of a failed send *)
(* and the zero for data that cannot be trusted are for this.               *)
Follows ==
  \A c \in Commands :
    /\ <>[][~Disturbed]_vars
    /\ <>[](lock = "free" /\ age # -1 /\ Goal = c)
    /\ []<>(auth \/ dev.run = "running")
    => <>[](surprised) \/ <>[](dev.run = "running" /\ sp = c)
=============================================================================
