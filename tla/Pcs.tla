-------------------------------- MODULE Pcs --------------------------------
(***************************************************************************)
(* The power conversion system (PCS) handle of mupc-southd: `PcsHandle` in *)
(* crates/mupc-southd/src/pcs/{mod,collect}.rs, and the device behind its  *)
(* Modbus line.                                                            *)
(*                                                                         *)
(* Three kinds of task share the handle.  A SENDER (the strategy loop, the *)
(* IEC 104 command handler) runs the downlink sequence                     *)
(*     check_latched -> lock -> ensure_mode -> ensure_started -> power      *)
(* and is `await`-ing between any two steps.  The COLLECTOR polls the       *)
(* device.  A CALLER of the interlock face (the interlock runner and the    *)
(* operator's request) sets the latch, stops the device and authorises a    *)
(* restart.  Only sequences that use the line take the lock: the latch and  *)
(* the authorisation change under a sender's feet.                          *)
(*                                                                         *)
(* Abstractions: the power registers are one write (`WritePower`); the      *)
(* running states 1..3 are "running"; reading SOC, currents and powers,     *)
(* clamping and the write audit change none of this state.                  *)
(***************************************************************************)
EXTENDS Naturals, FiniteSets

CONSTANTS
  Senders,      \* tasks that send power commands
  Modes,        \* active-power modes of the device
  ModeOf,       \* the active-power mode each sender's command needs
  Callers,      \* tasks that use the interlock face of the handle
  BadLimit,     \* BAD_LIMIT: failed polls in a row before "offline"
  LostReplies,  \* may a register write take effect and its reply be lost?
  Outages       \* may the line stay down for long (single failures always may)?

ASSUME SendersAssumption == "unknown" \notin Modes /\ ModeOf \in [Senders -> Modes]
ASSUME LimitAssumption   == BadLimit \in Nat \ {0}
ASSUME SwitchAssumption  == LostReplies \in BOOLEAN /\ Outages \in BOOLEAN

VARIABLES
  latch,      \* stopped_latched
  auth,       \* restart_authorized
  started,    \* cache: 500=1 was acknowledged
  mode,       \* cache: REG_MODE last acknowledged; "unknown" is 0xFF
  bad,        \* failed polls in a row, capped at BadLimit
  connected,  \* the collector's view of the link
  snap,       \* last_run_state(): "none" when the snapshot is invalid
  at,         \* at[s]: where sender s is in its sequence
  call,       \* call[c]: where caller c is in a two-step operation
  dev,        \* the device: run state, pending order, mode register
  link,       \* "up", "down", or "lost": down, and the collector knows it
  halted,     \* history: a stop has taken effect under the present latch
  strayed     \* history: the device has changed its mode behind the cache

modes   == <<mode, strayed>>
handle  == <<latch, auth, started, modes>>
poll    == <<bad, connected, snap>>
devVars == <<dev, link>>
pcsVars == <<handle, poll, at, call, devVars, halted>>

(* Sender steps executed while holding PcsInner::lock. *)
Critical == {"mode", "ensure", "read", "recheck", "start", "mark", "power"}
RunStates == {"stopped", "running"}

(* The types, and what the collector knows: a link that counts as connected *)
(* has failed less than BadLimit times in a row, and the snapshot is that   *)
(* of a poll that has just succeeded.                                       *)
PcsTypeOK ==
  /\ latch \in BOOLEAN /\ auth \in BOOLEAN /\ started \in BOOLEAN
  /\ mode \in Modes \cup {"unknown"}
  /\ bad \in 0..BadLimit /\ connected \in BOOLEAN
  /\ snap \in RunStates \cup {"none"}
  /\ at \in [Senders -> {"idle", "wait"} \cup Critical]
  /\ call \in [Callers -> {"idle", "void", "reset", "grant"}]
  /\ dev \in [run : RunStates, order : {"none", "start", "stop"}, mode : Modes]
  /\ link \in {"up", "down", "lost"}
  /\ halted \in BOOLEAN /\ strayed \in BOOLEAN
  /\ connected => bad < BadLimit /\ link # "lost"
  /\ snap # "none" => connected /\ bad = 0

(* The state of a freshly constructed handle (`PcsHandle::new`). *)
HandleInit ==
  /\ latch = FALSE /\ auth = FALSE /\ started = FALSE /\ mode = "unknown"
  /\ bad = 0 /\ connected = FALSE /\ snap = "none"
  /\ at = [s \in Senders |-> "idle"]
  /\ call = [c \in Callers |-> "idle"]
  /\ halted = FALSE /\ strayed = FALSE

(* The device outlives the process: any run state, any mode, nothing pending. *)
DeviceInit ==
  /\ dev \in [run : RunStates, order : {"none"}, mode : Modes]
  /\ link = "up"

PcsInit == HandleInit /\ DeviceInit

-----------------------------------------------------------------------------
(* The line.  `BusFree` is PcsInner::lock seen by the next to take it. *)

BusFree == \A s \in Senders : at[s] \notin Critical

(* What a register write may come to: acknowledged, executed with its reply *)
(* lost, or not executed.  The code sees Err(_) in the last two cases.      *)
Outcomes ==
  {"failed"} \cup (IF link = "up" THEN {"ok"} ELSE {})
             \cup (IF link = "up" /\ LostReplies THEN {"lost"} ELSE {})

Executed(o) == o \in {"ok", "lost"}

(* What a successful read of REG_RUN_STATE decodes to: the device's state,  *)
(* or nothing when the word is out of range.                                *)
Readings == {dev.run, "none"}

Goto(s, stage) == at' = [at EXCEPT ![s] = stage]

-----------------------------------------------------------------------------
(* Senders: send_dual_param and send_tai_command.                           *)

(* check_latched, before the lock is even asked for. *)
SendBegin(s) ==
  /\ at[s] = "idle"
  /\ ~latch
  /\ Goto(s, "wait")
  /\ UNCHANGED <<handle, poll, call, devVars, halted>>

Acquire(s) ==
  /\ at[s] = "wait"
  /\ BusFree
  /\ Goto(s, "mode")
  /\ UNCHANGED <<handle, poll, call, devVars, halted>>

(* ensure_mode: a cached mode is trusted; a failed write ends the sequence  *)
(* and leaves the cache as it was, also when the device has carried it out. *)
EnsureMode(s) ==
  /\ at[s] = "mode"
  /\ \/ /\ mode = ModeOf[s]
        /\ Goto(s, "ensure")
        /\ UNCHANGED <<modes, dev>>
     \/ /\ mode # ModeOf[s]
        /\ \E o \in Outcomes :
             /\ dev' = IF Executed(o) THEN [dev EXCEPT !.mode = ModeOf[s]] ELSE dev
             /\ mode' = IF o = "ok" THEN ModeOf[s] ELSE mode
             /\ strayed' = (o # "ok" /\ (strayed \/ (o = "lost" /\ mode # "unknown")))
             /\ Goto(s, IF o = "ok" THEN "ensure" ELSE "idle")
  /\ UNCHANGED <<latch, auth, started, poll, call, link, halted>>

(* ensure_started, first two tests. *)
EnsureStarted(s) ==
  /\ at[s] = "ensure"
  /\ Goto(s, IF latch THEN "idle" ELSE IF started THEN "power" ELSE "read")
  /\ UNCHANGED <<handle, poll, call, devVars, halted>>

(* ensure_started, the S-4 read: a device found stopped is started only on  *)
(* an authorisation, and any authorisation is spent here.                   *)
ReadRunState(s) ==
  /\ at[s] = "read"
  /\ \/ /\ Goto(s, "idle")                        \* the read failed
        /\ UNCHANGED auth
     \/ /\ link = "up"
        /\ \E r \in Readings :
             IF r = "stopped" /\ ~auth
               THEN Goto(s, "idle") /\ UNCHANGED auth
               ELSE Goto(s, "recheck") /\ auth' = FALSE
  /\ UNCHANGED <<latch, started, modes, poll, call, devVars, halted>>

(* ensure_started, I-2: look at the latch again before writing. *)
RecheckLatch(s) ==
  /\ at[s] = "recheck"
  /\ Goto(s, IF latch THEN "idle" ELSE "start")
  /\ UNCHANGED <<handle, poll, call, devVars, halted>>

WriteStart(s) ==
  /\ at[s] = "start"
  /\ \E o \in Outcomes :
       /\ dev' = IF Executed(o) THEN [dev EXCEPT !.order = "start"] ELSE dev
       /\ Goto(s, IF o = "ok" THEN "mark" ELSE "idle")
  /\ UNCHANGED <<handle, poll, call, link, halted>>

MarkStarted(s) ==
  /\ at[s] = "mark"
  /\ started' = TRUE
  /\ Goto(s, "power")
  /\ UNCHANGED <<latch, auth, modes, poll, call, devVars, halted>>

(* The power registers; success or failure, the sequence ends here. *)
WritePower(s) ==
  /\ at[s] = "power"
  /\ Goto(s, "idle")
  /\ UNCHANGED <<handle, poll, call, devVars, halted>>

Send(s) ==
  \/ Acquire(s) \/ EnsureMode(s) \/ EnsureStarted(s) \/ ReadRunState(s)
  \/ RecheckLatch(s) \/ WriteStart(s) \/ MarkStarted(s) \/ WritePower(s)

-----------------------------------------------------------------------------
(* Callers of the interlock face.                                           *)

(* restore_interlock_latched(true): two stores, the latch first ... *)
EngageLatch(c) ==
  /\ call[c] = "idle"
  /\ latch' = TRUE
  /\ call' = [call EXCEPT ![c] = "void"]
  /\ UNCHANGED <<auth, started, modes, poll, at, devVars, halted>>

(* ... then the voiding of an authorisation nobody has used yet. *)
VoidAuth(c) ==
  /\ call[c] = "void"
  /\ auth' = FALSE
  /\ call' = [call EXCEPT ![c] = "idle"]
  /\ UNCHANGED <<latch, started, modes, poll, at, devVars, halted>>

(* restore_interlock_latched(false). *)
ReleaseLatch(c) ==
  /\ call[c] = "idle"
  /\ latch' = FALSE
  /\ halted' = FALSE
  /\ UNCHANGED <<auth, started, modes, poll, at, call, devVars>>

(* A mutant of Stop for the model checker: it does not wait for the lock.   *)
StopUnlocked(o) ==
  /\ o \in Outcomes
  /\ dev' = IF Executed(o) THEN [dev EXCEPT !.order = "stop"] ELSE dev
  /\ halted' = (halted \/ (latch /\ Executed(o)))
  /\ started' = (started /\ o # "ok")
  /\ mode' = IF o = "ok" THEN "unknown" ELSE mode
  /\ strayed' = (strayed /\ o # "ok")
  /\ UNCHANGED <<latch, auth, poll, at, call, link>>

(* stop: one locked write of 500=0; `started` and `mode` are forgotten only *)
(* on its acknowledgement.                                                  *)
Stop(o) ==
  /\ BusFree
  /\ o \in Outcomes
  /\ dev' = IF Executed(o) THEN [dev EXCEPT !.order = "stop"] ELSE dev
  /\ halted' = (halted \/ (latch /\ Executed(o)))
  /\ started' = (started /\ o # "ok")
  /\ mode' = IF o = "ok" THEN "unknown" ELSE mode
  /\ strayed' = (strayed /\ o # "ok")
  /\ UNCHANGED <<latch, auth, poll, at, call, link>>

(* authorize_restart: the latch is read, then two stores follow. *)
AuthCheck(c) ==
  /\ call[c] = "idle"
  /\ ~latch
  /\ call' = [call EXCEPT ![c] = "reset"]
  /\ UNCHANGED <<handle, poll, at, devVars, halted>>

AuthReset(c) ==
  /\ call[c] = "reset"
  /\ started' = FALSE
  /\ call' = [call EXCEPT ![c] = "grant"]
  /\ UNCHANGED <<latch, auth, modes, poll, at, devVars, halted>>

AuthGrant(c) ==
  /\ call[c] = "grant"
  /\ auth' = TRUE
  /\ call' = [call EXCEPT ![c] = "idle"]
  /\ UNCHANGED <<latch, started, modes, poll, at, devVars, halted>>

(* The second steps: a caller takes them once it has begun. *)
CallStep(c) == VoidAuth(c) \/ AuthReset(c) \/ AuthGrant(c)

-----------------------------------------------------------------------------
(* The collector: tick_once, atomic because it holds the lock throughout.   *)

\* A mutant for the model checker: the count goes on over a success.
CountOn == bad' = bad /\ connected' = TRUE

BackOnline == bad' = 0 /\ connected' = TRUE

CollectOk ==
  /\ BusFree /\ link = "up"
  /\ snap' \in Readings
  /\ BackOnline
  /\ UNCHANGED <<handle, at, call, devVars, halted>>

(* What is cached about the device.                                         *)
ForgetCaches == started' = FALSE /\ mode' = "unknown" /\ strayed' = FALSE

\* A mutant for the model checker: of the caches, `started` alone is forgotten.
ForgetStarted == connected' = FALSE /\ started' = FALSE /\ UNCHANGED modes

NextBad      == IF bad < BadLimit THEN bad + 1 ELSE bad
ForgetDevice == connected' = FALSE /\ ForgetCaches

(* A failed poll voids the snapshot at once; the BadLimit-th in a row also  *)
(* forgets what was cached about the device.                                *)
CollectFail ==
  /\ BusFree
  /\ snap' = "none"
  /\ bad' = NextBad
  /\ IF bad' = BadLimit
       THEN /\ ForgetDevice
            /\ link' = IF link = "down" THEN "lost" ELSE link
       ELSE UNCHANGED <<connected, started, modes, link>>
  /\ UNCHANGED <<latch, auth, at, call, dev, halted>>

-----------------------------------------------------------------------------
(* The device and its line (external).                                      *)

DeviceObeys ==
  /\ dev.order # "none"
  /\ dev' = [dev EXCEPT !.order = "none",
                        !.run = IF dev.order = "start" THEN "running" ELSE "stopped"]
  /\ UNCHANGED <<handle, poll, at, call, link, halted>>

(* A protection trip, which also drops an order not carried out yet. *)
DeviceTrips ==
  /\ dev.run = "running"
  /\ dev' = [dev EXCEPT !.run = "stopped", !.order = "none"]
  /\ UNCHANGED <<handle, poll, at, call, link, halted>>

LinkDown ==
  /\ Outages /\ link = "up"
  /\ link' = "down"
  /\ UNCHANGED <<handle, poll, at, call, dev, halted>>

LinkUp ==
  /\ link # "up"
  /\ link' = "up"
  /\ UNCHANGED <<handle, poll, at, call, dev, halted>>

(* A power cycle, long enough for the collector to have noticed. *)
DeviceResets ==
  /\ link = "lost"
  /\ \E m \in Modes :
       dev' = [run |-> "stopped", order |-> "none", mode |-> m]
  /\ UNCHANGED <<handle, poll, at, call, link, halted>>

Device == DeviceObeys \/ DeviceTrips \/ LinkDown \/ LinkUp \/ DeviceResets

(* The process dies and comes back; the device and the line do not notice.  *)
HandleRestart ==
  /\ latch' = FALSE /\ auth' = FALSE /\ started' = FALSE
  /\ mode' = "unknown" /\ strayed' = FALSE
  /\ bad' = 0 /\ connected' = FALSE /\ snap' = "none"
  /\ at' = [s \in Senders |-> "idle"]
  /\ call' = [c \in Callers |-> "idle"]
  /\ halted' = FALSE
  /\ link' = IF link = "lost" THEN "down" ELSE link
  /\ UNCHANGED dev

-----------------------------------------------------------------------------
(* The handle on its own, under callers that may do anything at any time.   *)

AnyCaller(c) ==
  \/ EngageLatch(c) \/ ReleaseLatch(c) \/ AuthCheck(c) \/ CallStep(c)

PcsNext ==
  \/ \E s \in Senders : SendBegin(s) \/ Send(s)
  \/ \E c \in Callers : AnyCaller(c)
  \/ \E o \in Outcomes : Stop(o)
  \/ CollectOk \/ CollectFail
  \/ Device
  \/ HandleRestart

PcsSpec == PcsInit /\ [][PcsNext]_pcsVars

-----------------------------------------------------------------------------
(* Properties.                                                              *)

(* The handle keeps the promise of module RunPermit: once a stop has reached *)
(* the device under a latch, no start follows until the latch is released - *)
(* whatever sequences were in flight when it was set.  This is what the     *)
(* lock, the three looks at the latch and their order in send_* and         *)
(* ensure_started are for: a sender that saw no latch may still be anywhere *)
(* between its first look and its write of 500=1.                           *)
Permit == INSTANCE RunPermit WITH
            engaged <- latch, order <- dev.order, run <- dev.run

KeepsPermit == Permit!PermitSpec

(* The same as an invariant: a halted device is stopped or about to stop.   *)
HaltHolds == Permit!HaltIsFinal

(* Power registers are written in the mode the command is meant for: the    *)
(* const registers in const mode, the split ones in split mode.  ensure_mode *)
(* trusts its cache, which tick_once, stop and restarts must empty in time   *)
(* and only the lock protects.                                              *)
ModeEnsured == \A s \in Senders : at[s] = "power" => dev.mode = ModeOf[s]

(* It can fail in one way alone: a mode write that overrides a cached mode   *)
(* was carried out and its reply lost, and since then no mode write was      *)
(* acknowledged and the cache not emptied (ensure_mode, partial failure).    *)
PowerInMode == strayed \/ ModeEnsured

=============================================================================
