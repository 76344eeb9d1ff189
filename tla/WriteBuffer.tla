---------------------------- MODULE WriteBuffer ----------------------------
(***************************************************************************)
(* The telemetry write buffer (`WriteBuffer`, `BatchGuard` in               *)
(* crates/storage/src/services.rs), the gate in front of it (`WriteGate` in *)
(* write_gate.rs) and the way mupcd shuts it down (`stop_producers`,        *)
(* `StartupContext::shutdown` in crates/mupc-core-bin/src/startup.rs).      *)
(*                                                                         *)
(* WRITERS push points; a FLUSHER takes the whole buffer out, commits it    *)
(* and puts it back at the front when the commit fails or the flusher is    *)
(* dropped.  The timer flushes in a loop, the exit path once.  At shutdown  *)
(* tasks with a hook are asked to stop and waited for, the others aborted,  *)
(* and so are those that do not answer in time; an abort strikes at the     *)
(* task's next await.                                                       *)
(*                                                                         *)
(* Abstractions: a point is the number of its push; time between ticks and  *)
(* the log lines with their counters of refused points are left out.        *)
(***************************************************************************)
EXTENDS Naturals, Sequences, FiniteSets, Functions

CONSTANTS
  Writers,     \* tasks that push points
  Hooked,      \* those with a stop hook
  Capacity,    \* storage.batch_capacity
  MaxPoints,   \* max_points
  Pushes       \* bound on the points of one behaviour

ASSUME WritersAssumption  == Hooked \subseteq Writers /\ Writers \cap {"timer", "exit"} = {}
ASSUME CapacityAssumption == Capacity \in Nat /\ Capacity >= 2   \* validate_storage
ASSUME BoundsAssumption   == MaxPoints \in Nat \ {0} /\ Pushes \in Nat

Flushers == {"timer", "exit"}
Levels   == {"low", "critical", "emergency"}

VARIABLES
  level,      \* WriteGate.disk_level: below 95%, below 98%, or above
  degraded,   \* WriteGate.degraded, set at start-up or never
  buffer,     \* the points in the buffer, the front first
  since,      \* since_attempt
  wake,       \* the wake channel holds its one signal
  batch,      \* batch[f]: what flusher f has taken out
  at,         \* where each task is
  aborted,    \* tasks that have been aborted
  phase,      \* of the process: "running", "stopping", "flushing", "exited"
  stored,     \* rows on disk
  dropped,    \* points trimmed (dropped_points counts them)
  pushed,     \* history: number of points accepted
  wakes,      \* history: number of capacity triggers
  hooked,     \* history: points accepted from tasks with a hook
  twice,      \* history: rows inserted twice
  unacked,    \* history: a dropped flusher's commit went through
  late,       \* history: a hooked task did not stop in time
  flushed     \* history: the last flush committed, or had nothing to commit

gate    == <<level, degraded>>
queue   == <<buffer, since, dropped>>
history == <<pushed, wakes, hooked>>
exit    == <<phase, aborted, late, flushed>>
vars    == <<gate, queue, wake, batch, at, exit, stored, history, twice, unacked>>

Tasks == Writers \cup {"timer"}

TypeOK ==
  /\ level \in Levels /\ degraded \in BOOLEAN
  /\ buffer \in Seq(1..pushed) /\ since \in 0..(Capacity - 1) /\ wake \in BOOLEAN
  /\ batch \in [Flushers -> Seq(1..pushed)]
  /\ at \in [Writers \cup Flushers ->
               {"idle", "push", "wake", "gate", "drain", "commit", "over"}]
  /\ aborted \subseteq Tasks
  /\ phase \in {"running", "stopping", "flushing", "exited"}
  /\ pushed \in Nat /\ wakes \in Nat
  /\ stored \subseteq 1..pushed /\ dropped \subseteq 1..pushed
  /\ hooked \subseteq 1..pushed /\ twice \subseteq stored
  /\ unacked \in BOOLEAN /\ late \in BOOLEAN /\ flushed \in BOOLEAN

Init ==
  /\ level = "low" /\ degraded \in BOOLEAN
  /\ buffer = <<>> /\ since = 0 /\ wake = FALSE
  /\ batch = [f \in Flushers |-> <<>>]
  /\ at = [t \in Writers \cup Flushers |-> "idle"]
  /\ aborted = {} /\ phase = "running"
  /\ stored = {} /\ dropped = {} /\ pushed = 0 /\ wakes = 0
  /\ hooked = {} /\ twice = {}
  /\ unacked = FALSE /\ late = FALSE /\ flushed = FALSE

Goto(t, step) == at' = [at EXCEPT ![t] = step]
Alive == phase # "exited"

-----------------------------------------------------------------------------
(* The gate.  Nothing clears `degraded`; a reading that is not available    *)
(* leaves the level alone.                                                  *)

AllowsTelemetry == ~degraded /\ level = "low"

AllowsAnyWrite == ~degraded /\ level # "emergency"

SetDiskUsage ==
  /\ Alive
  /\ level' \in Levels \ {level}
  /\ UNCHANGED <<degraded, queue, wake, batch, at, exit, stored, history, twice, unacked>>

-----------------------------------------------------------------------------
(* The buffer under its lock.                                               *)

Excess(s) == IF Len(s) > MaxPoints THEN Len(s) - MaxPoints ELSE 0

\* A mutant for the model checker: drops the newest.
TrimNewest(s) ==
  /\ buffer' = SubSeq(s, 1, Len(s) - Excess(s))
  /\ dropped' = dropped \cup Range(SubSeq(s, Len(s) - Excess(s) + 1, Len(s)))

(* trim_oldest: `s` becomes the buffer, without what is too much in front. *)
TrimOldest(s) ==
  /\ buffer' = SubSeq(s, Excess(s) + 1, Len(s))
  /\ dropped' = dropped \cup Range(SubSeq(s, 1, Excess(s)))

\* Mutants for the model checker: no trimming, and the back instead of the front.
RequeueUntrimmed(f) == buffer' = batch[f] \o buffer /\ UNCHANGED dropped
RequeueBack(f)      == TrimOldest(buffer \o batch[f])

(* requeue_front: a failed batch is older than what came in meanwhile. *)
RequeueFront(f) == TrimOldest(batch[f] \o buffer)

-----------------------------------------------------------------------------
(* buffer_telemetry.  It holds no await: an abort never strikes inside it.  *)

CheckGate(w) ==
  /\ at[w] = "idle" /\ Alive
  /\ pushed + Cardinality({v \in Writers : at[v] = "push"}) < Pushes
  /\ AllowsTelemetry
  /\ Goto(w, "push")
  /\ UNCHANGED <<gate, queue, wake, batch, exit, stored, history, twice, unacked>>

\* A mutant for the model checker: the count goes on after a trigger.
SinceGrows(n) == n + 1

SinceTrigger(n) == 0

(* A push that completes Capacity new points since the last attempt asks    *)
(* for a flush and leaves the trimming to the next push.                    *)
Push(w) ==
  /\ at[w] = "push" /\ Alive
  /\ pushed' = pushed + 1
  /\ hooked' = IF w \in Hooked THEN hooked \cup {pushed'} ELSE hooked
  /\ IF since + 1 >= Capacity
       THEN /\ buffer' = Append(buffer, pushed')
            /\ since' = SinceTrigger(since)
            /\ wakes' = wakes + 1
            /\ Goto(w, "wake")
            /\ UNCHANGED dropped
       ELSE /\ TrimOldest(Append(buffer, pushed'))
            /\ since' = since + 1
            /\ Goto(w, "idle")
            /\ UNCHANGED wakes
  /\ UNCHANGED <<gate, wake, batch, exit, stored, twice, unacked>>

(* request_flush: one signal at most, none once the timer is gone. *)
RequestFlush(w) ==
  /\ at[w] = "wake" /\ Alive
  /\ wake' = (wake \/ at["timer"] # "over")
  /\ Goto(w, "idle")
  /\ UNCHANGED <<gate, queue, batch, exit, stored, history, twice, unacked>>

-----------------------------------------------------------------------------
(* flush, by the timer and by the exit path.                                *)

\* A mutant for the model checker: no ticks, only signals.
OnlyOnWake ==
  /\ at["timer"] = "idle" /\ Alive
  /\ wake /\ wake' = FALSE
  /\ Goto("timer", "gate")
  /\ UNCHANGED <<gate, queue, batch, exit, stored, history, twice, unacked>>

(* The timer's select: a tick, or a signal, which is taken out. *)
TimerTick ==
  /\ at["timer"] = "idle" /\ Alive
  /\ wake' \in {wake, FALSE}                      \* a tick leaves a signal there
  /\ Goto("timer", "gate")
  /\ UNCHANGED <<gate, queue, batch, exit, stored, history, twice, unacked>>

(* Where a flusher goes when its flush returns. *)
Return(f) == Goto(f, IF f = "timer" THEN "idle" ELSE "over")

FlushGate(f) ==
  /\ at[f] = "gate" /\ Alive
  /\ IF AllowsAnyWrite THEN Goto(f, "drain") ELSE Return(f)
  /\ UNCHANGED <<gate, queue, wake, batch, exit, stored, history, twice, unacked>>

Drain(f) ==
  /\ at[f] = "drain" /\ Alive
  /\ IF buffer = <<>>
       THEN /\ Return(f)
            /\ flushed' = (flushed \/ f = "exit")
            /\ UNCHANGED <<buffer, since, batch>>
       ELSE /\ batch' = [batch EXCEPT ![f] = buffer]
            /\ buffer' = <<>>
            /\ since' = 0
            /\ Goto(f, "commit")
            /\ UNCHANGED flushed
  /\ UNCHANGED <<gate, dropped, wake, phase, aborted, late, stored, history, twice, unacked>>

Insert(rows) ==
  /\ stored' = stored \cup rows
  /\ twice' = twice \cup (stored \cap rows)

\* A mutant for the model checker: the guard is left armed.
StillArmed(f) == RequeueFront(f) /\ since' = since

Disarm(f) == UNCHANGED queue

CommitOk(f) ==
  /\ at[f] = "commit" /\ Alive
  /\ Insert(Range(batch[f]))
  /\ Disarm(f)
  /\ batch' = [batch EXCEPT ![f] = <<>>]
  /\ flushed' = (flushed \/ f = "exit")
  /\ Return(f)
  /\ UNCHANGED <<gate, wake, phase, aborted, late, history, unacked>>

CommitFails(f) ==
  /\ at[f] = "commit" /\ Alive
  /\ RequeueFront(f)
  /\ batch' = [batch EXCEPT ![f] = <<>>]
  /\ Return(f)
  /\ UNCHANGED <<gate, since, wake, exit, stored, history, twice, unacked>>

\* A mutant for the model checker: a dropped flusher takes its batch along.
LoseBatch(f) == UNCHANGED <<buffer, dropped>>

GuardDrops(f) == RequeueFront(f)

(* The timer is dropped inside its commit.  The database has a thread of    *)
(* its own: a COMMIT already handed to it goes through all the same.        *)
DropInCommit ==
  /\ at["timer"] = "commit" /\ "timer" \in aborted /\ Alive
  /\ \/ Insert(Range(batch["timer"])) /\ unacked' = TRUE
     \/ UNCHANGED <<stored, twice, unacked>>
  /\ GuardDrops("timer")
  /\ batch' = [batch EXCEPT !["timer"] = <<>>]
  /\ Goto("timer", "over")
  /\ UNCHANGED <<gate, since, wake, exit, history>>

-----------------------------------------------------------------------------
(* Shutdown.                                                                *)

(* A task leaves at its await: told to, or aborted. *)
Leave(t) ==
  /\ at[t] = "idle" /\ Alive
  /\ t \in aborted \/ (phase # "running" /\ t \in Hooked \cup {"timer"})
  /\ Goto(t, "over")
  /\ UNCHANGED <<gate, queue, wake, batch, exit, stored, history, twice, unacked>>

(* stop_producers, steps 1 and 2. *)
StopProducers ==
  /\ phase = "running"
  /\ phase' = "stopping"
  /\ aborted' = Writers \ Hooked
  /\ UNCHANGED <<gate, queue, wake, batch, at, late, flushed, stored, history, twice, unacked>>

Cooperative == Hooked \cup {"timer"}
Remaining   == {t \in Cooperative : at[t] # "over"}

BeginLastFlush ==
  /\ phase' = "flushing"
  /\ Goto("exit", "gate")
  /\ UNCHANGED <<gate, queue, wake, batch, flushed, stored, history, twice, unacked>>

\* A mutant for the model checker: nobody is waited for.
WaitForNobody == TRUE

WaitOver == Remaining = {}

(* Step 3: everyone waited for is over, and the last flush begins. *)
AllOver ==
  /\ phase = "stopping" /\ WaitOver
  /\ BeginLastFlush
  /\ UNCHANGED <<aborted, late>>

(* ... or the time is up, and who remains is aborted. *)
TimeUp ==
  /\ phase = "stopping" /\ Remaining # {}
  /\ aborted' = aborted \cup Remaining
  /\ late' = TRUE
  /\ BeginLastFlush

(* shutdown has returned, or main's patience with it is over. *)
Exit ==
  /\ phase \in {"stopping", "flushing"}
  /\ phase' = "exited"
  /\ UNCHANGED <<gate, queue, wake, batch, at, aborted, late, flushed, stored, history, twice,
                 unacked>>

-----------------------------------------------------------------------------

Write(w) == CheckGate(w) \/ Push(w) \/ RequestFlush(w)
Flush(f) == FlushGate(f) \/ Drain(f) \/ CommitOk(f) \/ CommitFails(f)

Next ==
  \/ SetDiskUsage
  \/ \E w \in Writers : Write(w)
  \/ TimerTick
  \/ \E f \in Flushers : Flush(f)
  \/ DropInCommit
  \/ \E t \in Tasks : Leave(t)
  \/ StopProducers \/ AllOver \/ TimeUp \/ Exit

Spec == Init /\ [][Next]_vars

(* The timer's interval keeps ticking and its flush goes on; a database     *)
(* asked again and again commits in the end.  Nobody owes a push, a lower   *)
(* disk level or a shutdown.                                                *)
Fairness ==
  /\ WF_vars(TimerTick)
  /\ WF_vars(Flush("timer")) /\ SF_vars(CommitOk("timer"))

FairSpec == Spec /\ Fairness

-----------------------------------------------------------------------------
(* Properties.                                                              *)

(* The buffer never holds more than one point above its limit, whatever the *)
(* order of pushes, triggers and batches put back (buffer_telemetry's       *)
(* argument for Capacity >= 2, requeue_front).                              *)
Bounded == Len(buffer) <= MaxPoints + 1

(* Every point accepted is on disk, counted as dropped, in the buffer or in *)
(* the hands of a flusher: no failure and no abort loses one silently       *)
(* (BatchGuard).                                                            *)
NothingLost ==
  1..pushed = stored \cup dropped \cup Range(buffer)
                     \cup UNION {Range(batch[f]) : f \in Flushers}

(* No row is inserted twice, unless a flusher was dropped while the         *)
(* database carried its commit out (BatchGuard::disarm).                    *)
StoredOnce == ~unacked => twice = {}

(* The buffer is in the order of the pushes, batches put back included,     *)
(* while a single flusher is at work (requeue_front).                       *)
TimeOrder ==
  "timer" \notin aborted =>
    \A i, j \in DOMAIN buffer : i < j => buffer[i] < buffer[j]

(* A database that fails does not turn every push into a flush: a trigger   *)
(* costs Capacity new points (since_attempt).                               *)
NoStorm == wakes * Capacity + since <= pushed

(* What is dropped is older than all that stays in the buffer, again while  *)
(* a single flusher is at work (trim_oldest, requeue_front).                *)
DropsOldest ==
  [][("timer" \notin aborted =>
     \A n \in dropped' \ dropped : \A m \in Range(buffer') : n < m)]_vars

(* If every hooked task stopped in time and the last flush went through,    *)
(* none of their points is left in memory when the process exits (the order *)
(* of stop_producers and the last flush).                                   *)
ExitFlushes ==
  phase = "exited" /\ ~late /\ flushed => hooked \subseteq stored \cup dropped

(* When the points stop coming, every one of them is on disk or counted as  *)
(* dropped in the end, although less than a batch may be left and any       *)
(* number of commits fail; the disk level must only stay below 98%          *)
(* (spawn_flush_timer, flush).                                              *)
EventuallySettled ==
  <>[](~degraded /\ level # "emergency" /\ phase = "running") =>
    <>[](1..pushed = stored \cup dropped)

=============================================================================
