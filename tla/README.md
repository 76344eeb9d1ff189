# MUPC: TLA+ models, checks and proofs

`mupc/` is the control program of an energy-storage station: one process,
`mupcd`, reads a power conversion system (PCS), meters and inputs over Modbus
and GPIO, decides on power set points once a second, serves an IEC 104 master,
a local console and MQTT, and stops the PCS when a safety input trips. It is
Rust on tokio: almost every state is shared between tasks that interleave at
their awaits, and nearly every call to the outside may fail.

This directory models the parts of it in which the order of things matters,
checks them with TLC and proves the main results with TLAPS.

| Module | Models | Proofs |
|---|---|---|
| `RunPermit` | what the PCS handle promises the safety chain (abstract) | |
| `Pcs` | the PCS handle, its collector, device and line | `PcsProofs` |
| `Interlock` | the safety interlock on top of `Pcs`, with operator, senders, event table, crashes | `InterlockProofs` |
| `DecisionLoop` | the strategy's decision loop on top of `Pcs`: freshness, refusals, control period, resend cache | `DecisionLoopProofs` |
| `Idempotency` | the console's write path: client, envelope, table of request ids, handlers | `IdempotencyProofs` |
| `WriteBuffer` | the telemetry write buffer, its gate, and the shutdown of the process | `WriteBufferProofs` |
| `LatestValues` | the table of latest values and its change channel | (in `AcquisitionProofs`) |
| `Acquisition` | how a station's bits get into that table | `AcquisitionProofs` |
| `Iec104Uplink` | a status change's way from the table to the IEC 104 master | `AcquisitionProofs` |
| `PollSchedule` | when a port's read groups are polled, and their back-off | `PollScheduleProofs` |
| `MqttUplink` | publishing to the broker, the offline cache and its replay | `MqttUplinkProofs` |
| `MC*` | small instances for TLC, with the `.cfg` files of the same name | |

`Interlock` EXTENDS `Pcs` and composes it; `Pcs` implements `RunPermit`
(`KeepsPermit`). `DecisionLoop` EXTENDS `Pcs` too, with an interlock reduced to its
calls. `Iec104Uplink` EXTENDS `Acquisition`, which EXTENDS
`LatestValues`; `Iec104Uplink` implements `Acquisition` (`UplinkImplementsAcq`).
`Idempotency`, `WriteBuffer`, `PollSchedule` and `MqttUplink` stand alone.

To run: `tlc -config MCPcs.cfg MCPcs.tla`, and so on; `tlapm PcsProofs.tla`.

## Inventory

All paths are below `src/mupc/crates/`.

### Components that are modelled, in whole or in part

**PCS handle** (`mupc-southd/src/pcs`). State: `stopped_latched`,
`restart_authorized`, `started`, the cached mode, the collector's failure count
and snapshot, one async lock for the line. Operations: `send_dual_param`,
`send_tai_command` (downlink sequences of up to seven awaited steps), `stop`,
`authorize_restart`, `restore_interlock_latched`, `tick_once`. Called by the
strategy loop, the IEC 104 command handler and the interlock. Hard: the latch
changes under a sequence in flight; replies are lost after the device has
acted; the caches describe a device that may have been power-cycled. Correct
if: no start follows a stop under the latch; power goes out in its own mode.

**Safety interlock** (`mupc-core-bin/src/interlock.rs`). State: debounce
counters, the state machine (`prev`, `latched`, `stop_failed`,
`source_safe_since`), `last_stop_attempt`, `failsafe_preset`, and on disk the
triggered and cleared events. Operations: `restore_from_db`,
`sync_failsafe_latch`, `tick_frame` (sample, debounce, state machine,
`on_trigger`, `on_auto_release`, `post_stop_maintenance`), `request_release`,
`ack_m1`. Interacts with the PCS handle (calls), the event table, the inputs,
the console. Hard: runner and operator interleave at every await; the latch is
kept twice; stops are lost; queries fail; the process may die between any two
writes. Correct if: the two latches agree, every lasting source is heard, a
lasting latch stops the device, a failed stop can be cleared.

**Console write path** (`mupc-core-bin/src/idempotency.rs`, `interlock_ops.rs`,
`config_service.rs`; `local-display/src/console.rs`;
`display-proto/src/control.rs`). State: a map and an insertion order of request
ids with an age and a capacity; the client's last request. Operations: reserve,
complete, sweep, evict; begin, retry, time out; the envelope check. Hard:
retries race late answers, handlers vanish with their connection, three
boundaries in time must fit. Correct if: map and order stay one and bounded,
and nothing the client may resend is carried out twice.

**Telemetry write buffer and write gate** (`storage/src/services.rs`,
`write_gate.rs`). State: the buffer, `since_attempt`, a wake channel of one,
counters, the disk level, the degraded bit. Operations: `buffer_telemetry`,
`flush`, `requeue_front`, `trim_oldest`, `BatchGuard::drop`, `spawn_flush_timer`.
Hard: a batch is out of the buffer while its commit is awaited and may fail or be
aborted there. Correct if: nothing is lost silently or stored twice, the bound
and the order hold, everything reaches the disk in the end.

**Process assembly, shutdown and decision loop** (`mupc-core-bin/src/startup.rs`,
`main.rs`). The order of start-up fixes the initial states of the models;
`handle_command` is `Admit`/`Dispatch` of `Interlock`; `stop_producers` and the
last flush are in `WriteBuffer`; the decision loop is in `DecisionLoop`.

**Strategy engine and decision loop** (`strategy-engine/src/ai_integration.rs`,
`tai_storage.rs`; the 1 Hz task in `startup.rs`). State: the newest telemetry and
when it came, `last_cmd` and `last_control_ts` of the strategy, `last_sent_tai`,
`was_latched`. Operations: one round a second - look at the latch, judge the
telemetry, refuse with zero, repeat or control, skip what was sent before, send -
and `set_latest_data`. Hard: the power registers hold a set point, so what is skipped
as sent must be what the device has; the device is stopped behind the loop's back;
the latch is sampled; a send takes many awaits. Correct if: the cache is true, and
after any release, failure or refusal the device comes to do what the loop wants.

**South scheduler and acquisition** (`mupc-southd/src/scheduler.rs`,
`uplink.rs`; `SouthSink` in `mupc-core-bin/src/startup.rs`;
`data-processing/src/latest_values.rs`). State: per read group a due time, a
failure count and a tracker with the last reading; per station `offline_count`;
the table of values with qualities, station activity and a change channel of 64
batches. Operations: `due_round`, `poll_group`, `delay_group`, `handle_failure`,
`mark_success`, `on_station_telemetry`, `on_station_offline`,
`apply_bms_aggregates`, `apply`, `mark_station_offline`. One task per port writes;
the uplinks read. Hard: only changes are delivered, so a base line that is kept or
dropped at the wrong time loses a bit or floods the history; groups fail apart
from their station; a round knows only its own start. Correct if: the table shows
the last reading of a station that is online, an aggregate agrees with its bits,
nobody is polled too often or given up.

**Uplinks** (`mupc-core-bin/src/uplink.rs`, `gateway/src/iec104`,
`mqtt-bridge/src/north_client.rs`). State: per connection a queue, a reader and a
writer; the MQTT client's flag and queue, the cache with its drop evidence, a flag
for the drain. Operations: `spawn_cos`, `publish_asdus`, the connection's frames,
`publish_round`, `publish_or_cache`, `spawn_cache_drain`. Hard: a channel that
forgets, a full queue, a snapshot that races the changes after it, a connection
that comes back while a task waits. Correct if: with nothing under way the master
has what is fresh; no message is lost silently; the cache is sent when the
connection is back.

**Display protocol and local display** (`display-proto`, `local-display`). The
request life cycle and the replay window are in `Idempotency`; screens, touch
and frames are not modelled.

### Components that are not modelled

| Component | State and operations | What is hard, and the properties | Why not here |
|---|---|---|---|
| The rest of the strategy engine (`strategy-engine`) | ramps, integrators; the AI branch and its validator; peak shaving, anti-reverse, demand control | limits on floats | numerics; the AI branch cannot be reached in production (`local_priority`) |
| OTA (`ota-update`) | `OtaState`, task handles, firmware state file | test and set apart, cancel under a running download, crash between slot switch and confirm: one update at a time, never no bootable slot | only tests construct `OtaManagerImpl`; the firmware state file is planned (`Ota`) |
| Inter-core TCP (`intercore`) | connection, heartbeat count | reconnect against heartbeat timeout | superseded for the PCS by `mupc-southd` |
| Message bus, registry (`core`, `common`) | channels, maps behind one lock | none of its own | no protocol |
| Console and display host, alert feed, audit, logs (`mupc-core-bin`) | HTTP tasks, bounded feeds | how often a request is executed: in `Idempotency` | I/O |
| Configuration (`core_config`, `hot_apply`, `yaml_edit`) | files | parsing and edits | pure I/O; limits cited where used |
| AI engine, the rest of data processing | models, waveforms | numerics | stopped in the product; pure data |
| Plugins and device traits (`plugin-loader`, `device-trait`, `mqtt-plugin`, `rs485-plugin`, `hplc-plugin`, `iec61850-plugin`), `wireless`, `mupc-io` | drivers | device I/O | pure I/O; a failed input is an active level in `Interlock` |
| `security` | certificates | cryptography | no concurrent state |
| `system-monitor` | samples, thresholds | | thresholds; its disk level is `SetDiskUsage` |
| `sim-bridge` | test bench | | not part of the product |

Every hazard found in the code is in `PROJECT.json` under `hazards`, at its line,
with the properties that cover it or the reason why none does yet.

## How the models correspond to the code

Each definition's source lines are in `PROJECT.json` under `map`. In all modules
an action is what one task does between two points at which another may run: an
await, or the end of a lock section when two tasks share the state without
awaiting. A task's place is a variable (`at`, `call`, `pc`, `op`, `stage`).

### `Pcs` and `RunPermit`

A sender goes `idle`, `wait` (for the line's lock), `mode`, `ensure`, `read`,
`recheck`, `start`, `mark`, `power`; from `mode` on it holds the lock
(`Critical`). `EngageLatch`/`VoidAuth` and `AuthCheck`/`AuthReset`/`AuthGrant`
are the separate stores of `restore_interlock_latched` and `authorize_restart`,
which take no lock. `Stop` and the collector's `tick_once` are atomic because
they hold the lock throughout and nobody looks at the line without it.

A register write ends acknowledged, not executed, or (with `LostReplies`)
executed with its reply lost; the code sees the same error for the last two. The
device carries an order out some time after it has been acknowledged, trips on
its own, and may be power-cycled only while a long outage lasts (`link = "lost"`,
the collector has declared it). A power cycle shorter than the collector's
`BAD_LIMIT` failed polls is therefore assumed not to happen. `HandleRestart` is
the death and rebirth of the process. Clamping, power registers one by one, SOC,
and the write audit are left out: none of them changes this state.

The failure count is a `u32` in the code; here it stops at `BadLimit`, since the
code only compares it with that.

`strayed` is a history variable: the device has changed its mode behind the cached
`mode`. That takes a mode write that overrides a cached mode, is carried out, and has its
reply lost. It ends when the cache is emptied (an acknowledged stop, a declared outage, a
restart) or a mode write is acknowledged.

`halted` is a history variable: a stop has taken effect under the present latch.
`RunPermit` has only the latch, this bit, the order and the run state, and forbids
`OrderStart` under `halted`. Of the three looks a sender takes at the latch, the
promise needs the last: a stop takes the lock, so at that moment no sender is past
it. The first two spare the device useless writes.

### `Interlock`

`pc` walks the runner through restore, synchronisation and the steps of a frame;
`op` the operator's request (one at a time, as `op_in_flight` has it). Time is two
saturating ages, of the safe mark (up to `Hold`) and of the last stop attempt (up to
`Confirm`): the code compares both only with those limits. `raw` are the levels of
the inputs, changed at any moment by `Press` and `Unpress`; an input that did not
open (`broken`) reads active for good. `db` is the later of the two events on disk;
inserts may fail (`Record`) and so may each of the two restore queries
(`RestoreFromDb`: a failed query counts as no such event, so a failed "cleared"
query brings a cleared latch back). `Crash` keeps inputs, disk and device and makes
everything else new. A safe mark stands only over a latched controller with no source
in its memory (`TypeOK`); `MarkAfter` is the one rule that moves it in a frame.
`Alone(A)` is a step of the handle that no controller task takes.

### `DecisionLoop`

`stage` is the loop's place; in a send it is `busy` and `at` of module `Pcs` has the
step. `Decide` is everything between the look at the latch and the send: `Refuse`,
`Repeat` and `Control` are the three ways to a command, `SendIfNew` the comparison with
`last_sent_tai`. The awaits in between are taken together: they are on locks held for
an instant and, without a fresh BMS value, a reading of the state of charge; a package
that comes meanwhile is as good as one a moment later. What `control()` computes is
`want`, which any package may change; a package with no state of charge to go with it
asks for `"refuse"`. `since` is what `evaluate_sync` compares with the period, the newest
package's stamp less the last control's; it moves when a package comes, as in the code.
`wasLatched` and `lastSent` are the code's variables. The interlock is reduced to the
order of its writes (`lock`): controller, handle, stop until executed; release handle,
controller. A poll that succeeds is left out (it changes nothing anybody reads here),
one that fails is not. Long outages and power cycles are in `Pcs` and not here.
`surprised` is history: the device stopped and nothing tells the loop.

### `Idempotency`

An attempt is a handler task on the server. Its stages are the points between the
critical sections of the table: envelope checked (the clock is read there, once),
place taken, operation run, receipt stored. `Vanish` is hyper dropping the handler of
a closed connection at an await (external). `ran`, `evicted` and `delayed`
are history. The two clocks differ by a fixed `Skew`; steps of the wall clock are left
out, and so are queries, which share the client and its "last request" but write
nothing.

### `WriteBuffer`

A point is the number of its push. A writer checks the gate, pushes under the lock,
and maybe signals; the three are steps, since the timer runs on another thread, but
an abort never strikes between them, since no await lies there (`Leave` needs
`idle`). A flusher (the timer, the exit path) goes through gate, drain and commit.
`DropInCommit` is the drop of the timer's future inside `commit_batch`: the guard puts
the batch back, and SQLite's own thread may carry a COMMIT out all the same.
`StopProducers`, `AllOver`/`TimeUp` and `Exit` are `stop_producers`, `shutdown` and the
end of `main`. A flusher that panics meets the same guard as an aborted one and is not
modelled apart. `pushed`, `wakes`, `hooked`, `twice`, `unacked`, `late` and `flushed`
are history.

### `LatestValues`, `Acquisition`, `Iec104Uplink`

The port's task is `port`: a successful `poll_group` (`PollOk`) changes trackers and
counts, which nobody else reads, and leaves in `pending` what it will deliver; the
calls of the sink follow as steps (`Online`, `Deliver`, `Aggregate`), because other
tasks read the table between them. A group reads all its blocks or fails. `Resets`
is the rule that decides on base lines: the carrier's recovery resets all groups of
the station, a group's own recovery resets that group. `MarkOffline` changes
qualities and announces nothing, `Apply` announces values that changed: that gap
is what `NoChangeLost` is about. `active` is "polled within `stale_timeout_s`";
`Expire` takes it away at any time, because a group of bits alone makes no call in a
round without changes. Scalars only matter as the reason for a call.

`CosRecv` is one turn of `spawn_cos` up to the await in `publish_asdus`; `CosSend`
and `SnapSend` are one `send().await` each; `Write` is one frame of the writer.
The model's single connection may end and be accepted again at any time, which
also stands for the idle timeout. `lapsed` and `crossed` are history: points that
were not fresh since the snapshot was read (nothing promises their changes), and
points whose snapshot item was queued behind a newer one.

### `PollSchedule`

Times are relative (`due[e]` is `next_due - now`) and in ticks. A group more than one
interval late is kept as exactly one interval late: `due_round` treats both alike.
A round (`StartRound`, a `Poll` per group, `EndRound`) knows only its start: pauses
count from there (`PutOff`), `spent` ticks ago. `Rank` is the order of
`due_round`'s sort. Both failure counts stop where the back-off stops growing.
`since`, `before` and `streak` are history and saturate.

### `MqttUplink`

`pc` has the places of a publisher: `wait` (for its ticker), `round`, `look` (at the
connected flag), `send` (awaiting the client), `note` (recording a refusal), `warn`
(about to report drops), `record` (awaiting the insert of that event), and for the class
C task `spawn`, `batch`, `edges`. A drain takes a message out of the cache (`DrainPop`),
awaits the client, and puts it back if refused (`over`: its flag is still up while it
records that). `Connect` says when a connection may come back unseen: `run` waits at
least a second before it connects again, the class C task ticks at most a second apart,
so only a wait of that task hides the loss. Which front messages are older than the
window is left open (`aged`). A message in the client's queue arrives in the end: the
session is kept (`set_clean_session(false)`), redelivery is the library's.

Drops are numbered as they happen. Those in the cache's evidence are `unreported`; at
`warn` a publisher is held back by the cooldown (`HeldBack`) or takes them out
(`TakeEvidence`) into `taken`, and at `record` its event is stored (`Recorded`) or, with
`InsertFails`, refused by the database and left in the log (`Unrecorded`). `reported`
and `unrecorded` are history; other drops may come in while the insert is awaited.

## Runs

State counts are distinct states; times are with two workers.

| Run | States | Time | Question |
|---|---|---|---|
| `pcs` | 676,800 | 12 s | Two senders with different modes, two callers, lost replies, outages, trips, restarts: does the handle keep `RunPermit`, and does power go out in its mode unless the device has strayed from the cache? |
| `interlock_manual` | 8.0 M | 140 s | Manual release, one sender, a fragile input, failing disk, lost replies, a crash: do the latches agree, is a failed stop always under a latch, is the edge memory right after a release? Does the halt hold in the whole system? |
| `interlock_auto` | 117,000 | 60 s | Automatic release under fairness, a sender on its way, stops lost, nobody at the console: is every lasting source heard, the device stopped, and every safe latch released? |
| `decision_loop` | 978,000 | 115 s | The decision loop under latches, releases, acknowledgements, failed sends, lost replies, trips and stale telemetry: is the resend cache true, and does a device that may run come to run with what is wanted? |
| `idempotency` | 1.2 M | 45 s | Three requests, three attempts, a table of two: bounded, consistent, at most once? |
| `write_buffer` | 3.1 M | 110 s | A hooked writer and one without, failing commits, aborts, every shutdown: nothing lost, doubled, reordered or left behind? |
| `iec104_uplink` | 992,000 | 130 s | A battery with a group of alarm bits and a carrier, a channel and a queue of one: does the table mirror the readings, the aggregate its bits, and does the master get what is fresh? |
| `poll_schedule` | 1.7 M | 20 s | Three groups of two stations, reads of up to two ticks: is nobody caught up, forgotten or spared its pause? |
| `mqtt_uplink` | 809,000 | 155 s | A periodic task, the class C task, two drains, refusals, an event table that may fail: nothing lost silently, each drop accounted for once, the replay in order and started on every edge seen? |

Three runs show a property violated. They are disagreements between the code and
what it says of itself, with quotations in `PROJECT.json` under `findings`:

| Run | Property | What happens |
|---|---|---|
| `split_latch` | `LatchesAgree` | hold 0 (the default): a trigger latches the controller, the operator's release (the source is normal again) releases handle and controller, and only then the trigger latches the handle. Controller released, handle latched, and no path clears it. |
| `silent_alarm` | `NoChangeLost` | while the battery's carrier fails, its alarm group still delivers: the aggregate's new value is announced as invalid and skipped, and not announced when it is valid again. The master keeps the old alarm until the next change or interrogation. |
| `mqtt_stranded` | `CacheReplayed` | the class C task waits while the connection goes and comes back: its next tick sees no edge, nothing starts the replay, and the cache stays. |

`CHECK_DEADLOCK FALSE` stands where the system may stop: in `idempotency`
(the user may do nothing more, attempts are bounded), in `write_buffer` (the
process ends) and in `silent_alarm` (whose `Prompt` allows few steps).

### Bounds, and why they are enough

- `pcs`: `BadLimit = 2` is the least with a count to reset. Two senders with two modes
  are what there is (the strategy loop in split mode, IEC 104 in const mode). Two
  callers are the runner and the operator. Lost replies and long outages are both on.
- `interlock_manual`: one input and `Hold = 1` let the safe mark start, be lost and start
  again; ages saturate, so behaviours are unbounded in length. `MaxCrashes = 1`: a crash
  leaves nothing behind but disk and device, both of which are free in the initial states
  or reachable before it, so a second crash starts from states like the first's; the
  proofs hold for any number. `split_latch` has no sender: its property is about the
  latches only.
- `interlock_auto`: `Debounce = 2` is the least that distinguishes a new edge from a level.
  It has nobody at the console (`Unattended`): otherwise a release makes
  `LatchStops` easier, not harder, and the liveness graph far larger.
- `decision_loop`: one target besides zero, so that commands change, come back and are
  equal; `Period = 2` has a round to throttle, `StaleAfter = 1` is below it, so telemetry
  goes stale and comes back within a period. `BadLimit = 1`: any failed poll makes the
  handle forget.
- `idempotency`: a table of 2 with 3 requests evicts; 3 attempts give one request its
  retries or three requests an attempt each; `Ttl = Window = 2`, `Skew = 1`, time up to 3
  reaches both sides of all three boundaries. Requests and attempts are symmetric
  (no liveness is checked there).
- `write_buffer`: `Capacity = 2` is the least the configuration allows, `MaxPoints = 2`
  trims from the third point on, and four pushes make the buffer overflow across a
  failed batch of two. The proofs hold for any writers, capacity, limit and number of
  pushes.

- `iec104_uplink`: two bits are the least with an aggregate whose bits disagree in value
  and quality, and two groups the least in which one fails and the other goes on.
  `ChangeCap = QueueCap = 1`: every second batch overflows, every second item waits.
- `silent_alarm` restricts the instance (`Prompt`) so that nothing is read or expires
  while a change is under way: what is lost there is lost without any load.
- `poll_schedule`: intervals 1, 2 and 3, a fast group next to its carrier, reads up to two
  ticks, so a round may last six ticks: groups fall several intervals behind.
  `MaxShift = 2` reaches the end of the back-off. `Far = 20` is above every sum the
  properties compare (`FarAssumption`); proofs hold for any.
- `mqtt_uplink`: `CacheMax = ClientQueue = 1` makes the cache drop and the client block at
  once; two names of drains are enough, as one drain runs at a time (`MqttOneDrain`).
  `MaxSeq = 3` messages of one station: one in the cache, one in hand, one under way.

### Fairness, and what justifies it

- tokio polls every ready task: WF of the runner, the operator's begun requests
  (`Release`), the second steps of a call and a sender's sequence. Nobody owes a new
  request, a release, a press, a push or a shutdown.
- `tokio::sync::Mutex` is fair: a stop that waits for the lock gets it, although it is
  free only now and then: SF of `StopOnce`.
- A line that is retried for ever lets a stop and a poll through now and then: SF of
  `StopWith("ok")` and of the successful poll; the device carries out what it
  acknowledged: WF of `DeviceObeys`. `AutoReleases` needs more and says so in its
  premise: readings are valid in the end (`<>[](snap # "none")`).
- Time passes: WF of `Time`.
- `DecisionLoop`: the loop's task and a caller that has begun go on, seconds pass, the
  device obeys. Good replies, telemetry and acknowledgements are nobody's duty: they are
  the premise of `Follows`.
- The flush timer ticks for ever: WF of `TimerTick` and of the steps of its flush; a
  database asked again and again commits in the end: SF of `CommitOk("timer")`. The
  premise of `EventuallySettled` is that the disk level stays below 98%, the database
  sound and the process running.

- `Iec104Uplink`: the tasks run, the writer writes (a master that does not read ends in a
  disconnection by TCP, which the premise of `RaisedArrives` excludes), and tokio's
  channels serve their senders in turn: SF of `CosSend` and `SnapSend`. Nobody owes a
  poll, an interrogation or a connection.
- `MqttUplink`: tickers tick, tasks go on, the event loop delivers while connected, and the
  client's queue serves those who wait in turn: SF of `Sent`. Nobody owes a connection
  or a refusal.

Liveness is not checked with `Outages`: the model's outage may last for ever.

## Proofs

All theorems hold for every value of the constants allowed by the named assumptions
in the modules.

**`PcsProofs`.** `PcsTypeCorrect`; `HaltCorrect`, `PermitKept` (the refinement) and
`ModeCorrect`, all three with lost replies and outages.
- `HaltHolds` alone is not inductive: a sender at `start` would break it. `PermitInv`
  adds `NobodyStarts`: under a halt no sender is about to write 500=1. A stop finds the
  line free, so nobody is past its last look at the latch, and afterwards that look
  finds the latch set.
- `ModeInv` adds that one sequence is on the line, that the cached mode is the device's
  unless the device has strayed, that a line declared lost has an empty cache with no
  sequence behind its mode step, and that from there to `power` the device is in the
  sequence's mode, with the same exception. The exception is as narrow as the code allows:
  `strayed` is set by one outcome of one write and cleared by whatever repairs the cache;
  without it the statement (`ModeEnsured`) is false, see Known limits.

**`InterlockProofs`.** `UsesHandle`: every behaviour of the system is one of the handle
under arbitrary callers. With it the three results above carry over (`SystemHalts`,
`SystemKeepsPermit`, and `SystemInMode`, with lost replies). `TypeCorrect` (with the
statement about the safe mark), `StopFailedCorrect`, `ArmedCorrect`:
the last two are inductive as they stand. `LatchesAgreeCorrect`: with manual release and
a hold of at least one unit, the latches agree.
- `AgreeInv` says why the hold is needed: a release begins only on a mark as old as the
  hold, and there is no mark while the runner is between its two writes of the latches
  (`Unmarked`); once it has begun the controller stays latched, so no trigger can begin
  (`Excluded`). Without a hold this fails (`split_latch`). With automatic release it also
  fails while an operator's release is in flight.

**`DecisionLoopProofs`.** `LoopUsesHandle`: the loop is one of the handle's callers, so
`LoopKeepsPermit` and the types of the handle follow. `LoopTypeCorrect`, `CacheCorrect`:
for any targets, period and limit, with lost replies.
- `CacheTruthful` speaks of a loop at rest. `LoopInv` adds that the loop is busy exactly
  while a sequence is under way in the handle (`BusyIffSending`) and that what is under
  way is cached (`Underway`): the end of a send then either leaves the command on the
  device or clears the cache.

**`WriteBufferProofs`.** The type invariant (only proved) and all seven safety properties
of the `write_buffer` run. The sequence lemmas (`RangeConcat`, `Trim`, `SortedConcat`,
`TrimOrder`) say what putting together and trimming do; `RequeueEffect` and `PushEffect` say it of the steps;
`StepKinds` sorts the steps into those that move points and those that do not. Every
invariant rests on `Frame`: types, one flusher at a time until the timer is aborted, and
nothing in a flusher's hands outside its commit. On top of it
- `BoundInv`: a buffer one above its limit has just started a new count. It needs
  `Capacity >= 2`, as the comment in `buffer_telemetry` says, and shows its argument right;
- `Accounted` for `NothingLost`; `Apart` (a point is in one place) for `StoredOnce`;
- `OrderInv`: batches are sorted and older than the buffer, for `TimeOrder` and
  `DropsOldest`;
- `ExitInv`: while the exit path works and nobody was late, every hooked task is over,
  and what it took out of the buffer holds all their points that are not on disk or
  counted.

**`AcquisitionProofs`.** `AcqTypeCorrect`, `MirrorCorrect`, `AggregateCorrect`, for any
groups, bits, scalars, aggregate and channel; `UplinkTypeCorrect` and
`MasterCurrentCorrect` for any points of class C and any queue. The mirror holds only
between rounds and is not inductive: `MirrorInv` says of every bit of a group with a
base line, at any place of the port's task, that it is about to be delivered with its
last reading (`pending`), or that the table has the last reading as valid while the
station is online. A group keeps its base line over a failure of its own and over an
offline time; the argument is that the read which would rely on it resets it first
(`Resets`). `UplinkImplementsAcq`: a step of the composed uplink is a
step of the acquisition, a receive from its channel, or a stutter; hence
`UplinkInvariants`.
- `MasterCurrent` speaks of a system at rest. `UplinkInv` says at any moment of each point
  of class C that it is announced on the channel (or the channel has lagged, which
  announces everything: `Notified`), or that it is current where it is found last on its
  way (`Current`): in the batch under way; else, unless it was not fresh or was crossed,
  in the snapshot, in the queue, or at the master. `BroadcastLaw` is
  the channel's half (what is announced stays announced until it is read, also when the
  channel overflows), `UplinkStep` sorts the steps. TLC checked `UplinkInv` on the
  `iec104_uplink` instance first.

**`PollScheduleProofs`.** `InvCorrect`, from it the action properties
`NeverCatchesUp` and `AlwaysBacksOff`, and with `Waiting` also `ScheduleTypeCorrect` and
`NeverGivenUpCorrect`, for any groups, intervals and read times. `Inv`
relates due times to histories: what is left until `due` and what has passed since the
round before last exceed an interval (`Spaced`); the counts are the failures in a row,
or one behind until the round ends (`Counted`); what has passed and what is left cover
the pause, except in the round that has just failed (`Paused`).
- `NeverGivenUp` bounds waiting from above. What has passed and what is left of a pause
  do not exceed it (`Reached`), and a group that is due waits for the port's task at most
  (`Slack`). For that a round must end: the reads still to come fit into what is left of its
  greatest length (`ReadsFit`). `ShiftAssumption` states about powers of two what the proof
  needs and the provers cannot compute; it is true of every `MaxShift`, and TLC evaluates it.

**`MqttUplinkProofs`.** `MqttTypeCorrect` with the bound of the cache,
`MqttEvidenceKept`, and `MqttOneDrain`, on which the bound rests: at most one drain
has a message in hand, so put back the cache is one over its limit at most.
`MqttEvidenceKept`, with failing inserts: the drops so far are split without overlap into
those in the cache's evidence, in each report's hand, in a stored event, and in an event
the database refused. It needs that a publisher has evidence in hand only while it
awaits its insert (`InReport`), so taking the evidence never overwrites some.
`ReplayInOrderCorrect` and `NothingLostCorrect`, for any stations, tasks and sizes.
- Both follow from `LineInv`, about the one line of messages from what has arrived over the
  client's queue and the drain's hand to the cache: no message is in it twice, and those of one
  station and publisher that went through the cache stand in order (`Sorted`); a message in a
  publisher's hand is newer than all of its own in the line (`Fresh`); and what was issued
  is in the line, in a hand, or counted as dropped (`Tally`). A drain's message keeps its
  place when it is popped, refused and put back in front, so a drain does not change the line
  unless the full cache drops it.

**`IdempotencyProofs`.** `IdemTypeCorrect`, `TableBoundedCorrect`, `ExecutedOnceCorrect` and
the action property `FirstReceiptKeptCorrect`, for any requests, attempts, capacity and
times. One assumption relates two parts of the code: the replay window is no longer
than the time to live (`WindowAssumption`; a test of `control.rs` holds both at 30 s).
- `TableInv`: each key once in the order, and the same keys in the map. `SweepLaw`
  and the lemmas on eviction and insertion say that each of the table's operations keeps it. The
  swept order is defined by the positions that stay (`Nth`), so nothing about it needs an
  induction over sequences.
- `ExecutedOnce` is not inductive: the table forgets, and a forgotten request would
  be admitted again. `Remembered` adds why that does no harm. One attempt at most holds, has run
  or has answered a request, and a request that was admitted and is in the table no more is as
  old as the window (`Sole`), so its retries fail the envelope check. This needs that an
  entry is not stamped earlier than its request (`Stamped`), and that what has passed the
  envelope check is younger than the window as long as it was not slow (`Timely`).

**Only model-checked.** Liveness (`EdgeHeard`, `LatchStops`, `AutoReleases`,
`EventuallySettled`, `RaisedArrives`, `EdgeReplays`, `Follows`): out of the prover's reach.
`LatchesAgree` is checked and proved for manual release with a hold; under automatic
release it fails while an operator's release is in flight, and without one it is open.

## Known limits

- `StoredOnce` excludes a flusher dropped while the database carries its commit out
  (`unacked`). `services.rs:737` argues that no await lies between `tx.commit()`
  returning and `disarm()`; but the future may be dropped inside `tx.commit()`, with the
  COMMIT already handed to SQLite's thread. The batch is then put back and stored again.
  The model has that step; whether it happens is up to sqlx.
- `ExitFlushes` excludes a hooked task that was late. `startup.rs:93` says that its
  batch still goes to disk with the last flush; but the abort strikes at the task's
  next await, and the last flush may have drained the buffer by then.
- A last flush that the gate refuses returns `Ok(0)` and is logged as an empty buffer.
  `ExitFlushes` speaks of flushes that committed or found nothing.
- `authorize_restart` tests the latch, releases its lock and then grants: a trigger may
  come between, so a grant may stand under a latch. The model has it; the permit does
  not suffer, since a start looks at the latch last.
- With a hold shorter than the confirm window, an automatic release may come before the
  stop is known to have succeeded; no check of the configuration relates the two.
- A completion that outlives its place in the idempotency table is stored in the place of
  the next attempt at the same id, if that has taken it.
- The offline cache drops expired messages only from its front, and its report takes the
  last dropped time stamp of a push, not the greatest, as the end of the range
  (`uplink.rs:852`); stamps are not modelled.
- `MasterCurrent` excludes points whose snapshot item was overtaken (`crossed`): the
  snapshot is read before it is queued, so an older value may follow a newer one.
- `PowerInMode` excepts a device that has strayed from the cache. What happens then can be
  seen with `ModeEnsured` as the invariant of `MCPcs.cfg`: a mode write is carried out and
  its reply lost, `ensure_mode` keeps the old mode cached (`pcs/mod.rs:475`), and the next
  command of that mode finds a hit, skips the mode register and writes its power to a
  device in the other mode, which `collect.rs:228` calls a fail-open. Only a mode write
  acknowledged, a stop, an outage or a restart makes good for it.
- Drop evidence whose insert fails is in no event, past or to come: `warn_cache_drop` takes
  it (`uplink.rs:1524`) before the insert, whose failure leaves a log line (`:1547`).
  BF-4 of the PRD (`01-MUPC-通信网关-PRD.md:916`) wants evidence through queries or events.
  `EvidenceKept` counts such drops as `unrecorded`. Evidence held back by the cooldown waits for the next drop: no timer reports it, so after the last drop it may
  stay unreported for ever. No liveness of the report is claimed.
- `Follows` excepts stops the loop is not told of (`surprised`). A latch that comes and goes
  between two rounds, a trip, and a stop whose reply is lost leave `last_sent_tai`
  standing; the operator's acknowledgement authorises a start, but the loop has nothing
  to send until the target changes. With the lost reply the release does not help
  either: `started` stays cached, so the resend writes power to a stopped device.
- The comment of `reset_last_sent_tai` (`ai_integration.rs:660`) says that it is called
  after a reconnection, too; only the release of a latch calls it (`startup.rs:1830`).
- `tai_storage.rs:485` and `:529` say that control takes over at once after a refusal.
  The refusal stores zero as the last command and leaves the control period running, so
  within the period `evaluate_sync` repeats the zero (`Repeat`); control takes over when
  the period that began before the refusal is over.

## Plan

Done, in this order: `RunPermit`, `Pcs`, `Interlock`, `Idempotency`, `WriteBuffer`,
`LatestValues` with `Acquisition` and `Iec104Uplink`, `PollSchedule`, `MqttUplink`, `DecisionLoop`,
with the proofs above. Next, most important first:

1. Outages and power cycles in `DecisionLoop`, and the IEC 104 handler as a second sender
   in constant mode next to it.
2. Several connections in `Iec104Uplink`: a slow master in front of the others; classes A
   and B with their drop counters; select-before-operate of commands.
3. `Ota`: the firmware state file across a crash. Property: a bootable slot at any moment.
4. Event order on disk in `Interlock`: which event is last when a release and a trigger
   overlap, with the equal time stamps of `interlock.rs:983`.
5. `ConsoleOps`: `Idempotency` composed with the operator's requests of `Interlock`, so
   that a resent release is one release.
6. Check and prove `LatchesAgree` under automatic release with nobody at the console; an abstract
   table of receipts (a request is open, answered once, or forgotten after the window) that
   `Idempotency` implements.
