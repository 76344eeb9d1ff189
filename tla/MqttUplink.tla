----------------------------- MODULE MqttUplink -----------------------------
(***************************************************************************)
(* Publishing to the cloud's broker and the offline cache:                  *)
(* `MqttUplinkPublisher` and `OfflineCache` of                              *)
(* crates/mupc-core-bin/src/uplink.rs over `NorthMqttClient` of             *)
(* crates/mqtt-bridge/src/north_client.rs.                                  *)
(*                                                                         *)
(* Periodic tasks (classes A and B) and the class C task build messages,    *)
(* each with the next number of its station, and publish them; without a    *)
(* connection they go to the cache.  When the class C task's tick finds the *)
(* connection new, it publishes a full round and starts a task that sends   *)
(* what the cache holds, next to the others.                                *)
(*                                                                         *)
(* `publish` returns when the message is in the client's own queue; a full  *)
(* queue makes its caller wait, the event loop empties it while there is a  *)
(* connection.  A session is kept over a loss of the connection, so a       *)
(* message once in that queue arrives.                                      *)
(*                                                                         *)
(* Abstractions: a message is its station, its author and its number; which *)
(* messages at the front of the cache are past the time window is left      *)
(* open, and so are the minute between two reports and the state of a       *)
(* station (whether its points were ever read, whether it went on or off    *)
(* line).  The drops are numbered as they come, which is history: the code  *)
(* keeps how many they are and the span of their times.  The alarm after    *)
(* ten failures is left out, as is the daily look at the certificate.       *)
(***************************************************************************)
EXTENDS Integers, FiniteSets, Sequences

CONSTANTS
  Stations,    \* the stations of the publication plan
  Periodic,    \* the periodic tasks
  Cos,         \* the class C task
  Drains,      \* names for the tasks that empty the cache
  CacheMax,    \* cache_max_messages
  ClientQueue, \* places in the client's queue
  Refusals,    \* whether publish may fail although connected
  InsertFails, \* whether the database may refuse an event
  MaxSeq       \* bound: messages per station

Publishers == Periodic \union {Cos}
Tasks      == Publishers \union Drains

ASSUME TasksAssumption ==
  /\ IsFiniteSet(Stations) /\ IsFiniteSet(Tasks) /\ Drains # {}
  /\ Cos \notin Periodic /\ Publishers \intersect Drains = {}
ASSUME SizesAssumption ==
  CacheMax \in Nat \ {0} /\ ClientQueue \in Nat \ {0} /\ MaxSeq \in Nat
ASSUME FailuresAssumption == Refusals \in BOOLEAN /\ InsertFails \in BOOLEAN

VARIABLES
  connected,   \* NorthMqttClient::connected
  was,         \* was_connected of the class C task
  pending,     \* stations with changed points not yet published
  pc,          \* where a task is
  todo,        \* stations left in a publisher's round
  after,       \* where a publisher goes when its round is over
  hand,        \* the message a task holds: <<>> or <<m>>
  seq,         \* last number given out, per station
  cache,       \* OfflineCache::q
  draining,    \* the flag that one task empties the cache
  failing,     \* consecutive_failures # 0
  dropped,     \* OfflineCache::dropped (and dropped_total)
  unreported,  \* the drops in OfflineCache::pending_dropped
  taken,       \* the drops in a publisher's report, while it awaits the insert
  reported,    \* history: the drops in the events the database took
  unrecorded,  \* history: the drops in the events it refused, left in the log
  outq,        \* the client's queue
  broker       \* what the broker got

vars == <<connected, was, pending, pc, todo, after, hand, seq, cache, draining,
          failing, dropped, unreported, taken, reported, unrecorded, outq, broker>>

\* `late` marks what has been through the cache.
Messages == [st : Stations, by : Publishers, seq : 1 .. MaxSeq, late : BOOLEAN]

Places == {"off", "wait", "round", "look", "send", "note", "warn", "record", "spawn",
           "batch", "edges", "over"}

\* Where a task has a message in hand.
Publishing == {"look", "send", "note"}

Running == {d \in Drains : pc[d] # "off"}
Another == CHOOSE d \in Drains : d \notin Running
Holding == {d \in Drains : hand[d] # <<>>}

(* The types; the cache holds at most CacheMax messages, and one more when  *)
(* the drain has put its message back after others took the free place.     *)
TypeOK ==
  /\ connected \in BOOLEAN /\ was \in BOOLEAN /\ pending \subseteq Stations
  /\ pc \in [Tasks -> Places] /\ after \in [Publishers -> {"wait", "spawn", "edges"}]
  /\ todo \in [Publishers -> SUBSET Stations]
  /\ hand \in [Tasks -> Seq(Messages)]
  /\ \A t \in Tasks : Len(hand[t]) = IF pc[t] \in Publishing THEN 1 ELSE 0
  /\ seq \in [Stations -> 0 .. MaxSeq]
  /\ cache \in Seq(Messages)
  /\ Len(cache) <= IF Holding = {} THEN CacheMax + 1 ELSE CacheMax
  /\ draining \in BOOLEAN /\ failing \in BOOLEAN
  /\ dropped \in Nat /\ taken \in [Publishers -> SUBSET Nat]
  /\ unreported \subseteq Nat /\ reported \subseteq Nat /\ unrecorded \subseteq Nat
  /\ outq \in Seq(Messages) /\ Len(outq) <= ClientQueue /\ broker \in Seq(Messages)

Init ==
  /\ connected = FALSE /\ was = FALSE /\ pending = {}
  /\ pc = [t \in Tasks |-> IF t \in Drains THEN "off" ELSE "wait"]
  /\ todo = [t \in Publishers |-> {}] /\ after = [t \in Publishers |-> "wait"]
  /\ hand = [t \in Tasks |-> <<>>] /\ seq = [s \in Stations |-> 0]
  /\ cache = <<>> /\ draining = FALSE /\ failing = FALSE
  /\ dropped = 0 /\ unreported = {} /\ taken = [t \in Publishers |-> {}]
  /\ reported = {} /\ unrecorded = {}
  /\ outq = <<>> /\ broker = <<>>

evidence == <<unreported, taken, reported, unrecorded>>
tallies  == <<dropped, evidence>>
client   == <<connected, outq, broker>>

-----------------------------------------------------------------------------
(* The client and its broker.                                               *)

(* ConnAck.  run() sleeps a second before it connects again and the class C *)
(* task ticks more often, so it has looked in between unless something made *)
(* it wait: the client's full queue or the record of an event.              *)
Connect ==
  /\ ~connected /\ connected' = TRUE
  /\ was => pc[Cos] \in {"send", "note", "record"}
  /\ UNCHANGED <<was, pending, pc, todo, after, hand, seq, cache, draining, failing,
                 tallies, outq, broker>>

(* Packet::Disconnect or an error of poll.                                  *)
Disconnect ==
  /\ connected /\ connected' = FALSE
  /\ UNCHANGED <<was, pending, pc, todo, after, hand, seq, cache, draining, failing,
                 tallies, outq, broker>>

Deliver ==
  /\ connected /\ outq # <<>>
  /\ broker' = Append(broker, Head(outq)) /\ outq' = Tail(outq)
  /\ UNCHANGED <<connected, was, pending, pc, todo, after, hand, seq, cache, draining,
                 failing, tallies>>

-----------------------------------------------------------------------------
(* A round of a publisher.                                                  *)

Begin(t, S, then) ==
  /\ pc' = [pc EXCEPT ![t] = IF S = {} THEN then ELSE "round"]
  /\ todo' = [todo EXCEPT ![t] = S] /\ after' = [after EXCEPT ![t] = then]

\* Where a publisher goes with the stations of `rest` left in its round.
Onward(t, rest) == IF rest = {} THEN after[t] ELSE "round"

PeriodicTick(t) ==
  /\ pc[t] = "wait" /\ Begin(t, Stations, "wait")
  /\ UNCHANGED <<was, pending, hand, seq, cache, draining, failing, tallies, client>>

(* build_message gives the message its station's next number ...            *)
Build(t, s) ==
  /\ pc[t] = "round" /\ s \in todo[t] /\ seq[s] < MaxSeq
  /\ todo' = [todo EXCEPT ![t] = @ \ {s}]
  /\ seq' = [seq EXCEPT ![s] = @ + 1]
  /\ hand' = [hand EXCEPT ![t] =
                <<[st |-> s, by |-> t, seq |-> seq[s] + 1, late |-> FALSE]>>]
  /\ pc' = [pc EXCEPT ![t] = "look"]
  /\ UNCHANGED <<was, pending, after, cache, draining, failing, tallies, client>>

(* ... or none: no point of the station has ever been read.                 *)
Skip(t, s) ==
  /\ pc[t] = "round" /\ s \in todo[t]
  /\ todo' = [todo EXCEPT ![t] = @ \ {s}]
  /\ pc' = [pc EXCEPT ![t] = Onward(t, todo[t] \ {s})]
  /\ UNCHANGED <<was, pending, after, hand, seq, cache, draining, failing, tallies, client>>

-----------------------------------------------------------------------------
(* publish_or_cache.                                                        *)

\* A mutant for the model checker: makes room for nobody before it appends.
PushTrimsFirst(m, aged) ==
  LET rest == SubSeq(cache, aged + 1, Len(cache))
      over == IF Len(rest) > CacheMax + 1 THEN Len(rest) - CacheMax - 1 ELSE 0
  IN  [q |-> Append(SubSeq(rest, over + 1, Len(rest)), m), gone |-> aged + over]

(* OfflineCache::push drops the front messages past the window, appends,    *)
(* and drops the oldest over the limit.                                     *)
Push(m, aged) ==
  LET all  == Append(SubSeq(cache, aged + 1, Len(cache)), m)
      over == IF Len(all) > CacheMax THEN Len(all) - CacheMax ELSE 0
  IN  [q |-> SubSeq(all, over + 1, Len(all)), gone |-> aged + over]

ToCache(t) ==
  \E aged \in 0 .. Len(cache) :
    LET p == Push([hand[t][1] EXCEPT !.late = TRUE], aged)
    IN  /\ cache' = p.q
        /\ dropped' = dropped + p.gone
        /\ unreported' = unreported \union (dropped + 1 .. dropped + p.gone)
        /\ hand' = [hand EXCEPT ![t] = <<>>]
        /\ pc' = [pc EXCEPT ![t] = IF p.gone > 0 THEN "warn" ELSE Onward(t, todo[t])]
        /\ UNCHANGED <<was, pending, todo, after, seq, draining, taken, reported, unrecorded,
                       client>>

LookConnected(t) ==
  /\ pc[t] = "look" /\ connected /\ pc' = [pc EXCEPT ![t] = "send"]
  /\ UNCHANGED <<was, pending, todo, after, hand, seq, cache, draining, failing, tallies,
                 client>>

LookCache(t) ==
  /\ pc[t] = "note" \/ (pc[t] = "look" /\ ~connected)
  /\ ToCache(t) /\ UNCHANGED failing

(* publish_raw of a publisher or a drain has found a place in the client.   *)
Sent(t) ==
  /\ pc[t] = "send" /\ Len(outq) < ClientQueue
  /\ outq' = outq \o hand[t] /\ hand' = [hand EXCEPT ![t] = <<>>]
  /\ failing' = FALSE
  /\ pc' = [pc EXCEPT ![t] = IF t \in Drains THEN "wait" ELSE Onward(t, todo[t])]
  /\ UNCHANGED <<was, pending, todo, after, seq, cache, draining, tallies, connected, broker>>

(* A refusal is noted (note_failure may record an event) before the cache.  *)
Refused(t) ==
  /\ Refusals /\ pc[t] = "send" /\ pc' = [pc EXCEPT ![t] = "note"] /\ failing' = TRUE
  /\ UNCHANGED <<was, pending, todo, after, hand, seq, cache, draining, tallies, client>>

(* warn_cache_drop reports once a minute: held back, a drop stays for the    *)
(* next report ...                                                          *)
HeldBack(t) ==
  /\ pc[t] = "warn" /\ pc' = [pc EXCEPT ![t] = Onward(t, todo[t])]
  /\ UNCHANGED <<was, pending, todo, after, hand, seq, cache, draining, failing, tallies,
                 client>>

(* ... else it takes the evidence under the lock, and writes it to the log. *)
TakeEvidence(t) ==
  /\ pc[t] = "warn" /\ pc' = [pc EXCEPT ![t] = "record"]
  /\ taken' = [taken EXCEPT ![t] = unreported] /\ unreported' = {}
  /\ UNCHANGED <<was, pending, todo, after, hand, seq, cache, draining, failing, dropped,
                 reported, unrecorded, client>>

\* A mutant for the model checker: the evidence is cleared after the event is in, and
\* what others have dropped meanwhile with it.
RecordedClears(t) ==
  reported' = reported \union taken[t] /\ unreported' = {} /\ UNCHANGED unrecorded

(* The database took the event.                                             *)
Recorded(t) ==
  reported' = reported \union taken[t] /\ UNCHANGED <<unreported, unrecorded>>

(* It refused: what is left of the report is a line of the log.             *)
Unrecorded(t) ==
  /\ InsertFails /\ unrecorded' = unrecorded \union taken[t]
  /\ UNCHANGED <<unreported, reported>>

(* The answer of the insert of the event.                                   *)
Record(t) ==
  /\ pc[t] = "record" /\ pc' = [pc EXCEPT ![t] = Onward(t, todo[t])]
  /\ Recorded(t) \/ Unrecorded(t)
  /\ taken' = [taken EXCEPT ![t] = {}]
  /\ UNCHANGED <<was, pending, todo, after, hand, seq, cache, draining, failing, dropped,
                 client>>

-----------------------------------------------------------------------------
(* The class C task.                                                        *)

(* Changes of the latest values name points, a lag all of them.             *)
CosRecv(S) ==
  /\ pc[Cos] = "wait" /\ pending' = pending \union S
  /\ UNCHANGED <<was, pc, todo, after, hand, seq, cache, draining, failing, tallies, client>>

CosTick ==
  /\ pc[Cos] = "wait" /\ was' = connected
  /\ IF connected /\ ~was
     THEN Begin(Cos, Stations, "spawn")
     ELSE pc' = [pc EXCEPT ![Cos] = "batch"] /\ UNCHANGED <<todo, after>>
  /\ UNCHANGED <<pending, hand, seq, cache, draining, failing, tallies, client>>

\* A mutant for the model checker: a drain more, whatever goes on.
SpawnBlind ==
  /\ pc[Cos] = "spawn"
  /\ pc' = [pc EXCEPT ![Cos] = "batch", ![Another] = "wait"]
  /\ draining' = TRUE
  /\ UNCHANGED <<was, pending, todo, after, hand, seq, cache, failing, tallies, client>>

(* spawn_cache_drain: one at a time.                                        *)
Spawn ==
  /\ pc[Cos] = "spawn"
  /\ pc' = IF draining THEN [pc EXCEPT ![Cos] = "batch"]
           ELSE [pc EXCEPT ![Cos] = "batch", ![Another] = "wait"]
  /\ draining' = TRUE
  /\ UNCHANGED <<was, pending, todo, after, hand, seq, cache, failing, tallies, client>>

CosBatch ==
  /\ pc[Cos] = "batch" /\ Begin(Cos, pending, "edges") /\ pending' = {}
  /\ UNCHANGED <<was, hand, seq, cache, draining, failing, tallies, client>>

(* publish_station_edges: a message for each station gone on or off line.   *)
CosEdges(S) ==
  /\ pc[Cos] = "edges" /\ Begin(Cos, S, "wait")
  /\ UNCHANGED <<was, pending, hand, seq, cache, draining, failing, tallies, client>>

-----------------------------------------------------------------------------
(* The task that empties the cache.                                         *)

DrainPop(d) ==
  /\ pc[d] = "wait" /\ connected /\ cache # <<>>
  /\ hand' = [hand EXCEPT ![d] = <<Head(cache)>>] /\ cache' = Tail(cache)
  /\ pc' = [pc EXCEPT ![d] = "send"]
  /\ UNCHANGED <<was, pending, todo, after, seq, draining, failing, tallies, client>>

\* A mutant for the model checker: the flag is not lowered.
FlagStays(d) == pc' = [pc EXCEPT ![d] = "off"] /\ draining' = draining

(* The drain is over, and its flag down.                                    *)
FlagDown(d) == pc' = [pc EXCEPT ![d] = "off"] /\ draining' = FALSE

DrainOver(d) ==
  /\ pc[d] = "over" \/ (pc[d] = "wait" /\ (~connected \/ cache = <<>>))
  /\ FlagDown(d)
  /\ UNCHANGED <<was, pending, todo, after, hand, seq, cache, failing, tallies, client>>

\* A mutant for the model checker: the message is forgotten.
PutNowhere(m) == cache

(* OfflineCache::push_front.                                                *)
PutBack(m) == <<m>> \o cache

(* The flag stays up while the failure is noted.                            *)
DrainRefused(d) ==
  /\ Refusals /\ pc[d] = "send" /\ cache' = PutBack(hand[d][1])
  /\ hand' = [hand EXCEPT ![d] = <<>>] /\ failing' = TRUE
  /\ pc' = [pc EXCEPT ![d] = "over"]
  /\ UNCHANGED <<was, pending, todo, after, seq, draining, tallies, client>>

-----------------------------------------------------------------------------
PublisherStep(t) ==
  \/ \E s \in Stations : Build(t, s) \/ Skip(t, s)
  \/ LookConnected(t) \/ LookCache(t)
  \/ HeldBack(t) \/ TakeEvidence(t) \/ Record(t)

CosStep == CosTick \/ Spawn \/ CosBatch \/ \E S \in SUBSET Stations : CosEdges(S)

DrainStep(d) == DrainPop(d) \/ DrainOver(d)

Next ==
  \/ Connect \/ Disconnect \/ Deliver
  \/ \E t \in Periodic : PeriodicTick(t)
  \/ \E t \in Publishers : PublisherStep(t) \/ Refused(t)
  \/ \E S \in SUBSET Stations \ {{}} : CosRecv(S)
  \/ CosStep
  \/ \E d \in Drains : DrainStep(d) \/ DrainRefused(d)
  \/ \E t \in Tasks : Sent(t)

Spec == Init /\ [][Next]_vars

(* The timers go on, a task runs on when it can, the event loop sends while *)
(* it is connected, and the client's queue serves those who wait in turn.   *)
Fairness ==
  /\ WF_vars(Deliver) /\ WF_vars(CosStep)
  /\ \A t \in Publishers : WF_vars(PublisherStep(t))
  /\ \A d \in Drains : WF_vars(DrainStep(d))
  /\ \A t \in Tasks : SF_vars(Sent(t))

FairSpec == Spec /\ Fairness

-----------------------------------------------------------------------------
(* Every message made is in exactly one place (with its author, in the      *)
(* cache, with a drain, in the client's queue, at the broker) or counted as *)
(* dropped: none is lost silently, and none is sent twice.                  *)
Issued == Cardinality({n \in Stations \X (1 .. MaxSeq) : n[2] <= seq[n[1]]})

InHands == {t \in Tasks : hand[t] # <<>>}

Everywhere == cache \o outq \o broker

NothingLost ==
  /\ Issued = Len(Everywhere) + Cardinality(InHands) + dropped
  /\ \A i, j \in DOMAIN Everywhere :
       i # j => \/ Everywhere[i].st # Everywhere[j].st
                \/ Everywhere[i].seq # Everywhere[j].seq
  /\ \A t \in InHands, i \in DOMAIN Everywhere :
       \/ Everywhere[i].st # hand[t][1].st \/ Everywhere[i].seq # hand[t][1].seq
  /\ \A t, u \in InHands :
       t # u => hand[t][1].st # hand[u][1].st \/ hand[t][1].seq # hand[u][1].seq

(* Each drop is accounted for once: kept for the next report, in one report *)
(* under way, in an event, or in one the database refused - however reports *)
(* are held back, several publishers report at a time, and messages are     *)
(* dropped while a report awaits its insert.                                *)
Taken == UNION {taken[t] : t \in Publishers}

EvidenceKept ==
  /\ 1 .. dropped = unreported \union Taken \union reported \union unrecorded
  /\ unreported \intersect (Taken \union reported \union unrecorded) = {}
  /\ Taken \intersect (reported \union unrecorded) = {}
  /\ reported \intersect unrecorded = {}
  /\ \A t, u \in Publishers : t # u => taken[t] \intersect taken[u] = {}

(* What went through the cache reaches the broker in the order of its       *)
(* numbers, author by author, next to live messages, drops, and drains that *)
(* failed and put their message back.                                       *)
Held == IF Holding = {} THEN <<>> ELSE hand[CHOOSE d \in Holding : TRUE]

\* The way to the broker, from its far end.
Line == broker \o outq \o Held \o cache

ReplayInOrder ==
  \A i, j \in DOMAIN Line :
    /\ i < j /\ Line[i].late /\ Line[j].late
    /\ Line[i].st = Line[j].st /\ Line[i].by = Line[j].by
    => Line[i].seq < Line[j].seq

(* When the class C task has seen a new connection, the cache is emptied,   *)
(* unless the connection goes, the client refuses a message, or the drain   *)
(* before is still noting its own refusal.                                  *)
EdgeReplays ==
  pc[Cos] = "spawn" /\ (\A d \in Drains : pc[d] # "over")
    ~> (cache = <<>> \/ ~connected \/ failing)

(* What PRD 8.6.5 BF-1 asks for: once the connection is back for good, what *)
(* was cached is sent.                                                      *)
CacheReplayed == <>[]connected => []<>(cache = <<>>)
=============================================================================
