---------------------------- MODULE Iec104Uplink ----------------------------
(***************************************************************************)
(* The way of a status change to the IEC 104 master: the class C task of    *)
(* `Iec104UplinkDriver` (crates/mupc-core-bin/src/uplink.rs), the server's  *)
(* tasks for one connection (crates/gateway/src/iec104/server.rs and        *)
(* connection.rs), and the master.                                          *)
(*                                                                         *)
(* The task takes a batch, reads the points in it and puts what is fresh    *)
(* into the connection's queue; the connection's writer empties the queue.  *)
(* The connection's reader answers the master: after STARTDT it reads a     *)
(* snapshot and puts it into the same queue, a general interrogation it     *)
(* answers past the queue, holding the writer's lock.                       *)
(*                                                                         *)
(* Abstractions: one station and one connection at a time; a frame is one   *)
(* point with its value; classes A and B, commands, sequence numbers and    *)
(* the idle timeout are left out (a disconnection may come at any time).    *)
(***************************************************************************)
EXTENDS Acquisition, SequencesExt

CONSTANTS
  ClassC,      \* points of class C on channel IEC104
  QueueCap     \* TELEMETRY_CHANNEL_CAPACITY

ASSUME ClassCAssumption == ClassC \subseteq Points /\ IsFiniteSet(ClassC)
ASSUME QueueCapAssumption == QueueCap \in Nat \ {0}

VARIABLES
  cos,         \* items of the batch being published, not yet in the queue
  link,        \* of the connection: "down", "up" (accepted), "started", "stopped"
  snap,        \* items of the snapshot not yet in the queue
  queue,       \* the connection's queue
  master,      \* what the master has been told, "none" if nothing
  lapsed,      \* history: points not fresh at some time since the snapshot was read
  crossed      \* history: points whose last item in the queue is older than another

uplink == <<cos, link, snap, queue, master>>
vars   == <<acqVars, uplink, lapsed, crossed>>

Items == ClassC \X Bit

TypeOK ==
  /\ AcqTypeOK
  /\ cos \in Seq(Items) /\ snap \in Seq(Items)
  /\ queue \in Seq(Items) /\ Len(queue) <= QueueCap
  /\ link \in {"down", "up", "started", "stopped"}
  /\ master \in [ClassC -> Values]
  /\ lapsed \subseteq ClassC /\ crossed \subseteq ClassC

Init ==
  /\ AcqInit
  /\ cos = <<>> /\ link = "down" /\ snap = <<>> /\ queue = <<>>
  /\ master = [p \in ClassC |-> "none"]
  /\ lapsed = ClassC /\ crossed = {}

(* build_items: one item per fresh point, in the order of the point table.  *)
ItemsOf(S) == SetToSeq({<<p, value[p]>> : p \in {q \in S : Fresh(q)}})

Named(s) == {s[i][1] : i \in DOMAIN s}

-----------------------------------------------------------------------------
(* The class C task.                                                        *)

\* A mutant for the model checker: Lagged is passed over.
CosRecvDeaf ==
  /\ cos = <<>> /\ Recv
  /\ cos' = IF link = "down" \/ lagged THEN <<>> ELSE ItemsOf(ClassC \cap Head(changes))
  /\ UNCHANGED <<table, station, port, pending, link, snap, queue, master, crossed>>

(* After Lagged everything is read again, else what the batch names.         *)
(* publish_asdus takes the senders there are now: without one the items go.  *)
CosRecv ==
  /\ cos = <<>> /\ Recv
  /\ LET S == IF lagged THEN ClassC ELSE ClassC \cap Head(changes)
     IN  cos' = IF link = "down" THEN <<>> ELSE ItemsOf(S)
  /\ UNCHANGED <<table, station, port, pending, link, snap, queue, master, crossed>>

\* A mutant for the model checker: the queue has no end.
CosSendUnbounded ==
  /\ cos # <<>>
  /\ queue' = Append(queue, Head(cos))
  /\ cos' = Tail(cos)
  /\ LET p == Head(cos)[1]
     IN  crossed' = IF p \in Named(snap) THEN crossed \cup {p} ELSE crossed \ {p}
  /\ UNCHANGED <<acqVars, link, snap, master>>

\* A mutant for the model checker: try_send, as for classes A and B.
CosTrySend ==
  /\ cos # <<>>
  /\ queue' = IF Len(queue) < QueueCap THEN Append(queue, Head(cos)) ELSE queue
  /\ cos' = Tail(cos)
  /\ LET p == Head(cos)[1]
     IN  crossed' = IF p \in Named(snap) THEN crossed \cup {p} ELSE crossed \ {p}
  /\ UNCHANGED <<acqVars, link, snap, master>>

(* send().await of one item: waits while the queue is full.                 *)
CosSend ==
  /\ cos # <<>> /\ Len(queue) < QueueCap
  /\ queue' = Append(queue, Head(cos))
  /\ cos' = Tail(cos)
  /\ LET p == Head(cos)[1]
     IN  crossed' = IF p \in Named(snap) THEN crossed \cup {p} ELSE crossed \ {p}
  /\ UNCHANGED <<acqVars, link, snap, master>>

-----------------------------------------------------------------------------
(* The connection.                                                          *)

Accept ==
  /\ link = "down"
  /\ link' = "up"
  /\ UNCHANGED <<acqVars, cos, snap, queue, master, crossed>>

(* The writer: one item, one frame; before STARTDT as well.                 *)
Write ==
  /\ queue # <<>>
  /\ master' = [master EXCEPT ![Head(queue)[1]] = Head(queue)[2]]
  /\ queue' = Tail(queue)
  /\ UNCHANGED <<acqVars, cos, link, snap, crossed>>

(* The reader takes the next frame when it has sent the snapshot before it. *)
ReaderReady == link # "down" /\ snap = <<>>

\* A mutant for the model checker: no snapshot.
StartDtBare ==
  /\ ReaderReady
  /\ link' = "started"
  /\ UNCHANGED <<acqVars, cos, snap, queue, master, crossed>>

(* STARTDT, and the snapshot read after it (on_connection_snapshot).        *)
StartDt ==
  /\ ReaderReady
  /\ link' = "started"
  /\ snap' = ItemsOf(ClassC)
  /\ UNCHANGED <<acqVars, cos, queue, master, crossed>>

StopDt ==
  /\ ReaderReady
  /\ link' = "stopped"
  /\ UNCHANGED <<acqVars, cos, snap, queue, master, crossed>>

SnapSend ==
  /\ snap # <<>> /\ Len(queue) < QueueCap
  /\ queue' = Append(queue, Head(snap))
  /\ snap' = Tail(snap)
  /\ UNCHANGED <<acqVars, cos, link, master, crossed>>

(* handle_interrogation, under the writer's lock.                           *)
Interrogate ==
  /\ ReaderReady
  /\ master' = [p \in ClassC |-> IF Fresh(p) THEN value[p] ELSE master[p]]
  /\ UNCHANGED <<acqVars, cos, link, snap, queue, crossed>>

(* The connection ends: queue and reader go, and a publish under way has no *)
(* receiver any more.                                                       *)
Disconnect ==
  /\ link # "down"
  /\ link' = "down"
  /\ cos' = <<>> /\ snap' = <<>> /\ queue' = <<>>
  /\ master' = [p \in ClassC |-> "none"]
  /\ crossed' = {}
  /\ UNCHANGED acqVars

-----------------------------------------------------------------------------

(* The history of freshness starts over with each snapshot.                 *)
Stale == {p \in ClassC : ~Fresh(p)}
Tracked(A) == A /\ lapsed' = lapsed \cup Stale'

Acquire(A) == A /\ UNCHANGED <<uplink, crossed>>

Next ==
  \/ Tracked(Acquire(AcqNext))
  \/ Tracked(CosRecv) \/ Tracked(CosSend)
  \/ Tracked(Accept) \/ Tracked(Write) \/ Tracked(SnapSend)
  \/ Tracked(StopDt) \/ Tracked(Interrogate)
  \/ StartDt /\ lapsed' = Stale'
  \/ Disconnect /\ lapsed' = ClassC

(* The tasks run on a fair scheduler and the channels serve their senders    *)
(* in turn; the master reads what is written.                                *)
Fairness ==
  /\ WF_vars(Tracked(Acquire(Sink))) /\ WF_vars(Tracked(CosRecv))
  /\ SF_vars(Tracked(CosSend)) /\ SF_vars(Tracked(SnapSend)) /\ WF_vars(Tracked(Write))

Spec     == Init /\ [][Next]_vars
FairSpec == Spec /\ Fairness

-----------------------------------------------------------------------------
Quiet ==
  /\ port = "idle" /\ changes = <<>> /\ ~lagged
  /\ cos = <<>> /\ snap = <<>> /\ queue = <<>> /\ link \in {"started", "stopped"}

(* With nothing under way the master has the table's value of every point    *)
(* that has been fresh since the snapshot was read, unless an item of that   *)
(* snapshot was queued behind a newer one: batches overwritten in the        *)
(* channel, a full queue, batches taken while nobody was connected and       *)
(* interrogations answered past the queue lose no change (publish_asdus of   *)
(* class C, the re-reading after Lagged, the snapshot after STARTDT).        *)
MasterCurrent ==
  Quiet => \A p \in ClassC \ (lapsed \cup crossed) : master[p] = value[p]

(* A status that is raised and stays is at the master in the end and stays   *)
(* there, however long its queue is full and however often the channel       *)
(* overflows (spawn_cos, publish_asdus, on_connection_snapshot).             *)
RaisedArrives ==
  \A p \in ClassC :
    <>[](link = "started" /\ value[p] = "on" /\ p \notin lapsed \cup crossed)
      => <>[](master[p] = "on")

(* What the class C task promises ("never silently loses a status change"):  *)
(* with nothing under way the master has the table's value of every point    *)
(* that is fresh and that it has been told of.                               *)
NoChangeLost ==
  Quiet => \A p \in ClassC \ crossed :
             Fresh(p) /\ master[p] # "none" => master[p] = value[p]
=============================================================================
