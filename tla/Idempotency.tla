---------------------------- MODULE Idempotency ----------------------------
(***************************************************************************)
(* The write path of the local console: the client (`ConsoleClient` in     *)
(* crates/local-display/src/console.rs), the envelope check                *)
(* (`ControlRequest` in crates/display-proto/src/control.rs), the table of *)
(* request ids (`IdempotencyTable`) and the pipeline around it, the same in *)
(* InterlockService::handle and ConfigService::apply.                      *)
(*                                                                         *)
(* A request is sent in one or more ATTEMPTS, each a handler task of its    *)
(* own on the server.  The table is to make the second attempt of a request *)
(* return the receipt of the first.  It forgets, by age and by number; a    *)
(* handler may outlive its place in it, and a client that hangs up takes    *)
(* its handler with it at the next await.                                   *)
(*                                                                         *)
(* Abstractions: a receipt is the attempt it was made for; what an          *)
(* operation does is module Interlock's business, here it runs or is        *)
(* refused (conflict, validation, audit); a request stands for its key      *)
(* (op, request_id).  Queries, which share the client and its cached answer,*)
(* and steps of either wall clock are left out.                             *)
(***************************************************************************)
EXTENDS Integers, Sequences, FiniteSets

CONSTANTS
  Requests,   \* requests the console's user makes
  Attempts,   \* handler tasks, each used once (a bound on resending)
  Cap,        \* IDEMPOTENCY_CAPACITY
  Ttl,        \* IDEMPOTENCY_TTL_MS
  Window,     \* REPLAY_WINDOW_MS
  Skew,       \* how far the client's clock is ahead of the server's
  MaxTime     \* bound on the model's clock

ASSUME CapAssumption  == Cap \in Nat \ {0}
ASSUME TimeAssumption == {Ttl, Window, Skew, MaxTime} \subseteq Nat
\* Both are 30 s; a test of control.rs holds them together.
ASSUME WindowAssumption == 0 < Window /\ Window <= Ttl
ASSUME NameAssumption == Attempts \cap {"absent", "inflight"} = {}

Unset == MaxTime + Skew + 1     \* no stamp: later than any
Nobody == "nobody"
ASSUME NobodyAssumption == Nobody \notin Attempts \cup Requests

VARIABLES
  now,        \* the server's clock
  issued,     \* issued[r]: issued_at_ms of r, by the client's clock
  last,       \* the client's last request
  pending,    \* the attempt the client waits for
  of,         \* of[a]: the request attempt a carries
  stage,      \* stage[a]: how far attempt a has come
  read,       \* read[a]: the clock as handler a read it, until it has used it
  slot,       \* the table's map: "absent", "inflight" or the receipt
  order,      \* the table's insertion order
  ran,        \* history: ran[r]: the attempts that carried r out
  evicted,    \* history: requests dropped for capacity
  delayed     \* history: requests a message or handler of which was slow

client  == <<issued, last, pending>>
table   == <<slot, order>>
history == <<ran, evicted, delayed>>
vars    == <<now, client, of, stage, read, table, history>>

Entry == [key : Requests, ts : 0..MaxTime]
Stages == {"unused", "sent", "checked", "reserved", "ran", "over"}

IdemTypeOK ==
  /\ now \in 0..MaxTime
  /\ issued \in [Requests -> 0..Unset]
  /\ last \in Requests \cup {Nobody} /\ pending \in Attempts \cup {Nobody}
  /\ of \in [Attempts -> Requests \cup {Nobody}]
  /\ stage \in [Attempts -> Stages]
  /\ read \in [Attempts -> 0..MaxTime]
  /\ slot \in [Requests -> Attempts \cup {"absent", "inflight"}]
  /\ order \in Seq(Entry) /\ Len(order) <= Cap
  /\ ran \in [Requests -> SUBSET Attempts]
  /\ evicted \subseteq Requests /\ delayed \subseteq Requests

Init ==
  /\ now = 0
  /\ issued = [r \in Requests |-> Unset] /\ last = Nobody /\ pending = Nobody
  /\ of = [a \in Attempts |-> Nobody]
  /\ stage = [a \in Attempts |-> "unused"]
  /\ read = [a \in Attempts |-> 0]
  /\ slot = [r \in Requests |-> "absent"] /\ order = <<>>
  /\ ran = [r \in Requests |-> {}]
  /\ evicted = {} /\ delayed = {}

-----------------------------------------------------------------------------
(* The client: one request at a time.                                       *)

ClientClock == now + Skew

(* start: a new attempt at request r goes out. *)
Start(a, r) ==
  /\ pending = Nobody
  /\ stage[a] = "unused"
  /\ of' = [of EXCEPT ![a] = r]
  /\ stage' = [stage EXCEPT ![a] = "sent"]
  /\ pending' = a
  /\ last' = r

(* begin_write: a new id and a new stamp. *)
BeginWrite(a, r) ==
  /\ issued[r] = Unset
  /\ issued' = [issued EXCEPT ![r] = ClientClock]
  /\ Start(a, r)
  /\ UNCHANGED <<now, read, table, history>>

\* A mutant for the model checker: the bound of the server, not the stricter one.
AgedAsServer(r) == ClientClock - issued[r] > Window

(* The client gives a request up one step before the server would. *)
Aged(r) == ClientClock - issued[r] >= Window

(* retry: the same id and stamp once more. *)
Retry(a) ==
  /\ last # Nobody /\ ~Aged(last)
  /\ Start(a, last)
  /\ UNCHANGED <<now, issued, read, table, history>>

(* tick: the deadline passes; the connection is dropped. *)
GiveUp ==
  /\ pending # Nobody
  /\ pending' = Nobody
  /\ UNCHANGED <<now, issued, last, of, stage, read, table, history>>

-----------------------------------------------------------------------------
(* The table.  Each operation is one critical section.                      *)

Present(m) == {r \in Requests : m[r] # "absent"}

(* sweep: entries Ttl old or older go, from map and order. *)
Expired(t) == {r \in Requests : \E i \in DOMAIN order :
                  order[i].key = r /\ t >= order[i].ts /\ t - order[i].ts >= Ttl}
SweptSlot(t) == [r \in Requests |-> IF r \in Expired(t) THEN "absent" ELSE slot[r]]
Kept(t) == {i \in DOMAIN order : SweptSlot(t)[order[i].key] # "absent"}

\* The n-th of a set of positions.
Nth(S, n) == CHOOSE i \in S : Cardinality({j \in S : j <= i}) = n
SweptOrder(t) == [n \in 1..Cardinality(Kept(t)) |-> order[Nth(Kept(t), n)]]

(* evict_to_capacity(n): the oldest insertions go until the map has n.       *)
Oldest(o, d) == {o[i].key : i \in 1..d}
Excess(m, o, n) ==
  CHOOSE d \in 0..Len(o) :
    /\ Cardinality(Present(m) \ Oldest(o, d)) <= n \/ d = Len(o)
    /\ \A c \in 0..(d - 1) : Cardinality(Present(m) \ Oldest(o, c)) > n

\* A mutant for the model checker: makes no room for the newcomer.
RoomForgotten == Cap

Room == Cap - 1

\* A mutant for the model checker: only a finished request is a duplicate.
UnknownWhileBusy(m, r) == m[r] \notin Attempts

Unknown(m, r) == m[r] = "absent"

(* reserve, with its three outcomes; `t` is the time its caller read.       *)
Reserve(a, r, t) ==
  LET m == SweptSlot(t)
      o == SweptOrder(t)
      d == Excess(m, o, Room)
  IN IF Unknown(m, r)
       THEN /\ slot' = [k \in Requests |->
                          IF k = r THEN "inflight"
                          ELSE IF k \in Oldest(o, d) THEN "absent" ELSE m[k]]
            /\ order' = Append(SubSeq(o, d + 1, Len(o)), [key |-> r, ts |-> t])
            /\ evicted' = evicted \cup Oldest(o, d)
            /\ stage' = [stage EXCEPT ![a] = "reserved"]
            /\ UNCHANGED pending
       ELSE /\ slot' = m /\ order' = o              \* Busy, or the first receipt
            /\ stage' = [stage EXCEPT ![a] = "over"]
            /\ pending' = IF pending = a THEN Nobody ELSE pending
            /\ UNCHANGED evicted

\* A mutant for the model checker: an entry that is gone comes back.
CompleteAlways(a, r) == slot' = [slot EXCEPT ![r] = a]

(* complete: the receipt goes in if the key is there - whoever put it there. *)
Complete(a, r) ==
  slot' = IF slot[r] = "absent" THEN slot ELSE [slot EXCEPT ![r] = a]

-----------------------------------------------------------------------------
(* A handler: the envelope, the table, the operation, the receipt.          *)

InWindow(r, t) == IF issued[r] >= t THEN issued[r] - t <= Window
                                    ELSE t - issued[r] <= Window

(* validate_for; the clock is read here, once. *)
CheckEnvelope(a) ==
  /\ stage[a] = "sent"
  /\ IF InWindow(of[a], now)
       THEN /\ stage' = [stage EXCEPT ![a] = "checked"]
            /\ read' = [read EXCEPT ![a] = now]
            /\ UNCHANGED pending
       ELSE /\ stage' = [stage EXCEPT ![a] = "over"]
            /\ pending' = IF pending = a THEN Nobody ELSE pending
            /\ UNCHANGED read
  /\ UNCHANGED <<now, issued, last, of, table, history>>

TakePlace(a) ==
  /\ stage[a] = "checked"
  /\ Reserve(a, of[a], read[a])
  /\ read' = [read EXCEPT ![a] = 0]
  /\ UNCHANGED <<now, issued, last, of, ran, delayed>>

(* execute: the operation is carried out, or refused. *)
Execute(a) ==
  /\ stage[a] = "reserved"
  /\ stage' = [stage EXCEPT ![a] = "ran"]
  /\ \/ ran' = [ran EXCEPT ![of[a]] = @ \cup {a}]
     \/ UNCHANGED ran
  /\ UNCHANGED <<now, client, of, read, table, evicted, delayed>>

Finish(a) ==
  /\ stage[a] = "ran"
  /\ Complete(a, of[a])
  /\ stage' = [stage EXCEPT ![a] = "over"]
  /\ pending' = IF pending = a THEN Nobody ELSE pending
  /\ UNCHANGED <<now, issued, last, of, read, order, history>>

(* The client of a handler has hung up: the handler is dropped at an await  *)
(* and never completes (axum and hyper, external).                          *)
Vanish(a) ==
  /\ pending # a
  /\ stage[a] \in {"reserved", "ran"}
  /\ stage' = [stage EXCEPT ![a] = "over"]
  /\ UNCHANGED <<now, client, of, read, table, history>>

(* Time passes, for whoever is on the way to the table too. *)
Tick ==
  /\ now < MaxTime
  /\ now' = now + 1
  /\ delayed' = delayed \cup {of[a] : a \in {b \in Attempts : stage[b] \in {"sent", "checked"}}}
  /\ UNCHANGED <<client, of, stage, read, table, ran, evicted>>

Handle(a) == CheckEnvelope(a) \/ TakePlace(a) \/ Execute(a) \/ Finish(a) \/ Vanish(a)

Next ==
  \/ \E a \in Attempts, r \in Requests : BeginWrite(a, r)
  \/ \E a \in Attempts : Retry(a) \/ Handle(a)
  \/ GiveUp
  \/ Tick

Spec == Init /\ [][Next]_vars

-----------------------------------------------------------------------------
(* Properties.                                                              *)

(* The map never exceeds its capacity, and map and order hold the same keys, *)
(* each once: an entry in one alone would never age, never be evicted and   *)
(* push others out (complete, "late complete").                             *)
TableBounded ==
  /\ Cardinality(Present(slot)) <= Cap
  /\ Present(slot) = {order[i].key : i \in DOMAIN order}
  /\ Len(order) = Cardinality(Present(slot))

(* A request that was neither evicted nor slow on its way is carried out at  *)
(* most once, however often it is resent, dropped or answered late: what    *)
(* the client may still resend, the table still knows (retry's `>=`         *)
(* against sweep's `>=`, the replay window against the TTL).                *)
ExecutedOnce ==
  \A r \in Requests \ (evicted \cup delayed) : Cardinality(ran[r]) <= 1

(* Such a request is always answered with its first receipt: once stored,   *)
(* a receipt only ever leaves.                                              *)
FirstReceiptKept ==
  [][\A r \in Requests \ (evicted \cup delayed) :
       slot[r] \in Attempts => slot'[r] \in {slot[r], "absent"}]_vars

=============================================================================
