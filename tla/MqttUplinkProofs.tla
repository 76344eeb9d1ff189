-------------------------- MODULE MqttUplinkProofs --------------------------
(* Proofs about MqttUplink: its types with the bound of the cache, that one *)
(* task at a time empties the cache, that each drop is accounted for, that  *)
(* every message made is somewhere or counted as dropped, and that the      *)
(* replay keeps the order.                                                  *)
EXTENDS MqttUplink, SequenceTheorems, FiniteSetTheorems, TLAPS

(* The flag is up while a drain runs, and there is one drain at most: a     *)
(* second one would pop a message in the bound's blind spot.                *)
OneDrain ==
  /\ draining = (Running # {})
  /\ \A d, e \in Running : d = e

Inv == TypeOK /\ OneDrain

EvidenceTypes ==
  /\ taken \in [Publishers -> SUBSET Nat]
  /\ unreported \subseteq Nat /\ reported \subseteq Nat /\ unrecorded \subseteq Nat

USE DEF Publishing

(* OfflineCache::push leaves at most cache_max_messages and counts what it  *)
(* takes out.                                                               *)
LEMMA PushBounded ==
  ASSUME TypeOK, NEW m \in Messages, NEW aged \in 0 .. Len(cache)
  PROVE  /\ Push(m, aged).q \in Seq(Messages)
         /\ Len(Push(m, aged).q) <= CacheMax
         /\ Push(m, aged).gone \in Nat
<1> DEFINE rest == SubSeq(cache, aged + 1, Len(cache))
           all  == Append(rest, m)
           over == IF Len(all) > CacheMax THEN Len(all) - CacheMax ELSE 0
<1>1. cache \in Seq(Messages) /\ CacheMax \in Nat \ {0}
  BY SizesAssumption DEF TypeOK
<1>2. rest \in Seq(Messages)
  BY <1>1
<1>3. all \in Seq(Messages) /\ Len(all) \in Nat
  BY <1>2
<1> HIDE DEF all
<1>4. over \in 0 .. Len(all) /\ Len(all) - over <= CacheMax
  BY <1>1, <1>3
<1> HIDE DEF over
<1>5. SubSeq(all, over + 1, Len(all)) \in Seq(Messages)
  BY <1>3, <1>4
<1>6. Len(SubSeq(all, over + 1, Len(all))) = Len(all) - over
  BY <1>3, <1>4
<1>7. Push(m, aged) = [q |-> SubSeq(all, over + 1, Len(all)), gone |-> aged + over]
  BY DEF Push, all, over
<1> QED
  BY <1>3, <1>4, <1>5, <1>6, <1>7

(* A step of a publisher does not touch the drains.                         *)
LEMMA PublisherKeepsDrains ==
  ASSUME NEW t \in Publishers, TypeOK, OneDrain,
         \E x : pc' = [pc EXCEPT ![t] = x],
         UNCHANGED draining
  PROVE  OneDrain'
<1>1. t \notin Drains
  BY TasksAssumption DEF Publishers
<1>2. Running' = Running
  BY <1>1, TasksAssumption DEF Running, TypeOK, Tasks
<1> QED
  BY <1>2 DEF OneDrain

LEMMA PublisherKeepsHolding ==
  ASSUME NEW t \in Publishers, TypeOK,
         \E x : hand' = [hand EXCEPT ![t] = x]
  PROVE  Holding' = Holding
BY TasksAssumption DEF Holding, TypeOK, Tasks, Publishers

(* While the cache is put to, only its bound is to be shown.                *)
LEMMA ToCacheInv ==
  ASSUME Inv, NEW t \in Publishers, pc[t] \in Publishing, ToCache(t), failing' \in BOOLEAN
  PROVE  Inv'
<1>1. PICK aged \in 0 .. Len(cache) :
        LET p == Push([hand[t][1] EXCEPT !.late = TRUE], aged)
        IN  /\ cache' = p.q
            /\ dropped' = dropped + p.gone
            /\ unreported' = unreported \union (dropped + 1 .. dropped + p.gone)
            /\ pc' = [pc EXCEPT ![t] = IF p.gone > 0 THEN "warn" ELSE Onward(t, todo[t])]
  BY DEF ToCache
<1> DEFINE m == [hand[t][1] EXCEPT !.late = TRUE]
<1>2. t \in Tasks /\ t \notin Drains
  BY TasksAssumption DEF Tasks, Publishers
<1>3. hand[t] \in Seq(Messages) /\ Len(hand[t]) = 1
  BY <1>2 DEF Inv, TypeOK
<1>4. m \in Messages
  <2>1. hand[t][1] \in Messages
    BY <1>3
  <2> QED
    BY <2>1 DEF Messages
<1> HIDE DEF m
<1>5. /\ cache' \in Seq(Messages) /\ Len(cache') <= CacheMax
      /\ \E g \in Nat : /\ dropped' = dropped + g
                       /\ unreported' = unreported \union (dropped + 1 .. dropped + g)
  BY <1>1, <1>4, PushBounded DEF Inv, m
<1>6. UNCHANGED <<was, pending, todo, after, seq, draining, taken, reported, unrecorded,
                  client>>
      /\ hand' = [hand EXCEPT ![t] = <<>>]
  BY DEF ToCache
<1>7. PICK x \in {"warn", "round", "wait", "spawn", "edges"} : pc' = [pc EXCEPT ![t] = x]
  BY <1>1 DEF Onward, Inv, TypeOK
<1>8. TypeOK'
  <2>1. /\ pc' \in [Tasks -> Places] /\ hand' \in [Tasks -> Seq(Messages)]
        /\ \A u \in Tasks : u # t => pc'[u] = pc[u] /\ hand'[u] = hand[u]
        /\ pc'[t] = x /\ hand'[t] = <<>>
    BY <1>2, <1>6, <1>7 DEF Inv, TypeOK, Places
  <2>2. \A u \in Tasks : Len(hand'[u]) = IF pc'[u] \in Publishing THEN 1 ELSE 0
    BY <2>1, <1>7 DEF Inv, TypeOK
  <2>3. Len(cache') <= IF Holding' = {} THEN CacheMax + 1 ELSE CacheMax
    BY <1>5, SizesAssumption
  <2>4. dropped' \in Nat /\ unreported' \subseteq Nat
    BY <1>5 DEF Inv, TypeOK
  <2> QED
    BY <2>1, <2>2, <2>3, <2>4, <1>5, <1>6 DEF Inv, TypeOK, client
<1>9. OneDrain'
  BY <1>6, <1>7, PublisherKeepsDrains DEF Inv
<1> QED
  BY <1>8, <1>9 DEF Inv

(* A task holds a message exactly when it publishes one.                    *)
LEMMA HandLaw ==
  ASSUME TypeOK, NEW u \in Tasks
  PROVE  hand[u] = <<>> <=> pc[u] \notin Publishing
<1>1. hand[u] \in Seq(Messages) /\ Len(hand[u]) = IF pc[u] \in Publishing THEN 1 ELSE 0
  BY DEF TypeOK
<1> QED
  BY <1>1

LEMMA InitInv == Init => Inv
<1> SUFFICES ASSUME Init PROVE Inv
  OBVIOUS
<1>1. Running = {} /\ Holding = {}
  BY TasksAssumption DEF Init, Running, Holding, Tasks
<1>2. pc \in [Tasks -> Places] /\ \A u \in Tasks : pc[u] \notin Publishing
  BY DEF Init, Places
<1>3. \A u \in Tasks : hand[u] = <<>> /\ Len(hand[u]) = 0
  BY DEF Init
<1>4. <<>> \in Seq(Messages) /\ Len(<<>>) = 0
  OBVIOUS
<1>5. TypeOK
  <2>1. /\ hand \in [Tasks -> Seq(Messages)]
        /\ \A u \in Tasks : Len(hand[u]) = IF pc[u] \in Publishing THEN 1 ELSE 0
    BY <1>2, <1>3, <1>4 DEF Init
  <2>2. /\ cache \in Seq(Messages) /\ Len(cache) <= IF Holding = {} THEN CacheMax + 1 ELSE CacheMax
        /\ outq \in Seq(Messages) /\ Len(outq) <= ClientQueue /\ broker \in Seq(Messages)
    BY <1>4, SizesAssumption DEF Init
  <2>3. /\ todo \in [Publishers -> SUBSET Stations]
        /\ after \in [Publishers -> {"wait", "spawn", "edges"}]
    BY DEF Init
  <2>4. seq \in [Stations -> 0 .. MaxSeq]
    BY SizesAssumption DEF Init
  <2>5. /\ connected \in BOOLEAN /\ was \in BOOLEAN /\ pending \subseteq Stations
        /\ draining \in BOOLEAN /\ failing \in BOOLEAN
        /\ dropped \in Nat /\ EvidenceTypes
    BY DEF Init, EvidenceTypes
  <2> QED
    BY <1>2, <2>1, <2>2, <2>3, <2>4, <2>5 DEF TypeOK, EvidenceTypes
<1>6. OneDrain
  <2>1. ~draining
    BY DEF Init
  <2> QED
    BY <1>1, <2>1 DEF OneDrain, Init
<1> QED
  BY <1>5, <1>6 DEF Inv

(* Publishers' steps that put nothing into the cache.                       *)
LEMMA PublisherInv ==
  ASSUME Inv, NEW t \in Publishers, NEW x \in Places \ {"off"},
         pc' = [pc EXCEPT ![t] = x],
         hand' = hand, x \notin Publishing, pc[t] \notin Publishing,
         UNCHANGED <<cache, draining>>,
         connected' \in BOOLEAN, was' \in BOOLEAN, pending' \subseteq Stations,
         todo' \in [Publishers -> SUBSET Stations],
         after' \in [Publishers -> {"wait", "spawn", "edges"}],
         UNCHANGED <<seq, failing, dropped, outq, broker>>, EvidenceTypes'
  PROVE  Inv'
<1>1. t \in Tasks
  BY DEF Tasks
<1>2. /\ pc' \in [Tasks -> Places]
      /\ \A u \in Tasks : pc'[u] \in Publishing <=> pc[u] \in Publishing
  BY <1>1 DEF Inv, TypeOK
<1>3. Holding' = Holding
  BY DEF Holding
<1>4. TypeOK'
  BY <1>2, <1>3 DEF Inv, TypeOK, EvidenceTypes
<1>5. OneDrain'
  BY PublisherKeepsDrains DEF Inv
<1> QED
  BY <1>4, <1>5 DEF Inv

LEMMA BeginTypes ==
  ASSUME Inv, NEW t \in Publishers, NEW S \in SUBSET Stations,
         NEW then \in {"wait", "spawn", "edges"}, Begin(t, S, then)
  PROVE  /\ pc' = [pc EXCEPT ![t] = IF S = {} THEN then ELSE "round"]
         /\ todo' \in [Publishers -> SUBSET Stations]
         /\ after' \in [Publishers -> {"wait", "spawn", "edges"}]
BY DEF Begin, Inv, TypeOK

LEMMA StepInv == Inv /\ [Next]_vars => Inv'
<1> SUFFICES ASSUME Inv, [Next]_vars PROVE Inv'
  OBVIOUS
<1> USE DEF evidence, tallies, client
<1>1. CASE Connect
  BY <1>1 DEF Connect, Inv, TypeOK, OneDrain, Running, Holding
<1>2. CASE Disconnect
  BY <1>2 DEF Disconnect, Inv, TypeOK, OneDrain, Running, Holding
<1>3. CASE Deliver
  <2>1. /\ outq' \in Seq(Messages) /\ Len(outq') <= ClientQueue
        /\ broker' \in Seq(Messages)
    BY <1>3, SizesAssumption DEF Deliver, Inv, TypeOK
  <2> QED
    BY <1>3, <2>1 DEF Deliver, Inv, TypeOK, OneDrain, Running, Holding
<1>4. ASSUME NEW t \in Periodic, PeriodicTick(t) PROVE Inv'
  <2>1. t \in Publishers
    BY DEF Publishers
  <2>2. PICK x \in {"wait", "round"} : pc' = [pc EXCEPT ![t] = x]
    BY <1>4 DEF PeriodicTick, Begin
  <2> QED
    BY <1>4, <2>1, <2>2, PublisherInv, BeginTypes
    DEF PeriodicTick, Inv, TypeOK, EvidenceTypes, Places
<1>5. ASSUME NEW t \in Publishers, NEW s \in Stations, Build(t, s) PROVE Inv'
  <2>1. t \in Tasks /\ t \notin Drains
    BY TasksAssumption DEF Tasks, Publishers
  <2> DEFINE m == [st |-> s, by |-> t, seq |-> seq[s] + 1, late |-> FALSE]
  <2>2. m \in Messages /\ seq' \in [Stations -> 0 .. MaxSeq]
    BY <1>5, SizesAssumption DEF Build, Messages, Inv, TypeOK
  <2> HIDE DEF m
  <2>3. /\ pc' = [pc EXCEPT ![t] = "look"] /\ hand' = [hand EXCEPT ![t] = <<m>>]
        /\ todo' = [todo EXCEPT ![t] = @ \ {s}]
        /\ UNCHANGED <<was, pending, after, cache, draining, failing, tallies, client>>
    BY <1>5 DEF Build, m
  <2>4. /\ pc' \in [Tasks -> Places] /\ hand' \in [Tasks -> Seq(Messages)]
        /\ \A u \in Tasks : u # t => pc'[u] = pc[u] /\ hand'[u] = hand[u]
        /\ pc'[t] = "look" /\ hand'[t] = <<m>>
    BY <2>1, <2>2, <2>3 DEF Inv, TypeOK, Places
  <2>5. \A u \in Tasks : Len(hand'[u]) = IF pc'[u] \in Publishing THEN 1 ELSE 0
    <3>1. Len(<<m>>) = 1
      OBVIOUS
    <3> QED
      BY <2>4, <3>1 DEF Inv, TypeOK
  <2>6. Holding' = Holding
    BY <2>3, PublisherKeepsHolding DEF Inv
  <2>7. TypeOK'
    BY <2>2, <2>3, <2>4, <2>5, <2>6 DEF Inv, TypeOK
  <2>8. OneDrain'
    BY <2>3, PublisherKeepsDrains DEF Inv
  <2> QED
    BY <2>3, <2>7, <2>8 DEF Inv
<1>6. ASSUME NEW t \in Publishers, NEW s \in Stations, Skip(t, s) PROVE Inv'
  <2>1. PICK x \in {"wait", "spawn", "edges", "round"} : pc' = [pc EXCEPT ![t] = x]
    BY <1>6 DEF Skip, Onward, Inv, TypeOK
  <2>2. todo' \in [Publishers -> SUBSET Stations]
    BY <1>6 DEF Skip, Inv, TypeOK
  <2> QED
    BY <1>6, <2>1, <2>2, PublisherInv DEF Skip, Inv, TypeOK, EvidenceTypes, Places
<1>7. ASSUME NEW t \in Publishers, LookConnected(t) PROVE Inv'
  <2>1. t \in Tasks
    BY DEF Tasks
  <2>2. /\ pc' \in [Tasks -> Places]
        /\ \A u \in Tasks : pc'[u] \in Publishing <=> pc[u] \in Publishing
    BY <1>7, <2>1 DEF LookConnected, Inv, TypeOK, Places
  <2>3. Holding' = Holding
    BY <1>7 DEF LookConnected, Holding
  <2>4. TypeOK'
    BY <1>7, <2>2, <2>3 DEF LookConnected, Inv, TypeOK
  <2>5. OneDrain'
    BY <1>7, PublisherKeepsDrains DEF LookConnected, Inv
  <2> QED
    BY <1>7, <2>4, <2>5 DEF LookConnected, Inv
<1>8. ASSUME NEW t \in Publishers, LookCache(t) PROVE Inv'
  BY <1>8, ToCacheInv DEF LookCache, Inv, TypeOK
<1>9. ASSUME NEW t \in Publishers, HeldBack(t) \/ TakeEvidence(t) \/ Record(t) PROVE Inv'
  <2>1. PICK x \in {"wait", "spawn", "edges", "round", "record"} : pc' = [pc EXCEPT ![t] = x]
    BY <1>9 DEF HeldBack, TakeEvidence, Record, Onward, Inv, TypeOK
  <2>2. pc[t] \in {"warn", "record"} /\ UNCHANGED <<hand, was, pending, todo, after, seq, cache,
          draining, failing, dropped, connected, outq, broker>>
    BY <1>9 DEF HeldBack, TakeEvidence, Record
  <2>3. EvidenceTypes'
    <3>1. EvidenceTypes /\ taken[t] \subseteq Nat
      BY DEF Inv, TypeOK, EvidenceTypes
    <3> QED
      BY <1>9, <3>1
      DEF HeldBack, TakeEvidence, Record, Recorded, Unrecorded, EvidenceTypes
  <2> QED
    BY <2>1, <2>2, <2>3, PublisherInv DEF Inv, TypeOK, Places
<1>10. ASSUME NEW t \in Publishers, Refused(t) PROVE Inv'
  <2>1. t \in Tasks
    BY DEF Tasks
  <2>2. /\ pc' \in [Tasks -> Places]
        /\ \A u \in Tasks : pc'[u] \in Publishing <=> pc[u] \in Publishing
    BY <1>10, <2>1 DEF Refused, Inv, TypeOK, Places
  <2>3. Holding' = Holding
    BY <1>10 DEF Refused, Holding
  <2>4. TypeOK'
    BY <1>10, <2>2, <2>3 DEF Refused, Inv, TypeOK
  <2>5. OneDrain'
    BY <1>10, PublisherKeepsDrains DEF Refused, Inv
  <2> QED
    BY <1>10, <2>4, <2>5 DEF Refused, Inv
<1>11. ASSUME NEW S \in SUBSET Stations, CosRecv(S) PROVE Inv'
  BY <1>11 DEF CosRecv, Inv, TypeOK, OneDrain, Running, Holding
<1>12. CASE CosTick
  <2>1. Cos \in Publishers
    BY DEF Publishers
  <2>2. PICK x \in {"spawn", "round", "batch"} : pc' = [pc EXCEPT ![Cos] = x]
    BY <1>12 DEF CosTick, Begin
  <2>3. /\ todo' \in [Publishers -> SUBSET Stations]
        /\ after' \in [Publishers -> {"wait", "spawn", "edges"}]
    BY <1>12, <2>1, BeginTypes DEF CosTick, Inv, TypeOK
  <2> QED
    BY <1>12, <2>1, <2>2, <2>3, PublisherInv DEF CosTick, Inv, TypeOK, EvidenceTypes, Places
<1>13. CASE CosBatch
  <2>1. Cos \in Publishers
    BY DEF Publishers
  <2>2. PICK x \in {"edges", "round"} : pc' = [pc EXCEPT ![Cos] = x]
    BY <1>13 DEF CosBatch, Begin
  <2>3. /\ todo' \in [Publishers -> SUBSET Stations]
        /\ after' \in [Publishers -> {"wait", "spawn", "edges"}]
    BY <1>13, <2>1, BeginTypes DEF CosBatch, Inv, TypeOK
  <2> QED
    BY <1>13, <2>1, <2>2, <2>3, PublisherInv DEF CosBatch, Inv, TypeOK, EvidenceTypes, Places
<1>14. ASSUME NEW S \in SUBSET Stations, CosEdges(S) PROVE Inv'
  <2>1. Cos \in Publishers
    BY DEF Publishers
  <2>2. PICK x \in {"wait", "round"} : pc' = [pc EXCEPT ![Cos] = x]
    BY <1>14 DEF CosEdges, Begin
  <2>3. /\ todo' \in [Publishers -> SUBSET Stations]
        /\ after' \in [Publishers -> {"wait", "spawn", "edges"}]
    BY <1>14, <2>1, BeginTypes DEF CosEdges, Inv, TypeOK
  <2> QED
    BY <1>14, <2>1, <2>2, <2>3, PublisherInv DEF CosEdges, Inv, TypeOK, EvidenceTypes, Places
<1>15. CASE Spawn
  <2>1. Cos \in Publishers /\ Cos \in Tasks /\ Cos \notin Drains
    BY TasksAssumption DEF Publishers, Tasks
  <2>2. Holding' = Holding
    BY <1>15 DEF Spawn, Holding
  <2>3. CASE draining
    <3>1. /\ pc' = [pc EXCEPT ![Cos] = "batch"] /\ draining' = draining
      BY <1>15, <2>3 DEF Spawn
    <3>2. /\ pc' \in [Tasks -> Places]
          /\ \A u \in Tasks : pc'[u] \in Publishing <=> pc[u] \in Publishing
      BY <1>15, <2>1, <3>1 DEF Spawn, Inv, TypeOK, Places
    <3>3. TypeOK'
      BY <1>15, <2>2, <3>2 DEF Spawn, Inv, TypeOK
    <3>4. OneDrain'
      BY <2>1, <3>1, PublisherKeepsDrains DEF Inv
    <3> QED
      BY <1>15, <3>3, <3>4 DEF Spawn, Inv
  <2>4. CASE ~draining
    <3>1. Running = {}
      BY <2>4 DEF Inv, OneDrain
    <3>2. Another \in Drains
      BY <3>1, TasksAssumption DEF Another
    <3>3. pc' = [pc EXCEPT ![Cos] = "batch", ![Another] = "wait"] /\ draining'
      BY <1>15, <2>4 DEF Spawn
    <3>4. pc[Cos] = "spawn" /\ pc[Another] = "off" /\ Another \in Tasks /\ Another # Cos
      BY <1>15, <2>1, <3>1, <3>2 DEF Spawn, Running, Tasks
    <3>5. /\ pc' \in [Tasks -> Places]
          /\ \A u \in Tasks : pc'[u] \in Publishing <=> pc[u] \in Publishing
      BY <2>1, <3>3, <3>4 DEF Inv, TypeOK, Places
    <3>6. TypeOK'
      BY <1>15, <2>2, <3>5 DEF Spawn, Inv, TypeOK
    <3>7. Running' = {Another}
      BY <2>1, <3>1, <3>2, <3>3, <3>4 DEF Running, Inv, TypeOK, Tasks
    <3>8. OneDrain'
      BY <3>3, <3>7 DEF OneDrain, Inv, TypeOK
    <3> QED
      BY <1>15, <3>6, <3>8 DEF Spawn, Inv
  <2> QED
    BY <2>3, <2>4
<1>16. ASSUME NEW d \in Drains, DrainPop(d) PROVE Inv'
  <2>1. d \in Tasks /\ d \notin Publishers
    BY TasksAssumption DEF Tasks
  <2>2. d \in Running /\ d \notin Holding
    <3>1. pc[d] = "wait"
      BY <1>16 DEF DrainPop
    <3>2. hand[d] = <<>>
      BY <2>1, <3>1, HandLaw DEF Inv
    <3> QED
      BY <3>1, <3>2 DEF Running, Holding
  <2>3. Holding = {}
    <3>1. \A e \in Drains : e # d => pc[e] = "off"
      BY <2>2 DEF Running, Inv, OneDrain
    <3>2. \A e \in Drains : hand[e] = <<>>
      BY <2>2, <3>1, HandLaw DEF Holding, Inv, Tasks
    <3> QED
      BY <3>2 DEF Holding
  <2>4. Head(cache) \in Messages /\ cache' \in Seq(Messages) /\ Len(cache') = Len(cache) - 1
    BY <1>16 DEF DrainPop, Inv, TypeOK
  <2>5. Len(cache') <= CacheMax
    BY <2>3, <2>4, SizesAssumption DEF Inv, TypeOK
  <2>6. /\ pc' \in [Tasks -> Places] /\ hand' \in [Tasks -> Seq(Messages)]
        /\ \A u \in Tasks : u # d => pc'[u] = pc[u] /\ hand'[u] = hand[u]
        /\ pc'[d] = "send" /\ hand'[d] = <<Head(cache)>>
    BY <1>16, <2>1, <2>4 DEF DrainPop, Inv, TypeOK, Places
  <2>7. \A u \in Tasks : Len(hand'[u]) = IF pc'[u] \in Publishing THEN 1 ELSE 0
    <3>1. Len(<<Head(cache)>>) = 1
      OBVIOUS
    <3> QED
      BY <2>6, <3>1 DEF Inv, TypeOK
  <2>8. TypeOK'
    BY <1>16, <2>4, <2>5, <2>6, <2>7, SizesAssumption DEF DrainPop, Inv, TypeOK
  <2>9. Running' = Running
    BY <2>1, <2>2, <2>6 DEF Running, Tasks
  <2> QED
    BY <1>16, <2>8, <2>9 DEF DrainPop, Inv, OneDrain
<1>17. ASSUME NEW d \in Drains, DrainOver(d) PROVE Inv'
  <2>1. d \in Tasks
    BY DEF Tasks
  <2>2. Running' = {} /\ ~draining'
    BY <1>17, <2>1 DEF DrainOver, FlagDown, Running, Inv, OneDrain, TypeOK, Tasks
  <2>3. Holding' = Holding
    BY <1>17 DEF DrainOver, Holding
  <2>4. TypeOK'
    BY <1>17, <2>1, <2>3 DEF DrainOver, FlagDown, Inv, TypeOK, Places
  <2> QED
    BY <1>17, <2>2, <2>4 DEF DrainOver, FlagDown, Inv, OneDrain
<1>18. ASSUME NEW d \in Drains, DrainRefused(d) PROVE Inv'
  <2>1. d \in Tasks
    BY DEF Tasks
  <2>2. Len(hand[d]) = 1 /\ hand[d] \in Seq(Messages) /\ hand[d][1] \in Messages
    BY <1>18, <2>1 DEF DrainRefused, Inv, TypeOK
  <2>3. d \in Holding /\ Len(cache) <= CacheMax
    <3>1. hand[d] # <<>>
      BY <1>18, <2>1, HandLaw DEF DrainRefused, Inv
    <3> QED
      BY <3>1 DEF Holding, Inv, TypeOK
  <2>4. cache' \in Seq(Messages) /\ Len(cache') <= CacheMax + 1
    BY <1>18, <2>2, <2>3, SizesAssumption DEF DrainRefused, PutBack, Inv, TypeOK
  <2>5. /\ pc' \in [Tasks -> Places] /\ hand' \in [Tasks -> Seq(Messages)]
        /\ \A u \in Tasks : u # d => pc'[u] = pc[u] /\ hand'[u] = hand[u]
        /\ pc'[d] = "over" /\ hand'[d] = <<>>
    BY <1>18, <2>1 DEF DrainRefused, Inv, TypeOK, Places
  <2>6. \A u \in Tasks : Len(hand'[u]) = IF pc'[u] \in Publishing THEN 1 ELSE 0
    <3>1. Len(<<>>) = 0
      OBVIOUS
    <3> QED
      BY <2>5, <3>1 DEF Inv, TypeOK
  <2>7. d \in Running
    BY <1>18 DEF DrainRefused, Running
  <2>8. Running' = Running
    BY <2>5, <2>7 DEF Running, Tasks
  <2>9. Holding' = {}
    <3>1. \A e \in Drains : e # d => pc[e] = "off"
      BY <2>7 DEF Running, Inv, OneDrain
    <3>2. \A e \in Drains : e # d => hand[e] = <<>>
      BY <3>1, HandLaw DEF Inv, Tasks
    <3> QED
      BY <2>5, <3>2 DEF Holding, Tasks
  <2>10. TypeOK'
    BY <1>18, <2>4, <2>5, <2>6, <2>9 DEF DrainRefused, Inv, TypeOK
  <2>11. OneDrain'
    BY <1>18, <2>8 DEF DrainRefused, OneDrain, Inv
  <2> QED
    BY <1>18, <2>10, <2>11 DEF DrainRefused, Inv
<1>19. ASSUME NEW t \in Tasks, Sent(t) PROVE Inv'
  <2>1. hand[t] \in Seq(Messages) /\ Len(hand[t]) = 1
    BY <1>19 DEF Sent, Inv, TypeOK
  <2>2. outq' \in Seq(Messages) /\ Len(outq') <= ClientQueue
    <3>1. outq \in Seq(Messages) /\ Len(outq) < ClientQueue /\ outq' = outq \o hand[t]
      BY <1>19 DEF Sent, Inv, TypeOK
    <3>2. \A a, b \in Seq(Messages) : Len(a \o b) = Len(a) + Len(b)
      OBVIOUS
    <3>3. Len(outq \o hand[t]) = Len(outq) + 1
      BY <2>1, <3>1, <3>2
    <3> QED
      BY <2>1, <3>1, <3>3, SizesAssumption
  <2>3. PICK x \in {"wait", "spawn", "edges", "round"} :
          pc' = [pc EXCEPT ![t] = x] /\ (t \in Drains => x = "wait")
    BY <1>19, TasksAssumption DEF Sent, Onward, Inv, TypeOK, Tasks
  <2>4. /\ pc' \in [Tasks -> Places] /\ hand' \in [Tasks -> Seq(Messages)]
        /\ \A u \in Tasks : u # t => pc'[u] = pc[u] /\ hand'[u] = hand[u]
        /\ pc'[t] = x /\ hand'[t] = <<>>
    BY <1>19, <2>3 DEF Sent, Inv, TypeOK, Places
  <2>5. \A u \in Tasks : Len(hand'[u]) = IF pc'[u] \in Publishing THEN 1 ELSE 0
    BY <2>3, <2>4 DEF Inv, TypeOK
  <2>6. Holding' \subseteq Holding
    BY <2>4 DEF Holding, Tasks
  <2>7. Len(cache') <= IF Holding' = {} THEN CacheMax + 1 ELSE CacheMax
    BY <1>19, <2>6, SizesAssumption DEF Sent, Inv, TypeOK
  <2>8. TypeOK'
    BY <1>19, <2>2, <2>4, <2>5, <2>7 DEF Sent, Inv, TypeOK
  <2>9. Running' = Running
    BY <1>19, <2>3, <2>4 DEF Sent, Running, Tasks
  <2> QED
    BY <1>19, <2>8, <2>9 DEF Sent, Inv, OneDrain
<1>20. CASE UNCHANGED vars
  BY <1>20 DEF vars, Inv, TypeOK, OneDrain, Running, Holding
<1> QED
  BY <1>1, <1>2, <1>3, <1>4, <1>5, <1>6, <1>7, <1>8, <1>9, <1>10, <1>11, <1>12, <1>13,
     <1>14, <1>15, <1>16, <1>17, <1>18, <1>19, <1>20
  DEF Next, PublisherStep, CosStep, DrainStep

(* The invariant holds in every state: the induction the theorems rest on.  *)
LEMMA InvCorrect == Spec => []Inv
<1>1. Init => Inv
  BY InitInv
<1>2. Inv /\ [Next]_vars => Inv'
  BY StepInv
<1> QED
  BY <1>1, <1>2, PTL DEF Spec

(* The types, and the cache's bound for every size of cache and number of   *)
(* tasks: at most one message over the limit, when a failed drain put it    *)
(* back.                                                                    *)
THEOREM MqttTypeCorrect == Spec => []TypeOK
<1>1. Inv => TypeOK
  BY DEF Inv
<1> QED
  BY <1>1, InvCorrect, PTL

(* A publisher has evidence in hand only while its report awaits the insert.*)
InReport == \A t \in Publishers : taken[t] # {} => pc[t] = "record"

(* Steps that leave the tallies alone do not end a report.                  *)
LEMMA EvidenceStays ==
  ASSUME EvidenceKept, InReport, UNCHANGED tallies,
         \A t \in Publishers : pc[t] = "record" => pc'[t] = "record"
  PROVE  EvidenceKept' /\ InReport'
<1>1. UNCHANGED <<dropped, unreported, taken, reported, unrecorded>>
  BY DEF tallies, evidence
<1> QED
  BY <1>1 DEF EvidenceKept, Taken, InReport

(* New drops get the numbers after all the others.                          *)
LEMMA EvidenceDrops ==
  ASSUME Inv, EvidenceKept, InReport, NEW t \in Publishers, LookCache(t)
  PROVE  EvidenceKept' /\ InReport'
<1>1. PICK g \in Nat : /\ dropped' = dropped + g
                     /\ unreported' = unreported \union (dropped + 1 .. dropped + g)
  <2>1. PICK aged \in 0 .. Len(cache) :
          LET p == Push([hand[t][1] EXCEPT !.late = TRUE], aged)
          IN  /\ dropped' = dropped + p.gone
              /\ unreported' = unreported \union (dropped + 1 .. dropped + p.gone)
    BY DEF LookCache, ToCache
  <2>2. [hand[t][1] EXCEPT !.late = TRUE] \in Messages
    <3>1. t \in Tasks /\ hand[t] \in Seq(Messages) /\ Len(hand[t]) = 1
      BY DEF LookCache, Tasks, Inv, TypeOK
    <3>2. hand[t][1] \in Messages
      BY <3>1
    <3> QED
      BY <3>2 DEF Messages
  <2> QED
    BY <2>1, <2>2, PushBounded DEF Inv
<1>2. /\ UNCHANGED <<taken, reported, unrecorded>>
      /\ \A u \in Publishers : pc[u] = "record" => pc'[u] = "record"
  BY DEF LookCache, ToCache, Inv, TypeOK, Tasks
<1>3. InReport'
  BY <1>2 DEF InReport
<1> DEFINE new == dropped + 1 .. dropped + g
<1>4. dropped \in Nat /\ 1 .. dropped + g = 1 .. dropped \union new
  BY DEF Inv, TypeOK
<1>5. new \intersect (1 .. dropped) = {}
  BY <1>4
<1> HIDE DEF new
<1>6. EvidenceKept'
  <2>1. unreported' = unreported \union new /\ Taken' = Taken
    BY <1>1, <1>2 DEF Taken, new
  <2>2. Taken \union reported \union unrecorded \subseteq 1 .. dropped
    BY DEF EvidenceKept
  <2>3. unreported' \intersect (Taken \union reported \union unrecorded) = {}
    BY <1>5, <2>1, <2>2 DEF EvidenceKept
  <2>4. 1 .. dropped' = unreported' \union Taken \union reported \union unrecorded
    BY <1>1, <1>4, <2>1 DEF EvidenceKept
  <2> QED
    BY <1>2, <2>1, <2>3, <2>4 DEF EvidenceKept
<1> QED
  BY <1>3, <1>6

(* A report takes all that is kept, and had nothing in hand before.         *)
LEMMA EvidenceTaken ==
  ASSUME Inv, EvidenceKept, InReport, NEW t \in Publishers, TakeEvidence(t)
  PROVE  EvidenceKept' /\ InReport'
<1>1. /\ taken[t] = {} /\ taken' = [taken EXCEPT ![t] = unreported] /\ unreported' = {}
      /\ UNCHANGED <<dropped, reported, unrecorded>> /\ t \in Tasks
  BY DEF TakeEvidence, InReport, Tasks
<1>2. /\ taken'[t] = unreported
      /\ \A u \in Publishers : u # t => taken'[u] = taken[u]
  BY <1>1 DEF Inv, TypeOK
<1>3. Taken' = Taken \union unreported
  BY <1>1, <1>2 DEF Taken
<1>4. \A u, v \in Publishers : u # v => taken'[u] \intersect taken'[v] = {}
  <2>1. \A u \in Publishers : taken[u] \intersect unreported = {}
    BY DEF EvidenceKept, Taken
  <2> QED
    BY <1>2, <2>1 DEF EvidenceKept
<1>5. EvidenceKept'
  BY <1>1, <1>3, <1>4 DEF EvidenceKept
<1>6. InReport'
  <2>1. pc'[t] = "record" /\ \A u \in Publishers : u # t => pc'[u] = pc[u]
    BY <1>1 DEF TakeEvidence, Inv, TypeOK, Tasks
  <2> QED
    BY <1>2, <2>1 DEF InReport
<1> QED
  BY <1>5, <1>6

(* Recorded or refused, a report's drops leave the hand for one place.      *)
LEMMA EvidenceRecord ==
  ASSUME Inv, EvidenceKept, InReport, NEW t \in Publishers, Record(t)
  PROVE  EvidenceKept' /\ InReport'
<1>1. /\ taken' = [taken EXCEPT ![t] = {}] /\ UNCHANGED <<dropped, unreported>>
      /\ \/ reported' = reported \union taken[t] /\ unrecorded' = unrecorded
         \/ unrecorded' = unrecorded \union taken[t] /\ reported' = reported
  BY DEF Record, Recorded, Unrecorded
<1>2. taken'[t] = {} /\ \A u \in Publishers : u # t => taken'[u] = taken[u]
  BY <1>1 DEF Inv, TypeOK
<1>3. Taken = Taken' \union taken[t] /\ Taken' \intersect taken[t] = {}
  BY <1>2 DEF Taken, EvidenceKept
<1>4. \A u, v \in Publishers : u # v => taken'[u] \intersect taken'[v] = {}
  BY <1>2 DEF EvidenceKept
<1>5. EvidenceKept'
  BY <1>1, <1>3, <1>4 DEF EvidenceKept
<1>6. InReport'
  <2>1. \A u \in Publishers : u # t => pc'[u] = pc[u]
    BY DEF Record, Inv, TypeOK, Tasks
  <2> QED
    BY <1>2, <2>1 DEF InReport
<1> QED
  BY <1>5, <1>6

LEMMA EvidenceStep ==
  ASSUME Inv, EvidenceKept, InReport, [Next]_vars
  PROVE  EvidenceKept' /\ InReport'
<1> USE DEF client
<1> DEFINE Reporting == \A t \in Publishers : pc[t] = "record" => pc'[t] = "record"
<1>0. pc \in [Tasks -> Places] /\ \A t \in Publishers : t \in Tasks /\ t \notin Drains
  BY TasksAssumption DEF Inv, TypeOK, Tasks, Publishers
<1>1. CASE Connect \/ Disconnect \/ Deliver \/ UNCHANGED vars
  BY <1>1, EvidenceStays DEF Connect, Disconnect, Deliver, vars, tallies, evidence
<1>2. ASSUME NEW t \in Publishers,
             \/ PeriodicTick(t) \/ \E s \in Stations : Build(t, s) \/ Skip(t, s)
             \/ LookConnected(t) \/ HeldBack(t) \/ Refused(t)
      PROVE  EvidenceKept' /\ InReport'
  <2>1. UNCHANGED tallies /\ Reporting
    BY <1>0, <1>2 DEF PeriodicTick, Begin, Build, Skip, LookConnected, HeldBack, Refused
  <2> QED
    BY <2>1, EvidenceStays
<1>3. ASSUME NEW S \in SUBSET Stations, CosRecv(S) \/ CosEdges(S)
      PROVE  EvidenceKept' /\ InReport'
  <2>1. UNCHANGED tallies /\ Reporting
    BY <1>0, <1>3 DEF CosRecv, CosEdges, Begin
  <2> QED
    BY <2>1, EvidenceStays
<1>4. CASE CosTick \/ CosBatch \/ Spawn
  <2>1. UNCHANGED tallies /\ (pc[Cos] # "record")
    BY <1>4 DEF CosTick, CosBatch, Spawn
  <2>2. \A t \in Publishers : t # Cos /\ pc[t] # "off" => pc'[t] = pc[t]
    <3>1. CASE CosTick \/ CosBatch
      BY <1>0, <3>1 DEF CosTick, CosBatch, Begin
    <3>2. CASE Spawn
      <4>1. \/ pc' = [pc EXCEPT ![Cos] = "batch"]
            \/ ~draining /\ pc' = [pc EXCEPT ![Cos] = "batch", ![Another] = "wait"]
        BY <3>2 DEF Spawn
      <4>2. ~draining => Another \in Drains
        BY TasksAssumption DEF Another, Inv, OneDrain
      <4> QED
        BY <1>0, <4>1, <4>2
    <3> QED
      BY <1>4, <3>1, <3>2
  <2> QED
    BY <2>1, <2>2, EvidenceStays
<1>5. ASSUME NEW d \in Drains, DrainStep(d) \/ DrainRefused(d)
      PROVE  EvidenceKept' /\ InReport'
  <2>1. UNCHANGED tallies /\ Reporting
    BY <1>0, <1>5 DEF DrainStep, DrainPop, DrainOver, FlagDown, DrainRefused
  <2> QED
    BY <2>1, EvidenceStays
<1>6. ASSUME NEW t \in Tasks, Sent(t) PROVE EvidenceKept' /\ InReport'
  <2>1. UNCHANGED tallies /\ Reporting
    BY <1>0, <1>6 DEF Sent
  <2> QED
    BY <2>1, EvidenceStays
<1>7. ASSUME NEW t \in Publishers, LookCache(t) \/ TakeEvidence(t) \/ Record(t)
      PROVE  EvidenceKept' /\ InReport'
  BY <1>7, EvidenceDrops, EvidenceTaken, EvidenceRecord
<1> QED
  BY <1>1, <1>2, <1>3, <1>4, <1>5, <1>6, <1>7 DEF Next, PublisherStep, CosStep, Publishers

(* However often the cache drops while reports are held back, are under way *)
(* side by side or are refused by the database, every drop is accounted for *)
(* once: nothing is cleared that no report has taken, nothing reported      *)
(* twice.                                                                   *)
THEOREM MqttEvidenceKept == Spec => []EvidenceKept
<1> DEFINE J == Inv /\ EvidenceKept /\ InReport
<1>1. Init => J
  <2> SUFFICES ASSUME Init PROVE EvidenceKept /\ InReport
    BY InitInv
  <2>1. /\ dropped = 0 /\ unreported = {} /\ reported = {} /\ unrecorded = {}
        /\ \A t \in Publishers : taken[t] = {}
    BY DEF Init
  <2>2. 1 .. dropped = {}
    BY <2>1
  <2> QED
    BY <2>1, <2>2 DEF EvidenceKept, Taken, InReport
<1>2. J /\ [Next]_vars => J'
  BY StepInv, EvidenceStep
<1>3. J => EvidenceKept
  OBVIOUS
<1> QED
  BY <1>1, <1>2, <1>3, PTL DEF Spec

(* Two tasks never empty the cache at a time, whatever the connection does  *)
(* while one is on its way.                                                 *)
THEOREM MqttOneDrain == Spec => []OneDrain
<1>1. Inv => OneDrain
  BY DEF Inv
<1> QED
  BY <1>1, InvCorrect, PTL

-----------------------------------------------------------------------------
(* Nothing is lost, and what was cached keeps its order.  Both rest on the  *)
(* line to the broker: no message is in it twice, what went through the     *)
(* cache is sorted by number, and a message still with its author is newer  *)
(* than all of its author's in the line.                                    *)

Id(m) == <<m.st, m.seq>>

\* How an earlier message of the line stands to a later one.
Before(m, n) ==
  /\ Id(m) # Id(n)
  /\ m.late /\ n.late /\ m.st = n.st /\ m.by = n.by => m.seq < n.seq

Sorted(s) == \A i, j \in DOMAIN s : i < j => Before(s[i], s[j])

Ahead(s, t) == \A m \in Range(s), n \in Range(t) : Before(m, n)

Authors == {t \in Publishers : hand[t] # <<>>}

\* What an author is about to publish, against the line and the others.
Fresh(t) ==
  LET m == hand[t][1]
  IN  /\ m.by = t /\ ~m.late /\ m.seq <= seq[m.st]
      /\ \A n \in Range(Line) : /\ Id(n) # Id(m)
                                /\ n.by = t /\ n.st = m.st => n.seq < m.seq
      /\ \A u \in Authors : u # t => Id(hand[u][1]) # Id(m)

Numbered == \A m \in Range(Line) : m.seq <= seq[m.st]

Tally == Issued = Len(Line) + Cardinality(Authors) + dropped

LineInv == Sorted(Line) /\ Numbered /\ Tally /\ \A t \in Authors : Fresh(t)

(* Of two sequences one after the other.                                    *)
LEMMA ConcatSorted ==
  ASSUME NEW s \in Seq(Messages), NEW t \in Seq(Messages)
  PROVE  Sorted(s \o t) <=> Sorted(s) /\ Sorted(t) /\ Ahead(s, t)
<1> DEFINE st == s \o t
<1>1. /\ Len(s) \in Nat /\ Len(t) \in Nat
      /\ DOMAIN s = 1 .. Len(s) /\ DOMAIN t = 1 .. Len(t)
      /\ DOMAIN st = 1 .. (Len(s) + Len(t))
  BY ConcatProperties, LenProperties
<1>2. \A i \in 1 .. (Len(s) + Len(t)) : st[i] = IF i <= Len(s) THEN s[i] ELSE t[i - Len(s)]
  BY ConcatProperties
<1>3. \A i \in 1 .. Len(s) : i \in DOMAIN st /\ st[i] = s[i]
  BY <1>1, <1>2
<1>4. \A i \in 1 .. Len(t) : Len(s) + i \in DOMAIN st /\ st[Len(s) + i] = t[i]
  BY <1>1, <1>2
<1> HIDE DEF st
<1>5. ASSUME Sorted(st) PROVE Sorted(s) /\ Sorted(t) /\ Ahead(s, t)
  <2>1. Sorted(s)
    BY <1>1, <1>3, <1>5 DEF Sorted
  <2>2. Sorted(t)
    <3> SUFFICES ASSUME NEW i \in 1 .. Len(t), NEW j \in 1 .. Len(t), i < j
                 PROVE Before(t[i], t[j])
      BY <1>1 DEF Sorted
    <3>1. Len(s) + i < Len(s) + j
      BY <1>1
    <3> QED
      BY <3>1, <1>4, <1>5 DEF Sorted
  <2>3. Ahead(s, t)
    <3> SUFFICES ASSUME NEW i \in 1 .. Len(s), NEW j \in 1 .. Len(t)
                 PROVE Before(s[i], t[j])
      BY <1>1 DEF Ahead, Range
    <3>1. i < Len(s) + j
      BY <1>1
    <3> QED
      BY <3>1, <1>3, <1>4, <1>5 DEF Sorted
  <2> QED
    BY <2>1, <2>2, <2>3
<1>6. ASSUME Sorted(s), Sorted(t), Ahead(s, t) PROVE Sorted(st)
  <2> SUFFICES ASSUME NEW i \in DOMAIN st, NEW j \in DOMAIN st, i < j
               PROVE Before(st[i], st[j])
    BY DEF Sorted
  <2>1. CASE j <= Len(s)
    <3>1. i \in DOMAIN s /\ j \in DOMAIN s /\ st[i] = s[i] /\ st[j] = s[j]
      BY <2>1, <1>1, <1>2
    <3> QED
      BY <3>1, <1>6 DEF Sorted
  <2>2. CASE i <= Len(s) /\ Len(s) < j
    <3>1. i \in DOMAIN s /\ st[i] = s[i] /\ j - Len(s) \in DOMAIN t /\ st[j] = t[j - Len(s)]
      BY <2>2, <1>1, <1>2
    <3>2. s[i] \in Range(s) /\ t[j - Len(s)] \in Range(t)
      BY <3>1 DEF Range
    <3> QED
      BY <3>1, <3>2, <1>6 DEF Ahead
  <2>3. CASE Len(s) < i
    <3>1. /\ i - Len(s) \in DOMAIN t /\ st[i] = t[i - Len(s)]
          /\ j - Len(s) \in DOMAIN t /\ st[j] = t[j - Len(s)]
          /\ i - Len(s) < j - Len(s)
      BY <2>3, <1>1, <1>2
    <3> QED
      BY <3>1, <1>6 DEF Sorted
  <2> QED
    BY <2>1, <2>2, <2>3, <1>1
<1> QED
  BY <1>5, <1>6 DEF st

LEMMA OneSorted ==
  ASSUME NEW m \in Messages
  PROVE  /\ <<m>> \in Seq(Messages) /\ Len(<<m>>) = 1
         /\ Range(<<m>>) = {m} /\ Sorted(<<m>>)
BY DEF Range, Sorted

LEMMA Regroup ==
  /\ \A s, t, u \in Seq(Messages) : (s \o t) \o u = s \o (t \o u)
  /\ \A s \in Seq(Messages) : s \o <<>> = s /\ <<>> \o s = s
BY ConcatAssociative, ConcatEmptySeq

LEMMA NoneSorted ==
  /\ <<>> \in Seq(Messages) /\ Len(<<>>) = 0
  /\ Range(<<>>) = {} /\ Sorted(<<>>)
BY DEF Range, Sorted

LEMMA AppendOne ==
  ASSUME NEW s \in Seq(Messages), NEW m \in Messages
  PROVE  /\ s \o <<m>> \in Seq(Messages) /\ Len(s \o <<m>>) = Len(s) + 1
         /\ Range(s \o <<m>>) = Range(s) \cup {m}
         /\ Sorted(s \o <<m>>) <=> Sorted(s) /\ Ahead(s, <<m>>)
<1> DEFINE one == <<m>>
<1>1. one \in Seq(Messages) /\ Len(one) = 1 /\ Range(one) = {m} /\ Sorted(one)
  BY OneSorted
<1> HIDE DEF one
<1>2. /\ s \o one \in Seq(Messages) /\ Len(s \o one) = Len(s) + Len(one)
      /\ Range(s \o one) = Range(s) \cup Range(one)
      /\ Sorted(s \o one) <=> Sorted(s) /\ Sorted(one) /\ Ahead(s, one)
  BY <1>1, ConcatProperties, RangeConcatenation, ConcatSorted
<1> QED
  BY <1>1, <1>2 DEF one

(* A line in four parts.                                                    *)
Laid(b, o, h, c) == b \o o \o h \o c

LEMMA LineParts ==
  ASSUME NEW b \in Seq(Messages), NEW o \in Seq(Messages),
         NEW h \in Seq(Messages), NEW c \in Seq(Messages)
  PROVE  /\ Laid(b, o, h, c) \in Seq(Messages)
         /\ Len(Laid(b, o, h, c)) = Len(b) + Len(o) + Len(h) + Len(c)
         /\ Range(Laid(b, o, h, c)) = Range(b) \cup Range(o) \cup Range(h) \cup Range(c)
         /\ Sorted(Laid(b, o, h, c)) <=>
              /\ Sorted(b) /\ Sorted(o) /\ Sorted(h) /\ Sorted(c)
              /\ Ahead(b, o) /\ Ahead(b, h) /\ Ahead(b, c)
              /\ Ahead(o, h) /\ Ahead(o, c) /\ Ahead(h, c)
<1>1. /\ b \o o \in Seq(Messages) /\ Len(b \o o) = Len(b) + Len(o)
      /\ Range(b \o o) = Range(b) \cup Range(o)
      /\ Sorted(b \o o) <=> Sorted(b) /\ Sorted(o) /\ Ahead(b, o)
  BY ConcatProperties, RangeConcatenation, ConcatSorted
<1> DEFINE bo == b \o o
<1>a. bo \in Seq(Messages)
  BY <1>1
<1> HIDE DEF bo
<1>2. /\ bo \o h \in Seq(Messages) /\ Len(bo \o h) = Len(bo) + Len(h)
      /\ Range(bo \o h) = Range(bo) \cup Range(h)
      /\ Sorted(bo \o h) <=> Sorted(bo) /\ Sorted(h) /\ Ahead(bo, h)
  BY <1>a, ConcatProperties, RangeConcatenation, ConcatSorted
<1> DEFINE boh == bo \o h
<1>b. boh \in Seq(Messages)
  BY <1>2
<1> HIDE DEF boh
<1>3. /\ boh \o c \in Seq(Messages) /\ Len(boh \o c) = Len(boh) + Len(c)
      /\ Range(boh \o c) = Range(boh) \cup Range(c)
      /\ Sorted(boh \o c) <=> Sorted(boh) /\ Sorted(c) /\ Ahead(boh, c)
  BY <1>b, ConcatProperties, RangeConcatenation, ConcatSorted
<1>4. Ahead(bo, h) <=> Ahead(b, h) /\ Ahead(o, h)
  BY <1>1 DEF Ahead, bo
<1>5. Ahead(boh, c) <=> Ahead(b, c) /\ Ahead(o, c) /\ Ahead(h, c)
  BY <1>1, <1>2 DEF Ahead, bo, boh
<1>6. Laid(b, o, h, c) = boh \o c
  BY DEF bo, boh, Laid
<1>7. Len(boh) = Len(b) + Len(o) + Len(h)
  BY <1>1, <1>2 DEF bo, boh
<1>8. Range(boh) = Range(b) \cup Range(o) \cup Range(h)
  BY <1>1, <1>2 DEF bo, boh
<1>9. /\ Sorted(boh) <=> Sorted(bo) /\ Sorted(h) /\ Ahead(bo, h)
      /\ Sorted(bo) <=> Sorted(b) /\ Sorted(o) /\ Ahead(b, o)
  BY <1>1, <1>2 DEF bo, boh
<1> QED
  BY <1>3, <1>4, <1>5, <1>6, <1>7, <1>8, <1>9

LEMMA LaidLen ==
  ASSUME NEW b \in Seq(Messages), NEW o \in Seq(Messages),
         NEW h \in Seq(Messages), NEW c \in Seq(Messages)
  PROVE  Len(Laid(b, o, h, c)) = Len(b) + Len(o) + Len(h) + Len(c)
BY LineParts

LEMMA LaidRange ==
  ASSUME NEW b \in Seq(Messages), NEW o \in Seq(Messages),
         NEW h \in Seq(Messages), NEW c \in Seq(Messages)
  PROVE  Range(Laid(b, o, h, c)) = Range(b) \cup Range(o) \cup Range(h) \cup Range(c)
BY LineParts

LEMMA HeadFirst ==
  ASSUME NEW s \in Seq(Messages), s # <<>>
  PROVE  /\ Head(s) \in Messages /\ Tail(s) \in Seq(Messages)
         /\ s = <<Head(s)>> \o Tail(s)
<1> DEFINE h == <<Head(s)>>
           u == h \o Tail(s)
<1>1. /\ Head(s) \in Messages /\ Tail(s) \in Seq(Messages) /\ Len(Tail(s)) = Len(s) - 1
      /\ \A i \in 1 .. Len(Tail(s)) : Tail(s)[i] = s[i + 1]
  BY HeadTailProperties
<1>2. h \in Seq(Messages) /\ Len(h) = 1 /\ h[1] = s[1] /\ Len(s) \in Nat
  BY <1>1
<1> HIDE DEF h
<1>3. /\ u \in Seq(Messages) /\ Len(u) = Len(s)
      /\ \A i \in 1 .. Len(s) : u[i] = IF i <= 1 THEN h[i] ELSE Tail(s)[i - 1]
  <2>1. /\ u \in Seq(Messages) /\ Len(u) = Len(h) + Len(Tail(s))
        /\ \A i \in 1 .. Len(h) + Len(Tail(s)) :
             u[i] = IF i <= Len(h) THEN h[i] ELSE Tail(s)[i - Len(h)]
    <3>1. h \in Seq(Messages) /\ Tail(s) \in Seq(Messages)
      BY <1>1, <1>2
    <3> QED
      BY <3>1, ConcatProperties
  <2> HIDE DEF u
  <2> QED
    BY <1>1, <1>2, <2>1
<1>4. \A i \in 1 .. Len(s) : u[i] = s[i]
  BY <1>1, <1>2, <1>3
<1>5. u = s
  <2> HIDE DEF u
  <2> QED
    BY <1>3, <1>4, SeqEqual
<1> QED
  BY <1>1, <1>5 DEF h

(* OfflineCache::push takes messages away at the front only, counts them,   *)
(* and keeps the one it is given.                                           *)
LEMMA PushShape ==
  ASSUME TypeOK, NEW m \in Messages, NEW aged \in 0 .. Len(cache)
  PROVE  \E gone, kept \in Seq(Messages) :
           /\ cache = gone \o kept
           /\ Push(m, aged).q = kept \o <<m>> /\ Push(m, aged).gone = Len(gone)
<1> DEFINE rest == SubSeq(cache, aged + 1, Len(cache))
           all  == Append(rest, m)
           over == IF Len(all) > CacheMax THEN Len(all) - CacheMax ELSE 0
           k    == aged + over
           kept == SubSeq(cache, k + 1, Len(cache))
           gone == SubSeq(cache, 1, k)
           q    == SubSeq(all, over + 1, Len(all))
<1>1. cache \in Seq(Messages) /\ CacheMax \in Nat \ {0} /\ Len(cache) \in Nat
      /\ \A i \in 1 .. Len(cache) : cache[i] \in Messages
  BY SizesAssumption, LenProperties, ElementOfSeq DEF TypeOK
<1>2. /\ rest \in Seq(Messages) /\ Len(rest) = Len(cache) - aged
      /\ \A i \in 1 .. Len(rest) : rest[i] = cache[i + aged]
  BY <1>1
<1> HIDE DEF rest
<1>3. /\ all \in Seq(Messages) /\ Len(all) = Len(rest) + 1
      /\ \A i \in 1 .. Len(rest) : all[i] = rest[i]
      /\ all[Len(all)] = m
  BY <1>2, AppendProperties
<1>4. Push(m, aged) = [q |-> q, gone |-> k]
  BY DEF Push, rest
<1> HIDE DEF all
<1>5. over \in 0 .. Len(rest)
  BY <1>1, <1>2, <1>3
<1> HIDE DEF over
<1>6. k \in 0 .. Len(cache) /\ k = aged + over
  BY <1>1, <1>2, <1>5
<1>7. /\ q \in Seq(Messages) /\ Len(q) = Len(all) - over
      /\ \A i \in 1 .. Len(q) : q[i] = all[over + i]
  BY <1>1, <1>2, <1>3, <1>5
<1> HIDE DEF k, q
<1>8. /\ kept \in Seq(Messages) /\ Len(kept) = Len(cache) - k
      /\ \A i \in 1 .. Len(kept) : kept[i] = cache[k + i]
      /\ gone \in Seq(Messages) /\ Len(gone) = k
  BY <1>1, <1>6
<1>9. cache = gone \o kept
  <2>1. cache = SubSeq(cache, 1, Len(cache))
    BY <1>1, SubSeqFull
  <2>2. SubSeq(cache, 1, k) \o SubSeq(cache, k + 1, Len(cache)) = SubSeq(cache, 1, Len(cache))
    <3>1. 1 \in 1 .. Len(cache) + 1 /\ k \in 1 - 1 .. Len(cache) /\ Len(cache) \in k .. Len(cache)
      BY <1>1, <1>6
    <3> QED
      BY <3>1, <1>1, ConcatAdjacentSubSeq
  <2> QED
    BY <2>1, <2>2
<1> HIDE DEF kept, gone
<1>10. q = kept \o <<m>>
  <2> DEFINE one == <<m>>
             u   == kept \o one
  <2>1. one \in Seq(Messages) /\ Len(one) = 1 /\ one[1] = m
    OBVIOUS
  <2> HIDE DEF one
  <2>2. /\ u \in Seq(Messages) /\ Len(u) = Len(kept) + 1
        /\ \A i \in 1 .. Len(kept) + 1 :
             u[i] = IF i <= Len(kept) THEN kept[i] ELSE one[i - Len(kept)]
    <3>1. /\ u \in Seq(Messages) /\ Len(u) = Len(kept) + Len(one)
          /\ \A i \in 1 .. Len(kept) + Len(one) :
               u[i] = IF i <= Len(kept) THEN kept[i] ELSE one[i - Len(kept)]
      BY <1>8, <2>1, ConcatProperties
    <3> HIDE DEF u
    <3> QED
      BY <2>1, <3>1
  <2> HIDE DEF u
  <2>3. Len(q) = Len(u)
    BY <1>1, <1>2, <1>3, <1>5, <1>6, <1>7, <1>8, <2>2
  <2>4. ASSUME NEW i \in 1 .. Len(q) PROVE q[i] = u[i]
    <3>1. CASE i <= Len(kept)
      <4>1. u[i] = cache[k + i]
        BY <3>1, <1>8, <2>2, <2>3
      <4>2. q[i] = all[over + i] /\ over + i \in 1 .. Len(rest)
        BY <3>1, <1>1, <1>2, <1>5, <1>6, <1>7, <1>8
      <4>3. q[i] = cache[over + i + aged]
        BY <4>2, <1>2, <1>3
      <4> QED
        BY <4>1, <4>3, <1>5, <1>6
    <3>2. CASE i = Len(kept) + 1
      <4>1. u[i] = m
        BY <3>2, <1>8, <2>1, <2>2
      <4>2. over + i = Len(all)
        BY <3>2, <1>1, <1>2, <1>3, <1>5, <1>6, <1>8
      <4> QED
        BY <4>1, <4>2, <1>3, <1>7
    <3> QED
      BY <3>1, <3>2, <2>2, <2>3, <1>8
  <2> QED
    BY <1>7, <2>2, <2>3, <2>4, SeqEqual DEF u, one
<1>11. Push(m, aged).q = kept \o <<m>> /\ Push(m, aged).gone = Len(gone)
  BY <1>4, <1>8, <1>10
<1> QED
  BY <1>8, <1>9, <1>11

(* What the drains hold is what one drain holds.                            *)
OneHolds ==
  /\ Held \in Seq(Messages)
  /\ \A d \in Drains : hand[d] # <<>> => Held = hand[d] /\ Holding = {d}
  /\ (\A d \in Drains : hand[d] = <<>>) => Held = <<>> /\ Holding = {}

LEMMA HeldLaw == Inv => OneHolds
<1> SUFFICES ASSUME Inv PROVE OneHolds
  OBVIOUS
<1>1. Holding \subseteq Running
  BY HandLaw DEF Holding, Running, Inv, Tasks
<1>2. \A d, e \in Holding : d = e
  BY <1>1 DEF Inv, OneDrain
<1>3. \A d \in Drains : hand[d] # <<>> => Holding = {d}
  BY <1>2 DEF Holding
<1>4. \A d \in Drains : hand[d] # <<>> => Held = hand[d]
  BY <1>3 DEF Held
<1>5. (\A d \in Drains : hand[d] = <<>>) => Held = <<>> /\ Holding = {}
  BY DEF Held, Holding
<1>6. \A d \in Drains : hand[d] \in Seq(Messages)
  BY DEF Inv, TypeOK, Tasks
<1>7. Held \in Seq(Messages)
  <2>1. CASE \A d \in Drains : hand[d] = <<>>
    BY <1>5, <2>1, NoneSorted
  <2>2. CASE ~ \A d \in Drains : hand[d] = <<>>
    BY <1>4, <1>6, <2>2
  <2> QED
    BY <2>1, <2>2
<1> QED
  BY <1>3, <1>4, <1>5, <1>7 DEF OneHolds

LEMMA LineTypes ==
  Inv => /\ broker \in Seq(Messages) /\ outq \in Seq(Messages)
         /\ Held \in Seq(Messages) /\ cache \in Seq(Messages)
         /\ Line \in Seq(Messages) /\ Range(Line) \subseteq Messages
<1> SUFFICES ASSUME Inv
             PROVE  /\ broker \in Seq(Messages) /\ outq \in Seq(Messages)
                    /\ Held \in Seq(Messages) /\ cache \in Seq(Messages)
                    /\ Line \in Seq(Messages) /\ Range(Line) \subseteq Messages
  OBVIOUS
<1>1. /\ broker \in Seq(Messages) /\ outq \in Seq(Messages)
      /\ Held \in Seq(Messages) /\ cache \in Seq(Messages)
  BY HeldLaw DEF OneHolds, Inv, TypeOK
<1>2. Line \in Seq(Messages)
  BY <1>1, LineParts DEF Line, Laid
<1> QED
  BY <1>1, <1>2, RangeOfSeq

(* A publisher's hand is none of the line's.                                *)
LEMMA PublisherKeepsHeld ==
  ASSUME Inv, NEW t \in Publishers, NEW x, hand' = [hand EXCEPT ![t] = x]
  PROVE  Held' = Held
<1>1. Holding' = Holding
  BY PublisherKeepsHolding DEF Inv
<1>2. \A d \in Drains : hand'[d] = hand[d]
  BY TasksAssumption DEF Publishers, Inv, TypeOK, Tasks
<1>3. CASE Holding = {}
  BY <1>1, <1>3 DEF Held
<1>4. CASE Holding # {}
  <2>1. (CHOOSE d \in Holding : TRUE) \in Drains
    BY <1>4 DEF Holding
  <2> QED
    BY <1>1, <1>2, <1>4, <2>1 DEF Held
<1> QED
  BY <1>3, <1>4

(* Who publishes holds one message.                                         *)
LEMMA InHand ==
  ASSUME Inv, NEW t \in Tasks, pc[t] \in Publishing
  PROVE  hand[t][1] \in Messages /\ hand[t] = <<hand[t][1]>> /\ hand[t] # <<>>
<1> DEFINE u == <<hand[t][1]>>
<1>1. hand[t] \in Seq(Messages) /\ Len(hand[t]) = 1
  BY DEF Inv, TypeOK
<1>2. hand[t][1] \in Messages /\ u \in Seq(Messages) /\ Len(u) = 1 /\ u[1] = hand[t][1]
  BY <1>1
<1> HIDE DEF u
<1>3. \A i \in 1 .. Len(hand[t]) : hand[t][i] = u[i]
  BY <1>1, <1>2
<1>4. hand[t] = u
  BY <1>1, <1>2, <1>3, SeqEqual
<1> QED
  BY <1>1, <1>2, <1>4 DEF u

LEMMA AuthorHand ==
  ASSUME Inv, NEW t \in Authors
  PROVE  /\ t \in Publishers /\ t \in Tasks /\ hand[t][1] \in Messages
         /\ hand[t] = <<hand[t][1]>>
<1>1. t \in Publishers /\ t \in Tasks /\ hand[t] # <<>>
  BY DEF Authors, Tasks
<1> QED
  BY <1>1, InHand, HandLaw DEF Inv

(* Steps that move messages along the line, or leave it alone.              *)
LEMMA KeepLine ==
  ASSUME LineInv, Line' = Line, UNCHANGED <<seq, dropped>>,
         \A t \in Publishers : hand'[t] = hand[t]
  PROVE  LineInv'
<1>1. Authors' = Authors /\ Issued' = Issued
  BY DEF Authors, Issued
<1>2. \A t \in Authors : t \in Publishers /\ hand'[t] = hand[t]
  BY DEF Authors
<1>3. \A t \in Authors : Fresh(t)'
  BY <1>1, <1>2 DEF Fresh, LineInv
<1> QED
  BY <1>1, <1>3 DEF LineInv, Numbered, Tally

LEMMA KeepAll ==
  ASSUME LineInv, UNCHANGED <<hand, seq, cache, dropped, outq, broker>>
  PROVE  LineInv'
<1>1. Line' = Line
  BY DEF Line, Held, Holding
<1> QED
  BY <1>1, KeepLine

LEMMA LineDeliver == Inv /\ LineInv /\ Deliver => LineInv'
<1> SUFFICES ASSUME Inv, LineInv, Deliver PROVE LineInv'
  OBVIOUS
<1> USE DEF evidence, tallies, client
<1> DEFINE h == <<Head(outq)>>
<1>1. /\ broker \in Seq(Messages) /\ outq \in Seq(Messages) /\ outq # <<>>
      /\ Head(outq) \in Messages /\ Tail(outq) \in Seq(Messages) /\ h \in Seq(Messages)
      /\ outq = h \o Tail(outq)
  BY HeadFirst, LineTypes DEF Deliver
<1>2. broker' = broker \o h /\ outq' = Tail(outq)
  BY <1>1, AppendIsConcat DEF Deliver
<1> HIDE DEF h
<1>3. broker' \o outq' = broker \o outq
  <2>1. (broker \o h) \o Tail(outq) = broker \o (h \o Tail(outq))
    BY <1>1, Regroup
  <2> QED
    BY <1>1, <1>2, <2>1, Zenon
<1>4. UNCHANGED <<hand, seq, cache, dropped>>
  BY DEF Deliver
<1>5. Line' = Line
  BY <1>3, <1>4 DEF Line, Held, Holding
<1> QED
  BY <1>4, <1>5, KeepLine

LEMMA LinePop ==
  ASSUME Inv, LineInv, Inv', NEW d \in Drains, DrainPop(d)
  PROVE  LineInv'
<1> USE DEF evidence, tallies, client
<1> DEFINE h == <<Head(cache)>>
           x == broker \o outq
<1>1. /\ broker \in Seq(Messages) /\ outq \in Seq(Messages) /\ cache \in Seq(Messages)
      /\ Tail(cache) \in Seq(Messages) /\ h \in Seq(Messages) /\ h # <<>>
      /\ cache = h \o Tail(cache)
  BY HeadFirst, LineTypes DEF DrainPop
<1>2. d \in Tasks /\ d \in Running /\ hand[d] = <<>>
  BY HandLaw DEF DrainPop, Running, Inv, Tasks
<1>3. /\ hand' = [hand EXCEPT ![d] = h] /\ cache' = Tail(cache)
      /\ UNCHANGED <<seq, dropped, broker, outq>>
  BY DEF DrainPop
<1>4. Held = <<>>
  <2>1. \A e \in Drains : e # d => pc[e] = "off"
    BY <1>2 DEF Running, Inv, OneDrain
  <2>2. \A e \in Drains : hand[e] = <<>>
    BY <1>2, <2>1, HandLaw DEF Inv, Tasks
  <2> QED
    BY <2>2, HeldLaw DEF OneHolds
<1>5. Held' = h
  <2>1. hand'[d] = h
    BY <1>2, <1>3 DEF Inv, TypeOK
  <2>2. hand'[d] # <<>> => Held' = hand'[d]
    <3>1. (Inv => OneHolds)'
      BY HeldLaw, PTL
    <3> QED
      BY <3>1 DEF OneHolds
  <2> QED
    BY <1>1, <2>1, <2>2
<1> HIDE DEF h
<1>6. x \in Seq(Messages)
  BY <1>1, ConcatProperties
<1>7. broker' \o outq' = x
  BY <1>3
<1> HIDE DEF x
<1>8. (x \o h) \o Tail(cache) = (x \o <<>>) \o cache
  <2>1. (x \o h) \o Tail(cache) = x \o (h \o Tail(cache)) /\ x \o <<>> = x
    BY <1>1, <1>6, Regroup
  <2> QED
    BY <1>1, <2>1, Zenon
<1>9. Line' = Line
  BY <1>3, <1>4, <1>5, <1>7, <1>8 DEF Line, x
<1>10. \A t \in Publishers : hand'[t] = hand[t]
  BY <1>3, TasksAssumption DEF Inv, TypeOK, Tasks
<1> QED
  BY <1>3, <1>9, <1>10, KeepLine

\* What a drain is about to send is what the drains hold.
LEMMA DrainHand ==
  ASSUME Inv, NEW d \in Drains, pc[d] = "send"
  PROVE  /\ hand[d][1] \in Messages /\ hand[d] = <<hand[d][1]>> /\ Held = hand[d]
         /\ \A e \in Drains : e # d => hand[e] = <<>>
<1>1. d \in Tasks /\ hand[d] # <<>> /\ hand[d][1] \in Messages /\ hand[d] = <<hand[d][1]>>
  BY InHand DEF Tasks
<1>2. Holding = {d} /\ Held = hand[d]
  BY <1>1, HeldLaw DEF OneHolds
<1> QED
  BY <1>1, <1>2 DEF Holding

LEMMA LineRefused ==
  ASSUME Inv, LineInv, Inv', NEW d \in Drains, DrainRefused(d)
  PROVE  LineInv'
<1> USE DEF evidence, tallies, client
<1> DEFINE x == broker \o outq
<1>1. /\ broker \in Seq(Messages) /\ outq \in Seq(Messages) /\ cache \in Seq(Messages)
      /\ hand[d] \in Seq(Messages)
  BY LineTypes DEF Inv, TypeOK, Tasks
<1>2. /\ hand[d] = <<hand[d][1]>> /\ Held = hand[d]
      /\ \A e \in Drains : e # d => hand[e] = <<>>
  BY DrainHand DEF DrainRefused
<1>3. /\ hand' = [hand EXCEPT ![d] = <<>>] /\ cache' = hand[d] \o cache
      /\ UNCHANGED <<seq, dropped, broker, outq>>
  BY <1>2 DEF DrainRefused, PutBack
<1>4. Held' = <<>>
  <2>1. \A e \in Drains : hand'[e] = <<>>
    BY <1>2, <1>3 DEF Inv, TypeOK, Tasks
  <2>2. (Inv => OneHolds)'
    BY HeldLaw, PTL
  <2> QED
    BY <2>1, <2>2 DEF OneHolds
<1>5. x \in Seq(Messages)
  BY <1>1, ConcatProperties
<1>6. broker' \o outq' = x
  BY <1>3
<1> HIDE DEF x
<1>7. (x \o <<>>) \o (hand[d] \o cache) = (x \o hand[d]) \o cache
  <2>1. (x \o hand[d]) \o cache = x \o (hand[d] \o cache) /\ x \o <<>> = x
    BY <1>1, <1>5, Regroup
  <2> QED
    BY <2>1, Zenon
<1>8. Line' = Line
  BY <1>2, <1>3, <1>4, <1>6, <1>7 DEF Line, x
<1>9. \A t \in Publishers : hand'[t] = hand[t]
  BY <1>3, TasksAssumption DEF Inv, TypeOK, Tasks
<1> QED
  BY <1>3, <1>8, <1>9, KeepLine

LEMMA LineDrained ==
  ASSUME Inv, LineInv, Inv', NEW d \in Drains, Sent(d)
  PROVE  LineInv'
<1> USE DEF evidence, tallies, client
<1>1. /\ broker \in Seq(Messages) /\ outq \in Seq(Messages) /\ cache \in Seq(Messages)
      /\ hand[d] \in Seq(Messages)
  BY LineTypes DEF Inv, TypeOK, Tasks
<1>2. Held = hand[d] /\ \A e \in Drains : e # d => hand[e] = <<>>
  BY DrainHand DEF Sent
<1>3. /\ hand' = [hand EXCEPT ![d] = <<>>] /\ outq' = outq \o hand[d]
      /\ UNCHANGED <<seq, dropped, broker, cache>>
  BY DEF Sent
<1>4. Held' = <<>>
  <2>1. \A e \in Drains : hand'[e] = <<>>
    BY <1>2, <1>3 DEF Inv, TypeOK, Tasks
  <2>2. (Inv => OneHolds)'
    BY HeldLaw, PTL
  <2> QED
    BY <2>1, <2>2 DEF OneHolds
<1>5. /\ outq \o hand[d] \in Seq(Messages)
      /\ broker \o (outq \o hand[d]) \in Seq(Messages)
  BY <1>1, ConcatProperties
<1>6. (broker \o (outq \o hand[d])) \o <<>> = (broker \o outq) \o hand[d]
  BY <1>1, <1>5, Regroup
<1>7. Line' = Line
  BY <1>2, <1>3, <1>4, <1>6 DEF Line
<1>8. \A t \in Publishers : hand'[t] = hand[t]
  BY <1>3, TasksAssumption DEF Inv, TypeOK, Tasks
<1> QED
  BY <1>3, <1>7, <1>8, KeepLine

(* The numbers given out.                                                   *)
LEMMA IssuedLaw ==
  ASSUME TypeOK, NEW s \in Stations, seq[s] < MaxSeq, seq' = [seq EXCEPT ![s] = @ + 1]
  PROVE  Issued \in Nat /\ Issued' = Issued + 1
<1> DEFINE N == {n \in Stations \X (1 .. MaxSeq) : n[2] <= seq[n[1]]}
           M == {n \in Stations \X (1 .. MaxSeq) : n[2] <= seq'[n[1]]}
<1>1. IsFiniteSet(Stations \X (1 .. MaxSeq))
  <2>1. IsFiniteSet(1 .. MaxSeq)
    BY SizesAssumption, FS_Interval
  <2> QED
    BY <2>1, TasksAssumption, FS_Product
<1>2. IsFiniteSet(N) /\ Cardinality(N) \in Nat
  BY <1>1, FS_Subset, FS_CardinalityType
<1>3. /\ seq \in [Stations -> 0 .. MaxSeq] /\ MaxSeq \in Nat
      /\ \A u \in Stations : seq'[u] = IF u = s THEN seq[s] + 1 ELSE seq[u]
  BY SizesAssumption DEF TypeOK
<1>4. M = N \cup {<<s, seq[s] + 1>>}
  BY <1>3
<1>5. <<s, seq[s] + 1>> \notin N
  BY <1>3
<1>6. Cardinality(M) = Cardinality(N) + 1
  <2> HIDE DEF N, M
  <2> QED
    BY <1>2, <1>4, <1>5, FS_AddElement
<1> QED
  BY <1>2, <1>6 DEF Issued

LEMMA AuthorsFinite == IsFiniteSet(Authors) /\ Cardinality(Authors) \in Nat
<1>1. Authors \subseteq Tasks
  BY DEF Authors, Tasks
<1> QED
  BY <1>1, TasksAssumption, FS_Subset, FS_CardinalityType

(* A message is made: newer than all of its station's.                      *)
LEMMA LineBuild ==
  ASSUME Inv, LineInv, NEW t \in Publishers, NEW s \in Stations, Build(t, s)
  PROVE  LineInv'
<1> USE DEF evidence, tallies, client
<1> DEFINE m == [st |-> s, by |-> t, seq |-> seq[s] + 1, late |-> FALSE]
<1>1. /\ seq' = [seq EXCEPT ![s] = @ + 1] /\ hand' = [hand EXCEPT ![t] = <<m>>]
      /\ UNCHANGED <<cache, dropped, outq, broker>> /\ seq[s] < MaxSeq /\ pc[t] = "round"
  BY DEF Build
<1>2. m.st = s /\ m.by = t /\ m.seq = seq[s] + 1 /\ ~m.late
  OBVIOUS
<1> HIDE DEF m
<1>3. /\ seq \in [Stations -> 0 .. MaxSeq] /\ MaxSeq \in Nat
      /\ \A u \in Stations : seq'[u] = IF u = s THEN seq[s] + 1 ELSE seq[u]
  BY <1>1, SizesAssumption DEF Inv, TypeOK
<1>4. Line' = Line
  BY <1>1, PublisherKeepsHeld DEF Line
<1>5. t \notin Authors /\ Authors' = Authors \cup {t}
  <2>1. hand[t] = <<>> /\ t \in Tasks
    BY <1>1, HandLaw DEF Inv, Tasks
  <2>2. \A u \in Publishers : hand'[u] = IF u = t THEN <<m>> ELSE hand[u]
    BY <1>1 DEF Inv, TypeOK, Tasks
  <2> QED
    BY <2>1, <2>2 DEF Authors
<1>6. \A n \in Range(Line) : n.seq <= seq[n.st] /\ n.st \in Stations /\ n.seq \in Int
  BY LineTypes DEF LineInv, Numbered, Messages
<1>7. \A u \in Authors :
        /\ hand'[u] = hand[u] /\ hand[u][1].st \in Stations /\ hand[u][1].seq \in Int
        /\ hand[u][1].seq <= seq[hand[u][1].st] /\ u # t
  <2> SUFFICES ASSUME NEW u \in Authors
               PROVE  /\ hand'[u] = hand[u] /\ hand[u][1].st \in Stations
                      /\ hand[u][1].seq \in Int
                      /\ hand[u][1].seq <= seq[hand[u][1].st] /\ u # t
    OBVIOUS
  <2>1. u \in Tasks /\ hand[u][1] \in Messages /\ u # t
    BY <1>5, AuthorHand
  <2>2. hand'[u] = hand[u]
    BY <1>1, <2>1 DEF Inv, TypeOK
  <2>3. hand[u][1].seq <= seq[hand[u][1].st]
    BY DEF LineInv, Fresh
  <2> QED
    BY <2>1, <2>2, <2>3 DEF Messages
<1>8. hand'[t] = <<m>> /\ hand'[t][1] = m
  BY <1>1 DEF Inv, TypeOK, Tasks
<1>9. Fresh(t)'
  <2>1. \A n \in Range(Line) : Id(n) # Id(m) /\ (n.st = m.st => n.seq < m.seq)
    BY <1>2, <1>3, <1>6 DEF Id
  <2>2. \A u \in Authors : Id(hand[u][1]) # Id(m)
    BY <1>2, <1>3, <1>7 DEF Id
  <2>3. \A u \in Authors' : u # t => Id(hand'[u][1]) # Id(m)
    BY <1>5, <1>7, <2>2
  <2>4. m.seq <= seq'[m.st]
    BY <1>2, <1>3
  <2> QED
    BY <1>2, <1>4, <1>8, <2>1, <2>3, <2>4 DEF Fresh, Id
<1>10. ASSUME NEW u \in Authors PROVE Fresh(u)'
  <2>1. Fresh(u)
    BY DEF LineInv
  <2>2. hand[u][1].seq <= seq'[hand[u][1].st]
    BY <1>3, <1>7
  <2>3. Id(m) # Id(hand[u][1])
    BY <1>2, <1>3, <1>7 DEF Id
  <2>4. \A v \in Authors' : v # u => Id(hand'[v][1]) # Id(hand[u][1])
    BY <1>5, <1>7, <1>8, <2>1, <2>3 DEF Fresh
  <2> QED
    BY <1>4, <1>7, <2>1, <2>2, <2>4 DEF Fresh, Id
<1>11. Numbered'
  <2>1. \A n \in Range(Line) : n.seq <= seq'[n.st]
    BY <1>3, <1>6
  <2> QED
    BY <1>4, <2>1 DEF Numbered
<1>12. Tally'
  <2>1. Cardinality(Authors') = Cardinality(Authors) + 1 /\ Cardinality(Authors) \in Nat
    BY <1>5, AuthorsFinite, FS_AddElement
  <2>2. Issued' = Issued + 1
    BY <1>1, IssuedLaw DEF Inv
  <2>3. Len(Line) \in Nat /\ dropped \in Nat
    BY LineTypes, LenProperties DEF Inv, TypeOK
  <2> QED
    BY <1>1, <1>4, <2>1, <2>2, <2>3 DEF LineInv, Tally
<1> QED
  BY <1>4, <1>5, <1>9, <1>10, <1>11, <1>12 DEF LineInv

(* A message leaves its author for the line: the others' stay new.          *)
LEMMA OthersFresh ==
  ASSUME Inv, LineInv, NEW t \in Authors, NEW m, NEW u \in Authors \ {t},
         m.st = hand[t][1].st, m.by = t, m.seq = hand[t][1].seq,
         hand' = [hand EXCEPT ![t] = <<>>], seq' = seq,
         Range(Line') \subseteq Range(Line) \cup {m}, Authors' = Authors \ {t}
  PROVE  Fresh(u)'
<1>1. u \in Tasks /\ t \in Tasks /\ u # t
  BY AuthorHand
<1>2. \A v \in Authors' : hand'[v] = hand[v]
  BY <1>1, AuthorHand DEF Inv, TypeOK
<1>3. hand'[u] = hand[u] /\ u \in Authors'
  BY <1>2
<1>4. Fresh(u) /\ Fresh(t)
  BY DEF LineInv
<1>5. Id(m) # Id(hand[u][1]) /\ m.by # u
  BY <1>1, <1>4 DEF Fresh, Id
<1>6. \A n \in Range(Line') : /\ Id(n) # Id(hand[u][1])
                              /\ n.by = u /\ n.st = hand[u][1].st => n.seq < hand[u][1].seq
  BY <1>4, <1>5 DEF Fresh
<1>7. \A v \in Authors' : v # u => Id(hand'[v][1]) # Id(hand[u][1])
  BY <1>2, <1>4 DEF Fresh
<1> QED
  BY <1>3, <1>4, <1>6, <1>7 DEF Fresh, Id

LEMMA AuthorGone ==
  ASSUME Inv, NEW t \in Authors, hand' = [hand EXCEPT ![t] = <<>>]
  PROVE  Authors' = Authors \ {t} /\ Cardinality(Authors') = Cardinality(Authors) - 1
<1>1. \A u \in Publishers : hand'[u] = IF u = t THEN <<>> ELSE hand[u]
  BY AuthorHand DEF Inv, TypeOK, Tasks
<1>2. Authors' = Authors \ {t}
  BY <1>1 DEF Authors
<1> QED
  BY <1>2, AuthorsFinite, FS_RemoveElement

(* An author's message goes into the client's queue, live, before what the  *)
(* drain and the cache still hold.                                          *)
LEMMA LineSent ==
  ASSUME Inv, LineInv, Inv', NEW t \in Publishers, Sent(t)
  PROVE  LineInv'
<1> USE DEF evidence, tallies, client
<1> DEFINE m == hand[t][1]
           q == outq \o <<m>>
<1>1. t \in Tasks /\ t \in Authors /\ m \in Messages /\ hand[t] = <<m>>
  <2>1. t \in Tasks /\ hand[t] # <<>>
    BY HandLaw DEF Sent, Inv, Tasks
  <2> QED
    BY <2>1, AuthorHand DEF Authors
<1>2. /\ hand' = [hand EXCEPT ![t] = <<>>] /\ outq' = q
      /\ UNCHANGED <<seq, dropped, broker, cache>>
  BY <1>1 DEF Sent
<1>3. Held' = Held
  BY <1>2, PublisherKeepsHeld
<1>4. Authors' = Authors \ {t} /\ Cardinality(Authors') = Cardinality(Authors) - 1
  BY <1>1, <1>2, AuthorGone
<1>5. Fresh(t) /\ Sorted(Line) /\ Numbered /\ Tally
  BY <1>1 DEF LineInv
<1>6. /\ broker \in Seq(Messages) /\ outq \in Seq(Messages) /\ Held \in Seq(Messages)
      /\ cache \in Seq(Messages) /\ Line \in Seq(Messages) /\ Range(Line) \subseteq Messages
  BY LineTypes
<1>7. /\ m.by = t /\ ~m.late /\ m.seq <= seq[m.st]
      /\ \A n \in Range(Line) : Id(n) # Id(m)
  BY <1>5 DEF Fresh
<1> HIDE DEF m
<1>8. /\ q \in Seq(Messages) /\ Len(q) = Len(outq) + 1 /\ Range(q) = Range(outq) \cup {m}
      /\ Sorted(q) <=> Sorted(outq) /\ Ahead(outq, <<m>>)
  BY <1>1, <1>6, AppendOne
<1> HIDE DEF q
<1>9. Line = Laid(broker, outq, Held, cache) /\ Line' = Laid(broker, q, Held, cache)
  BY <1>2, <1>3 DEF Line, Laid
<1>10. /\ Len(Line) = Len(broker) + Len(outq) + Len(Held) + Len(cache)
       /\ Len(Line') = Len(broker) + Len(q) + Len(Held) + Len(cache)
       /\ Range(Line) = Range(broker) \cup Range(outq) \cup Range(Held) \cup Range(cache)
       /\ Range(Line') = Range(broker) \cup Range(q) \cup Range(Held) \cup Range(cache)
  <2>1. Len(Line) = Len(broker) + Len(outq) + Len(Held) + Len(cache)
    <3>1. Len(Laid(broker, outq, Held, cache)) = Len(broker) + Len(outq) + Len(Held) + Len(cache)
      BY <1>6, LaidLen
    <3> QED
      BY <3>1, <1>9, Zenon
  <2>2. Range(Line) = Range(broker) \cup Range(outq) \cup Range(Held) \cup Range(cache)
    <3>1. Range(Laid(broker, outq, Held, cache))
            = Range(broker) \cup Range(outq) \cup Range(Held) \cup Range(cache)
      BY <1>6, LaidRange
    <3> QED
      BY <3>1, <1>9, Zenon
  <2>3. Len(Line') = Len(broker) + Len(q) + Len(Held) + Len(cache)
    <3>1. Len(Laid(broker, q, Held, cache)) = Len(broker) + Len(q) + Len(Held) + Len(cache)
      <4>1. broker \in Seq(Messages) /\ q \in Seq(Messages)
        BY <1>6, <1>8
      <4>2. Held \in Seq(Messages) /\ cache \in Seq(Messages)
        BY <1>6
      <4> QED
        BY <4>1, <4>2, LaidLen
    <3> QED
      BY <3>1, <1>9, Zenon
  <2>4. Range(Line') = Range(broker) \cup Range(q) \cup Range(Held) \cup Range(cache)
    <3>1. Range(Laid(broker, q, Held, cache))
            = Range(broker) \cup Range(q) \cup Range(Held) \cup Range(cache)
      BY <1>6, <1>8, LaidRange
    <3> QED
      BY <3>1, <1>9, Zenon
  <2> QED
    BY <2>1, <2>2, <2>3, <2>4
<1>11. Range(Line') = Range(Line) \cup {m}
  BY <1>8, <1>10
<1>12. \A n \in Range(Line) : Before(n, m) /\ Before(m, n)
  BY <1>7 DEF Before
<1>13. Sorted(Line')
  <2>1. /\ Sorted(broker) /\ Sorted(outq) /\ Sorted(Held) /\ Sorted(cache)
        /\ Ahead(broker, outq) /\ Ahead(broker, Held) /\ Ahead(broker, cache)
        /\ Ahead(outq, Held) /\ Ahead(outq, cache) /\ Ahead(Held, cache)
    BY <1>5, <1>6, <1>9, LineParts
  <2>2. Sorted(q)
    BY <1>1, <1>8, <1>10, <1>12, <2>1, OneSorted DEF Ahead
  <2>3. Ahead(broker, q) /\ Ahead(q, Held) /\ Ahead(q, cache)
    BY <1>8, <1>10, <1>12, <2>1 DEF Ahead
  <2> QED
    BY <1>6, <1>8, <1>9, <2>1, <2>2, <2>3, LineParts
<1>14. \A u \in Authors' : Fresh(u)'
  <2> SUFFICES ASSUME NEW u \in Authors \ {t} PROVE Fresh(u)'
    BY <1>4
  <2>1. m.st = hand[t][1].st /\ m.seq = hand[t][1].seq
    BY DEF m
  <2> QED
    BY <1>1, <1>2, <1>4, <1>7, <1>11, <2>1, OthersFresh
<1>15. Numbered'
  BY <1>2, <1>5, <1>7, <1>11 DEF Numbered
<1>16. Tally'
  <2>1. Issued' = Issued
    BY <1>2 DEF Issued
  <2>2. Len(Line') = Len(Line) + 1 /\ Len(Line) \in Nat /\ dropped \in Nat
    <3>1. /\ Len(broker) \in Nat /\ Len(outq) \in Nat /\ Len(Held) \in Nat
          /\ Len(cache) \in Nat /\ Len(Line) \in Nat
      BY <1>6, LenProperties
    <3> QED
      BY <1>8, <1>10, <3>1 DEF Inv, TypeOK
  <2> QED
    BY <1>2, <1>4, <1>5, <2>1, <2>2, AuthorsFinite DEF Tally
<1> QED
  BY <1>13, <1>14, <1>15, <1>16 DEF LineInv

(* An author's message goes into the cache: it is the newest of its         *)
(* author's, and what the cache drops is counted.                           *)
LEMMA LineCached ==
  ASSUME Inv, LineInv, Inv', NEW t \in Publishers, LookCache(t)
  PROVE  LineInv'
<1> USE DEF evidence, tallies, client
<1> DEFINE m == [hand[t][1] EXCEPT !.late = TRUE]
<1>1. t \in Tasks /\ t \in Authors /\ hand[t][1] \in Messages
  <2>1. t \in Tasks /\ hand[t] # <<>>
    BY HandLaw DEF LookCache, Inv, Tasks
  <2> QED
    BY <2>1, AuthorHand DEF Authors
<1>2. /\ m \in Messages /\ m.late
      /\ m.st = hand[t][1].st /\ m.by = hand[t][1].by /\ m.seq = hand[t][1].seq
  BY <1>1 DEF Messages
<1>3. PICK aged \in 0 .. Len(cache) :
        cache' = Push(m, aged).q /\ dropped' = dropped + Push(m, aged).gone
  BY DEF LookCache, ToCache
<1>4. /\ hand' = [hand EXCEPT ![t] = <<>>] /\ UNCHANGED <<seq, broker, outq>>
  BY DEF LookCache, ToCache
<1> HIDE DEF m
<1>5. PICK gone, kept \in Seq(Messages) :
        /\ cache = gone \o kept /\ cache' = kept \o <<m>>
        /\ dropped' = dropped + Len(gone)
  BY <1>2, <1>3, PushShape DEF Inv
<1>6. Held' = Held
  BY <1>4, PublisherKeepsHeld
<1>7. Authors' = Authors \ {t} /\ Cardinality(Authors') = Cardinality(Authors) - 1
  BY <1>1, <1>4, AuthorGone
<1>8. Fresh(t) /\ Sorted(Line) /\ Numbered /\ Tally
  BY <1>1 DEF LineInv
<1>9. /\ broker \in Seq(Messages) /\ outq \in Seq(Messages) /\ Held \in Seq(Messages)
      /\ cache \in Seq(Messages) /\ Line \in Seq(Messages) /\ Range(Line) \subseteq Messages
      /\ cache' \in Seq(Messages)
  BY <1>2, <1>5, LineTypes, OneSorted, ConcatProperties
<1>10. /\ m.by = t /\ m.seq <= seq[m.st]
       /\ \A n \in Range(Line) : /\ Id(n) # Id(m)
                                 /\ n.by = t /\ n.st = m.st => n.seq < m.seq
  BY <1>2, <1>8 DEF Fresh, Id
<1>11. /\ Len(cache) = Len(gone) + Len(kept) /\ Range(cache) = Range(gone) \cup Range(kept)
       /\ Sorted(cache) => Sorted(kept)
  BY <1>5, ConcatProperties, RangeConcatenation, ConcatSorted
<1>12. /\ Len(cache') = Len(kept) + 1 /\ Range(cache') = Range(kept) \cup {m}
       /\ Sorted(cache') <=> Sorted(kept) /\ Ahead(kept, <<m>>)
  BY <1>2, <1>5, AppendOne
<1>13. Line = Laid(broker, outq, Held, cache) /\ Line' = Laid(broker, outq, Held, cache')
  BY <1>4, <1>6 DEF Line, Laid
<1>14. /\ Len(Line) = Len(broker) + Len(outq) + Len(Held) + Len(cache)
       /\ Len(Line') = Len(broker) + Len(outq) + Len(Held) + Len(cache')
       /\ Range(Line) = Range(broker) \cup Range(outq) \cup Range(Held) \cup Range(cache)
       /\ Range(Line') = Range(broker) \cup Range(outq) \cup Range(Held) \cup Range(cache')
  <2>1. Len(Line) = Len(broker) + Len(outq) + Len(Held) + Len(cache)
    <3>1. Len(Laid(broker, outq, Held, cache)) = Len(broker) + Len(outq) + Len(Held) + Len(cache)
      BY <1>9, LaidLen
    <3> QED
      BY <3>1, <1>13, Zenon
  <2>2. Range(Line) = Range(broker) \cup Range(outq) \cup Range(Held) \cup Range(cache)
    <3>1. Range(Laid(broker, outq, Held, cache))
            = Range(broker) \cup Range(outq) \cup Range(Held) \cup Range(cache)
      BY <1>9, LaidRange
    <3> QED
      BY <3>1, <1>13, Zenon
  <2>3. Len(Line') = Len(broker) + Len(outq) + Len(Held) + Len(cache')
    <3>1. Len(Laid(broker, outq, Held, cache')) = Len(broker) + Len(outq) + Len(Held) + Len(cache')
      BY <1>9, LaidLen
    <3> QED
      BY <3>1, <1>13, Zenon
  <2>4. Range(Line') = Range(broker) \cup Range(outq) \cup Range(Held) \cup Range(cache')
    <3>1. Range(Laid(broker, outq, Held, cache'))
            = Range(broker) \cup Range(outq) \cup Range(Held) \cup Range(cache')
      BY <1>9, LaidRange
    <3> QED
      BY <3>1, <1>13, Zenon
  <2> QED
    BY <2>1, <2>2, <2>3, <2>4
<1>15. Range(Line') \subseteq Range(Line) \cup {m}
  BY <1>11, <1>12, <1>14
<1>16. \A n \in Range(Line) : Before(n, m)
  BY <1>10 DEF Before
<1>17. Sorted(Line')
  <2>1. /\ Sorted(broker) /\ Sorted(outq) /\ Sorted(Held) /\ Sorted(cache)
        /\ Ahead(broker, outq) /\ Ahead(broker, Held) /\ Ahead(broker, cache)
        /\ Ahead(outq, Held) /\ Ahead(outq, cache) /\ Ahead(Held, cache)
    BY <1>8, <1>9, <1>13, LineParts
  <2>2. Sorted(cache')
    BY <1>2, <1>11, <1>12, <1>14, <1>16, <2>1, OneSorted DEF Ahead
  <2>3. Ahead(broker, cache') /\ Ahead(outq, cache') /\ Ahead(Held, cache')
    BY <1>11, <1>12, <1>14, <1>16, <2>1 DEF Ahead
  <2> QED
    BY <1>9, <1>13, <2>1, <2>2, <2>3, LineParts
<1>18. \A u \in Authors' : Fresh(u)'
  <2> SUFFICES ASSUME NEW u \in Authors \ {t} PROVE Fresh(u)'
    BY <1>7
  <2> QED
    BY <1>1, <1>2, <1>4, <1>7, <1>10, <1>15, OthersFresh
<1>19. Numbered'
  BY <1>4, <1>8, <1>10, <1>15 DEF Numbered
<1>20. Tally'
  <2>1. Issued' = Issued
    BY <1>4 DEF Issued
  <2>2. Len(Line') = Len(Line) + 1 - Len(gone)
    <3>1. /\ Len(broker) \in Nat /\ Len(outq) \in Nat /\ Len(Held) \in Nat
          /\ Len(kept) \in Nat /\ Len(gone) \in Nat
      BY <1>5, <1>9, LenProperties
    <3> QED
      BY <1>11, <1>12, <1>14, <3>1
  <2>3. Len(Line) \in Nat /\ Len(gone) \in Nat /\ dropped \in Nat
    BY <1>5, <1>9, LenProperties DEF Inv, TypeOK
  <2>4. Cardinality(Authors') = Cardinality(Authors) - 1 /\ Cardinality(Authors) \in Nat
    BY <1>7, AuthorsFinite
  <2>5. Issued = Len(Line) + Cardinality(Authors) + dropped
    BY <1>8 DEF Tally
  <2>6. dropped' = dropped + Len(gone)
    BY <1>5
  <2>7. \A l, g, k, d \in Nat : l + k + d = (l + 1 - g) + (k - 1) + (d + g)
    OBVIOUS
  <2>8. Len(Line) + Cardinality(Authors) + dropped
          = (Len(Line) + 1 - Len(gone)) + (Cardinality(Authors) - 1) + (dropped + Len(gone))
    BY <2>3, <2>4, <2>7
  <2>9. Issued' = Len(Line') + Cardinality(Authors') + dropped'
    BY <2>1, <2>2, <2>4, <2>5, <2>6, <2>8, Zenon
  <2> QED
    BY <2>9 DEF Tally
<1> QED
  BY <1>17, <1>18, <1>19, <1>20 DEF LineInv

LEMMA LineInit == Init => LineInv
<1> SUFFICES ASSUME Init PROVE LineInv
  OBVIOUS
<1>1. Holding = {} /\ Authors = {}
  BY DEF Init, Holding, Authors, Tasks
<1>2. Line = <<>>
  BY <1>1, NoneSorted, Regroup DEF Init, Line, Held
<1>3. Sorted(Line) /\ Numbered /\ Len(Line) = 0
  BY <1>2, NoneSorted DEF Numbered
<1>4. Issued = 0
  <2>1. {n \in Stations \X (1 .. MaxSeq) : n[2] <= seq[n[1]]} = {}
    BY SizesAssumption DEF Init
  <2> QED
    BY <2>1, FS_EmptySet DEF Issued
<1>5. Tally
  BY <1>1, <1>3, <1>4, FS_EmptySet DEF Tally, Init
<1> QED
  BY <1>1, <1>3, <1>5 DEF LineInv

LEMMA LineStep == Inv /\ LineInv /\ [Next]_vars => LineInv'
<1> SUFFICES ASSUME Inv, LineInv, [Next]_vars PROVE LineInv'
  OBVIOUS
<1> USE DEF evidence, tallies, client
<1>1. Inv'
  BY StepInv
<1>2. CASE Connect \/ Disconnect \/ UNCHANGED vars
  BY <1>2, KeepAll DEF Connect, Disconnect, vars
<1>3. CASE Deliver
  BY <1>3, LineDeliver
<1>4. ASSUME NEW t \in Periodic, PeriodicTick(t) PROVE LineInv'
  BY <1>4, KeepAll DEF PeriodicTick
<1>5. ASSUME NEW t \in Publishers, NEW s \in Stations, Build(t, s) PROVE LineInv'
  BY <1>5, LineBuild
<1>6. ASSUME NEW t \in Publishers, NEW s \in Stations, Skip(t, s) PROVE LineInv'
  BY <1>6, KeepAll DEF Skip
<1>7. ASSUME NEW t \in Publishers, LookConnected(t) PROVE LineInv'
  BY <1>7, KeepAll DEF LookConnected
<1>8. ASSUME NEW t \in Publishers, LookCache(t) PROVE LineInv'
  BY <1>1, <1>8, LineCached
<1>9. ASSUME NEW t \in Publishers, HeldBack(t) \/ TakeEvidence(t) \/ Record(t)
      PROVE  LineInv'
  BY <1>9, KeepAll DEF HeldBack, TakeEvidence, Record
<1>10. ASSUME NEW t \in Publishers, Refused(t) PROVE LineInv'
  BY <1>10, KeepAll DEF Refused
<1>11. ASSUME NEW S \in SUBSET Stations, CosRecv(S) PROVE LineInv'
  BY <1>11, KeepAll DEF CosRecv
<1>12. CASE CosTick
  BY <1>12, KeepAll DEF CosTick
<1>13. CASE Spawn
  BY <1>13, KeepAll DEF Spawn
<1>14. CASE CosBatch
  BY <1>14, KeepAll DEF CosBatch
<1>15. ASSUME NEW S \in SUBSET Stations, CosEdges(S) PROVE LineInv'
  BY <1>15, KeepAll DEF CosEdges
<1>16. ASSUME NEW d \in Drains, DrainPop(d) PROVE LineInv'
  BY <1>1, <1>16, LinePop
<1>17. ASSUME NEW d \in Drains, DrainOver(d) PROVE LineInv'
  BY <1>17, KeepAll DEF DrainOver, FlagDown
<1>18. ASSUME NEW d \in Drains, DrainRefused(d) PROVE LineInv'
  BY <1>1, <1>18, LineRefused
<1>19. ASSUME NEW t \in Tasks, Sent(t) PROVE LineInv'
  BY <1>1, <1>19, LineSent, LineDrained DEF Tasks
<1> QED
  BY <1>2, <1>3, <1>4, <1>5, <1>6, <1>7, <1>8, <1>9, <1>10, <1>11, <1>12, <1>13,
     <1>14, <1>15, <1>16, <1>17, <1>18, <1>19
  DEF Next, PublisherStep, CosStep, DrainStep

LEMMA LineCorrect == Spec => [](Inv /\ LineInv)
<1>1. Init => Inv /\ LineInv
  BY InitInv, LineInit
<1>2. (Inv /\ LineInv) /\ [Next]_vars => (Inv /\ LineInv)'
  BY StepInv, LineStep
<1> QED
  BY <1>1, <1>2, PTL DEF Spec

(* What went through the cache reaches the broker in the order of its       *)
(* numbers, author by author, for every size of the cache and of the        *)
(* client's queue and whatever publishers, drops and failed drains come     *)
(* between (OfflineCache::push, push_front, spawn_cache_drain).             *)
THEOREM ReplayInOrderCorrect == Spec => []ReplayInOrder
<1>1. LineInv => ReplayInOrder
  BY DEF LineInv, Sorted, Before, ReplayInOrder
<1> QED
  BY <1>1, LineCorrect, PTL

Distinct(s) == \A i, j \in DOMAIN s : i # j => Id(s[i]) # Id(s[j])

Apart(s, t) == \A m \in Range(s), n \in Range(t) : Id(m) # Id(n)

LEMMA ConcatDistinct ==
  ASSUME NEW s \in Seq(Messages), NEW t \in Seq(Messages),
         Distinct(s), Distinct(t), Apart(s, t)
  PROVE  Distinct(s \o t)
<1> DEFINE st == s \o t
<1>1. /\ Len(s) \in Nat /\ Len(t) \in Nat
      /\ DOMAIN s = 1 .. Len(s) /\ DOMAIN t = 1 .. Len(t)
      /\ DOMAIN st = 1 .. (Len(s) + Len(t))
  BY ConcatProperties, LenProperties
<1>2. \A i \in 1 .. (Len(s) + Len(t)) : st[i] = IF i <= Len(s) THEN s[i] ELSE t[i - Len(s)]
  BY ConcatProperties
<1> HIDE DEF st
<1> SUFFICES ASSUME NEW i \in DOMAIN st, NEW j \in DOMAIN st, i # j
             PROVE  Id(st[i]) # Id(st[j])
  BY DEF Distinct, st
<1>3. \A k \in DOMAIN st :
        IF k <= Len(s) THEN k \in DOMAIN s /\ st[k] = s[k] /\ s[k] \in Range(s)
        ELSE /\ k - Len(s) \in DOMAIN t /\ st[k] = t[k - Len(s)]
             /\ t[k - Len(s)] \in Range(t)
  BY <1>1, <1>2 DEF Range
<1>4. CASE i <= Len(s) /\ j <= Len(s)
  BY <1>3, <1>4 DEF Distinct
<1>5. CASE ~(i <= Len(s)) /\ ~(j <= Len(s))
  <2>1. i - Len(s) # j - Len(s)
    BY <1>1
  <2> QED
    BY <1>3, <1>5, <2>1 DEF Distinct
<1>6. CASE (i <= Len(s)) # (j <= Len(s))
  BY <1>3, <1>6 DEF Apart
<1> QED
  BY <1>4, <1>5, <1>6

LEMMA SortedDistinct ==
  ASSUME NEW s \in Seq(Messages), Sorted(s)
  PROVE  Distinct(s)
<1>1. DOMAIN s \subseteq Int
  BY LenProperties
<1> QED
  BY <1>1 DEF Sorted, Before, Distinct

(* Who has a message in hand: the authors, and the drain.                   *)
LEMMA HandsLaw ==
  ASSUME Inv
  PROVE  /\ InHands = Authors \cup Holding
         /\ Cardinality(InHands) = Cardinality(Authors) + Len(Held)
         /\ Len(Held) \in Nat
         /\ \A d \in Holding : hand[d][1] \in Range(Held)
<1>1. InHands = Authors \cup Holding /\ Authors \cap Holding = {}
  BY TasksAssumption DEF InHands, Authors, Holding, Tasks
<1>2. CASE Holding = {}
  <2>1. Held = <<>>
    BY <1>2 DEF Held
  <2> QED
    BY <1>1, <1>2, <2>1, AuthorsFinite
<1>3. CASE Holding # {}
  <2>1. PICK d \in Drains : hand[d] # <<>>
    BY <1>3 DEF Holding
  <2>2. Held = hand[d] /\ Holding = {d}
    BY <2>1, HeldLaw DEF OneHolds
  <2>3. d \in Tasks /\ hand[d] = <<hand[d][1]>>
    BY <2>1, HandLaw, InHand DEF Tasks, Inv
  <2>4. Len(<<hand[d][1]>>) = 1 /\ hand[d][1] \in Range(<<hand[d][1]>>)
    BY DEF Range
  <2>5. Len(Held) = 1 /\ hand[d][1] \in Range(Held)
    BY <2>2, <2>3, <2>4, Zenon
  <2>6. InHands = Authors \cup {d} /\ d \notin Authors
    BY <1>1, <2>2
  <2>7. Cardinality(InHands) = Cardinality(Authors) + 1
    BY <2>6, AuthorsFinite, FS_AddElement
  <2> QED
    BY <1>1, <2>2, <2>5, <2>7
<1> QED
  BY <1>2, <1>3

(* Every message made is in exactly one place or counted as dropped: none   *)
(* is lost silently and none is sent twice, for every number of stations,   *)
(* tasks and messages (publish_or_cache, OfflineCache, spawn_cache_drain).  *)
THEOREM NothingLostCorrect == Spec => []NothingLost
<1>1. Inv /\ LineInv => NothingLost
  <2> SUFFICES ASSUME Inv, LineInv PROVE NothingLost
    OBVIOUS
  <2> DEFINE co == cache \o outq
  <2>1. /\ broker \in Seq(Messages) /\ outq \in Seq(Messages) /\ Held \in Seq(Messages)
        /\ cache \in Seq(Messages)
    BY LineTypes
  <2>2. /\ Sorted(Line) /\ Tally /\ \A t \in Authors : Fresh(t)
    BY DEF LineInv
  <2>3. Line = Laid(broker, outq, Held, cache)
    BY DEF Line, Laid
  <2>4. /\ co \in Seq(Messages) /\ Len(co) = Len(cache) + Len(outq)
        /\ Range(co) = Range(cache) \cup Range(outq)
    BY <2>1, ConcatProperties, RangeConcatenation
  <2>5. Everywhere = co \o broker
    BY DEF Everywhere
  <2> HIDE DEF co
  <2>6. /\ Everywhere \in Seq(Messages) /\ Len(Everywhere) = Len(co) + Len(broker)
        /\ Range(Everywhere) = Range(co) \cup Range(broker)
    BY <2>1, <2>4, <2>5, ConcatProperties, RangeConcatenation
  <2>7. Range(Line) = Range(broker) \cup Range(outq) \cup Range(Held) \cup Range(cache)
    <3>1. Range(Laid(broker, outq, Held, cache))
            = Range(broker) \cup Range(outq) \cup Range(Held) \cup Range(cache)
      BY <2>1, LaidRange
    <3> QED
      BY <2>3, <3>1, Zenon
  <2>8. Len(Line) = Len(broker) + Len(outq) + Len(Held) + Len(cache)
    <3>1. Len(Laid(broker, outq, Held, cache))
            = Len(broker) + Len(outq) + Len(Held) + Len(cache)
      BY <2>1, LaidLen
    <3> QED
      BY <2>3, <3>1, Zenon
  <2>9. /\ Sorted(broker) /\ Sorted(outq) /\ Sorted(Held) /\ Sorted(cache)
        /\ Ahead(broker, outq) /\ Ahead(broker, Held) /\ Ahead(broker, cache)
        /\ Ahead(outq, Held) /\ Ahead(outq, cache) /\ Ahead(Held, cache)
    BY <2>1, <2>2, <2>3, LineParts
  <2>10. Distinct(Everywhere)
    <3>1. Apart(cache, outq) /\ Apart(co, broker)
      BY <2>4, <2>9 DEF Ahead, Before, Apart
    <3>2. Distinct(co)
      BY <2>1, <2>9, <3>1, SortedDistinct, ConcatDistinct DEF co
    <3> QED
      BY <2>1, <2>4, <2>5, <2>9, <3>1, <3>2, SortedDistinct, ConcatDistinct
  <2>11. \A i \in DOMAIN Everywhere : Everywhere[i] \in Range(Everywhere)
    BY DEF Range
  <2>12. \A d \in Holding, n \in Range(Everywhere) : Id(n) # Id(hand[d][1])
    BY <2>4, <2>6, <2>9, HandsLaw DEF Ahead, Before
  <2>13. \A t \in Authors, n \in Range(Line) : Id(n) # Id(hand[t][1])
    BY <2>2 DEF Fresh
  <2>14. \A t \in InHands, n \in Range(Everywhere) : Id(n) # Id(hand[t][1])
    BY <2>4, <2>6, <2>7, <2>12, <2>13, HandsLaw
  <2>15. \A t, u \in InHands : t # u => Id(hand[t][1]) # Id(hand[u][1])
    <3> SUFFICES ASSUME NEW t \in InHands, NEW u \in InHands, t # u
                 PROVE  Id(hand[t][1]) # Id(hand[u][1])
      OBVIOUS
    <3>1. CASE t \in Authors /\ u \in Authors
      BY <2>2, <3>1 DEF Fresh
    <3>2. CASE t \in Authors /\ u \in Holding
      BY <2>7, <2>13, <3>2, HandsLaw
    <3>3. CASE t \in Holding /\ u \in Authors
      BY <2>7, <2>13, <3>3, HandsLaw
    <3>4. CASE t \in Holding /\ u \in Holding
      BY <3>4, HeldLaw DEF Holding, OneHolds
    <3> QED
      BY <3>1, <3>2, <3>3, <3>4, HandsLaw
  <2>16. Issued = Len(Everywhere) + Cardinality(InHands) + dropped
    <3>1. Issued = Len(Line) + Cardinality(Authors) + dropped
      BY <2>2 DEF Tally
    <3>2. Cardinality(InHands) = Cardinality(Authors) + Len(Held) /\ Len(Held) \in Nat
      BY HandsLaw
    <3>3. Cardinality(Authors) \in Nat /\ dropped \in Nat
      BY AuthorsFinite DEF Inv, TypeOK
    <3>4. Len(broker) \in Nat /\ Len(outq) \in Nat /\ Len(cache) \in Nat
      BY <2>1, LenProperties
    <3> QED
      BY <2>4, <2>6, <2>8, <3>1, <3>2, <3>3, <3>4
  <2> QED
    BY <2>10, <2>11, <2>14, <2>15, <2>16 DEF NothingLost, Distinct, Id
<1> QED
  BY <1>1, LineCorrect, PTL
=============================================================================
