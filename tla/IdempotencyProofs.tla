-------------------------- MODULE IdempotencyProofs --------------------------
(***************************************************************************)
(* For every table, any requests and attempts, and a replay window no       *)
(* longer than the time to live: the bound of the table, that its map and   *)
(* its order agree, that a request is carried out once, and that it is      *)
(* always answered with its first receipt.                                  *)
(***************************************************************************)
EXTENDS Idempotency, SequenceTheorems, FiniteSetTheorems, FunctionTheorems, TLAPS

-----------------------------------------------------------------------------
(* Positions and keys.                                                      *)

Rank(S, i) == Cardinality({j \in S : j <= i})

(* The positions of a set are numbered from 1 to their number.              *)
LEMMA NthLaw ==
  ASSUME NEW n \in Nat, NEW S \in SUBSET (1..n)
  PROVE  /\ IsFiniteSet(S) /\ Cardinality(S) \in Nat /\ Cardinality(S) <= n
         /\ \A k \in 1..Cardinality(S) : Nth(S, k) \in S /\ Rank(S, Nth(S, k)) = k
         /\ \A i \in S : \E k \in 1..Cardinality(S) : Nth(S, k) = i
<1> DEFINE c == Cardinality(S)
           f == [i \in S |-> Rank(S, i)]
<1>1. IsFiniteSet(1..n) /\ Cardinality(1..n) = n
  BY FS_Interval
<1>2. IsFiniteSet(S) /\ c \in Nat /\ c <= n
  BY <1>1, FS_Subset, FS_CardinalityType
<1>3. ASSUME NEW i \in S
      PROVE  /\ IsFiniteSet({j \in S : j <= i}) /\ Rank(S, i) \in 1..c
  <2> DEFINE L == {j \in S : j <= i}
  <2>1. IsFiniteSet(L) /\ Cardinality(L) <= c /\ Cardinality(L) \in Nat
    BY <1>2, FS_Subset, FS_CardinalityType
  <2>2. i \in L
    OBVIOUS
  <2>3. Cardinality(L) # 0
    BY <2>1, <2>2, FS_EmptySet
  <2> QED
    BY <1>2, <2>1, <2>3 DEF Rank
<1>4. ASSUME NEW i \in S, NEW j \in S, i < j PROVE Rank(S, i) # Rank(S, j)
  <2> DEFINE Li == {k \in S : k <= i}
             Lj == {k \in S : k <= j}
  <2>1. Li \subseteq Lj /\ j \in Lj /\ j \notin Li
    <3>1. i \in Int /\ j \in Int /\ S \subseteq Int
      OBVIOUS
    <3>2. \A k \in S : k <= i => k <= j
      BY <1>4, <3>1
    <3>3. ~(j <= i) /\ j <= j
      BY <1>4, <3>1
    <3> QED
      BY <3>2, <3>3
  <2>2. IsFiniteSet(Lj)
    BY <1>3
  <2>3. Cardinality(Lj) = Cardinality(Li) => Lj = Li
    BY <2>1, <2>2, FS_Subset
  <2> QED
    BY <2>1, <2>3 DEF Rank
<1>5. \A i, j \in S : Rank(S, i) = Rank(S, j) => i = j
  BY <1>4
<1> HIDE DEF c
<1>6. f \in [S -> 1..c] /\ \A i, j \in S : f[i] = f[j] => i = j
  BY <1>3, <1>5
<1>7. f \in Injection(S, 1..c)
  BY <1>6, Fun_IsInj
<1>8. IsFiniteSet(1..c) /\ Cardinality(1..c) = c
  BY <1>2, FS_Interval
<1>9. f \in Surjection(S, 1..c)
  BY <1>7, <1>8, FS_Injection DEF c
<1>10. \A k \in 1..c : \E i \in S : Rank(S, i) = k
  BY <1>9 DEF Surjection
<1>11. \A k \in 1..c : Nth(S, k) \in S /\ Rank(S, Nth(S, k)) = k
  BY <1>10 DEF Nth, Rank
<1>12. ASSUME NEW i \in S PROVE \E k \in 1..c : Nth(S, k) = i
  BY <1>3, <1>5, <1>11
<1> QED
  BY <1>2, <1>11, <1>12 DEF c

LEMMA Behind ==
  \A d, l \in Nat : d <= l =>
    /\ d + 1 \in Int /\ l \in Int /\ l - d \in Nat /\ l - (d + 1) + 1 = l - d
    /\ (d # l => ~(d + 1 > l)) /\ (IF d + 1 <= l THEN l - (d + 1) + 1 ELSE 0) = l - d
    /\ \A i \in Int : d + 1 + i - 1 = d + i
OBVIOUS

Keys(o) == {o[i].key : i \in DOMAIN o}

Once(o) == \A i, j \in DOMAIN o : o[i].key = o[j].key => i = j

(* When every key is in the order once, there are as many keys behind the   *)
(* d oldest as places.                                                      *)
LEMMA KeysCount ==
  ASSUME NEW o \in Seq(Entry), Once(o), NEW d \in 0..Len(o)
  PROVE  Cardinality(Keys(o) \ Oldest(o, d)) = Len(o) - d
<1> DEFINE P == (d + 1)..Len(o)
           K == Keys(o) \ Oldest(o, d)
           f == [i \in P |-> o[i].key]
<1>1. Len(o) \in Nat /\ DOMAIN o = 1..Len(o)
  BY LenProperties
<1>2. IsFiniteSet(P) /\ Cardinality(P) = Len(o) - d
  <2>1. d \in Nat /\ d <= Len(o)
    BY <1>1
  <2>2. CASE d = Len(o)
    <3>1. P = {}
      BY <1>1, <2>2
    <3> HIDE DEF P
    <3> QED
      BY <1>1, <2>2, <3>1, FS_EmptySet
  <2>3. CASE d # Len(o)
    <3>1. d + 1 \in Int /\ Len(o) \in Int /\ ~(d + 1 > Len(o))
      BY <1>1, <2>1, <2>3, Behind, Zenon
    <3>2. IsFiniteSet(P) /\ Cardinality(P) = Len(o) - (d + 1) + 1
      BY <3>1, FS_Interval
    <3> HIDE DEF P
    <3> QED
      BY <1>1, <2>1, <3>2
  <2> QED
    BY <2>2, <2>3
<1>3. P \subseteq DOMAIN o /\ \A i \in DOMAIN o : i \in P \/ i \in 1..d
  BY <1>1
<1>4. ASSUME NEW i \in P PROVE f[i] \in K
  <2>1. o[i].key \in Keys(o)
    BY <1>3 DEF Keys
  <2>2. ASSUME NEW j \in 1..d PROVE o[i].key # o[j].key
    BY <1>1 DEF Once
  <2> QED
    BY <2>1, <2>2 DEF Oldest
<1>5. \A i, j \in P : f[i] = f[j] => i = j
  BY <1>3 DEF Once
<1>6. \A k \in K : \E i \in P : f[i] = k
  BY <1>3 DEF Keys, Oldest
<1> HIDE DEF P, K
<1>7. f \in [P -> K]
  BY <1>4
<1> HIDE DEF f
<1>8. f \in Bijection(P, K)
  BY <1>5, <1>6, <1>7, Fun_IsBij
<1>9. ExistsBijection(P, K)
  BY <1>8 DEF ExistsBijection
<1> QED
  BY <1>2, <1>9, FS_Bijection DEF K

LEMMA KeysTotal ==
  ASSUME NEW o \in Seq(Entry), Once(o)
  PROVE  Cardinality(Keys(o)) = Len(o)
<1>1. Len(o) \in Nat /\ 0 \in 0..Len(o) /\ Oldest(o, 0) = {}
  BY LenProperties DEF Oldest
<1>2. Cardinality(Keys(o) \ Oldest(o, 0)) = Len(o) - 0
  BY <1>1, KeysCount
<1>3. Keys(o) \ {} = Keys(o) /\ Len(o) - 0 = Len(o)
  BY <1>1
<1> QED
  BY <1>1, <1>2, <1>3

(* evict_to_capacity leaves at most n entries.                              *)
LEMMA EvictLaw ==
  ASSUME NEW o \in Seq(Entry), Once(o), NEW m, Present(m) = Keys(o), NEW n \in Nat
  PROVE  Excess(m, o, n) \in 0..Len(o) /\ Len(o) - Excess(m, o, n) <= n
<1> DEFINE Enough(d) == /\ Cardinality(Present(m) \ Oldest(o, d)) <= n \/ d = Len(o)
                        /\ \A c \in 0..(d - 1) : Cardinality(Present(m) \ Oldest(o, c)) > n
           e == IF Len(o) <= n THEN 0 ELSE Len(o) - n
<1>1. Len(o) \in Nat
  BY LenProperties
<1>2. \A d \in 0..Len(o) : Cardinality(Present(m) \ Oldest(o, d)) = Len(o) - d
  BY KeysCount
<1>3. e \in 0..Len(o) /\ Enough(e)
  BY <1>1, <1>2
<1>4. Excess(m, o, n) = CHOOSE d \in 0..Len(o) : Enough(d)
  BY DEF Excess
<1> HIDE DEF e
<1>5. Excess(m, o, n) \in 0..Len(o) /\ Enough(Excess(m, o, n))
  <2> HIDE DEF Enough
  <2> QED
    BY <1>3, <1>4
<1> QED
  BY <1>1, <1>2, <1>5

-----------------------------------------------------------------------------
(* The types, and the table: map and order hold the same keys, each once.   *)

TableInv == Once(order) /\ Present(slot) = Keys(order)

\* Who carries a request, in every step but the first.
Carried == \A a \in Attempts : stage[a] # "unused" => of[a] \in Requests

Sound == IdemTypeOK /\ TableInv /\ Carried

(* sweep takes the same keys out of map and order.                          *)
LEMMA SweepLaw ==
  ASSUME IdemTypeOK, TableInv, NEW t \in 0..MaxTime
  PROVE  /\ SweptSlot(t) \in [Requests -> Attempts \cup {"absent", "inflight"}]
         /\ SweptOrder(t) \in Seq(Entry) /\ Len(SweptOrder(t)) <= Len(order)
         /\ Once(SweptOrder(t)) /\ Present(SweptSlot(t)) = Keys(SweptOrder(t))
         /\ \A n \in DOMAIN SweptOrder(t) : \E i \in DOMAIN order : SweptOrder(t)[n] = order[i]
<1> DEFINE K == Kept(t)
           c == Cardinality(K)
           o == SweptOrder(t)
<1>1. /\ order \in Seq(Entry) /\ Len(order) \in Nat /\ DOMAIN order = 1..Len(order)
      /\ \A i \in DOMAIN order : order[i] \in Entry /\ order[i].key \in Requests
  <2>1. order \in Seq(Entry)
    BY DEF IdemTypeOK
  <2>2. /\ Len(order) \in Nat /\ DOMAIN order = 1..Len(order)
        /\ \A i \in DOMAIN order : order[i] \in Entry
    BY <2>1, LenProperties, ElementOfSeq
  <2> QED
    BY <2>1, <2>2 DEF Entry
<1>2. SweptSlot(t) \in [Requests -> Attempts \cup {"absent", "inflight"}]
  BY DEF SweptSlot, IdemTypeOK
<1>3. K \subseteq 1..Len(order)
  BY <1>1 DEF Kept
<1>4. /\ c \in Nat /\ c <= Len(order)
      /\ \A k \in 1..c : Nth(K, k) \in K /\ Rank(K, Nth(K, k)) = k
      /\ \A i \in K : \E k \in 1..c : Nth(K, k) = i
  BY <1>1, <1>3, NthLaw
<1>5. o = [n \in 1..c |-> order[Nth(K, n)]]
  BY DEF SweptOrder
<1>6. \A i \in K : i \in DOMAIN order /\ SweptSlot(t)[order[i].key] # "absent"
  BY DEF Kept
<1>7. \A i \in DOMAIN order : SweptSlot(t)[order[i].key] # "absent" => i \in K
  BY DEF Kept
<1> HIDE DEF K, c, o
<1>8. /\ o \in Seq(Entry) /\ Len(o) = c /\ DOMAIN o = 1..c
      /\ \A n \in 1..c : o[n] = order[Nth(K, n)]
  <2>1. \A n \in 1..c : order[Nth(K, n)] \in Entry
    BY <1>1, <1>4, <1>6
  <2> QED
    BY <1>4, <1>5, <2>1
<1>9. Once(o)
  <2> SUFFICES ASSUME NEW i \in 1..c, NEW j \in 1..c, o[i].key = o[j].key
               PROVE i = j
    BY <1>8 DEF Once
  <2>1. Nth(K, i) = Nth(K, j)
    BY <1>4, <1>6, <1>8 DEF TableInv, Once
  <2> QED
    BY <1>4, <2>1
<1>10. Keys(o) = {order[i].key : i \in K}
  BY <1>4, <1>8 DEF Keys
<1>11. Present(SweptSlot(t)) = {order[i].key : i \in K}
  <2>1. ASSUME NEW r \in Requests, SweptSlot(t)[r] # "absent"
        PROVE  \E i \in K : order[i].key = r
    <3>1. slot[r] # "absent"
      BY <2>1 DEF SweptSlot
    <3>2. PICK i \in DOMAIN order : order[i].key = r
      BY <3>1 DEF TableInv, Present, Keys
    <3> QED
      BY <1>7, <2>1, <3>2
  <2>2. ASSUME NEW i \in K PROVE order[i].key \in Present(SweptSlot(t))
    BY <1>1, <1>6 DEF Present
  <2> QED
    BY <2>1, <2>2 DEF Present
<1>12. \A n \in DOMAIN o : \E i \in DOMAIN order : o[n] = order[i]
  BY <1>4, <1>6, <1>8
<1> QED
  BY <1>2, <1>4, <1>8, <1>9, <1>10, <1>11, <1>12 DEF o

\* p is order o with its d oldest entries gone and the new entry e behind them.
Moved(o, d, e, p) ==
  /\ o \in Seq(Entry) /\ Once(o) /\ d \in 0..Len(o)
  /\ e \in Entry /\ e.key \notin Keys(o)
  /\ p = Append(SubSeq(o, d + 1, Len(o)), e)

WellMoved(o, d, e, p) ==
  /\ p \in Seq(Entry) /\ Len(p) = Len(o) - d + 1 /\ Once(p)
  /\ Keys(p) = (Keys(o) \ Oldest(o, d)) \cup {e.key}
  /\ \A i \in DOMAIN p : p[i] = e \/ \E j \in DOMAIN o : p[i] = o[j]

(* A new entry behind what is left when the oldest have gone.               *)
LEMMA NewEntry ==
  ASSUME NEW o, NEW d, NEW e, NEW p, Moved(o, d, e, p)
  PROVE  WellMoved(o, d, e, p)
<1>a. /\ o \in Seq(Entry) /\ Once(o) /\ d \in 0..Len(o)
      /\ e \in Entry /\ e.key \notin Keys(o)
      /\ p = Append(SubSeq(o, d + 1, Len(o)), e)
  BY DEF Moved
<1> DEFINE q == SubSeq(o, d + 1, Len(o))
<1>1. /\ Len(o) \in Nat /\ DOMAIN o = 1..Len(o) /\ d \in Nat /\ d <= Len(o)
      /\ \A i \in 1..Len(o) : o[i] \in Entry
  BY <1>a, LenProperties, ElementOfSeq
<1>2. /\ q \in Seq(Entry) /\ Len(q) = Len(o) - d
      /\ \A i \in 1..(Len(o) - d) : q[i] = o[d + i]
  <2>1. /\ d + 1 \in Int /\ Len(o) \in Int
        /\ \A i \in (d + 1)..Len(o) : o[i] \in Entry
    BY <1>1
  <2>2. /\ q \in Seq(Entry)
        /\ Len(q) = IF d + 1 <= Len(o) THEN Len(o) - (d + 1) + 1 ELSE 0
        /\ \A i \in 1..(Len(o) - (d + 1) + 1) : q[i] = o[d + 1 + i - 1]
    BY <1>a, <2>1, SubSeqProperties
  <2> HIDE DEF q
  <2>3. Len(q) = Len(o) - d /\ Len(o) - (d + 1) + 1 = Len(o) - d
    BY <1>1, <2>2, Behind, Zenon
  <2>4. ASSUME NEW i \in 1..(Len(o) - d) PROVE q[i] = o[d + i]
    <3>1. q[i] = o[d + 1 + i - 1]
      BY <2>2, <2>3, Zenon
    <3>2. i \in Int
      OBVIOUS
    <3> QED
      BY <1>1, <3>1, <3>2, Behind, Zenon
  <2> QED
    BY <2>2, <2>3, <2>4, Zenon
<1>0. p = Append(q, e)
  BY <1>a
<1> HIDE DEF q
<1>3. /\ p \in Seq(Entry) /\ Len(p) = Len(o) - d + 1 /\ DOMAIN p = 1..(Len(o) - d + 1)
      /\ \A i \in 1..(Len(o) - d) : p[i] = q[i]
      /\ p[Len(o) - d + 1] = e
  BY <1>a, <1>0, <1>1, <1>2, AppendProperties, LenProperties
<1>4. \A i \in 1..(Len(o) - d) : d + i \in DOMAIN o /\ p[i] = o[d + i]
  BY <1>1, <1>2, <1>3
<1>5. \A i \in DOMAIN p : i \in 1..(Len(o) - d) \/ i = Len(o) - d + 1
  BY <1>1, <1>3
<1>6. \A i \in 1..(Len(o) - d) : p[i].key \in Keys(o) /\ p[i].key # e.key
  BY <1>a, <1>4 DEF Keys
<1>7. Once(p)
  <2> SUFFICES ASSUME NEW i \in DOMAIN p, NEW j \in DOMAIN p, p[i].key = p[j].key
               PROVE i = j
    BY DEF Once
  <2>1. CASE i \in 1..(Len(o) - d) /\ j \in 1..(Len(o) - d)
    <3>1. d + i = d + j
      BY <1>a, <1>4, <2>1 DEF Once
    <3> QED
      BY <1>1, <2>1, <3>1
  <2> QED
    BY <1>3, <1>5, <1>6, <2>1
<1>8. Keys(p) = (Keys(o) \ Oldest(o, d)) \cup {e.key}
  <2>1. ASSUME NEW i \in 1..(Len(o) - d) PROVE p[i].key \in Keys(o) \ Oldest(o, d)
    <3>1. ASSUME NEW j \in 1..d PROVE o[j].key # o[d + i].key
      <4>1. j \in DOMAIN o /\ j # d + i
        BY <1>1
      <4> QED
        BY <1>a, <1>4, <4>1 DEF Once
    <3> QED
      BY <1>4, <1>6, <3>1 DEF Oldest
  <2>2. ASSUME NEW i \in DOMAIN o, o[i].key \notin Oldest(o, d)
        PROVE  o[i].key \in Keys(p)
    <3>1. ~(i \in 1..d) /\ i \in 1..Len(o)
      BY <1>1, <2>2 DEF Oldest
    <3>2. i - d \in 1..(Len(o) - d) /\ d + (i - d) = i
      BY <1>1, <3>1
    <3>3. i - d \in DOMAIN p
      BY <1>1, <1>3, <3>2
    <3> QED
      BY <1>4, <3>2, <3>3 DEF Keys
  <2>3. e.key \in Keys(p)
    <3>1. Len(o) - d + 1 \in DOMAIN p
      BY <1>1, <1>3
    <3> QED
      BY <1>3, <3>1 DEF Keys
  <2>4. Keys(p) \subseteq (Keys(o) \ Oldest(o, d)) \cup {e.key}
    BY <1>3, <1>5, <2>1 DEF Keys
  <2>5. Keys(o) \ Oldest(o, d) \subseteq Keys(p)
    BY <2>2 DEF Keys
  <2> QED
    BY <2>3, <2>4, <2>5
<1>9. \A i \in DOMAIN p : p[i] = e \/ \E j \in DOMAIN o : p[i] = o[j]
  BY <1>3, <1>4, <1>5
<1> QED
  BY <1>3, <1>7, <1>8, <1>9 DEF WellMoved

\* What reserve does when it gives the request a place, and when it does not.
Placed(a, r, t) ==
  /\ Unknown(SweptSlot(t), r)
  /\ slot'[r] = "inflight"
  /\ \A k \in Requests \ {r} :
       \/ slot'[k] = slot[k]
       \/ slot'[k] = "absent" /\ (k \in Expired(t) \/ k \in evicted')
  /\ evicted \subseteq evicted'
  /\ \A i \in DOMAIN order' : \/ order'[i] = [key |-> r, ts |-> t]
                              \/ \E j \in DOMAIN order : order'[i] = order[j]
  /\ stage' = [stage EXCEPT ![a] = "reserved"] /\ UNCHANGED pending

Known(a, r, t) ==
  /\ ~Unknown(SweptSlot(t), r)
  /\ \A k \in Requests :
       \/ slot'[k] = slot[k]
       \/ slot'[k] = "absent" /\ k \in Expired(t)
  /\ \A i \in DOMAIN order' : \E j \in DOMAIN order : order'[i] = order[j]
  /\ stage' = [stage EXCEPT ![a] = "over"] /\ UNCHANGED evicted
  /\ pending' = IF pending = a THEN Nobody ELSE pending

TableTyped ==
  /\ slot \in [Requests -> Attempts \cup {"absent", "inflight"}]
  /\ order \in Seq(Entry) /\ Len(order) <= Cap
  /\ TableInv

LEMMA ReserveLaw ==
  ASSUME IdemTypeOK, TableInv, NEW a \in Attempts, NEW r \in Requests,
         NEW t \in 0..MaxTime, Reserve(a, r, t)
  PROVE  /\ TableTyped' /\ evicted' \subseteq Requests
         /\ Placed(a, r, t) \/ Known(a, r, t)
<1> DEFINE m == SweptSlot(t)
           o == SweptOrder(t)
           d == Excess(m, o, Room)
           e == [key |-> r, ts |-> t]
<1>1. /\ m \in [Requests -> Attempts \cup {"absent", "inflight"}]
      /\ o \in Seq(Entry) /\ Len(o) <= Len(order)
      /\ Once(o) /\ Present(m) = Keys(o)
      /\ \A n \in DOMAIN o : \E i \in DOMAIN order : o[n] = order[i]
  BY SweepLaw
<1>2. \A k \in Requests : m[k] = slot[k] \/ (m[k] = "absent" /\ k \in Expired(t))
  BY DEF SweptSlot
<1>3. Len(o) \in Nat /\ Len(order) \in Nat /\ Len(order) <= Cap /\ Cap \in Nat \ {0}
  <2>1. order \in Seq(Entry) /\ Len(order) <= Cap
    BY DEF IdemTypeOK
  <2> QED
    BY <1>1, <2>1, LenProperties, CapAssumption
<1>4. Room \in Nat /\ Room + 1 = Cap
  BY <1>3 DEF Room
<1> HIDE DEF m, o
<1>5. d \in 0..Len(o) /\ Len(o) - d <= Room
  BY <1>1, <1>4, EvictLaw
<1>6. e \in Entry /\ e.key = r
  BY DEF Entry
<1>7. CASE Unknown(m, r)
  <2>1. /\ slot' = [k \in Requests |->
                      IF k = r THEN "inflight"
                      ELSE IF k \in Oldest(o, d) THEN "absent" ELSE m[k]]
        /\ order' = Append(SubSeq(o, d + 1, Len(o)), e)
        /\ evicted' = evicted \cup Oldest(o, d)
        /\ stage' = [stage EXCEPT ![a] = "reserved"] /\ UNCHANGED pending
    BY <1>7 DEF Reserve, m, o
  <2> HIDE DEF d, e
  <2>2. r \notin Keys(o)
    BY <1>1, <1>7 DEF Unknown, Present
  <2>3. /\ order' \in Seq(Entry) /\ Len(order') = Len(o) - d + 1 /\ Once(order')
        /\ Keys(order') = (Keys(o) \ Oldest(o, d)) \cup {r}
        /\ \A i \in DOMAIN order' : order'[i] = e \/ \E j \in DOMAIN o : order'[i] = o[j]
    <3>1. e.key \notin Keys(o)
      BY <1>6, <2>2
    <3>2. Moved(o, d, e, order')
      BY <1>1, <1>5, <1>6, <2>1, <3>1, Zenon DEF Moved
    <3>3. WellMoved(o, d, e, order')
      BY <3>2, NewEntry, Zenon
    <3> QED
      BY <1>6, <3>3, Zenon DEF WellMoved
  <2>4. Len(order') <= Cap
    BY <1>3, <1>4, <1>5, <2>3
  <2>5. slot' \in [Requests -> Attempts \cup {"absent", "inflight"}]
    BY <1>1, <2>1
  <2>6. Present(slot') = Keys(order')
    <3>1. Present(slot') = (Present(m) \ Oldest(o, d)) \cup {r}
      BY <2>1, <2>5 DEF Present
    <3> QED
      BY <1>1, <2>3, <3>1
  <2>7. Keys(o) \subseteq Requests
    BY <1>1 DEF Present
  <2>8. Oldest(o, d) \subseteq Requests
    <3>1. \A i \in 1..d : i \in DOMAIN o
      BY <1>1, <1>3, <1>5, LenProperties
    <3> QED
      BY <2>7, <3>1 DEF Oldest, Keys
  <2>9. evicted' \subseteq Requests
    BY <2>1, <2>8 DEF IdemTypeOK
  <2>10. \A k \in Requests \ {r} :
           \/ slot'[k] = slot[k]
           \/ slot'[k] = "absent" /\ (k \in Expired(t) \/ k \in evicted')
    BY <1>2, <2>1
  <2>11. \A i \in DOMAIN order' : \/ order'[i] = e
                                  \/ \E j \in DOMAIN order : order'[i] = order[j]
    BY <1>1, <2>3
  <2>12. slot'[r] = "inflight"
    BY <2>1
  <2>13. Placed(a, r, t)
    BY <1>7, <2>1, <2>10, <2>11, <2>12 DEF Placed, m, e
  <2> QED
    BY <2>3, <2>4, <2>5, <2>6, <2>9, <2>13 DEF TableTyped, TableInv
<1>8. CASE ~Unknown(m, r)
  <2>1. /\ slot' = m /\ order' = o /\ stage' = [stage EXCEPT ![a] = "over"]
        /\ pending' = IF pending = a THEN Nobody ELSE pending
        /\ UNCHANGED evicted
    BY <1>8 DEF Reserve, m, o
  <2>2. Known(a, r, t)
    BY <1>1, <1>2, <1>8, <2>1 DEF Known, m
  <2>3. Len(order') <= Cap
    BY <1>1, <1>3, <2>1
  <2> QED
    BY <1>1, <2>1, <2>2, <2>3 DEF TableTyped, TableInv, IdemTypeOK
<1> QED
  BY <1>7, <1>8

(* complete replaces a value of the map, it adds none.                      *)
LEMMA CompleteLaw ==
  ASSUME IdemTypeOK, TableInv, NEW a \in Attempts, NEW r \in Requests,
         Complete(a, r), UNCHANGED order
  PROVE  TableTyped'
<1>1. a # "absent"
  BY NameAssumption
<1>2. slot' \in [Requests -> Attempts \cup {"absent", "inflight"}]
  BY DEF Complete, IdemTypeOK
<1>3. \A k \in Requests : slot'[k] # "absent" <=> slot[k] # "absent"
  BY <1>1 DEF Complete, IdemTypeOK
<1>4. Present(slot') = Present(slot)
  BY <1>3 DEF Present
<1> QED
  BY <1>2, <1>4 DEF TableTyped, TableInv, IdemTypeOK

LEMMA SoundInit == Init => Sound
<1> SUFFICES ASSUME Init PROVE Sound
  OBVIOUS
<1>1. IdemTypeOK
  <2>1. /\ MaxTime \in Nat /\ Skew \in Nat /\ Cap \in Nat \ {0}
    BY TimeAssumption, CapAssumption
  <2>2. <<>> \in Seq(Entry) /\ Len(<<>>) = 0
    OBVIOUS
  <2> QED
    BY <2>1, <2>2 DEF Init, IdemTypeOK, Stages, Unset
<1>2. TableInv
  BY DEF Init, TableInv, Once, Present, Keys
<1>3. Carried
  BY DEF Init, Carried
<1> QED
  BY <1>1, <1>2, <1>3 DEF Sound

(* Every step keeps the types and the agreement of map and order.           *)
LEMMA SoundStep == Sound /\ [Next]_vars => Sound'
<1> SUFFICES ASSUME Sound, [Next]_vars PROVE Sound'
  OBVIOUS
<1>1. IdemTypeOK /\ TableInv /\ Carried /\ TableTyped
  BY DEF Sound, TableTyped, IdemTypeOK
<1>2. MaxTime \in Nat /\ Skew \in Nat /\ Nobody \notin Requests
  BY TimeAssumption, NobodyAssumption
<1>3. UNCHANGED table => TableTyped'
  BY <1>1 DEF table, TableTyped, TableInv, Once, Present, Keys
<1>4. ASSUME NEW a \in Attempts, NEW r \in Requests, Start(a, r), TableTyped',
             issued' \in [Requests -> 0..Unset], UNCHANGED <<now, read, history>>
      PROVE  Sound'
  <2>1. IdemTypeOK'
    BY <1>1, <1>4 DEF Start, IdemTypeOK, TableTyped, Stages, history
  <2>2. Carried'
    BY <1>1, <1>4 DEF Start, IdemTypeOK, Carried
  <2> QED
    BY <1>4, <2>1, <2>2 DEF Sound, TableTyped
<1>5. ASSUME NEW a \in Attempts, NEW r \in Requests, BeginWrite(a, r) PROVE Sound'
  <2>1. now + Skew \in 0..Unset
    BY <1>1, <1>2 DEF IdemTypeOK, Unset
  <2>2. issued' \in [Requests -> 0..Unset]
    BY <1>1, <1>5, <2>1 DEF BeginWrite, ClientClock, IdemTypeOK
  <2> QED
    BY <1>3, <1>4, <1>5, <2>2 DEF BeginWrite
<1>6. ASSUME NEW a \in Attempts, Retry(a) PROVE Sound'
  <2>1. last \in Requests /\ issued' \in [Requests -> 0..Unset]
    BY <1>1, <1>6 DEF Retry, IdemTypeOK
  <2> QED
    BY <1>3, <1>4, <1>6, <2>1 DEF Retry
<1>7. ASSUME GiveUp PROVE Sound'
  BY <1>1, <1>3, <1>7
  DEF GiveUp, Sound, IdemTypeOK, TableTyped, Carried, history
<1>8. ASSUME NEW a \in Attempts, CheckEnvelope(a) PROVE Sound'
  <2>1. IdemTypeOK'
    BY <1>1, <1>3, <1>8 DEF CheckEnvelope, IdemTypeOK, TableTyped, Stages, history
  <2>2. Carried'
    BY <1>1, <1>8 DEF CheckEnvelope, IdemTypeOK, Carried
  <2> QED
    BY <1>3, <1>8, <2>1, <2>2 DEF CheckEnvelope, Sound, TableTyped
<1>9. ASSUME NEW a \in Attempts, TakePlace(a) PROVE Sound'
  <2>1. of[a] \in Requests /\ read[a] \in 0..MaxTime
    BY <1>1, <1>9 DEF TakePlace, Carried, IdemTypeOK
  <2>2. TableTyped' /\ evicted' \subseteq Requests
        /\ (Placed(a, of[a], read[a]) \/ Known(a, of[a], read[a]))
    BY <1>1, <1>9, <2>1, ReserveLaw DEF TakePlace
  <2>3. /\ stage' \in [Attempts -> Stages] /\ pending' \in Attempts \cup {Nobody}
        /\ \A b \in Attempts : stage'[b] # "unused" => stage[b] # "unused"
    BY <1>1, <1>9, <2>2 DEF Placed, Known, IdemTypeOK, Stages, TakePlace
  <2>4. read' \in [Attempts -> 0..MaxTime]
    BY <1>1, <1>2, <1>9 DEF TakePlace, IdemTypeOK
  <2> QED
    BY <1>1, <1>9, <2>2, <2>3, <2>4 DEF TakePlace, Sound, IdemTypeOK, TableTyped, Carried
<1>10. ASSUME NEW a \in Attempts, Execute(a) PROVE Sound'
  <2>1. IdemTypeOK'
    <3>1. of[a] \in Requests /\ ran \in [Requests -> SUBSET Attempts]
      BY <1>1, <1>10 DEF Execute, Carried, IdemTypeOK
    <3>2. ran' \in [Requests -> SUBSET Attempts]
      BY <1>10, <3>1 DEF Execute
    <3>3. stage' \in [Attempts -> Stages]
      BY <1>1, <1>10 DEF Execute, IdemTypeOK, Stages
    <3> QED
      BY <1>1, <1>3, <1>10, <3>2, <3>3 DEF Execute, IdemTypeOK, TableTyped, client
  <2>2. Carried'
    BY <1>1, <1>10 DEF Execute, IdemTypeOK, Carried
  <2> QED
    BY <1>3, <1>10, <2>1, <2>2 DEF Execute, Sound, TableTyped
<1>11. ASSUME NEW a \in Attempts, Finish(a) PROVE Sound'
  <2>1. of[a] \in Requests
    BY <1>1, <1>11 DEF Finish, Carried
  <2>2. TableTyped'
    BY <1>1, <1>11, <2>1, CompleteLaw DEF Finish
  <2>3. IdemTypeOK'
    BY <1>1, <1>11, <2>2 DEF Finish, IdemTypeOK, TableTyped, Stages, history
  <2>4. Carried'
    BY <1>1, <1>11 DEF Finish, IdemTypeOK, Carried
  <2> QED
    BY <2>2, <2>3, <2>4 DEF Sound, TableTyped
<1>12. ASSUME NEW a \in Attempts, Vanish(a) PROVE Sound'
  <2>1. IdemTypeOK'
    BY <1>1, <1>3, <1>12 DEF Vanish, IdemTypeOK, TableTyped, Stages, client, history
  <2>2. Carried'
    BY <1>1, <1>12 DEF Vanish, IdemTypeOK, Carried
  <2> QED
    BY <1>3, <1>12, <2>1, <2>2 DEF Vanish, Sound, TableTyped
<1>13. ASSUME Tick PROVE Sound'
  <2>1. now' \in 0..MaxTime
    BY <1>1, <1>2, <1>13 DEF Tick, IdemTypeOK
  <2>2. delayed' \subseteq Requests
    BY <1>1, <1>13 DEF Tick, IdemTypeOK, Carried
  <2> QED
    BY <1>1, <1>3, <1>13, <2>1, <2>2
    DEF Tick, Sound, IdemTypeOK, TableTyped, Carried, client
<1>14. ASSUME UNCHANGED vars PROVE Sound'
  BY <1>1, <1>3, <1>14
  DEF vars, client, table, history, Sound, IdemTypeOK, TableTyped, Carried
<1> QED
  BY <1>5, <1>6, <1>7, <1>8, <1>9, <1>10, <1>11, <1>12, <1>13, <1>14 DEF Next, Handle

LEMMA SoundAlways == Spec => []Sound
  BY SoundInit, SoundStep, PTL DEF Spec

(* The types of the write path.                                             *)
THEOREM IdemTypeCorrect == Spec => []IdemTypeOK
<1>1. Sound => IdemTypeOK
  BY DEF Sound
<1> QED
  BY <1>1, SoundAlways, PTL

(* The map never exceeds its capacity and agrees with the insertion order,  *)
(* key by key (idempotency.rs: reserve, sweep, evict_to_capacity, complete). *)
THEOREM TableBoundedCorrect == Spec => []TableBounded
<1>1. Sound => TableBounded
  <2> SUFFICES ASSUME Sound PROVE TableBounded
    OBVIOUS
  <2>1. order \in Seq(Entry) /\ Len(order) <= Cap /\ Once(order) /\ Present(slot) = Keys(order)
    BY DEF Sound, IdemTypeOK, TableInv
  <2>2. Cardinality(Keys(order)) = Len(order)
    BY <2>1, KeysTotal
  <2>3. Len(order) = Cardinality(Present(slot)) /\ Cardinality(Present(slot)) <= Cap
    BY <2>1, <2>2, Zenon
  <2> QED
    BY <2>1, <2>3 DEF TableBounded, Keys
<1> QED
  BY <1>1, SoundAlways, PTL

-----------------------------------------------------------------------------
(* What a request that was neither evicted nor slow can count on.           *)

\* Request r has its stamp.
Out(r) == issued[r] <= now + Skew

Age(r) == now + Skew - issued[r]

\* No clock runs ahead, and whoever is known to server or client was stamped.
Dated ==
  /\ \A a \in Attempts : read[a] <= now /\ (stage[a] # "unused" => Out(of[a]))
  /\ last # Nobody => Out(last)
  /\ \A r \in Requests : (slot[r] # "absent" => Out(r)) /\ (ran[r] # {} => Out(r))

\* A request on its way to the table is younger than the replay window.
Timely ==
  \A a \in Attempts : stage[a] \in {"sent", "checked"} /\ of[a] \notin delayed =>
    Age(of[a]) < Window /\ (stage[a] = "checked" => read[a] = now)

\* An entry is not stamped earlier than the request it is for.
Stamped ==
  \A i \in DOMAIN order : order[i].key \notin delayed =>
    issued[order[i].key] <= order[i].ts + Skew

\* The attempts that hold, held in a run, or gave a receipt for r.
Admitted(r) ==
  ran[r] \cup {a \in Attempts : of[a] = r /\ stage[a] \in {"reserved", "ran"}}
         \cup ({slot[r]} \cap Attempts)

SoleAt(r) ==
  /\ \A a, b \in Admitted(r) : a = b
  /\ Admitted(r) # {} /\ slot[r] = "absent" => Age(r) >= Window

\* One attempt at most is admitted, and forgotten only when no retry may follow.
Sole == \A r \in Requests \ (evicted \cup delayed) : SoleAt(r)

Remembered == Sound /\ Dated /\ Timely /\ Stamped /\ Sole

LEMMA Numbers ==
  ASSUME IdemTypeOK
  PROVE  /\ now \in Int /\ Skew \in Int /\ Window \in Int /\ Ttl \in Int /\ MaxTime \in Int
         /\ 0 < Window /\ Window <= Ttl /\ 0 <= Skew /\ now <= MaxTime
         /\ Unset \in Int /\ Unset > now + Skew
         /\ Nobody \notin Requests /\ Nobody \notin Attempts
         /\ \A r \in Requests : issued[r] \in Int /\ Age(r) \in Int
         /\ \A a \in Attempts : read[a] \in Int
         /\ \A i \in DOMAIN order : order[i].key \in Requests /\ order[i].ts \in Int
<1>1. {Ttl, Window, Skew, MaxTime} \subseteq Nat /\ 0 < Window /\ Window <= Ttl
  BY TimeAssumption, WindowAssumption
<1>2. now \in 0..MaxTime /\ Unset \in Int /\ Unset > now + Skew
  BY <1>1 DEF IdemTypeOK, Unset
<1>3. \A r \in Requests : issued[r] \in Int /\ Age(r) \in Int
  BY <1>1, <1>2 DEF IdemTypeOK, Age
<1>4. \A a \in Attempts : read[a] \in Int
  BY <1>1 DEF IdemTypeOK
<1>5. \A i \in DOMAIN order : order[i] \in Entry
  <2>1. order \in Seq(Entry)
    BY DEF IdemTypeOK
  <2> QED
    BY <2>1, ElementOfSeq, LenProperties
<1>6. \A i \in DOMAIN order : order[i].key \in Requests /\ order[i].ts \in Int
  BY <1>1, <1>5 DEF Entry
<1>7. Nobody \notin Requests /\ Nobody \notin Attempts
  BY NobodyAssumption
<1> QED
  BY <1>1, <1>2, <1>3, <1>4, <1>6, <1>7

(* An entry swept too early would have been of a request one may still resend. *)
LEMMA ExpiredLaw ==
  ASSUME IdemTypeOK, Stamped, NEW t \in 0..MaxTime, t <= now,
         NEW r \in Expired(t), r \notin delayed
  PROVE  Age(r) >= Window
<1>1. PICK i \in DOMAIN order : order[i].key = r /\ t - order[i].ts >= Ttl
  BY DEF Expired
<1>2. issued[r] <= order[i].ts + Skew
  BY <1>1 DEF Stamped
<1>3. /\ order[i].ts \in Int /\ issued[r] \in Int /\ t \in Int /\ now \in Int
      /\ Skew \in Int /\ Ttl \in Int /\ Window \in Int /\ Window <= Ttl
  <2>1. r \in Requests
    BY DEF Expired
  <2> QED
    BY <2>1, Numbers
<1>4. \A x, y \in Int : y <= x + Skew /\ t - x >= Ttl => now + Skew - y >= Window
  BY <1>3
<1> QED
  BY <1>1, <1>2, <1>3, <1>4, Zenon DEF Age

\* A new stamp goes to a request nobody has seen.
LEMMA Unseen ==
  ASSUME Sound, Dated, NEW r \in Requests, issued[r] = Unset
  PROVE  /\ \A a \in Attempts : stage[a] = "unused" \/ of[a] # r
         /\ slot[r] = "absent" /\ ran[r] = {} /\ last # r
         /\ \A i \in DOMAIN order : order[i].key # r
         /\ Admitted(r) = {}
<1>1. IdemTypeOK /\ TableInv
  BY DEF Sound
<1>2. ~Out(r)
  BY <1>1, Numbers DEF Out
<1>3. slot[r] = "absent" /\ ran[r] = {}
  BY <1>2 DEF Dated
<1>4. \A a \in Attempts : stage[a] = "unused" \/ of[a] # r
  BY <1>2 DEF Dated
<1>5. last # r
  BY <1>1, <1>2, Numbers DEF Dated
<1>6. \A i \in DOMAIN order : order[i].key # r
  BY <1>3 DEF Sound, TableInv, Present, Keys
<1>7. Admitted(r) = {}
  <2>1. {slot[r]} \cap Attempts = {}
    BY <1>3, NameAssumption
  <2>2. {a \in Attempts : of[a] = r /\ stage[a] \in {"reserved", "ran"}} = {}
    BY <1>4
  <2> QED
    BY <1>3, <2>1, <2>2 DEF Admitted
<1> QED
  BY <1>3, <1>4, <1>5, <1>6, <1>7

(* Once stamped, stamped for good.                                          *)
LEMMA OutStays ==
  ASSUME Sound, [Next]_vars, NEW r \in Requests, Out(r)
  PROVE  Out(r)'
<1>1. IdemTypeOK /\ issued[r] # Unset
  BY Numbers DEF Sound, Out
<1>2. CASE UNCHANGED <<now, issued>>
  BY <1>2 DEF Out
<1>3. ASSUME NEW a \in Attempts, NEW q \in Requests, BeginWrite(a, q) PROVE Out(r)'
  <2>1. r # q /\ now' = now /\ issued'[r] = issued[r]
    BY <1>1, <1>3 DEF BeginWrite, IdemTypeOK
  <2> QED
    BY <2>1 DEF Out
<1>4. ASSUME Tick PROVE Out(r)'
  <2>1. now' = now + 1 /\ issued' = issued
    BY <1>4 DEF Tick, client
  <2>2. issued[r] \in Int /\ now \in Int /\ Skew \in Int
    BY <1>1, Numbers
  <2>3. issued[r] <= now + 1 + Skew
    BY <2>2 DEF Out
  <2> QED
    BY <2>1, <2>3 DEF Out
<1>5. ASSUME NEW a \in Attempts, Retry(a) \/ Handle(a) PROVE UNCHANGED <<now, issued>>
  BY <1>5 DEF Retry, Handle, CheckEnvelope, TakePlace, Execute, Finish, Vanish, client
<1>6. GiveUp \/ UNCHANGED vars => UNCHANGED <<now, issued>>
  BY DEF GiveUp, vars, client
<1> QED
  BY <1>2, <1>3, <1>4, <1>5, <1>6 DEF Next

LEMMA PlaceLaw ==
  ASSUME Sound, NEW a \in Attempts, TakePlace(a)
  PROVE  /\ of[a] \in Requests /\ read[a] \in 0..MaxTime
         /\ Placed(a, of[a], read[a]) \/ Known(a, of[a], read[a])
<1>1. IdemTypeOK /\ TableInv /\ stage[a] = "checked" /\ Reserve(a, of[a], read[a])
  BY DEF Sound, TakePlace
<1>2. of[a] \in Requests /\ read[a] \in 0..MaxTime
  BY <1>1 DEF Sound, Carried, IdemTypeOK
<1> QED
  BY <1>1, <1>2, ReserveLaw

LEMMA DatedStep ==
  ASSUME Sound, Dated, [Next]_vars
  PROVE  Dated'
<1>1. IdemTypeOK /\ Carried /\ now \in Int /\ Skew \in Int
  BY Numbers DEF Sound
<1>2. \A r \in Requests : issued[r] <= now + Skew => issued'[r] <= now' + Skew
  <2> SUFFICES ASSUME NEW r \in Requests, Out(r) PROVE Out(r)'
    BY DEF Out
  <2> QED
    BY OutStays
\* A step that sends nothing.
<1>3. ASSUME /\ UNCHANGED of /\ last' = last /\ now' \in Int /\ now <= now'
             /\ \A a \in Attempts : read'[a] <= now'
             /\ \A a \in Attempts : stage'[a] # "unused" => stage[a] # "unused"
             /\ \A r \in Requests : slot'[r] # "absent" \/ ran'[r] # {} => Out(r)
      PROVE  Dated'
  <2>1. \A a \in Attempts : stage'[a] # "unused" => issued'[of'[a]] <= now' + Skew
    BY <1>1, <1>2, <1>3 DEF Dated, Carried, Out
  <2>2. last' # Nobody => issued'[last'] <= now' + Skew
    BY <1>1, <1>2, <1>3 DEF Dated, IdemTypeOK, Out
  <2> QED
    BY <1>2, <1>3, <2>1, <2>2 DEF Dated, Out
<1>4. ASSUME NEW a \in Attempts, NEW r \in Requests, Start(a, r), Out(r)',
             UNCHANGED <<now, read, slot, ran>>
      PROVE  Dated'
  <2>1. \A b \in Attempts :
          (of'[b] = of[b] /\ stage'[b] = stage[b]) \/ of'[b] = r
    BY <1>1, <1>4 DEF Start, IdemTypeOK
  <2>2. \A b \in Attempts : stage'[b] # "unused" => issued'[of'[b]] <= now' + Skew
    BY <1>1, <1>2, <1>4, <2>1 DEF Dated, Carried, Out
  <2>3. last' = r
    BY <1>4 DEF Start
  <2> QED
    BY <1>2, <1>4, <2>2, <2>3 DEF Dated, Out
<1>5. ASSUME NEW a \in Attempts, NEW r \in Requests, BeginWrite(a, r) PROVE Dated'
  <2>1. now' = now /\ issued'[r] = now + Skew
    BY <1>1, <1>5 DEF BeginWrite, ClientClock, IdemTypeOK
  <2>2. Out(r)'
    BY <1>1, <2>1 DEF Out
  <2> QED
    BY <1>4, <1>5, <2>2 DEF BeginWrite, table, history
<1>6. ASSUME NEW a \in Attempts, Retry(a) PROVE Dated'
  <2>1. PICK q \in Requests : q = last
    BY <1>1, <1>6 DEF Retry, IdemTypeOK
  <2>2. Start(a, q) /\ Out(q) /\ UNCHANGED <<now, issued>>
    <3>1. Start(a, last) /\ Out(last)
      BY <1>6 DEF Retry, Dated
    <3> QED
      BY <1>6, <2>1, <3>1 DEF Retry
  <2>3. Out(q)'
    BY <2>2 DEF Out
  <2> QED
    BY <1>4, <1>6, <2>2, <2>3 DEF Retry, table, history
<1>7. ASSUME GiveUp \/ UNCHANGED vars PROVE Dated'
  BY <1>1, <1>3, <1>7 DEF GiveUp, vars, client, table, history, Dated
<1>8. ASSUME NEW a \in Attempts, CheckEnvelope(a) PROVE Dated'
  BY <1>1, <1>3, <1>8 DEF CheckEnvelope, IdemTypeOK, table, history, Dated
<1>9. ASSUME NEW a \in Attempts, TakePlace(a) PROVE Dated'
  <2>1. of[a] \in Requests /\ (Placed(a, of[a], read[a]) \/ Known(a, of[a], read[a]))
    BY <1>9, PlaceLaw
  <2>2. stage[a] = "checked" /\ Out(of[a])
    BY <1>9 DEF TakePlace, Dated
  <2>3. \A r \in Requests : slot'[r] # "absent" => Out(r)
    BY <2>1, <2>2 DEF Placed, Known, Dated
  <2>4. \A b \in Attempts : stage'[b] # "unused" => stage[b] # "unused"
    BY <1>1, <2>1, <2>2 DEF Placed, Known, IdemTypeOK
  <2>5. \A b \in Attempts : read'[b] <= now
    <3>1. 0 <= now
      BY <1>1 DEF IdemTypeOK
    <3> QED
      BY <1>1, <1>9, <3>1 DEF TakePlace, IdemTypeOK, Dated
  <2> QED
    BY <1>1, <1>3, <1>9, <2>3, <2>4, <2>5 DEF TakePlace, Dated
<1>10. ASSUME NEW a \in Attempts, Execute(a) PROVE Dated'
  <2>1. \A r \in Requests : ran'[r] # {} => ran[r] # {} \/ r = of[a]
    BY <1>1, <1>10 DEF Execute, IdemTypeOK
  <2>2. \A r \in Requests : ran'[r] # {} => Out(r)
    BY <1>10, <2>1 DEF Execute, Dated
  <2> QED
    BY <1>1, <1>3, <1>10, <2>2 DEF Execute, IdemTypeOK, client, table, Dated
<1>11. ASSUME NEW a \in Attempts, Finish(a) PROVE Dated'
  <2>1. \A r \in Requests : slot'[r] # "absent" => slot[r] # "absent"
    BY <1>1, <1>11 DEF Finish, Complete, IdemTypeOK
  <2> QED
    BY <1>1, <1>3, <1>11, <2>1 DEF Finish, IdemTypeOK, history, Dated
<1>12. ASSUME NEW a \in Attempts, Vanish(a) PROVE Dated'
  BY <1>1, <1>3, <1>12 DEF Vanish, IdemTypeOK, client, table, history, Dated
<1>13. ASSUME Tick PROVE Dated'
  <2>1. now' = now + 1
    BY <1>13 DEF Tick
  <2>2. \A a \in Attempts : read'[a] <= now'
    BY <1>1, <1>13, <2>1, Numbers DEF Tick, Dated
  <2> QED
    BY <1>1, <1>3, <1>13, <2>1, <2>2 DEF Tick, client, table, Dated
<1> QED
  BY <1>5, <1>6, <1>7, <1>8, <1>9, <1>10, <1>11, <1>12, <1>13 DEF Next, Handle

LEMMA TimelyStep ==
  ASSUME Sound, Dated, Timely, [Next]_vars
  PROVE  Timely'
<1>1. IdemTypeOK /\ Carried
  BY DEF Sound
\* A step in which no clock moves and nobody is sent or checked.
<1>2. ASSUME UNCHANGED <<now, issued, of, delayed>>,
             \A a \in Attempts : stage'[a] \in {"sent", "checked"} =>
               stage'[a] = stage[a] /\ read'[a] = read[a]
      PROVE  Timely'
  BY <1>2 DEF Timely, Age
<1>3. ASSUME NEW a \in Attempts, NEW r \in Requests, BeginWrite(a, r) PROVE Timely'
  <2>1. /\ issued' = [issued EXCEPT ![r] = now + Skew] /\ issued[r] = Unset
        /\ stage' = [stage EXCEPT ![a] = "sent"] /\ of' = [of EXCEPT ![a] = r]
        /\ UNCHANGED <<now, read, delayed>>
    BY <1>3 DEF BeginWrite, Start, ClientClock, history
  <2>2. \A b \in Attempts : stage[b] = "unused" \/ of[b] # r
    BY <2>1, Unseen
  <2>3. now' + Skew - issued'[r] < Window
    BY <1>1, <2>1, Numbers DEF IdemTypeOK
  <2>4. ASSUME NEW b \in Attempts \ {a},
               stage'[b] \in {"sent", "checked"}, of'[b] \notin delayed'
        PROVE  /\ now' + Skew - issued'[of'[b]] < Window
               /\ stage'[b] = "checked" => read'[b] = now'
    <3>1. stage[b] = stage'[b] /\ of[b] = of'[b] /\ of[b] # r /\ of[b] \in Requests
      BY <1>1, <2>1, <2>2, <2>4 DEF IdemTypeOK, Carried
    <3>2. issued'[of[b]] = issued[of[b]]
      BY <1>1, <2>1, <3>1 DEF IdemTypeOK
    <3> QED
      BY <2>1, <2>4, <3>1, <3>2 DEF Timely, Age
  <2>5. of'[a] = r /\ stage'[a] = "sent"
    BY <1>1, <2>1 DEF IdemTypeOK
  <2> QED
    BY <2>3, <2>4, <2>5 DEF Timely, Age
<1>4. ASSUME NEW a \in Attempts, Retry(a) PROVE Timely'
  <2>1. /\ last \in Requests /\ ~Aged(last)
        /\ stage' = [stage EXCEPT ![a] = "sent"] /\ of' = [of EXCEPT ![a] = last]
        /\ UNCHANGED <<now, issued, read, delayed>>
    BY <1>1, <1>4 DEF Retry, Start, IdemTypeOK, history
  <2>2. Age(last) < Window
    BY <1>1, <2>1, Numbers DEF Age, Aged, ClientClock
  <2>3. \A b \in Attempts :
          \/ stage'[b] = stage[b] /\ of'[b] = of[b]
          \/ stage'[b] = "sent" /\ of'[b] = last
    BY <1>1, <2>1 DEF IdemTypeOK
  <2> QED
    BY <2>1, <2>2, <2>3 DEF Timely, Age
<1>5. ASSUME NEW a \in Attempts, CheckEnvelope(a) PROVE Timely'
  <2>1. /\ stage[a] = "sent" /\ UNCHANGED <<now, issued, of, delayed>>
        /\ \/ stage' = [stage EXCEPT ![a] = "checked"] /\ read' = [read EXCEPT ![a] = now]
           \/ stage' = [stage EXCEPT ![a] = "over"] /\ UNCHANGED read
    BY <1>5 DEF CheckEnvelope, history
  <2> QED
    BY <1>1, <2>1 DEF Timely, Age, IdemTypeOK
<1>6. ASSUME NEW a \in Attempts, TakePlace(a) PROVE Timely'
  <2>1. Placed(a, of[a], read[a]) \/ Known(a, of[a], read[a])
    BY <1>6, PlaceLaw
  <2>2. stage' = [stage EXCEPT ![a] = "reserved"] \/ stage' = [stage EXCEPT ![a] = "over"]
    BY <2>1 DEF Placed, Known
  <2> QED
    BY <1>1, <1>2, <1>6, <2>2 DEF TakePlace, IdemTypeOK
<1>7. ASSUME NEW a \in Attempts, Execute(a) \/ Finish(a) \/ Vanish(a) PROVE Timely'
  BY <1>1, <1>2, <1>7 DEF Execute, Finish, Vanish, IdemTypeOK, client, history
<1>8. ASSUME Tick PROVE Timely'
  <2>1. \A a \in Attempts : stage[a] \in {"sent", "checked"} => of[a] \in delayed'
    BY <1>8 DEF Tick
  <2> QED
    BY <1>8, <2>1 DEF Tick, Timely
<1>9. ASSUME GiveUp \/ UNCHANGED vars PROVE Timely'
  BY <1>2, <1>9 DEF GiveUp, vars, client, history
<1> QED
  BY <1>3, <1>4, <1>5, <1>6, <1>7, <1>8, <1>9 DEF Next, Handle

LEMMA StampedStep ==
  ASSUME Sound, Dated, Timely, Stamped, [Next]_vars
  PROVE  Stamped'
<1>1. IdemTypeOK
  BY DEF Sound
<1>2. ASSUME UNCHANGED <<order, issued>>, delayed \subseteq delayed' PROVE Stamped'
  BY <1>2 DEF Stamped
<1>3. ASSUME NEW a \in Attempts, NEW r \in Requests, BeginWrite(a, r) PROVE Stamped'
  <2>1. /\ issued' = [issued EXCEPT ![r] = ClientClock] /\ issued[r] = Unset
        /\ order' = order /\ delayed' = delayed
    BY <1>3 DEF BeginWrite, table, history
  <2>2. \A i \in DOMAIN order : order[i].key # r /\ order[i].key \in Requests
    BY <1>1, <2>1, Unseen, Numbers
  <2>3. \A i \in DOMAIN order : issued'[order[i].key] = issued[order[i].key]
    BY <1>1, <2>1, <2>2 DEF IdemTypeOK
  <2> QED
    BY <2>1, <2>3 DEF Stamped
<1>4. ASSUME NEW a \in Attempts, TakePlace(a) PROVE Stamped'
  <2>1. /\ of[a] \in Requests
        /\ Placed(a, of[a], read[a]) \/ Known(a, of[a], read[a])
    BY <1>4, PlaceLaw
  <2>2. /\ stage[a] = "checked" /\ UNCHANGED <<issued, delayed>>
    BY <1>4 DEF TakePlace
  <2>3. of[a] \notin delayed => issued[of[a]] <= read[a] + Skew
    BY <2>2 DEF Timely, Dated, Out
  <2>4. \A i \in DOMAIN order' :
          \/ order'[i] = [key |-> of[a], ts |-> read[a]]
          \/ \E j \in DOMAIN order : order'[i] = order[j]
    BY <2>1 DEF Placed, Known
  <2>5. ASSUME NEW i \in DOMAIN order', order'[i].key \notin delayed'
        PROVE  issued'[order'[i].key] <= order'[i].ts + Skew
    <3>1. CASE order'[i] = [key |-> of[a], ts |-> read[a]]
      <4>1. order'[i].key = of[a] /\ order'[i].ts = read[a]
        BY <3>1
      <4> QED
        BY <2>2, <2>3, <2>5, <4>1
    <3>2. ASSUME NEW j \in DOMAIN order, order'[i] = order[j]
          PROVE  issued'[order'[i].key] <= order'[i].ts + Skew
      BY <2>2, <2>5, <3>2 DEF Stamped
    <3> QED
      BY <2>4, <3>1, <3>2
  <2> QED
    BY <2>5 DEF Stamped
<1>5. ASSUME NEW a \in Attempts, CheckEnvelope(a) \/ Execute(a) \/ Finish(a) \/ Vanish(a)
      PROVE  Stamped'
  BY <1>2, <1>5 DEF CheckEnvelope, Execute, Finish, Vanish, client, table, history
<1>6. ASSUME NEW a \in Attempts, Retry(a) PROVE Stamped'
  BY <1>2, <1>6 DEF Retry, table, history
<1>7. ASSUME GiveUp \/ Tick \/ UNCHANGED vars PROVE Stamped'
  BY <1>2, <1>7 DEF GiveUp, Tick, vars, client, table, history
<1> QED
  BY <1>3, <1>4, <1>5, <1>6, <1>7 DEF Next, Handle

(* Nobody new is admitted, and what is forgotten is old: r stays with one.  *)
LEMMA SoleKept ==
  ASSUME NEW r, SoleAt(r), Admitted(r)' \subseteq Admitted(r),
         Admitted(r)' # {} /\ slot'[r] = "absent" =>
           /\ slot[r] = "absent" \/ Age(r) >= Window
           /\ Age(r) >= Window => Age(r)' >= Window
  PROVE  SoleAt(r)'
BY DEF SoleAt

LEMMA SoleStep ==
  ASSUME Sound, Dated, Timely, Stamped, Sole, [Next]_vars
  PROVE  Sole'
<1>1. IdemTypeOK
  BY DEF Sound
<1>2. \A a \in Attempts : a # "absent" /\ a # "inflight"
  BY NameAssumption
\* A step that admits nobody, forgets nobody and moves no clock.
<1>3. ASSUME UNCHANGED <<now, issued>>, evicted \subseteq evicted', delayed \subseteq delayed',
             \A r \in Requests \ (evicted \cup delayed) :
               Admitted(r)' \subseteq Admitted(r) /\ (slot'[r] = "absent" => slot[r] = "absent")
      PROVE  Sole'
  <2> SUFFICES ASSUME NEW r \in Requests \ (evicted \cup delayed) PROVE SoleAt(r)'
    BY <1>3 DEF Sole
  <2>1. SoleAt(r) /\ Age(r)' = Age(r)
    BY <1>3 DEF Sole, Age
  <2> QED
    BY <1>3, <2>1, SoleKept
<1>4. ASSUME NEW a \in Attempts, NEW q \in Requests, Start(a, q),
             UNCHANGED <<slot, ran>>, NEW r \in Requests
      PROVE  Admitted(r)' = Admitted(r)
  <2>1. \A b \in Attempts :
          /\ b # a => of'[b] = of[b] /\ stage'[b] = stage[b]
          /\ stage[a] = "unused" /\ stage'[a] = "sent"
    BY <1>1, <1>4 DEF Start, IdemTypeOK
  <2>2. \A b \in Attempts : of'[b] = r /\ stage'[b] \in {"reserved", "ran"}
                            <=> of[b] = r /\ stage[b] \in {"reserved", "ran"}
    BY <2>1
  <2> QED
    BY <1>4, <2>2 DEF Admitted
<1>5. ASSUME NEW a \in Attempts, NEW q \in Requests, BeginWrite(a, q) PROVE Sole'
  <2>1. /\ Start(a, q) /\ issued' = [issued EXCEPT ![q] = ClientClock] /\ issued[q] = Unset
        /\ UNCHANGED <<now, slot, ran, evicted, delayed>>
    BY <1>5 DEF BeginWrite, table, history
  <2> SUFFICES ASSUME NEW r \in Requests \ (evicted \cup delayed) PROVE SoleAt(r)'
    BY <2>1 DEF Sole
  <2>2. SoleAt(r) /\ Admitted(r)' = Admitted(r)
    BY <1>4, <2>1 DEF Sole
  <2>3. CASE r = q
    <3>1. Admitted(r) = {}
      BY <2>1, <2>3, Unseen
    <3> QED
      BY <2>2, <3>1 DEF SoleAt
  <2>4. CASE r # q
    <3>1. issued'[r] = issued[r]
      BY <1>1, <2>1, <2>4 DEF IdemTypeOK
    <3>2. Age(r)' = Age(r)
      BY <2>1, <3>1 DEF Age
    <3> QED
      BY <2>1, <2>2, <3>2, SoleKept
  <2> QED
    BY <2>3, <2>4
<1>6. ASSUME NEW a \in Attempts, Retry(a) PROVE Sole'
  <2>1. last \in Requests
    BY <1>1, <1>6 DEF Retry, IdemTypeOK
  <2>2. Start(a, last) /\ UNCHANGED <<now, issued, slot, ran, evicted, delayed>>
    BY <1>6 DEF Retry, table, history
  <2>3. \A r \in Requests : Admitted(r)' = Admitted(r)
    BY <1>4, <2>1, <2>2
  <2> QED
    BY <1>3, <2>2, <2>3
<1>7. ASSUME GiveUp \/ UNCHANGED vars PROVE Sole'
  BY <1>3, <1>7 DEF GiveUp, vars, client, table, history, Admitted
<1>8. ASSUME NEW a \in Attempts, CheckEnvelope(a) \/ Vanish(a) PROVE Sole'
  <2>1. /\ UNCHANGED <<now, issued, of, slot, ran, evicted, delayed>>
        /\ stage[a] \in {"sent", "reserved", "ran"}
        /\ stage' = [stage EXCEPT ![a] = "checked"] \/ stage' = [stage EXCEPT ![a] = "over"]
    BY <1>8 DEF CheckEnvelope, Vanish, client, table, history
  <2>2. \A b \in Attempts : stage'[b] \in {"reserved", "ran"} => stage[b] \in {"reserved", "ran"}
    BY <1>1, <2>1 DEF IdemTypeOK
  <2>3. \A r \in Requests : Admitted(r)' \subseteq Admitted(r)
    BY <2>1, <2>2 DEF Admitted
  <2> QED
    BY <1>3, <2>1, <2>3
<1>9. ASSUME NEW a \in Attempts, TakePlace(a) PROVE Sole'
  <2> DEFINE q == of[a]
             t == read[a]
  <2>1. /\ q \in Requests /\ t \in 0..MaxTime /\ t <= now /\ stage[a] = "checked"
        /\ Placed(a, q, t) \/ Known(a, q, t)
        /\ UNCHANGED <<now, issued, of, ran, delayed>>
    BY <1>9, PlaceLaw DEF TakePlace, Dated
  <2>2. evicted \subseteq evicted'
    BY <2>1 DEF Placed, Known
  <2>3. \A r \in Expired(t) : r \notin delayed => Age(r) >= Window
    BY <1>1, <2>1, ExpiredLaw
  <2>4. \A b \in Attempts : b # a => stage'[b] = stage[b]
    BY <1>1, <2>1 DEF Placed, Known, IdemTypeOK
  <2> SUFFICES ASSUME NEW r \in Requests \ (evicted' \cup delayed') PROVE SoleAt(r)'
    BY DEF Sole
  <2>5. r \notin evicted /\ r \notin delayed /\ SoleAt(r)
    BY <2>1, <2>2 DEF Sole
  <2>6. CASE ~(r = q /\ Placed(a, q, t))
    <3>1. \/ slot'[r] = slot[r]
          \/ slot'[r] = "absent" /\ Age(r) >= Window
      BY <2>1, <2>3, <2>5, <2>6 DEF Placed, Known
    <3>2. \A b \in Attempts : of[b] = r /\ stage'[b] \in {"reserved", "ran"}
                              => stage[b] \in {"reserved", "ran"}
      <4>1. r = q => stage'[a] = "over"
        BY <1>1, <2>1, <2>6 DEF Known, IdemTypeOK
      <4> QED
        BY <2>4, <4>1
    <3>3. Admitted(r)' \subseteq Admitted(r)
      BY <1>2, <2>1, <3>1, <3>2 DEF Admitted
    <3>4. Age(r)' = Age(r)
      BY <2>1 DEF Age
    <3> QED
      BY <2>5, <3>1, <3>3, <3>4, SoleKept
  <2>7. CASE r = q /\ Placed(a, q, t)
    <3>1. Age(r) < Window
      BY <2>1, <2>5, <2>7 DEF Timely
    <3>2. ~(Age(r) >= Window)
      BY <1>1, <3>1, Numbers
    <3>3. SweptSlot(t)[r] = "absent" /\ slot'[r] = "inflight"
      BY <2>7 DEF Placed, Unknown
    <3>4. slot[r] = "absent"
      BY <2>3, <2>5, <3>2, <3>3 DEF SweptSlot
    <3>5. Admitted(r) = {}
      BY <2>5, <3>2, <3>4 DEF SoleAt
    <3>6. Admitted(r)' \subseteq {a}
      BY <1>2, <2>1, <2>4, <3>3, <3>5 DEF Admitted
    <3> QED
      BY <3>3, <3>6 DEF SoleAt
  <2> QED
    BY <2>6, <2>7
<1>10. ASSUME NEW a \in Attempts, Execute(a) PROVE Sole'
  <2>1. /\ UNCHANGED <<now, issued, of, slot, evicted, delayed>>
        /\ stage[a] = "reserved" /\ stage' = [stage EXCEPT ![a] = "ran"]
        /\ ran' = [ran EXCEPT ![of[a]] = @ \cup {a}] \/ ran' = ran
    BY <1>10 DEF Execute, client, table
  <2>2. \A b \in Attempts : stage'[b] \in {"reserved", "ran"} => stage[b] \in {"reserved", "ran"}
    BY <1>1, <2>1 DEF IdemTypeOK
  <2>3. \A r \in Requests : ran'[r] \subseteq ran[r] \/ (r = of[a] /\ ran'[r] = ran[r] \cup {a})
    BY <1>1, <2>1 DEF IdemTypeOK
  <2>4. \A r \in Requests : Admitted(r)' \subseteq Admitted(r)
    BY <2>1, <2>2, <2>3 DEF Admitted
  <2> QED
    BY <1>3, <2>1, <2>4
<1>11. ASSUME NEW a \in Attempts, Finish(a) PROVE Sole'
  <2>1. /\ UNCHANGED <<now, issued, of, ran, evicted, delayed>>
        /\ stage[a] = "ran" /\ stage' = [stage EXCEPT ![a] = "over"]
        /\ slot' = IF slot[of[a]] = "absent" THEN slot ELSE [slot EXCEPT ![of[a]] = a]
    BY <1>11 DEF Finish, Complete, history
  <2>2. \A b \in Attempts : stage'[b] \in {"reserved", "ran"} => stage[b] \in {"reserved", "ran"}
    BY <1>1, <2>1 DEF IdemTypeOK
  <2>3. \A r \in Requests : slot'[r] = slot[r] \/ (r = of[a] /\ slot'[r] = a /\ slot[r] # "absent")
    BY <1>1, <2>1 DEF IdemTypeOK
  <2>4. \A r \in Requests : Admitted(r)' \subseteq Admitted(r)
    BY <2>1, <2>2, <2>3 DEF Admitted
  <2>5. \A r \in Requests : slot'[r] = "absent" => slot[r] = "absent"
    BY <1>2, <2>3
  <2> QED
    BY <1>3, <2>1, <2>4, <2>5
<1>12. ASSUME Tick PROVE Sole'
  <2>1. now' = now + 1 /\ delayed \subseteq delayed'
        /\ UNCHANGED <<issued, of, stage, slot, ran, evicted>>
    BY <1>12 DEF Tick, client, table
  <2> SUFFICES ASSUME NEW r \in Requests \ (evicted \cup delayed) PROVE SoleAt(r)'
    BY <2>1 DEF Sole
  <2>2. SoleAt(r) /\ Admitted(r)' = Admitted(r)
    BY <2>1 DEF Sole, Admitted
  <2>3. Age(r) >= Window => Age(r)' >= Window
    BY <1>1, <2>1, Numbers DEF Age
  <2> QED
    BY <2>1, <2>2, <2>3, SoleKept
<1> QED
  BY <1>5, <1>6, <1>7, <1>8, <1>9, <1>10, <1>11, <1>12 DEF Next, Handle

LEMMA RememberedInit == Init => Remembered
<1> SUFFICES ASSUME Init PROVE Remembered
  OBVIOUS
<1>1. Sound
  BY SoundInit
<1>2. Dated
  <2>1. Sound => 0 <= now
    BY DEF Sound, IdemTypeOK
  <2> QED
    BY <1>1, <2>1 DEF Init, Dated
<1>3. Timely /\ Stamped
  BY DEF Init, Timely, Stamped
<1>4. \A r \in Requests : Admitted(r) = {}
  BY NameAssumption DEF Init, Admitted
<1>5. Sole
  BY <1>4 DEF Sole, SoleAt
<1> QED
  BY <1>1, <1>2, <1>3, <1>5 DEF Remembered

LEMMA RememberedAlways == Spec => []Remembered
<1>1. Remembered /\ [Next]_vars => Remembered'
  BY SoundStep, DatedStep, TimelyStep, StampedStep, SoleStep DEF Remembered
<1> QED
  BY <1>1, RememberedInit, PTL DEF Spec

(* A request that was neither evicted nor slow on its way is carried out at  *)
(* most once (idempotency.rs: reserve and sweep; console.rs: retry).        *)
THEOREM ExecutedOnceCorrect == Spec => []ExecutedOnce
<1>1. Remembered => ExecutedOnce
  <2> SUFFICES ASSUME Remembered, NEW r \in Requests \ (evicted \cup delayed)
               PROVE  Cardinality(ran[r]) <= 1
    BY DEF ExecutedOnce
  <2>1. \A a, b \in ran[r] : a = b
    BY DEF Remembered, Sole, SoleAt, Admitted
  <2>2. CASE ran[r] = {}
    BY <2>2, FS_EmptySet
  <2>3. ASSUME NEW a \in ran[r] PROVE Cardinality(ran[r]) <= 1
    <3>1. ran[r] = {a}
      BY <2>1, <2>3
    <3>2. Cardinality(ran[r]) = 1
      BY <3>1, FS_Singleton, Zenon
    <3> QED
      BY <3>2
  <2> QED
    BY <2>2, <2>3
<1> QED
  BY <1>1, RememberedAlways, PTL

(* The receipt such a request was first answered with is the only one it is *)
(* ever answered with (idempotency.rs: reserve and complete).               *)
THEOREM FirstReceiptKeptCorrect == Spec => FirstReceiptKept
<1> DEFINE Kept1 == \A r \in Requests \ (evicted \cup delayed) :
                      slot[r] \in Attempts => slot'[r] \in {slot[r], "absent"}
<1>1. Remembered /\ [Next]_vars => [Kept1]_vars
  <2> SUFFICES ASSUME Remembered, Next, NEW r \in Requests \ (evicted \cup delayed),
                      slot[r] \in Attempts
               PROVE  slot'[r] \in {slot[r], "absent"}
    OBVIOUS
  <2>1. IdemTypeOK /\ SoleAt(r) /\ slot[r] \notin {"absent", "inflight"}
    BY NameAssumption DEF Remembered, Sound, Sole
  <2>2. ASSUME NEW a \in Attempts, TakePlace(a) PROVE slot'[r] \in {slot[r], "absent"}
    <3>1. /\ read[a] \in 0..MaxTime /\ read[a] <= now /\ stage[a] = "checked"
          /\ Placed(a, of[a], read[a]) \/ Known(a, of[a], read[a])
      BY <2>2, PlaceLaw DEF TakePlace, Remembered, Dated
    <3>2. CASE r = of[a] /\ Placed(a, of[a], read[a])
      <4>1. Age(r) < Window
        BY <3>1, <3>2 DEF Remembered, Timely
      <4>2. ~(Age(r) >= Window)
        BY <2>1, <4>1, Numbers
      <4>3. r \notin Expired(read[a])
        BY <2>1, <3>1, <4>2, ExpiredLaw DEF Remembered
      <4>4. SweptSlot(read[a])[r] = "absent"
        BY <3>2 DEF Placed, Unknown
      <4> QED
        BY <2>1, <4>3, <4>4 DEF SweptSlot
    <3> QED
      BY <3>1, <3>2 DEF Placed, Known
  <2>3. ASSUME NEW a \in Attempts, Finish(a) PROVE slot'[r] \in {slot[r], "absent"}
    <3>1. /\ stage[a] = "ran"
          /\ slot' = IF slot[of[a]] = "absent" THEN slot ELSE [slot EXCEPT ![of[a]] = a]
      BY <2>3 DEF Finish, Complete
    <3>2. CASE r = of[a]
      <4>1. a \in Admitted(r) /\ slot[r] \in Admitted(r)
        BY <3>1, <3>2 DEF Admitted
      <4>2. slot[r] = a
        BY <2>1, <4>1 DEF SoleAt
      <4> QED
        BY <2>1, <3>1, <3>2, <4>2 DEF IdemTypeOK
    <3> QED
      BY <2>1, <3>1, <3>2 DEF IdemTypeOK
  <2>4. ASSUME NEW a \in Attempts,
               Retry(a) \/ CheckEnvelope(a) \/ Execute(a) \/ Vanish(a)
        PROVE  UNCHANGED slot
    BY <2>4 DEF Retry, CheckEnvelope, Execute, Vanish, table
  <2>5. ASSUME NEW a \in Attempts, NEW q \in Requests, BeginWrite(a, q) PROVE UNCHANGED slot
    BY <2>5 DEF BeginWrite, table
  <2>6. GiveUp \/ Tick => UNCHANGED slot
    BY DEF GiveUp, Tick, table
  <2> QED
    BY <2>2, <2>3, <2>4, <2>5, <2>6 DEF Next, Handle
<1> QED
  BY <1>1, RememberedAlways, PTL DEF Spec, FirstReceiptKept
=============================================================================
