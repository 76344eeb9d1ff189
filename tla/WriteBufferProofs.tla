------------------------- MODULE WriteBufferProofs -------------------------
(* Theorems about the write buffer, for any writers, capacity and limit.    *)
EXTENDS WriteBuffer, SequenceTheorems, TLAPS

-----------------------------------------------------------------------------
(* Sequences.                                                               *)

(* Putting two sequences together loses and adds nothing (requeue_front).   *)
LEMMA RangeConcat ==
  ASSUME NEW S, NEW s \in Seq(S), NEW t \in Seq(S)
  PROVE  Range(s \o t) = Range(s) \cup Range(t)
<1>1. s \o t \in Seq(S) /\ Len(s \o t) = Len(s) + Len(t)
  BY ConcatProperties
<1>2. \A i \in 1..Len(s) : (s \o t)[i] = s[i]
  BY ConcatProperties, LenProperties
<1>3. \A i \in 1..Len(t) : (s \o t)[Len(s) + i] = t[i]
  BY ConcatProperties, LenProperties
<1>4. Range(s \o t) \subseteq Range(s) \cup Range(t)
  <2> SUFFICES ASSUME NEW i \in 1..(Len(s) + Len(t))
               PROVE  (s \o t)[i] \in Range(s) \cup Range(t)
    BY <1>1, LenProperties DEF Range
  <2>1. CASE i <= Len(s)
    BY <2>1, <1>2, LenProperties DEF Range
  <2>2. CASE i > Len(s)
    <3>1. i - Len(s) \in 1..Len(t) /\ i = Len(s) + (i - Len(s))
      BY <2>2, LenProperties
    <3> QED BY <3>1, <1>3, LenProperties DEF Range
  <2> QED BY <2>1, <2>2, LenProperties
<1>5. Range(s) \subseteq Range(s \o t)
  <2> SUFFICES ASSUME NEW i \in 1..Len(s) PROVE s[i] \in Range(s \o t)
    BY LenProperties DEF Range
  <2>1. i \in 1..Len(s \o t) BY <1>1, LenProperties
  <2> QED BY <2>1, <1>1, <1>2, LenProperties DEF Range
<1>6. Range(t) \subseteq Range(s \o t)
  <2> SUFFICES ASSUME NEW i \in 1..Len(t) PROVE t[i] \in Range(s \o t)
    BY LenProperties DEF Range
  <2>1. Len(s) + i \in 1..Len(s \o t) BY <1>1, LenProperties
  <2> QED BY <2>1, <1>1, <1>3, LenProperties DEF Range
<1> QED BY <1>4, <1>5, <1>6

LEMMA RangeAppend ==
  ASSUME NEW S, NEW s \in Seq(S), NEW e \in S
  PROVE  /\ Append(s, e) \in Seq(S) /\ Len(Append(s, e)) = Len(s) + 1
         /\ Range(Append(s, e)) = Range(s) \cup {e}
<1>1. Append(s, e) = s \o <<e>> /\ <<e>> \in Seq(S)
  BY AppendIsConcat
<1>2. Range(<<e>>) = {e}
  BY DEF Range
<1>3. Range(s \o <<e>>) = Range(s) \cup Range(<<e>>)
  BY <1>1, RangeConcat
<1>4. Range(Append(s, e)) = Range(s) \cup {e}
  BY <1>1, <1>2, <1>3, Zenon
<1> QED BY <1>4, AppendProperties

(* What trimming keeps fits, and what it drops and keeps is what there was, *)
(* what it drops coming first (trim_oldest).                                *)
LEMMA Trim ==
  ASSUME NEW S, NEW s \in Seq(S)
  PROVE  LET kept == SubSeq(s, Excess(s) + 1, Len(s))
             gone == SubSeq(s, 1, Excess(s))
         IN  /\ kept \in Seq(S) /\ gone \in Seq(S)
             /\ Len(kept) <= MaxPoints
             /\ s = gone \o kept
             /\ Range(s) = Range(gone) \cup Range(kept)
<1> DEFINE x == Excess(s)
           kept == SubSeq(s, x + 1, Len(s))
           gone == SubSeq(s, 1, x)
<1>1. Len(s) \in Nat /\ MaxPoints \in Nat /\ x \in 0..Len(s) /\ Len(s) - x <= MaxPoints
  BY LenProperties, BoundsAssumption DEF Excess
<1> HIDE DEF x
<1>2. \A i \in 1..Len(s) : s[i] \in S
  BY LenProperties, ElementOfSeq
<1>3. kept \in Seq(S) /\ Len(kept) = Len(s) - x
  BY <1>1, <1>2, SubSeqProperties
<1>4. gone \in Seq(S)
  BY <1>1, <1>2, SubSeqProperties
<1>5. s = gone \o kept
  <2>1. gone \o kept = SubSeq(s, 1, Len(s))
    <3>1. 1 \in 1..(Len(s) + 1) /\ x \in (1 - 1)..Len(s) /\ Len(s) \in x..Len(s)
      BY <1>1
    <3> QED BY <3>1, ConcatAdjacentSubSeq
  <2> QED BY <2>1, SubSeqFull
<1>6. Range(s) = Range(gone) \cup Range(kept)
  <2>1. Range(gone \o kept) = Range(gone) \cup Range(kept)
    BY <1>3, <1>4, RangeConcat
  <2> QED BY <2>1, <1>5, Zenon
<1> QED BY <1>1, <1>3, <1>4, <1>5, <1>6 DEF x

-----------------------------------------------------------------------------
(* What the steps on the buffer do.                                         *)

(* trim_oldest: the points of `s` are now in the buffer or dropped. *)
LEMMA TrimEffect ==
  ASSUME NEW n \in Nat, NEW s \in Seq(1..n), dropped \subseteq 1..n, TrimOldest(s)
  PROVE  /\ buffer' \in Seq(1..n) /\ Len(buffer') <= MaxPoints
         /\ dropped' \subseteq 1..n
         /\ Range(buffer') \subseteq Range(s)
         /\ Range(buffer') \cup dropped' = Range(s) \cup dropped
<1> DEFINE kept == SubSeq(s, Excess(s) + 1, Len(s))
           gone == SubSeq(s, 1, Excess(s))
<1>1. /\ kept \in Seq(1..n) /\ gone \in Seq(1..n)
      /\ Len(kept) <= MaxPoints
      /\ Range(s) = Range(gone) \cup Range(kept)
  BY Trim
<1>2. buffer' = kept /\ dropped' = dropped \cup Range(gone)
  BY DEF TrimOldest
<1>3. Range(gone) \subseteq 1..n
  BY <1>1, LenProperties, ElementOfSeq DEF Range
<1> HIDE DEF kept, gone
<1> QED BY <1>1, <1>2, <1>3

(* requeue_front: nothing of the batch and the buffer gets lost. *)
LEMMA RequeueEffect ==
  ASSUME TypeOK, NEW f \in Flushers, RequeueFront(f)
  PROVE  /\ buffer' \in Seq(1..pushed) /\ Len(buffer') <= MaxPoints
         /\ dropped' \subseteq 1..pushed
         /\ Range(buffer') \subseteq Range(batch[f]) \cup Range(buffer)
         /\ Range(buffer') \cup dropped' = Range(batch[f]) \cup Range(buffer) \cup dropped
<1>1. /\ pushed \in Nat /\ dropped \subseteq 1..pushed
      /\ batch[f] \in Seq(1..pushed) /\ buffer \in Seq(1..pushed)
  BY DEF TypeOK
<1>2. /\ batch[f] \o buffer \in Seq(1..pushed)
      /\ Range(batch[f] \o buffer) = Range(batch[f]) \cup Range(buffer)
  BY <1>1, RangeConcat, ConcatProperties
<1>3. TrimOldest(batch[f] \o buffer)
  BY DEF RequeueFront
<1> QED BY <1>1, <1>2, <1>3, TrimEffect

(* buffer_telemetry: the new point is added, whatever is trimmed for it. *)
LEMMA PushEffect ==
  ASSUME TypeOK, NEW w \in Writers, Push(w)
  PROVE  /\ pushed' = pushed + 1 /\ pushed' \in Nat
         /\ buffer' \in Seq(1..pushed') /\ dropped' \subseteq 1..pushed'
         /\ Range(buffer') \subseteq Range(buffer) \cup {pushed'}
         /\ Range(buffer') \cup dropped' = Range(buffer) \cup dropped \cup {pushed'}
<1>1. /\ pushed \in Nat /\ pushed' = pushed + 1 /\ dropped \subseteq 1..pushed
      /\ buffer \in Seq(1..pushed)
  BY DEF TypeOK, Push
<1>2. pushed' \in Nat /\ pushed' \in 1..pushed' /\ 1..pushed \subseteq 1..pushed'
  BY <1>1
<1>3. buffer \in Seq(1..pushed') /\ dropped \subseteq 1..pushed'
  BY <1>1, <1>2, SeqMonotonic
<1>4. /\ Append(buffer, pushed') \in Seq(1..pushed')
      /\ Range(Append(buffer, pushed')) = Range(buffer) \cup {pushed'}
  BY <1>2, <1>3, RangeAppend
<1>5. CASE since + 1 >= Capacity
  <2>1. buffer' = Append(buffer, pushed') /\ dropped' = dropped
    BY <1>5 DEF Push
  <2>2. Range(buffer') = Range(buffer) \cup {pushed'}
    BY <2>1, <1>4
  <2> QED BY <2>1, <2>2, <1>1, <1>2, <1>3, <1>4
<1>6. CASE ~(since + 1 >= Capacity)
  <2>1. TrimOldest(Append(buffer, pushed'))
    BY <1>6 DEF Push
  <2>2. /\ buffer' \in Seq(1..pushed') /\ dropped' \subseteq 1..pushed'
        /\ Range(buffer') \subseteq Range(Append(buffer, pushed'))
        /\ Range(buffer') \cup dropped' = Range(Append(buffer, pushed')) \cup dropped
    BY <2>1, <1>2, <1>3, <1>4, TrimEffect
  <2> QED BY <2>2, <1>1, <1>2, <1>4
<1> QED BY <1>5, <1>6

-----------------------------------------------------------------------------
(* Types.                                                                   *)

LEMMA TypeInit == Init => TypeOK
<1> SUFFICES ASSUME Init PROVE TypeOK
  OBVIOUS
<1>1. <<>> \in Seq(1..0) /\ Range(<<>>) = {}
  BY DEF Range
<1>2. 0 \in 0..(Capacity - 1)
  BY CapacityAssumption
<1> QED BY <1>1, <1>2 DEF Init, TypeOK, Levels

LEMMA TypeStep == TypeOK /\ [Next]_vars => TypeOK'
<1> SUFFICES ASSUME TypeOK, [Next]_vars PROVE TypeOK'
  OBVIOUS
<1> USE DEF Goto
<1>1. CASE SetDiskUsage
  BY <1>1 DEF SetDiskUsage, TypeOK, queue, exit, history, Tasks
<1>2. ASSUME NEW w \in Writers, CheckGate(w) PROVE TypeOK'
  BY <1>2 DEF CheckGate, TypeOK, gate, queue, exit, history, Tasks
<1>3. ASSUME NEW w \in Writers, Push(w) PROVE TypeOK'
  <2>1. /\ pushed' = pushed + 1 /\ pushed' \in Nat
        /\ buffer' \in Seq(1..pushed') /\ dropped' \subseteq 1..pushed'
    BY <1>3, PushEffect
  <2>2. pushed \in Nat /\ pushed' \in 1..pushed' /\ 1..pushed \subseteq 1..pushed'
    BY <2>1 DEF TypeOK
  <2>3. batch' \in [Flushers -> Seq(1..pushed')]
    <3>1. Seq(1..pushed) \subseteq Seq(1..pushed')
      BY <2>2, SeqMonotonic
    <3> QED BY <1>3, <3>1 DEF Push, TypeOK
  <2>4. /\ stored' \subseteq 1..pushed' /\ hooked' \subseteq 1..pushed' /\ twice' \subseteq stored'
    BY <1>3, <2>2 DEF Push, TypeOK
  <2>5. since' \in 0..(Capacity - 1) /\ wakes' \in Nat
    BY <1>3, CapacityAssumption DEF Push, SinceTrigger, TypeOK
  <2>6. at' \in [Writers \cup Flushers ->
                  {"idle", "push", "wake", "gate", "drain", "commit", "over"}]
    BY <1>3 DEF Push, TypeOK
  <2> QED BY <1>3, <2>1, <2>3, <2>4, <2>5, <2>6 DEF Push, TypeOK, gate, exit
<1>4. ASSUME NEW w \in Writers, RequestFlush(w) PROVE TypeOK'
  BY <1>4 DEF RequestFlush, TypeOK, gate, queue, exit, history, Tasks
<1>5. CASE TimerTick
  BY <1>5 DEF TimerTick, TypeOK, gate, queue, exit, history, Tasks
<1>6. ASSUME NEW f \in Flushers, FlushGate(f) PROVE TypeOK'
  BY <1>6 DEF FlushGate, Return, TypeOK, gate, queue, exit, history, Tasks
<1>7. ASSUME NEW f \in Flushers, Drain(f) PROVE TypeOK'
  <2>1. <<>> \in Seq(1..pushed) /\ 0 \in 0..(Capacity - 1)
    BY CapacityAssumption
  <2>2. buffer' \in Seq(1..pushed) /\ batch' \in [Flushers -> Seq(1..pushed)]
    BY <1>7, <2>1 DEF Drain, TypeOK
  <2>3. since' \in 0..(Capacity - 1) /\ flushed' \in BOOLEAN
    BY <1>7, <2>1 DEF Drain, TypeOK
  <2>4. at' \in [Writers \cup Flushers ->
                  {"idle", "push", "wake", "gate", "drain", "commit", "over"}]
    BY <1>7 DEF Drain, Return, TypeOK
  <2> QED BY <1>7, <2>2, <2>3, <2>4 DEF Drain, TypeOK, gate, history, Tasks
<1>8. ASSUME NEW f \in Flushers, CommitOk(f) PROVE TypeOK'
  <2>1. /\ <<>> \in Seq(1..pushed) /\ Range(batch[f]) \subseteq 1..pushed
    BY LenProperties, ElementOfSeq DEF TypeOK, Range
  <2>2. stored' \subseteq 1..pushed /\ twice' \subseteq stored'
    BY <1>8, <2>1 DEF CommitOk, Insert, TypeOK
  <2> QED BY <1>8, <2>1, <2>2 DEF CommitOk, Disarm, Return, TypeOK, gate, queue, history, Tasks
<1>9. ASSUME NEW f \in Flushers, CommitFails(f) PROVE TypeOK'
  <2>1. buffer' \in Seq(1..pushed) /\ dropped' \subseteq 1..pushed
    BY <1>9, RequeueEffect DEF CommitFails
  <2>2. <<>> \in Seq(1..pushed)
    OBVIOUS
  <2> QED BY <1>9, <2>1, <2>2 DEF CommitFails, Return, TypeOK, gate, exit, history, Tasks
<1>10. CASE DropInCommit
  <2>1. buffer' \in Seq(1..pushed) /\ dropped' \subseteq 1..pushed
    BY <1>10, RequeueEffect DEF DropInCommit, GuardDrops, Flushers
  <2>2. <<>> \in Seq(1..pushed) /\ Range(batch["timer"]) \subseteq 1..pushed
    BY LenProperties, ElementOfSeq DEF TypeOK, Range, Flushers
  <2>3. stored' \subseteq 1..pushed /\ twice' \subseteq stored' /\ unacked' \in BOOLEAN
    BY <1>10, <2>2 DEF DropInCommit, Insert, TypeOK
  <2> QED BY <1>10, <2>1, <2>2, <2>3 DEF DropInCommit, TypeOK, gate, exit, history, Tasks
<1>11. ASSUME NEW t \in Tasks, Leave(t) PROVE TypeOK'
  BY <1>11 DEF Leave, TypeOK, gate, queue, exit, history, Tasks
<1>12. CASE StopProducers
  BY <1>12 DEF StopProducers, TypeOK, gate, queue, history, Tasks
<1>13. CASE AllOver
  BY <1>13 DEF AllOver, BeginLastFlush, TypeOK, gate, queue, history, Tasks
<1>14. CASE TimeUp
  <2>1. aborted' \subseteq Tasks
    BY <1>14, WritersAssumption DEF TimeUp, Remaining, Cooperative, TypeOK, Tasks
  <2> QED BY <1>14, <2>1 DEF TimeUp, BeginLastFlush, TypeOK, gate, queue, history
<1>15. CASE Exit
  BY <1>15 DEF Exit, TypeOK, gate, queue, history, Tasks
<1>16. CASE UNCHANGED vars
  BY <1>16 DEF vars, TypeOK, gate, queue, exit, history, Tasks
<1> QED
  BY <1>1, <1>2, <1>3, <1>4, <1>5, <1>6, <1>7, <1>8, <1>9, <1>10, <1>11, <1>12, <1>13,
     <1>14, <1>15, <1>16 DEF Next, Write, Flush

(* The buffer's state stays in its types. *)
THEOREM WriteBufferTypeCorrect == Spec => []TypeOK
BY TypeInit, TypeStep, PTL DEF Spec

-----------------------------------------------------------------------------
(* The inductive invariants.                                                *)

(* A push that leaves one point too many has just started a new count, so   *)
(* the next push comes to the trimming.                                     *)
BoundInv == Bounded /\ (Len(buffer) = MaxPoints + 1 => since = 0)

(* A flusher has points only inside its commit. *)
EmptyHands == \A f \in Flushers : at[f] # "commit" => batch[f] = <<>>

(* A point is in one place only. *)
Apart ==
  ~unacked =>
    /\ \A f \in Flushers : Range(batch[f]) \cap (stored \cup Range(buffer)) = {}
    /\ Range(batch["timer"]) \cap Range(batch["exit"]) = {}
    /\ Range(buffer) \cap stored = {}

(* The exit path flushes after the timer has gone or was aborted. *)
SingleFlusher ==
  /\ phase = "running" => aborted = {}
  /\ phase \in {"running", "stopping"} => at["exit"] = "idle"
  /\ at["exit"] # "idle" => "timer" \in aborted \/ at["timer"] = "over"

Sorted(s)    == \A i, j \in DOMAIN s : i < j => s[i] < s[j]
Before(s, t) == \A m \in Range(s), n \in Range(t) : m < n

(* Batches are sorted, and older than the buffer. *)
OrderInv ==
  "timer" \notin aborted =>
    /\ Sorted(buffer)
    /\ \A f \in Flushers : Sorted(batch[f]) /\ Before(batch[f], buffer)

(* While the exit path works and nobody was late, no hooked task is left,   *)
(* and once it has drained the buffer no hooked point is there.             *)
ExitInv ==
  ~late =>
    /\ at["exit"] # "idle" => \A t \in Cooperative : at[t] = "over"
    /\ at["exit"] = "commit" => hooked \subseteq stored \cup dropped \cup Range(batch["exit"])
    /\ flushed => at["exit"] = "over" /\ hooked \subseteq stored \cup dropped

-----------------------------------------------------------------------------
(* The steps that move points, and the others.                              *)

Still ==
  /\ UNCHANGED <<buffer, since, batch, stored, dropped, pushed, wakes, hooked, twice, unacked,
                 flushed>>
  /\ \A f \in Flushers : at'[f] = "commit" <=> at[f] = "commit"

Moves ==
  \/ \E w \in Writers : Push(w)
  \/ \E f \in Flushers : Drain(f) \/ CommitOk(f) \/ CommitFails(f)
  \/ DropInCommit

LEMMA StepKinds ==
  ASSUME TypeOK, SingleFlusher, [Next]_vars
  PROVE  Still \/ Moves
<1> USE WritersAssumption DEF Goto, Still, Flushers
<1>1. CASE SetDiskUsage
  BY <1>1 DEF SetDiskUsage, queue, exit, history
<1>2. ASSUME NEW w \in Writers, CheckGate(w) PROVE Still
  BY <1>2 DEF CheckGate, TypeOK, gate, queue, exit, history
<1>3. ASSUME NEW w \in Writers, RequestFlush(w) PROVE Still
  BY <1>3 DEF RequestFlush, TypeOK, gate, queue, exit, history
<1>4. CASE TimerTick
  BY <1>4 DEF TimerTick, TypeOK, gate, queue, exit, history
<1>5. ASSUME NEW f \in Flushers, FlushGate(f) PROVE Still
  BY <1>5 DEF FlushGate, Return, TypeOK, gate, queue, exit, history
<1>6. ASSUME NEW t \in Tasks, Leave(t) PROVE Still
  BY <1>6 DEF Leave, Tasks, TypeOK, gate, queue, exit, history
<1>7. CASE StopProducers
  BY <1>7 DEF StopProducers, gate, queue, history
<1>8. CASE AllOver \/ TimeUp
  <2>1. phase = "stopping" /\ BeginLastFlush
    BY <1>8 DEF AllOver, TimeUp
  <2>2. at["exit"] = "idle"
    BY <2>1 DEF SingleFlusher
  <2> QED BY <2>1, <2>2 DEF BeginLastFlush, TypeOK, gate, queue, history
<1>9. CASE Exit
  BY <1>9 DEF Exit, gate, queue, history
<1>10. CASE UNCHANGED vars
  BY <1>10 DEF vars, gate, queue, exit, history
<1> QED
  BY <1>1, <1>2, <1>3, <1>4, <1>5, <1>6, <1>7, <1>8, <1>9, <1>10 DEF Next, Write, Flush, Moves

(* The exit path flushes after the timer has gone or was aborted. *)
LEMMA SingleFlusherStep == TypeOK /\ SingleFlusher /\ [Next]_vars => SingleFlusher'
<1> SUFFICES ASSUME TypeOK, SingleFlusher, [Next]_vars PROVE SingleFlusher'
  OBVIOUS
<1> USE WritersAssumption DEF Goto, SingleFlusher, Flushers
<1>1. CASE SetDiskUsage
  BY <1>1 DEF SetDiskUsage, exit
<1>2. ASSUME NEW w \in Writers, CheckGate(w) \/ RequestFlush(w) \/ Push(w)
      PROVE  SingleFlusher'
  BY <1>2 DEF CheckGate, RequestFlush, Push, TypeOK, exit
<1>3. CASE TimerTick
  BY <1>3 DEF TimerTick, TypeOK, exit
<1>4. ASSUME NEW f \in Flushers, FlushGate(f) \/ Drain(f) \/ CommitOk(f) \/ CommitFails(f)
      PROVE  SingleFlusher'
  <2>1. phase' = phase /\ aborted' = aborted
    BY <1>4 DEF FlushGate, Drain, CommitOk, CommitFails, exit
  <2>2. at[f] \notin {"idle", "over"}
    BY <1>4 DEF FlushGate, Drain, CommitOk, CommitFails
  <2>3. \A g \in Flushers \ {f} : at'[g] = at[g]
    BY <1>4 DEF FlushGate, Drain, CommitOk, CommitFails, Return, TypeOK
  <2> QED BY <2>1, <2>2, <2>3
<1>5. CASE DropInCommit
  BY <1>5 DEF DropInCommit, TypeOK, exit
<1>6. ASSUME NEW t \in Tasks, Leave(t) PROVE SingleFlusher'
  BY <1>6 DEF Leave, Tasks, TypeOK, exit
<1>7. CASE StopProducers
  BY <1>7 DEF StopProducers
<1>8. CASE AllOver
  BY <1>8 DEF AllOver, WaitOver, Remaining, Cooperative, BeginLastFlush, TypeOK
<1>9. CASE TimeUp
  BY <1>9 DEF TimeUp, Remaining, Cooperative, BeginLastFlush, TypeOK
<1>10. CASE Exit
  BY <1>10 DEF Exit
<1>11. CASE UNCHANGED vars
  BY <1>11 DEF vars, exit
<1> QED
  BY <1>1, <1>2, <1>3, <1>4, <1>5, <1>6, <1>7, <1>8, <1>9, <1>10, <1>11 DEF Next, Write, Flush

LEMMA EmptyHandsStep == TypeOK /\ EmptyHands /\ (Still \/ Moves) => EmptyHands'
<1> SUFFICES ASSUME TypeOK, EmptyHands, Still \/ Moves PROVE EmptyHands'
  OBVIOUS
<1> USE WritersAssumption DEF Goto, EmptyHands, TypeOK, Flushers
<1>1. CASE Still
  BY <1>1 DEF Still
<1>2. ASSUME NEW w \in Writers, Push(w) PROVE EmptyHands'
  BY <1>2 DEF Push
<1>3. ASSUME NEW f \in Flushers, Drain(f) PROVE EmptyHands'
  BY <1>3 DEF Drain, Return
<1>4. ASSUME NEW f \in Flushers, CommitOk(f) \/ CommitFails(f) PROVE EmptyHands'
  BY <1>4 DEF CommitOk, CommitFails, Return
<1>5. CASE DropInCommit
  BY <1>5 DEF DropInCommit
<1> QED BY <1>1, <1>2, <1>3, <1>4, <1>5 DEF Moves

-----------------------------------------------------------------------------
(* The frame of every invariant below.                                      *)

Frame == TypeOK /\ SingleFlusher /\ EmptyHands

LEMMA FrameInit == Init => Frame
<1>1. Init => SingleFlusher /\ EmptyHands
  BY DEF Init, SingleFlusher, EmptyHands, Flushers
<1> QED BY <1>1, TypeInit DEF Frame

LEMMA FrameStep == Frame /\ [Next]_vars => Frame' /\ (Still \/ Moves)
<1> SUFFICES ASSUME TypeOK, SingleFlusher, EmptyHands, [Next]_vars
             PROVE  Frame' /\ (Still \/ Moves)
  BY DEF Frame
<1>1. Still \/ Moves
  BY StepKinds
<1>2. TypeOK' /\ SingleFlusher' /\ EmptyHands'
  BY <1>1, TypeStep, SingleFlusherStep, EmptyHandsStep
<1> QED BY <1>1, <1>2 DEF Frame

-----------------------------------------------------------------------------
(* The bound of the buffer.                                                 *)

LEMMA BoundInit == Init => BoundInv
<1>1. Len(<<>>) = 0
  OBVIOUS
<1> QED BY <1>1, BoundsAssumption DEF Init, BoundInv, Bounded

LEMMA BoundStep == TypeOK /\ BoundInv /\ (Still \/ Moves) => BoundInv'
<1> SUFFICES ASSUME TypeOK, BoundInv, Still \/ Moves PROVE BoundInv'
  OBVIOUS
<1>1. MaxPoints \in Nat \ {0} /\ Capacity \in Nat /\ Capacity >= 2
  BY BoundsAssumption, CapacityAssumption
<1>2. buffer \in Seq(1..pushed) /\ since \in Nat /\ Len(buffer) \in Nat
  BY <1>1 DEF TypeOK
<1>3. CASE Still
  BY <1>3 DEF Still, BoundInv, Bounded
<1>4. ASSUME Len(buffer') <= MaxPoints, buffer' \in Seq(Nat) PROVE BoundInv'
  BY <1>1, <1>4, LenProperties DEF BoundInv, Bounded
<1>5. ASSUME NEW w \in Writers, Push(w) PROVE BoundInv'
  <2>1. pushed \in Nat /\ pushed' = pushed + 1 /\ buffer \in Seq(1..pushed')
    <3>1. pushed \in Nat /\ pushed' = pushed + 1
      BY <1>5 DEF TypeOK, Push
    <3>2. 1..pushed \subseteq 1..pushed'
      BY <3>1
    <3> QED BY <3>1, <3>2, <1>2, SeqMonotonic
  <2>2. /\ Append(buffer, pushed') \in Seq(1..pushed')
        /\ Len(Append(buffer, pushed')) = Len(buffer) + 1
    BY <2>1, AppendProperties
  <2>3. CASE since + 1 >= Capacity
    <3>1. Len(buffer) <= MaxPoints
      BY <2>3, <1>1, <1>2 DEF BoundInv, Bounded
    <3>2. since' = 0 /\ Len(buffer') = Len(buffer) + 1
      BY <2>2, <2>3, <1>5 DEF Push, SinceTrigger
    <3> QED BY <3>1, <3>2, <1>1, <1>2 DEF BoundInv, Bounded
  <2>4. CASE ~(since + 1 >= Capacity)
    <3>1. TrimOldest(Append(buffer, pushed')) /\ dropped \subseteq 1..pushed' /\ pushed' \in Nat
      BY <2>4, <1>5, <2>1 DEF Push, TypeOK
    <3>2. buffer' \in Seq(1..pushed') /\ Len(buffer') <= MaxPoints
      BY <3>1, <2>2, TrimEffect
    <3>3. buffer' \in Seq(Nat)
      BY <3>1, <3>2, SeqMonotonic
    <3> QED BY <3>2, <3>3, <1>4
  <2> QED BY <2>3, <2>4
<1>6. ASSUME NEW f \in Flushers, Drain(f) PROVE BoundInv'
  <2>1. CASE buffer = <<>>
    <3>1. buffer' = buffer /\ Len(buffer) = 0
      BY <2>1, <1>6 DEF Drain
    <3> QED BY <3>1, <1>1 DEF BoundInv, Bounded
  <2>2. CASE buffer # <<>>
    <3>1. buffer' = <<>> /\ Len(<<>>) = 0
      BY <2>2, <1>6 DEF Drain
    <3> QED BY <3>1, <1>1 DEF BoundInv, Bounded
  <2> QED BY <2>1, <2>2
<1>7. ASSUME NEW f \in Flushers, CommitOk(f) PROVE BoundInv'
  BY <1>7 DEF CommitOk, Disarm, queue, BoundInv, Bounded
<1>8. ASSUME NEW f \in Flushers, RequeueFront(f) PROVE BoundInv'
  <2>1. buffer' \in Seq(1..pushed) /\ Len(buffer') <= MaxPoints /\ pushed \in Nat
    BY <1>8, RequeueEffect DEF TypeOK
  <2>2. buffer' \in Seq(Nat)
    BY <2>1, SeqMonotonic
  <2> QED BY <2>1, <2>2, <1>4
<1>9. CASE \E f \in Flushers : CommitFails(f)
  BY <1>8, <1>9 DEF CommitFails
<1>10. CASE DropInCommit
  BY <1>8, <1>10 DEF DropInCommit, GuardDrops, Flushers
<1> QED BY <1>3, <1>5, <1>6, <1>7, <1>9, <1>10 DEF Moves

(* The buffer never grows past its limit by more than one point, for any    *)
(* number of writers, any capacity and any limit (buffer_telemetry,         *)
(* requeue_front).                                                          *)
THEOREM BoundedCorrect == Spec => []Bounded
<1>1. Init => Frame /\ BoundInv
  BY FrameInit, BoundInit
<1>2. (Frame /\ BoundInv) /\ [Next]_vars => (Frame /\ BoundInv)'
  BY FrameStep, BoundStep DEF Frame
<1>3. BoundInv => Bounded
  BY DEF BoundInv
<1> QED BY <1>1, <1>2, <1>3, PTL DEF Spec

-----------------------------------------------------------------------------
(* The price of a trigger.                                                  *)

LEMMA NoStormStep == TypeOK /\ NoStorm /\ (Still \/ Moves) => NoStorm'
<1> SUFFICES ASSUME TypeOK, NoStorm, Still \/ Moves PROVE NoStorm'
  OBVIOUS
<1>1. /\ Capacity \in Nat /\ wakes \in Nat /\ pushed \in Nat
      /\ since \in Nat /\ since <= Capacity - 1
  BY CapacityAssumption DEF TypeOK
<1>2. wakes * Capacity \in Nat /\ (wakes + 1) * Capacity = wakes * Capacity + Capacity
  BY <1>1
<1>3. CASE Still
  BY <1>3 DEF Still, NoStorm
<1>4. ASSUME NEW w \in Writers, Push(w) PROVE NoStorm'
  <2> DEFINE paid == wakes * Capacity
  <2>1. CASE since + 1 >= Capacity
    <3>1. wakes' * Capacity = paid + Capacity /\ since' = 0 /\ pushed' = pushed + 1
      BY <1>2, <1>4, <2>1 DEF Push, SinceTrigger
    <3>2. paid \in Nat /\ paid + since <= pushed
      BY <1>2 DEF NoStorm
    <3> HIDE DEF paid
    <3>3. paid + Capacity + 0 <= pushed + 1
      BY <3>2, <2>1, <1>1
    <3> QED BY <3>1, <3>3 DEF NoStorm
  <2>2. CASE ~(since + 1 >= Capacity)
    <3>1. wakes' = wakes /\ since' = since + 1 /\ pushed' = pushed + 1
      BY <1>4, <2>2 DEF Push
    <3> QED BY <3>1, <1>1, <1>2 DEF NoStorm
  <2> QED BY <2>1, <2>2
<1>5. ASSUME NEW f \in Flushers, Drain(f) PROVE NoStorm'
  <2>1. wakes' = wakes /\ pushed' = pushed /\ since' \in {since, 0}
    BY <1>5 DEF Drain, history
  <2> DEFINE paid == wakes * Capacity
  <2>2. paid \in Nat /\ paid + since <= pushed
    BY <1>2 DEF NoStorm
  <2>3. wakes' * Capacity = paid
    BY <2>1
  <2> HIDE DEF paid
  <2>4. paid + since <= pushed /\ paid + 0 <= pushed
    BY <2>2, <1>1
  <2>5. paid + since' <= pushed'
    BY <2>1, <2>4
  <2> QED BY <2>3, <2>5 DEF NoStorm
<1>6. CASE UNCHANGED <<wakes, since, pushed>>
  BY <1>6 DEF NoStorm
<1> QED
  BY <1>3, <1>4, <1>5, <1>6
     DEF Moves, CommitOk, CommitFails, DropInCommit, Disarm, queue, history

(* However often commits fail, a trigger costs Capacity new points          *)
(* (since_attempt).                                                         *)
THEOREM NoStormCorrect == Spec => []NoStorm
<1>1. Init => Frame /\ NoStorm
  <2>1. 0 * Capacity + 0 <= 0
    BY CapacityAssumption
  <2> QED BY <2>1, FrameInit DEF Init, NoStorm
<1>2. (Frame /\ NoStorm) /\ [Next]_vars => (Frame /\ NoStorm)'
  BY FrameStep, NoStormStep DEF Frame
<1> QED BY <1>1, <1>2, PTL DEF Spec

-----------------------------------------------------------------------------
(* No point gets lost.                                                      *)

InHands == Range(batch["timer"]) \cup Range(batch["exit"])

LEMMA RangeEmpty == Range(<<>>) = {}
BY DEF Range

LEMMA Hands == UNION {Range(batch[f]) : f \in Flushers} = InHands
BY DEF Flushers, InHands

Accounted == 1..pushed = stored \cup dropped \cup Range(buffer) \cup InHands

LEMMA AccountedStep == Frame /\ Accounted /\ (Still \/ Moves) => Accounted'
<1> SUFFICES ASSUME Frame, Accounted, Still \/ Moves PROVE Accounted'
  OBVIOUS
<1>1. /\ TypeOK /\ EmptyHands /\ pushed \in Nat
      /\ batch \in [Flushers -> Seq(1..pushed)]
  BY DEF Frame, TypeOK
<1>2. CASE Still
  BY <1>2 DEF Still, Accounted, InHands
<1>3. ASSUME NEW w \in Writers, Push(w) PROVE Accounted'
  <2>1. /\ pushed' = pushed + 1
        /\ Range(buffer') \cup dropped' = Range(buffer) \cup dropped \cup {pushed'}
    BY <1>1, <1>3, PushEffect
  <2>2. 1..pushed' = 1..pushed \cup {pushed'}
    BY <1>1, <2>1
  <2>3. stored' = stored /\ InHands' = InHands
    BY <1>3 DEF Push, InHands
  <2> QED BY <2>1, <2>2, <2>3, Zenon DEF Accounted
<1>4. ASSUME NEW f \in Flushers, Drain(f) PROVE Accounted'
  <2>1. pushed' = pushed /\ stored' = stored /\ dropped' = dropped
    BY <1>4 DEF Drain, history
  <2>2. CASE buffer = <<>>
    BY <1>4, <2>1, <2>2 DEF Drain, Accounted, InHands
  <2>3. CASE buffer # <<>>
    <3>1. /\ batch[f] = <<>> /\ buffer' = <<>>
          /\ batch' = [batch EXCEPT ![f] = buffer]
      BY <1>1, <1>4, <2>3 DEF Drain, EmptyHands
    <3>2. InHands' = InHands \cup Range(buffer)
      BY <3>1, <1>1, RangeEmpty DEF InHands, Flushers
    <3> QED BY <2>1, <3>1, <3>2, RangeEmpty DEF Accounted
  <2> QED BY <2>2, <2>3
<1>5. ASSUME NEW f \in Flushers, batch' = [batch EXCEPT ![f] = <<>>]
      PROVE  InHands = InHands' \cup Range(batch[f])
  BY <1>1, <1>5, RangeEmpty DEF InHands, Flushers
<1>6. ASSUME NEW f \in Flushers, CommitOk(f) PROVE Accounted'
  <2>1. /\ stored' = stored \cup Range(batch[f])
        /\ pushed' = pushed /\ dropped' = dropped /\ buffer' = buffer
        /\ batch' = [batch EXCEPT ![f] = <<>>]
    BY <1>6 DEF CommitOk, Insert, Disarm, queue, history
  <2> QED BY <2>1, <1>5 DEF Accounted
<1>7. ASSUME NEW f \in Flushers, RequeueFront(f), batch' = [batch EXCEPT ![f] = <<>>],
             pushed' = pushed, stored' \in {stored, stored \cup Range(batch[f])}
      PROVE  Accounted'
  <2>1. Range(buffer') \cup dropped' = Range(batch[f]) \cup Range(buffer) \cup dropped
    BY <1>1, <1>7, RequeueEffect
  <2> QED BY <2>1, <1>5, <1>7, Zenon DEF Accounted
<1>8. ASSUME NEW f \in Flushers, CommitFails(f) PROVE Accounted'
  BY <1>7, <1>8 DEF CommitFails, history
<1>9. CASE DropInCommit
  BY <1>7, <1>9 DEF DropInCommit, GuardDrops, Insert, history, Flushers
<1> QED BY <1>2, <1>3, <1>4, <1>6, <1>8, <1>9 DEF Moves

(* Every accepted point is on disk, counted as dropped, in the buffer or    *)
(* with a flusher, whatever fails and whoever is aborted (BatchGuard,       *)
(* requeue_front, trim_oldest).                                             *)
THEOREM NothingLostCorrect == Spec => []NothingLost
<1>1. Init => Frame /\ Accounted
  <2> SUFFICES ASSUME Init PROVE Accounted
    BY FrameInit
  <2>1. 1..0 = {}
    OBVIOUS
  <2> QED BY <2>1, RangeEmpty DEF Init, Accounted, InHands, Flushers
<1>2. (Frame /\ Accounted) /\ [Next]_vars => (Frame /\ Accounted)'
  BY FrameStep, AccountedStep
<1>3. Accounted => NothingLost
  BY Hands DEF Accounted, NothingLost
<1> QED BY <1>1, <1>2, <1>3, PTL DEF Spec

-----------------------------------------------------------------------------
(* No point is stored twice.                                                *)

OnceInv == Apart /\ StoredOnce

LEMMA OnceStep == Frame /\ OnceInv /\ (Still \/ Moves) => OnceInv'
<1> SUFFICES ASSUME Frame, OnceInv, Still \/ Moves, ~unacked' PROVE OnceInv'
  BY DEF OnceInv, Apart, StoredOnce
<1>1. /\ TypeOK /\ EmptyHands /\ pushed \in Nat
      /\ batch \in [Flushers -> Seq(1..pushed)]
      /\ stored \subseteq 1..pushed
  BY DEF Frame, TypeOK
<1>2. ASSUME NEW s \in Seq(1..pushed) PROVE Range(s) \subseteq 1..pushed
  <2>1. DOMAIN s = 1..Len(s) /\ \A i \in 1..Len(s) : s[i] \in 1..pushed
    BY LenProperties, ElementOfSeq
  <2> QED BY <2>1, Zenon DEF Range
<1>3. ~unacked
  <2>1. CASE Still
    BY <2>1 DEF Still
  <2>2. ASSUME NEW w \in Writers, Push(w) PROVE ~unacked
    BY <2>2 DEF Push
  <2>3. ASSUME NEW f \in Flushers, Drain(f) \/ CommitOk(f) \/ CommitFails(f) PROVE ~unacked
    BY <2>3 DEF Drain, CommitOk, CommitFails
  <2>4. CASE DropInCommit
    BY <2>4 DEF DropInCommit
  <2> QED BY <2>1, <2>2, <2>3, <2>4 DEF Moves
<1>4. CASE Still
  BY <1>4 DEF Still, OnceInv, Apart, StoredOnce
<1>5. ASSUME NEW w \in Writers, Push(w) PROVE OnceInv'
  <2>1. pushed' = pushed + 1 /\ Range(buffer') \subseteq Range(buffer) \cup {pushed'}
    BY <1>1, <1>5, PushEffect
  <2>2. stored' = stored /\ batch' = batch /\ twice' = twice
    BY <1>5 DEF Push
  <2>3. pushed' \notin 1..pushed
    BY <1>1, <2>1
  <2>4. pushed' \notin stored /\ \A f \in Flushers : pushed' \notin Range(batch[f])
    BY <1>1, <1>2, <2>3
  <2> QED BY <2>1, <2>2, <2>4, <1>3 DEF OnceInv, Apart, StoredOnce
<1>6. ASSUME NEW f \in Flushers, Drain(f) PROVE OnceInv'
  <2>1. stored' = stored /\ twice' = twice
    BY <1>6 DEF Drain
  <2>2. CASE buffer = <<>>
    BY <1>3, <1>6, <2>1, <2>2 DEF Drain, OnceInv, Apart, StoredOnce
  <2>3. CASE buffer # <<>>
    <3>1. /\ batch[f] = <<>> /\ Range(buffer') = {}
          /\ batch' = [batch EXCEPT ![f] = buffer]
      BY <1>1, <1>6, <2>3, RangeEmpty DEF Drain, EmptyHands
    <3> QED BY <1>1, <1>3, <2>1, <3>1 DEF OnceInv, Apart, StoredOnce, Flushers
  <2> QED BY <2>2, <2>3
<1>7. ASSUME NEW f \in Flushers, CommitOk(f) PROVE OnceInv'
  <2>1. /\ stored' = stored \cup Range(batch[f])
        /\ twice' = twice \cup (stored \cap Range(batch[f]))
        /\ buffer' = buffer /\ batch' = [batch EXCEPT ![f] = <<>>]
    BY <1>7 DEF CommitOk, Insert, Disarm, queue
  <2>2. \A g \in Flushers : Range(batch'[g]) = IF g = f THEN {} ELSE Range(batch[g])
    BY <2>1, <1>1, RangeEmpty
  <2> QED BY <2>1, <2>2, <1>3 DEF OnceInv, Apart, StoredOnce, Flushers
<1>8. ASSUME NEW f \in Flushers, RequeueFront(f), batch' = [batch EXCEPT ![f] = <<>>],
             stored' = stored, twice' = twice
      PROVE  OnceInv'
  <2>1. Range(buffer') \subseteq Range(batch[f]) \cup Range(buffer)
    BY <1>1, <1>8, RequeueEffect
  <2>2. \A g \in Flushers : Range(batch'[g]) = IF g = f THEN {} ELSE Range(batch[g])
    BY <1>8, <1>1, RangeEmpty
  <2> QED BY <2>1, <2>2, <1>3, <1>8 DEF OnceInv, Apart, StoredOnce, Flushers
<1>9. ASSUME NEW f \in Flushers, CommitFails(f) PROVE OnceInv'
  BY <1>8, <1>9 DEF CommitFails
<1>10. CASE DropInCommit
  BY <1>8, <1>10 DEF DropInCommit, GuardDrops, Flushers
<1> QED BY <1>4, <1>5, <1>6, <1>7, <1>9, <1>10 DEF Moves

(* Unless a flusher was dropped while the database carried its commit out,  *)
(* no row is inserted twice (BatchGuard::disarm, the order of requeue and   *)
(* commit in flush_batch).                                                  *)
THEOREM StoredOnceCorrect == Spec => []StoredOnce
<1>1. Init => Frame /\ OnceInv
  <2> SUFFICES ASSUME Init PROVE OnceInv
    BY FrameInit
  <2> QED BY RangeEmpty DEF Init, OnceInv, Apart, StoredOnce, Flushers
<1>2. (Frame /\ OnceInv) /\ [Next]_vars => (Frame /\ OnceInv)'
  BY FrameStep, OnceStep
<1>3. OnceInv => StoredOnce
  BY DEF OnceInv
<1> QED BY <1>1, <1>2, <1>3, PTL DEF Spec

-----------------------------------------------------------------------------
(* The order of the points.                                                 *)

LEMMA AbortedForGood ==
  ASSUME SingleFlusher, [Next]_vars, "timer" \in aborted
  PROVE  "timer" \in aborted'
<1>1. ~StopProducers
  BY DEF SingleFlusher, StopProducers
<1>2. CASE \E w \in Writers : Write(w)
  BY <1>2 DEF Write, CheckGate, Push, RequestFlush, exit
<1>3. CASE \E f \in Flushers : Flush(f)
  BY <1>3 DEF Flush, FlushGate, Drain, CommitOk, CommitFails, exit
<1>4. CASE SetDiskUsage \/ TimerTick \/ DropInCommit \/ \E t \in Tasks : Leave(t)
  BY <1>4 DEF SetDiskUsage, TimerTick, DropInCommit, Leave, exit
<1>5. CASE AllOver \/ TimeUp \/ Exit
  BY <1>5 DEF AllOver, TimeUp, Exit
<1>6. CASE UNCHANGED vars
  BY <1>6 DEF vars, exit
<1> QED BY <1>1, <1>2, <1>3, <1>4, <1>5, <1>6 DEF Next

LEMMA SortedConcat ==
  ASSUME NEW n \in Nat, NEW s \in Seq(1..n), NEW t \in Seq(1..n)
  PROVE  Sorted(s \o t) <=> Sorted(s) /\ Sorted(t) /\ Before(s, t)
<1> DEFINE st == s \o t
<1>1. /\ Len(s) \in Nat /\ Len(t) \in Nat
      /\ DOMAIN s = 1..Len(s) /\ DOMAIN t = 1..Len(t)
      /\ DOMAIN st = 1..(Len(s) + Len(t))
  BY ConcatProperties, LenProperties
<1>2. \A i \in 1..(Len(s) + Len(t)) : st[i] = IF i <= Len(s) THEN s[i] ELSE t[i - Len(s)]
  BY ConcatProperties
<1>3. \A i \in 1..Len(s) : i \in DOMAIN st /\ st[i] = s[i]
  BY <1>1, <1>2
<1>4. \A i \in 1..Len(t) : Len(s) + i \in DOMAIN st /\ st[Len(s) + i] = t[i]
  BY <1>1, <1>2
<1> HIDE DEF st
<1>5. ASSUME Sorted(st) PROVE Sorted(s) /\ Sorted(t) /\ Before(s, t)
  <2>1. Sorted(s)
    <3> SUFFICES ASSUME NEW i \in 1..Len(s), NEW j \in 1..Len(s), i < j PROVE s[i] < s[j]
      BY <1>1 DEF Sorted
    <3> QED BY <1>3, <1>5 DEF Sorted
  <2>2. Sorted(t)
    <3> SUFFICES ASSUME NEW i \in 1..Len(t), NEW j \in 1..Len(t), i < j PROVE t[i] < t[j]
      BY <1>1 DEF Sorted
    <3>1. Len(s) + i < Len(s) + j
      BY <1>1
    <3>2. /\ Len(s) + i \in DOMAIN st /\ st[Len(s) + i] = t[i]
          /\ Len(s) + j \in DOMAIN st /\ st[Len(s) + j] = t[j]
      BY <1>4
    <3> QED BY <3>1, <3>2, <1>5 DEF Sorted
  <2>3. Before(s, t)
    <3> SUFFICES ASSUME NEW i \in 1..Len(s), NEW j \in 1..Len(t) PROVE s[i] < t[j]
      BY <1>1 DEF Before, Range
    <3>1. i < Len(s) + j
      BY <1>1
    <3>2. /\ i \in DOMAIN st /\ st[i] = s[i]
          /\ Len(s) + j \in DOMAIN st /\ st[Len(s) + j] = t[j]
      BY <1>3, <1>4
    <3> QED BY <3>1, <3>2, <1>5 DEF Sorted
  <2> QED BY <2>1, <2>2, <2>3
<1>6. ASSUME Sorted(s), Sorted(t), Before(s, t) PROVE Sorted(st)
  <2> SUFFICES ASSUME NEW i \in DOMAIN st, NEW j \in DOMAIN st, i < j PROVE st[i] < st[j]
    BY DEF Sorted
  <2>1. CASE j <= Len(s)
    <3>1. i \in DOMAIN s /\ j \in DOMAIN s /\ st[i] = s[i] /\ st[j] = s[j]
      BY <2>1, <1>1, <1>2
    <3> QED BY <3>1, <1>6 DEF Sorted
  <2>2. CASE i <= Len(s) /\ Len(s) < j
    <3>1. i \in DOMAIN s /\ st[i] = s[i] /\ j - Len(s) \in DOMAIN t /\ st[j] = t[j - Len(s)]
      BY <2>2, <1>1, <1>2
    <3>2. s[i] \in Range(s) /\ t[j - Len(s)] \in Range(t)
      BY <3>1 DEF Range
    <3> QED BY <3>1, <3>2, <1>6 DEF Before
  <2>3. CASE Len(s) < i
    <3>1. /\ i - Len(s) \in DOMAIN t /\ st[i] = t[i - Len(s)]
          /\ j - Len(s) \in DOMAIN t /\ st[j] = t[j - Len(s)]
          /\ i - Len(s) < j - Len(s)
      BY <2>3, <1>1, <1>2
    <3> QED BY <3>1, <1>6 DEF Sorted
  <2> QED BY <2>1, <2>2, <2>3, <1>1
<1> QED BY <1>5, <1>6 DEF st

(* trim_oldest keeps the order and takes away the oldest. *)
LEMMA TrimOrder ==
  ASSUME NEW n \in Nat, NEW s \in Seq(1..n), Sorted(s), TrimOldest(s)
  PROVE  /\ Sorted(buffer')
         /\ \A i \in dropped' \ dropped : \A m \in Range(buffer') : i < m
<1> DEFINE kept == SubSeq(s, Excess(s) + 1, Len(s))
           gone == SubSeq(s, 1, Excess(s))
<1>1. kept \in Seq(1..n) /\ gone \in Seq(1..n) /\ s = gone \o kept
  BY Trim
<1>2. buffer' = kept /\ dropped' = dropped \cup Range(gone)
  BY DEF TrimOldest
<1> HIDE DEF kept, gone
<1>3. Sorted(kept) /\ Before(gone, kept)
  BY <1>1, SortedConcat
<1> QED BY <1>2, <1>3 DEF Before

LEMMA SortedEmpty == Sorted(<<>>) /\ \A s : Before(<<>>, s) /\ Before(s, <<>>)
BY RangeEmpty DEF Sorted, Before

LEMMA SortedAppend ==
  ASSUME NEW n \in Nat, NEW s \in Seq(1..n), NEW e \in 1..n,
         Sorted(s), \A m \in Range(s) : m < e
  PROVE  Sorted(Append(s, e))
<1>1. Append(s, e) = s \o <<e>> /\ <<e>> \in Seq(1..n)
  BY AppendIsConcat
<1>2. Range(<<e>>) = {e} /\ Sorted(<<e>>)
  BY DEF Range, Sorted
<1>3. Sorted(s \o <<e>>)
  BY <1>1, <1>2, SortedConcat DEF Before
<1> QED BY <1>1, <1>3

OldestGone == \A n \in dropped' \ dropped : \A m \in Range(buffer') : n < m

LEMMA OrderStep ==
  ASSUME Frame, OrderInv, Still \/ Moves, "timer" \notin aborted
  PROVE  /\ Sorted(buffer')
         /\ \A f \in Flushers : Sorted(batch'[f]) /\ Before(batch'[f], buffer')
         /\ OldestGone
<1> DEFINE Goal == /\ Sorted(buffer')
                   /\ \A f \in Flushers : Sorted(batch'[f]) /\ Before(batch'[f], buffer')
                   /\ OldestGone
<1>1. /\ TypeOK /\ EmptyHands /\ SingleFlusher /\ pushed \in Nat
      /\ batch \in [Flushers -> Seq(1..pushed)] /\ buffer \in Seq(1..pushed)
  BY DEF Frame, TypeOK
<1>2. /\ Sorted(buffer)
      /\ \A f \in Flushers : Sorted(batch[f]) /\ Before(batch[f], buffer)
  BY DEF OrderInv
<1>3. ASSUME NEW s \in Seq(1..pushed), NEW m \in Range(s) PROVE m \in 1..pushed
  <2>1. DOMAIN s = 1..Len(s) /\ \A i \in 1..Len(s) : s[i] \in 1..pushed
    BY LenProperties, ElementOfSeq
  <2> QED BY <2>1, <1>3, Zenon DEF Range
<1>4. CASE Still
  BY <1>2, <1>4 DEF Still, OldestGone
<1>5. ASSUME NEW w \in Writers, Push(w) PROVE Goal
  <2>1. /\ pushed' = pushed + 1 /\ pushed' \in Nat
        /\ Range(buffer') \subseteq Range(buffer) \cup {pushed'}
        /\ batch' = batch
    BY <1>1, <1>5, PushEffect DEF Push
  <2>2. 1..pushed \subseteq 1..pushed' /\ pushed' \in 1..pushed' /\ \A m \in 1..pushed : m < pushed'
    BY <1>1, <2>1
  <2>3. buffer \in Seq(1..pushed')
    BY <1>1, <2>2, SeqMonotonic
  <2>4. \A m \in Range(buffer) : m < pushed'
    BY <1>1, <1>3, <2>2
  <2>5. /\ Append(buffer, pushed') \in Seq(1..pushed')
        /\ Sorted(Append(buffer, pushed'))
    BY <1>2, <2>1, <2>2, <2>3, <2>4, SortedAppend, AppendProperties
  <2>6. Sorted(buffer') /\ OldestGone
    <3>1. CASE since + 1 >= Capacity
      BY <1>5, <2>5, <3>1 DEF Push, OldestGone
    <3>2. CASE ~(since + 1 >= Capacity)
      <4>1. TrimOldest(Append(buffer, pushed'))
        BY <1>5, <3>2 DEF Push
      <4> QED BY <4>1, <2>1, <2>5, TrimOrder DEF OldestGone
    <3> QED BY <3>1, <3>2
  <2>7. ASSUME NEW f \in Flushers PROVE Before(batch'[f], buffer')
    <3> SUFFICES ASSUME NEW m \in Range(batch[f]), NEW k \in Range(buffer') PROVE m < k
      BY <2>1 DEF Before
    <3>1. m < pushed'
      BY <1>1, <1>3, <2>2
    <3>2. k \in Range(buffer) => m < k
      BY <1>2 DEF Before
    <3> QED BY <3>1, <3>2, <2>1
  <2> QED BY <1>2, <2>1, <2>6, <2>7
<1>6. ASSUME NEW f \in Flushers, Drain(f) PROVE Goal
  <2>1. dropped' = dropped
    BY <1>6 DEF Drain
  <2>2. CASE buffer = <<>>
    BY <1>2, <1>6, <2>1, <2>2 DEF Drain, OldestGone
  <2>3. CASE buffer # <<>>
    <3>1. buffer' = <<>> /\ batch' = [batch EXCEPT ![f] = buffer]
      BY <1>6, <2>3 DEF Drain
    <3> QED BY <1>1, <1>2, <2>1, <3>1, SortedEmpty DEF OldestGone
  <2> QED BY <2>2, <2>3
<1>7. ASSUME NEW f \in Flushers, CommitOk(f) PROVE Goal
  <2>1. buffer' = buffer /\ dropped' = dropped /\ batch' = [batch EXCEPT ![f] = <<>>]
    BY <1>7 DEF CommitOk, Disarm, queue
  <2> QED BY <1>1, <1>2, <2>1, SortedEmpty DEF OldestGone
<1>8. ASSUME NEW f \in Flushers, CommitFails(f) PROVE Goal
  <2>1. at[f] = "commit" /\ batch' = [batch EXCEPT ![f] = <<>>]
        /\ TrimOldest(batch[f] \o buffer)
    BY <1>8 DEF CommitFails, RequeueFront
  <2>2. \A g \in Flushers \ {f} : batch[g] = <<>>
    BY <1>1, <2>1 DEF EmptyHands, SingleFlusher, Flushers
  <2>3. batch[f] \in Seq(1..pushed) /\ batch[f] \o buffer \in Seq(1..pushed)
    BY <1>1, ConcatProperties
  <2>4. Sorted(batch[f] \o buffer)
    BY <1>1, <1>2, <2>3, SortedConcat
  <2>5. Sorted(buffer') /\ OldestGone
    BY <1>1, <2>1, <2>3, <2>4, TrimOrder DEF OldestGone
  <2>6. \A g \in Flushers : batch'[g] = <<>>
    BY <1>1, <2>1, <2>2
  <2> QED BY <2>5, <2>6, SortedEmpty
<1>9. ~DropInCommit
  BY DEF DropInCommit
<1> QED BY <1>4, <1>5, <1>6, <1>7, <1>8, <1>9 DEF Moves

LEMMA OrderKept ==
  ASSUME Frame, OrderInv, [Next]_vars
  PROVE  OrderInv' /\ ("timer" \notin aborted => OldestGone)
<1>1. "timer" \in aborted => "timer" \in aborted'
  BY AbortedForGood DEF Frame
<1>2. CASE "timer" \in aborted
  BY <1>1, <1>2 DEF OrderInv
<1>3. CASE "timer" \notin aborted
  <2>1. Still \/ Moves
    BY FrameStep
  <2> QED BY <1>3, <2>1, OrderStep DEF OrderInv
<1> QED BY <1>2, <1>3

LEMMA OrderInit == Init => OrderInv
BY SortedEmpty DEF Init, OrderInv, Flushers

(* The buffer stays in the order of the pushes, failed batches put back     *)
(* included, until the timer is aborted (requeue_front).                    *)
THEOREM TimeOrderCorrect == Spec => []TimeOrder
<1>1. Init => Frame /\ OrderInv
  BY FrameInit, OrderInit
<1>2. (Frame /\ OrderInv) /\ [Next]_vars => (Frame /\ OrderInv)'
  BY FrameStep, OrderKept
<1>3. OrderInv => TimeOrder
  BY DEF OrderInv, TimeOrder, Sorted
<1> QED BY <1>1, <1>2, <1>3, PTL DEF Spec

(* Only the oldest points are ever dropped (trim_oldest).                   *)
THEOREM DropsOldestCorrect == Spec => DropsOldest
<1>1. Init => Frame /\ OrderInv
  BY FrameInit, OrderInit
<1>2. (Frame /\ OrderInv) /\ [Next]_vars => (Frame /\ OrderInv)'
  BY FrameStep, OrderKept
<1>3. (Frame /\ OrderInv) /\ [Next]_vars =>
        [("timer" \notin aborted =>
          \A n \in dropped' \ dropped : \A m \in Range(buffer') : n < m)]_vars
  BY OrderKept DEF OldestGone
<1> QED BY <1>1, <1>2, <1>3, PTL DEF Spec, DropsOldest

-----------------------------------------------------------------------------
(* The last flush.                                                          *)

(* A task that has ended stays so, and no lateness is forgotten. *)
LEMMA OverForGood ==
  ASSUME Frame, [Next]_vars
  PROVE  /\ \A t \in Tasks : at[t] = "over" => at'[t] = "over"
         /\ late => late'
         /\ at["exit"] = "over" => at'["exit"] = "over"
         /\ \/ at'["exit"] # "idle" => at["exit"] # "idle"
            \/ WaitOver /\ at' = [at EXCEPT !["exit"] = "gate"] /\ at["exit"] = "idle"
            \/ late'
<1> DEFINE Goal ==
         /\ \A t \in Tasks : at[t] = "over" => at'[t] = "over"
         /\ late => late'
         /\ at["exit"] = "over" => at'["exit"] = "over"
         /\ \/ at'["exit"] # "idle" => at["exit"] # "idle"
            \/ WaitOver /\ at' = [at EXCEPT !["exit"] = "gate"] /\ at["exit"] = "idle"
            \/ late'
<1> USE WritersAssumption DEF Frame, SingleFlusher, TypeOK, Tasks, Flushers, Goto
<1>1. CASE SetDiskUsage \/ StopProducers \/ Exit
  BY <1>1 DEF SetDiskUsage, StopProducers, Exit, exit
<1>2. ASSUME NEW w \in Writers, CheckGate(w) \/ Push(w) \/ RequestFlush(w)
      PROVE  /\ at[w] # "over" /\ \A t \in Tasks \cup Flushers : t # w => at'[t] = at[t]
             /\ late' = late
  BY <1>2 DEF CheckGate, Push, RequestFlush, exit
<1>3. CASE TimerTick
  BY <1>3 DEF TimerTick, exit
<1>4. ASSUME NEW f \in Flushers, FlushGate(f) \/ Drain(f) \/ CommitOk(f) \/ CommitFails(f)
      PROVE  /\ at[f] \notin {"idle", "over"}
             /\ \A t \in Tasks \cup Flushers : t # f => at'[t] = at[t]
             /\ late' = late
  BY <1>4 DEF FlushGate, Drain, CommitOk, CommitFails, Return, exit
<1>5. CASE DropInCommit
  BY <1>5 DEF DropInCommit, exit
<1>6. ASSUME NEW t \in Tasks, Leave(t)
      PROVE  at' = [at EXCEPT ![t] = "over"] /\ late' = late
  BY <1>6 DEF Leave, exit
<1>7. CASE AllOver
  BY <1>7 DEF AllOver, BeginLastFlush
<1>8. CASE TimeUp
  BY <1>8 DEF TimeUp, BeginLastFlush
<1>9. CASE UNCHANGED vars
  BY <1>9 DEF vars, exit
<1>10. ASSUME NEW w \in Writers, Write(w) PROVE Goal
  BY <1>2, <1>10 DEF Write
<1>11. ASSUME NEW f \in Flushers, Flush(f) PROVE Goal
  BY <1>4, <1>11 DEF Flush
<1>12. ASSUME NEW t \in Tasks, Leave(t) PROVE Goal
  BY <1>6, <1>12
<1> QED
  BY <1>1, <1>3, <1>5, <1>7, <1>8, <1>9, <1>10, <1>11, <1>12 DEF Next

LEMMA ExitStep ==
  ASSUME Frame, Accounted, ExitInv, [Next]_vars, ~late'
  PROVE  /\ at'["exit"] # "idle" => \A t \in Cooperative : at'[t] = "over"
         /\ at'["exit"] = "commit" =>
              hooked' \subseteq stored' \cup dropped' \cup Range(batch'["exit"])
         /\ flushed' => at'["exit"] = "over" /\ hooked' \subseteq stored' \cup dropped'
<1> DEFINE ToCommit == at'["exit"] = "commit" =>
                         hooked' \subseteq stored' \cup dropped' \cup Range(batch'["exit"])
           ToFlushed == flushed' =>
                          at'["exit"] = "over" /\ hooked' \subseteq stored' \cup dropped'
<1>1. /\ TypeOK /\ EmptyHands /\ pushed \in Nat /\ hooked \subseteq 1..pushed
      /\ Cooperative \subseteq Tasks /\ "timer" \in Cooperative
      /\ batch \in [Flushers -> Seq(1..pushed)]
      /\ at \in [Writers \cup Flushers ->
                   {"idle", "push", "wake", "gate", "drain", "commit", "over"}]
      /\ flushed \in BOOLEAN
  BY WritersAssumption DEF Frame, TypeOK, Cooperative, Tasks
<1>2. ~late
  BY OverForGood
<1>3. /\ at["exit"] # "idle" => \A t \in Cooperative : at[t] = "over"
      /\ at["exit"] = "commit" => hooked \subseteq stored \cup dropped \cup Range(batch["exit"])
      /\ flushed => at["exit"] = "over" /\ hooked \subseteq stored \cup dropped
  BY <1>2 DEF ExitInv
<1>4. at'["exit"] # "idle" => \A t \in Cooperative : at'[t] = "over"
  <2>1. CASE at["exit"] # "idle"
    BY <2>1, <1>1, <1>3, OverForGood
  <2>2. CASE WaitOver /\ at' = [at EXCEPT !["exit"] = "gate"]
    BY <2>2, <1>1, WritersAssumption DEF WaitOver, Remaining, Cooperative
  <2> QED BY <2>1, <2>2, OverForGood
<1>5. CASE Still
  <2>1. flushed' => at'["exit"] = "over"
    BY <1>3, <1>5, OverForGood DEF Still
  <2>2. at'["exit"] = "commit" => at["exit"] = "commit"
    BY <1>5 DEF Still, Flushers
  <2> QED BY <1>3, <1>4, <1>5, <2>1, <2>2 DEF Still
<1>6. ASSUME NEW w \in Writers, Push(w) PROVE ToCommit /\ ToFlushed
  <2>1. /\ at[w] = "push" /\ stored' = stored /\ batch' = batch /\ flushed' = flushed
        /\ at'["exit"] = at["exit"]
    BY <1>6, <1>1, WritersAssumption DEF Push, Goto, exit, Flushers
  <2>2. dropped \subseteq dropped'
    BY <1>6 DEF Push, TrimOldest
  <2>3. at["exit"] # "idle" => hooked' = hooked
    BY <1>3, <1>6, <2>1 DEF Push, Cooperative
  <2> QED BY <1>3, <2>1, <2>2, <2>3
<1>7. ASSUME at["exit"] # "idle" PROVE at["timer"] = "over" /\ batch["timer"] = <<>>
  BY <1>1, <1>3, <1>7 DEF EmptyHands, Flushers
<1>8. ASSUME NEW f \in Flushers, Drain(f) PROVE ToCommit /\ ToFlushed
  <2>1. stored' = stored /\ dropped' = dropped /\ hooked' = hooked
    BY <1>8 DEF Drain, history
  <2>2. CASE f = "timer"
    <3>1. at["timer"] = "drain" /\ at["exit"] = "idle"
      BY <1>7, <1>8, <2>2 DEF Drain
    <3>2. at'["exit"] = "idle" /\ flushed' = flushed
      BY <1>1, <1>8, <2>2, <3>1 DEF Drain, Return, Goto, Flushers
    <3> QED BY <3>1, <3>2, <1>3
  <2>3. CASE f = "exit"
    <3>1. at["exit"] = "drain" /\ batch["timer"] = <<>> /\ batch["exit"] = <<>> /\ ~flushed
      BY <1>1, <1>3, <1>7, <1>8, <2>3 DEF Drain, EmptyHands
    <3>2. hooked \subseteq stored \cup dropped \cup Range(buffer)
      BY <1>1, <3>1, RangeEmpty DEF Accounted, InHands
    <3>3. CASE buffer = <<>>
      <4>1. at'["exit"] = "over"
        BY <1>1, <1>8, <2>3, <3>3 DEF Drain, Return, Goto, Flushers
      <4> QED BY <2>1, <3>2, <3>3, <4>1, RangeEmpty
    <3>4. CASE buffer # <<>>
      <4>1. batch'["exit"] = buffer /\ ~flushed'
        BY <1>1, <1>8, <2>3, <3>1, <3>4 DEF Drain, Flushers
      <4> QED BY <2>1, <3>2, <4>1
    <3> QED BY <3>3, <3>4
  <2> QED BY <2>2, <2>3 DEF Flushers
<1>9. ASSUME NEW f \in Flushers, CommitOk(f) \/ CommitFails(f) PROVE ToCommit /\ ToFlushed
  <2>1. /\ at[f] = "commit" /\ hooked' = hooked
        /\ at' = [at EXCEPT ![f] = IF f = "timer" THEN "idle" ELSE "over"]
    BY <1>9 DEF CommitOk, CommitFails, Return, Goto, history
  <2>2. CASE f = "timer"
    <3>1. at["exit"] = "idle"
      BY <1>7, <2>1, <2>2
    <3>2. at'["exit"] = "idle" /\ flushed' = flushed
      BY <1>1, <1>9, <2>1, <2>2, <3>1 DEF CommitOk, CommitFails, exit, Flushers
    <3> QED BY <3>1, <3>2, <1>3
  <2>3. CASE f = "exit"
    <3>1. at'["exit"] = "over" /\ ~flushed
      BY <1>1, <1>3, <2>1, <2>3 DEF Flushers
    <3>2. CASE CommitOk(f)
      <4>1. stored' = stored \cup Range(batch["exit"]) /\ dropped' = dropped
        BY <2>3, <3>2 DEF CommitOk, Insert, Disarm, queue
      <4> QED BY <1>3, <2>1, <2>3, <3>1, <4>1
    <3>3. CASE CommitFails(f)
      <4>1. ~flushed'
        BY <3>1, <3>3 DEF CommitFails, exit
      <4> QED BY <3>1, <4>1
    <3> QED BY <1>9, <3>2, <3>3
  <2> QED BY <2>2, <2>3 DEF Flushers
<1>10. CASE DropInCommit
  <2>1. at["timer"] = "commit" /\ at["exit"] = "idle"
    BY <1>7, <1>10 DEF DropInCommit
  <2>2. at'["exit"] = "idle" /\ flushed' = flushed
    BY <1>1, <1>10, <2>1 DEF DropInCommit, Goto, exit, Flushers
  <2> QED BY <2>1, <2>2, <1>3, <1>4
<1>11. Still \/ Moves
  BY FrameStep
<1> QED BY <1>4, <1>5, <1>6, <1>8, <1>9, <1>10, <1>11 DEF Moves

(* When the hooked tasks stopped in time and the last flush went through,   *)
(* no point of theirs is left in memory at the exit (stop_producers before  *)
(* the last flush).                                                         *)
THEOREM ExitFlushesCorrect == Spec => []ExitFlushes
<1> DEFINE Whole == Frame /\ Accounted /\ ExitInv
<1>1. Init => Whole
  <2> SUFFICES ASSUME Init PROVE Accounted /\ ExitInv
    BY FrameInit
  <2>1. 1..0 = {}
    OBVIOUS
  <2>2. Accounted
    BY <2>1, RangeEmpty DEF Init, Accounted, InHands, Flushers
  <2>3. ExitInv
    BY DEF Init, ExitInv, Flushers
  <2> QED BY <2>2, <2>3
<1>2. Whole /\ [Next]_vars => Whole'
  <2> SUFFICES ASSUME Whole, [Next]_vars PROVE Whole'
    OBVIOUS
  <2>1. Frame' /\ Accounted'
    BY FrameStep, AccountedStep
  <2>2. ExitInv'
    BY ExitStep DEF ExitInv
  <2> QED BY <2>1, <2>2
<1>3. Whole => ExitFlushes
  BY DEF ExitInv, ExitFlushes
<1> QED BY <1>1, <1>2, <1>3, PTL DEF Spec

=============================================================================
