---------------------------- MODULE IoQueue_proofs ----------------------------
(* Theorems about IoQueue for every capacity and every finite set of threads. *)
EXTENDS IoQueue, FiniteSetTheorems, SequenceTheorems, TLAPS

(* Reducing an index that is off by less than one turn of the ring.          *)
LEMMA WrapOnce ==
  ASSUME NEW c \in Nat \ {0}, NEW x \in 0..(2 * c - 1)
  PROVE  x % c = IF x < c THEN x ELSE x - c
<1>1. CASE x < c
  BY <1>1
<1>2. CASE x >= c
  BY <1>2
<1> QED BY <1>1, <1>2

(* A signal only moves its caller and at most one sleeper.                   *)
LEMMA SignalType ==
  ASSUME TypeOK, NEW t \in Threads, NEW label \in PcLabels, NEW S \in SUBSET Threads,
         pc' \in Signal(t, label, S)
  PROVE  pc' \in [Threads -> PcLabels]
BY DEF TypeOK, Signal, Goto, Asleep, PcLabels

(* One step round the ring stays in the ring.                                *)
LEMMA AdvanceType == \A i \in Slots : Advance(i) \in Slots
BY WrapOnce, IoQueueAssumption DEF Slots, Advance

(* Every variable keeps its range; a putter with an item left is not done.   *)
LEMMA TypeStep == TypeOK /\ PutsLeft /\ [Next]_vars => (TypeOK /\ PutsLeft)'
<1> SUFFICES ASSUME TypeOK, PutsLeft, [Next]_vars PROVE TypeOK' /\ PutsLeft'
  OBVIOUS
<1> USE IoQueueAssumption
<1>0. Putters \in SUBSET Threads /\ Getters \in SUBSET Threads /\ Closer \in Threads
  BY DEF Threads
<1>1. ASSUME NEW t \in Threads, Call(t) PROVE TypeOK' /\ PutsLeft'
  BY <1>0, <1>1 DEF Call, Goto, PcLabels, ring, TypeOK, PutsLeft
<1>2. ASSUME NEW t \in Threads, SpuriousWakeup(t) PROVE TypeOK' /\ PutsLeft'
  BY <1>0, <1>2 DEF SpuriousWakeup, Goto, PcLabels, ring, TypeOK, PutsLeft
<1>3. ASSUME NEW p \in Putters, PutSleep(p) PROVE TypeOK' /\ PutsLeft'
  BY <1>0, <1>3 DEF PutSleep, Goto, PcLabels, ring, TypeOK, PutsLeft
<1>4. ASSUME NEW p \in Putters, PutStore(p) PROVE TypeOK' /\ PutsLeft'
  <2> DEFINE label == IF nput[p] + 1 = PutsEach THEN "done" ELSE "idle"
  <2>1. label \in PcLabels /\ pc' \in Signal(p, label, Getters)
    BY <1>4 DEF PutStore, PcLabels
  <2> HIDE DEF label
  <2>2. pc' \in [Threads -> PcLabels]
    BY <1>0, <2>1, SignalType
  <2>3. pc[p] = "ready" /\ nput[p] \in 0..(PutsEach - 1)
    BY <1>4 DEF PutStore, PutsLeft, TypeOK
  <2>4. tail' \in Slots
    BY <1>4, AdvanceType DEF PutStore, TypeOK
  <2>5. TypeOK'
    BY <1>4, <2>2, <2>3, <2>4 DEF PutStore, Full, Items, TypeOK
  <2>6. \A q \in Putters : pc'[q] = IF q = p THEN label ELSE pc[q]
    BY <1>0, <2>1 DEF Signal, Goto, Asleep, TypeOK
  <2>7. PutsLeft'
    BY <1>4, <2>3, <2>6 DEF PutStore, PutsLeft, TypeOK, label
  <2> QED BY <2>5, <2>7
<1>5. ASSUME NEW g \in Getters, GetSleep(g) PROVE TypeOK' /\ PutsLeft'
  BY <1>0, <1>5 DEF GetSleep, Goto, PcLabels, ring, TypeOK, PutsLeft
<1>6. ASSUME NEW g \in Getters, GetNull(g) PROVE TypeOK' /\ PutsLeft'
  BY <1>0, <1>6 DEF GetNull, Goto, PcLabels, ring, TypeOK, PutsLeft
<1>7. ASSUME NEW g \in Getters, GetTake(g) PROVE TypeOK' /\ PutsLeft'
  <2>1. pc' \in Signal(g, "idle", Putters)
    BY <1>7 DEF GetTake
  <2>2. pc' \in [Threads -> PcLabels]
    BY <1>0, <2>1, SignalType DEF PcLabels
  <2>3. head' \in Slots
    BY <1>7, AdvanceType DEF GetTake, TypeOK
  <2>4. Oldest \in Items \cup {NULL}
    BY DEF Oldest, TypeOK
  <2>5. got' \in [Getters -> Seq(Items \cup {NULL})]
    BY <1>7, <2>4 DEF GetTake, TypeOK
  <2>6. TypeOK'
    BY <1>7, <2>2, <2>3, <2>5 DEF GetTake, Empty, TypeOK
  <2>7. \A q \in Putters : pc'[q] = "done" <=> pc[q] = "done"
    BY <1>0, <2>1 DEF Signal, Goto, Asleep, TypeOK
  <2>8. PutsLeft'
    BY <1>7, <2>7 DEF GetTake, PutsLeft
  <2> QED BY <2>6, <2>8
<1>8. ASSUME Close PROVE TypeOK' /\ PutsLeft'
  BY <1>0, <1>8 DEF Close, Broadcast, Asleep, Goto, PcLabels, ring, TypeOK, PutsLeft
<1>9. CASE UNCHANGED vars
  BY <1>9 DEF vars, ring, TypeOK, PutsLeft
<1> QED BY <1>1, <1>2, <1>3, <1>4, <1>5, <1>6, <1>7, <1>8, <1>9
        DEF Next, PutStep, GetStep, Finished

LEMMA TypeInit == Init => TypeOK /\ PutsLeft
<1> USE IoQueueAssumption
<1> SUFFICES ASSUME Init PROVE TypeOK /\ PutsLeft
  OBVIOUS
<1>1. got \in [Getters -> Seq(Items \cup {NULL})]
  BY DEF Init
<1>2. PutsLeft
  BY DEF Init, PutsLeft, Threads
<1> QED BY <1>1, <1>2 DEF Init, TypeOK, Slots, PcLabels

(* IoQueue is well typed for every number of threads and every capacity.     *)
THEOREM TypeCorrect == Spec => []TypeOK
<1>1. TypeOK /\ PutsLeft /\ [Next]_vars => (TypeOK /\ PutsLeft)'
  BY TypeStep
<1> QED BY TypeInit, <1>1, PTL DEF Spec

(* A putter returns from its last call exactly when its items are stored.    *)
THEOREM PutsAccounted == Spec => []PutsLeft
<1>1. TypeOK /\ PutsLeft /\ [Next]_vars => (TypeOK /\ PutsLeft)'
  BY TypeStep
<1> QED BY TypeInit, <1>1, PTL DEF Spec

-------------------------------------------------------------------------------
(* Wake-ups.                                                                 *)

LEMMA SleepersFinite ==
  ASSUME NEW S, IsFiniteSet(S)
  PROVE  /\ IsFiniteSet(Ready(S))
         /\ Cardinality(Ready(S)) \in Nat
BY FS_Subset, FS_CardinalityType DEF Ready

(* A signal to S leaves the caller's own side R with one ready thread less,  *)
(* and gives S one ready thread more unless nobody in S is left asleep.      *)
LEMMA SignalCounts ==
  ASSUME TypeOK, NEW R \in SUBSET Threads, NEW S \in SUBSET Threads,
         IsFiniteSet(R), IsFiniteSet(S), R \cap S = {},
         NEW t \in R, pc[t] = "ready", NEW label \in {"idle", "done"},
         pc' \in Signal(t, label, S)
  PROVE  /\ Asleep(R)' = Asleep(R)
         /\ Cardinality(Ready(R)') = Cardinality(Ready(R)) - 1
         /\ Asleep(S)' # {} => /\ Asleep(S) # {}
                               /\ Cardinality(Ready(S)') = Cardinality(Ready(S)) + 1
<1>1. \A u \in R : pc'[u] = IF u = t THEN label ELSE pc[u]
  BY DEF Signal, Goto, Asleep, TypeOK
<1>2. Asleep(R)' = Asleep(R) /\ Ready(R)' = Ready(R) \ {t} /\ t \in Ready(R)
  BY <1>1 DEF Asleep, Ready
<1>3. Cardinality(Ready(R)') = Cardinality(Ready(R)) - 1
  BY <1>2, SleepersFinite, FS_RemoveElement
<1>4. CASE Asleep(S) = {}
  <2>1. \A u \in S : pc'[u] = pc[u]
    BY <1>4 DEF Signal, Goto, TypeOK
  <2>2. Asleep(S)' = {}
    BY <1>4, <2>1 DEF Asleep
  <2> QED BY <1>2, <1>3, <2>2
<1>5. CASE Asleep(S) # {}
  <2>1. PICK s \in Asleep(S) : pc' = [Goto(t, label) EXCEPT ![s] = "ready"]
    BY <1>5 DEF Signal
  <2>2. s \in S /\ pc[s] = "asleep"
    BY DEF Asleep
  <2>3. \A u \in S : pc'[u] = IF u = s THEN "ready" ELSE pc[u]
    BY <2>1, <2>2 DEF Goto, TypeOK
  <2>4. Ready(S)' = Ready(S) \cup {s} /\ s \notin Ready(S)
    BY <2>2, <2>3 DEF Ready
  <2>5. Cardinality(Ready(S)') = Cardinality(Ready(S)) + 1
    BY <2>4, SleepersFinite, FS_AddElement
  <2> QED BY <1>2, <1>3, <1>5, <2>5
<1> QED BY <1>4, <1>5

(* A step in which nobody in S falls asleep and nobody leaves "ready".       *)
LEMMA ReadyGrows ==
  ASSUME NEW S, IsFiniteSet(S),
         \A u \in S : /\ pc[u] = "ready" => pc'[u] = "ready"
                      /\ pc'[u] = "asleep" => pc[u] = "asleep"
  PROVE  /\ Cardinality(Ready(S)) <= Cardinality(Ready(S)')
         /\ Cardinality(Ready(S)') \in Nat
         /\ Asleep(S)' \in SUBSET Asleep(S)
<1>1. Ready(S) \in SUBSET Ready(S)' /\ Asleep(S)' \in SUBSET Asleep(S)
  BY DEF Ready, Asleep
<1>2. IsFiniteSet(Ready(S)') /\ Cardinality(Ready(S)') \in Nat
  BY FS_Subset, FS_CardinalityType DEF Ready
<1> QED BY <1>1, <1>2, FS_Subset

(* The inductive step of NoLostWakeup and CloseWakesAll.                     *)
LEMMA WakeupStep ==
  TypeOK /\ NoLostWakeup /\ CloseWakesAll /\ [Next]_vars
    => (NoLostWakeup /\ CloseWakesAll)'
<1> SUFFICES ASSUME TypeOK, NoLostWakeup, CloseWakesAll, [Next]_vars
             PROVE  NoLostWakeup' /\ CloseWakesAll'
  OBVIOUS
<1>0. /\ Putters \in SUBSET Threads /\ Getters \in SUBSET Threads /\ Closer \in Threads
      /\ Closer \notin Putters /\ Closer \notin Getters
      /\ IsFiniteSet(Putters) /\ IsFiniteSet(Getters)
      /\ Putters \cap Getters = {} /\ Getters \cap Putters = {}
  BY IoQueueAssumption DEF Threads
<1>c. /\ count \in Nat /\ Cap \in Nat /\ count <= Cap
      /\ Cardinality(Ready(Putters)) \in Nat
      /\ Cardinality(Ready(Getters)) \in Nat
  BY <1>0, SleepersFinite, IoQueueAssumption DEF TypeOK
<1>1. ASSUME count' = count, closed' = closed,
             \A u \in Putters \cup Getters :
               /\ pc[u] = "ready" => pc'[u] = "ready"
               /\ pc'[u] = "asleep" => pc[u] = "asleep"
      PROVE  NoLostWakeup' /\ CloseWakesAll'
  <2>1. /\ Cardinality(Ready(Putters)) <= Cardinality(Ready(Putters)')
        /\ Cardinality(Ready(Putters)') \in Nat
        /\ Asleep(Putters)' \in SUBSET Asleep(Putters)
    BY <1>0, <1>1, ReadyGrows
  <2>2. /\ Cardinality(Ready(Getters)) <= Cardinality(Ready(Getters)')
        /\ Cardinality(Ready(Getters)') \in Nat
        /\ Asleep(Getters)' \in SUBSET Asleep(Getters)
    BY <1>0, <1>1, ReadyGrows
  <2> QED BY <1>c, <1>1, <2>1, <2>2 DEF NoLostWakeup, CloseWakesAll
<1>2. ASSUME NEW t \in Threads, Call(t) PROVE NoLostWakeup' /\ CloseWakesAll'
  BY <1>0, <1>1, <1>2 DEF Call, Goto, ring, TypeOK
<1>3. ASSUME NEW t \in Threads, SpuriousWakeup(t) PROVE NoLostWakeup' /\ CloseWakesAll'
  BY <1>0, <1>1, <1>3 DEF SpuriousWakeup, Goto, ring, TypeOK
<1>4. ASSUME NEW p \in Putters, PutSleep(p) PROVE NoLostWakeup' /\ CloseWakesAll'
  <2>1. \A u \in Getters : pc'[u] = pc[u]
    BY <1>0, <1>4 DEF PutSleep, Goto, TypeOK
  <2>2. Asleep(Getters)' = Asleep(Getters) /\ Ready(Getters)' = Ready(Getters)
    BY <2>1 DEF Asleep, Ready
  <2>3. Cardinality(Ready(Putters)') \in Nat
    BY <1>0, FS_Subset, FS_CardinalityType DEF Ready
  <2> QED BY <1>c, <1>4, <2>2, <2>3 DEF PutSleep, Full, ring, NoLostWakeup, CloseWakesAll
<1>5. ASSUME NEW p \in Putters, PutStore(p) PROVE NoLostWakeup' /\ CloseWakesAll'
  <2>1. PICK label \in {"idle", "done"} : pc' \in Signal(p, label, Getters)
    BY <1>5 DEF PutStore
  <2>2. /\ Asleep(Putters)' = Asleep(Putters)
        /\ Cardinality(Ready(Putters)') = Cardinality(Ready(Putters)) - 1
        /\ Asleep(Getters)' # {} =>
             /\ Asleep(Getters) # {}
             /\ Cardinality(Ready(Getters)') = Cardinality(Ready(Getters)) + 1
    BY <1>0, <1>5, <2>1, SignalCounts DEF PutStore
  <2> QED BY <1>c, <1>5, <2>2 DEF PutStore, NoLostWakeup, CloseWakesAll
<1>6. ASSUME NEW g \in Getters, GetSleep(g) PROVE NoLostWakeup' /\ CloseWakesAll'
  <2>1. \A u \in Putters : pc'[u] = pc[u]
    BY <1>0, <1>6 DEF GetSleep, Goto, TypeOK
  <2>2. Asleep(Putters)' = Asleep(Putters) /\ Ready(Putters)' = Ready(Putters)
    BY <2>1 DEF Asleep, Ready
  <2>3. Cardinality(Ready(Getters)') \in Nat
    BY <1>0, FS_Subset, FS_CardinalityType DEF Ready
  <2> QED BY <1>c, <1>6, <2>2, <2>3 DEF GetSleep, Empty, ring, NoLostWakeup, CloseWakesAll
<1>7. ASSUME NEW g \in Getters, GetNull(g) PROVE NoLostWakeup' /\ CloseWakesAll'
  <2>1. \A u \in Putters : pc'[u] = pc[u]
    BY <1>0, <1>7 DEF GetNull, Goto, TypeOK
  <2>2. Asleep(Putters)' = Asleep(Putters) /\ Ready(Putters)' = Ready(Putters)
    BY <2>1 DEF Asleep, Ready
  <2>3. Asleep(Getters)' = {}
    BY <1>0, <1>7 DEF GetNull, Drained, Goto, Asleep, CloseWakesAll, TypeOK
  <2> QED BY <1>c, <1>7, <2>2, <2>3 DEF GetNull, ring, NoLostWakeup, CloseWakesAll
<1>8. ASSUME NEW g \in Getters, GetTake(g) PROVE NoLostWakeup' /\ CloseWakesAll'
  <2>1. /\ Asleep(Getters)' = Asleep(Getters)
        /\ Cardinality(Ready(Getters)') = Cardinality(Ready(Getters)) - 1
        /\ Asleep(Putters)' # {} =>
             /\ Asleep(Putters) # {}
             /\ Cardinality(Ready(Putters)') = Cardinality(Ready(Putters)) + 1
    BY <1>0, <1>8, SignalCounts DEF GetTake
  <2> QED BY <1>c, <1>8, <2>1 DEF GetTake, NoLostWakeup, CloseWakesAll
<1>9. ASSUME Close PROVE NoLostWakeup' /\ CloseWakesAll'
  <2>1. \A u \in Putters : pc'[u] = pc[u]
    BY <1>0, <1>9 DEF Close, Broadcast, Asleep, Goto, TypeOK
  <2>2. Asleep(Putters)' = Asleep(Putters) /\ Ready(Putters)' = Ready(Putters)
    BY <2>1 DEF Asleep, Ready
  <2>3. Asleep(Getters)' = {}
    BY <1>0, <1>9 DEF Close, Broadcast, Goto, Asleep, TypeOK
  <2> QED BY <1>c, <1>9, <2>2, <2>3 DEF Close, ring, NoLostWakeup, CloseWakesAll
<1>10. CASE UNCHANGED vars
  BY <1>1, <1>10 DEF vars, ring
<1> QED BY <1>2, <1>3, <1>4, <1>5, <1>6, <1>7, <1>8, <1>9, <1>10
        DEF Next, PutStep, GetStep, Finished

(* No item waits beside a sleeping getter and no free slot beside a sleeping *)
(* putter without a woken thread for each, although put and get signal a     *)
(* single thread and waits may return spuriously; and close leaves no getter *)
(* asleep.                                                                   *)
THEOREM WakeupsNotLost == Spec => [](NoLostWakeup /\ CloseWakesAll)
<1>1. Init => NoLostWakeup /\ CloseWakesAll
  BY DEF Init, NoLostWakeup, CloseWakesAll, Asleep, Threads
<1>2. TypeOK /\ NoLostWakeup /\ CloseWakesAll /\ [Next]_vars
        => (NoLostWakeup /\ CloseWakesAll)'
  BY WakeupStep
<1> QED BY <1>1, <1>2, TypeCorrect, PTL DEF Spec

-------------------------------------------------------------------------------
(* The ring buffer.                                                          *)

(* Where the n-th oldest item lies, and that the slot one past the last item *)
(* holds no item while there is room.                                        *)
LEMMA SlotArithmetic ==
  ASSUME NEW h \in Slots, NEW k \in 0..Cap
  PROVE  /\ \A n \in 1..k : (h + n - 1) % Cap \in Slots
         /\ (h + k) % Cap \in Slots
         /\ k > 0 => (h + 1 - 1) % Cap = h
         /\ k < Cap => \A n \in 1..k : (h + n - 1) % Cap # (h + k) % Cap
         /\ Advance((h + k) % Cap) = (h + (k + 1)) % Cap
         /\ k > 0 => (Advance(h) + (k - 1)) % Cap = (h + k) % Cap
         /\ \A n \in 1..(k - 1) : (Advance(h) + n - 1) % Cap = (h + (n + 1) - 1) % Cap
<1> USE IoQueueAssumption DEF Slots, Advance
<1>1. \A x \in 0..(2 * Cap - 1) : x % Cap = IF x < Cap THEN x ELSE x - Cap
  BY WrapOnce
<1>2. \A n \in 1..k : (h + n - 1) % Cap = IF h + n - 1 < Cap THEN h + n - 1 ELSE h + n - 1 - Cap
  BY <1>1
<1>3. (h + k) % Cap = IF h + k < Cap THEN h + k ELSE h + k - Cap
  BY <1>1
<1>4. (h + 1) % Cap = IF h + 1 < Cap THEN h + 1 ELSE 0
  BY <1>1
<1>5. Advance((h + k) % Cap) = (h + (k + 1)) % Cap
  <2>1. CASE h + k < Cap
    BY <1>3, <2>1
  <2>2. CASE h + k >= Cap
    <3>1. (h + k) % Cap = h + k - Cap
      BY <1>3, <2>2
    <3>2. h + k - Cap + 1 \in 0..Cap
      BY <2>2
    <3>3. CASE h + k - Cap + 1 < Cap
      BY <1>1, <3>1, <3>2, <3>3
    <3>4. CASE h + k - Cap + 1 = Cap
      BY <1>1, <3>1, <3>2, <3>4
    <3> QED BY <3>2, <3>3, <3>4
  <2> QED BY <2>1, <2>2
<1>6. k > 0 => (Advance(h) + (k - 1)) % Cap = (h + k) % Cap
  BY <1>1, <1>3, <1>4
<1>7. \A n \in 1..(k - 1) : (Advance(h) + n - 1) % Cap = (h + (n + 1) - 1) % Cap
  BY <1>1, <1>4
<1> QED BY <1>2, <1>3, <1>5, <1>6, <1>7

(* Head, tail and count stay in step.                                        *)
LEMMA RingStep == TypeOK /\ RingOK /\ [Next]_vars => RingOK'
<1> SUFFICES ASSUME TypeOK, RingOK, [Next]_vars PROVE RingOK'
  OBVIOUS
<1>0. head \in Slots /\ count \in 0..Cap
  BY DEF TypeOK
<1>1. ASSUME NEW p \in Putters, PutStore(p) PROVE RingOK'
  BY <1>0, <1>1, SlotArithmetic DEF PutStore, RingOK
<1>2. ASSUME NEW g \in Getters, GetTake(g) PROVE RingOK'
  <2>1. count > 0
    BY <1>0, <1>2, IoQueueAssumption DEF GetTake, Empty
  <2> QED BY <1>0, <1>2, <2>1, SlotArithmetic DEF GetTake, RingOK
<1>3. CASE UNCHANGED ring
  BY <1>3 DEF ring, RingOK
<1> QED BY <1>1, <1>2, <1>3
        DEF Next, PutStep, GetStep, Call, SpuriousWakeup, PutSleep, GetSleep, GetNull, Close,
            Finished, vars

THEOREM RingCorrect == Spec => []RingOK
<1>1. Init => RingOK
  BY IoQueueAssumption, WrapOnce DEF Init, RingOK
<1> QED BY <1>1, RingStep, TypeCorrect, PTL DEF Spec

LEMMA ContentsType ==
  ASSUME TypeOK
  PROVE  /\ Contents \in Seq(Items \cup {NULL})
         /\ Len(Contents) = count
         /\ DOMAIN Contents = 1..count
<1>1. head \in Slots /\ count \in 0..Cap
  BY DEF TypeOK
<1>2. \A n \in 1..count : (head + n - 1) % Cap \in Slots
  BY <1>1, SlotArithmetic
<1>3. count \in Nat
  BY <1>1, IoQueueAssumption
<1>4. Contents \in [1..count -> Items \cup {NULL}]
  BY <1>2 DEF Contents, TypeOK
<1> QED BY <1>3, <1>4

(* A function on 1..Len(s)+1 that agrees with s and ends in x.               *)
LEMMA ExtendIsAppend ==
  ASSUME NEW S, NEW s \in Seq(S), NEW x \in S, NEW t,
         t = [n \in 1..(Len(s) + 1) |-> IF n = Len(s) + 1 THEN x ELSE s[n]]
  PROVE  t = Append(s, x)
<1>1. Len(s) \in Nat /\ \A n \in 1..Len(s) : s[n] \in S
  BY LenProperties, ElementOfSeq
<1>2. t \in [1..(Len(s) + 1) -> S]
  BY <1>1
<1>3. t \in Seq(S) /\ Len(t) = Len(s) + 1
  BY <1>1, <1>2
<1>4. /\ Append(s, x) \in Seq(S)
      /\ Len(Append(s, x)) = Len(s) + 1
      /\ \A n \in 1..Len(s) : Append(s, x)[n] = s[n]
      /\ Append(s, x)[Len(s) + 1] = x
  BY AppendProperties
<1>5. \A n \in 1..Len(t) : t[n] = Append(s, x)[n]
  BY <1>1, <1>3, <1>4
<1> QED BY <1>3, <1>4, <1>5, SeqEqual

(* io_queue_put appends to the contents.                                     *)
LEMMA StoreAppends ==
  ASSUME TypeOK, PutsLeft, RingOK, NEW p \in Putters, PutStore(p)
  PROVE  Contents' = Append(Contents, <<p, nput[p] + 1>>)
<1> DEFINE i == <<p, nput[p] + 1>>
<1>1. /\ head \in Slots /\ count \in 0..Cap /\ count < Cap /\ count \in Nat
      /\ count' = count + 1 /\ head' = head
      /\ buf' = [buf EXCEPT ![tail] = i] /\ tail = (head + count) % Cap
  BY IoQueueAssumption DEF PutStore, Full, TypeOK, RingOK
<1>2. \A n \in 1..count : /\ (head + n - 1) % Cap \in Slots
                          /\ (head + n - 1) % Cap # tail
  BY <1>1, SlotArithmetic
<1>3. \A n \in 1..count : Contents'[n] = Contents[n]
  BY <1>1, <1>2 DEF Contents, TypeOK
<1>4. Contents'[count + 1] = i
  BY <1>1 DEF Contents, TypeOK
<1>5. /\ Contents \in Seq(Items \cup {NULL}) /\ Len(Contents) = count
      /\ Contents' = [n \in 1..(count + 1) |-> Contents'[n]]
  BY <1>1, ContentsType DEF Contents
<1>6. Contents' = [n \in 1..(count + 1) |-> IF n = count + 1 THEN i ELSE Contents[n]]
  <2>1. \A n \in 1..(count + 1) : Contents'[n] = IF n = count + 1 THEN i ELSE Contents[n]
    <3> HIDE DEF i
    <3>1. \A n \in 1..(count + 1) : n = count + 1 \/ n \in 1..count
      BY <1>1
    <3>2. count + 1 \notin 1..count
      BY <1>1
    <3> QED BY <3>1, <3>2, <1>3, <1>4
  <2> HIDE DEF i
  <2> QED BY <1>5, <2>1
<1>7. i \in Items \cup {NULL}
  <2>1. nput[p] \in 0..PutsEach /\ nput[p] # PutsEach /\ PutsEach \in Nat
    BY IoQueueAssumption DEF PutStore, PutsLeft, TypeOK
  <2> QED BY <2>1 DEF Items
<1>8. Contents' = [n \in 1..(Len(Contents) + 1) |->
                     IF n = Len(Contents) + 1 THEN i ELSE Contents[n]]
  BY <1>5, <1>6
<1>9. \A t : t = [n \in 1..(Len(Contents) + 1) |->
                  IF n = Len(Contents) + 1 THEN i ELSE Contents[n]]
             => t = Append(Contents, i)
  BY <1>5, <1>7, ExtendIsAppend
<1> QED BY <1>8, <1>9

(* io_queue_get removes the oldest item and returns it.                      *)
LEMMA TakeRemovesOldest ==
  ASSUME TypeOK, RingOK, NEW g \in Getters, GetTake(g)
  PROVE  Contents # <<>> /\ Contents' = Tail(Contents) /\ Oldest = Head(Contents)
<1>1. /\ head \in Slots /\ count \in 0..Cap /\ count > 0 /\ count \in Nat
      /\ count' = count - 1 /\ head' = Advance(head) /\ buf' = buf
  BY IoQueueAssumption DEF GetTake, Empty, TypeOK
<1>2. \A n \in 1..(count - 1) : (Advance(head) + n - 1) % Cap = (head + (n + 1) - 1) % Cap
  BY <1>1, SlotArithmetic
<1>3. \A n \in 1..(count - 1) : Contents'[n] = Contents[n + 1]
  BY <1>1, <1>2 DEF Contents
<1>4. /\ Contents \in Seq(Items \cup {NULL}) /\ Len(Contents) = count
      /\ Contents' = [n \in 1..(count - 1) |-> Contents'[n]]
  BY <1>1, ContentsType DEF Contents
<1>5. (head + 1 - 1) % Cap = head
  BY <1>1, SlotArithmetic
<1>6. Oldest = Contents[1]
  BY <1>1, <1>5 DEF Oldest, Contents
<1> QED BY <1>1, <1>3, <1>4, <1>6

(* Steps that leave the ring alone leave the contents alone.                 *)
LEMMA ContentsUnchanged == UNCHANGED ring => Contents' = Contents
BY DEF ring, Contents

(* The ring buffer with its condition variables implements the bounded FIFO  *)
(* of BoundedQueue: items come out in the order they went in, none is lost   *)
(* or repeated, NULL is returned only when the queue is closed and drained.  *)
THEOREM Refinement == Spec => ImplementsBoundedQueue
<1> USE IoQueueAssumption
<1>1. Init => AQ!Init
  <2> SUFFICES ASSUME Init PROVE Contents = <<>>
    BY DEF Init, AQ!Init
  <2> QED BY DEF Init, Contents
<1>2. TypeOK /\ TypeOK' /\ PutsLeft /\ RingOK /\ [Next]_vars => [AQ!Next]_(AQ!vars)
  <2> SUFFICES ASSUME TypeOK, TypeOK', PutsLeft, RingOK, [Next]_vars
               PROVE  AQ!Next \/ UNCHANGED AQ!vars
    OBVIOUS
  <2>1. ASSUME NEW p \in Putters, PutStore(p) PROVE AQ!Next
    <3> DEFINE i == <<p, nput[p] + 1>>
    <3>1. i \in Items
      BY <2>1 DEF PutStore, PutsLeft, TypeOK, Items
    <3>2. Len(Contents) < Cap
      BY <2>1, ContentsType DEF PutStore, Full, TypeOK
    <3>3. AQ!Put(i)
      BY <2>1, <3>2, StoreAppends DEF PutStore, AQ!Put
    <3> QED BY <3>1, <3>3 DEF AQ!Next
  <2>2. ASSUME NEW g \in Getters, GetTake(g) PROVE AQ!Next
    <3>1. AQ!Get(g)
      BY <2>2, TakeRemovesOldest DEF GetTake, AQ!Get
    <3> QED BY <3>1 DEF AQ!Next
  <2>3. ASSUME NEW g \in Getters, GetNull(g) PROVE AQ!Next
    <3>1. Contents = <<>> /\ Contents' = Contents
      BY <2>3, ContentsUnchanged DEF GetNull, Drained, Empty, Contents
    <3>2. AQ!GetNull(g)
      BY <2>3, <3>1 DEF GetNull, Drained, AQ!GetNull
    <3> QED BY <3>2 DEF AQ!Next
  <2>4. ASSUME Close PROVE AQ!Next
    <3>1. AQ!Close
      BY <2>4, ContentsUnchanged DEF Close, AQ!Close
    <3> QED BY <3>1 DEF AQ!Next
  <2>5. CASE UNCHANGED <<ring, closed, got, ended>>
    BY <2>5, ContentsUnchanged DEF AQ!vars
  <2> QED BY <2>1, <2>2, <2>3, <2>4, <2>5
          DEF Next, PutStep, GetStep, Call, SpuriousWakeup, PutSleep, GetSleep, Finished, vars
<1> QED BY <1>1, <1>2, PutsAccounted, TypeCorrect, RingCorrect, PTL DEF Spec, AQ!Spec, ImplementsBoundedQueue

-------------------------------------------------------------------------------
(* Closing.                                                                  *)

(* What io_queue_close is ordered after, and what its effect is ordered      *)
(* before.                                                                   *)
LEMMA CloseStep ==
  TypeOK /\ PutsLeft /\ CloseOrder /\ NullMeansDrained /\ [Next]_vars
    => (CloseOrder /\ NullMeansDrained)'
<1> SUFFICES ASSUME TypeOK, PutsLeft, CloseOrder, NullMeansDrained, [Next]_vars
             PROVE  CloseOrder' /\ NullMeansDrained'
  OBVIOUS
<1>0. /\ Putters \in SUBSET Threads /\ Getters \in SUBSET Threads /\ Closer \in Threads
      /\ Closer \notin Putters /\ Closer \notin Getters
      /\ Putters \cap Getters = {}
  BY IoQueueAssumption DEF Threads
<1>1. ASSUME NEW t \in Threads, Call(t) PROVE CloseOrder' /\ NullMeansDrained'
  BY <1>0, <1>1 DEF Call, Goto, ring, TypeOK, CloseOrder, NullMeansDrained
<1>2. ASSUME NEW t \in Threads, SpuriousWakeup(t) PROVE CloseOrder' /\ NullMeansDrained'
  BY <1>0, <1>2 DEF SpuriousWakeup, Goto, ring, TypeOK, CloseOrder, NullMeansDrained
<1>3. ASSUME NEW p \in Putters, PutSleep(p) PROVE CloseOrder' /\ NullMeansDrained'
  BY <1>0, <1>3 DEF PutSleep, Goto, ring, TypeOK, CloseOrder, NullMeansDrained
<1>4. ASSUME NEW p \in Putters, PutStore(p) PROVE CloseOrder' /\ NullMeansDrained'
  <2>1. PICK label \in {"idle", "done"} : pc' \in Signal(p, label, Getters)
    BY <1>4 DEF PutStore
  <2>2. /\ pc'[Closer] = pc[Closer]
        /\ pc[p] = "ready"
        /\ \A q \in Putters : q # p => pc'[q] = pc[q]
    BY <1>0, <1>4, <2>1 DEF PutStore, Signal, Goto, Asleep, TypeOK
  <2>3. early \/ (pc[Closer] = "idle" /\ ~closed /\ ended = {})
    BY <2>2, IoQueueAssumption DEF CloseOrder, TypeOK
  <2>4. closed' = closed /\ ended' = ended /\ early' = early
    BY <1>4 DEF PutStore
  <2>5. CloseOrder'
    BY <2>2, <2>3, <2>4 DEF CloseOrder
  <2>6. NullMeansDrained'
    BY <2>3, <2>4 DEF NullMeansDrained
  <2> QED BY <2>5, <2>6
<1>5. ASSUME NEW g \in Getters, GetSleep(g) PROVE CloseOrder' /\ NullMeansDrained'
  BY <1>0, <1>5 DEF GetSleep, Goto, ring, TypeOK, CloseOrder, NullMeansDrained
<1>6. ASSUME NEW g \in Getters, GetNull(g) PROVE CloseOrder' /\ NullMeansDrained'
  BY <1>0, <1>6 DEF GetNull, Drained, Empty, Goto, ring, TypeOK, PutsLeft, CloseOrder, NullMeansDrained
<1>7. ASSUME NEW g \in Getters, GetTake(g) PROVE CloseOrder' /\ NullMeansDrained'
  <2>0. pc' \in Signal(g, "idle", Putters)
    BY <1>7 DEF GetTake
  <2>1. pc'[Closer] = pc[Closer]
    BY <1>0, <2>0 DEF Signal, Goto, Asleep, TypeOK
  <2>2. \A q \in Putters : pc[q] = "done" => pc'[q] = "done"
    BY <1>0, <2>0 DEF Signal, Goto, Asleep, TypeOK
  <2> QED BY <1>7, <2>1, <2>2 DEF GetTake, Empty, CloseOrder, NullMeansDrained
<1>8. ASSUME Close PROVE CloseOrder' /\ NullMeansDrained'
  <2>1. /\ pc'[Closer] = "done" /\ pc[Closer] = "ready"
        /\ \A q \in Putters : pc'[q] = pc[q]
    BY <1>0, <1>8 DEF Close, Broadcast, Goto, Asleep, TypeOK
  <2> QED BY <1>8, <2>1 DEF Close, ring, CloseOrder, NullMeansDrained
<1>9. CASE UNCHANGED vars
  BY <1>9 DEF vars, ring, CloseOrder, NullMeansDrained
<1> QED BY <1>1, <1>2, <1>3, <1>4, <1>5, <1>6, <1>7, <1>8, <1>9
        DEF Next, PutStep, GetStep, Finished

(* When main closes a queue after its putters are done, a getter that is     *)
(* told NULL knows that everything was stored and taken.                     *)
THEOREM NullTellsDrained == Spec => [](CloseOrder /\ NullMeansDrained)
<1>1. Init => CloseOrder /\ NullMeansDrained
  BY DEF Init, CloseOrder, NullMeansDrained, Threads
<1>2. TypeOK /\ PutsLeft /\ CloseOrder /\ NullMeansDrained /\ [Next]_vars
        => (CloseOrder /\ NullMeansDrained)'
  BY CloseStep
<1> QED BY <1>1, <1>2, TypeCorrect, PutsAccounted, PTL DEF Spec

-------------------------------------------------------------------------------
(* Nothing lost, nothing twice.                                              *)

InQueue(i) == \E n \in 1..count : Contents[n] = i
Taken(i) == \E g \in Getters : \E n \in DOMAIN got[g] : got[g][n] = i

(* Where an item is, it is once, and it is nowhere before it was put.        *)
OnceOnly(i) ==
  /\ \A m, n \in 1..count : Contents[m] = i /\ Contents[n] = i => m = n
  /\ \A g, h \in Getters : \A m \in DOMAIN got[g], n \in DOMAIN got[h] :
       got[g][m] = i /\ got[h][n] = i => g = h /\ m = n
  /\ ~(InQueue(i) /\ Taken(i))
  /\ InQueue(i) \/ Taken(i) <=> i[2] <= nput[i[1]]

Accounted == \A i \in Items : OnceOnly(i)

(* io_queue_put stores an item that was nowhere.                             *)
LEMMA StoreAccounted ==
  ASSUME TypeOK, PutsLeft, RingOK, Accounted, NEW p \in Putters, PutStore(p)
  PROVE  Accounted'
<1> DEFINE new == <<p, nput[p] + 1>>
<1>1. nput[p] \in Nat /\ new \in Items
  <2>1. nput[p] \in 0..PutsEach /\ nput[p] # PutsEach /\ PutsEach \in Nat
    BY IoQueueAssumption DEF PutStore, PutsLeft, TypeOK
  <2> QED BY <2>1 DEF Items
<1>2. count \in Nat /\ count' = count + 1 /\ got' = got
  BY IoQueueAssumption DEF PutStore, TypeOK
<1>3. Contents \in Seq(Items \cup {NULL}) /\ Len(Contents) = count
  BY ContentsType
<1>4. Contents' = Append(Contents, new)
  BY StoreAppends
<1>5. /\ new[1] = p /\ new[2] = nput[p] + 1
      /\ nput' = [nput EXCEPT ![p] = nput[p] + 1]
      /\ nput \in [Putters -> 0..PutsEach]
  BY DEF PutStore, TypeOK
<1> HIDE DEF new
<1>6. /\ \A n \in 1..count : Contents'[n] = Contents[n]
      /\ Contents'[count + 1] = new
  BY <1>1, <1>2, <1>3, <1>4
<1>7. \A n \in 1..count' : n \in 1..count \/ n = count + 1
  BY <1>2
<1>8. 1..count \subseteq 1..count' /\ count + 1 \in 1..count'
  BY <1>2
<1>9. ~InQueue(new) /\ ~Taken(new)
  <2>1. ~(new[2] <= nput[new[1]])
    BY <1>1, <1>5
  <2> QED BY <1>1, <2>1 DEF Accounted, OnceOnly
<1>10. ASSUME NEW i \in Items PROVE Taken(i)' <=> Taken(i)
  BY <1>2 DEF Taken
<1>11. ASSUME NEW i \in Items, i # new PROVE InQueue(i)' <=> InQueue(i)
  <2>1. InQueue(i)' => InQueue(i)
    BY <1>6, <1>7, <1>11 DEF InQueue
  <2>2. InQueue(i) => InQueue(i)'
    <3> SUFFICES ASSUME NEW n \in 1..count, Contents[n] = i PROVE InQueue(i)'
      BY DEF InQueue
    <3>1. n \in 1..count' /\ Contents'[n] = i
      BY <1>6, <1>8
    <3> QED BY <3>1 DEF InQueue
  <2> QED BY <2>1, <2>2
<1>12. ASSUME NEW i \in Items, i = new PROVE InQueue(i)'
  BY <1>6, <1>8, <1>12 DEF InQueue
<1>13. ASSUME NEW i \in Items PROVE OnceOnly(i)'
  <2>1. \A m, n \in 1..count' : Contents'[m] = i /\ Contents'[n] = i => m = n
    <3>1. CASE i = new
      <4>1. \A n \in 1..count' : Contents'[n] = i => n = count + 1
        BY <1>6, <1>7, <1>9, <3>1 DEF InQueue
      <4> QED BY <4>1
    <3>2. CASE i # new
      <4>1. \A n \in 1..count' : Contents'[n] = i => n \in 1..count /\ Contents[n] = i
        BY <1>6, <1>7, <3>2
      <4> QED BY <4>1 DEF Accounted, OnceOnly
    <3> QED BY <3>1, <3>2
  <2>2. \A g, h \in Getters : \A m \in DOMAIN got'[g], n \in DOMAIN got'[h] :
          got'[g][m] = i /\ got'[h][n] = i => g = h /\ m = n
    BY <1>2 DEF Accounted, OnceOnly
  <2>3. ~(InQueue(i)' /\ Taken(i)')
    BY <1>9, <1>10, <1>11 DEF Accounted, OnceOnly
  <2>4. InQueue(i)' \/ Taken(i)' <=> i[2] <= nput'[i[1]]
    <3>1. CASE i = new
      <4>1. i[2] <= nput'[i[1]]
        BY <1>1, <1>5, <3>1
      <4> QED BY <1>12, <3>1, <4>1
    <3>2. CASE i # new
      <4>1. PICK q \in Putters, k \in 1..PutsEach : i = <<q, k>>
        BY DEF Items
      <4>2. i[1] = q /\ i[2] = k /\ k \in Nat /\ nput[q] \in Nat
        BY <1>5, <4>1
      <4>3. k <= nput'[q] <=> k <= nput[q]
        <5>1. CASE q = p
          <6>1. k # nput[p] + 1
            BY <1>5, <3>2, <4>1, <5>1 DEF new
          <6> QED BY <1>5, <4>2, <5>1, <6>1
        <5>2. CASE q # p
          BY <1>5, <5>2
        <5> QED BY <5>1, <5>2
      <4> QED BY <1>10, <1>11, <3>2, <4>2, <4>3 DEF Accounted, OnceOnly
    <3> QED BY <3>1, <3>2
  <2> QED BY <2>1, <2>2, <2>3, <2>4 DEF OnceOnly
<1> QED BY <1>13 DEF Accounted

(* io_queue_get moves the oldest item to its caller.                         *)
LEMMA TakeAccounted ==
  ASSUME TypeOK, RingOK, Accounted, NEW g \in Getters, GetTake(g)
  PROVE  Accounted'
<1> DEFINE old == Head(Contents)
<1>1. count \in Nat /\ count' = count - 1 /\ nput' = nput
  BY IoQueueAssumption DEF GetTake, TypeOK
<1>2. Contents \in Seq(Items \cup {NULL}) /\ Len(Contents) = count
  BY ContentsType
<1>3. Contents # <<>> /\ Contents' = Tail(Contents) /\ Oldest = old
  BY TakeRemovesOldest
<1>4. got' = [got EXCEPT ![g] = Append(got[g], old)] /\ got \in [Getters -> Seq(Items \cup {NULL})]
  BY <1>3 DEF GetTake, TypeOK
<1>5. /\ count >= 1 /\ old = Contents[1] /\ old \in Items \cup {NULL}
      /\ \A n \in 1..count' : Contents'[n] = Contents[n + 1]
  BY <1>1, <1>2, <1>3
<1> HIDE DEF old
<1> DEFINE last == Len(got[g]) + 1
<1>6. /\ got[g] \in Seq(Items \cup {NULL}) /\ last \notin DOMAIN got[g]
      /\ DOMAIN got'[g] = DOMAIN got[g] \cup {last}
      /\ got'[g][last] = old
      /\ \A n \in DOMAIN got[g] : got'[g][n] = got[g][n]
  BY <1>4, <1>5
<1> HIDE DEF last
<1>7. \A h \in Getters : h # g => got'[h] = got[h]
  BY <1>4
<1>8. /\ 1 \in 1..count
      /\ \A n \in 1..count' : n \in Nat /\ n + 1 \in 1..count /\ n + 1 # 1
      /\ \A n \in 1..count : n = 1 \/ (n - 1 \in 1..count' /\ (n - 1) + 1 = n)
  BY <1>1, <1>5
<1>9. ASSUME NEW h \in Getters, NEW n \in DOMAIN got'[h]
      PROVE  \/ n \in DOMAIN got[h] /\ got'[h][n] = got[h][n]
             \/ h = g /\ n = last /\ got'[h][n] = old
  BY <1>6, <1>7
<1>10. ASSUME NEW h \in Getters, NEW n \in DOMAIN got[h]
       PROVE  n \in DOMAIN got'[h] /\ got'[h][n] = got[h][n]
  BY <1>6, <1>7
<1>11. ASSUME NEW i \in Items PROVE OnceOnly(i)'
  <2> USE DEF Accounted
  <2>1. \A m, n \in 1..count' : Contents'[m] = i /\ Contents'[n] = i => m = n
    <3> SUFFICES ASSUME NEW m \in 1..count', NEW n \in 1..count',
                        Contents'[m] = i, Contents'[n] = i
                 PROVE  m = n
      OBVIOUS
    <3>1. m + 1 = n + 1
      BY <1>5, <1>8 DEF OnceOnly
    <3> QED BY <1>8, <3>1
  <2>2. old = i => ~InQueue(i)' /\ ~Taken(i)
    <3> SUFFICES ASSUME old = i PROVE ~InQueue(i)' /\ ~Taken(i)
      OBVIOUS
    <3>1. InQueue(i)
      BY <1>5, <1>8 DEF InQueue
    <3>2. ~Taken(i)
      BY <3>1 DEF OnceOnly
    <3>3. \A n \in 1..count' : Contents'[n] # i
      BY <1>5, <1>8 DEF OnceOnly
    <3> QED BY <3>2, <3>3 DEF InQueue
  <2>3. old # i => (InQueue(i)' <=> InQueue(i)) /\ (Taken(i)' <=> Taken(i))
    <3> SUFFICES ASSUME old # i
                 PROVE  (InQueue(i)' <=> InQueue(i)) /\ (Taken(i)' <=> Taken(i))
      OBVIOUS
    <3>1. InQueue(i)' => InQueue(i)
      BY <1>5, <1>8 DEF InQueue
    <3>2. InQueue(i) => InQueue(i)'
      <4> SUFFICES ASSUME NEW n \in 1..count, Contents[n] = i PROVE InQueue(i)'
        BY DEF InQueue
      <4>1. n - 1 \in 1..count' /\ (n - 1) + 1 = n
        BY <1>5, <1>8
      <4>2. Contents'[n - 1] = i
        BY <1>5, <4>1
      <4> QED BY <4>1, <4>2 DEF InQueue
    <3>3. Taken(i)' <=> Taken(i)
      BY <1>9, <1>10 DEF Taken
    <3> QED BY <3>1, <3>2, <3>3
  <2>4. Taken(i)' <=> Taken(i) \/ old = i
    <3>1. old = i => Taken(i)'
      BY <1>6 DEF Taken
    <3> QED BY <2>3, <3>1
  <2>5. \A h1, h2 \in Getters : \A m \in DOMAIN got'[h1], n \in DOMAIN got'[h2] :
          got'[h1][m] = i /\ got'[h2][n] = i => h1 = h2 /\ m = n
    <3> SUFFICES ASSUME NEW h1 \in Getters, NEW h2 \in Getters,
                        NEW m \in DOMAIN got'[h1], NEW n \in DOMAIN got'[h2],
                        got'[h1][m] = i, got'[h2][n] = i
                 PROVE  h1 = h2 /\ m = n
      OBVIOUS
    <3>1. CASE old = i
      <4>1. \A h \in Getters : \A k \in DOMAIN got[h] : got[h][k] # i
        BY <2>2, <3>1 DEF Taken
      <4>2. h1 = g /\ m = last
        BY <1>9, <4>1
      <4>3. h2 = g /\ n = last
        BY <1>9, <4>1
      <4> QED BY <4>2, <4>3
    <3>2. CASE old # i
      <4>1. m \in DOMAIN got[h1] /\ got[h1][m] = i
        BY <1>9, <3>2
      <4>2. n \in DOMAIN got[h2] /\ got[h2][n] = i
        BY <1>9, <3>2
      <4> QED BY <4>1, <4>2 DEF OnceOnly
    <3> QED BY <3>1, <3>2
  <2>6. ~(InQueue(i)' /\ Taken(i)')
    BY <2>2, <2>3 DEF OnceOnly
  <2>7. InQueue(i)' \/ Taken(i)' <=> i[2] <= nput'[i[1]]
    <3>1. old = i => InQueue(i)
      BY <1>5, <1>8 DEF InQueue
    <3> QED BY <1>1, <2>3, <2>4, <3>1 DEF OnceOnly
  <2> QED BY <2>1, <2>5, <2>6, <2>7 DEF OnceOnly
<1> QED BY <1>11 DEF Accounted

(* Only io_queue_put and io_queue_get move items.                            *)
LEMMA AccountedStep ==
  TypeOK /\ PutsLeft /\ RingOK /\ Accounted /\ [Next]_vars => Accounted'
<1> SUFFICES ASSUME TypeOK, PutsLeft, RingOK, Accounted, [Next]_vars PROVE Accounted'
  OBVIOUS
<1>1. ASSUME NEW p \in Putters, PutStore(p) PROVE Accounted'
  BY <1>1, StoreAccounted
<1>2. ASSUME NEW g \in Getters, GetTake(g) PROVE Accounted'
  BY <1>2, TakeAccounted
<1>3. ASSUME UNCHANGED <<ring, nput, got>> PROVE Accounted'
  <2>1. Contents' = Contents /\ count' = count /\ nput' = nput /\ got' = got
    BY <1>3, ContentsUnchanged DEF ring
  <2> QED BY <2>1 DEF Accounted, OnceOnly, InQueue, Taken
<1> QED BY <1>1, <1>2, <1>3
        DEF Next, PutStep, GetStep, Call, SpuriousWakeup, PutSleep, GetSleep, GetNull, Close,
            Finished, vars

(* No item is lost, duplicated or made up, however indices wrap and threads  *)
(* interleave: what was put is in exactly one place, in the queue or with    *)
(* the getter that took it, and nothing else is anywhere.                    *)
THEOREM ExactlyOnceHolds == Spec => []ExactlyOnce
<1>1. Init => Accounted
  <2> SUFFICES ASSUME Init, NEW p \in Putters, NEW k \in 1..PutsEach
               PROVE  OnceOnly(<<p, k>>)
    BY DEF Accounted, Items
  <2>1. nput[p] = 0 /\ count = 0 /\ \A g \in Getters : got[g] = <<>>
    BY DEF Init
  <2>2. 1..count = {} /\ \A g \in Getters : DOMAIN got[g] = {}
    BY <2>1
  <2>3. ~(<<p, k>>[2] <= nput[<<p, k>>[1]])
    BY <2>1
  <2>4. ~InQueue(<<p, k>>) /\ ~Taken(<<p, k>>)
    BY <2>2 DEF InQueue, Taken
  <2> QED BY <2>2, <2>3, <2>4 DEF OnceOnly
<1>2. TypeOK /\ PutsLeft /\ RingOK /\ Accounted /\ [Next]_vars => Accounted'
  BY AccountedStep
<1>3. Accounted => ExactlyOnce
  <2> SUFFICES ASSUME Accounted, NEW p \in Putters, NEW k \in 1..PutsEach
               PROVE  Cardinality(Places(<<p, k>>)) = IF k <= nput[p] THEN 1 ELSE 0
    BY DEF ExactlyOnce
  <2> DEFINE i == <<p, k>>
  <2>1. i \in Items /\ i[1] = p /\ i[2] = k
    BY DEF Items
  <2> HIDE DEF i
  <2>2. OnceOnly(i)
    BY <2>1 DEF Accounted
  <2>3. CASE InQueue(i)
    <3>1. PICK n \in 1..count : Contents[n] = i
      BY <2>3 DEF InQueue
    <3>2. {m \in 1..count : Contents[m] = i} = {n}
      BY <2>2, <3>1 DEF OnceOnly
    <3>3. \A g \in Getters : {m \in DOMAIN got[g] : got[g][m] = i} = {}
      BY <2>2, <2>3 DEF OnceOnly, Taken
    <3>4. Places(i) = {<<"queue", n>>}
      BY <3>2, <3>3 DEF Places
    <3>5. k <= nput[p]
      BY <2>1, <2>2, <2>3 DEF OnceOnly
    <3> QED BY <3>4, <3>5, FS_Singleton DEF i
  <2>4. CASE Taken(i)
    <3>1. PICK g \in Getters : \E n \in DOMAIN got[g] : got[g][n] = i
      BY <2>4 DEF Taken
    <3>2. PICK n \in DOMAIN got[g] : got[g][n] = i
      BY <3>1
    <3>3. {m \in 1..count : Contents[m] = i} = {}
      BY <2>2, <2>4 DEF OnceOnly, InQueue
    <3>4. {m \in DOMAIN got[g] : got[g][m] = i} = {n}
      BY <2>2, <3>2 DEF OnceOnly
    <3>5. \A h \in Getters : h # g => {m \in DOMAIN got[h] : got[h][m] = i} = {}
      BY <2>2, <3>2 DEF OnceOnly
    <3>6. Places(i) = {<<g, n>>}
      BY <3>3, <3>4, <3>5 DEF Places
    <3>7. k <= nput[p]
      BY <2>1, <2>2, <2>4 DEF OnceOnly
    <3> QED BY <3>6, <3>7, FS_Singleton DEF i
  <2>5. CASE ~InQueue(i) /\ ~Taken(i)
    <3>1. {m \in 1..count : Contents[m] = i} = {}
      BY <2>5 DEF InQueue
    <3>2. \A g \in Getters : {m \in DOMAIN got[g] : got[g][m] = i} = {}
      BY <2>5 DEF Taken
    <3>3. Places(i) = {}
      BY <3>1, <3>2 DEF Places
    <3>4. ~(k <= nput[p])
      BY <2>1, <2>2, <2>5 DEF OnceOnly
    <3> QED BY <3>3, <3>4, FS_EmptySet DEF i
  <2> QED BY <2>3, <2>4, <2>5
<1> QED BY <1>1, <1>2, <1>3, TypeCorrect, PutsAccounted, RingCorrect, PTL DEF Spec

-------------------------------------------------------------------------------
(* The conjunction the lemmas above preserve is invariant.                   *)
THEOREM InvariantHolds == Spec => []IInv
BY TypeCorrect, PutsAccounted, RingCorrect, WakeupsNotLost, NullTellsDrained, PTL DEF IInv
===============================================================================
