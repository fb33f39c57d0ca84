--------------------------- MODULE KWayMerge_proofs ---------------------------
(* Theorems about KWayMerge for every number of workers, every set of lines  *)
(* and every length of their LineVecs.                                       *)
EXTENDS KWayMerge, FiniteSetTheorems, SequenceTheorems, WellFoundedInduction, TLAPS

-------------------------------------------------------------------------------
(* Binary heaps of numbers: v is the heap as a function on 1..n.             *)

Ordered(v, n) == \A i \in 2..n : v[i \div 2] <= v[i]

(* In order but for the entry at h, which may be less than its parent; what  *)
(* is below h is not less than the parent of h.                              *)
UpOrdered(v, n, h) ==
  /\ \A i \in 2..n : i # h => v[i \div 2] <= v[i]
  /\ \A i \in 2..n : i \div 2 = h /\ h > 1 => v[h \div 2] <= v[i]

(* In order but for the entry at h, which may be greater than its children.  *)
DownOrdered(v, n, h) ==
  /\ \A i \in 2..n : i \div 2 # h => v[i \div 2] <= v[i]
  /\ \A i \in 2..n : i \div 2 = h /\ h > 1 => v[h \div 2] <= v[i]

Exchange(v, i, j) == [v EXCEPT ![i] = v[j], ![j] = v[i]]

(* A parent has a smaller index and two children.                            *)
LEMMA Parent ==
  ASSUME NEW i \in Nat, i >= 2
  PROVE  /\ i \div 2 \in Nat /\ 1 <= i \div 2 /\ i \div 2 < i
         /\ i = 2 * (i \div 2) \/ i = 2 * (i \div 2) + 1
OBVIOUS

(* The other way round.                                                      *)
LEMMA ChildOf ==
  ASSUME NEW h \in Nat \ {0}, NEW i \in Nat
  PROVE  /\ (i = 2 * h \/ i = 2 * h + 1) <=> (i >= 2 /\ i \div 2 = h)
OBVIOUS

(* One level of heap_heapify_up.                                             *)
LEMMA UpStep ==
  ASSUME NEW n \in Nat, NEW v \in [1..n -> Nat], NEW h \in 2..n,
         UpOrdered(v, n, h), v[h] < v[h \div 2]
  PROVE  UpOrdered(Exchange(v, h, h \div 2), n, h \div 2)
<1> DEFINE p == h \div 2
           w == Exchange(v, h, p)
<1>1. h \in 1..n /\ p \in 1..n /\ p # h /\ p < h
  BY Parent
<1>2. w[h] = v[p] /\ w[p] = v[h] /\ \A i \in 1..n : i # h /\ i # p => w[i] = v[i]
  BY <1>1 DEF Exchange
<1>3. \A i \in 2..n : i \in 1..n /\ i \div 2 \in 1..n /\ i \div 2 < i
  BY Parent
<1>4. \A i \in 1..n : v[i] \in Nat
  OBVIOUS
<1> HIDE DEF w
<1>5. ASSUME NEW i \in 2..n, i # p PROVE w[i \div 2] <= w[i]
  <2>1. CASE i = h
    BY <1>1, <1>2, <1>4, <2>1
  <2>2. CASE i # h /\ i \div 2 = h
    <3>1. v[p] <= v[i]
      BY <1>3, <2>2 DEF UpOrdered
    <3> QED BY <1>2, <1>3, <1>5, <2>2, <3>1
  <2>3. CASE i # h /\ i \div 2 = p
    <3>1. v[p] <= v[i]
      BY <2>3 DEF UpOrdered
    <3> QED BY <1>1, <1>2, <1>3, <1>4, <1>5, <2>3, <3>1
  <2>4. CASE i # h /\ i \div 2 # h /\ i \div 2 # p
    BY <1>2, <1>3, <1>5, <2>4 DEF UpOrdered
  <2> QED BY <2>1, <2>2, <2>3, <2>4
<1>6. ASSUME NEW i \in 2..n, i \div 2 = p, p > 1 PROVE w[p \div 2] <= w[i]
  <2>1. p \in 2..n /\ p \div 2 \in 1..n /\ p \div 2 # p /\ p \div 2 # h
    BY <1>1, <1>3, <1>6
  <2>2. v[p \div 2] <= v[p] /\ w[p \div 2] = v[p \div 2]
    BY <1>1, <1>2, <2>1 DEF UpOrdered
  <2>3. CASE i = h
    BY <1>2, <2>2, <2>3
  <2>4. CASE i # h
    <3>1. v[p] <= v[i]
      BY <1>6, <2>4 DEF UpOrdered
    <3>2. i # p /\ i \in 1..n
      BY <1>3, <1>6
    <3> QED BY <1>1, <1>2, <1>4, <2>1, <2>2, <2>4, <3>1, <3>2
  <2> QED BY <2>3, <2>4
<1>7. UpOrdered(w, n, p)
  BY <1>5, <1>6 DEF UpOrdered
<1> QED BY <1>7 DEF w

(* One level of heap_heapify_down.                                           *)
LEMMA DownStep ==
  ASSUME NEW n \in Nat, NEW v \in [1..n -> Nat], NEW h \in 1..n, NEW c \in 2..n, c \div 2 = h,
         DownOrdered(v, n, h), v[c] < v[h],
         \A d \in 2..n : d \div 2 = h => v[c] <= v[d]
  PROVE  DownOrdered(Exchange(v, h, c), n, c)
<1> DEFINE w == Exchange(v, h, c)
<1>1. c \in 1..n /\ c # h /\ h < c
  BY Parent
<1>2. w[h] = v[c] /\ w[c] = v[h] /\ \A i \in 1..n : i # h /\ i # c => w[i] = v[i]
  BY <1>1 DEF Exchange
<1>3. \A i \in 2..n : i \in 1..n /\ i \div 2 \in 1..n /\ i \div 2 < i
  BY Parent
<1>4. \A i \in 1..n : v[i] \in Nat
  OBVIOUS
<1> HIDE DEF w
<1>5. ASSUME NEW i \in 2..n, i \div 2 # c PROVE w[i \div 2] <= w[i]
  <2>1. CASE i = c
    BY <1>1, <1>2, <1>4, <2>1
  <2>2. CASE i # c /\ i \div 2 = h
    <3>1. i # h /\ v[c] <= v[i]
      BY <1>3, <2>2
    <3> QED BY <1>2, <1>3, <2>2, <3>1
  <2>3. CASE i = h
    <3>1. i \div 2 # h /\ i \div 2 # c /\ h > 1
      BY <1>1, <1>3, <2>3
    <3>2. v[h \div 2] <= v[c]
      BY <1>1, <3>1 DEF DownOrdered
    <3> QED BY <1>2, <1>3, <2>3, <3>1, <3>2
  <2>4. CASE i # c /\ i # h /\ i \div 2 # h
    BY <1>2, <1>3, <1>5, <2>4 DEF DownOrdered
  <2> QED BY <2>1, <2>2, <2>3, <2>4
<1>6. ASSUME NEW i \in 2..n, i \div 2 = c PROVE w[c \div 2] <= w[i]
  <2>1. i # h /\ i # c /\ i \div 2 # h /\ i \in 1..n
    BY <1>1, <1>3, <1>6
  <2>2. v[c] <= v[i]
    BY <1>6, <2>1 DEF DownOrdered
  <2> QED BY <1>2, <2>1, <2>2
<1>7. DownOrdered(w, n, c)
  BY <1>5, <1>6 DEF DownOrdered
<1> QED BY <1>7 DEF w

(* When heapify stops, the heap is in order.                                 *)
LEMMA Settled ==
  ASSUME NEW n \in Nat, NEW v \in [1..n -> Nat], NEW h \in Nat \ {0}
  PROVE  /\ UpOrdered(v, n, h) /\ (h \in 2..n => ~(v[h] < v[h \div 2])) => Ordered(v, n)
         /\ DownOrdered(v, n, h) /\ (\A c \in 2..n : c \div 2 = h => ~(v[c] < v[h])) => Ordered(v, n)
<1>1. \A i \in 2..n : v[i] \in Nat /\ v[i \div 2] \in Nat
  BY Parent
<1> QED BY <1>1 DEF UpOrdered, DownOrdered, Ordered

(* Every set of numbers has a least element.                                 *)
LEMMA HasLeast ==
  ASSUME NEW T \in SUBSET Nat, T # {}
  PROVE  \E m \in T : \A i \in T : m <= i
<1>1. PICK m \in T : \A i \in T : ~(<<i, m>> \in OpToRel(<, Nat))
  BY WFMin, NatLessThanWellFounded
<1>2. \A i \in T : ~(i < m)
  BY <1>1 DEF OpToRel
<1> QED BY <1>2

(* The top of a heap is its least entry.                                     *)
LEMMA TopLeast ==
  ASSUME NEW n \in Nat, NEW v \in [1..n -> Nat], Ordered(v, n)
  PROVE  \A i \in 1..n : v[1] <= v[i]
<1> DEFINE Bad == {i \in 1..n : ~(v[1] <= v[i])}
<1> SUFFICES ASSUME Bad # {} PROVE FALSE
  OBVIOUS
<1>1. PICK m \in Bad : \A i \in Bad : m <= i
  <2>1. Bad \in SUBSET Nat
    OBVIOUS
  <2> HIDE DEF Bad
  <2> QED BY <2>1, HasLeast
<1>2. m \in 2..n
  OBVIOUS
<1>3. m \div 2 \in 1..n /\ m \div 2 < m
  BY <1>2, Parent
<1>4. v[1] <= v[m \div 2]
  BY <1>1, <1>3
<1>5. v[m \div 2] <= v[m]
  BY <1>2 DEF Ordered
<1>6. 1 \in 1..n /\ v[1] \in Nat /\ v[m] \in Nat /\ v[m \div 2] \in Nat
  BY <1>2, <1>3
<1> QED BY <1>4, <1>5, <1>6

(* An entry behind the last one is in order but for itself.                  *)
LEMMA PushedLast ==
  ASSUME NEW n \in Nat, NEW v \in [1..n -> Nat], Ordered(v, n),
         NEW w \in [1..(n + 1) -> Nat], \A i \in 1..n : w[i] = v[i]
  PROVE  UpOrdered(w, n + 1, n + 1)
<1>1. \A i \in 2..(n + 1) : i \div 2 \in 1..n
  BY Parent
<1>2. \A i \in 2..(n + 1) : i # n + 1 => i \in 2..n /\ i \in 1..n
  OBVIOUS
<1> QED BY <1>1, <1>2 DEF Ordered, UpOrdered

(* With another entry at the top and the last one gone, it is in order but   *)
(* for the top.                                                              *)
LEMMA PoppedTop ==
  ASSUME NEW n \in Nat \ {0}, NEW v \in [1..n -> Nat], Ordered(v, n),
         NEW w \in [1..(n - 1) -> Nat], \A i \in 2..(n - 1) : w[i] = v[i]
  PROVE  DownOrdered(w, n - 1, 1)
<1>1. \A i \in 2..(n - 1) : i \in 2..n /\ (i \div 2 # 1 => i \div 2 \in 2..(n - 1))
  BY Parent
<1> QED BY <1>1 DEF Ordered, DownOrdered

-------------------------------------------------------------------------------
(* The state.                                                                *)

EntryType == [batch : Nat, idx : Nat]
At(b, i) == [batch |-> b, idx |-> i]

(* Every variable keeps its range.  No more LineVecs come than workers put.  *)
Typed ==
  /\ at \in {"parse", "uniq", "push", "pop"}
  /\ batches \in Seq(Seq(Nat)) /\ Len(batches) <= N
  /\ heap \in Seq(EntryType) /\ entry \in EntryType /\ output \in Seq(EntryType)
  /\ next \in Nat \ {0} /\ next <= Len(batches) + 1
  /\ hole \in Nat \ {0} /\ (hole <= Len(heap) \/ hole = 1)
  /\ at \in {"parse", "uniq"} => heap = <<>> /\ output = <<>> /\ next = 1 /\ hole = 1
  /\ at = "uniq" => Len(batches) < N

(* A LineVec after line_vec_uniq: its lines increase, and are those it had.  *)
Kept(v, s) ==
  /\ v \in Seq(Nat)
  /\ \A i, j \in DOMAIN v : i < j => v[i] < v[j]
  /\ s = {v[i] : i \in DOMAIN v}

(* While line_vec_uniq works: what it has kept increases, what it has not    *)
(* looked at is in order and not less, and together they are the lines made. *)
(* Items are overwritten only where they were looked at.                     *)
InPlace ==
  /\ vec \in Seq(Nat) /\ made \in Seq(Nat)
  /\ at \in {"parse", "uniq"} => read \in 0..Len(vec) /\ kept \in 0..read
  /\ at = "parse" => read = 0
  /\ at = "uniq" =>
       /\ kept = 0 => read = 0
       /\ \A i, j \in 1..kept : i < j => vec[i] < vec[j]
       /\ \A i, j \in read + 1..Len(vec) : i <= j => vec[i] <= vec[j]
       /\ kept > 0 => \A j \in read + 1..Len(vec) : vec[kept] <= vec[j]
       /\ Range(made) = {vec[i] : i \in 1..kept} \cup {vec[i] : i \in read + 1..Len(vec)}

AllKept ==
  /\ InPlace
  /\ sources \in Seq(SUBSET Nat) /\ Len(sources) = Len(batches)
  /\ \A b \in DOMAIN batches : Kept(batches[b], sources[b])

(* The entries whose lines are still to be written first of their batches.   *)
Standing == {heap[i] : i \in DOMAIN heap} \cup (IF at = "pop" THEN {entry} ELSE {})

(* No entry stands twice.                                                    *)
NoneTwice ==
  /\ \A i, j \in DOMAIN heap : heap[i] = heap[j] => i = j
  /\ at = "pop" => \A i \in DOMAIN heap : heap[i] # entry

Valid(e) ==
  /\ e \in EntryType
  /\ e.batch \in DOMAIN batches /\ e.batch < next
  /\ e.idx \in DOMAIN batches[e.batch]

Written(e) == \E k \in DOMAIN output : output[k] = e

(* Of a batch that was considered either an entry stands, and what comes     *)
(* before the entry is just what was written of the batch, or all is written. *)
Progress ==
  /\ \A e \in Standing : Valid(e)
  /\ \A e, f \in Standing : e.batch = f.batch => e = f
  /\ \A k \in DOMAIN output : Valid(output[k])
  /\ \A j, k \in DOMAIN output : output[j] = output[k] => j = k
  /\ \A e \in Standing : \A i \in DOMAIN batches[e.batch] : Written(At(e.batch, i)) <=> i < e.idx
  /\ \A b \in DOMAIN batches : b < next =>
       (\A i \in DOMAIN batches[b] : Written(At(b, i))) \/ \E e \in Standing : e.batch = b
  /\ output # <<>> \/ at = "pop" => next > Len(batches)

(* The lines the heap is ordered by.                                         *)
Ranks == [i \in DOMAIN heap |-> LineAt(heap[i])]

InOrder ==
  /\ at = "push" => UpOrdered(Ranks, Len(heap), hole)
  /\ at = "pop" => DownOrdered(Ranks, Len(heap), hole)

(* Nothing that stands comes before what is written.                         *)
Merged ==
  /\ OutputSorted
  /\ \A k \in DOMAIN output : \A e \in Standing : LineAt(output[k]) <= LineAt(e)
  /\ at = "pop" => \A e \in Standing : LineAt(entry) <= LineAt(e)

IInv == Typed /\ AllKept /\ NoneTwice /\ Progress /\ InOrder /\ Merged

(* line_vec_sort gives the same lines in order.                              *)
LEMMA SortKeeps ==
  ASSUME NEW v \in Seq(Nat), NEW s \in Sorted(v)
  PROVE  /\ s \in Seq(Nat) /\ Len(s) = Len(v)
         /\ \A i, j \in 1..Len(s) : i <= j => s[i] <= s[j]
         /\ Range(v) = {s[i] : i \in 1..Len(s)}
<1>1. PICK p \in Bijection(DOMAIN v, DOMAIN v) : s = [i \in DOMAIN v |-> v[p[i]]]
  BY DEF Sorted, Permuted
<1>2. DOMAIN v = 1..Len(v) /\ Len(v) \in Nat /\ \A i \in DOMAIN v : v[i] \in Nat
  OBVIOUS
<1>3. p \in [DOMAIN v -> DOMAIN v] /\ \A i \in DOMAIN v : \E j \in DOMAIN v : p[j] = i
  BY <1>1, Zenon DEF Bijection, Surjection
<1>4. DOMAIN s = DOMAIN v /\ \A i \in DOMAIN v : s[i] = v[p[i]]
  BY <1>1
<1>5. \A i \in DOMAIN v : s[i] \in Nat
  BY <1>2, <1>3, <1>4
<1>6. s = [i \in 1..Len(v) |-> s[i]]
  BY <1>1, <1>2
<1>7. s \in Seq(Nat)
  <2>1. [i \in 1..Len(v) |-> s[i]] \in [1..Len(v) -> Nat]
    BY <1>2, <1>5
  <2>2. \A n \in Nat : \A t \in [1..n -> Nat] : t \in Seq(Nat)
    OBVIOUS
  <2> QED BY <1>2, <1>6, <2>1, <2>2
<1>8. Len(s) = Len(v)
  <2>1. DOMAIN s = 1..Len(s) /\ Len(s) \in Nat
    BY <1>7
  <2> QED BY <1>2, <1>4, <2>1
<1>9. Range(v) = {s[i] : i \in DOMAIN v}
  <2>1. \A i \in DOMAIN v : \E j \in DOMAIN v : s[j] = v[i]
    <3> SUFFICES ASSUME NEW i \in DOMAIN v PROVE \E j \in DOMAIN v : s[j] = v[i]
      OBVIOUS
    <3>1. PICK j \in DOMAIN v : p[j] = i
      BY <1>3
    <3> QED BY <1>4, <3>1
  <2>2. \A j \in DOMAIN v : \E i \in DOMAIN v : s[j] = v[i]
    BY <1>3, <1>4
  <2>3. \A x : x \in Range(v) <=> \E i \in DOMAIN v : x = v[i]
    BY Zenon DEF Range
  <2>4. \A x : x \in {s[i] : i \in DOMAIN v} <=> \E i \in DOMAIN v : x = s[i]
    OBVIOUS
  <2>5. \A x : x \in Range(v) <=> x \in {s[i] : i \in DOMAIN v}
    <3> SUFFICES ASSUME NEW x PROVE x \in Range(v) <=> x \in {s[i] : i \in DOMAIN v}
      OBVIOUS
    <3>1. ASSUME NEW i \in DOMAIN v, x = v[i] PROVE \E j \in DOMAIN v : x = s[j]
      BY <2>1, <3>1
    <3>2. ASSUME NEW j \in DOMAIN v, x = s[j] PROVE \E i \in DOMAIN v : x = v[i]
      BY <2>2, <3>2
    <3> QED BY <2>3, <2>4, <3>1, <3>2
  <2> QED BY <2>5
<1>10. \A i, j \in DOMAIN s : i <= j => s[i] <= s[j]
  BY Zenon DEF Sorted
<1>11. DOMAIN s = 1..Len(s) /\ DOMAIN v = 1..Len(s)
  BY <1>2, <1>4, <1>8
<1> QED BY <1>7, <1>8, <1>9, <1>10, <1>11

(* What line_vec_sort leaves is where line_vec_uniq begins.                  *)
LEMMA SortEffect == ASSUME InPlace, Sort PROVE InPlace'
<1>1. /\ vec \in Seq(Nat) /\ made' = vec /\ at' = "uniq" /\ UNCHANGED <<read, kept>>
      /\ read = 0 /\ kept = 0
  BY DEF InPlace, Sort
<1>2. PICK s \in Sorted(vec) : vec' = s
  BY DEF Sort
<1>3. /\ s \in Seq(Nat) /\ Len(s) \in Nat
      /\ \A i, j \in 1..Len(s) : i <= j => s[i] <= s[j]
      /\ Range(vec) = {s[i] : i \in 1..Len(s)}
  BY <1>1, SortKeeps
<1>4. /\ read' = 0 /\ kept' = 0 /\ vec' \in Seq(Nat) /\ made' \in Seq(Nat) /\ at' = "uniq"
      /\ read' \in 0..Len(vec') /\ kept' \in 0..read'
  BY <1>1, <1>2, <1>3
<1>5. read' + 1..Len(vec') = 1..Len(s) /\ 1..kept' = {}
  BY <1>2, <1>3, <1>4
<1>6. \A i, j \in read' + 1..Len(vec') : i <= j => vec'[i] <= vec'[j]
  BY <1>2, <1>3, <1>5
<1>7. Range(made') = {vec'[i] : i \in 1..kept'} \cup {vec'[i] : i \in read' + 1..Len(vec')}
  <2>1. Range(made') = {vec'[i] : i \in read' + 1..Len(vec')}
    BY <1>1, <1>2, <1>3, <1>5
  <2>2. {vec'[i] : i \in 1..kept'} = {}
    BY <1>5
  <2> QED BY <2>1, <2>2
<1>8. ~(kept' > 0) /\ \A i, j \in 1..kept' : i < j => vec'[i] < vec'[j]
  BY <1>4, <1>5
<1> QED BY <1>4, <1>6, <1>7, <1>8 DEF InPlace

(* line_vec_uniq drops an item that is kept already and keeps another one    *)
(* behind those it is greater than.                                          *)
LEMMA UniqEffect == ASSUME InPlace, Uniq PROVE InPlace'
<1>1. /\ at = "uniq" /\ read < Len(vec) /\ read' = read + 1 /\ UNCHANGED <<at, made>>
      /\ vec \in Seq(Nat) /\ made \in Seq(Nat) /\ Len(vec) \in Nat
      /\ read \in Nat /\ kept \in 0..read
  BY DEF InPlace, Uniq
<1>2. /\ \A i, j \in 1..kept : i < j => vec[i] < vec[j]
      /\ \A i, j \in read + 1..Len(vec) : i <= j => vec[i] <= vec[j]
      /\ kept > 0 => \A j \in read + 1..Len(vec) : vec[kept] <= vec[j]
      /\ Range(made) = {vec[i] : i \in 1..kept} \cup {vec[i] : i \in read + 1..Len(vec)}
  BY <1>1 DEF InPlace
<1>3. \A i \in 1..Len(vec) : vec[i] \in Nat
  BY <1>1
<1>4. read + 1 \in 1..Len(vec) /\ read + 1 \in read + 1..Len(vec)
  BY <1>1
<1>5. read + 1..Len(vec) = {read + 1} \cup (read + 2..Len(vec))
  BY <1>1
<1>6. CASE Repeated
  <2>1. UNCHANGED <<vec, kept>> /\ kept > 0 /\ vec[read + 1] = vec[kept] /\ kept \in 1..kept
    BY <1>1, <1>6 DEF Uniq, Repeated
  <2>2. Range(made) = {vec[i] : i \in 1..kept} \cup {vec[i] : i \in read + 2..Len(vec)}
    BY <1>2, <1>5, <2>1
  <2>3. \A j \in read' + 1..Len(vec) : j \in read + 1..Len(vec)
    BY <1>1
  <2>4. kept' \in 0..read' /\ read' \in 0..Len(vec) /\ kept' # 0
    BY <1>1, <2>1
  <2>5. read' + 1 = read + 2
    BY <1>1
  <2> QED BY <1>1, <1>2, <2>1, <2>2, <2>3, <2>4, <2>5 DEF InPlace
<1>7. CASE ~Repeated
  <2>1. vec' = [vec EXCEPT ![kept + 1] = vec[read + 1]] /\ kept' = kept + 1
    BY <1>7 DEF Uniq
  <2>2. /\ vec' \in Seq(Nat) /\ Len(vec') = Len(vec) /\ vec'[kept + 1] = vec[read + 1]
        /\ \A i \in 1..Len(vec) : i # kept + 1 => vec'[i] = vec[i]
    <3>1. kept + 1 \in 1..Len(vec) /\ vec[read + 1] \in Nat
      BY <1>1, <1>3, <1>4
    <3> QED BY <1>1, <2>1, <3>1
  <2>3. \A i \in 1..kept : vec'[i] = vec[i] /\ vec[i] < vec[read + 1]
    <3> SUFFICES ASSUME NEW i \in 1..kept PROVE vec'[i] = vec[i] /\ vec[i] < vec[read + 1]
      OBVIOUS
    <3>1. kept > 0 /\ kept \in 1..kept /\ kept \in 1..Len(vec) /\ i \in 1..Len(vec) /\ i # kept + 1
      BY <1>1
    <3>2. vec[kept] <= vec[read + 1] /\ vec[kept] # vec[read + 1]
      BY <1>2, <1>4, <1>7, <3>1 DEF Repeated
    <3>3. i = kept \/ vec[i] < vec[kept]
      BY <1>2, <3>1
    <3> QED BY <1>3, <1>4, <2>2, <3>1, <3>2, <3>3
  <2>4. \A i \in read + 2..Len(vec) : vec'[i] = vec[i] /\ i \in read + 1..Len(vec)
    <3> SUFFICES ASSUME NEW i \in read + 2..Len(vec)
                 PROVE  vec'[i] = vec[i] /\ i \in read + 1..Len(vec)
      OBVIOUS
    <3>1. i \in 1..Len(vec) /\ i # kept + 1 /\ i \in read + 1..Len(vec)
      BY <1>1
    <3> QED BY <2>2, <3>1
  <2>5. \A i, j \in 1..kept' : i < j => vec'[i] < vec'[j]
    <3> SUFFICES ASSUME NEW i \in 1..kept', NEW j \in 1..kept', i < j PROVE vec'[i] < vec'[j]
      OBVIOUS
    <3>1. i \in 1..kept /\ (j \in 1..kept \/ j = kept + 1)
      <4>1. i \in 1..kept + 1 /\ j \in 1..kept + 1 /\ kept \in Nat
        BY <1>1, <2>1
      <4> QED BY <4>1
    <3>2. CASE j \in 1..kept
      BY <1>2, <2>3, <3>1, <3>2
    <3>3. CASE j = kept + 1
      BY <2>2, <2>3, <3>1, <3>3
    <3> QED BY <3>1, <3>2, <3>3
  <2>6. \A i, j \in read' + 1..Len(vec') : i <= j => vec'[i] <= vec'[j]
    <3>1. read' + 1..Len(vec') = read + 2..Len(vec)
      BY <1>1, <2>2
    <3> QED BY <1>2, <2>4, <3>1
  <2>7. \A j \in read' + 1..Len(vec') : vec'[kept'] <= vec'[j]
    <3>1. read' + 1..Len(vec') = read + 2..Len(vec) /\ vec'[kept'] = vec[read + 1]
      BY <1>1, <2>1, <2>2
    <3>2. \A j \in read + 2..Len(vec) : vec[read + 1] <= vec[j]
      <4> SUFFICES ASSUME NEW j \in read + 2..Len(vec) PROVE vec[read + 1] <= vec[j]
        OBVIOUS
      <4>1. j \in read + 1..Len(vec) /\ read + 1 <= j
        BY <1>1
      <4> QED BY <1>2, <1>4, <4>1
    <3> QED BY <2>4, <3>1, <3>2
  <2>8. {vec'[i] : i \in 1..kept'} = {vec[i] : i \in 1..kept} \cup {vec[read + 1]}
    <3>1. 1..kept' = (1..kept) \cup {kept + 1}
      BY <1>1, <2>1
    <3> QED BY <2>2, <2>3, <3>1
  <2>9. {vec'[i] : i \in read' + 1..Len(vec')} = {vec[i] : i \in read + 2..Len(vec)}
    <3>1. read' + 1..Len(vec') = read + 2..Len(vec)
      BY <1>1, <2>2
    <3> QED BY <2>4, <3>1
  <2>10. Range(made) = {vec'[i] : i \in 1..kept'} \cup {vec'[i] : i \in read' + 1..Len(vec')}
    BY <1>2, <1>5, <2>8, <2>9
  <2> QED BY <1>1, <2>1, <2>2, <2>5, <2>6, <2>7, <2>10 DEF InPlace
<1> QED BY <1>6, <1>7

(* When line_vec_uniq is through it has kept one of each line, in order.     *)
LEMMA UniqKeeps ==
  ASSUME InPlace, at = "uniq", read = Len(vec)
  PROVE  Kept(SubSeq(vec, 1, kept), Range(made)) /\ Range(made) \in SUBSET Nat
<1> DEFINE v == SubSeq(vec, 1, kept)
<1>1. vec \in Seq(Nat) /\ Len(vec) \in Nat /\ kept \in 0..Len(vec)
  BY DEF InPlace
<1>2. v \in Seq(Nat) /\ DOMAIN v = 1..kept /\ \A i \in 1..kept : v[i] = vec[i]
  BY <1>1
<1>3. Range(made) = {vec[i] : i \in 1..kept}
  <2>1. read + 1..Len(vec) = {}
    BY <1>1
  <2> QED BY <2>1 DEF InPlace
<1>4. Range(made) = {v[i] : i \in DOMAIN v}
  BY <1>2, <1>3
<1>5. \A i, j \in DOMAIN v : i < j => v[i] < v[j]
  BY <1>2 DEF InPlace
<1> HIDE DEF v
<1> QED BY <1>2, <1>4, <1>5 DEF Kept, v

(* LineVecs that stay as they are stay as line_vec_uniq left them.           *)
LEMMA SameKept ==
  ASSUME AllKept, UNCHANGED <<lineVec, batches, sources>>, at' = at \/ at' \in {"push", "pop"}
  PROVE  AllKept'
<1>1. UNCHANGED <<vec, read, kept, made, batches, sources>>
  BY DEF lineVec
<1>2. CASE at' = at
  <2>1. InPlace'
    BY <1>1, <1>2 DEF AllKept, InPlace
  <2> QED BY <1>1, <2>1 DEF AllKept, Kept
<1>3. CASE at' \in {"push", "pop"}
  <2>1. InPlace'
    BY <1>1, <1>3 DEF AllKept, InPlace
  <2> QED BY <1>1, <2>1 DEF AllKept, Kept
<1> QED BY <1>2, <1>3

(* The lines of a batch are numbers.                                         *)
LEMMA LineIsNat ==
  ASSUME Typed, NEW e, Valid(e)
  PROVE  LineAt(e) \in Nat
<1>1. batches[e.batch] \in Seq(Nat)
  BY DEF Typed, Valid
<1> QED BY <1>1 DEF Valid, LineAt

(* The heap as numbers.                                                      *)
LEMMA RanksType ==
  ASSUME Typed, Progress
  PROVE  /\ Len(heap) \in Nat /\ DOMAIN heap = 1..Len(heap)
         /\ Ranks \in [1..Len(heap) -> Nat]
         /\ \A i \in 1..Len(heap) : Ranks[i] = LineAt(heap[i]) /\ Valid(heap[i])
<1>1. Len(heap) \in Nat /\ DOMAIN heap = 1..Len(heap)
  BY DEF Typed
<1>2. \A i \in DOMAIN heap : Valid(heap[i])
  BY DEF Progress, Standing
<1>3. \A i \in DOMAIN heap : LineAt(heap[i]) \in Nat
  BY <1>2, LineIsNat
<1> QED BY <1>1, <1>2, <1>3 DEF Ranks

(* What an exchange of two entries does.                                     *)
LEMMA SwapEffect ==
  ASSUME Typed, NoneTwice, Progress, NEW i \in DOMAIN heap, NEW j \in DOMAIN heap, i # j,
         Swap(i, j), UNCHANGED <<at, received, next, entry, output>>
  PROVE  /\ heap' \in Seq(EntryType) /\ Len(heap') = Len(heap)
         /\ Standing' = Standing /\ NoneTwice'
         /\ Ranks' = Exchange(Ranks, i, j)
<1>1. heap' = [heap EXCEPT ![i] = heap[j], ![j] = heap[i]] /\ heap \in Seq(EntryType)
  BY DEF Swap, Typed
<1>2. heap' \in Seq(EntryType) /\ Len(heap') = Len(heap) /\ DOMAIN heap' = DOMAIN heap
  BY <1>1
<1>3. /\ heap'[i] = heap[j] /\ heap'[j] = heap[i]
      /\ \A k \in DOMAIN heap : k # i /\ k # j => heap'[k] = heap[k]
  BY <1>1
<1>4. {heap'[k] : k \in DOMAIN heap'} = {heap[k] : k \in DOMAIN heap}
  <2>1. \A k \in DOMAIN heap : \E m \in DOMAIN heap : heap'[k] = heap[m]
    BY <1>3
  <2>2. \A m \in DOMAIN heap : \E k \in DOMAIN heap : heap'[k] = heap[m]
    BY <1>3
  <2>3. {heap'[k] : k \in DOMAIN heap} \subseteq {heap[k] : k \in DOMAIN heap}
    BY <2>1
  <2>4. {heap[k] : k \in DOMAIN heap} \subseteq {heap'[k] : k \in DOMAIN heap}
    BY <2>2
  <2> QED BY <1>2, <2>3, <2>4
<1>5. Standing' = Standing
  BY <1>4 DEF Standing
<1>6. NoneTwice'
  <2>1. ASSUME NEW k \in DOMAIN heap, NEW m \in DOMAIN heap, heap'[k] = heap'[m] PROVE k = m
    BY <1>3, <2>1 DEF NoneTwice
  <2>2. at' = "pop" => \A k \in DOMAIN heap : heap'[k] # entry'
    BY <1>3 DEF NoneTwice
  <2> QED BY <1>2, <2>1, <2>2 DEF NoneTwice
<1>7. Ranks' = Exchange(Ranks, i, j)
  <2>1. Ranks' = [k \in DOMAIN heap |-> LineAt(heap'[k])]
    BY <1>2 DEF Ranks, LineAt, received
  <2>2. \A k \in DOMAIN heap : Ranks[k] = LineAt(heap[k])
    BY DEF Ranks
  <2>3. Ranks \in [DOMAIN heap -> {LineAt(heap[k]) : k \in DOMAIN heap}]
    BY DEF Ranks
  <2>4. DOMAIN Exchange(Ranks, i, j) = DOMAIN heap
    BY <2>3 DEF Exchange
  <2>5. \A k \in DOMAIN heap : Exchange(Ranks, i, j)[k] = LineAt(heap'[k])
    BY <1>3, <2>2, <2>3 DEF Exchange
  <2>6. Exchange(Ranks, i, j) = [k \in DOMAIN heap |-> Exchange(Ranks, i, j)[k]]
    BY <2>3 DEF Exchange
  <2> QED BY <2>1, <2>5, <2>6
<1> QED BY <1>2, <1>5, <1>6, <1>7

(* The progress depends on the entries that stand, not on their places.      *)
LEMMA SameProgress ==
  ASSUME Progress, Standing' = Standing, UNCHANGED <<at, received, next, entry, output>>
  PROVE  Progress'
<1>1. UNCHANGED <<at, batches, next, output>>
  BY DEF received
<1>2. \A e : Valid(e)' <=> Valid(e)
  BY <1>1 DEF Valid
<1>3. \A e : Written(e)' <=> Written(e)
  BY <1>1 DEF Written
<1>4. \A e \in Standing' : Valid(e)'
  BY <1>2 DEF Progress
<1>5. \A e, f \in Standing' : e.batch = f.batch => e = f
  BY DEF Progress
<1>6. \A k \in DOMAIN output' : Valid(output[k])'
  BY <1>1 DEF Progress, Valid
<1>7. \A j, k \in DOMAIN output' : output'[j] = output'[k] => j = k
  BY <1>1 DEF Progress
<1>8. \A e \in Standing' : \A i \in DOMAIN batches'[e.batch] : Written(At(e.batch, i))' <=> i < e.idx
  BY <1>1 DEF Progress, Written
<1>9. \A b \in DOMAIN batches' : b < next' =>
        (\A i \in DOMAIN batches'[b] : Written(At(b, i))') \/ \E e \in Standing' : e.batch = b
  BY <1>1 DEF Progress, Written
<1>10. output' # <<>> \/ at' = "pop" => next' > Len(batches')
  BY <1>1 DEF Progress
<1> QED BY <1>4, <1>5, <1>6, <1>7, <1>8, <1>9, <1>10 DEF Progress

(* heap_heapify_up and heap_heapify_down move entries only.                  *)
LEMMA HeapifyKeeps ==
  ASSUME IInv, HeapifyUp \/ HeapifyDown
  PROVE  IInv'
<1>1. Len(heap) \in Nat /\ DOMAIN heap = 1..Len(heap) /\ Ranks \in [1..Len(heap) -> Nat]
  BY RanksType DEF IInv
<1>2. \A i \in 1..Len(heap) : Ranks[i] = LineAt(heap[i])
  BY RanksType DEF IInv
<1>3. ASSUME NEW i \in DOMAIN heap, NEW j \in DOMAIN heap, i # j, Swap(i, j), hole' = j,
             UNCHANGED <<at, received, next, entry, output>>, InOrder'
      PROVE  IInv'
  <2>1. /\ heap' \in Seq(EntryType) /\ Len(heap') = Len(heap)
        /\ Standing' = Standing /\ NoneTwice'
    BY <1>3, SwapEffect DEF IInv
  <2>2. UNCHANGED <<at, lineVec, batches, sources, next, entry, output>>
    BY <1>3 DEF received
  <2>3. Typed'
    <3>1. hole' \in Nat \ {0} /\ hole' <= Len(heap')
      BY <1>1, <1>3, <2>1
    <3>2. at # "receive"
      BY <1>1, <1>3 DEF IInv, Typed
    <3> QED BY <2>1, <2>2, <3>1, <3>2 DEF IInv, Typed
  <2>4. AllKept'
    BY <2>2, SameKept DEF IInv
  <2>5. Progress'
    BY <1>3, <2>1, SameProgress DEF IInv, received
  <2>6. Merged'
    BY <2>1, <2>2 DEF IInv, Merged, OutputSorted, LineAt
  <2> QED BY <1>3, <2>1, <2>3, <2>4, <2>5, <2>6 DEF IInv
<1>4. CASE HeapifyUp
  <2> DEFINE p == hole \div 2
  <2>1. /\ at = "push" /\ hole > 1 /\ Less(heap[hole], heap[p]) /\ Swap(hole, p) /\ hole' = p
        /\ UNCHANGED <<at, received, next, entry, output>>
    BY <1>4 DEF HeapifyUp, Rises
  <2>2. hole \in 2..Len(heap)
    BY <1>1, <2>1 DEF IInv, Typed
  <2>3. hole \in DOMAIN heap /\ p \in DOMAIN heap /\ p # hole
    BY <1>1, <2>2, Parent
  <2>4. Ranks[hole] < Ranks[p]
    BY <1>1, <1>2, <2>1, <2>3 DEF Less
  <2>5. UpOrdered(Ranks, Len(heap), hole)
    BY <2>1 DEF IInv, InOrder
  <2>6. UpOrdered(Exchange(Ranks, hole, p), Len(heap), p)
    BY <1>1, <2>2, <2>4, <2>5, UpStep
  <2>7. Ranks' = Exchange(Ranks, hole, p) /\ Len(heap') = Len(heap)
    BY <2>1, <2>3, SwapEffect DEF IInv
  <2>8. InOrder'
    BY <2>1, <2>6, <2>7 DEF InOrder
  <2> QED BY <1>3, <2>1, <2>3, <2>8
<1>5. CASE HeapifyDown
  <2>1. PICK c \in Children(hole) :
          /\ Less(heap[c], heap[hole])
          /\ \A d \in Children(hole) \ {c} :
               Less(heap[c], heap[d]) \/ (~Less(heap[d], heap[c]) /\ c < d)
          /\ Swap(hole, c) /\ hole' = c
    BY <1>5 DEF HeapifyDown
  <2>2. at = "pop" /\ UNCHANGED <<at, received, next, entry, output>>
    BY <1>5 DEF HeapifyDown
  <2>3. hole \in Nat \ {0} /\ c \in 1..Len(heap) /\ (c = 2 * hole \/ c = 2 * hole + 1)
    BY <1>1, <2>1 DEF Children, IInv, Typed
  <2>4. c \in 2..Len(heap) /\ c \div 2 = hole
    BY <1>1, <2>3, ChildOf
  <2>5. hole \in 1..Len(heap) /\ c \in DOMAIN heap /\ hole \in DOMAIN heap /\ c # hole
    BY <1>1, <2>4, Parent
  <2>6. Ranks[c] < Ranks[hole]
    BY <1>1, <1>2, <2>1, <2>5 DEF Less
  <2>7. ASSUME NEW d \in 2..Len(heap), d \div 2 = hole PROVE Ranks[c] <= Ranks[d]
    <3>1. d \in DOMAIN heap /\ (d = 2 * hole \/ d = 2 * hole + 1)
      BY <1>1, <2>3, <2>7, ChildOf
    <3>2. d = c \/ d \in Children(hole) \ {c}
      BY <3>1 DEF Children
    <3>3. Ranks[c] \in Nat /\ Ranks[d] \in Nat
      BY <1>1, <2>5, <3>1
    <3> QED BY <1>1, <1>2, <2>1, <2>5, <3>1, <3>2, <3>3 DEF Less
  <2>8. DownOrdered(Ranks, Len(heap), hole)
    BY <2>2 DEF IInv, InOrder
  <2>9. DownOrdered(Exchange(Ranks, hole, c), Len(heap), c)
    BY <1>1, <2>4, <2>5, <2>6, <2>7, <2>8, DownStep
  <2>10. Ranks' = Exchange(Ranks, hole, c) /\ Len(heap') = Len(heap)
    BY <2>1, <2>2, <2>5, SwapEffect DEF IInv
  <2>11. InOrder'
    BY <2>2, <2>1, <2>9, <2>10 DEF InOrder
  <2> QED BY <1>3, <2>1, <2>2, <2>5, <2>11
<1> QED BY <1>4, <1>5

(* Before the first push nothing stands and nothing is written.              *)
Unused == heap = <<>> /\ output = <<>> /\ next = 1 /\ hole = 1 /\ at \in {"parse", "uniq", "push"}

(* Then the parts of the invariant about the heap hold.                      *)
LEMMA Quiet == Unused => NoneTwice /\ Progress /\ InOrder /\ Merged
<1> SUFFICES ASSUME Unused PROVE NoneTwice /\ Progress /\ InOrder /\ Merged
  OBVIOUS
<1>1. DOMAIN heap = {} /\ DOMAIN output = {} /\ Len(heap) = 0 /\ output = <<>> /\ at # "pop"
  BY DEF Unused
<1>2. Standing = {}
  BY <1>1 DEF Standing
<1>3. \A b \in DOMAIN batches : ~(b < next) \/ \A i \in DOMAIN batches[b] : Written(At(b, i))
  BY DEF Unused, Written
<1>4. NoneTwice
  BY <1>1 DEF NoneTwice
<1>5. Progress
  BY <1>1, <1>2, <1>3 DEF Progress
<1>6. InOrder
  BY <1>1 DEF InOrder, UpOrdered, DownOrdered
<1>7. Merged
  BY <1>1, <1>2 DEF Merged, OutputSorted
<1> QED BY <1>4, <1>5, <1>6, <1>7

(* The LineVecs that are received are as line_vec_uniq leaves them.          *)
LEMMA ReceivingKeeps ==
  ASSUME IInv, (\E n \in Lines : Push(n)) \/ Sort \/ Uniq \/ Receive \/ Received
  PROVE  IInv'
<1>1. Unused'
  BY DEF IInv, Typed, Unused, Push, Sort, Uniq, Receive, Received, merging
<1>2. NoneTwice' /\ Progress' /\ InOrder' /\ Merged'
  <2>1. Unused' => NoneTwice' /\ Progress' /\ InOrder' /\ Merged'
    BY Quiet, PTL
  <2> QED BY <1>1, <2>1
<1>3. CASE (\E n \in Lines : Push(n)) \/ Sort \/ Uniq
  <2>1. /\ UNCHANGED <<batches, sources, heap, hole, next, entry, output>>
        /\ at' \in {"parse", "uniq"} /\ at \in {"parse", "uniq"} /\ Len(batches) < N
    BY <1>3 DEF Push, Sort, Uniq, merging, IInv, Typed
  <2>2. InPlace'
    <3>1. ASSUME NEW n \in Lines, Push(n) PROVE InPlace'
      <4>1. n \in Nat
        BY KWayMergeAssumption
      <4> QED BY <3>1, <4>1 DEF Push, IInv, AllKept, InPlace
    <3> QED BY <1>3, <3>1, SortEffect, UniqEffect DEF IInv, AllKept
  <2>3. AllKept'
    BY <2>1, <2>2 DEF IInv, AllKept, Kept
  <2>4. Typed'
    BY <2>1 DEF IInv, Typed
  <2> QED BY <1>2, <2>3, <2>4 DEF IInv
<1>4. CASE Receive
  <2> DEFINE v == SubSeq(vec, 1, kept)
             s == Range(made)
  <2>1. /\ batches' = Append(batches, v) /\ sources' = Append(sources, s)
        /\ vec' = <<>> /\ made' = <<>> /\ read' = 0 /\ kept' = 0
        /\ at = "uniq" /\ at' = "parse" /\ read = Len(vec) /\ Len(batches) < N
        /\ UNCHANGED <<heap, hole, next, entry, output>>
    BY <1>4 DEF Receive, merging, IInv, Typed
  <2>2. Kept(v, s) /\ s \in SUBSET Nat /\ v \in Seq(Nat)
    BY <2>1, UniqKeeps DEF IInv, AllKept, Kept
  <2> HIDE DEF v, s
  <2>3. /\ batches' \in Seq(Seq(Nat)) /\ Len(batches') = Len(batches) + 1
        /\ sources' \in Seq(SUBSET Nat) /\ Len(sources') = Len(sources) + 1
    BY <2>1, <2>2 DEF IInv, AllKept, Typed
  <2>4. \A b \in DOMAIN batches' : Kept(batches'[b], sources'[b])
    <3> SUFFICES ASSUME NEW b \in DOMAIN batches' PROVE Kept(batches'[b], sources'[b])
      OBVIOUS
    <3>1. /\ batches \in Seq(Seq(Nat)) /\ sources \in Seq(SUBSET Nat) /\ Len(sources) = Len(batches)
      BY DEF IInv, AllKept, Typed
    <3>2. CASE b \in DOMAIN batches
      <4>1. batches'[b] = batches[b] /\ sources'[b] = sources[b]
        BY <2>1, <2>2, <3>1, <3>2
      <4> QED BY <3>2, <4>1 DEF IInv, AllKept
    <3>3. CASE b = Len(batches) + 1
      <4>1. batches'[b] = v
        BY <2>1, <2>2, <3>1, <3>3
      <4>2. sources'[b] = s
        BY <2>1, <2>2, <3>1, <3>3
      <4> QED BY <2>2, <4>1, <4>2
    <3>4. b \in DOMAIN batches \/ b = Len(batches) + 1
      BY <2>3, <3>1
    <3> QED BY <3>2, <3>3, <3>4
  <2>5. InPlace'
    BY <2>1 DEF InPlace
  <2>6. AllKept'
    BY <2>3, <2>4, <2>5 DEF IInv, AllKept
  <2>7. Typed'
    <3>1. Len(batches') <= N /\ next' <= Len(batches') + 1
      BY <2>1, <2>3, KWayMergeAssumption DEF IInv, Typed
    <3> QED BY <2>1, <2>3, <3>1 DEF IInv, Typed
  <2> QED BY <1>2, <2>6, <2>7 DEF IInv
<1>5. CASE Received
  <2>1. at' = "push" /\ UNCHANGED <<vec, made, read, kept, batches, sources, heap, hole, next, entry, output>>
    BY <1>5 DEF Received, received, lineVec, merging
  <2>2. Typed' /\ AllKept'
    BY <1>5, <2>1 DEF IInv, Typed, AllKept, InPlace, Kept, Received
  <2> QED BY <1>2, <2>2 DEF IInv
<1> QED BY <1>3, <1>4, <1>5

(* The entries of the heap. *)
Entries == {heap[i] : i \in DOMAIN heap}

(* When heapify is through, the heap is in order.                            *)
LEMMA Settles ==
  ASSUME IInv, (at = "push" /\ ~Rises) \/ (at = "pop" /\ ~Sinks)
  PROVE  Ordered(Ranks, Len(heap))
<1>1. /\ Len(heap) \in Nat /\ DOMAIN heap = 1..Len(heap) /\ Ranks \in [1..Len(heap) -> Nat]
      /\ \A i \in 1..Len(heap) : Ranks[i] = LineAt(heap[i])
  BY RanksType DEF IInv
<1>2. hole \in Nat \ {0}
  BY DEF IInv, Typed
<1>3. CASE at = "push" /\ ~Rises
  <2>1. UpOrdered(Ranks, Len(heap), hole)
    BY <1>3 DEF IInv, InOrder
  <2>2. hole \in 2..Len(heap) => ~(Ranks[hole] < Ranks[hole \div 2])
    <3> SUFFICES ASSUME hole \in 2..Len(heap) PROVE ~(Ranks[hole] < Ranks[hole \div 2])
      OBVIOUS
    <3>1. hole \in 1..Len(heap) /\ hole \div 2 \in 1..Len(heap)
      BY <1>1, Parent
    <3> QED BY <1>1, <1>3, <3>1 DEF Rises, Less
  <2> QED BY <1>1, <1>2, <2>1, <2>2, Settled
<1>4. CASE at = "pop" /\ ~Sinks
  <2>1. DownOrdered(Ranks, Len(heap), hole)
    BY <1>4 DEF IInv, InOrder
  <2>2. \A c \in 2..Len(heap) : c \div 2 = hole => ~(Ranks[c] < Ranks[hole])
    <3> SUFFICES ASSUME NEW c \in 2..Len(heap), c \div 2 = hole PROVE ~(Ranks[c] < Ranks[hole])
      OBVIOUS
    <3>1. c \in 1..Len(heap) /\ c \div 2 \in 1..Len(heap)
      BY <1>1, Parent
    <3>2. c = 2 * hole \/ c = 2 * hole + 1
      BY <1>2, ChildOf
    <3>3. c \in Children(hole)
      BY <1>1, <3>1, <3>2 DEF Children
    <3> QED BY <1>1, <1>4, <3>1, <3>3 DEF Sinks, Less
  <2> QED BY <1>1, <1>2, <2>1, <2>2, Settled
<1> QED BY <1>3, <1>4

(* What heap_push does before the entry rises.                               *)
LEMMA PushEffect ==
  ASSUME Typed, Progress, NoneTwice, Ordered(Ranks, Len(heap)),
         NEW e \in EntryType, e \notin Entries, LineAt(e) \in Nat,
         HeapPush(e), UNCHANGED batches
  PROVE  /\ heap' \in Seq(EntryType) /\ hole' \in Nat \ {0} /\ hole' = Len(heap')
         /\ Entries' = Entries \cup {e}
         /\ \A i, j \in DOMAIN heap' : heap'[i] = heap'[j] => i = j
         /\ UpOrdered(Ranks', Len(heap'), hole')
<1>1. /\ Len(heap) \in Nat /\ DOMAIN heap = 1..Len(heap) /\ Ranks \in [1..Len(heap) -> Nat]
      /\ \A i \in 1..Len(heap) : Ranks[i] = LineAt(heap[i])
  BY RanksType
<1>2. heap' = Append(heap, e) /\ hole' = Len(heap) + 1 /\ heap \in Seq(EntryType)
  BY DEF HeapPush, Typed
<1>3. /\ heap' \in Seq(EntryType) /\ Len(heap') = Len(heap) + 1
      /\ DOMAIN heap' = DOMAIN heap \cup {Len(heap) + 1}
      /\ heap'[Len(heap) + 1] = e /\ \A i \in DOMAIN heap : heap'[i] = heap[i]
  BY <1>1, <1>2
<1>4. Entries' = Entries \cup {e}
  <2>1. Entries' \subseteq Entries \cup {e}
    BY <1>3 DEF Entries
  <2>2. Entries \cup {e} \subseteq Entries'
    BY <1>3 DEF Entries
  <2> QED BY <2>1, <2>2
<1>5. ASSUME NEW i \in DOMAIN heap', NEW j \in DOMAIN heap', heap'[i] = heap'[j] PROVE i = j
  <2>1. \A k \in DOMAIN heap : heap[k] # e
    BY DEF Entries
  <2> QED BY <1>3, <1>5, <2>1 DEF NoneTwice
<1>6. Ranks' \in [1..(Len(heap) + 1) -> Nat] /\ \A i \in 1..Len(heap) : Ranks'[i] = Ranks[i]
  <2>1. Ranks' = [i \in DOMAIN heap' |-> LineAt(heap'[i])]
    BY DEF Ranks, LineAt
  <2>2. \A i \in DOMAIN heap' : LineAt(heap'[i]) \in Nat
    BY <1>1, <1>3
  <2>3. DOMAIN heap' = 1..(Len(heap) + 1)
    BY <1>2, <1>3
  <2> QED BY <1>1, <1>3, <2>1, <2>2, <2>3
<1>7. UpOrdered(Ranks', Len(heap) + 1, Len(heap) + 1)
  BY <1>1, <1>6, PushedLast
<1> QED BY <1>1, <1>2, <1>3, <1>4, <1>5, <1>7

(* What heap_pop does before the entry sinks.                                *)
LEMMA PopEffect ==
  ASSUME Typed, Progress, NoneTwice, Ordered(Ranks, Len(heap)), heap # <<>>,
         HeapPop, UNCHANGED batches
  PROVE  /\ heap' \in Seq(EntryType) /\ hole' = 1
         /\ Entries = Entries' \cup {heap[1]} /\ heap[1] \in Entries
         /\ \A i, j \in DOMAIN heap' : heap'[i] = heap'[j] => i = j
         /\ \A i \in DOMAIN heap' : heap'[i] # heap[1]
         /\ DownOrdered(Ranks', Len(heap'), 1)
<1> DEFINE n == Len(heap)
           moved == [heap EXCEPT ![1] = heap[n]]
<1>1. /\ n \in Nat /\ DOMAIN heap = 1..n /\ Ranks \in [1..n -> Nat]
      /\ \A i \in 1..n : Ranks[i] = LineAt(heap[i])
  BY RanksType
<1>2. n \in Nat \ {0} /\ 1 \in DOMAIN heap /\ n \in DOMAIN heap /\ heap \in Seq(EntryType)
  BY <1>1 DEF Typed
<1>3. heap' = SubSeq(moved, 1, n - 1) /\ hole' = 1
  BY DEF HeapPop, MoveLastToTop
<1>4. /\ moved \in Seq(EntryType) /\ Len(moved) = n
      /\ moved[1] = heap[n] /\ \A i \in 2..n : moved[i] = heap[i]
  BY <1>1, <1>2
<1>5. /\ heap' \in Seq(EntryType) /\ Len(heap') = n - 1 /\ DOMAIN heap' = 1..(n - 1)
      /\ \A i \in 1..(n - 1) : heap'[i] = moved[i]
  <2> HIDE DEF moved, n
  <2> QED BY <1>2, <1>3, <1>4
<1>6. /\ \A i \in 2..(n - 1) : heap'[i] = heap[i]
      /\ 1 \in DOMAIN heap' => heap'[1] = heap[n]
  BY <1>2, <1>4, <1>5
<1> HIDE DEF moved, n
<1>7. \A i \in DOMAIN heap' : \E k \in DOMAIN heap : heap'[i] = heap[k] /\ k = (IF i = 1 THEN n ELSE i) /\ k # 1
  BY <1>1, <1>2, <1>5, <1>6
<1>8. Entries = Entries' \cup {heap[1]}
  <2>1. Entries' \subseteq Entries
    BY <1>7 DEF Entries
  <2>2. ASSUME NEW k \in DOMAIN heap, k # 1 PROVE heap[k] \in Entries'
    <3>1. CASE k = n
      <4>1. 1 \in DOMAIN heap'
        BY <1>1, <1>2, <1>5, <2>2, <3>1
      <4> QED BY <1>6, <3>1, <4>1 DEF Entries
    <3>2. CASE k # n
      <4>1. k \in DOMAIN heap' /\ k \in 2..(n - 1)
        BY <1>1, <1>2, <1>5, <2>2, <3>2
      <4> QED BY <1>6, <4>1 DEF Entries
    <3> QED BY <3>1, <3>2
  <2>3. Entries \subseteq Entries' \cup {heap[1]}
    BY <2>2 DEF Entries
  <2>4. heap[1] \in Entries
    BY <1>2 DEF Entries
  <2> QED BY <2>1, <2>3, <2>4
<1>9. ASSUME NEW i \in DOMAIN heap', NEW j \in DOMAIN heap', heap'[i] = heap'[j] PROVE i = j
  <2>1. PICK k \in DOMAIN heap : heap'[i] = heap[k] /\ k = (IF i = 1 THEN n ELSE i)
    BY <1>7
  <2>2. PICK m \in DOMAIN heap : heap'[j] = heap[m] /\ m = (IF j = 1 THEN n ELSE j)
    BY <1>7
  <2>3. k = m
    BY <1>9, <2>1, <2>2 DEF NoneTwice
  <2>4. i \in 1..(n - 1) /\ j \in 1..(n - 1)
    BY <1>5
  <2>5. n \in Nat /\ i \in 1..(n - 1) /\ j \in 1..(n - 1) /\ k = m
    BY <1>1, <2>3, <2>4
  <2>6. k = (IF i = 1 THEN n ELSE i) /\ k = (IF j = 1 THEN n ELSE j)
    BY <2>1, <2>2, <2>3
  <2> QED BY <2>5, <2>6
<1>10. \A i \in DOMAIN heap' : heap'[i] # heap[1]
  BY <1>2, <1>7 DEF NoneTwice
<1>11. Ranks' \in [1..(n - 1) -> Nat] /\ \A i \in 2..(n - 1) : Ranks'[i] = Ranks[i]
  <2>1. Ranks' = [i \in 1..(n - 1) |-> LineAt(heap'[i])]
    BY <1>5 DEF Ranks, LineAt
  <2>2. ASSUME NEW i \in 1..(n - 1) PROVE LineAt(heap'[i]) \in Nat
    <3>1. PICK k \in DOMAIN heap : heap'[i] = heap[k]
      BY <1>5, <1>7
    <3>2. k \in 1..n /\ Ranks[k] = LineAt(heap[k])
      BY <1>1
    <3>3. Ranks[k] \in Nat
      BY <1>1, <3>2
    <3> QED BY <3>1, <3>2, <3>3
  <2>3. \A i \in 2..(n - 1) : i \in 1..n /\ i \in 1..(n - 1)
    BY <1>1
  <2> QED BY <1>1, <1>6, <2>1, <2>2, <2>3
<1>12. DownOrdered(Ranks', n - 1, 1)
  BY <1>1, <1>2, <1>11, PoppedTop DEF n
<1> QED BY <1>2, <1>3, <1>5, <1>8, <1>9, <1>10, <1>12 DEF Entries

(* The first line of the next batch goes on the heap.                        *)
LEMMA PopulateKeeps ==
  ASSUME IInv, Populate
  PROVE  IInv'
<1> DEFINE e0 == At(next, 1)
<1>1. /\ at = "push" /\ ~Rises /\ next <= Len(batches) /\ next' = next + 1
      /\ UNCHANGED <<at, lineVec, batches, sources, entry, output>>
  BY DEF Populate, received
<1>2. /\ next \in Nat \ {0} /\ batches \in Seq(Seq(Nat)) /\ next \in DOMAIN batches
      /\ DOMAIN batches \subseteq Nat
  BY <1>1 DEF IInv, Typed
<1>3. output = <<>> /\ \A f : ~Written(f) /\ ~Written(f)'
  BY <1>1, <1>2 DEF IInv, Progress, Written
<1>4. Ordered(Ranks, Len(heap))
  BY <1>1, Settles
<1>5. \A f : Valid(f) => Valid(f)'
  BY <1>1, <1>2 DEF Valid
<1>6. Standing = Entries /\ Standing' = Entries'
  BY <1>1 DEF Standing, Entries
<1>7. AllKept'
  BY <1>1, SameKept DEF IInv
<1>8. CASE batches[next] = <<>>
  <2>1. UNCHANGED <<heap, hole>>
    BY <1>8 DEF Populate
  <2>2. Standing' = Standing /\ NoneTwice' /\ InOrder' /\ Typed'
    <3>1. Standing' = Standing
      BY <1>1, <2>1 DEF Standing
    <3>2. Ranks' = Ranks
      BY <1>1, <2>1 DEF Ranks, LineAt
    <3>3. NoneTwice' /\ InOrder'
      BY <1>1, <2>1, <3>2 DEF IInv, NoneTwice, InOrder
    <3>4. next' \in Nat \ {0} /\ next' <= Len(batches') + 1
      BY <1>1, <1>2
    <3>5. Typed'
      BY <1>1, <2>1, <3>4 DEF IInv, Typed
    <3> QED BY <3>1, <3>3, <3>5
  <2>3. Progress'
    <3>1. \A f \in Standing' : Valid(f)'
      BY <1>5, <2>2 DEF IInv, Progress
    <3>2. \A f \in Standing' : \A i \in DOMAIN batches'[f.batch] : Written(At(f.batch, i))' <=> i < f.idx
      BY <1>1, <1>3, <2>2 DEF IInv, Progress
    <3>3. \A b \in DOMAIN batches' : b < next' =>
            (\A i \in DOMAIN batches'[b] : Written(At(b, i))') \/ \E f \in Standing' : f.batch = b
      <4> SUFFICES ASSUME NEW b \in DOMAIN batches, b < next + 1
                   PROVE  (\A i \in DOMAIN batches[b] : Written(At(b, i))') \/ \E f \in Standing : f.batch = b
        BY <1>1, <2>2
      <4>1. CASE b = next
        BY <1>8, <4>1
      <4>2. CASE b < next
        BY <1>3, <4>2 DEF IInv, Progress
      <4> QED BY <1>2, <4>1, <4>2
    <3> QED BY <1>1, <1>3, <2>2, <3>1, <3>2, <3>3 DEF IInv, Progress
  <2>4. Merged'
    BY <1>1, <1>3 DEF Merged, OutputSorted
  <2> QED BY <1>7, <2>2, <2>3, <2>4 DEF IInv
<1>9. CASE batches[next] # <<>>
  <2>1. HeapPush(e0)
    BY <1>9 DEF Populate, At
  <2>2. batches[next] \in Seq(Nat) /\ 1 \in DOMAIN batches[next]
    BY <1>2, <1>9
  <2>3. e0 \in EntryType /\ e0.batch = next /\ e0.idx = 1
    BY <1>2 DEF EntryType, At
  <2>4. LineAt(e0) \in Nat
    BY <2>2, <2>3 DEF LineAt
  <2>5. \A f \in Entries : Valid(f) /\ f.batch < next /\ f.batch \in Nat
    BY <1>2, <1>6 DEF IInv, Progress, Valid
  <2>6. e0 \notin Entries
    BY <1>2, <2>3, <2>5
  <2> HIDE DEF e0
  <2>7. /\ heap' \in Seq(EntryType) /\ hole' \in Nat \ {0} /\ hole' = Len(heap')
        /\ Entries' = Entries \cup {e0}
        /\ \A i, j \in DOMAIN heap' : heap'[i] = heap'[j] => i = j
        /\ UpOrdered(Ranks', Len(heap'), hole')
    BY <1>1, <1>4, <2>1, <2>3, <2>4, <2>6, PushEffect DEF IInv
  <2>8. Standing' = Standing \cup {e0}
    BY <1>6, <2>7
  <2>9. Typed'
    <3>1. next' \in Nat \ {0} /\ next' <= Len(batches') + 1 /\ hole' <= Len(heap')
      BY <1>1, <1>2, <2>7
    <3> QED BY <1>1, <2>7, <3>1 DEF IInv, Typed
  <2>10. NoneTwice' /\ InOrder'
    BY <1>1, <2>7 DEF NoneTwice, InOrder
  <2>11. Progress'
    <3>1. ASSUME NEW f, f = e0 PROVE Valid(f)'
      BY <1>1, <1>2, <2>2, <2>3, <3>1 DEF Valid
    <3>2. \A f \in Standing' : Valid(f)'
      BY <1>5, <2>8, <3>1 DEF IInv, Progress
    <3>3. \A f, g \in Standing' : f.batch = g.batch => f = g
      BY <1>2, <1>6, <2>3, <2>5, <2>8 DEF IInv, Progress
    <3>4. \A f \in Standing' : \A i \in DOMAIN batches'[f.batch] : Written(At(f.batch, i))' <=> i < f.idx
      <4> SUFFICES ASSUME NEW f \in Standing', NEW i \in DOMAIN batches[f.batch]
                   PROVE  ~(i < f.idx)
        BY <1>1, <1>3
      <4>1. CASE f \in Standing
        BY <1>3, <4>1 DEF IInv, Progress
      <4>2. CASE f = e0
        <5>1. i \in Nat \ {0}
          BY <2>2, <2>3, <4>2
        <5> QED BY <2>3, <4>2, <5>1
      <4> QED BY <2>8, <4>1, <4>2
    <3>5. \A b \in DOMAIN batches' : b < next' =>
            (\A i \in DOMAIN batches'[b] : Written(At(b, i))') \/ \E f \in Standing' : f.batch = b
      <4> SUFFICES ASSUME NEW b \in DOMAIN batches, b < next + 1
                   PROVE  (\A i \in DOMAIN batches[b] : Written(At(b, i))') \/ \E f \in Standing' : f.batch = b
        BY <1>1
      <4>1. CASE b = next
        BY <2>3, <2>8, <4>1
      <4>2. CASE b < next
        BY <1>3, <2>8, <4>2 DEF IInv, Progress
      <4> QED BY <1>2, <4>1, <4>2
    <3> QED BY <1>1, <1>3, <3>2, <3>3, <3>4, <3>5 DEF Progress
  <2>12. Merged'
    BY <1>1, <1>3 DEF Merged, OutputSorted
  <2> QED BY <1>7, <2>9, <2>10, <2>11, <2>12 DEF IInv
<1> QED BY <1>8, <1>9

(* The top entry of the heap stands first of all.                            *)
LEMMA PopKeeps ==
  ASSUME IInv, Pop
  PROVE  IInv'
<1>1. /\ at = "push" /\ ~Rises /\ next > Len(batches) /\ heap # <<>> /\ entry' = heap[1]
      /\ HeapPop /\ at' = "pop"
      /\ UNCHANGED <<lineVec, batches, sources, next, output>>
  BY DEF Pop, received
<1>2. Ordered(Ranks, Len(heap))
  BY <1>1, Settles
<1>3. /\ heap' \in Seq(EntryType) /\ hole' = 1
      /\ Entries = Entries' \cup {heap[1]} /\ heap[1] \in Entries
      /\ \A i, j \in DOMAIN heap' : heap'[i] = heap'[j] => i = j
      /\ \A i \in DOMAIN heap' : heap'[i] # heap[1]
      /\ DownOrdered(Ranks', Len(heap'), 1)
  BY <1>1, <1>2, PopEffect DEF IInv
<1>4. Standing = Entries /\ Standing' = Entries' \cup {entry'}
  BY <1>1 DEF Standing, Entries
<1>5. Standing' = Standing
  BY <1>1, <1>3, <1>4
<1>6. entry' \in EntryType
  BY <1>1, <1>3, <1>4 DEF IInv, Progress, Valid
<1>7. Typed'
  BY <1>1, <1>3, <1>6 DEF IInv, Typed
<1>8. AllKept'
  BY <1>1, SameKept DEF IInv
<1>9. NoneTwice' /\ InOrder'
  BY <1>1, <1>3 DEF NoneTwice, InOrder
<1>10. Progress'
  <2>1. \A e : Valid(e)' <=> Valid(e)
    BY <1>1 DEF Valid
  <2>2. \A e : Written(e)' <=> Written(e)
    BY <1>1 DEF Written
  <2>3. \A e \in Standing' : Valid(e)'
    BY <1>5, <2>1 DEF IInv, Progress
  <2>4. \A e, f \in Standing' : e.batch = f.batch => e = f
    BY <1>5 DEF IInv, Progress
  <2>5. \A k \in DOMAIN output' : Valid(output[k])'
    BY <1>1 DEF IInv, Progress, Valid
  <2>6. \A j, k \in DOMAIN output' : output'[j] = output'[k] => j = k
    BY <1>1 DEF IInv, Progress
  <2>7. \A e \in Standing' : \A i \in DOMAIN batches'[e.batch] : Written(At(e.batch, i))' <=> i < e.idx
    BY <1>1, <1>5, <2>2 DEF IInv, Progress
  <2>8. \A b \in DOMAIN batches' : b < next' =>
          (\A i \in DOMAIN batches'[b] : Written(At(b, i))') \/ \E e \in Standing' : e.batch = b
    BY <1>1, <1>5, <2>2 DEF IInv, Progress
  <2> QED BY <1>1, <2>3, <2>4, <2>5, <2>6, <2>7, <2>8 DEF Progress
<1>11. Merged'
  <2>1. \A e : LineAt(e)' = LineAt(e)
    BY <1>1 DEF LineAt
  <2>2. OutputSorted'
    BY <1>1 DEF IInv, Merged, OutputSorted, LineAt
  <2>3. \A k \in DOMAIN output' : \A e \in Standing' : LineAt(output[k])' <= LineAt(e)'
    BY <1>1, <1>5 DEF IInv, Merged, LineAt
  <2>4. \A e \in Standing' : LineAt(entry)' <= LineAt(e)'
    <3>1. /\ Len(heap) \in Nat /\ DOMAIN heap = 1..Len(heap) /\ Ranks \in [1..Len(heap) -> Nat]
          /\ \A i \in 1..Len(heap) : Ranks[i] = LineAt(heap[i])
      BY RanksType DEF IInv
    <3>2. \A i \in 1..Len(heap) : Ranks[1] <= Ranks[i]
      BY <1>2, <3>1, TopLeast
    <3>3. 1 \in 1..Len(heap)
      BY <1>1, <3>1 DEF IInv, Typed
    <3>4. \A e \in Entries : LineAt(heap[1]) <= LineAt(e)
      BY <3>1, <3>2, <3>3 DEF Entries
    <3> QED BY <1>1, <1>4, <1>5, <3>4 DEF LineAt
  <2> QED BY <2>2, <2>3, <2>4 DEF Merged
<1> QED BY <1>7, <1>8, <1>9, <1>10, <1>11 DEF IInv

(* The line of the entry popped last is written, and the next one of its     *)
(* batch stands instead.                                                     *)
LEMMA WriteKeeps ==
  ASSUME IInv, Write
  PROVE  IInv'
<1>1. /\ at = "pop" /\ ~Sinks /\ output' = Append(output, entry) /\ at' = "push"
      /\ UNCHANGED <<lineVec, batches, sources, next, entry>>
  BY DEF Write, received
<1>2. Ordered(Ranks, Len(heap))
  BY <1>1, Settles
<1>3. Standing = Entries \cup {entry} /\ Standing' = Entries' /\ entry \notin Entries
  BY <1>1 DEF Standing, Entries, IInv, NoneTwice
<1>4. /\ Valid(entry) /\ entry \in EntryType /\ entry.batch \in DOMAIN batches /\ entry.batch < next
      /\ entry.idx \in DOMAIN batches[entry.batch]
      /\ batches[entry.batch] \in Seq(Nat) /\ entry.idx \in Nat \ {0} /\ entry.batch \in Nat
      /\ Kept(batches[entry.batch], sources[entry.batch])
  <2>1. Valid(entry)
    BY <1>3 DEF IInv, Progress
  <2>2. /\ entry \in EntryType /\ entry.batch \in DOMAIN batches /\ entry.batch < next
        /\ entry.idx \in DOMAIN batches[entry.batch]
    BY <2>1 DEF Valid
  <2>3. batches[entry.batch] \in Seq(Nat)
    BY <2>2 DEF IInv, Typed
  <2>4. entry.idx \in Nat \ {0} /\ entry.batch \in Nat
    BY <2>2, <2>3 DEF EntryType
  <2>5. Kept(batches[entry.batch], sources[entry.batch])
    BY <2>2 DEF IInv, AllKept
  <2> QED BY <2>1, <2>2, <2>3, <2>4, <2>5
<1>5. entry = At(entry.batch, entry.idx)
  BY <1>4 DEF EntryType, At
<1>6. \A f : Valid(f)' <=> Valid(f)
  BY <1>1 DEF Valid
<1>7. \A f : LineAt(f)' = LineAt(f)
  BY <1>1 DEF LineAt
<1>8. \A f \in Standing : Valid(f) /\ LineAt(f) \in Nat
  BY LineIsNat DEF IInv, Progress
<1>9. /\ output \in Seq(EntryType) /\ output' \in Seq(EntryType)
      /\ Len(output) \in Nat /\ Len(output') = Len(output) + 1
      /\ DOMAIN output' = DOMAIN output \cup {Len(output) + 1}
      /\ DOMAIN output = 1..Len(output) /\ output' # <<>>
      /\ output'[Len(output) + 1] = entry
      /\ \A k \in DOMAIN output : output'[k] = output[k]
  <2>1. output \in Seq(EntryType) /\ Len(output) \in Nat /\ DOMAIN output = 1..Len(output)
    BY DEF IInv, Typed
  <2>2. output' \in Seq(EntryType) /\ Len(output') = Len(output) + 1
    BY <1>1, <1>4, <2>1
  <2>3. DOMAIN output' = DOMAIN output \cup {Len(output) + 1}
    BY <2>1, <2>2
  <2>4. output'[Len(output) + 1] = entry /\ \A k \in DOMAIN output : output'[k] = output[k]
    BY <1>1, <1>4, <2>1
  <2>5. output' # <<>>
    BY <2>1, <2>2
  <2> QED BY <2>1, <2>2, <2>3, <2>4, <2>5
<1>10. \A f : Written(f)' <=> Written(f) \/ f = entry
  BY <1>9 DEF Written
<1>11. AllKept'
  BY <1>1, SameKept DEF IInv
<1>12. ~Written(entry)
  BY <1>3, <1>4, <1>5 DEF IInv, Progress
<1>13. \A k \in DOMAIN output' : Valid(output[k])'
  <2>1. \A k \in DOMAIN output' : Valid(output'[k])
    BY <1>4, <1>9 DEF IInv, Progress
  <2> QED BY <1>1, <2>1 DEF Valid
<1>14. \A j, k \in DOMAIN output' : output'[j] = output'[k] => j = k
  BY <1>9, <1>12 DEF IInv, Progress, Written
<1>15. \A f \in Entries : f.batch # entry.batch
  BY <1>3 DEF IInv, Progress
<1>16. \A f \in Entries : \A i \in DOMAIN batches[f.batch] : Written(At(f.batch, i))' <=> i < f.idx
  <2>1. \A f \in Entries : \A i : At(f.batch, i) # entry
    BY <1>15 DEF At
  <2> QED BY <1>3, <1>10, <2>1 DEF IInv, Progress
<1>17. \A b \in {entry.batch} : \A i \in DOMAIN batches[b] : Written(At(b, i))' <=> i <= entry.idx
  <2> SUFFICES ASSUME NEW i \in DOMAIN batches[entry.batch]
               PROVE  Written(At(entry.batch, i)) \/ At(entry.batch, i) = entry <=> i <= entry.idx
    BY <1>10
  <2>1. Written(At(entry.batch, i)) <=> i < entry.idx
    BY <1>3 DEF IInv, Progress
  <2>2. At(entry.batch, i) = entry <=> i = entry.idx
    BY <1>5 DEF At
  <2>3. i \in Nat
    BY <1>4
  <2> QED BY <1>4, <2>1, <2>2, <2>3
<1>18. \A b \in DOMAIN batches : b < next /\ b # entry.batch =>
         (\A i \in DOMAIN batches[b] : Written(At(b, i))') \/ \E f \in Entries : f.batch = b
  BY <1>3, <1>10 DEF IInv, Progress
<1>19. OutputSorted'
  <2> SUFFICES ASSUME NEW i \in DOMAIN output', NEW j \in DOMAIN output', i <= j
               PROVE  LineAt(output'[i]) <= LineAt(output'[j])
    BY <1>1 DEF OutputSorted, LineAt
  <2>1. CASE j \in DOMAIN output
    <3>1. i \in DOMAIN output
      BY <1>9, <2>1
    <3> QED BY <1>9, <2>1, <3>1 DEF IInv, Merged, OutputSorted
  <2>2. CASE j = Len(output) + 1 /\ i \in DOMAIN output
    BY <1>3, <1>9, <2>2 DEF IInv, Merged
  <2>3. CASE j = Len(output) + 1 /\ i = Len(output) + 1
    <3>1. LineAt(entry) \in Nat
      BY <1>3, <1>8
    <3> QED BY <1>9, <2>3, <3>1
  <2> QED BY <1>9, <2>1, <2>2, <2>3
<1>20. \A k \in DOMAIN output' : \A f \in Entries : LineAt(output'[k]) <= LineAt(f)
  BY <1>1, <1>3, <1>9 DEF IInv, Merged
<1>21. next > Len(batches)
  BY <1>1 DEF IInv, Progress
<1>22. CASE HasMore(entry)
  <2> DEFINE f0 == NextOf(entry)
  <2>1. HeapPush(f0)
    BY <1>22 DEF Write
  <2>2. f0 \in EntryType /\ f0.batch = entry.batch /\ f0.idx = entry.idx + 1
    BY <1>4 DEF EntryType, NextOf
  <2>3. f0.idx \in DOMAIN batches[entry.batch] /\ LineAt(entry) < LineAt(f0) /\ LineAt(f0) \in Nat
    <3>1. entry.idx + 1 \in DOMAIN batches[entry.batch] /\ entry.idx < entry.idx + 1
      BY <1>4, <1>22 DEF HasMore
    <3>2. batches[entry.batch][entry.idx] < batches[entry.batch][entry.idx + 1]
      BY <1>4, <3>1 DEF Kept
    <3>3. batches[entry.batch][entry.idx + 1] \in Nat
      BY <1>4, <3>1
    <3> QED BY <2>2, <3>1, <3>2, <3>3 DEF LineAt
  <2> HIDE DEF f0
  <2>4. f0 \notin Entries
    BY <1>15, <2>2
  <2>5. /\ heap' \in Seq(EntryType) /\ hole' \in Nat \ {0} /\ hole' = Len(heap')
        /\ Entries' = Entries \cup {f0}
        /\ \A i, j \in DOMAIN heap' : heap'[i] = heap'[j] => i = j
        /\ UpOrdered(Ranks', Len(heap'), hole')
    BY <1>1, <1>2, <2>1, <2>2, <2>3, <2>4, PushEffect DEF IInv
  <2>6. Typed'
    BY <1>1, <1>9, <2>5 DEF IInv, Typed
  <2>7. NoneTwice' /\ InOrder'
    BY <1>1, <2>5 DEF NoneTwice, InOrder
  <2>8. Progress'
    <3>1. Valid(f0)
      BY <1>4, <2>2, <2>3 DEF Valid
    <3>2. \A f \in Standing' : Valid(f)'
      BY <1>3, <1>6, <1>8, <2>5, <3>1
    <3>3. \A f, g \in Standing' : f.batch = g.batch => f = g
      BY <1>3, <1>15, <2>2, <2>5 DEF IInv, Progress
    <3>4. \A f \in Standing' : \A i \in DOMAIN batches'[f.batch] : Written(At(f.batch, i))' <=> i < f.idx
      <4> SUFFICES ASSUME NEW f \in Standing', NEW i \in DOMAIN batches[f.batch]
                   PROVE  Written(At(f.batch, i))' <=> i < f.idx
        BY <1>1
      <4>1. CASE f \in Entries
        BY <1>16, <4>1
      <4>2. CASE f = f0
        <5>1. i \in Nat
          BY <1>4, <2>2, <4>2
        <5> QED BY <1>4, <1>17, <2>2, <4>2, <5>1
      <4>3. f \in Entries \/ f = f0
        BY <1>3, <2>5
      <4> QED BY <4>1, <4>2, <4>3
    <3>5. \A b \in DOMAIN batches' : b < next' =>
            (\A i \in DOMAIN batches'[b] : Written(At(b, i))') \/ \E f \in Standing' : f.batch = b
      BY <1>1, <1>3, <1>18, <2>2, <2>5
    <3> QED BY <1>1, <1>13, <1>14, <1>21, <3>2, <3>3, <3>4, <3>5 DEF Progress
  <2>9. Merged'
    <3>1. \A k \in DOMAIN output' : LineAt(output'[k]) <= LineAt(entry)
      BY <1>3, <1>8, <1>9 DEF IInv, Merged
    <3>2. \A k \in DOMAIN output' : LineAt(output'[k]) \in Nat
      <4>1. \A k \in DOMAIN output' : Valid(output'[k])
        BY <1>4, <1>9 DEF IInv, Progress
      <4> QED BY <4>1, LineIsNat DEF IInv
    <3>3. \A k \in DOMAIN output' : LineAt(output'[k]) <= LineAt(f0)
      BY <1>3, <1>8, <2>3, <3>1, <3>2
    <3>4. \A k \in DOMAIN output' : \A f \in Standing' : LineAt(output[k])' <= LineAt(f)'
      BY <1>1, <1>3, <1>20, <2>5, <3>3 DEF LineAt
    <3> QED BY <1>1, <1>19, <3>4 DEF Merged
  <2> QED BY <1>11, <2>6, <2>7, <2>8, <2>9 DEF IInv
<1>23. CASE ~HasMore(entry)
  <2>1. heap' = heap /\ hole' = 1
    BY <1>23 DEF Write
  <2>2. Entries' = Entries /\ Ranks' = Ranks
    BY <1>1, <2>1 DEF Entries, Ranks, LineAt
  <2>3. Typed'
    BY <1>1, <1>9, <2>1 DEF IInv, Typed
  <2>4. NoneTwice' /\ InOrder'
    <3>1. NoneTwice'
      BY <1>1, <2>1 DEF IInv, NoneTwice
    <3>2. UpOrdered(Ranks, Len(heap), 1)
      BY <1>2 DEF Ordered, UpOrdered
    <3> QED BY <1>1, <2>1, <2>2, <3>1, <3>2 DEF InOrder
  <2>5. \A i \in DOMAIN batches[entry.batch] : i <= entry.idx
    BY <1>4, <1>23 DEF HasMore
  <2>6. Progress'
    <3>1. \A f \in Standing' : Valid(f)'
      BY <1>3, <1>6, <1>8, <2>2
    <3>2. \A f, g \in Standing' : f.batch = g.batch => f = g
      BY <1>3, <2>2 DEF IInv, Progress
    <3>3. \A f \in Standing' : \A i \in DOMAIN batches'[f.batch] : Written(At(f.batch, i))' <=> i < f.idx
      BY <1>1, <1>3, <1>16, <2>2
    <3>4. \A b \in DOMAIN batches' : b < next' =>
            (\A i \in DOMAIN batches'[b] : Written(At(b, i))') \/ \E f \in Standing' : f.batch = b
      BY <1>1, <1>3, <1>17, <1>18, <2>2, <2>5
    <3> QED BY <1>1, <1>13, <1>14, <1>21, <3>1, <3>2, <3>3, <3>4 DEF Progress
  <2>7. Merged'
    <3>1. \A k \in DOMAIN output' : \A f \in Standing' : LineAt(output[k])' <= LineAt(f)'
      BY <1>1, <1>3, <1>20, <2>2 DEF LineAt
    <3> QED BY <1>1, <1>19, <3>1 DEF Merged
  <2> QED BY <1>11, <2>3, <2>4, <2>6, <2>7 DEF IInv
<1> QED BY <1>22, <1>23

(* Every step keeps the invariant.                                           *)
LEMMA StepKeeps == IInv /\ [Next]_vars => IInv'
<1> SUFFICES ASSUME IInv, [Next]_vars PROVE IInv'
  OBVIOUS
<1>1. CASE UNCHANGED vars
  <2>1. UNCHANGED <<at, lineVec, batches, sources, heap, hole, next, entry, output>>
    BY <1>1 DEF vars, received, merging
  <2>2. Typed' /\ AllKept' /\ NoneTwice'
    BY <2>1, SameKept DEF IInv, Typed, NoneTwice
  <2>3. Standing' = Standing /\ Ranks' = Ranks
    BY <2>1 DEF Standing, Ranks, LineAt
  <2>4. Progress'
    BY <2>1, <2>3, SameProgress DEF IInv, received
  <2>5. InOrder'
    BY <2>1, <2>3 DEF IInv, InOrder
  <2>6. Merged'
    BY <2>1, <2>3 DEF IInv, Merged, OutputSorted, LineAt
  <2> QED BY <2>2, <2>4, <2>5, <2>6 DEF IInv
<1>2. CASE (\E n \in Lines : Push(n)) \/ Sort \/ Uniq
  BY <1>2, ReceivingKeeps
<1>3. CASE Receive \/ Received
  BY <1>3, ReceivingKeeps
<1>4. CASE HeapifyUp \/ HeapifyDown
  BY <1>4, HeapifyKeeps
<1>5. CASE Populate
  BY <1>5, PopulateKeeps
<1>6. CASE Pop
  BY <1>6, PopKeeps
<1>7. CASE Write
  BY <1>7, WriteKeeps
<1>8. CASE Finished
  BY <1>1, <1>8 DEF Finished
<1> QED BY <1>1, <1>2, <1>3, <1>4, <1>5, <1>6, <1>7, <1>8 DEF Next

(* The inductive invariant: the heap and the entry in hand stand for all     *)
(* that is not written, one entry for a batch, and heapify repairs the order *)
(* at one place at a time.                                                   *)
THEOREM Invariant == Spec => []IInv
<1>1. Init => IInv
  <2> SUFFICES ASSUME Init PROVE IInv
    OBVIOUS
  <2>1. Unused
    BY DEF Init, Unused
  <2>2. Typed
    BY KWayMergeAssumption DEF Init, Typed, EntryType, NoEntry
  <2>3. AllKept
    BY DEF Init, AllKept, InPlace
  <2> QED BY <2>1, <2>2, <2>3, Quiet DEF IInv
<1> QED BY <1>1, StepKeeps, PTL DEF Spec

(* One entry for a batch: the heap array of a->n entries is large enough.    *)
LEMMA HeapFits ==
  ASSUME IInv
  PROVE  /\ \A i, j \in DOMAIN heap : heap[i].batch = heap[j].batch => i = j
         /\ Len(heap) <= N
<1> DEFINE f == [i \in 1..Len(heap) |-> heap[i].batch]
<1>1. Len(heap) \in Nat /\ DOMAIN heap = 1..Len(heap) /\ Len(batches) \in Nat /\ Len(batches) <= N
  BY DEF IInv, Typed
<1>2. \A i \in DOMAIN heap : heap[i] \in Standing /\ heap[i].batch \in DOMAIN batches
  BY DEF Standing, IInv, Progress, Valid
<1>3. \A i, j \in DOMAIN heap : heap[i].batch = heap[j].batch => i = j
  BY <1>2 DEF IInv, Progress, NoneTwice
<1>4. f \in Injection(1..Len(heap), 1..Len(batches))
  <2>1. DOMAIN batches = 1..Len(batches)
    BY DEF IInv, Typed
  <2> QED BY <1>1, <1>2, <1>3, <2>1 DEF Injection, IsInjective
<1>5. Cardinality(1..Len(heap)) <= Cardinality(1..Len(batches))
  <2>1. IsFiniteSet(1..Len(batches))
    BY <1>1, FS_Interval
  <2> QED BY <1>4, <2>1, FS_Injection
<1>6. Cardinality(1..Len(heap)) = Len(heap) /\ Cardinality(1..Len(batches)) = Len(batches)
  <2>1. \A n \in Nat : Cardinality(1..n) = n
    BY FS_Interval
  <2> QED BY <1>1, <2>1
<1> QED BY <1>1, <1>3, <1>5, <1>6, KWayMergeAssumption

(* The heap is in order whenever heapify is through, and it never outgrows   *)
(* the array of a->n entries.                                                *)
THEOREM HeapOrderHolds == Spec => []HeapOrder
<1>1. IInv => HeapOrder
  <2> SUFFICES ASSUME IInv PROVE HeapOrder
    OBVIOUS
  <2>1. /\ Len(heap) \in Nat /\ DOMAIN heap = 1..Len(heap) /\ Ranks \in [1..Len(heap) -> Nat]
        /\ \A i \in 1..Len(heap) : Ranks[i] = LineAt(heap[i])
    BY RanksType DEF IInv
  <2>2. ASSUME (at = "push" /\ ~Rises) \/ (at = "pop" /\ ~Sinks), NEW i \in 2..Len(heap)
        PROVE  ~Less(heap[i], heap[i \div 2])
    <3>1. i \in 1..Len(heap) /\ i \div 2 \in 1..Len(heap)
      BY <2>1, Parent
    <3>2. Ranks[i \div 2] <= Ranks[i]
      BY <2>2, Settles DEF Ordered
    <3> QED BY <2>1, <3>1, <3>2 DEF Less
  <2> QED BY <2>2, HeapFits DEF HeapOrder
<1> QED BY <1>1, Invariant, PTL

(* What is written is sorted at every moment.                                *)
THEOREM OutputSortedHolds == Spec => []OutputSorted
<1>1. IInv => OutputSorted
  BY DEF IInv, Merged
<1> QED BY <1>1, Invariant, PTL

(* At the end each line is written once for each worker that made it.        *)
THEOREM OutputCompleteHolds == Spec => []OutputComplete
<1>1. IInv => OutputComplete
  <2> SUFFICES ASSUME IInv, Done, NEW n \in Lines
               PROVE  Cardinality(Copies(n)) = Cardinality(Sources(n))
    BY DEF OutputComplete
  <2> DEFINE f == [k \in Copies(n) |-> output[k].batch]
  <2>1. Standing = {}
    BY DEF Done, Standing
  <2>2. \A b \in DOMAIN batches : \A i \in DOMAIN batches[b] : Written(At(b, i))
    <3>1. \A b \in DOMAIN batches : b < next
      BY DEF Done, IInv, Typed
    <3> QED BY <2>1, <3>1 DEF IInv, Progress
  <2>3. DOMAIN sources = DOMAIN batches
    BY DEF IInv, Typed, AllKept
  <2>4. \A k \in DOMAIN output : Valid(output[k])
    BY DEF IInv, Progress
  <2>5. \A b \in DOMAIN batches : Kept(batches[b], sources[b])
    BY DEF IInv, AllKept
  <2>6. f \in [Copies(n) -> Sources(n)]
    <3> SUFFICES ASSUME NEW k \in Copies(n) PROVE output[k].batch \in Sources(n)
      OBVIOUS
    <3>1. k \in DOMAIN output /\ LineAt(output[k]) = n /\ Valid(output[k])
      BY <2>4 DEF Copies
    <3>2. n \in sources[output[k].batch]
      BY <2>5, <3>1 DEF Valid, LineAt, Kept
    <3> QED BY <2>3, <3>1, <3>2 DEF Sources, Valid
  <2>7. ASSUME NEW j \in Copies(n), NEW k \in Copies(n), f[j] = f[k] PROVE j = k
    <3>1. /\ j \in DOMAIN output /\ LineAt(output[j]) = n /\ Valid(output[j])
          /\ k \in DOMAIN output /\ LineAt(output[k]) = n /\ Valid(output[k])
          /\ output[j].batch = output[k].batch
      BY <2>4, <2>7 DEF Copies
    <3> DEFINE b == output[j].batch
               v == batches[b]
    <3>2. /\ output[j].idx \in DOMAIN v /\ output[k].idx \in DOMAIN v
          /\ v[output[j].idx] = n /\ v[output[k].idx] = n /\ Kept(v, sources[b])
      BY <2>5, <3>1 DEF Valid, LineAt
    <3>3. output[j].idx = output[k].idx
      <4> HIDE DEF v, b
      <4>1. v \in Seq(Nat) /\ n \in Nat
        BY <3>2, KWayMergeAssumption DEF Kept
      <4>2. output[j].idx \in Nat /\ output[k].idx \in Nat
        BY <3>2, <4>1
      <4>3. \A p, q \in DOMAIN v : p < q => v[p] < v[q]
        BY <3>2 DEF Kept
      <4>4. ~(output[j].idx < output[k].idx) /\ ~(output[k].idx < output[j].idx)
        BY <3>2, <4>1, <4>3
      <4> QED BY <4>2, <4>4
    <3>4. output[j] = output[k]
      BY <3>1, <3>3 DEF Valid, EntryType
    <3> QED BY <3>1, <3>4 DEF IInv, Progress
  <2>8. ASSUME NEW b \in Sources(n) PROVE \E k \in Copies(n) : f[k] = b
    <3>1. b \in DOMAIN batches /\ n \in sources[b]
      BY <2>3 DEF Sources
    <3>2. PICK i \in DOMAIN batches[b] : batches[b][i] = n
      BY <2>5, <3>1 DEF Kept
    <3>3. PICK k \in DOMAIN output : output[k] = At(b, i)
      BY <2>2, <3>1, <3>2 DEF Written
    <3>4. LineAt(output[k]) = n /\ output[k].batch = b
      BY <3>2, <3>3 DEF LineAt, At
    <3> QED BY <3>3, <3>4 DEF Copies
  <2>9. f \in Bijection(Copies(n), Sources(n))
    <3> HIDE DEF f
    <3> QED BY <2>6, <2>7, <2>8 DEF Bijection, Injection, Surjection, IsInjective
  <2>10. IsFiniteSet(Copies(n))
    <3>1. DOMAIN output = 1..Len(output) /\ Len(output) \in Nat
      BY DEF IInv, Typed
    <3>2. IsFiniteSet(1..Len(output))
      BY <3>1, FS_Interval
    <3> QED BY <3>1, <3>2, FS_Subset DEF Copies
  <2> QED BY <2>9, <2>10, FS_Bijection DEF ExistsBijection
<1> QED BY <1>1, Invariant, PTL

===============================================================================
