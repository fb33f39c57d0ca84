------------------------------- MODULE KWayMerge -------------------------------
(***************************************************************************)
(* What becomes of the lines of a worker in src/linevec.c, line_vec_sort   *)
(* and line_vec_uniq, and the merge of src/merge.c with the binary heap of *)
(* src/heap.c: the heap holds one entry per batch that has lines left,     *)
(* ordered by the line the entry stands at; the least line is written and  *)
(* its batch moves on.                                                     *)
(*                                                                         *)
(* A line is its rank in strcmp order.  Arrays are indexed from 1 here, so *)
(* the parent of i is i \div 2 and its children are 2i and 2i+1.  The two  *)
(* heapify functions call themselves last: each call is a step.            *)
(***************************************************************************)
EXTENDS Naturals, Sequences, FiniteSets, Functions

CONSTANTS
  N,          \* a->n, the number of workers
  Lines,      \* the lines there may be
  MaxLen      \* bound: lines in a LineVec

ASSUME KWayMergeAssumption == N \in Nat /\ Lines \in SUBSET Nat /\ MaxLen \in Nat

VARIABLES
  at,         \* "parse" and "uniq" a LineVec, "push" after heap_push, "pop" after heap_pop
  vec,        \* items[0..len-1] of the LineVec a worker has
  read,       \* r of line_vec_uniq: the items it has looked at
  kept,       \* w of line_vec_uniq: the items it has kept, which come first
  made,       \* history: the items before line_vec_sort
  batches,    \* the LineVecs received, batch_count <= N of them
  sources,    \* history: the lines each of them was made of
  heap,       \* heap[0..heap_size-1]: Seq([batch, idx])
  hole,       \* idx, the argument of the heapify functions
  next,       \* the next batch to consider while populating
  entry,      \* the entry popped last
  output      \* the entries whose lines were written

lineVec == <<vec, read, kept, made>>
received == <<lineVec, batches, sources>>
merging == <<heap, hole, next, entry, output>>
vars == <<at, received, merging>>

NoEntry == [batch |-> 0, idx |-> 0]

Init ==
  /\ at = "parse"
  /\ vec = <<>> /\ read = 0 /\ kept = 0 /\ made = <<>>
  /\ batches = <<>> /\ sources = <<>>
  /\ heap = <<>> /\ hole = 1 /\ next = 1 /\ entry = NoEntry
  /\ output = <<>>

-------------------------------------------------------------------------------
(* Mistakes that are easy to make in this code.  The specification uses     *)
(* none of them; substituted for the definition named in the comment, each  *)
(* breaks a property below.                                                 *)
LeftChildOnly(i) == {2 * i} \cap DOMAIN heap                    \* for Children
NotSorted(items) == {items}                                     \* for Sorted
NeverRepeated == FALSE                                          \* for Repeated

-------------------------------------------------------------------------------
(* parse_file_lines adds a line.  Each worker makes one LineVec.            *)
Push(n) ==
  /\ at = "parse" /\ Len(batches) < N
  /\ Len(vec) < MaxLen
  /\ vec' = Append(vec, n)
  /\ UNCHANGED <<at, read, kept, made, batches, sources, merging>>

(* line_vec_sort: qsort gives the items in an order that strcmp agrees with. *)
Permuted(items) == {[i \in DOMAIN items |-> items[p[i]]] : p \in Bijection(DOMAIN items, DOMAIN items)}
Sorted(items) == {s \in Permuted(items) : \A i, j \in DOMAIN s : i <= j => s[i] <= s[j]}

Sort ==
  /\ at = "parse" /\ Len(batches) < N
  /\ vec' \in Sorted(vec)
  /\ made' = vec
  /\ at' = "uniq"
  /\ UNCHANGED <<read, kept, batches, sources, merging>>

(* line_vec_uniq: an item equal to the last one kept is freed, another one  *)
(* moves up behind it.                                                      *)
Repeated == kept > 0 /\ vec[read + 1] = vec[kept]

Uniq ==
  /\ at = "uniq" /\ read < Len(vec)
  /\ read' = read + 1
  /\ IF Repeated THEN UNCHANGED <<vec, kept>>
     ELSE vec' = [vec EXCEPT ![kept + 1] = vec[read + 1]] /\ kept' = kept + 1
  /\ UNCHANGED <<at, made, batches, sources, merging>>

(* The LineVec, its len now the number of items kept, goes through the      *)
(* merge queue to batches[].                                                *)
Receive ==
  /\ at = "uniq" /\ read = Len(vec)
  /\ batches' = Append(batches, SubSeq(vec, 1, kept))
  /\ sources' = Append(sources, Range(made))
  /\ vec' = <<>> /\ read' = 0 /\ kept' = 0 /\ made' = <<>>
  /\ at' = "parse"
  /\ UNCHANGED merging

(* io_queue_get returns NULL.  Workers that failed have made nothing.       *)
Received ==
  /\ at = "parse" /\ vec = <<>>
  /\ at' = "push"
  /\ UNCHANGED <<received, merging>>

-------------------------------------------------------------------------------
LineAt(e) == batches[e.batch][e.idx]
Less(a, b) == LineAt(a) < LineAt(b)
Swap(i, j) == heap' = [heap EXCEPT ![i] = heap[j], ![j] = heap[i]]
Children(i) == {2 * i, 2 * i + 1} \cap DOMAIN heap

Rises == hole > 1 /\ Less(heap[hole], heap[hole \div 2])
Sinks == \E c \in Children(hole) : Less(heap[c], heap[hole])

(* heap_heapify_up: swap with the parent while smaller.                     *)
HeapifyUp ==
  /\ at = "push" /\ Rises
  /\ Swap(hole, hole \div 2)
  /\ hole' = hole \div 2
  /\ UNCHANGED <<at, received, next, entry, output>>

(* heap_heapify_down: swap with the smaller child, the left one on a tie,   *)
(* while it is smaller.                                                     *)
HeapifyDown ==
  /\ at = "pop"
  /\ \E c \in Children(hole) :
       /\ Less(heap[c], heap[hole])
       /\ \A d \in Children(hole) \ {c} :
            Less(heap[c], heap[d]) \/ (~Less(heap[d], heap[c]) /\ c < d)
       /\ Swap(hole, c)
       /\ hole' = c
  /\ UNCHANGED <<at, received, next, entry, output>>

(* The entry goes behind the last one, and up from there. *)
HeapPush(e) == heap' = Append(heap, e) /\ hole' = Len(heap) + 1

(* The last entry takes the place of the first, and the size shrinks.       *)
MoveLastToTop == SubSeq([heap EXCEPT ![1] = heap[Len(heap)]], 1, Len(heap) - 1)
HeapPop == heap' = MoveLastToTop /\ hole' = 1

HasMore(e) == e.idx < Len(batches[e.batch])
NextOf(e) == [e EXCEPT !.idx = @ + 1]

-------------------------------------------------------------------------------
(* The loop that puts the first line of each batch on the heap. *)
Populate ==
  /\ at = "push" /\ ~Rises
  /\ next <= Len(batches)
  /\ IF batches[next] = <<>> THEN UNCHANGED <<heap, hole>>
     ELSE HeapPush([batch |-> next, idx |-> 1])
  /\ next' = next + 1
  /\ UNCHANGED <<at, received, entry, output>>

(* The drain loop: heap_pop gives the top. *)
Pop ==
  /\ at = "push" /\ ~Rises
  /\ next > Len(batches)
  /\ heap # <<>>
  /\ entry' = heap[1]
  /\ HeapPop
  /\ at' = "pop"
  /\ UNCHANGED <<received, next, output>>

(* Its line is written, and its batch goes on the heap again while it has   *)
(* lines.                                                                   *)
Write ==
  /\ at = "pop" /\ ~Sinks
  /\ output' = Append(output, entry)
  /\ IF HasMore(entry) THEN HeapPush(NextOf(entry)) ELSE heap' = heap /\ hole' = 1
  /\ at' = "push"
  /\ UNCHANGED <<received, next, entry>>

(* heap_pop returns false and the loop ends. *)
Done == at = "push" /\ next > Len(batches) /\ heap = <<>>
Finished == Done /\ UNCHANGED vars

Next ==
  \/ \E n \in Lines : Push(n)
  \/ Sort \/ Uniq \/ Receive \/ Received
  \/ HeapifyUp \/ HeapifyDown
  \/ Populate \/ Pop \/ Write \/ Finished

Spec == Init /\ [][Next]_vars

-------------------------------------------------------------------------------
(* Properties.                                                              *)

(* When heapify is through, no entry is smaller than its parent, so that    *)
(* the top is the least line not yet written; a batch is on the heap once   *)
(* at most, so that heap[a->n] is large enough.                             *)
HeapOrder ==
  /\ (at = "push" /\ ~Rises) \/ (at = "pop" /\ ~Sinks) =>
       \A i \in 2..Len(heap) : ~Less(heap[i], heap[i \div 2])
  /\ \A i, j \in DOMAIN heap : heap[i].batch = heap[j].batch => i = j
  /\ Len(heap) <= N

(* What is written is sorted, as strcmp sorts, at every moment, whatever    *)
(* order the workers made their lines in.                                   *)
OutputSorted ==
  \A i, j \in DOMAIN output : i <= j => LineAt(output[i]) <= LineAt(output[j])

Copies(n) == {k \in DOMAIN output : LineAt(output[k]) = n}
Sources(n) == {b \in DOMAIN sources : n \in sources[b]}

(* At the end every line has been written, once for each worker that made   *)
(* it, however often that worker did.  The files of corpus/expected repeat  *)
(* lines of one file: see ExpectedOutput in MC_KWayMerge.                   *)
OutputComplete == Done => \A n \in Lines : Cardinality(Copies(n)) = Cardinality(Sources(n))
===============================================================================
