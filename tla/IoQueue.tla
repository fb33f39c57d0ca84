------------------------------- MODULE IoQueue -------------------------------
(***************************************************************************)
(* The queue of src/ioqueue.c: a ring buffer with one mutex and two        *)
(* condition variables, used by tsag for the work queue (main puts paths,  *)
(* the workers get them) and for the merge queue (each worker puts its     *)
(* LineVec, the merge thread gets them).                                   *)
(*                                                                         *)
(* Every field of the queue is read and written only between               *)
(* pthread_mutex_lock and pthread_mutex_unlock, so the code from taking    *)
(* the lock to releasing it, or to sleeping in pthread_cond_wait, is one   *)
(* action.  A thread that is "ready" contends for the lock, on entry or    *)
(* because it was woken; where the lock goes is the scheduler's choice.    *)
(***************************************************************************)
EXTENDS Naturals, Sequences, FiniteSets

CONSTANTS
  Putters,      \* threads that call io_queue_put
  Getters,      \* threads that call io_queue_get until it returns NULL
  Closer,       \* the thread that calls io_queue_close once (main)
  PutsEach,     \* how many items each putter puts, numbered 1..PutsEach
  Cap,          \* q->cap
  NULL,         \* what calloc leaves in a slot
  MaxSpurious   \* bound on the spurious returns of pthread_cond_wait

Threads == Putters \cup Getters \cup {Closer}
Items == Putters \X (1..PutsEach)
Slots == 0..(Cap - 1)

ASSUME IoQueueAssumption ==
  /\ Cap \in Nat \ {0}
  /\ PutsEach \in Nat \ {0}
  /\ MaxSpurious \in Nat
  /\ IsFiniteSet(Putters) /\ IsFiniteSet(Getters)
  /\ Putters \cap Getters = {}
  /\ Closer \notin Putters \cup Getters
  /\ NULL \notin Items

VARIABLES
  buf, head, tail, count, closed,   \* the fields of struct IoQueue
  pc,         \* pc[t]: where thread t stands, see TypeOK
  nput,       \* nput[p]: how many items p has stored
  got,        \* got[g]: items returned to g, in order
  ended,      \* getters that were given NULL
  spurious,   \* spurious wake-ups so far
  early       \* close may come before the puts (main.c error paths)

ring == <<buf, head, tail, count>>
vars == <<ring, closed, pc, nput, got, ended, spurious, early>>

Asleep(S) == {t \in S : pc[t] = "asleep"}
Ready(S) == {t \in S : pc[t] = "ready"}
Goto(t, label) == [pc EXCEPT ![t] = label]

Init ==
  /\ buf = [s \in Slots |-> NULL]
  /\ head = 0 /\ tail = 0 /\ count = 0
  /\ closed = FALSE
  /\ pc = [t \in Threads |-> "idle"]
  /\ nput = [p \in Putters |-> 0]
  /\ got = [g \in Getters |-> <<>>]
  /\ ended = {}
  /\ spurious = 0
  /\ early \in BOOLEAN

-------------------------------------------------------------------------------
(* Mistakes that are easy to make in this code.  The specification uses     *)
(* none of them; substituted for the definition named in the comment, each  *)
(* breaks a property below.                                                 *)
NoWrap(i) == i + 1                                    \* for Advance
FullTooLate == count > Cap                            \* for Full
EmptyIsDrained == count = 0                           \* for Drained
Newest == buf[(tail + Cap - 1) % Cap]                 \* for Oldest
SignalOneCondvar(t, label, S) ==                      \* for Signal
  IF Asleep(Threads) = {} THEN {Goto(t, label)}
  ELSE {[Goto(t, label) EXCEPT ![s] = "ready"] : s \in Asleep(Threads)}
SignalOnClose(t, label, S) ==                         \* for Broadcast
  IF Asleep(S) = {} THEN Goto(t, label)
  ELSE [Goto(t, label) EXCEPT ![CHOOSE s \in Asleep(S) : TRUE] = "ready"]

-------------------------------------------------------------------------------
(* The tests and the index arithmetic of put and get.                       *)
Advance(i) == (i + 1) % Cap
Full == count = Cap
Empty == count = 0
Drained == Empty /\ closed
Oldest == buf[head]

(* Program counters after t moves to label and pthread_cond_signal wakes    *)
(* one of the sleepers in S, whichever the implementation picks.            *)
Signal(t, label, S) ==
  IF Asleep(S) = {} THEN {Goto(t, label)}
  ELSE {[Goto(t, label) EXCEPT ![s] = "ready"] : s \in Asleep(S)}

(* The same when pthread_cond_broadcast wakes all of S.                     *)
Broadcast(t, label, S) ==
  [u \in Threads |-> IF u \in Asleep(S) THEN "ready" ELSE Goto(t, label)[u]]

-------------------------------------------------------------------------------
(* A thread enters io_queue_put, io_queue_get or io_queue_close.  main      *)
(* closes a queue when its putters have finished, except on the paths where *)
(* a thread could not be created.                                           *)
Call(t) ==
  /\ pc[t] = "idle"
  /\ t = Closer => early \/ \A p \in Putters : pc[p] = "done"
  /\ pc' = Goto(t, "ready")
  /\ UNCHANGED <<ring, closed, nput, got, ended, spurious, early>>

(* io_queue_put on a full queue: pthread_cond_wait(not_full). *)
PutSleep(p) ==
  /\ pc[p] = "ready"
  /\ Full
  /\ pc' = Goto(p, "asleep")
  /\ UNCHANGED <<ring, closed, nput, got, ended, spurious, early>>

(* io_queue_put with room: store, advance tail, signal not_empty. *)
PutStore(p) ==
  /\ pc[p] = "ready"
  /\ ~Full
  /\ buf' = [buf EXCEPT ![tail] = <<p, nput[p] + 1>>]
  /\ tail' = Advance(tail)
  /\ count' = count + 1
  /\ nput' = [nput EXCEPT ![p] = @ + 1]
  /\ pc' \in Signal(p, IF nput[p] + 1 = PutsEach THEN "done" ELSE "idle", Getters)
  /\ UNCHANGED <<head, closed, got, ended, spurious, early>>

(* io_queue_get on an empty open queue: pthread_cond_wait(not_empty). *)
GetSleep(g) ==
  /\ pc[g] = "ready"
  /\ Empty /\ ~closed
  /\ pc' = Goto(g, "asleep")
  /\ UNCHANGED <<ring, closed, nput, got, ended, spurious, early>>

(* io_queue_get, closed and drained: the caller gets NULL and stops. *)
GetNull(g) ==
  /\ pc[g] = "ready"
  /\ Drained
  /\ ended' = ended \cup {g}
  /\ pc' = Goto(g, "done")
  /\ UNCHANGED <<ring, closed, nput, got, spurious, early>>

(* io_queue_get with an item: take it, advance head, signal not_full. *)
GetTake(g) ==
  /\ pc[g] = "ready"
  /\ ~Empty
  /\ got' = [got EXCEPT ![g] = Append(@, Oldest)]
  /\ head' = Advance(head)
  /\ count' = count - 1
  /\ pc' \in Signal(g, "idle", Putters)
  /\ UNCHANGED <<buf, tail, closed, nput, ended, spurious, early>>

(* io_queue_close: set closed, broadcast not_empty. *)
Close ==
  /\ pc[Closer] = "ready"
  /\ closed' = TRUE
  /\ pc' = Broadcast(Closer, "done", Getters)
  /\ UNCHANGED <<ring, nput, got, ended, spurious, early>>

(* pthread_cond_wait may return although nobody signalled. *)
SpuriousWakeup(t) ==
  /\ pc[t] = "asleep"
  /\ spurious < MaxSpurious
  /\ spurious' = spurious + 1
  /\ pc' = Goto(t, "ready")
  /\ UNCHANGED <<ring, closed, nput, got, ended, early>>

PutStep(p) == PutSleep(p) \/ PutStore(p)
GetStep(g) == GetSleep(g) \/ GetNull(g) \/ GetTake(g)

(* Every thread has returned from its last call: the program goes on        *)
(* elsewhere, so this is not a deadlock of the queue.                       *)
Finished ==
  /\ \A t \in Threads : pc[t] = "done"
  /\ UNCHANGED vars

Next ==
  \/ \E t \in Threads : Call(t) \/ SpuriousWakeup(t)
  \/ \E p \in Putters : PutStep(p)
  \/ \E g \in Getters : GetStep(g)
  \/ Close
  \/ Finished

(* A thread outside the queue calls again, and a thread that can have the   *)
(* lock takes it.  Nothing is assumed about spurious wake-ups.              *)
Fairness ==
  /\ \A t \in Threads : WF_vars(Call(t))
  /\ \A p \in Putters : WF_vars(PutStep(p))
  /\ \A g \in Getters : WF_vars(GetStep(g))
  /\ WF_vars(Close)

Spec == Init /\ [][Next]_vars
FairSpec == Spec /\ Fairness

-------------------------------------------------------------------------------
(* Properties.                                                              *)

PcLabels == {"idle", "ready", "asleep", "done"}

(* The fields keep their ranges; "idle" is outside the queue, "ready" is    *)
(* contending for the lock, "asleep" is in pthread_cond_wait.               *)
TypeOK ==
  /\ buf \in [Slots -> Items \cup {NULL}]
  /\ head \in Slots /\ tail \in Slots /\ count \in 0..Cap
  /\ closed \in BOOLEAN
  /\ pc \in [Threads -> PcLabels]
  /\ nput \in [Putters -> 0..PutsEach]
  /\ got \in [Getters -> Seq(Items \cup {NULL})]
  /\ ended \in SUBSET Getters
  /\ spurious \in 0..MaxSpurious
  /\ early \in BOOLEAN

(* A putter that has not returned from its last call still has an item.      *)
PutsLeft == \A p \in Putters : pc[p] = "done" <=> nput[p] = PutsEach

(* The next free slot is count slots after the oldest item.                  *)
RingOK == tail = (head + count) % Cap

(* main closes a queue it feeds only after its putters are done.             *)
CloseOrder ==
  /\ closed <=> pc[Closer] = "done"
  /\ ~early /\ pc[Closer] # "idle" => \A p \in Putters : pc[p] = "done"
  /\ ended # {} => closed

(* The queue as its callers see it: the count slots from head on, cyclic.   *)
Contents == [i \in 1..count |-> buf[(head + i - 1) % Cap]]

(* Where an item is at this moment: places in the queue and in the callers. *)
Places(i) ==
  {<<"queue", n>> : n \in {m \in 1..count : Contents[m] = i}}
    \cup UNION {{<<g, n>> : n \in {m \in DOMAIN got[g] : got[g][m] = i}} : g \in Getters}

(* No item is lost, duplicated or made up while indices wrap around and     *)
(* slots are reused: what was put is in exactly one place, nothing else is  *)
(* anywhere.                                                                *)
ExactlyOnce ==
  \A p \in Putters, k \in 1..PutsEach :
    Cardinality(Places(<<p, k>>)) = IF k <= nput[p] THEN 1 ELSE 0

(* put and get wake ONE sleeper each, so a wake-up can be consumed by a     *)
(* thread that finds nothing.  No item ever waits while a getter sleeps     *)
(* unless a getter is on its way for each item; and the same for free slots *)
(* and sleeping putters.                                                    *)
NoLostWakeup ==
  /\ Asleep(Getters) # {} => count <= Cardinality(Ready(Getters))
  /\ Asleep(Putters) # {} => Cap - count <= Cardinality(Ready(Putters))

(* close wakes every getter and none goes to sleep afterwards.              *)
CloseWakesAll == closed => Asleep(Getters) = {}

(* When the putters finish before close, as main arranges, a getter that is *)
(* told NULL leaves nothing behind: every item was stored and taken.        *)
NullMeansDrained ==
  ~early /\ ended # {} => count = 0 /\ \A p \in Putters : nput[p] = PutsEach

(* The invariant that the proofs carry along.                               *)
IInv ==
  /\ TypeOK /\ PutsLeft /\ RingOK /\ CloseOrder
  /\ NoLostWakeup /\ CloseWakesAll /\ NullMeansDrained

(* Every call returns although signals wake one thread only and waits may   *)
(* return spuriously, and by then every item has been delivered.            *)
Completes ==
  ~early => <>(/\ \A t \in Threads : pc[t] = "done"
               /\ \A i \in Items : \E g \in Getters : \E n \in DOMAIN got[g] : got[g][n] = i)

(* Wherever close falls, every getter is eventually told NULL.              *)
CloseReleasesGetters == closed ~> \A g \in Getters : pc[g] = "done"

AQ == INSTANCE BoundedQueue WITH contents <- Contents

(* The ring buffer, its lock and its wake-ups implement a bounded FIFO.     *)
ImplementsBoundedQueue == AQ!Spec
===============================================================================
