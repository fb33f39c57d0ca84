----------------------------- MODULE BoundedQueue -----------------------------
(***************************************************************************)
(* What tsag's queue promises its callers (src/ioqueue.c, and the QUEUES   *)
(* section of docs/ARCHITECTURE.md): a bounded FIFO shared by any number   *)
(* of putting and getting threads.  Nothing of the ring buffer, of the     *)
(* mutex or of the condition variables is visible here; IoQueue is shown   *)
(* to implement this module.                                               *)
(***************************************************************************)
EXTENDS Naturals, Sequences

CONSTANTS
  Getters,   \* threads that call io_queue_get
  Items,     \* the void* values that pass through the queue
  Cap        \* capacity given to io_queue_new

VARIABLES
  contents,  \* items stored and not yet taken, oldest first
  closed,    \* io_queue_close has taken effect
  got,       \* got[g]: the items io_queue_get has returned to g, in order
  ended      \* getters to which io_queue_get has returned NULL

vars == <<contents, closed, got, ended>>

Init ==
  /\ contents = <<>>
  /\ closed = FALSE
  /\ got = [g \in Getters |-> <<>>]
  /\ ended = {}

(* io_queue_put takes effect only while there is room; it ignores closed. *)
Put(i) ==
  /\ Len(contents) < Cap
  /\ contents' = Append(contents, i)
  /\ UNCHANGED <<closed, got, ended>>

(* io_queue_get returns the oldest item, whether or not the queue is closed. *)
Get(g) ==
  /\ contents # <<>>
  /\ contents' = Tail(contents)
  /\ got' = [got EXCEPT ![g] = Append(@, Head(contents))]
  /\ UNCHANGED <<closed, ended>>

(* io_queue_get returns NULL only when the queue is closed and drained. *)
GetNull(g) ==
  /\ closed
  /\ contents = <<>>
  /\ ended' = ended \cup {g}
  /\ UNCHANGED <<contents, closed, got>>

Close ==
  /\ closed' = TRUE
  /\ UNCHANGED <<contents, got, ended>>

Next ==
  \/ \E i \in Items : Put(i)
  \/ \E g \in Getters : Get(g) \/ GetNull(g)
  \/ Close

Spec == Init /\ [][Next]_vars
===============================================================================
