------------------------------- MODULE TagsFile -------------------------------
(***************************************************************************)
(* What a run of tsag does, to whoever reads its output: it collects lines *)
(* of the files, all of a file's when memory suffices, and then writes the *)
(* lines it collected in the order of strcmp, through a buffer.  Success   *)
(* means that every one of them was written and, unless it goes to stdout, *)
(* that the buffer was empty or reached the file at the end.  It does not  *)
(* mean that nothing is missing: the result of an earlier flush is not     *)
(* looked at.  Threads, queues and batches are not visible here; Tsag is   *)
(* shown to implement this module.                                         *)
(*                                                                         *)
(* The order is the code's.  The files of corpus/expected are in another   *)
(* order, see ExpectedOutput in MC_KWayMerge.                              *)
(***************************************************************************)
EXTENDS Naturals, Sequences, FiniteSets

CONSTANTS
  Files,           \* the files discovery finds
  LinesOf,         \* LinesOf[f]: the lines of f, as ranks in strcmp order
  MemoryMayFail,   \* TRUE: a line may find no memory
  WriteMayFail     \* TRUE: the disk may be full

VARIABLES
  collected,       \* the lines of each file that belong in the output
  output,          \* the lines given to the buffered output, in order
  flushed,         \* how many of them have left the buffer
  lost,            \* positions of output that are not, or not whole, in out
  toStdout,        \* the output is stdout
  status           \* "running" or how the program ended

vars == <<collected, output, flushed, lost, toStdout, status>>

Sources(n) == {f \in Files : n \in collected[f]}
Copies(n) == Cardinality({i \in DOMAIN output : output[i] = n})
Written == {output[i] : i \in DOMAIN output}

Init ==
  /\ collected = [f \in Files |-> {}]
  /\ output = <<>> /\ flushed = 0 /\ lost = {}
  /\ toStdout \in BOOLEAN
  /\ status = "running"

(* A file is indexed, once, and before the first line is written. *)
Index(f) ==
  /\ status = "running" /\ output = <<>>
  /\ collected[f] = {}
  /\ \E S \in SUBSET LinesOf[f] :
       /\ MemoryMayFail \/ S = LinesOf[f]
       /\ collected' = [collected EXCEPT ![f] = S]
  /\ UNCHANGED <<output, flushed, lost, toStdout, status>>

(* A flush that fails loses lines at the end of the buffer, which holds     *)
(* those up to position end.                                                *)
FlushFails(end) ==
  /\ WriteMayFail
  /\ \E j \in flushed + 1..end : lost' = lost \cup (j..end)

(* The next line is not less than the last one, and comes from a file of    *)
(* which it has not been written yet.  It may be the one that fills the     *)
(* buffer, or the first one of the next buffer.                             *)
Write(n) ==
  /\ status = "running"
  /\ output # <<>> => output[Len(output)] <= n
  /\ Copies(n) < Cardinality(Sources(n))
  /\ output' = Append(output, n)
  /\ \/ UNCHANGED <<flushed, lost>>
     \/ flushed' \in {Len(output), Len(output')} /\ (UNCHANGED lost \/ FlushFails(Len(output')))
  /\ UNCHANGED <<collected, toStdout, status>>

(* Success: no line that was collected was left out, and none of those      *)
(* still in the buffer gets lost, except on the way to stdout.              *)
Succeed ==
  /\ status = "running"
  /\ UNION {collected[f] : f \in Files} \subseteq Written
  /\ status' = "exit 0"
  /\ flushed' = Len(output)
  /\ UNCHANGED lost \/ (toStdout /\ FlushFails(Len(output)))
  /\ UNCHANGED <<collected, output, toStdout>>

Fail ==
  /\ status = "running"
  /\ status' = "exit 1"
  /\ flushed' \in {flushed, Len(output)}
  /\ UNCHANGED lost \/ FlushFails(Len(output))
  /\ UNCHANGED <<collected, output, toStdout>>

Next == (\E f \in Files : Index(f) \/ \E n \in LinesOf[f] : Write(n)) \/ Succeed \/ Fail

Spec == Init /\ [][Next]_vars
===============================================================================
