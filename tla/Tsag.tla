--------------------------------- MODULE Tsag ---------------------------------
(***************************************************************************)
(* The pipeline of src/main.c, src/worker.c and src/merge.c: main creates  *)
(* the threads, walks the paths and feeds the work queue; each worker      *)
(* turns files into the lines of its LineVec and, when the work queue is   *)
(* closed and drained, passes it to the merge queue; the merge thread      *)
(* collects every LineVec and then writes the sorted output.  Threads may  *)
(* fail to start and workers may fail to initialise.                       *)
(*                                                                         *)
(* The two queues are the bounded FIFO that IoQueue is shown to implement, *)
(* and the whole is shown to implement TagsFile.                           *)
(***************************************************************************)
EXTENDS Naturals, Sequences, FiniteSets

CONSTANTS
  Workers,        \* the threads main.c tries to create, jobs of them
  Merge,          \* the merge thread
  Files,          \* the paths that enqueue_path puts, in any order
  LinesOf,        \* LinesOf[f]: the lines of f, as ranks in strcmp order
  QUEUE_CAPACITY,
  WorkerMayFail,  \* TRUE: pthread_create may fail for a worker
  MergeMayFail,   \* TRUE: pthread_create may fail for the merge thread
  InitMayFail,    \* which of "parser" and "vec" may fail in a worker
  MemoryMayFail,  \* TRUE: a line may find no memory
  WriteMayFail    \* TRUE: the disk may be full

Lines == UNION {LinesOf[f] : f \in Files}
jobs == Cardinality(Workers)

ASSUME TsagAssumption ==
  /\ IsFiniteSet(Workers) /\ Workers # {} /\ Merge \notin Workers
  /\ IsFiniteSet(Files)
  /\ LinesOf \in [Files -> SUBSET Nat]
  /\ QUEUE_CAPACITY \in Nat \ {0}
  /\ WorkerMayFail \in BOOLEAN /\ MergeMayFail \in BOOLEAN
  /\ InitMayFail \in SUBSET {"parser", "vec"}
  /\ MemoryMayFail \in BOOLEAN /\ WriteMayFail \in BOOLEAN

VARIABLES
  mpc,                        \* where main stands
  wpc,                        \* where each worker stands
  gpc,                        \* where the merge thread stands
  todo,                       \* files main has not enqueued
  work, workClosed, taken, workEnded,    \* the work queue
  outq, outClosed, batches, outEnded,    \* the merge queue
  vec,                        \* the lines in each worker's LineVec
  collected,                  \* the lines of each file that went into a LineVec
  freedPaths,                 \* paths that were freed
  output,                     \* lines given to fputs, in order
  flushed,                    \* how many of them have left the buffer of out
  lost,                       \* positions of output that are not, or not whole, in out
  toStdout,                   \* out is stdout
  freed                       \* main has freed queues and cache

workVars == <<work, workClosed, taken, workEnded>>
outVars == <<outq, outClosed, batches, outEnded>>
data == <<vec, collected, freedPaths>>
file == <<output, flushed, lost, toStdout>>
vars == <<mpc, wpc, gpc, todo, workVars, outVars, data, file, freed>>

-------------------------------------------------------------------------------
(* Mistakes that are easy to make in this code.  The specification uses     *)
(* none of them; substituted for the definition named in the comment, each  *)
(* breaks a property below.                                                 *)
OneSlotShort == jobs - 1                               \* for OutCapacity
FreedWhenParsed(w) == wpc[w] = "busy"                  \* for FreesPath
Greatest(n, S) == \A m \in S : m <= n                 \* for Least
JoinOne == \E w \in Workers : wpc[w] \in {"dead", "done"}    \* for AllJoined
EmitInLoop == "loop"                                   \* for AfterPut
FcloseIgnored == "exit 0"                              \* for CloseResult

-------------------------------------------------------------------------------
(* The capacity main gives to the merge queue: a slot for every worker.     *)
OutCapacity == jobs

WQ == INSTANCE BoundedQueue WITH
        Getters <- Workers, Items <- Files, Cap <- QUEUE_CAPACITY,
        contents <- work, closed <- workClosed, got <- taken, ended <- workEnded
OQ == INSTANCE BoundedQueue WITH
        Getters <- {Merge}, Items <- SUBSET Lines, Cap <- OutCapacity,
        contents <- outq, closed <- outClosed, got <- batches, ended <- outEnded

Init ==
  /\ mpc = "spawn" /\ gpc = "absent"
  /\ wpc = [w \in Workers |-> "absent"]
  /\ todo = Files
  /\ WQ!Init /\ OQ!Init
  /\ vec = [w \in Workers |-> {}]
  /\ collected = [f \in Files |-> {}] /\ freedPaths = {}
  /\ output = <<>> /\ flushed = 0 /\ lost = {}
  /\ toStdout \in BOOLEAN
  /\ freed = FALSE

Last(s) == s[Len(s)]
Ended(w) == wpc[w] \in {"dead", "done"}
Goto(w, label) == wpc' = [wpc EXCEPT ![w] = label]

-------------------------------------------------------------------------------
(* main: creating the threads. *)
AllJoined == \A w \in Workers : wpc[w] = "absent" \/ Ended(w)

CreateWorker(w) ==
  /\ mpc = "spawn" /\ wpc[w] = "absent"
  /\ Goto(w, "init")
  /\ UNCHANGED <<mpc, gpc, todo, workVars, outVars, data, file, freed>>

(* Both queues are closed; the workers created so far are not joined. *)
CreateWorkerFails ==
  /\ WorkerMayFail
  /\ mpc = "spawn" /\ \E w \in Workers : wpc[w] = "absent"
  /\ WQ!Close /\ OQ!Close
  /\ mpc' = "abort"
  /\ UNCHANGED <<wpc, gpc, todo, data, file, freed>>

CreateMerge ==
  /\ mpc = "spawn" /\ \A w \in Workers : wpc[w] # "absent"
  /\ mpc' = "enqueue" /\ gpc' = "collect"
  /\ UNCHANGED <<wpc, todo, workVars, outVars, data, file, freed>>

(* The work queue is closed at once and nothing is enqueued. *)
CreateMergeFails ==
  /\ MergeMayFail
  /\ mpc = "spawn" /\ \A w \in Workers : wpc[w] # "absent"
  /\ WQ!Close
  /\ mpc' = "join"
  /\ UNCHANGED <<wpc, gpc, todo, outVars, data, file, freed>>

(* main: feeding, closing and joining. *)
Enqueue(f) ==
  /\ mpc = "enqueue" /\ f \in todo
  /\ WQ!Put(f)
  /\ todo' = todo \ {f}
  /\ UNCHANGED <<mpc, wpc, gpc, outVars, data, file, freed>>

CloseWork ==
  /\ mpc = "enqueue" /\ todo = {}
  /\ WQ!Close
  /\ mpc' = "join"
  /\ UNCHANGED <<wpc, gpc, todo, outVars, data, file, freed>>

(* Every pthread_join has returned; the merge queue is closed.  Joining a   *)
(* thread that main created and has not joined does not fail.               *)
JoinWorkers ==
  /\ mpc = "join" /\ AllJoined
  /\ OQ!Close
  /\ mpc' = IF gpc = "absent" THEN "giveUp" ELSE "joinMerge"
  /\ UNCHANGED <<wpc, gpc, todo, workVars, data, file, freed>>

JoinMerge ==
  /\ mpc = "joinMerge" /\ gpc = "done"
  /\ mpc' = "free"
  /\ UNCHANGED <<wpc, gpc, todo, workVars, outVars, data, file, freed>>

FreeAll ==
  /\ mpc \in {"abort", "giveUp", "free"} /\ ~freed
  /\ freed' = TRUE
  /\ UNCHANGED <<mpc, wpc, gpc, todo, workVars, outVars, data, file>>

(* Output is buffered.  A flush that fails loses lines at the end of the buffer, *)
(* which holds those up to position end and is empty afterwards.            *)
FlushFails(end) ==
  /\ WriteMayFail
  /\ \E j \in flushed + 1..end : lost' = lost \cup (j..end)

(* fclose reports the last flush and close(), not an earlier flush; stdout  *)
(* is not closed, and what exit() does with its buffer changes no result.   *)
CloseResult == IF toStdout THEN "exit 0" ELSE "exit 1"

CloseOut ==
  /\ flushed' = Len(output)
  /\ \/ UNCHANGED lost /\ mpc' = "exit 0"
     \/ FlushFails(Len(output)) /\ mpc' = CloseResult
     \/ WriteMayFail /\ UNCHANGED lost /\ mpc' = CloseResult

(* main returns, which ends every thread.  Nothing was written if a thread  *)
(* was missing.                                                             *)
Exit ==
  /\ freed
  /\ \/ mpc \in {"abort", "giveUp"} /\ mpc' = "exit 1" /\ UNCHANGED <<flushed, lost>>
     \/ mpc = "free" /\ CloseOut
  /\ UNCHANGED <<wpc, gpc, todo, workVars, outVars, data, output, toStdout, freed>>

-------------------------------------------------------------------------------
(* A worker: no parser or cursor, no LineVec, or all of them. *)
InitWorker(w) ==
  /\ wpc[w] = "init"
  /\ \/ "parser" \in InitMayFail /\ Goto(w, "dead")
     \/ "vec" \in InitMayFail /\ Goto(w, "drain")
     \/ Goto(w, "loop")
  /\ UNCHANGED <<mpc, gpc, todo, workVars, outVars, data, file, freed>>

(* io_queue_get(a->q) returns a path, in the loop or while draining. *)
GetPath(w) ==
  /\ wpc[w] \in {"loop", "drain"}
  /\ WQ!Get(w)
  /\ Goto(w, IF wpc[w] = "loop" THEN "busy" ELSE "drop")
  /\ UNCHANGED <<mpc, gpc, todo, outVars, data, file, freed>>

FreesPath(w) == wpc[w] \in {"busy", "drop"}

(* parse_file_lines, which adds nothing when it finds the file gone or      *)
(* unreadable or its language unavailable, and leaves out single lines when *)
(* memory runs out; and free(path).                                         *)
Parse(w) ==
  LET f == Last(taken[w]) IN
  /\ wpc[w] = "busy"
  /\ \/ \E S \in SUBSET LinesOf[f] :
          /\ MemoryMayFail \/ S = LinesOf[f]
          /\ vec' = [vec EXCEPT ![w] = @ \cup S]
          /\ collected' = [collected EXCEPT ![f] = S]
     \/ UNCHANGED <<vec, collected>>
  /\ freedPaths' = IF FreesPath(w) THEN freedPaths \cup {f} ELSE freedPaths
  /\ Goto(w, "loop")
  /\ UNCHANGED <<mpc, gpc, todo, workVars, outVars, file, freed>>

(* The LineVec failed: the path is freed unread. *)
Drop(w) ==
  /\ wpc[w] = "drop"
  /\ freedPaths' = IF FreesPath(w) THEN freedPaths \cup {Last(taken[w])} ELSE freedPaths
  /\ Goto(w, "drain")
  /\ UNCHANGED <<mpc, gpc, todo, workVars, outVars, vec, collected, file, freed>>

(* io_queue_get(a->q) returns NULL. *)
GetNoPath(w) ==
  /\ wpc[w] \in {"loop", "drain"}
  /\ WQ!GetNull(w)
  /\ Goto(w, IF wpc[w] = "loop" THEN "emit" ELSE "done")
  /\ UNCHANGED <<mpc, gpc, todo, outVars, data, file, freed>>

(* Sorted and without duplicates, the LineVec goes to the merge queue, and  *)
(* the worker returns.                                                      *)
AfterPut == "done"

PutBatch(w) ==
  /\ wpc[w] = "emit"
  /\ OQ!Put(vec[w])
  /\ Goto(w, AfterPut)
  /\ UNCHANGED <<mpc, gpc, todo, workVars, data, file, freed>>

-------------------------------------------------------------------------------
(* merge: collect every batch, then write. *)
Collect ==
  /\ gpc = "collect"
  /\ OQ!Get(Merge)
  /\ UNCHANGED <<mpc, wpc, gpc, todo, workVars, data, file, freed>>

CollectEnd ==
  /\ gpc = "collect"
  /\ OQ!GetNull(Merge)
  /\ gpc' = "print"
  /\ UNCHANGED <<mpc, wpc, todo, workVars, data, file, freed>>

(* How many of the lines written and of the batches are n. *)
Copies(s, n) == Cardinality({i \in DOMAIN s : s[i] = n})
InBatches(n) == Cardinality({i \in DOMAIN batches[Merge] : n \in batches[Merge][i]})
Unwritten == {n \in Lines : Copies(output, n) < InBatches(n)}

Least(n, S) == \A m \in S : n <= m

(* heap_pop gives the least line not yet written and fputs writes it; its   *)
(* result is not looked at.  The line stays in the buffer, or it fills it,  *)
(* or the next buffer begins with it or within it.                          *)
Write ==
  /\ gpc = "print"
  /\ \E n \in Unwritten : Least(n, Unwritten) /\ output' = Append(output, n)
  /\ \/ UNCHANGED <<flushed, lost>>
     \/ flushed' \in {Len(output), Len(output')} /\ (UNCHANGED lost \/ FlushFails(Len(output')))
  /\ UNCHANGED <<mpc, wpc, gpc, todo, workVars, outVars, data, toStdout, freed>>

WriteEnd ==
  /\ gpc = "print" /\ Unwritten = {}
  /\ gpc' = "done"
  /\ UNCHANGED <<mpc, wpc, todo, workVars, outVars, data, file, freed>>

-------------------------------------------------------------------------------
Exited == mpc \in {"exit 0", "exit 1"}

MainStep ==
  \/ \E w \in Workers : CreateWorker(w)
  \/ \E f \in Files : Enqueue(f)
  \/ CreateWorkerFails \/ CreateMerge \/ CreateMergeFails
  \/ CloseWork \/ JoinWorkers \/ JoinMerge \/ FreeAll \/ Exit

WorkerStep(w) ==
  InitWorker(w) \/ GetPath(w) \/ Parse(w) \/ Drop(w) \/ GetNoPath(w) \/ PutBatch(w)

MergeStep == Collect \/ CollectEnd \/ Write \/ WriteEnd

(* Nothing runs after main has returned.  What a worker does with queues    *)
(* that main has freed is undefined, so it takes no step here:              *)
(* FreedWhenUnused says whether it comes to that.                           *)
Main == ~Exited /\ MainStep
Worker(w) == ~Exited /\ ~freed /\ WorkerStep(w)
Merger == ~Exited /\ ~freed /\ MergeStep
Finished == Exited /\ UNCHANGED vars

Next == Main \/ (\E w \in Workers : Worker(w)) \/ Merger \/ Finished

(* The scheduler runs every thread that is not blocked.                     *)
Fairness ==
  /\ WF_vars(Main)
  /\ \A w \in Workers : WF_vars(Worker(w))
  /\ WF_vars(Merger)

Spec == Init /\ [][Next]_vars
FairSpec == Spec /\ Fairness

-------------------------------------------------------------------------------
(* Properties.                                                              *)

AllDead == \A w \in Workers : wpc[w] = "dead"

(* Every variable keeps its range; in particular the merge thread never has *)
(* more batches than its array batches[a->n] holds.                         *)
TypeOK ==
  /\ mpc \in {"spawn", "enqueue", "join", "joinMerge", "free", "abort", "giveUp",
             "exit 0", "exit 1"}
  /\ wpc \in [Workers -> {"absent", "init", "loop", "busy", "drain", "drop", "emit",
                         "done", "dead"}]
  /\ gpc \in {"absent", "collect", "print", "done"}
  /\ todo \in SUBSET Files /\ freedPaths \in SUBSET Files
  /\ work \in Seq(Files) /\ Len(work) <= QUEUE_CAPACITY
  /\ outq \in Seq(SUBSET Lines) /\ Len(outq) + Len(batches[Merge]) <= jobs
  /\ taken \in [Workers -> Seq(Files)]
  /\ batches \in [{Merge} -> Seq(SUBSET Lines)]
  /\ workEnded \in SUBSET Workers /\ outEnded \in SUBSET {Merge}
  /\ vec \in [Workers -> SUBSET Lines] /\ collected \in [Files -> SUBSET Lines]
  /\ output \in Seq(Lines) /\ flushed \in 0..Len(output) /\ lost \in SUBSET (DOMAIN output)
  /\ {workClosed, outClosed, toStdout, freed} \in SUBSET BOOLEAN

(* A worker that delivers its LineVec always finds a slot: it cannot be     *)
(* left waiting for a merge thread that was never created while main joins. *)
OutqNeverFull == \A w \in Workers : wpc[w] = "emit" => Len(outq) < OutCapacity

(* docs/ARCHITECTURE.md, "Merge stage": nothing is written before the last  *)
(* worker has ended, so no line can come after a greater one was written.   *)
NothingPrintsEarly == output # <<>> => \A w \in Workers : Ended(w)

(* main frees the queues and the language cache only when no other thread   *)
(* can use them any more.                                                   *)
NobodyUsesThem == (\A w \in Workers : wpc[w] = "absent" \/ Ended(w)) /\ gpc \in {"absent", "done"}
FreedWhenUnused == freed => Exited \/ NobodyUsesThem

(* The same of every path but the one after a worker could not be created   *)
(* (main.c:90-98), also when workers or the merge thread fail to start.     *)
FreedAfterJoin == freed /\ mpc # "abort" => Exited \/ NobodyUsesThem

(* Every path that was put is freed by exactly the worker that got it, and  *)
(* none is left at exit unless no worker could start.                       *)
PathsFreed ==
  /\ \A v, w \in Workers : \A i \in DOMAIN taken[v], j \in DOMAIN taken[w] :
       taken[v][i] = taken[w][j] => v = w /\ i = j
  /\ mpc = "exit 0" => AllDead \/ freedPaths = Files

(* The program ends on every path, unless no worker survived its own        *)
(* initialisation: main may then wait forever for room in the work queue.   *)
Terminates == <>(Exited \/ AllDead)

(* Whatever the schedule and whichever thread, allocation or write fails,   *)
(* the output is what TagsFile says: the lines that were collected, in      *)
(* order, begun only after the last file was indexed.  When main reports    *)
(* success, none of them was left out and none was lost by the flush in     *)
(* fclose; one that an earlier flush lost may be missing.                   *)
TF == INSTANCE TagsFile WITH status <- IF Exited THEN mpc ELSE "running"
ImplementsTagsFile == TF!Spec
===============================================================================
