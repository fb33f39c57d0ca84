----------------------------- MODULE Tsag_proofs -----------------------------
(* Theorems about Tsag for every number of workers, set of files, capacity   *)
(* of the work queue, and whatever may fail; the last one is that Tsag       *)
(* implements TagsFile.                                                      *)
EXTENDS Tsag, FiniteSetTheorems, SequenceTheorems, TLAPS

MainLabels == {"spawn", "enqueue", "join", "joinMerge", "free", "abort", "giveUp",
               "exit 0", "exit 1"}
WorkerLabels == {"absent", "init", "loop", "busy", "drain", "drop", "emit", "done", "dead"}
DoneWorkers == {w \in Workers : wpc[w] = "done"}

(* Where main, the workers and the merge thread can be together: the merge   *)
(* thread runs only when every worker was created, the merge queue is closed *)
(* only when every worker has ended or there is no merge thread, and main    *)
(* frees only after joining, except at "abort".                              *)
Order ==
  /\ mpc \in MainLabels /\ wpc \in [Workers -> WorkerLabels]
  /\ gpc \in {"absent", "collect", "print", "done"}
  /\ mpc = "spawn" => gpc = "absent" /\ ~outClosed
  /\ mpc \in {"enqueue", "joinMerge", "free", "exit 0"} => gpc # "absent"
  /\ mpc \in {"abort", "giveUp"} => gpc = "absent"
  /\ mpc \in {"giveUp", "joinMerge", "free", "exit 0"} => AllJoined
  /\ mpc \in {"free", "exit 0"} => gpc = "done"
  /\ gpc # "absent" => \A w \in Workers : wpc[w] # "absent"
  /\ gpc # "absent" /\ outClosed => \A w \in Workers : Ended(w)
  /\ gpc \in {"print", "done"} => outClosed
  /\ output # <<>> => gpc \in {"print", "done"}
  /\ freed => mpc \in {"abort", "giveUp", "free", "exit 0", "exit 1"}

-------------------------------------------------------------------------------
(* Main, the workers and the merge thread are never together where Order     *)
(* says they cannot be.                                                      *)
THEOREM OrderHolds == Spec => []Order
<1>1. Init => Order
  BY DEF Init, Order, MainLabels, WorkerLabels, WQ!Init, OQ!Init
<1>2. Order /\ [Next]_vars => Order'
  <2> SUFFICES ASSUME Order, [Next]_vars PROVE Order'
    OBVIOUS
  <2> USE DEF MainLabels, WorkerLabels, Ended, AllJoined, Goto, Order
  <2>1. ASSUME NEW w \in Workers, CreateWorker(w) PROVE Order'
    BY <2>1 DEF CreateWorker, outVars, file
  <2>2. ASSUME NEW f \in Files, Enqueue(f) PROVE Order'
    BY <2>2 DEF Enqueue, outVars, file
  <2>3. ASSUME CreateWorkerFails PROVE Order'
    BY <2>3 DEF CreateWorkerFails, file
  <2>4. ASSUME CreateMerge PROVE Order'
    BY <2>4 DEF CreateMerge, outVars, file
  <2>5. ASSUME CreateMergeFails PROVE Order'
    BY <2>5 DEF CreateMergeFails, outVars, file
  <2>6. ASSUME CloseWork PROVE Order'
    BY <2>6 DEF CloseWork, outVars, file
  <2>7. ASSUME JoinWorkers PROVE Order'
    <3>1. UNCHANGED <<wpc, gpc, output, freed>> /\ AllJoined /\ mpc = "join" /\ outClosed'
      BY <2>7 DEF JoinWorkers, OQ!Close, file
    <3>2. mpc' = IF gpc = "absent" THEN "giveUp" ELSE "joinMerge"
      BY <2>7 DEF JoinWorkers
    <3>3. gpc # "absent" => \A w \in Workers : Ended(w)
      BY <3>1
    <3>4. CASE gpc = "absent"
      BY <3>1, <3>2, <3>4
    <3>5. CASE gpc # "absent"
      BY <3>1, <3>2, <3>3, <3>5
    <3> QED BY <3>4, <3>5
  <2>8. ASSUME JoinMerge PROVE Order'
    BY <2>8 DEF JoinMerge, outVars, file
  <2>9. ASSUME FreeAll PROVE Order'
    BY <2>9 DEF FreeAll, outVars, file
  <2>10. ASSUME Exit PROVE Order'
    BY <2>10 DEF Exit, CloseOut, CloseResult, outVars
  <2>11. ASSUME NEW w \in Workers, Worker(w) PROVE Order'
    <3>1. \E l \in WorkerLabels \ {"absent"} : wpc' = [wpc EXCEPT ![w] = l]
      BY <2>11 DEF Worker, WorkerStep, InitWorker, GetPath, Parse, Drop, GetNoPath, PutBatch, AfterPut
    <3>2. UNCHANGED <<mpc, gpc, output, outClosed, freed>> /\ ~Ended(w) /\ wpc[w] # "absent"
      BY <2>11 DEF Worker, WorkerStep, InitWorker, GetPath, Parse, Drop, GetNoPath, PutBatch,
                   outVars, file, OQ!Put
    <3> QED BY <3>1, <3>2
  <2>12. ASSUME Merger PROVE Order'
    <3>1. UNCHANGED <<mpc, wpc, outClosed, freed>>
      BY <2>12 DEF Merger, MergeStep, Collect, CollectEnd, Write, WriteEnd, OQ!Get, OQ!GetNull,
                   outVars
    <3>2. \/ gpc = "collect" /\ gpc' \in {"collect", "print"} /\ UNCHANGED output
          \/ gpc = "print" /\ gpc' \in {"print", "done"}
      BY <2>12 DEF Merger, MergeStep, Collect, CollectEnd, Write, WriteEnd, file
    <3>3. gpc = "collect" /\ gpc' = "print" => outClosed
      BY <2>12 DEF Merger, MergeStep, Collect, CollectEnd, Write, WriteEnd, OQ!GetNull
    <3> QED BY <3>1, <3>2, <3>3
  <2>13. CASE UNCHANGED vars
    BY <2>13 DEF vars, outVars, file
  <2> QED BY <2>1, <2>2, <2>3, <2>4, <2>5, <2>6, <2>7, <2>8, <2>9, <2>10, <2>11, <2>12, <2>13
          DEF Next, Main, MainStep, Finished
<1> QED BY <1>1, <1>2, PTL DEF Spec

(* Nothing is written before the last worker has ended.                      *)
THEOREM NothingPrintsEarlyHolds == Spec => []NothingPrintsEarly
<1>1. Order => NothingPrintsEarly
  BY DEF Order, NothingPrintsEarly
<1> QED BY <1>1, OrderHolds, PTL

(* Except on the path without a joined worker, queues and cache are freed    *)
(* only when no other thread can use them.                                   *)
THEOREM FreedAfterJoinHolds == Spec => []FreedAfterJoin
<1>1. Order => FreedAfterJoin
  BY DEF Order, FreedAfterJoin, NobodyUsesThem, AllJoined, Exited
<1> QED BY <1>1, OrderHolds, PTL

-------------------------------------------------------------------------------
(* The work queue and what the workers took from it.                         *)
WorkTyped ==
  /\ todo \in SUBSET Files
  /\ work \in Seq(Files) /\ Len(work) <= QUEUE_CAPACITY
  /\ taken \in [Workers -> Seq(Files)]
  /\ workEnded \in SUBSET Workers /\ workClosed \in BOOLEAN

(* A worker that holds a path took it last.                                  *)
Holding == \A w \in Workers : wpc[w] \in {"busy", "drop"} => taken[w] # <<>>

(* What io_queue_get does to the work queue and to the paths of one worker.  *)
LEMMA TakeEffect ==
  ASSUME NEW w \in Workers, WorkTyped, WQ!Get(w)
  PROVE  /\ work # <<>> /\ work' = Tail(work) /\ work' \in Seq(Files) /\ Len(work') = Len(work) - 1
         /\ Head(work) \in Files
         /\ taken' \in [Workers -> Seq(Files)]
         /\ taken'[w] = Append(taken[w], Head(work))
         /\ \A v \in Workers : v # w => taken'[v] = taken[v]
         /\ UNCHANGED <<workClosed, workEnded>>
BY DEF WorkTyped, WQ!Get

(* No step takes the work queue out of its range, and a worker gets to       *)
(* "busy" or "drop" only by taking a path.                                   *)
LEMMA WorkStep == Order /\ WorkTyped /\ Holding /\ [Next]_vars => WorkTyped' /\ Holding'
<1> SUFFICES ASSUME Order, WorkTyped, Holding, [Next]_vars PROVE WorkTyped' /\ Holding'
  OBVIOUS
<1>0. wpc \in [Workers -> WorkerLabels]
  BY DEF Order
<1>1. ASSUME NEW f \in Files, Enqueue(f) PROVE WorkTyped' /\ Holding'
  BY <1>1, TsagAssumption DEF Enqueue, WQ!Put, WorkTyped, Holding
<1>2. ASSUME CreateWorkerFails \/ CreateMergeFails \/ CloseWork PROVE WorkTyped' /\ Holding'
  BY <1>2 DEF CreateWorkerFails, CreateMergeFails, CloseWork, WQ!Close, WorkTyped, Holding
<1>3. ASSUME NEW w \in Workers, CreateWorker(w) PROVE WorkTyped' /\ Holding'
  BY <1>0, <1>3 DEF CreateWorker, Goto, workVars, WorkTyped, Holding
<1>4. ASSUME CreateMerge \/ JoinWorkers \/ JoinMerge \/ FreeAll \/ Exit \/ Merger
      PROVE WorkTyped' /\ Holding'
  <2>1. UNCHANGED <<workVars, wpc, todo>>
    BY <1>4 DEF CreateMerge, JoinWorkers, JoinMerge, FreeAll, Exit, Merger, MergeStep,
                Collect, CollectEnd, Write, WriteEnd
  <2> QED BY <2>1 DEF workVars, WorkTyped, Holding
<1>5. ASSUME NEW w \in Workers, GetPath(w) PROVE WorkTyped' /\ Holding'
  <2>1. WQ!Get(w) /\ UNCHANGED todo
    BY <1>5 DEF GetPath
  <2>2. WorkTyped'
    <3>1. work' \in Seq(Files) /\ Len(work') = Len(work) - 1 /\ Len(work) \in Nat
      BY <2>1, TakeEffect DEF WorkTyped
    <3>2. taken' \in [Workers -> Seq(Files)] /\ UNCHANGED <<workClosed, workEnded>>
      BY <2>1, TakeEffect
    <3> QED BY <2>1, <3>1, <3>2, TsagAssumption DEF WorkTyped
  <2>3. \A v \in Workers : v # w => wpc'[v] = wpc[v]
    BY <1>0, <1>5 DEF GetPath, Goto
  <2>4. taken'[w] # <<>>
    BY <2>1, TakeEffect DEF WorkTyped
  <2> QED BY <2>1, <2>2, <2>3, <2>4, TakeEffect DEF Holding
<1>6. ASSUME NEW w \in Workers, GetNoPath(w) PROVE WorkTyped' /\ Holding'
  BY <1>0, <1>6 DEF GetNoPath, WQ!GetNull, Goto, WorkTyped, Holding
<1>7. ASSUME NEW w \in Workers, InitWorker(w) \/ Parse(w) \/ Drop(w) \/ PutBatch(w)
      PROVE WorkTyped' /\ Holding'
  <2>1. UNCHANGED <<workVars, todo>>
    BY <1>7 DEF InitWorker, Parse, Drop, PutBatch
  <2>2. \E l \in {"dead", "drain", "loop", "done"} : wpc' = [wpc EXCEPT ![w] = l]
    BY <1>7 DEF InitWorker, Parse, Drop, PutBatch, Goto, AfterPut
  <2> QED BY <1>0, <2>1, <2>2 DEF workVars, WorkTyped, Holding
<1>8. CASE UNCHANGED vars
  BY <1>8 DEF vars, workVars, WorkTyped, Holding
<1>9. CASE Main
  BY <1>1, <1>2, <1>3, <1>4, <1>9 DEF Main, MainStep
<1>10. CASE \E w \in Workers : Worker(w)
  BY <1>5, <1>6, <1>7, <1>10 DEF Worker, WorkerStep
<1> QED BY <1>4, <1>8, <1>9, <1>10 DEF Next, Finished

(* The work queue keeps its range in every reachable state.                  *)
THEOREM WorkTypeCorrect == Spec => [](WorkTyped /\ Holding)
<1>1. ASSUME Init PROVE WorkTyped /\ Holding
  <2>1. /\ work = <<>> /\ workClosed = FALSE /\ taken = [w \in Workers |-> <<>>] /\ workEnded = {}
        /\ todo = Files /\ wpc = [w \in Workers |-> "absent"]
    BY <1>1 DEF Init, WQ!Init
  <2>2. <<>> \in Seq(Files) /\ Len(<<>>) = 0
    OBVIOUS
  <2>3. WorkTyped
    <3>1. Len(work) <= QUEUE_CAPACITY
      BY <2>1, <2>2, TsagAssumption
    <3>2. work \in Seq(Files) /\ taken \in [Workers -> Seq(Files)]
      BY <2>1, <2>2
    <3> QED BY <2>1, <3>1, <3>2 DEF WorkTyped
  <2>4. Holding
    BY <2>1 DEF Holding
  <2> QED BY <2>3, <2>4
<1>2. Order /\ WorkTyped /\ Holding /\ [Next]_vars => WorkTyped' /\ Holding'
  BY WorkStep
<1> QED BY <1>1, <1>2, OrderHolds, PTL DEF Spec

-------------------------------------------------------------------------------
(* The merge queue and what went through it: never more than one LineVec of  *)
(* each worker that has ended.                                               *)
BatchesTyped ==
  /\ outq \in Seq(SUBSET Lines) /\ batches \in [{Merge} -> Seq(SUBSET Lines)]
  /\ vec \in [Workers -> SUBSET Lines]
  /\ outEnded \in SUBSET {Merge} /\ outClosed \in BOOLEAN
OneEach == Len(outq) + Len(batches[Merge]) <= Cardinality(DoneWorkers)

(* A worker that returns with its LineVec made or dropped is one more that   *)
(* is done.                                                                  *)
LEMMA MoreDone ==
  ASSUME NEW w \in Workers, wpc \in [Workers -> WorkerLabels], wpc[w] # "done",
         wpc' = [wpc EXCEPT ![w] = "done"]
  PROVE  /\ Cardinality(DoneWorkers) \in Nat
         /\ Cardinality(DoneWorkers)' = Cardinality(DoneWorkers) + 1
<1>1. DoneWorkers' = DoneWorkers \cup {w} /\ w \notin DoneWorkers
  BY DEF DoneWorkers
<1>2. IsFiniteSet(DoneWorkers)
  BY FS_Subset, TsagAssumption DEF DoneWorkers
<1> QED BY <1>1, <1>2, FS_AddElement, FS_CardinalityType

(* A worker that moves on elsewhere changes nothing about who is done.       *)
LEMMA SameDone ==
  ASSUME NEW w \in Workers, wpc \in [Workers -> WorkerLabels], wpc[w] # "done",
         NEW l \in WorkerLabels \ {"done"}, wpc' = [wpc EXCEPT ![w] = l]
  PROVE  DoneWorkers' = DoneWorkers
BY DEF DoneWorkers

(* parse_file_lines gives the worker lines of the file that it took last, or *)
(* leaves its LineVec as it was.                                             *)
LEMMA ParseAdds ==
  ASSUME NEW w \in Workers, vec \in [Workers -> SUBSET Lines], Last(taken[w]) \in Files, Parse(w)
  PROVE  /\ vec' \in [Workers -> SUBSET Lines]
         /\ \A v \in Workers : v # w => vec'[v] = vec[v]
         /\ \/ UNCHANGED <<vec, collected>>
            \/ \E S \in SUBSET LinesOf[Last(taken[w])] :
                 /\ vec'[w] = vec[w] \cup S
                 /\ collected' = [collected EXCEPT ![Last(taken[w])] = S]
                 /\ MemoryMayFail \/ S = LinesOf[Last(taken[w])]
<1>1. CASE UNCHANGED <<vec, collected>>
  BY <1>1
<1>2. CASE \E S \in SUBSET LinesOf[Last(taken[w])] :
             /\ MemoryMayFail \/ S = LinesOf[Last(taken[w])]
             /\ vec' = [vec EXCEPT ![w] = @ \cup S]
             /\ collected' = [collected EXCEPT ![Last(taken[w])] = S]
  <2>1. PICK S \in SUBSET LinesOf[Last(taken[w])] :
             /\ MemoryMayFail \/ S = LinesOf[Last(taken[w])]
             /\ vec' = [vec EXCEPT ![w] = @ \cup S]
             /\ collected' = [collected EXCEPT ![Last(taken[w])] = S]
    BY <1>2
  <2>2. S \subseteq Lines
    BY <2>1 DEF Lines
  <2>3. vec' \in [Workers -> SUBSET Lines] /\ vec'[w] = vec[w] \cup S
    BY <2>1, <2>2
  <2> QED BY <2>1, <2>3
<1> QED BY <1>1, <1>2 DEF Parse

(* Only a worker that ends with a LineVec adds to the merge queue, and it    *)
(* adds one.                                                                 *)
LEMMA OutStep ==
  Order /\ WorkTyped /\ Holding /\ BatchesTyped /\ OneEach /\ [Next]_vars => BatchesTyped' /\ OneEach'
<1> SUFFICES ASSUME Order, WorkTyped, Holding, BatchesTyped, OneEach, [Next]_vars
             PROVE BatchesTyped' /\ OneEach'
  OBVIOUS
<1>0. wpc \in [Workers -> WorkerLabels]
  BY DEF Order
<1>1. ASSUME NEW w \in Workers, CreateWorker(w) PROVE BatchesTyped' /\ OneEach'
  <2>1. wpc' = [wpc EXCEPT ![w] = "init"] /\ wpc[w] # "done" /\ UNCHANGED <<outVars, vec>>
    BY <1>1 DEF CreateWorker, Goto, data
  <2>2. DoneWorkers' = DoneWorkers
    BY <1>0, <2>1, SameDone DEF WorkerLabels
  <2> QED BY <2>1, <2>2 DEF outVars, BatchesTyped, OneEach
<1>2. ASSUME (\E f \in Files : Enqueue(f)) \/ CreateMerge \/ CreateMergeFails \/ CloseWork
               \/ JoinMerge \/ FreeAll \/ Exit
      PROVE BatchesTyped' /\ OneEach'
  <2>1. UNCHANGED <<outVars, vec, wpc>>
    BY <1>2 DEF Enqueue, CreateMerge, CreateMergeFails, CloseWork, JoinMerge, FreeAll, Exit, data
  <2> QED BY <2>1 DEF outVars, BatchesTyped, OneEach, DoneWorkers
<1>3. ASSUME CreateWorkerFails \/ JoinWorkers PROVE BatchesTyped' /\ OneEach'
  BY <1>3 DEF CreateWorkerFails, JoinWorkers, OQ!Close, data, BatchesTyped, OneEach, DoneWorkers
<1>4. ASSUME NEW w \in Workers, InitWorker(w) \/ GetPath(w) \/ Drop(w)
      PROVE BatchesTyped' /\ OneEach'
  <2>1. \E l \in WorkerLabels \ {"done"} : wpc' = [wpc EXCEPT ![w] = l]
    BY <1>4 DEF InitWorker, GetPath, Drop, Goto, WorkerLabels
  <2>2. wpc[w] # "done" /\ UNCHANGED <<outVars, vec>>
    BY <1>4 DEF InitWorker, GetPath, Drop, data
  <2>3. DoneWorkers' = DoneWorkers
    BY <1>0, <2>1, <2>2, SameDone
  <2> QED BY <2>2, <2>3 DEF outVars, BatchesTyped, OneEach
<1>5. ASSUME NEW w \in Workers, Parse(w) PROVE BatchesTyped' /\ OneEach'
  <2>1. wpc' = [wpc EXCEPT ![w] = "loop"] /\ wpc[w] = "busy" /\ UNCHANGED outVars
    BY <1>5 DEF Parse, Goto
  <2>2. DoneWorkers' = DoneWorkers
    BY <1>0, <2>1, SameDone DEF WorkerLabels
  <2>3. Last(taken[w]) \in Files
    BY <2>1 DEF Last, WorkTyped, Holding
  <2>4. vec' \in [Workers -> SUBSET Lines]
    BY <1>5, <2>3, ParseAdds DEF BatchesTyped
  <2> QED BY <2>1, <2>2, <2>4 DEF outVars, BatchesTyped, OneEach
<1>6. ASSUME NEW w \in Workers, GetNoPath(w) PROVE BatchesTyped' /\ OneEach'
  <2>1. UNCHANGED <<outVars, vec>> /\ wpc[w] \in {"loop", "drain"}
    BY <1>6 DEF GetNoPath, data
  <2>2. CASE wpc[w] = "loop"
    <3>1. wpc' = [wpc EXCEPT ![w] = "emit"]
      BY <1>6, <2>2 DEF GetNoPath, Goto
    <3>2. DoneWorkers' = DoneWorkers
      BY <1>0, <2>2, <3>1, SameDone DEF WorkerLabels
    <3> QED BY <2>1, <3>2 DEF outVars, BatchesTyped, OneEach
  <2>3. CASE wpc[w] = "drain"
    <3>1. wpc' = [wpc EXCEPT ![w] = "done"]
      BY <1>6, <2>3 DEF GetNoPath, Goto
    <3>2. Cardinality(DoneWorkers)' = Cardinality(DoneWorkers) + 1 /\ Cardinality(DoneWorkers) \in Nat
      BY <1>0, <2>3, <3>1, MoreDone
    <3> QED BY <2>1, <3>2 DEF outVars, BatchesTyped, OneEach
  <2> QED BY <2>1, <2>2, <2>3
<1>7. ASSUME NEW w \in Workers, PutBatch(w) PROVE BatchesTyped' /\ OneEach'
  <2>1. wpc' = [wpc EXCEPT ![w] = "done"] /\ wpc[w] = "emit" /\ UNCHANGED vec
    BY <1>7 DEF PutBatch, Goto, AfterPut, data
  <2>2. outq' = Append(outq, vec[w]) /\ UNCHANGED <<outClosed, batches, outEnded>>
    BY <1>7 DEF PutBatch, OQ!Put
  <2>3. Cardinality(DoneWorkers)' = Cardinality(DoneWorkers) + 1 /\ Cardinality(DoneWorkers) \in Nat
    BY <1>0, <2>1, MoreDone
  <2>4. outq' \in Seq(SUBSET Lines) /\ Len(outq') = Len(outq) + 1
    BY <2>2 DEF BatchesTyped
  <2> QED BY <2>1, <2>2, <2>3, <2>4 DEF BatchesTyped, OneEach
<1>8. ASSUME Collect PROVE BatchesTyped' /\ OneEach'
  <2>1. /\ outq # <<>> /\ outq' = Tail(outq)
        /\ batches' = [batches EXCEPT ![Merge] = Append(@, Head(outq))]
        /\ UNCHANGED <<outClosed, outEnded, vec, wpc>>
    BY <1>8 DEF Collect, OQ!Get, data
  <2>2. /\ outq' \in Seq(SUBSET Lines) /\ Len(outq') = Len(outq) - 1
        /\ Head(outq) \in SUBSET Lines
    BY <2>1 DEF BatchesTyped
  <2>3. /\ batches' \in [{Merge} -> Seq(SUBSET Lines)]
        /\ Len(batches'[Merge]) = Len(batches[Merge]) + 1
    BY <2>1, <2>2 DEF BatchesTyped
  <2> QED BY <2>1, <2>2, <2>3 DEF BatchesTyped, OneEach, DoneWorkers
<1>9. ASSUME CollectEnd PROVE BatchesTyped' /\ OneEach'
  BY <1>9 DEF CollectEnd, OQ!GetNull, data, BatchesTyped, OneEach, DoneWorkers
<1>10. ASSUME Write \/ WriteEnd PROVE BatchesTyped' /\ OneEach'
  BY <1>10 DEF Write, WriteEnd, outVars, data, BatchesTyped, OneEach, DoneWorkers
<1>11. CASE UNCHANGED vars
  BY <1>11 DEF vars, outVars, data, BatchesTyped, OneEach, DoneWorkers
<1> QED BY <1>1, <1>2, <1>3, <1>4, <1>5, <1>6, <1>7, <1>8, <1>9, <1>10, <1>11
        DEF Next, Main, MainStep, Worker, WorkerStep, Merger, MergeStep, Finished

(* There are never more batches than workers that are done.                  *)
THEOREM BatchesFit == Spec => [](BatchesTyped /\ OneEach)
<1>1. Init => BatchesTyped /\ OneEach
  <2>1. ASSUME Init PROVE BatchesTyped /\ OneEach
    <3>1. DoneWorkers = {} /\ outq = <<>> /\ batches = [g \in {Merge} |-> <<>>]
      BY <2>1 DEF Init, OQ!Init, DoneWorkers
    <3>2. BatchesTyped
      <4>1. <<>> \in Seq(SUBSET Lines)
        OBVIOUS
      <4>2. vec = [w \in Workers |-> {}] /\ outClosed = FALSE /\ outEnded = {}
        BY <2>1 DEF Init, OQ!Init
      <4> QED BY <3>1, <4>1, <4>2 DEF BatchesTyped
    <3>3. OneEach
      BY <3>1, FS_EmptySet DEF OneEach
    <3> QED BY <3>2, <3>3
  <2> QED BY <2>1
<1>2. Order /\ WorkTyped /\ Holding /\ BatchesTyped /\ OneEach /\ [Next]_vars
        => BatchesTyped' /\ OneEach'
  BY OutStep
<1> QED BY <1>1, <1>2, OrderHolds, WorkTypeCorrect, PTL DEF Spec

(* Whoever delivers finds a slot: the others that are done are fewer than    *)
(* jobs.                                                                     *)
THEOREM OutqNeverFullHolds == Spec => []OutqNeverFull
<1>1. Order /\ BatchesTyped /\ OneEach => OutqNeverFull
  <2> SUFFICES ASSUME Order, BatchesTyped, OneEach, NEW w \in Workers, wpc[w] = "emit"
               PROVE  Len(outq) < jobs
    BY DEF OutqNeverFull, OutCapacity
  <2>1. DoneWorkers \subseteq Workers \ {w} /\ IsFiniteSet(Workers \ {w})
    BY FS_RemoveElement, TsagAssumption DEF DoneWorkers
  <2>2. Cardinality(Workers \ {w}) = jobs - 1 /\ jobs \in Nat
    BY FS_RemoveElement, FS_CardinalityType, TsagAssumption DEF jobs
  <2>3. Cardinality(DoneWorkers) <= Cardinality(Workers \ {w}) /\ Cardinality(DoneWorkers) \in Nat
    BY <2>1, FS_Subset, FS_CardinalityType
  <2>4. Len(outq) \in Nat /\ Len(batches[Merge]) \in Nat
    BY DEF BatchesTyped
  <2> QED BY <2>2, <2>3, <2>4 DEF OneEach
<1> QED BY <1>1, OrderHolds, BatchesFit, PTL

-------------------------------------------------------------------------------
(* What was collected, freed and written.                                    *)
FileTyped ==
  /\ collected \in [Files -> SUBSET Lines] /\ freedPaths \in SUBSET Files /\ freed \in BOOLEAN
  /\ output \in Seq(Lines) /\ flushed \in 0..Len(output) /\ lost \in SUBSET (DOMAIN output)
  /\ toStdout \in BOOLEAN

(* A worker that holds a path has taken one, and it is one of the files.     *)
LEMMA LastTaken ==
  ASSUME WorkTyped, Holding, NEW w \in Workers, wpc[w] \in {"busy", "drop"}
  PROVE  taken[w] \in Seq(Files) /\ Len(taken[w]) \in Nat \ {0} /\ Last(taken[w]) \in Files
BY DEF WorkTyped, Holding, Last

(* What a failing flush loses is among what was written.                     *)
LEMMA FlushLoses ==
  ASSUME NEW end \in Nat, flushed \in Nat, lost \subseteq 1..end, FlushFails(end)
  PROVE  lost' \subseteq 1..end
BY DEF FlushFails

(* No step takes the output or what was collected out of its range.          *)
LEMMA FileStep == WorkTyped /\ Holding /\ BatchesTyped /\ FileTyped /\ [Next]_vars => FileTyped'
<1> SUFFICES ASSUME WorkTyped, Holding, BatchesTyped, FileTyped, [Next]_vars PROVE FileTyped'
  OBVIOUS
<1>1. ASSUME (\E w \in Workers : CreateWorker(w)) \/ (\E f \in Files : Enqueue(f))
               \/ CreateWorkerFails \/ CreateMerge \/ CreateMergeFails \/ CloseWork
               \/ JoinWorkers \/ JoinMerge \/ Collect \/ CollectEnd \/ WriteEnd
      PROVE FileTyped'
  <2>1. UNCHANGED <<collected, freedPaths, output, flushed, lost, toStdout, freed>>
    BY <1>1 DEF CreateWorker, Enqueue, CreateWorkerFails, CreateMerge, CreateMergeFails, CloseWork,
                JoinWorkers, JoinMerge, Collect, CollectEnd, WriteEnd, data, file
  <2> QED BY <2>1 DEF FileTyped
<1>2. ASSUME FreeAll PROVE FileTyped'
  BY <1>2 DEF FreeAll, data, file, FileTyped
<1>3. ASSUME NEW w \in Workers, InitWorker(w) \/ GetPath(w) \/ GetNoPath(w) \/ PutBatch(w)
      PROVE FileTyped'
  <2>1. UNCHANGED <<collected, freedPaths, output, flushed, lost, toStdout, freed>>
    BY <1>3 DEF InitWorker, GetPath, GetNoPath, PutBatch, data, file
  <2> QED BY <2>1 DEF FileTyped
<1>4. ASSUME NEW w \in Workers, Parse(w) PROVE FileTyped'
  <2>1. wpc[w] = "busy" /\ Last(taken[w]) \in Files
    BY <1>4, LastTaken DEF Parse
  <2>2. collected' \in [Files -> SUBSET Lines]
    <3>1. CASE UNCHANGED collected
      BY <3>1 DEF FileTyped
    <3>2. CASE \E S \in SUBSET LinesOf[Last(taken[w])] :
                 collected' = [collected EXCEPT ![Last(taken[w])] = S]
      BY <2>1, <3>2 DEF FileTyped, Lines
    <3> QED BY <1>4, <2>1, <3>1, <3>2, ParseAdds DEF BatchesTyped
  <2>3. UNCHANGED <<output, flushed, lost, toStdout, freed>> /\ freedPaths' \in SUBSET Files
    BY <1>4, <2>1 DEF Parse, FreesPath, file, FileTyped
  <2> QED BY <2>2, <2>3 DEF FileTyped
<1>5. ASSUME NEW w \in Workers, Drop(w) PROVE FileTyped'
  <2>1. wpc[w] = "drop" /\ Last(taken[w]) \in Files
    BY <1>5, LastTaken DEF Drop
  <2> QED BY <1>5, <2>1 DEF Drop, FreesPath, file, FileTyped
<1>6. ASSUME Write PROVE FileTyped'
  <2>1. PICK n \in Lines : output' = Append(output, n)
    BY <1>6 DEF Write, Unwritten
  <2>2. /\ output' \in Seq(Lines) /\ Len(output') = Len(output) + 1 /\ Len(output) \in Nat
        /\ DOMAIN output = 1..Len(output) /\ DOMAIN output' = 1..Len(output')
    BY <2>1 DEF FileTyped
  <2>3. flushed' \in 0..Len(output')
    BY <1>6, <2>2 DEF Write, FileTyped
  <2>4. lost' \subseteq 1..Len(output')
    <3>1. lost \subseteq 1..Len(output') /\ flushed \in Nat /\ Len(output') \in Nat
      BY <2>2 DEF FileTyped
    <3>2. UNCHANGED lost \/ FlushFails(Len(output'))
      BY <1>6 DEF Write
    <3> QED BY <3>1, <3>2, FlushLoses
  <2> QED BY <1>6, <2>2, <2>3, <2>4 DEF Write, data, FileTyped
<1>7. ASSUME Exit PROVE FileTyped'
  <2>1. /\ UNCHANGED <<collected, freedPaths, output, toStdout, freed>>
        /\ flushed' \in {flushed, Len(output)}
        /\ UNCHANGED lost \/ FlushFails(Len(output))
    BY <1>7 DEF Exit, CloseOut, data
  <2>2. lost \subseteq 1..Len(output) /\ flushed \in Nat /\ Len(output) \in Nat
    BY DEF FileTyped
  <2>3. lost' \subseteq 1..Len(output)
    BY <2>1, <2>2, FlushLoses
  <2> QED BY <2>1, <2>2, <2>3 DEF FileTyped
<1>8. CASE UNCHANGED vars
  BY <1>8 DEF vars, data, file, FileTyped
<1>9. CASE Main
  BY <1>1, <1>2, <1>7, <1>9 DEF Main, MainStep
<1>10. CASE \E w \in Workers : Worker(w)
  BY <1>3, <1>4, <1>5, <1>10 DEF Worker, WorkerStep
<1>11. CASE Merger
  BY <1>1, <1>6, <1>11 DEF Merger, MergeStep
<1> QED BY <1>8, <1>9, <1>10, <1>11 DEF Next, Finished

(* The output and what was collected keep their range in every reachable     *)
(* state.                                                                    *)
THEOREM FilesCorrect == Spec => []FileTyped
<1>1. Init => FileTyped
  <2>1. <<>> \in Seq(Lines) /\ Len(<<>>) = 0 /\ 0 \in 0..0
    OBVIOUS
  <2>2. Init => collected \in [Files -> SUBSET Lines]
    BY DEF Init
  <2>3. Init => output \in Seq(Lines) /\ flushed \in 0..Len(output)
    BY <2>1 DEF Init
  <2>4. Init => lost \in SUBSET (DOMAIN output) /\ toStdout \in BOOLEAN
    BY DEF Init
  <2>5. Init => freedPaths \in SUBSET Files /\ freed \in BOOLEAN
    BY DEF Init
  <2> QED BY <2>2, <2>3, <2>4, <2>5 DEF FileTyped
<1>2. WorkTyped /\ Holding /\ BatchesTyped /\ FileTyped /\ [Next]_vars => FileTyped'
  BY FileStep
<1> QED BY <1>1, <1>2, WorkTypeCorrect, BatchesFit, PTL DEF Spec

(* Every variable keeps its range; with OneEach, the merge thread never has  *)
(* more batches than threads were created.                                   *)
THEOREM TypeCorrect == Spec => []TypeOK
<1>1. Order /\ WorkTyped /\ BatchesTyped /\ OneEach /\ FileTyped => TypeOK
  <2> SUFFICES ASSUME Order, WorkTyped, BatchesTyped, OneEach, FileTyped PROVE TypeOK
    OBVIOUS
  <2>1. Cardinality(DoneWorkers) <= jobs /\ Cardinality(DoneWorkers) \in Nat /\ jobs \in Nat
    BY FS_Subset, FS_CardinalityType, TsagAssumption DEF DoneWorkers, jobs
  <2>2. Len(outq) \in Nat /\ Len(batches[Merge]) \in Nat
    BY DEF BatchesTyped
  <2>3. Len(outq) + Len(batches[Merge]) <= jobs
    BY <2>1, <2>2 DEF OneEach
  <2> QED BY <2>3 DEF Order, MainLabels, WorkerLabels, WorkTyped, BatchesTyped, FileTyped, TypeOK
<1> QED BY <1>1, OrderHolds, WorkTypeCorrect, BatchesFit, FilesCorrect, PTL

-------------------------------------------------------------------------------
(* The paths: each is in one place only, none gets lost on the way to a      *)
(* worker, and a worker holds at most the one that it took last.             *)
NoneTwice ==
  /\ \A v, w \in Workers : \A i \in DOMAIN taken[v], j \in DOMAIN taken[w] :
       taken[v][i] = taken[w][j] => v = w /\ i = j
  /\ \A i, j \in DOMAIN work : work[i] = work[j] => i = j
  /\ \A w \in Workers : \A i \in DOMAIN taken[w] :
       taken[w][i] \notin todo /\ \A j \in DOMAIN work : taken[w][i] # work[j]
  /\ \A j \in DOMAIN work : work[j] \notin todo
NoneLost ==
  \A f \in Files : \/ f \in todo
                   \/ \E i \in DOMAIN work : work[i] = f
                   \/ \E w \in Workers : \E i \in DOMAIN taken[w] : taken[w][i] = f
FreedButLast ==
  \A w \in Workers : \A i \in DOMAIN taken[w] :
    taken[w][i] \in freedPaths \/ (wpc[w] \in {"busy", "drop"} /\ i = Len(taken[w]))

(* What main's progress says about the work queue.                           *)
Feeding ==
  /\ mpc \in {"spawn", "enqueue"} => ~workClosed
  /\ gpc # "absent" /\ mpc # "enqueue" => todo = {}
  /\ (\E w \in Workers : wpc[w] \in {"emit", "done"}) => workClosed /\ work = <<>>

PathInv == NoneTwice /\ NoneLost /\ FreedButLast /\ Feeding

(* io_queue_get moves the first path of the queue behind those the worker    *)
(* took before, and moves nothing else.                                      *)
LEMMA TakeMoves ==
  ASSUME NEW w \in Workers, WorkTyped, WQ!Get(w)
  PROVE  /\ 1 \in DOMAIN work
         /\ \A i \in DOMAIN work' : i + 1 \in DOMAIN work /\ work'[i] = work[i + 1]
         /\ \A i \in DOMAIN work : i = 1 \/ (i - 1 \in DOMAIN work' /\ work'[i - 1] = work[i])
         /\ \A v \in Workers : \A i \in DOMAIN taken[v] :
              i \in DOMAIN taken'[v] /\ taken'[v][i] = taken[v][i]
         /\ Len(taken'[w]) \in DOMAIN taken'[w] /\ taken'[w][Len(taken'[w])] = work[1]
         /\ \A v \in Workers : \A i \in DOMAIN taken'[v] :
              \/ i \in DOMAIN taken[v] /\ taken'[v][i] = taken[v][i]
              \/ v = w /\ i = Len(taken'[w]) /\ i \notin DOMAIN taken[w]
<1>1. /\ work # <<>> /\ work' = Tail(work) /\ work \in Seq(Files)
      /\ taken'[w] = Append(taken[w], Head(work)) /\ taken[w] \in Seq(Files)
      /\ \A v \in Workers : v # w => taken'[v] = taken[v]
  BY TakeEffect DEF WorkTyped
<1>2. 1 \in DOMAIN work /\ Head(work) = work[1]
  BY <1>1
<1>3. /\ \A i \in DOMAIN work' : i + 1 \in DOMAIN work /\ work'[i] = work[i + 1]
      /\ \A i \in DOMAIN work : i = 1 \/ (i - 1 \in DOMAIN work' /\ work'[i - 1] = work[i])
  BY <1>1
<1>4. /\ \A i \in DOMAIN taken[w] : i \in DOMAIN taken'[w] /\ taken'[w][i] = taken[w][i]
      /\ Len(taken'[w]) \in DOMAIN taken'[w] /\ taken'[w][Len(taken'[w])] = work[1]
      /\ \A i \in DOMAIN taken'[w] :
           \/ i \in DOMAIN taken[w] /\ taken'[w][i] = taken[w][i]
           \/ i = Len(taken'[w]) /\ i \notin DOMAIN taken[w]
  BY <1>1, <1>2
<1> QED BY <1>1, <1>2, <1>3, <1>4

(* The empty sequence has no position.                                       *)
LEMMA EmptyDomain == ASSUME NEW S, NEW s \in Seq(S), s = <<>> PROVE \A i \in DOMAIN s : FALSE
OBVIOUS

(* Every step keeps each path in one place and its worker answerable for it. *)
LEMMA PathStep == Order /\ WorkTyped /\ Holding /\ PathInv /\ [Next]_vars => PathInv'
<1> SUFFICES ASSUME Order, WorkTyped, Holding, PathInv, [Next]_vars PROVE PathInv'
  OBVIOUS
<1>0. wpc \in [Workers -> WorkerLabels]
  BY DEF Order
<1>1. ASSUME NEW f \in Files, Enqueue(f) PROVE PathInv'
  <2>1. /\ mpc = "enqueue" /\ f \in todo /\ todo' = todo \ {f}
        /\ work' = Append(work, f) /\ UNCHANGED <<mpc, wpc, gpc, workClosed, taken, freedPaths>>
    BY <1>1 DEF Enqueue, WQ!Put, data
  <2>2. /\ \A i \in DOMAIN work : i \in DOMAIN work' /\ work'[i] = work[i]
        /\ Len(work) + 1 \in DOMAIN work' /\ work'[Len(work) + 1] = f
        /\ \A i \in DOMAIN work' : (i \in DOMAIN work /\ work'[i] = work[i]) \/ i = Len(work) + 1
    BY <2>1 DEF WorkTyped
  <2>3. NoneTwice'
    BY <2>1, <2>2 DEF PathInv, NoneTwice
  <2>4. NoneLost'
    BY <2>1, <2>2 DEF PathInv, NoneLost
  <2>5. FreedButLast'
    BY <2>1 DEF PathInv, FreedButLast
  <2>6. Feeding'
    BY <2>1 DEF PathInv, Feeding
  <2> QED BY <2>3, <2>4, <2>5, <2>6 DEF PathInv
<1>2. ASSUME CreateWorkerFails \/ CreateMergeFails \/ CloseWork PROVE PathInv'
  <2>1. /\ UNCHANGED <<todo, work, taken, wpc, gpc, freedPaths>> /\ workClosed' = TRUE
        /\ mpc' \in {"abort", "join"} /\ (mpc = "spawn" \/ todo = {})
    BY <1>2 DEF CreateWorkerFails, CreateMergeFails, CloseWork, WQ!Close, data
  <2>2. Feeding'
    BY <2>1 DEF PathInv, Feeding, Order
  <2> QED BY <2>1, <2>2 DEF PathInv, NoneTwice, NoneLost, FreedButLast
<1>3. ASSUME NEW w \in Workers, CreateWorker(w) \/ InitWorker(w) PROVE PathInv'
  <2>1. /\ \E l \in {"init", "dead", "drain", "loop"} : wpc' = [wpc EXCEPT ![w] = l]
        /\ wpc[w] \in {"absent", "init"}
        /\ UNCHANGED <<mpc, gpc, todo, work, workClosed, taken, freedPaths>>
    BY <1>3 DEF CreateWorker, InitWorker, Goto, workVars, data
  <2>2. /\ \A v \in Workers : wpc'[v] \in {"emit", "done"} => wpc[v] \in {"emit", "done"}
        /\ \A v \in Workers : wpc[v] \in {"busy", "drop"} => wpc'[v] \in {"busy", "drop"}
    BY <1>0, <2>1
  <2> QED BY <2>1, <2>2 DEF PathInv, NoneTwice, NoneLost, FreedButLast, Feeding
<1>4. ASSUME CreateMerge \/ JoinWorkers \/ JoinMerge \/ FreeAll \/ Exit \/ Merger PROVE PathInv'
  <2>1. UNCHANGED <<todo, work, workClosed, taken, wpc, freedPaths>>
    BY <1>4 DEF CreateMerge, JoinWorkers, JoinMerge, FreeAll, Exit, Merger, MergeStep,
                Collect, CollectEnd, Write, WriteEnd, workVars, data
  <2>2. /\ mpc' \in {"spawn", "enqueue"} => mpc \in {"spawn", "enqueue"}
        /\ gpc' # "absent" /\ mpc' # "enqueue" => gpc # "absent" /\ mpc # "enqueue"
    BY <1>4 DEF CreateMerge, JoinWorkers, JoinMerge, FreeAll, Exit, CloseOut, CloseResult, Merger, MergeStep,
                Collect, CollectEnd, Write, WriteEnd
  <2> QED BY <2>1, <2>2 DEF PathInv, NoneTwice, NoneLost, FreedButLast, Feeding
<1>5. ASSUME NEW w \in Workers, GetPath(w) PROVE PathInv'
  <2>1. WQ!Get(w) /\ wpc[w] \in {"loop", "drain"} /\ UNCHANGED <<mpc, gpc, todo, freedPaths>>
    BY <1>5 DEF GetPath, data
  <2>2. work # <<>> /\ UNCHANGED workClosed /\ \A v \in Workers : v # w => taken'[v] = taken[v]
    BY <2>1, TakeEffect
  <2>3. wpc'[w] \in {"busy", "drop"} /\ \A v \in Workers : v # w => wpc'[v] = wpc[v]
    BY <1>0, <1>5 DEF GetPath, Goto
  <2>4. NoneTwice'
    BY <2>1, TakeMoves DEF PathInv, NoneTwice
  <2>5. NoneLost'
    BY <2>1, TakeMoves DEF PathInv, NoneLost
  <2>6. FreedButLast'
    BY <2>1, <2>2, <2>3, TakeMoves DEF PathInv, FreedButLast
  <2>7. Feeding'
    BY <2>1, <2>2, <2>3 DEF PathInv, Feeding
  <2> QED BY <2>4, <2>5, <2>6, <2>7 DEF PathInv
<1>6. ASSUME NEW w \in Workers, GetNoPath(w) \/ PutBatch(w) PROVE PathInv'
  <2>1. /\ \E l \in {"emit", "done"} : wpc' = [wpc EXCEPT ![w] = l]
        /\ wpc[w] \in {"loop", "drain", "emit"}
        /\ UNCHANGED <<mpc, gpc, todo, work, workClosed, taken, freedPaths>>
        /\ wpc[w] # "emit" => workClosed /\ work = <<>>
    BY <1>6 DEF GetNoPath, PutBatch, WQ!GetNull, Goto, AfterPut, workVars, data
  <2>2. \A v \in Workers : wpc[v] \in {"busy", "drop"} => wpc'[v] \in {"busy", "drop"}
    BY <1>0, <2>1
  <2>3. Feeding'
    BY <1>0, <2>1 DEF PathInv, Feeding
  <2> QED BY <2>1, <2>2, <2>3 DEF PathInv, NoneTwice, NoneLost, FreedButLast
<1>7. ASSUME NEW w \in Workers, Parse(w) \/ Drop(w) PROVE PathInv'
  <2>1. /\ wpc[w] \in {"busy", "drop"} /\ freedPaths' = freedPaths \cup {taken[w][Len(taken[w])]}
        /\ \E l \in {"loop", "drain"} : wpc' = [wpc EXCEPT ![w] = l]
        /\ UNCHANGED <<mpc, gpc, todo, work, workClosed, taken>>
    BY <1>7 DEF Parse, Drop, Goto, FreesPath, Last, workVars
  <2>2. wpc'[w] \in {"loop", "drain"} /\ \A v \in Workers : v # w => wpc'[v] = wpc[v]
    BY <1>0, <2>1
  <2> QED BY <2>1, <2>2 DEF PathInv, NoneTwice, NoneLost, FreedButLast, Feeding
<1>8. CASE UNCHANGED vars
  BY <1>8 DEF vars, workVars, data, PathInv, NoneTwice, NoneLost, FreedButLast, Feeding
<1>9. CASE Main
  BY <1>1, <1>2, <1>3, <1>4, <1>9 DEF Main, MainStep
<1>10. CASE \E w \in Workers : Worker(w)
  BY <1>3, <1>5, <1>6, <1>7, <1>10 DEF Worker, WorkerStep
<1> QED BY <1>4, <1>8, <1>9, <1>10 DEF Next, Finished

(* Every path is freed by exactly the worker that got it, and none is left   *)
(* when the program succeeds, unless no worker could start.                  *)
THEOREM PathsFreedHolds == Spec => []PathsFreed
<1>1. Init => PathInv
  BY DEF Init, WQ!Init, PathInv, NoneTwice, NoneLost, FreedButLast, Feeding
<1>2. Order /\ WorkTyped /\ Holding /\ PathInv /\ [Next]_vars => PathInv'
  BY PathStep
<1>3. Order /\ WorkTyped /\ FileTyped /\ PathInv => PathsFreed
  <2> SUFFICES ASSUME Order, WorkTyped, FileTyped, PathInv, mpc = "exit 0", ~AllDead
               PROVE  freedPaths = Files
    BY DEF PathInv, NoneTwice, PathsFreed
  <2>1. gpc = "done" /\ AllJoined /\ \A w \in Workers : wpc[w] # "absent"
    BY DEF Order
  <2>2. PICK w \in Workers : wpc[w] = "done"
    BY <2>1 DEF AllDead, AllJoined, Ended
  <2>3. todo = {} /\ work = <<>>
    BY <2>1, <2>2 DEF PathInv, Feeding
  <2>4. \A i \in DOMAIN work : FALSE
    BY <2>3, EmptyDomain DEF WorkTyped
  <2>5. ASSUME NEW f \in Files PROVE f \in freedPaths
    <3>1. PICK v \in Workers : \E i \in DOMAIN taken[v] : taken[v][i] = f
      BY <2>3, <2>4 DEF PathInv, NoneLost
    <3>2. wpc[v] \notin {"busy", "drop"}
      BY <2>1 DEF AllJoined, Ended
    <3> QED BY <3>1, <3>2 DEF PathInv, FreedButLast
  <2> QED BY <2>5 DEF FileTyped
<1> QED BY <1>1, <1>2, <1>3, OrderHolds, WorkTypeCorrect, FilesCorrect, PTL DEF Spec

-------------------------------------------------------------------------------
(* Tsag implements TagsFile.                                                 *)

(* The LineVecs that workers delivered, first those collected, then those in *)
(* the merge queue.                                                          *)
Deliveries == batches[Merge] \o outq

(* Each was delivered by a worker of its own, which is done, and a worker    *)
(* that is done has delivered its lines if it has any.                       *)
DeliveredBy(g) ==
  /\ g \in [DOMAIN Deliveries -> Workers]
  /\ \A j, k \in DOMAIN Deliveries : g[j] = g[k] => j = k
  /\ \A k \in DOMAIN Deliveries : wpc[g[k]] = "done" /\ Deliveries[k] = vec[g[k]]
  /\ \A w \in Workers : wpc[w] = "done" => vec[w] = {} \/ \E k \in DOMAIN Deliveries : g[k] = w
Delivered == \E g : DeliveredBy(g)

(* A worker has lines of files it took, what was collected is with a worker, *)
(* and nothing was of a path that no worker took or that one just took.      *)
LinesKept ==
  /\ \A w \in Workers : \A n \in vec[w] : \E i \in DOMAIN taken[w] : n \in collected[taken[w][i]]
  /\ \A f \in Files : \A n \in collected[f] : \E w \in Workers : n \in vec[w]
  /\ \A w \in Workers : wpc[w] \in {"absent", "init", "dead", "drain", "drop"} => vec[w] = {}
Once ==
  /\ \A f \in Files : collected[f] # {} => \E w \in Workers : \E i \in DOMAIN taken[w] : taken[w][i] = f
  /\ \A w \in Workers : wpc[w] \in {"busy", "drop"} => collected[Last(taken[w])] = {}

(* What is still to be written is not less than what was written, and the    *)
(* merge thread stops only when nothing is.                                  *)
InOrder ==
  /\ output # <<>> => \A m \in Unwritten : Last(output) <= m
  /\ gpc = "done" => Unwritten = {}
  /\ gpc \in {"print", "done"} => outq = <<>>

(* The invariants of Tsag_proofs that the proofs below use.                  *)
Known == /\ Order /\ WorkTyped /\ Holding /\ BatchesTyped /\ OneEach /\ FileTyped /\ PathInv

(* The invariants of Tsag_proofs hold together.                              *)
THEOREM KnownHolds == Spec => []Known
<1>1. Init => PathInv
  BY DEF Init, WQ!Init, PathInv, NoneTwice, NoneLost, FreedButLast, Feeding
<1>2. Order /\ WorkTyped /\ Holding /\ PathInv /\ [Next]_vars => PathInv'
  BY PathStep
<1>3. Spec => []PathInv
  BY <1>1, <1>2, OrderHolds, WorkTypeCorrect, PTL DEF Spec
<1> QED BY <1>3, OrderHolds, WorkTypeCorrect, BatchesFit, FilesCorrect, PTL DEF Known

-------------------------------------------------------------------------------
(* io_queue_get moves a LineVec from the queue to batches[].                 *)
LEMMA CollectMoves == BatchesTyped /\ Collect => Deliveries' = Deliveries
<1> SUFFICES ASSUME BatchesTyped, Collect PROVE Deliveries' = Deliveries
  OBVIOUS
<1> DEFINE b == batches[Merge]
<1>1. /\ outq # <<>> /\ outq' = Tail(outq) /\ b' = Append(b, Head(outq))
      /\ outq \in Seq(SUBSET Lines) /\ b \in Seq(SUBSET Lines)
  BY DEF Collect, OQ!Get, BatchesTyped
<1>2. /\ Head(outq) \in SUBSET Lines /\ Tail(outq) \in Seq(SUBSET Lines)
      /\ outq = <<Head(outq)>> \o Tail(outq)
  <2>1. /\ Head(outq) \in SUBSET Lines /\ Tail(outq) \in Seq(SUBSET Lines)
        /\ Len(Tail(outq)) = Len(outq) - 1 /\ Len(outq) \in Nat \ {0} /\ Head(outq) = outq[1]
        /\ \A i \in 1..Len(Tail(outq)) : Tail(outq)[i] = outq[i + 1]
    BY <1>1
  <2>2. <<Head(outq)>> \in Seq(SUBSET Lines) /\ Len(<<Head(outq)>>) = 1
    BY <2>1
  <2>3. /\ <<Head(outq)>> \o Tail(outq) \in Seq(SUBSET Lines)
        /\ Len(<<Head(outq)>> \o Tail(outq)) = 1 + Len(Tail(outq))
        /\ \A i \in 1..1 + Len(Tail(outq)) : (<<Head(outq)>> \o Tail(outq))[i] =
             IF i <= 1 THEN <<Head(outq)>>[i] ELSE Tail(outq)[i - 1]
    BY <2>1, <2>2, ConcatProperties
  <2>4. \A i \in 1..Len(outq) : (<<Head(outq)>> \o Tail(outq))[i] = outq[i]
    BY <2>1, <2>3
  <2>5. Len(<<Head(outq)>> \o Tail(outq)) = Len(outq)
    BY <2>1, <2>3
  <2>6. \A t \in Seq(SUBSET Lines) : Len(t) = Len(outq) /\ (\A i \in 1..Len(outq) : t[i] = outq[i]) => t = outq
    BY <1>1, SeqEqual
  <2>7. <<Head(outq)>> \o Tail(outq) = outq
    BY <2>3, <2>4, <2>5, <2>6, Zenon
  <2> QED BY <2>1, <2>7, Zenon
<1>3. b' = b \o <<Head(outq)>>
  BY <1>1, <1>2, AppendIsConcat
<1>4. b \o outq = b \o (<<Head(outq)>> \o Tail(outq))
  BY <1>2
<1>5. (b \o <<Head(outq)>>) \o Tail(outq) = b \o (<<Head(outq)>> \o Tail(outq))
  BY <1>1, <1>2, ConcatAssociative
<1> QED BY <1>1, <1>3, <1>4, <1>5 DEF Deliveries

(* io_queue_put adds one.                                                    *)
LEMMA PutAdds ==
  ASSUME BatchesTyped, NEW w \in Workers, PutBatch(w)
  PROVE  Deliveries \in Seq(SUBSET Lines) /\ Deliveries' = Append(Deliveries, vec[w])
<1> DEFINE b == batches[Merge]
<1>1. /\ outq' = Append(outq, vec[w]) /\ b' = b /\ vec[w] \in SUBSET Lines
      /\ outq \in Seq(SUBSET Lines) /\ b \in Seq(SUBSET Lines)
  BY DEF PutBatch, OQ!Put, BatchesTyped
<1>2. b \o outq \in Seq(SUBSET Lines)
  BY <1>1
<1>3. outq' = outq \o <<vec[w]>> /\ Append(b \o outq, vec[w]) = (b \o outq) \o <<vec[w]>>
  BY <1>1, <1>2, AppendIsConcat
<1>4. (b \o outq) \o <<vec[w]>> = b \o (outq \o <<vec[w]>>)
  <2>1. <<vec[w]>> \in Seq(SUBSET Lines)
    BY <1>1
  <2>2. \A s, t, u \in Seq(SUBSET Lines) : (s \o t) \o u = s \o (t \o u)
    BY ConcatAssociative
  <2> QED BY <1>1, <2>1, <2>2, Zenon
<1> QED BY <1>1, <1>2, <1>3, <1>4 DEF Deliveries

-------------------------------------------------------------------------------
(* Only Parse changes a LineVec, and only while the worker holds the path    *)
(* that it took last.                                                        *)
LEMMA LinesKeptStep == Known /\ LinesKept /\ Once /\ [Next]_vars => LinesKept'
<1> SUFFICES ASSUME Known, LinesKept, Once, [Next]_vars PROVE LinesKept'
  OBVIOUS
<1>0. wpc \in [Workers -> WorkerLabels] /\ WorkTyped /\ Holding /\ BatchesTyped /\ FileTyped
  BY DEF Known, Order
<1> DEFINE NoLines == {"absent", "init", "dead", "drain", "drop"}
<1>1. ASSUME NEW w \in Workers, GetPath(w) PROVE LinesKept'
  <2>1. UNCHANGED <<vec, collected>> /\ WQ!Get(w)
    BY <1>1 DEF GetPath, data
  <2>2. \A v \in Workers : \A i \in DOMAIN taken[v] : i \in DOMAIN taken'[v] /\ taken'[v][i] = taken[v][i]
    BY <1>0, <2>1, TakeMoves
  <2>3. \A v \in Workers : wpc'[v] \in NoLines => wpc[v] \in NoLines
    BY <1>0, <1>1 DEF GetPath, Goto
  <2> QED BY <2>1, <2>2, <2>3 DEF LinesKept
<1>2. ASSUME NEW w \in Workers, Parse(w) PROVE LinesKept'
  <2> DEFINE f == Last(taken[w])
  <2>1. wpc[w] = "busy" /\ wpc' = [wpc EXCEPT ![w] = "loop"] /\ UNCHANGED taken
    BY <1>2 DEF Parse, Goto, workVars
  <2>2. Len(taken[w]) \in DOMAIN taken[w] /\ taken[w][Len(taken[w])] = f /\ f \in Files
    BY <1>0, <2>1 DEF WorkTyped, Holding, Last
  <2>3. \A v \in Workers : wpc'[v] \in NoLines => wpc[v] \in NoLines /\ v # w
    BY <1>0, <2>1
  <2>4. CASE UNCHANGED <<vec, collected>>
    BY <2>1, <2>3, <2>4 DEF LinesKept
  <2>5. ASSUME NEW S \in SUBSET LinesOf[f], vec'[w] = vec[w] \cup S,
               collected' = [collected EXCEPT ![f] = S], \A v \in Workers : v # w => vec'[v] = vec[v]
        PROVE  LinesKept'
    <3>0. collected[f] = {} /\ collected'[f] = S /\ \A g \in Files : g # f => collected'[g] = collected[g]
      BY <1>0, <2>1, <2>2, <2>5 DEF Once, FileTyped
    <3>1. ASSUME NEW v \in Workers, NEW n \in vec'[v]
          PROVE  \E i \in DOMAIN taken[v] : n \in collected'[taken[v][i]]
      <4>1. CASE n \in vec[v]
        <5>1. PICK i \in DOMAIN taken[v] : n \in collected[taken[v][i]]
          BY <4>1 DEF LinesKept
        <5>2. taken[v][i] \in Files /\ taken[v][i] # f
          BY <1>0, <3>0, <5>1 DEF WorkTyped
        <5> QED BY <3>0, <5>1, <5>2
      <4>2. CASE n \notin vec[v]
        <5>1. v = w /\ n \in S
          BY <2>5, <4>2
        <5> QED BY <2>2, <3>0, <5>1
      <4> QED BY <4>1, <4>2
    <3>2. ASSUME NEW g \in Files, NEW n \in collected'[g] PROVE \E v \in Workers : n \in vec'[v]
      <4>1. CASE g = f
        BY <2>5, <3>0, <4>1
      <4>2. CASE g # f
        <5>1. PICK v \in Workers : n \in vec[v]
          BY <3>0, <4>2 DEF LinesKept
        <5> QED BY <2>5, <5>1
      <4> QED BY <4>1, <4>2
    <3>3. \A v \in Workers : wpc'[v] \in NoLines => vec'[v] = {}
      BY <2>3, <2>5 DEF LinesKept
    <3> QED BY <2>1, <3>1, <3>2, <3>3 DEF LinesKept
  <2> QED BY <1>0, <1>2, <2>2, <2>4, <2>5, ParseAdds DEF BatchesTyped
<1>3. ASSUME NEW w \in Workers,
             CreateWorker(w) \/ InitWorker(w) \/ Drop(w) \/ GetNoPath(w) \/ PutBatch(w)
      PROVE LinesKept'
  <2>1. UNCHANGED <<vec, collected, taken>>
    BY <1>3 DEF CreateWorker, InitWorker, Drop, GetNoPath, PutBatch, WQ!GetNull, workVars, data
  <2>2. \/ wpc[w] \in NoLines /\ \E l \in WorkerLabels : wpc' = [wpc EXCEPT ![w] = l]
        \/ \E l \in {"emit", "done"} : wpc' = [wpc EXCEPT ![w] = l]
    BY <1>3 DEF CreateWorker, InitWorker, Drop, GetNoPath, PutBatch, Goto, AfterPut, WorkerLabels
  <2>3. \A v \in Workers : wpc'[v] \in NoLines => wpc[v] \in NoLines
    BY <1>0, <2>2
  <2> QED BY <2>1, <2>3 DEF LinesKept
<1>4. ASSUME (\E f \in Files : Enqueue(f)) \/ CreateWorkerFails \/ CreateMerge \/ CreateMergeFails
               \/ CloseWork \/ JoinWorkers \/ JoinMerge \/ FreeAll \/ Exit \/ Merger
      PROVE LinesKept'
  <2>1. UNCHANGED <<vec, collected, taken, wpc>>
    BY <1>4 DEF Enqueue, CreateWorkerFails, CreateMerge, CreateMergeFails, CloseWork, JoinWorkers,
                JoinMerge, FreeAll, Exit, Merger, MergeStep, Collect, CollectEnd, Write, WriteEnd,
                WQ!Put, WQ!Close, workVars, data
  <2> QED BY <2>1 DEF LinesKept
<1>5. CASE UNCHANGED vars
  BY <1>5 DEF vars, workVars, data, LinesKept
<1>6. CASE Main
  BY <1>3, <1>4, <1>6 DEF Main, MainStep
<1>7. CASE \E w \in Workers : Worker(w)
  BY <1>1, <1>2, <1>3, <1>7 DEF Worker, WorkerStep
<1> QED BY <1>4, <1>5, <1>6, <1>7 DEF Next, Finished

(* A worker that takes a path takes one that nobody took before, and it      *)
(* alone adds lines of that path.                                            *)
LEMMA OnceStep == Known /\ Once /\ [Next]_vars => Once'
<1> SUFFICES ASSUME Known, Once, [Next]_vars PROVE Once'
  OBVIOUS
<1>0. /\ wpc \in [Workers -> WorkerLabels] /\ WorkTyped /\ Holding /\ BatchesTyped /\ FileTyped
      /\ NoneTwice
  BY DEF Known, Order, PathInv
<1> DEFINE Held == {"busy", "drop"}
<1>1. ASSUME NEW w \in Workers, GetPath(w) PROVE Once'
  <2>1. UNCHANGED collected /\ WQ!Get(w)
    BY <1>1 DEF GetPath, data
  <2>2. \A v \in Workers : \A i \in DOMAIN taken[v] : i \in DOMAIN taken'[v] /\ taken'[v][i] = taken[v][i]
    BY <1>0, <2>1, TakeMoves
  <2>3. \A v \in Workers : v # w => wpc'[v] = wpc[v] /\ taken'[v] = taken[v]
    BY <1>0, <1>1, <2>1, TakeEffect DEF GetPath, Goto
  <2>4. Last(taken'[w]) = work[1] /\ 1 \in DOMAIN work /\ work[1] \in Files
    BY <1>0, <2>1, TakeMoves DEF Last, WorkTyped
  <2>5. collected[work[1]] = {}
    BY <1>0, <2>4 DEF NoneTwice, Once
  <2>6. \A v \in Workers : wpc'[v] \in Held => collected[Last(taken'[v])] = {}
    BY <2>3, <2>4, <2>5 DEF Once, Last
  <2> QED BY <2>1, <2>2, <2>6 DEF Once, Last
<1>2. ASSUME NEW w \in Workers, Parse(w) PROVE Once'
  <2> DEFINE f == Last(taken[w])
  <2>1. wpc[w] = "busy" /\ wpc' = [wpc EXCEPT ![w] = "loop"] /\ UNCHANGED taken
    BY <1>2 DEF Parse, Goto, workVars
  <2>2. Len(taken[w]) \in DOMAIN taken[w] /\ taken[w][Len(taken[w])] = f /\ f \in Files
    BY <1>0, <2>1 DEF WorkTyped, Holding, Last
  <2>3. \A g \in Files : g # f => collected'[g] = collected[g]
    <3>1. CASE UNCHANGED collected
      BY <3>1
    <3>2. CASE \E S \in SUBSET LinesOf[f] : collected' = [collected EXCEPT ![f] = S]
      BY <1>0, <3>2 DEF FileTyped
    <3> QED BY <1>0, <1>2, <2>2, <3>1, <3>2, ParseAdds DEF BatchesTyped
  <2>4. ASSUME NEW v \in Workers, wpc'[v] \in Held PROVE collected'[Last(taken[v])] = {}
    <3>1. v # w /\ wpc[v] \in Held
      BY <1>0, <2>1, <2>4
    <3>2. Len(taken[v]) \in DOMAIN taken[v] /\ taken[v][Len(taken[v])] = Last(taken[v]) /\ Last(taken[v]) \in Files
      BY <1>0, <3>1 DEF WorkTyped, Holding, Last
    <3>3. Last(taken[v]) # f
      BY <1>0, <2>2, <3>1, <3>2 DEF NoneTwice
    <3> QED BY <2>3, <3>1, <3>2, <3>3 DEF Once
  <2>5. ASSUME NEW g \in Files, collected'[g] # {}
        PROVE  \E v \in Workers : \E i \in DOMAIN taken[v] : taken[v][i] = g
    BY <2>2, <2>3, <2>5 DEF Once
  <2> QED BY <2>1, <2>4, <2>5 DEF Once, Last
<1>3. ASSUME NEW w \in Workers,
             CreateWorker(w) \/ InitWorker(w) \/ Drop(w) \/ GetNoPath(w) \/ PutBatch(w)
      PROVE Once'
  <2>1. UNCHANGED <<collected, taken>>
    BY <1>3 DEF CreateWorker, InitWorker, Drop, GetNoPath, PutBatch, WQ!GetNull, workVars, data
  <2>2. \E l \in WorkerLabels \ Held : wpc' = [wpc EXCEPT ![w] = l]
    BY <1>3 DEF CreateWorker, InitWorker, Drop, GetNoPath, PutBatch, Goto, AfterPut, WorkerLabels
  <2>3. \A v \in Workers : wpc'[v] \in Held => wpc[v] \in Held
    BY <1>0, <2>2
  <2> QED BY <2>1, <2>3 DEF Once, Last
<1>4. ASSUME (\E f \in Files : Enqueue(f)) \/ CreateWorkerFails \/ CreateMerge \/ CreateMergeFails
               \/ CloseWork \/ JoinWorkers \/ JoinMerge \/ FreeAll \/ Exit \/ Merger
               \/ UNCHANGED vars
      PROVE Once'
  <2>1. UNCHANGED <<collected, taken, wpc>>
    BY <1>4 DEF Enqueue, CreateWorkerFails, CreateMerge, CreateMergeFails, CloseWork, JoinWorkers,
                JoinMerge, FreeAll, Exit, Merger, MergeStep, Collect, CollectEnd, Write, WriteEnd,
                WQ!Put, WQ!Close, vars, workVars, data
  <2> QED BY <2>1 DEF Once, Last
<1>6. CASE Main
  BY <1>3, <1>4, <1>6 DEF Main, MainStep
<1>7. CASE \E w \in Workers : Worker(w)
  BY <1>1, <1>2, <1>3, <1>7 DEF Worker, WorkerStep
<1> QED BY <1>4, <1>6, <1>7 DEF Next, Finished

(* How often a line occurs in a sequence is a number, and does not get less  *)
(* when the sequence grows.                                                  *)
LEMMA CopiesGrow ==
  ASSUME NEW s \in Seq(Lines), NEW n \in Lines, NEW m \in Lines
  PROVE  /\ Copies(s, m) \in Nat /\ Copies(Append(s, n), m) \in Nat
         /\ Copies(s, m) <= Copies(Append(s, n), m)
<1> DEFINE A == {i \in DOMAIN s : s[i] = m}
           B == {i \in DOMAIN Append(s, n) : Append(s, n)[i] = m}
<1>1. /\ DOMAIN s = 1..Len(s) /\ DOMAIN Append(s, n) = 1..Len(s) + 1 /\ Len(s) \in Nat
      /\ \A i \in DOMAIN s : Append(s, n)[i] = s[i]
  OBVIOUS
<1>2. A \subseteq B /\ B \subseteq 1..Len(s) + 1
  BY <1>1
<1>3. IsFiniteSet(B)
  <2>1. IsFiniteSet(1..Len(s) + 1)
    BY <1>1, FS_Interval
  <2> QED BY <1>2, <2>1, FS_Subset
<1>4. /\ IsFiniteSet(A) /\ Cardinality(A) <= Cardinality(B)
      /\ Cardinality(A) \in Nat /\ Cardinality(B) \in Nat
  BY <1>2, <1>3, FS_Subset, FS_CardinalityType
<1> QED BY <1>4 DEF Copies

(* How many batches have a line is a number.                                 *)
LEMMA InBatchesType == BatchesTyped => \A n \in Lines : InBatches(n) \in Nat
<1> SUFFICES ASSUME BatchesTyped, NEW n \in Lines PROVE InBatches(n) \in Nat
  OBVIOUS
<1>1. DOMAIN batches[Merge] = 1..Len(batches[Merge]) /\ Len(batches[Merge]) \in Nat
  BY DEF BatchesTyped
<1>2. IsFiniteSet(DOMAIN batches[Merge])
  BY <1>1, FS_Interval
<1>3. IsFiniteSet({i \in DOMAIN batches[Merge] : n \in batches[Merge][i]})
  BY <1>2, FS_Subset
<1> QED BY <1>3, FS_CardinalityType DEF InBatches

(* Nothing becomes unwritten once the merge thread writes, and the next line *)
(* is the least of those that are, so it is not less than the last one.      *)
LEMMA InOrderStep == Known /\ InOrder /\ [Next]_vars => InOrder'
<1> SUFFICES ASSUME Known, InOrder, [Next]_vars PROVE InOrder'
  OBVIOUS
<1>0. Order /\ BatchesTyped /\ FileTyped
  BY DEF Known
<1>1. ASSUME Collect PROVE InOrder'
  <2>1. gpc = "collect" /\ UNCHANGED <<gpc, output>>
    BY <1>1 DEF Collect, file
  <2>2. output = <<>>
    BY <1>0, <2>1 DEF Order
  <2> QED BY <2>1, <2>2 DEF InOrder
<1>2. ASSUME CollectEnd PROVE InOrder'
  <2>1. gpc = "collect" /\ gpc' = "print" /\ outq = <<>> /\ UNCHANGED <<outq, output>>
    BY <1>2 DEF CollectEnd, OQ!GetNull, file
  <2>2. output = <<>>
    BY <1>0, <2>1 DEF Order
  <2> QED BY <2>1, <2>2 DEF InOrder
<1>3. ASSUME Write PROVE InOrder'
  <2>1. PICK n \in Unwritten : Least(n, Unwritten) /\ output' = Append(output, n)
    BY <1>3 DEF Write
  <2>2. gpc = "print" /\ UNCHANGED <<gpc, outq, batches>> /\ n \in Lines
    BY <1>3, <2>1 DEF Write, outVars, Unwritten
  <2>3. Unwritten' \subseteq Unwritten
    <3> SUFFICES ASSUME NEW m \in Lines, Copies(output', m) < InBatches(m)'
                 PROVE  Copies(output, m) < InBatches(m)
      BY DEF Unwritten
    <3>1. InBatches(m)' = InBatches(m) /\ InBatches(m) \in Nat
      BY <1>0, <2>2, InBatchesType DEF InBatches
    <3>2. /\ Copies(output, m) \in Nat /\ Copies(output', m) \in Nat
          /\ Copies(output, m) <= Copies(output', m)
      BY <1>0, <2>1, <2>2, CopiesGrow DEF FileTyped
    <3> QED BY <3>1, <3>2
  <2>4. Last(output') = n
    BY <1>0, <2>1, <2>2 DEF FileTyped, Last
  <2> QED BY <2>1, <2>2, <2>3, <2>4 DEF InOrder, Least
<1>4. ASSUME WriteEnd PROVE InOrder'
  <2>1. /\ gpc = "print" /\ Unwritten = {} /\ UNCHANGED <<output, outq, batches>>
    BY <1>4 DEF WriteEnd, file, outVars
  <2>2. Unwritten' = Unwritten
    BY <2>1 DEF Unwritten, InBatches
  <2> QED BY <2>1, <2>2 DEF InOrder
<1>5. ASSUME NEW w \in Workers, PutBatch(w) PROVE InOrder'
  <2>1. wpc[w] = "emit" /\ UNCHANGED <<gpc, output>>
    BY <1>5 DEF PutBatch, file
  <2>2. gpc \notin {"print", "done"}
    BY <1>0, <2>1 DEF Order, Ended
  <2>3. output = <<>>
    BY <1>0, <2>2 DEF Order
  <2> QED BY <2>1, <2>2, <2>3 DEF InOrder
<1>6. ASSUME CreateMerge PROVE InOrder'
  <2>1. mpc = "spawn" /\ gpc' = "collect" /\ UNCHANGED output
    BY <1>6 DEF CreateMerge, file
  <2>2. output = <<>>
    BY <1>0, <2>1 DEF Order
  <2> QED BY <2>1, <2>2 DEF InOrder
<1>7. ASSUME (\E w \in Workers : CreateWorker(w)) \/ (\E f \in Files : Enqueue(f))
               \/ CreateWorkerFails \/ CreateMergeFails \/ CloseWork \/ JoinWorkers \/ JoinMerge
               \/ FreeAll \/ Exit
               \/ \E w \in Workers : InitWorker(w) \/ GetPath(w) \/ Parse(w) \/ Drop(w) \/ GetNoPath(w)
      PROVE InOrder'
  <2>1. UNCHANGED <<gpc, output, outq, batches>>
    BY <1>7 DEF CreateWorker, Enqueue, CreateWorkerFails, CreateMergeFails, CloseWork, JoinWorkers,
                JoinMerge, FreeAll, Exit, InitWorker, GetPath, Parse, Drop, GetNoPath,
                OQ!Close, outVars, file
  <2>2. Unwritten' = Unwritten
    BY <2>1 DEF Unwritten, InBatches
  <2> QED BY <2>1, <2>2 DEF InOrder
<1>8. CASE UNCHANGED vars
  <2>1. UNCHANGED <<gpc, output, outq, batches>>
    BY <1>8 DEF vars, outVars, file
  <2>2. Unwritten' = Unwritten
    BY <2>1 DEF Unwritten, InBatches
  <2> QED BY <2>1, <2>2 DEF InOrder
<1>9. CASE Main
  BY <1>6, <1>7, <1>9 DEF Main, MainStep
<1>10. CASE \E w \in Workers : Worker(w)
  BY <1>5, <1>7, <1>10 DEF Worker, WorkerStep
<1>11. CASE Merger
  BY <1>1, <1>2, <1>3, <1>4, <1>11 DEF Merger, MergeStep
<1> QED BY <1>8, <1>9, <1>10, <1>11 DEF Next, Finished

(* Only a worker that ends adds a LineVec, its own, and none changes after.  *)
LEMMA DeliveredStep == Known /\ LinesKept /\ Delivered /\ [Next]_vars => Delivered'
<1> SUFFICES ASSUME Known, LinesKept, NEW g, DeliveredBy(g), [Next]_vars PROVE Delivered'
  BY DEF Delivered
<1>0. /\ BatchesTyped /\ wpc \in [Workers -> WorkerLabels]
  BY DEF Known, Order
<1>1. ASSUME NEW w \in Workers, PutBatch(w) PROVE Delivered'
  <2>1. /\ wpc[w] = "emit" /\ wpc'[w] = "done" /\ UNCHANGED vec
        /\ \A v \in Workers : v # w => wpc'[v] = wpc[v]
    BY <1>0, <1>1 DEF PutBatch, Goto, AfterPut, data
  <2>2. Deliveries \in Seq(SUBSET Lines) /\ Deliveries' = Append(Deliveries, vec[w])
    BY <1>0, <1>1, PutAdds
  <2>3. /\ DOMAIN Deliveries' = DOMAIN Deliveries \cup {Len(Deliveries) + 1}
        /\ Len(Deliveries) + 1 \notin DOMAIN Deliveries
        /\ Deliveries'[Len(Deliveries) + 1] = vec[w]
        /\ \A k \in DOMAIN Deliveries : Deliveries'[k] = Deliveries[k]
    BY <1>0, <2>2 DEF BatchesTyped
  <2> DEFINE h == [k \in DOMAIN Deliveries' |-> IF k \in DOMAIN Deliveries THEN g[k] ELSE w]
  <2>4. \A k \in DOMAIN Deliveries : g[k] \in Workers /\ g[k] # w /\ h[k] = g[k]
    BY <2>1, <2>3 DEF DeliveredBy
  <2>5. h[Len(Deliveries) + 1] = w
    BY <2>3
  <2>6. h \in [DOMAIN Deliveries' -> Workers]
    BY <2>3, <2>4
  <2>7. \A j, k \in DOMAIN Deliveries' : h[j] = h[k] => j = k
    BY <2>3, <2>4, <2>5 DEF DeliveredBy
  <2>8. \A k \in DOMAIN Deliveries' : wpc'[h[k]] = "done" /\ Deliveries'[k] = vec'[h[k]]
    BY <2>1, <2>3, <2>4, <2>5 DEF DeliveredBy
  <2>9. \A v \in Workers : wpc'[v] = "done" => vec'[v] = {} \/ \E k \in DOMAIN Deliveries' : h[k] = v
    BY <2>1, <2>3, <2>4, <2>5 DEF DeliveredBy
  <2> HIDE DEF h
  <2> QED BY <2>6, <2>7, <2>8, <2>9 DEF Delivered, DeliveredBy
<1>2. ASSUME NEW w \in Workers, Parse(w) PROVE Delivered'
  <2>1. wpc[w] = "busy" /\ wpc' = [wpc EXCEPT ![w] = "loop"] /\ UNCHANGED <<batches, outq>>
    BY <1>2 DEF Parse, Goto, outVars
  <2>2. \A v \in Workers : v # w => vec'[v] = vec[v] /\ wpc'[v] = wpc[v]
    <3>1. Last(taken[w]) \in Files
      BY <2>1, LastTaken DEF Known
    <3> QED BY <1>0, <1>2, <2>1, <3>1, ParseAdds DEF BatchesTyped
  <2>3. wpc'[w] = "loop"
    BY <1>0, <2>1
  <2>4. Deliveries' = Deliveries
    BY <2>1 DEF Deliveries
  <2> QED BY <2>1, <2>2, <2>3, <2>4 DEF Delivered, DeliveredBy
<1>3. ASSUME NEW w \in Workers,
             CreateWorker(w) \/ InitWorker(w) \/ GetPath(w) \/ Drop(w) \/ GetNoPath(w)
      PROVE Delivered'
  <2>1. /\ UNCHANGED <<batches, outq, vec>> /\ wpc[w] # "done"
        /\ \E l \in WorkerLabels : wpc' = [wpc EXCEPT ![w] = l]
    BY <1>3 DEF CreateWorker, InitWorker, GetPath, Drop, GetNoPath, Goto, outVars, data, WorkerLabels
  <2>2. /\ \A v \in Workers : v # w => wpc'[v] = wpc[v]
        /\ wpc'[w] = "done" => wpc[w] = "drain"
    BY <1>0, <1>3 DEF CreateWorker, InitWorker, GetPath, Drop, GetNoPath, Goto
  <2>3. wpc'[w] = "done" => vec[w] = {}
    BY <2>2 DEF LinesKept
  <2>4. Deliveries' = Deliveries
    BY <2>1 DEF Deliveries
  <2> QED BY <2>1, <2>2, <2>3, <2>4 DEF Delivered, DeliveredBy
<1>4. ASSUME Collect PROVE Delivered'
  <2>1. Deliveries' = Deliveries /\ UNCHANGED <<vec, wpc>>
    BY <1>0, <1>4, CollectMoves DEF Collect, data
  <2> QED BY <2>1 DEF Delivered, DeliveredBy
<1>5. ASSUME (\E f \in Files : Enqueue(f)) \/ CreateWorkerFails \/ CreateMerge \/ CreateMergeFails
               \/ CloseWork \/ JoinWorkers \/ JoinMerge \/ FreeAll \/ Exit
               \/ CollectEnd \/ Write \/ WriteEnd \/ UNCHANGED vars
      PROVE Delivered'
  <2>1. UNCHANGED <<batches, outq, vec, wpc>>
    BY <1>5 DEF Enqueue, CreateWorkerFails, CreateMerge, CreateMergeFails, CloseWork, JoinWorkers,
                JoinMerge, FreeAll, Exit, CollectEnd, Write, WriteEnd, OQ!Close, OQ!GetNull,
                vars, outVars, data
  <2> QED BY <2>1 DEF Delivered, DeliveredBy, Deliveries
<1>6. CASE Main
  BY <1>3, <1>5, <1>6 DEF Main, MainStep
<1>7. CASE \E w \in Workers : Worker(w)
  BY <1>1, <1>2, <1>3, <1>7 DEF Worker, WorkerStep
<1>8. CASE Merger
  BY <1>4, <1>5, <1>8 DEF Merger, MergeStep
<1> QED BY <1>5, <1>6, <1>7, <1>8 DEF Next, Finished

-------------------------------------------------------------------------------
(* Both modules count with the same operator.                                *)
LEMMA SameCardinality == \A S : TF!Cardinality(S) = Cardinality(S)
BY DEF TF!Cardinality, Cardinality

(* A line is in no more batches than there are files that have it: batches   *)
(* are of different workers, and no two workers took the same file.          *)
LEMMA BatchSources ==
  ASSUME Known, LinesKept, Delivered, NEW n \in Lines
  PROVE  Cardinality(TF!Sources(n)) \in Nat /\ InBatches(n) <= Cardinality(TF!Sources(n))
<1> DEFINE b == batches[Merge]
           I == {i \in DOMAIN b : n \in b[i]}
           S == {f \in Files : n \in collected[f]}
<1>1. PICK g : DeliveredBy(g)
  BY DEF Delivered
<1>2. /\ b \in Seq(SUBSET Lines) /\ outq \in Seq(SUBSET Lines)
  BY DEF Known, BatchesTyped
<1>3. \A i \in DOMAIN b : i \in DOMAIN Deliveries /\ Deliveries[i] = b[i]
  BY <1>2 DEF Deliveries
<1>4. \A i \in I : g[i] \in Workers /\ n \in vec[g[i]]
  BY <1>1, <1>3 DEF DeliveredBy
<1>5. \A i, j \in I : g[i] = g[j] => i = j
  BY <1>1, <1>3 DEF DeliveredBy
<1> DEFINE Took(w, f) == \E k \in DOMAIN taken[w] : taken[w][k] = f
           h == [i \in I |-> CHOOSE f \in S : Took(g[i], f)]
<1>6. \A i \in I : h[i] \in S /\ Took(g[i], h[i])
  <2> SUFFICES ASSUME NEW i \in I PROVE \E f \in S : Took(g[i], f)
    OBVIOUS
  <2>1. PICK k \in DOMAIN taken[g[i]] : n \in collected[taken[g[i]][k]]
    BY <1>4 DEF LinesKept
  <2>2. taken[g[i]][k] \in Files
    BY <1>4 DEF Known, WorkTyped
  <2> QED BY <2>1, <2>2
<1>7. \A v, w \in Workers : \A f : Took(v, f) /\ Took(w, f) => v = w
  BY DEF Known, PathInv, NoneTwice
<1>8. ASSUME NEW i \in I, NEW j \in I, h[i] = h[j] PROVE i = j
  <2>1. Took(g[i], h[i]) /\ Took(g[j], h[i])
    BY <1>6, <1>8
  <2>2. g[i] = g[j]
    BY <1>4, <1>7, <2>1
  <2> QED BY <1>5, <2>2
<1>9. h \in Injection(I, S)
  <2>1. h \in [I -> S]
    BY <1>6
  <2> QED BY <1>8, <2>1 DEF Injection, IsInjective
<1>10. IsFiniteSet(S)
  BY FS_Subset, TsagAssumption
<1>11. Cardinality(I) <= Cardinality(S) /\ Cardinality(S) \in Nat
  BY <1>9, <1>10, FS_Injection, FS_CardinalityType
<1> QED BY <1>11 DEF InBatches, TF!Sources

(* When main has joined every thread, each line that was collected has been  *)
(* written: it is in the LineVec of a worker that is done, which is among    *)
(* the batches.                                                              *)
LEMMA AllWritten ==
  ASSUME Known, LinesKept, Delivered, InOrder, mpc = "free"
  PROVE  UNION {collected[f] : f \in Files} \subseteq TF!Written
<1> SUFFICES ASSUME NEW f \in Files, NEW n \in collected[f] PROVE n \in TF!Written
  OBVIOUS
<1> DEFINE b == batches[Merge]
<1>1. n \in Lines
  BY DEF Known, FileTyped
<1>2. gpc = "done" /\ AllJoined /\ \A w \in Workers : wpc[w] # "absent"
  BY DEF Known, Order
<1>3. PICK w \in Workers : n \in vec[w]
  BY DEF LinesKept
<1>4. wpc[w] = "done"
  BY <1>2, <1>3 DEF LinesKept, AllJoined, Ended
<1>5. Deliveries = b
  <2>1. outq = <<>> /\ b \in Seq(SUBSET Lines)
    BY <1>2 DEF InOrder, Known, BatchesTyped
  <2>2. b \o <<>> = b
    BY <2>1, ConcatEmptySeq
  <2> QED BY <2>1, <2>2 DEF Deliveries
<1>6. PICK k \in DOMAIN b : n \in b[k]
  BY <1>3, <1>4, <1>5 DEF Delivered, DeliveredBy
<1>7. InBatches(n) > 0
  <2>1. IsFiniteSet({i \in DOMAIN b : n \in b[i]})
    <3>1. DOMAIN b = 1..Len(b) /\ Len(b) \in Nat
      BY DEF Known, BatchesTyped
    <3>2. IsFiniteSet(DOMAIN b)
      BY <3>1, FS_Interval
    <3> QED BY <3>2, FS_Subset
  <2>2. {i \in DOMAIN b : n \in b[i]} # {}
    BY <1>6
  <2>3. InBatches(n) # 0
    BY <2>1, <2>2, FS_EmptySet DEF InBatches
  <2> QED BY <1>1, <2>3, InBatchesType DEF Known
<1>8. ~(Copies(output, n) < InBatches(n))
  BY <1>1, <1>2 DEF InOrder, Unwritten
<1>9. Copies(output, n) # 0
  BY <1>7, <1>8
<1>10. {i \in DOMAIN output : output[i] = n} # {}
  BY <1>9, FS_EmptySet DEF Copies
<1> QED BY <1>10 DEF TF!Written

-------------------------------------------------------------------------------
(* Every step of a thread is a step of TagsFile or changes nothing there.    *)
LEMMA TagsFileStep ==
  Known /\ LinesKept /\ Once /\ Delivered /\ InOrder /\ [Next]_vars => [TF!Next]_(TF!vars)
<1> SUFFICES ASSUME Known, LinesKept, Once, Delivered, InOrder, [Next]_vars
             PROVE  [TF!Next]_(TF!vars)
  OBVIOUS
<1>0. Order /\ WorkTyped /\ Holding /\ BatchesTyped /\ FileTyped
  BY DEF Known
<1>1. ASSUME NEW w \in Workers, Worker(w), Parse(w) PROVE [TF!Next]_(TF!vars)
  <2>1. ~Exited /\ UNCHANGED <<mpc, output, flushed, lost, toStdout>> /\ wpc[w] = "busy"
    BY <1>1 DEF Worker, Parse, file
  <2>2. Last(taken[w]) \in Files
    BY <1>0, <2>1, LastTaken
  <2>3. output = <<>> /\ collected[Last(taken[w])] = {}
    BY <1>0, <2>1 DEF Order, Ended, Once
  <2>4. UNCHANGED collected \/ TF!Index(Last(taken[w]))
    BY <1>0, <1>1, <2>1, <2>2, <2>3, ParseAdds DEF TF!Index, Exited, BatchesTyped
  <2> QED BY <2>1, <2>2, <2>4 DEF TF!Next, TF!vars, Exited
<1>2. ASSUME ~Exited, Write PROVE [TF!Next]_(TF!vars)
  <2>1. PICK n \in Unwritten : output' = Append(output, n)
    BY <1>2 DEF Write
  <2>2. /\ gpc = "print" /\ UNCHANGED <<mpc, collected, toStdout>> /\ n \in Lines
        /\ \/ UNCHANGED <<flushed, lost>>
           \/ /\ flushed' \in {Len(output), Len(output')}
              /\ UNCHANGED lost \/ TF!FlushFails(Len(output'))
    BY <1>2, <2>1 DEF Write, data, Unwritten, FlushFails, TF!FlushFails
  <2>3. output # <<>> => Last(output) <= n
    BY DEF InOrder
  <2>4. Copies(output, n) < Cardinality(TF!Sources(n))
    <3>1. /\ Copies(output, n) < InBatches(n) /\ InBatches(n) <= Cardinality(TF!Sources(n))
          /\ Cardinality(TF!Sources(n)) \in Nat
      BY <2>1, <2>2, BatchSources DEF Unwritten
    <3>2. Copies(output, n) \in Nat /\ InBatches(n) \in Nat
      BY <1>0, <2>2, CopiesGrow, InBatchesType DEF FileTyped, Known
    <3> QED BY <3>1, <3>2
  <2>5. TF!Copies(n) = Copies(output, n)
    BY SameCardinality DEF TF!Copies, Copies
  <2>6. TF!Copies(n) < TF!Cardinality(TF!Sources(n))
    BY <2>4, <2>5, SameCardinality
  <2>7. TF!Write(n)
    BY <1>2, <2>1, <2>2, <2>3, <2>6 DEF TF!Write, Exited, Last
  <2>8. \E f \in Files : n \in LinesOf[f]
    BY <2>2 DEF Lines
  <2> QED BY <2>7, <2>8 DEF TF!Next
<1>3. ASSUME ~Exited, Exit PROVE [TF!Next]_(TF!vars)
  <2>1. /\ UNCHANGED <<collected, output, toStdout>> /\ mpc' \in {"exit 0", "exit 1"}
        /\ flushed' \in {flushed, Len(output)}
        /\ UNCHANGED lost \/ TF!FlushFails(Len(output))
        /\ mpc' = "exit 0" => mpc = "free" /\ flushed' = Len(output)
        /\ mpc' = "exit 0" => UNCHANGED lost \/ (toStdout /\ TF!FlushFails(Len(output)))
    BY <1>3 DEF Exit, CloseOut, CloseResult, data, FlushFails, TF!FlushFails
  <2> DEFINE status == IF Exited THEN mpc ELSE "running"
  <2>0. status = "running" /\ status' = mpc'
    BY <1>3, <2>1 DEF Exited
  <2>2. CASE mpc' = "exit 0"
    <3>1. UNION {collected[f] : f \in Files} \subseteq TF!Written
      BY <2>1, <2>2, AllWritten
    <3>2. TF!Succeed
      BY <2>0, <2>1, <2>2, <3>1 DEF TF!Succeed
    <3> QED BY <3>2 DEF TF!Next
  <2>3. CASE mpc' = "exit 1"
    BY <2>0, <2>1, <2>3 DEF TF!Fail, TF!Next
  <2> QED BY <2>1, <2>2, <2>3
<1>4. ASSUME ~Exited,
             \/ \E w \in Workers : CreateWorker(w)
             \/ \E f \in Files : Enqueue(f)
             \/ CreateWorkerFails \/ CreateMerge \/ CreateMergeFails \/ CloseWork \/ JoinWorkers
             \/ JoinMerge \/ FreeAll
      PROVE [TF!Next]_(TF!vars)
  <2>1. UNCHANGED <<collected, output, flushed, lost, toStdout>> /\ mpc' \notin {"exit 0", "exit 1"}
    BY <1>4 DEF CreateWorker, Enqueue, CreateWorkerFails, CreateMerge, CreateMergeFails, CloseWork,
                JoinWorkers, JoinMerge, FreeAll, Exited, data, file
  <2> QED BY <1>4, <2>1 DEF TF!vars, Exited
<1>5. ASSUME \/ Collect \/ CollectEnd \/ WriteEnd \/ UNCHANGED vars
             \/ \E w \in Workers : InitWorker(w) \/ GetPath(w) \/ Drop(w) \/ GetNoPath(w) \/ PutBatch(w)
      PROVE [TF!Next]_(TF!vars)
  <2>1. UNCHANGED <<mpc, collected, output, flushed, lost, toStdout>>
    BY <1>5 DEF Collect, CollectEnd, WriteEnd, InitWorker, GetPath, Drop, GetNoPath, PutBatch,
                vars, data, file
  <2> QED BY <2>1 DEF TF!vars, Exited
<1>6. CASE Main
  BY <1>3, <1>4, <1>6 DEF Main, MainStep
<1>7. CASE \E w \in Workers : Worker(w)
  <2>1. PICK w \in Workers : Worker(w)
    BY <1>7
  <2>2. CASE Parse(w)
    BY <1>1, <2>1, <2>2
  <2>3. CASE ~Parse(w)
    BY <1>5, <2>1, <2>3 DEF Worker, WorkerStep
  <2> QED BY <2>2, <2>3
<1>8. CASE Merger
  BY <1>2, <1>5, <1>8 DEF Merger, MergeStep
<1> QED BY <1>5, <1>6, <1>7, <1>8 DEF Next, Finished

(* Every run is a run of TagsFile, whatever the schedule and whichever       *)
(* thread, allocation or write fails: what is written is sorted and begun    *)
(* when the last file was indexed, has no line more often than files have    *)
(* it, and when main reports success it has every line that was collected    *)
(* and nothing of it was lost by the flush in fclose.                        *)
THEOREM ImplementsTagsFileHolds == Spec => ImplementsTagsFile
<1>1. Init => LinesKept /\ Once /\ InOrder /\ Delivered
  <2> SUFFICES ASSUME Init PROVE LinesKept /\ Once /\ InOrder /\ Delivered
    OBVIOUS
  <2>1. LinesKept /\ Once /\ InOrder
    BY DEF Init, LinesKept, Once, InOrder
  <2>2. Deliveries = <<>>
    BY DEF Init, OQ!Init, Deliveries
  <2>3. DOMAIN Deliveries = {}
    BY <2>2
  <2>4. [k \in {} |-> Merge] \in [DOMAIN Deliveries -> Workers]
    BY <2>3
  <2>5. \A w \in Workers : wpc[w] # "done"
    BY DEF Init
  <2>6. DeliveredBy([k \in {} |-> Merge])
    BY <2>3, <2>4, <2>5 DEF DeliveredBy
  <2> QED BY <2>1, <2>6 DEF Delivered
<1>2. Known /\ LinesKept /\ Once /\ InOrder /\ Delivered /\ [Next]_vars
        => LinesKept' /\ Once' /\ InOrder' /\ Delivered'
  BY LinesKeptStep, OnceStep, InOrderStep, DeliveredStep
<1>3. Init => TF!Init
  BY DEF Init, TF!Init, Exited
<1>4. Known /\ LinesKept /\ Once /\ InOrder /\ Delivered /\ [Next]_vars => [TF!Next]_(TF!vars)
  BY TagsFileStep
<1>5. Spec => [](LinesKept /\ Once /\ InOrder /\ Delivered)
  BY <1>1, <1>2, KnownHolds, PTL DEF Spec
<1>6. Spec => TF!Spec
  BY <1>3, <1>4, <1>5, KnownHolds, PTL DEF Spec, TF!Spec
<1> QED BY <1>6 DEF ImplementsTagsFile
===============================================================================
