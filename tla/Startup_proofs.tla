---------------------------- MODULE Startup_proofs ----------------------------
(* Theorems about Startup for every width of the integers, every argument    *)
(* and every answer of the system: the two arrays whose sizes are computed   *)
(* from the number of jobs are large enough, numbers keep their widths, and  *)
(* wherever main returns, it has released what it acquired.                  *)
EXTENDS Startup, TLAPS

EndLabels == {"help", "exit 0", "exit 1", "exit 2", "aborted"}
Later == {"out", "queue", "queueBuf", "outq", "outqBuf", "threads", "workers", "merge"}

(* The number of jobs is settled before the first array is allocated; what   *)
(* malloc was given did not wrap, for calloc refused that number before; and *)
(* there are never more threads than jobs.                                   *)
Sized ==
  /\ opts \in [output : {"NULL", "-", "path"}, jobs : Nat]
  /\ jobs \in Nat /\ created \in Nat /\ created <= MaxThreads
  /\ at \in Later => jobs >= 1
  /\ at \in {"threads", "workers", "merge"} => FitsMemory
  /\ at \in {"workers", "merge"} => bytes = jobs * WordSize
  /\ created > 0 => /\ at \in {"workers", "merge"} \cup EndLabels
                    /\ bytes = jobs * WordSize /\ created <= jobs
  /\ at = "merge" => created = jobs /\ n = ToInt(jobs)
  /\ bytes \in Nat

(* What a queue consists of.                                                 *)
QueueParts == {"queue", "queueBuf"} \cup QueueLocks
OutQueueParts == {"outq", "outqBuf"} \cup OutQueueLocks

(* What follows what, in the order in which main acquires.                   *)
LEMMA FollowsAt ==
  ASSUME NEW k \in 2..12
  PROVE  After(Order[k - 1]) = Order[k]
<1>1. DOMAIN Order = 1..12
  BY DEF Order
<1>2. \A i, j \in 1..12 : Order[i] = Order[j] => i = j
  BY DEF Order
<1>3. \A i \in DOMAIN Order : i > 1 /\ Order[i - 1] = Order[k - 1] <=> i = k
  BY <1>1, <1>2
<1>4. After(Order[k - 1]) = Order[CHOOSE i \in DOMAIN Order : i > 1 /\ Order[i - 1] = Order[k - 1]]
  BY DEF After
<1>5. (CHOOSE i \in DOMAIN Order : i > 1 /\ Order[i - 1] = Order[k - 1]) = k
  BY <1>1, <1>3
<1> QED BY <1>4, <1>5

(* The same by name.                                                         *)
LEMMA Afters ==
  /\ After("cache") = "cacheDir" /\ After("cacheDir") = "cacheLock"
  /\ After("cacheLock") = "cacheLoaded" /\ After("cacheLoaded") = "jobs"
  /\ After("out") = "queue" /\ After("queue") = "queueBuf" /\ After("queueBuf") = "outq"
  /\ After("outq") = "outqBuf" /\ After("outqBuf") = "threads" /\ After("threads") = "workers"
<1>1. /\ Order[1] = "cache" /\ Order[2] = "cacheDir" /\ Order[3] = "cacheLock"
      /\ Order[4] = "cacheLoaded" /\ Order[5] = "jobs" /\ Order[6] = "out" /\ Order[7] = "queue"
      /\ Order[8] = "queueBuf" /\ Order[9] = "outq" /\ Order[10] = "outqBuf"
      /\ Order[11] = "threads" /\ Order[12] = "workers"
  BY DEF Order
<1>2. After(Order[1]) = Order[2]
  BY FollowsAt, 2 - 1 = 1
<1>3. After(Order[2]) = Order[3]
  BY FollowsAt, 3 - 1 = 2
<1>4. After(Order[3]) = Order[4]
  BY FollowsAt, 4 - 1 = 3
<1>5. After(Order[4]) = Order[5]
  BY FollowsAt, 5 - 1 = 4
<1>6. After(Order[5]) = Order[6]
  BY FollowsAt, 6 - 1 = 5
<1>7. After(Order[6]) = Order[7]
  BY FollowsAt, 7 - 1 = 6
<1>8. After(Order[7]) = Order[8]
  BY FollowsAt, 8 - 1 = 7
<1>9. After(Order[8]) = Order[9]
  BY FollowsAt, 9 - 1 = 8
<1>10. After(Order[9]) = Order[10]
  BY FollowsAt, 10 - 1 = 9
<1>11. After(Order[10]) = Order[11]
  BY FollowsAt, 11 - 1 = 10
<1>12. After(Order[11]) = Order[12]
  BY FollowsAt, 12 - 1 = 11
<1> QED BY <1>1, <1>2, <1>3, <1>4, <1>5, <1>6, <1>7, <1>8, <1>9, <1>10, <1>11, <1>12

(* What main acquires, by name.                                              *)
LEMMA ResourceNames ==
  /\ Steps = {"cache", "cacheDir", "cacheLock", "cacheLoaded", "out", "queue", "queueBuf",
              "outq", "outqBuf", "threads"}
  /\ Resources = {"cache", "cacheDir", "cacheLock", "cacheLoaded", "out", "threads"}
                   \cup QueueParts \cup OutQueueParts
<1>1. ToSet(Order) = {"cache", "cacheDir", "cacheLock", "cacheLoaded", "jobs", "out", "queue",
                      "queueBuf", "outq", "outqBuf", "threads", "workers"}
  BY DEF ToSet, Order
<1>2. Steps = {"cache", "cacheDir", "cacheLock", "cacheLoaded", "out", "queue", "queueBuf",
               "outq", "outqBuf", "threads"}
  BY <1>1 DEF Steps
<1> QED BY <1>2 DEF Resources, QueueParts, OutQueueParts

(* Whatever sysconf says, there is at least one job.                         *)
LEMMA AtLeastOne ==
  ASSUME NEW c \in Int
  PROVE  Max({c, 1}) \in Nat /\ Max({c, 1}) >= 1 /\ Max({c, 1}) \in {c, 1}
<1>1. \E x \in {c, 1} : \A y \in {c, 1} : x >= y
  <2>1. CASE c >= 1
    BY <2>1
  <2>2. CASE ~(c >= 1)
    BY <2>2
  <2> QED BY <2>1, <2>2
<1>2. Max({c, 1}) \in {c, 1} /\ \A y \in {c, 1} : Max({c, 1}) >= y
  BY <1>1 DEF Max
<1> QED BY <1>2

(* No step takes a size away from what it was computed from.                 *)
LEMMA SizedStep == Sized /\ [Next]_vars => Sized'
<1> SUFFICES ASSUME Sized, [Next]_vars PROVE Sized'
  OBVIOUS
<1> USE StartupAssumption
<1>1. ASSUME NEW file \in {"-", "path"}, OptionO(file) PROVE Sized'
  BY <1>1 DEF OptionO, Sized, Later, FitsMemory, ToInt
<1>2. ASSUME NEW t \in Texts, OptionJ(t) PROVE Sized'
  <2>1. at = "options" /\ at' \in {"options", "exit 2"} /\ UNCHANGED <<jobs, bytes, created, n>>
    BY <1>2 DEF OptionJ
  <2>2. opts' \in [output : {"NULL", "-", "path"}, jobs : Nat]
    <3>1. CASE Accepted(t)
      <4>1. t.value \in Nat
        BY <3>1 DEF Accepted
      <4>2. opts' = [opts EXCEPT !.jobs = t.value] \/ opts' = opts
        BY <1>2 DEF OptionJ
      <4> QED BY <4>1, <4>2 DEF Sized
    <3>2. CASE ~Accepted(t)
      BY <1>2, <3>2 DEF OptionJ, Sized
    <3> QED BY <3>1, <3>2
  <2> QED BY <2>1, <2>2 DEF Sized, Later, EndLabels
<1>3. ASSUME OptionOther \/ OptionsEnd \/ ChooseDir PROVE Sized'
  <2>1. /\ at \in {"options", "dir"} /\ at' \in {"help", "exit 2", "dir", "cache", "aborted"}
        /\ UNCHANGED <<opts, jobs, bytes, created, n>>
    BY <1>3 DEF OptionOther, OptionsEnd, ChooseDir
  <2> QED BY <2>1 DEF Sized, Later, EndLabels
<1>4. ASSUME NEW cores \in Cores, CountJobs(cores) PROVE Sized'
  <2>1. at = "jobs" /\ at' = "out" /\ UNCHANGED <<opts, bytes, created, n>>
    BY <1>4 DEF CountJobs
  <2>2. jobs' = IF opts.jobs > 0 THEN opts.jobs ELSE Max({cores - 2, 1})
    BY <1>4 DEF CountJobs
  <2>3. cores - 2 \in Int
    OBVIOUS
  <2>4. Max({cores - 2, 1}) \in Nat /\ Max({cores - 2, 1}) >= 1
    BY <2>3, AtLeastOne
  <2>5. jobs' \in Nat /\ jobs' >= 1
    BY <2>2, <2>4 DEF Sized
  <2> QED BY <2>1, <2>5 DEF Sized, Later, EndLabels
<1>5. ASSUME NEW r \in Steps, Acquire(r) PROVE Sized'
  <2>1. /\ at = r /\ at' = After(r) /\ UNCHANGED <<opts, jobs, created, n>>
        /\ r = "outqBuf" => FitsMemory
        /\ bytes' = IF r = "threads" THEN Product ELSE bytes
    BY <1>5 DEF Acquire
  <2>2. created = 0
    <3>1. at \notin {"workers", "merge"} \cup EndLabels
      BY <2>1, ResourceNames DEF EndLabels
    <3> QED BY <3>1 DEF Sized
  <2>3. FitsMemory' = FitsMemory
    BY <2>1 DEF FitsMemory
  <2>4. CASE r \in {"cache", "cacheDir", "cacheLock", "cacheLoaded"}
    <3>1. at' \in {"cacheDir", "cacheLock", "cacheLoaded", "jobs"}
      BY <2>1, <2>4, Afters
    <3> QED BY <2>1, <2>2, <2>4, <3>1 DEF Sized, Later
  <2>5. CASE r \in {"out", "queue", "queueBuf", "outq", "outqBuf"}
    <3>1. /\ at' \in {"queue", "queueBuf", "outq", "outqBuf", "threads"}
          /\ at' = "threads" => r = "outqBuf"
      BY <2>1, <2>5, Afters
    <3>2. jobs >= 1
      BY <2>1, <2>5 DEF Sized, Later
    <3> QED BY <2>1, <2>2, <2>3, <2>5, <3>1, <3>2 DEF Sized, Later
  <2>6. CASE r = "threads"
    <3>1. at' = "workers"
      BY <2>1, <2>6, Afters
    <3>2. FitsMemory /\ jobs >= 1
      BY <2>1, <2>6 DEF Sized, Later
    <3>3. bytes' = jobs * WordSize /\ jobs * WordSize \in Nat
      <4>1. jobs * WordSize \in Nat /\ SIZE_MAX \in Nat
        BY DEF Sized
      <4> DEFINE p == jobs * WordSize
      <4>2. p <= SIZE_MAX /\ bytes' = p % (SIZE_MAX + 1)
        BY <2>1, <2>6, <3>2 DEF FitsMemory, Product
      <4> HIDE DEF p
      <4>3. p \in Nat
        BY <4>1 DEF p
      <4>4. p % (SIZE_MAX + 1) = p
        BY <4>1, <4>2, <4>3
      <4> QED BY <4>1, <4>2, <4>4 DEF p
    <3> QED BY <2>1, <2>2, <2>3, <3>1, <3>2, <3>3 DEF Sized, Later
  <2> QED BY <2>4, <2>5, <2>6, ResourceNames
<1>6. ASSUME NEW r \in Steps \cup {"workers"}, Fails(r) PROVE Sized'
  <2>1. at' = "exit 1" /\ UNCHANGED <<opts, jobs, bytes, created, n>>
    BY <1>6 DEF Fails
  <2> QED BY <2>1 DEF Sized, Later, EndLabels
<1>7. ASSUME CreateWorker PROVE Sized'
  <2>1. /\ at = "workers" /\ created # jobs /\ created < MaxThreads /\ created' = created + 1
        /\ UNCHANGED <<opts, at, jobs, bytes, n>>
    BY <1>7 DEF CreateWorker, AllCreated
  <2>2. created < jobs
    BY <2>1 DEF Sized
  <2> QED BY <2>1, <2>2 DEF Sized, Later, FitsMemory
<1>8. ASSUME CreateMerge PROVE Sized'
  <2>1. /\ at = "workers" /\ created = jobs /\ n' = ToInt(jobs) /\ at' = "merge"
        /\ UNCHANGED <<opts, jobs, bytes, created>>
    BY <1>8 DEF CreateMerge, AllCreated
  <2> QED BY <2>1 DEF Sized, Later, FitsMemory, ToInt
<1>9. ASSUME End PROVE Sized'
  <2>1. at = "merge" /\ at' \in {"exit 0", "exit 1"} /\ UNCHANGED <<opts, jobs, bytes, created, n>>
    BY <1>9 DEF End
  <2> QED BY <2>1 DEF Sized, Later, EndLabels
<1>10. CASE UNCHANGED vars
  BY <1>10 DEF vars, Sized, Later, FitsMemory, ToInt
<1> QED BY <1>1, <1>2, <1>3, <1>4, <1>5, <1>6, <1>7, <1>8, <1>9, <1>10 DEF Next, Finished

(* Sizes and numbers of threads agree in every reachable state.              *)
THEOREM SizedHolds == Spec => []Sized
<1>1. Init => Sized
  BY StartupAssumption DEF Init, Sized, Later
<1>2. Sized /\ [Next]_vars => Sized'
  BY SizedStep
<1> QED BY <1>1, <1>2, PTL DEF Spec

(* Every pthread_create stores its thread inside the array.                  *)
THEOREM ThreadsFitHolds == Spec => []ThreadsFit
<1>1. Sized => ThreadsFit
  <2> SUFFICES ASSUME Sized PROVE created * WordSize <= bytes
    BY DEF ThreadsFit
  <2>1. CASE created = 0
    BY <2>1, StartupAssumption DEF Sized
  <2>2. CASE created # 0
    <3>1. created \in Nat /\ jobs \in Nat /\ WordSize \in Nat /\ created <= jobs
          /\ bytes = jobs * WordSize
      BY <2>2, StartupAssumption DEF Sized
    <3>2. created * WordSize <= jobs * WordSize
      BY <3>1
    <3> QED BY <3>1, <3>2
  <2> QED BY <2>1, <2>2
<1> QED BY <1>1, SizedHolds, PTL

(* The merge thread has room for exactly as many batches as there are        *)
(* workers: so many threads exist that jobs fits an int.                     *)
THEOREM MergeArrayFitsHolds == Spec => []MergeArrayFits
<1>1. Sized => MergeArrayFits
  <2> SUFFICES ASSUME Sized, at = "merge" PROVE n = created /\ n >= 1
    BY DEF MergeArrayFits
  <2>1. /\ jobs \in Nat /\ jobs >= 1 /\ created = jobs /\ n = ToInt(jobs)
        /\ jobs <= INT_MAX /\ INT_MAX \in Nat
    BY StartupAssumption DEF Sized, Later
  <2>2. (jobs + INT_MAX + 1) % (2 * (INT_MAX + 1)) = jobs + INT_MAX + 1
    <3>1. jobs + INT_MAX + 1 \in 0..(2 * (INT_MAX + 1) - 1) /\ 2 * (INT_MAX + 1) \in Nat \ {0}
      BY <2>1
    <3> QED BY <3>1
  <2> QED BY <2>1, <2>2 DEF ToInt
<1> QED BY <1>1, SizedHolds, PTL

-------------------------------------------------------------------------------
(* What main owns.                                                           *)

CacheParts == {"cache", "cacheDir", "cacheLock", "cacheLoaded"}
FilePart == IF ToStdout THEN {} ELSE {"out"}

(* What main has acquired when it stands at a: everything before a in Order, *)
(* but no file when the lines go to stdout.                                  *)
OwnedAt(a) ==
  CASE a = "cacheDir" -> {"cache"}
    [] a = "cacheLock" -> {"cache", "cacheDir"}
    [] a = "cacheLoaded" -> {"cache", "cacheDir", "cacheLock"}
    [] a \in {"jobs", "out"} -> CacheParts
    [] a = "queue" -> CacheParts \cup FilePart
    [] a = "queueBuf" -> CacheParts \cup FilePart \cup {"queue"}
    [] a = "outq" -> CacheParts \cup FilePart \cup QueueParts
    [] a = "outqBuf" -> CacheParts \cup FilePart \cup QueueParts \cup {"outq"}
    [] a = "threads" -> CacheParts \cup FilePart \cup QueueParts \cup OutQueueParts
    [] a \in {"workers", "merge"} ->
         CacheParts \cup FilePart \cup QueueParts \cup OutQueueParts \cup {"threads"}
    [] OTHER -> {}

MainLabels ==
  {"options", "dir", "cache", "cacheDir", "cacheLock", "cacheLoaded", "jobs", "out", "queue",
   "queueBuf", "outq", "outqBuf", "threads", "workers", "merge"} \cup EndLabels

Owns ==
  /\ at \in MainLabels
  /\ owned = OwnedAt(at)
  /\ misused = FALSE

(* A list of releases in which nothing comes twice and nothing after the     *)
(* object that holds it, and which releases just R.                          *)
Orderly(s) == \A i \in DOMAIN s : \A j \in 1..(i - 1) : s[j] \notin {s[i]} \cup Holder(s[i])
Frees(s, R) == s \in Seq(Resources) /\ ToSet(s) = R /\ Orderly(s)

(* One list of releases after another.                                       *)
LEMMA FreesBoth ==
  ASSUME NEW s, NEW t, NEW R, NEW Q, Frees(s, R), Frees(t, Q),
         \A y \in Q : R \cap ({y} \cup Holder(y)) = {}
  PROVE  Frees(s \o t, R \cup Q)
<1>1. s \in Seq(Resources) /\ t \in Seq(Resources) /\ s \o t \in Seq(Resources)
  BY DEF Frees
<1>2. /\ Len(s) \in Nat /\ Len(t) \in Nat /\ Len(s \o t) = Len(s) + Len(t)
      /\ DOMAIN s = 1..Len(s) /\ DOMAIN t = 1..Len(t) /\ DOMAIN (s \o t) = 1..(Len(s) + Len(t))
  BY <1>1
<1>3. /\ \A i \in 1..Len(s) : (s \o t)[i] = s[i]
      /\ \A i \in 1..Len(t) : (s \o t)[Len(s) + i] = t[i]
  BY <1>1
<1> DEFINE c == s \o t
<1> HIDE DEF c
<1>4. ASSUME NEW i \in DOMAIN c
      PROVE  \/ i \in DOMAIN s /\ c[i] = s[i] /\ s[i] \in R
             \/ i - Len(s) \in DOMAIN t /\ i > Len(s) /\ c[i] = t[i - Len(s)] /\ t[i - Len(s)] \in Q
  <2>1. i \in 1..(Len(s) + Len(t))
    BY <1>2 DEF c
  <2>2. CASE i <= Len(s)
    BY <1>2, <1>3, <2>1, <2>2 DEF c, Frees, ToSet
  <2>3. CASE i > Len(s)
    <3>1. i - Len(s) \in 1..Len(t) /\ Len(s) + (i - Len(s)) = i
      BY <1>2, <2>1, <2>3
    <3> QED BY <1>2, <1>3, <2>3, <3>1 DEF c, Frees, ToSet
  <2> QED BY <1>2, <2>1, <2>2, <2>3
<1>5. ToSet(c) = R \cup Q
  <2>1. ToSet(c) \subseteq R \cup Q
    BY <1>4 DEF ToSet
  <2>2. ASSUME NEW x \in R PROVE x \in ToSet(c)
    <3>1. PICK i \in DOMAIN s : s[i] = x
      BY DEF Frees, ToSet
    <3>2. i \in DOMAIN c /\ c[i] = x
      BY <1>2, <1>3, <3>1 DEF c
    <3> QED BY <3>2 DEF ToSet
  <2>3. ASSUME NEW x \in Q PROVE x \in ToSet(c)
    <3>1. PICK i \in DOMAIN t : t[i] = x
      BY DEF Frees, ToSet
    <3>2. Len(s) + i \in DOMAIN c /\ c[Len(s) + i] = x
      BY <1>2, <1>3, <3>1 DEF c
    <3> QED BY <3>2 DEF ToSet
  <2> QED BY <2>1, <2>2, <2>3
<1>6. Orderly(c)
  <2> SUFFICES ASSUME NEW i \in DOMAIN c, NEW j \in 1..(i - 1)
               PROVE  c[j] \notin {c[i]} \cup Holder(c[i])
    BY DEF Orderly
  <2>1. i \in Nat /\ j \in Nat /\ j < i /\ j \in DOMAIN c
    BY <1>2 DEF c
  <2>2. CASE i \in DOMAIN s
    <3>1. j \in 1..(i - 1) /\ j \in DOMAIN s
      BY <1>2, <2>1, <2>2
    <3>2. c[i] = s[i] /\ c[j] = s[j]
      BY <1>2, <1>3, <2>2, <3>1 DEF c
    <3> QED BY <2>2, <3>1, <3>2 DEF Frees, Orderly
  <2>3. CASE i \notin DOMAIN s
    <3>1. i - Len(s) \in DOMAIN t /\ c[i] = t[i - Len(s)] /\ c[i] \in Q
      BY <1>4, <2>3
    <3>2. CASE j \in DOMAIN s
      <4>1. c[j] \in R
        BY <1>2, <1>4, <2>1, <3>2
      <4> QED BY <3>1, <4>1
    <3>3. CASE j \notin DOMAIN s
      <4>1. j - Len(s) \in DOMAIN t /\ c[j] = t[j - Len(s)]
        BY <1>4, <2>1, <3>3
      <4>2. j - Len(s) \in 1..(i - Len(s) - 1)
        BY <1>2, <2>1, <4>1
      <4> QED BY <3>1, <4>1, <4>2 DEF Frees, Orderly
    <3> QED BY <3>2, <3>3
  <2> QED BY <2>2, <2>3
<1> QED BY <1>1, <1>5, <1>6 DEF Frees, c

(* The lists that the code is built from.                                    *)
LEMMA ListsFree ==
  /\ Frees(<<>>, {}) /\ Frees(<<"cache">>, {"cache"})
  /\ Frees(<<"cacheDir", "cache">>, {"cacheDir", "cache"})
  /\ Frees(<<"cacheLock", "cacheDir", "cache">>, {"cacheLock", "cacheDir", "cache"})
  /\ Frees(CacheFree, CacheParts)
  /\ Frees(<<"queue">>, {"queue"}) /\ Frees(QueueFree, QueueParts)
  /\ Frees(<<"outq">>, {"outq"}) /\ Frees(OutQueueFree, OutQueueParts)
  /\ Frees(<<"threads">>, {"threads"}) /\ Frees(CloseOut, FilePart)
<1>1. Frees(<<>>, {})
  <2>1. <<>> \in Seq(Resources) /\ DOMAIN <<>> = {}
    OBVIOUS
  <2>2. ToSet(<<>>) = {}
    BY <2>1 DEF ToSet
  <2> QED BY <2>1, <2>2 DEF Frees, Orderly
<1>2. ASSUME NEW x \in Resources PROVE Frees(<<x>>, {x})
  <2> DEFINE s == <<x>>
  <2>1. s \in Seq(Resources) /\ DOMAIN s = {1} /\ s[1] = x
    OBVIOUS
  <2> HIDE DEF s
  <2>2. ToSet(s) = {x}
    BY <2>1 DEF ToSet
  <2>3. Orderly(s)
    <3>1. 1..(1 - 1) = {}
      OBVIOUS
    <3> QED BY <2>1, <3>1 DEF Orderly
  <2>4. Frees(s, {x})
    BY <2>1, <2>2, <2>3 DEF Frees
  <2> QED BY <2>4 DEF s
<1>3. ASSUME NEW x \in Resources, NEW y \in Resources, x # y, x \notin Holder(y)
      PROVE  Frees(<<x, y>>, {x, y})
  <2> DEFINE s == <<x, y>>
  <2>1. s \in Seq(Resources) /\ DOMAIN s = {1, 2} /\ s[1] = x /\ s[2] = y
    OBVIOUS
  <2> HIDE DEF s
  <2>2. ToSet(s) = {x, y}
    BY <2>1 DEF ToSet
  <2>3. Orderly(s)
    <3>1. 1..(1 - 1) = {} /\ 1..(2 - 1) = {1}
      OBVIOUS
    <3> QED BY <1>3, <2>1, <3>1 DEF Orderly
  <2>4. Frees(s, {x, y})
    BY <2>1, <2>2, <2>3 DEF Frees
  <2> QED BY <2>4 DEF s
<1>4. Frees(<<"cacheDir", "cache">>, {"cacheDir", "cache"})
  BY <1>3, ResourceNames DEF Holder, QueueLocks, OutQueueLocks, QueueParts, OutQueueParts
<1>5. Frees(QueueFree, QueueParts)
  <2> DEFINE s == QueueFree
  <2>1. /\ s \in Seq(Resources) /\ DOMAIN s = {1, 2, 3, 4, 5} /\ s[1] = "queueBuf"
        /\ s[2] = "queueLock" /\ s[3] = "queueNotFull" /\ s[4] = "queueNotEmpty" /\ s[5] = "queue"
    BY ResourceNames DEF QueueFree, QueueParts, QueueLocks
  <2> HIDE DEF s
  <2>2. ToSet(s) = QueueParts
    BY <2>1 DEF ToSet, QueueParts, QueueLocks
  <2>3. Orderly(s)
    <3>1. /\ 1..(1 - 1) = {} /\ 1..(2 - 1) = {1} /\ 1..(3 - 1) = {1, 2}
          /\ 1..(4 - 1) = {1, 2, 3} /\ 1..(5 - 1) = {1, 2, 3, 4}
      OBVIOUS
    <3> QED BY <2>1, <3>1 DEF Orderly, Holder, QueueLocks, OutQueueLocks
  <2>4. Frees(s, QueueParts)
    BY <2>1, <2>2, <2>3 DEF Frees
  <2> QED BY <2>4 DEF s
<1>6. Frees(OutQueueFree, OutQueueParts)
  <2> DEFINE s == OutQueueFree
  <2>1. /\ s \in Seq(Resources) /\ DOMAIN s = {1, 2, 3, 4, 5} /\ s[1] = "outqBuf"
        /\ s[2] = "outqLock" /\ s[3] = "outqNotFull" /\ s[4] = "outqNotEmpty" /\ s[5] = "outq"
    BY ResourceNames DEF OutQueueFree, OutQueueParts, OutQueueLocks
  <2> HIDE DEF s
  <2>2. ToSet(s) = OutQueueParts
    BY <2>1 DEF ToSet, OutQueueParts, OutQueueLocks
  <2>3. Orderly(s)
    <3>1. /\ 1..(1 - 1) = {} /\ 1..(2 - 1) = {1} /\ 1..(3 - 1) = {1, 2}
          /\ 1..(4 - 1) = {1, 2, 3} /\ 1..(5 - 1) = {1, 2, 3, 4}
      OBVIOUS
    <3> QED BY <2>1, <3>1 DEF Orderly, Holder, QueueLocks, OutQueueLocks
  <2>4. Frees(s, OutQueueParts)
    BY <2>1, <2>2, <2>3 DEF Frees
  <2> QED BY <2>4 DEF s
<1>7. Frees(<<"cacheLock", "cacheDir", "cache">>, {"cacheLock", "cacheDir", "cache"})
  <2> DEFINE s == <<"cacheLock", "cacheDir", "cache">>
  <2>1. /\ s \in Seq(Resources) /\ DOMAIN s = {1, 2, 3}
        /\ s[1] = "cacheLock" /\ s[2] = "cacheDir" /\ s[3] = "cache"
    BY ResourceNames
  <2> HIDE DEF s
  <2>2. ToSet(s) = {"cacheLock", "cacheDir", "cache"}
    BY <2>1 DEF ToSet
  <2>3. Orderly(s)
    <3>1. 1..(1 - 1) = {} /\ 1..(2 - 1) = {1} /\ 1..(3 - 1) = {1, 2}
      OBVIOUS
    <3> QED BY <2>1, <3>1 DEF Orderly, Holder, QueueLocks, OutQueueLocks, QueueParts, OutQueueParts
  <2>4. Frees(s, {"cacheLock", "cacheDir", "cache"})
    BY <2>1, <2>2, <2>3 DEF Frees
  <2> QED BY <2>4 DEF s
<1>8. Frees(CacheFree, CacheParts)
  <2>1. /\ CacheFree \in Seq(Resources) /\ DOMAIN CacheFree = {1, 2, 3, 4}
        /\ CacheFree[1] = "cacheLock" /\ CacheFree[2] = "cacheLoaded"
        /\ CacheFree[3] = "cacheDir" /\ CacheFree[4] = "cache"
    BY ResourceNames DEF CacheFree
  <2>2. ToSet(CacheFree) = CacheParts
    BY <2>1 DEF ToSet, CacheParts
  <2>3. Orderly(CacheFree)
    <3>1. 1..(1 - 1) = {} /\ 1..(2 - 1) = {1} /\ 1..(3 - 1) = {1, 2} /\ 1..(4 - 1) = {1, 2, 3}
      OBVIOUS
    <3> QED BY <2>1, <3>1 DEF Orderly, Holder, QueueLocks, OutQueueLocks, QueueParts, OutQueueParts
  <2> QED BY <2>1, <2>2, <2>3 DEF Frees
<1>9. Frees(CloseOut, FilePart)
  <2>1. CASE ToStdout
    BY <1>1, <2>1 DEF CloseOut, FilePart
  <2>2. CASE ~ToStdout
    BY <1>2, <2>2, ResourceNames DEF CloseOut, FilePart
  <2> QED BY <2>1, <2>2
<1>10. {"cache", "queue", "outq", "threads"} \subseteq Resources
  BY ResourceNames DEF QueueParts, OutQueueParts
<1> QED BY <1>1, <1>2, <1>4, <1>5, <1>6, <1>7, <1>8, <1>9, <1>10

(* The lists of main, put together.                                          *)
LEMMA MainFrees ==
  /\ Frees(CloseOut \o CacheFree, CacheParts \cup FilePart)
  /\ Frees(QueueFree \o CloseOut \o CacheFree,
           CacheParts \cup FilePart \cup QueueParts)
  /\ Frees(OutQueueFree \o QueueFree \o CloseOut \o CacheFree,
           CacheParts \cup FilePart \cup QueueParts \cup OutQueueParts)
  /\ Frees(<<"threads">> \o OutQueueFree \o QueueFree \o CloseOut \o CacheFree, OwnedAt("merge"))
  /\ Frees(AtTheEnd, OwnedAt("merge"))
<1>1. Frees(CloseOut \o CacheFree, CacheParts \cup FilePart)
  <2>1. \A y \in CacheParts : FilePart \cap ({y} \cup Holder(y)) = {}
    BY DEF CacheParts, FilePart, Holder, QueueLocks, OutQueueLocks, QueueParts, OutQueueParts
  <2>2. Frees(CloseOut \o CacheFree, FilePart \cup CacheParts)
    BY <2>1, ListsFree, FreesBoth
  <2>3. FilePart \cup CacheParts = CacheParts \cup FilePart
    OBVIOUS
  <2> QED BY <2>2, <2>3
<1>2. Frees(QueueFree \o CloseOut, QueueParts \cup FilePart)
  <2>1. \A y \in FilePart : QueueParts \cap ({y} \cup Holder(y)) = {}
    BY DEF FilePart, Holder, QueueLocks, OutQueueLocks, QueueParts, OutQueueParts
  <2> QED BY <2>1, ListsFree, FreesBoth
<1>3. Frees(QueueFree \o CloseOut \o CacheFree,
            CacheParts \cup FilePart \cup QueueParts)
  <2>1. \A y \in CacheParts : (QueueParts \cup FilePart) \cap ({y} \cup Holder(y)) = {}
    BY DEF CacheParts, FilePart, Holder, QueueLocks, OutQueueLocks, QueueParts, OutQueueParts
  <2>2. Frees(QueueFree \o CloseOut \o CacheFree, QueueParts \cup FilePart \cup CacheParts)
    BY <1>2, <2>1, ListsFree, FreesBoth
  <2>3. QueueParts \cup FilePart \cup CacheParts
          = CacheParts \cup FilePart \cup QueueParts
    OBVIOUS
  <2> QED BY <2>2, <2>3
<1>4. Frees(OutQueueFree \o QueueFree, OutQueueParts \cup QueueParts)
  <2>1. \A y \in QueueParts : OutQueueParts \cap ({y} \cup Holder(y)) = {}
    BY DEF Holder, QueueLocks, OutQueueLocks, QueueParts, OutQueueParts
  <2> QED BY <2>1, ListsFree, FreesBoth
<1>5. ASSUME NEW s, NEW R, Frees(s, R), R \subseteq {"threads"} \cup OutQueueParts \cup QueueParts
      PROVE  /\ Frees(s \o CloseOut, R \cup FilePart)
             /\ Frees(s \o CloseOut \o CacheFree, R \cup FilePart \cup CacheParts)
             /\ Frees(s \o CacheFree \o CloseOut, R \cup CacheParts \cup FilePart)
  <2>1. \A y \in FilePart : R \cap ({y} \cup Holder(y)) = {}
    BY <1>5 DEF FilePart, Holder, QueueLocks, OutQueueLocks, QueueParts, OutQueueParts
  <2>2. Frees(s \o CloseOut, R \cup FilePart)
    BY <1>5, <2>1, ListsFree, FreesBoth
  <2>3. \A y \in CacheParts : (R \cup FilePart) \cap ({y} \cup Holder(y)) = {}
    BY <1>5 DEF CacheParts, FilePart, Holder, QueueLocks, OutQueueLocks, QueueParts, OutQueueParts
  <2>4. Frees(s \o CloseOut \o CacheFree, R \cup FilePart \cup CacheParts)
    BY <2>2, <2>3, ListsFree, FreesBoth
  <2>5. \A y \in CacheParts : R \cap ({y} \cup Holder(y)) = {}
    BY <2>3
  <2>6. Frees(s \o CacheFree, R \cup CacheParts)
    BY <1>5, <2>5, ListsFree, FreesBoth
  <2>7. \A y \in FilePart : (R \cup CacheParts) \cap ({y} \cup Holder(y)) = {}
    BY <1>5 DEF CacheParts, FilePart, Holder, QueueLocks, OutQueueLocks, QueueParts, OutQueueParts
  <2>8. Frees(s \o CacheFree \o CloseOut, R \cup CacheParts \cup FilePart)
    BY <2>6, <2>7, ListsFree, FreesBoth
  <2> QED BY <2>2, <2>4, <2>8
<1>6. Frees(OutQueueFree \o QueueFree \o CloseOut \o CacheFree,
            CacheParts \cup FilePart \cup QueueParts \cup OutQueueParts)
  <2>1. Frees(OutQueueFree \o QueueFree \o CloseOut \o CacheFree,
              OutQueueParts \cup QueueParts \cup FilePart \cup CacheParts)
    BY <1>4, <1>5
  <2>2. OutQueueParts \cup QueueParts \cup FilePart \cup CacheParts
          = CacheParts \cup FilePart \cup QueueParts \cup OutQueueParts
    OBVIOUS
  <2> QED BY <2>1, <2>2
<1> DEFINE all == {"threads"} \cup OutQueueParts \cup QueueParts
<1>7. Frees(<<"threads">> \o OutQueueFree \o QueueFree, all)
  <2>1. \A y \in OutQueueParts : {"threads"} \cap ({y} \cup Holder(y)) = {}
    BY DEF Holder, QueueLocks, OutQueueLocks, QueueParts, OutQueueParts
  <2>2. Frees(<<"threads">> \o OutQueueFree, {"threads"} \cup OutQueueParts)
    BY <2>1, ListsFree, FreesBoth
  <2>3. \A y \in QueueParts :
          ({"threads"} \cup OutQueueParts) \cap ({y} \cup Holder(y)) = {}
    BY DEF Holder, QueueLocks, OutQueueLocks, QueueParts, OutQueueParts
  <2> QED BY <2>2, <2>3, ListsFree, FreesBoth
<1>8. /\ all \cup FilePart \cup CacheParts = OwnedAt("merge")
      /\ all \cup CacheParts \cup FilePart = OwnedAt("merge")
  BY DEF OwnedAt
<1>9. all \subseteq {"threads"} \cup OutQueueParts \cup QueueParts
  OBVIOUS
<1> DEFINE first == <<"threads">> \o OutQueueFree \o QueueFree
<1> HIDE DEF all
<1>10. Frees(first, all)
  BY <1>7
<1> HIDE DEF first
<1>11. /\ Frees(first \o CloseOut \o CacheFree, all \cup FilePart \cup CacheParts)
       /\ Frees(first \o CacheFree \o CloseOut, all \cup CacheParts \cup FilePart)
  BY <1>5, <1>9, <1>10
<1>12. /\ Frees(first \o CloseOut \o CacheFree, OwnedAt("merge"))
       /\ Frees(first \o CacheFree \o CloseOut, OwnedAt("merge"))
  BY <1>8, <1>11
<1>13. Frees(<<"threads">> \o OutQueueFree \o QueueFree \o CloseOut \o CacheFree, OwnedAt("merge"))
  BY <1>12 DEF first
<1>14. Frees(AtTheEnd, OwnedAt("merge"))
  BY <1>12 DEF first, AtTheEnd
<1> QED BY <1>1, <1>3, <1>6, <1>13, <1>14

(* Where acquiring r fails, what is released is what was acquired.           *)
LEMMA UndoFrees ==
  ASSUME NEW r \in Steps \cup {"workers"}
  PROVE  Frees(Undo(r), OwnedAt(r))
<1>1. ASSUME NEW s, NEW R, Frees(s, R)
      PROVE  Frees(s \o <<>>, R) /\ Frees(<<>> \o s, R)
  <2>1. Frees(s \o <<>>, R \cup {})
    BY <1>1, ListsFree, FreesBoth
  <2>2. Frees(<<>> \o s, {} \cup R)
    BY <1>1, ListsFree, FreesBoth
  <2>3. R \cup {} = R /\ {} \cup R = R
    OBVIOUS
  <2> QED BY <2>1, <2>2, <2>3
<1>2. ASSUME NEW s, NEW R, Frees(s, R)
      PROVE  /\ Frees(s \o <<>> \o <<>>, R)
             /\ Frees(<<>> \o s \o <<>>, R)
             /\ Frees(<<>> \o <<>> \o s, R)
  <2>1. Frees(s \o <<>>, R) /\ Frees(<<>> \o s, R) /\ Frees(<<>> \o <<>>, {})
    BY <1>1, <1>2, ListsFree
  <2>2. Frees(s \o <<>> \o <<>>, R) /\ Frees(<<>> \o s \o <<>>, R)
    BY <1>1, <2>1
  <2>3. Frees(<<>> \o <<>> \o s, {} \cup R)
    BY <1>2, <2>1, FreesBoth
  <2>4. {} \cup R = R
    OBVIOUS
  <2> QED BY <2>2, <2>3, <2>4
<1>3. Undo(r) = LangCacheNewUndo(r) \o IoQueueNewUndo(r) \o MainUndo(r)
  BY DEF Undo
<1>4. CASE r \in {"cache", "cacheDir", "cacheLock", "cacheLoaded"}
  <2>1. IoQueueNewUndo(r) = <<>> /\ MainUndo(r) = <<>>
    BY <1>4 DEF IoQueueNewUndo, MainUndo
  <2>2. Frees(LangCacheNewUndo(r), OwnedAt(r))
    <3>1. CASE r = "cache"
      BY <3>1, ListsFree DEF LangCacheNewUndo, OwnedAt
    <3>2. CASE r = "cacheDir"
      BY <3>2, ListsFree DEF LangCacheNewUndo, OwnedAt
    <3>3. CASE r = "cacheLock"
      <4>1. {"cacheDir", "cache"} = {"cache", "cacheDir"}
        OBVIOUS
      <4> QED BY <3>3, <4>1, ListsFree DEF LangCacheNewUndo, OwnedAt
    <3>4. CASE r = "cacheLoaded"
      <4>1. {"cacheLock", "cacheDir", "cache"} = {"cache", "cacheDir", "cacheLock"}
        OBVIOUS
      <4> QED BY <3>4, <4>1, ListsFree DEF LangCacheNewUndo, OwnedAt
    <3> QED BY <1>4, <3>1, <3>2, <3>3, <3>4
  <2> QED BY <1>2, <1>3, <2>1, <2>2
<1>5. CASE r \in {"out", "queue", "outq", "threads", "workers"}
  <2>1. LangCacheNewUndo(r) = <<>> /\ IoQueueNewUndo(r) = <<>>
    BY <1>5 DEF LangCacheNewUndo, IoQueueNewUndo
  <2>2. Frees(MainUndo(r), OwnedAt(r))
    <3>1. CASE r = "out"
      BY <3>1, ListsFree DEF MainUndo, OwnedAt
    <3>2. CASE r = "queue"
      BY <3>2, MainFrees DEF MainUndo, OwnedAt
    <3>3. CASE r = "outq"
      BY <3>3, MainFrees DEF MainUndo, OwnedAt
    <3>4. CASE r = "threads"
      BY <3>4, MainFrees DEF MainUndo, OwnedAt
    <3>5. CASE r = "workers"
      BY <3>5, MainFrees DEF MainUndo, OwnedAt
    <3> QED BY <1>5, <3>1, <3>2, <3>3, <3>4, <3>5
  <2> QED BY <1>2, <1>3, <2>1, <2>2
<1>6. CASE r = "queueBuf"
  <2> DEFINE R == CacheParts \cup FilePart
  <2>1. /\ LangCacheNewUndo(r) = <<>> /\ IoQueueNewUndo(r) = <<"queue">>
        /\ MainUndo(r) = CloseOut \o CacheFree
    BY <1>6 DEF LangCacheNewUndo, IoQueueNewUndo, MainUndo
  <2>2. Frees(<<>> \o <<"queue">>, {"queue"}) /\ Frees(CloseOut \o CacheFree, R)
    BY <1>1, ListsFree, MainFrees
  <2>3. \A y \in R : {"queue"} \cap ({y} \cup Holder(y)) = {}
    BY DEF CacheParts, FilePart, Holder, QueueLocks, OutQueueLocks, QueueParts, OutQueueParts
  <2>4. {"queue"} \cup R = OwnedAt(r)
    BY <1>6 DEF OwnedAt
  <2> HIDE DEF R
  <2>5. Frees(<<>> \o <<"queue">> \o (CloseOut \o CacheFree), {"queue"} \cup R)
    BY <2>2, <2>3, FreesBoth
  <2> QED BY <1>3, <2>1, <2>4, <2>5
<1>7. CASE r = "outqBuf"
  <2> DEFINE R == CacheParts \cup FilePart \cup QueueParts
  <2>1. /\ LangCacheNewUndo(r) = <<>> /\ IoQueueNewUndo(r) = <<"outq">>
        /\ MainUndo(r) = QueueFree \o CloseOut \o CacheFree
    BY <1>7 DEF LangCacheNewUndo, IoQueueNewUndo, MainUndo
  <2>2. Frees(<<>> \o <<"outq">>, {"outq"}) /\ Frees(QueueFree \o CloseOut \o CacheFree, R)
    BY <1>1, ListsFree, MainFrees
  <2>3. \A y \in R : {"outq"} \cap ({y} \cup Holder(y)) = {}
    BY DEF CacheParts, FilePart, Holder, QueueLocks, OutQueueLocks, QueueParts, OutQueueParts
  <2>4. {"outq"} \cup R = OwnedAt(r)
    BY <1>7 DEF OwnedAt
  <2> HIDE DEF R
  <2>5. Frees(<<>> \o <<"outq">> \o (QueueFree \o CloseOut \o CacheFree), {"outq"} \cup R)
    BY <2>2, <2>3, FreesBoth
  <2> QED BY <1>3, <2>1, <2>4, <2>5
<1> QED BY <1>4, <1>5, <1>6, <1>7, ResourceNames

(* Releasing in order what is owned misuses nothing and leaves nothing.      *)
LEMMA ReleaseAll ==
  ASSUME NEW s, Owns, Frees(s, OwnedAt(at)), Release(s)
  PROVE  owned' = {} /\ misused' = FALSE
<1>1. \A x \in owned : Holder(x) \subseteq owned
  BY DEF Owns, OwnedAt, CacheParts, FilePart, Holder, QueueLocks, OutQueueLocks, QueueParts,
         OutQueueParts
<1>2. s \in Seq(Resources) /\ ToSet(s) = owned /\ Orderly(s)
  BY DEF Frees, Owns
<1>3. ASSUME NEW i \in DOMAIN s
      PROVE  {s[i]} \cup Holder(s[i]) \subseteq owned \ ToSet(SubSeq(s, 1, i - 1))
  <2>1. i \in 1..Len(s) /\ Len(s) \in Nat
    BY <1>2
  <2>2. /\ DOMAIN SubSeq(s, 1, i - 1) = 1..(i - 1)
        /\ \A j \in 1..(i - 1) : SubSeq(s, 1, i - 1)[j] = s[j]
    BY <1>2, <2>1
  <2>3. \A x \in ToSet(SubSeq(s, 1, i - 1)) : \E j \in 1..(i - 1) : s[j] = x
    BY <2>2 DEF ToSet
  <2>4. s[i] \in owned
    BY <1>2 DEF ToSet
  <2> QED BY <1>1, <1>2, <2>3, <2>4 DEF Orderly
<1>4. misused' = FALSE
  <2>1. misused' = (misused \/ \E i \in DOMAIN s :
          ~({s[i]} \cup Holder(s[i])) \subseteq owned \ ToSet(SubSeq(s, 1, i - 1)))
    BY DEF Release
  <2> QED BY <1>3, <2>1 DEF Owns
<1> QED BY <1>2, <1>4 DEF Release

(* No step lets go of something early, or forgets something.                 *)
LEMMA OwnsStep == Sized /\ Owns /\ [Next]_vars => Owns'
<1> SUFFICES ASSUME Sized, Owns, [Next]_vars PROVE Owns'
  OBVIOUS
<1>1. ASSUME NEW file \in {"-", "path"}, OptionO(file) PROVE Owns'
  BY <1>1 DEF OptionO, Owns, OwnedAt, MainLabels, mem
<1>2. ASSUME NEW t \in Texts, OptionJ(t) PROVE Owns'
  <2>1. at = "options" /\ at' \in {"options", "exit 2"} /\ UNCHANGED <<owned, misused>>
    BY <1>2 DEF OptionJ, mem
  <2> QED BY <2>1 DEF Owns, OwnedAt, MainLabels, EndLabels
<1>3. ASSUME OptionOther \/ OptionsEnd \/ ChooseDir PROVE Owns'
  <2>1. /\ at \in {"options", "dir"} /\ at' \in {"help", "exit 2", "dir", "cache", "aborted"}
        /\ UNCHANGED <<owned, misused>>
    BY <1>3 DEF OptionOther, OptionsEnd, ChooseDir, mem
  <2> QED BY <2>1 DEF Owns, OwnedAt, MainLabels, EndLabels
<1>4. ASSUME NEW cores \in Cores, CountJobs(cores) PROVE Owns'
  BY <1>4 DEF CountJobs, mem, Owns, OwnedAt, MainLabels
<1>5. ASSUME NEW r \in Steps, Acquire(r) PROVE Owns'
  <2>1. /\ at = r /\ at' = After(r) /\ UNCHANGED <<opts, misused>>
        /\ owned' = owned \cup Gained(r)
    BY <1>5 DEF Acquire
  <2>2. ToStdout' = ToStdout /\ FilePart' = FilePart
    BY <2>1 DEF ToStdout, FilePart
  <2>3. owned' = OwnedAt(at)' /\ at' \in MainLabels
    <3>1. CASE r \in {"cache", "cacheDir", "cacheLock", "cacheLoaded"}
      BY <2>1, <3>1, Afters DEF Owns, OwnedAt, CacheParts, MainLabels, Gained
    <3>2. CASE r \in {"queue", "queueBuf", "outq", "outqBuf", "threads"}
      BY <2>1, <2>2, <3>2, Afters DEF Owns, OwnedAt, MainLabels, Gained, QueueParts, OutQueueParts
    <3>3. CASE r = "out"
      BY <2>1, <2>2, <3>3, Afters DEF Owns, OwnedAt, FilePart, MainLabels, Gained
    <3> QED BY <3>1, <3>2, <3>3, ResourceNames
  <2> QED BY <2>1, <2>3 DEF Owns
<1>6. ASSUME NEW r \in Steps \cup {"workers"}, Fails(r) PROVE Owns'
  <2>1. at = r /\ at' = "exit 1" /\ Release(Undo(r))
    BY <1>6 DEF Fails
  <2>2. owned' = {} /\ misused' = FALSE
    BY <2>1, UndoFrees, ReleaseAll
  <2> QED BY <2>1, <2>2 DEF Owns, OwnedAt, MainLabels, EndLabels
<1>7. ASSUME CreateWorker \/ CreateMerge PROVE Owns'
  <2>1. /\ at = "workers" /\ at' \in {"workers", "merge"}
        /\ UNCHANGED <<opts, owned, misused>>
    BY <1>7 DEF CreateWorker, CreateMerge, mem
  <2> QED BY <2>1 DEF Owns, OwnedAt, FilePart, ToStdout, MainLabels
<1>8. ASSUME End PROVE Owns'
  <2>1. at = "merge" /\ at' \in {"exit 0", "exit 1"} /\ Release(AtTheEnd)
    BY <1>8 DEF End
  <2>2. owned' = {} /\ misused' = FALSE
    BY <2>1, MainFrees, ReleaseAll
  <2> QED BY <2>1, <2>2 DEF Owns, OwnedAt, MainLabels, EndLabels
<1>9. CASE UNCHANGED vars
  BY <1>9 DEF vars, mem, Owns, OwnedAt, FilePart, ToStdout
<1> QED BY <1>1, <1>2, <1>3, <1>4, <1>5, <1>6, <1>7, <1>8, <1>9 DEF Next, Finished

(* At every moment main owns what comes before in the order in which it      *)
(* acquires, and has released nothing twice or after its holder.             *)
THEOREM OwnsHolds == Spec => []Owns
<1>1. Init => Owns
  BY DEF Init, Owns, OwnedAt, MainLabels
<1>2. Sized /\ Owns /\ [Next]_vars => Owns'
  BY OwnsStep
<1> QED BY <1>1, <1>2, SizedHolds, PTL DEF Spec

(* Wherever a run of main ends, whichever acquisition failed, everything it  *)
(* acquired has been released, nothing twice, nothing after its holder.      *)
THEOREM CleanExitHolds == Spec => []CleanExit
<1>1. Owns => CleanExit
  BY DEF Owns, OwnedAt, CleanExit, Ended
<1> QED BY <1>1, OwnsHolds, PTL

(* Numbers fit their types.                                                  *)
InWidth == opts.jobs <= LONG_MAX /\ jobs <= LONG_MAX /\ bytes <= SIZE_MAX

(* No step leaves the range of a long or of a size_t.                        *)
LEMMA WidthStep == Sized /\ InWidth /\ [Next]_vars => InWidth'
<1> SUFFICES ASSUME Sized, InWidth, [Next]_vars PROVE InWidth'
  OBVIOUS
<1> USE StartupAssumption
<1>1. ASSUME NEW file \in {"-", "path"}, OptionO(file) PROVE InWidth'
  <2>1. opts' = [opts EXCEPT !.output = file] /\ jobs' = jobs /\ bytes' = bytes
    BY <1>1 DEF OptionO
  <2>2. opts'.jobs = opts.jobs
    BY <2>1 DEF Sized
  <2> QED BY <2>1, <2>2 DEF InWidth
<1>2. ASSUME NEW t \in Texts, OptionJ(t) PROVE InWidth'
  <2>1. jobs' = jobs /\ bytes' = bytes
    BY <1>2 DEF OptionJ
  <2>2. CASE Accepted(t) /\ opts' = [opts EXCEPT !.jobs = t.value]
    <3>1. opts'.jobs = t.value
      BY <2>2 DEF Sized
    <3> QED BY <2>1, <2>2, <3>1 DEF InWidth, Accepted, InRange
  <2>3. CASE UNCHANGED opts
    BY <2>1, <2>3 DEF InWidth
  <2> QED BY <1>2, <2>2, <2>3 DEF OptionJ
<1>3. ASSUME NEW cores \in Cores, CountJobs(cores) PROVE InWidth'
  <2>1. /\ jobs' = IF opts.jobs > 0 THEN opts.jobs ELSE Max({cores - 2, 1})
        /\ opts' = opts /\ bytes' = bytes
    BY <1>3 DEF CountJobs
  <2>2. cores - 2 \in Int /\ cores - 2 <= LONG_MAX /\ 1 <= LONG_MAX
    OBVIOUS
  <2>3. Max({cores - 2, 1}) <= LONG_MAX
    <3>1. Max({cores - 2, 1}) \in {cores - 2, 1}
      BY <2>2, AtLeastOne
    <3> QED BY <2>2, <3>1
  <2> QED BY <2>1, <2>3 DEF InWidth
<1>4. ASSUME NEW r \in Steps, Acquire(r) PROVE InWidth'
  <2>1. opts' = opts /\ jobs' = jobs /\ (bytes' = bytes \/ bytes' = Product)
    BY <1>4 DEF Acquire
  <2>2. Product <= SIZE_MAX
    <3>1. jobs * WordSize \in Nat /\ SIZE_MAX \in Nat
      BY DEF Sized
    <3> DEFINE p == jobs * WordSize
    <3> HIDE DEF p
    <3>2. p % (SIZE_MAX + 1) <= SIZE_MAX
      BY <3>1 DEF p
    <3> QED BY <3>2 DEF Product, p
  <2> QED BY <2>1, <2>2 DEF InWidth
<1>5. CASE UNCHANGED <<opts, jobs, bytes>>
  BY <1>5 DEF InWidth
<1> QED BY <1>1, <1>2, <1>3, <1>4, <1>5
        DEF Next, Finished, OptionOther, OptionsEnd, ChooseDir, Fails, CreateWorker, CreateMerge,
            End, vars

(* Every variable keeps its range; in particular the number of jobs is one   *)
(* an array can have, for every argument of -j and every answer of sysconf.  *)
THEOREM TypeCorrect == Spec => []TypeOK
<1>1. Init => InWidth
  BY StartupAssumption DEF Init, InWidth
<1>2. Sized /\ InWidth /\ [Next]_vars => InWidth'
  BY WidthStep
<1>3. Sized /\ Owns /\ InWidth => TypeOK
  <2> SUFFICES ASSUME Sized, Owns, InWidth PROVE TypeOK
    OBVIOUS
  <2>1. ToSet(Order) = {"cache", "cacheDir", "cacheLock", "cacheLoaded", "jobs", "out", "queue",
                        "queueBuf", "outq", "outqBuf", "threads", "workers"}
    BY DEF ToSet, Order
  <2>2. at \in {"options", "dir", "merge"} \cup ToSet(Order)
                 \cup {"help", "exit 0", "exit 1", "exit 2", "aborted"}
    BY <2>1 DEF Owns, MainLabels, EndLabels
  <2>3. opts.output \in {"NULL", "-", "path"} /\ opts.jobs \in 0..LONG_MAX
    BY StartupAssumption DEF Sized, InWidth
  <2>4. jobs \in 0..LONG_MAX /\ bytes \in 0..SIZE_MAX /\ created \in 0..MaxThreads
    BY StartupAssumption DEF Sized, InWidth
  <2>5. at \in {"out", "workers", "merge"} => jobs >= 1
    BY DEF Sized, Later
  <2>6. owned \subseteq Resources
    <3>1. /\ CacheParts \subseteq Resources /\ FilePart \subseteq Resources
          /\ QueueParts \subseteq Resources /\ OutQueueParts \subseteq Resources
          /\ {"threads", "queue", "outq"} \subseteq Resources
      BY ResourceNames DEF CacheParts, FilePart, QueueParts, OutQueueParts
    <3>2. {"cache", "cacheDir", "cacheLock"} \subseteq CacheParts
      BY DEF CacheParts
    <3> QED BY <3>1, <3>2 DEF Owns, OwnedAt
  <2> QED BY <2>2, <2>3, <2>4, <2>5, <2>6 DEF TypeOK
<1> QED BY <1>1, <1>2, <1>3, SizedHolds, OwnsHolds, PTL DEF Spec

===============================================================================
