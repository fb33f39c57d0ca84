------------------------------- MODULE Startup -------------------------------
(***************************************************************************)
(* How a run of tsag starts and ends in the main thread: parse_options of  *)
(* src/options.c, and of src/main.c the choice of the parser directory and *)
(* of the number of jobs, everything main acquires, what it releases where *)
(* an acquisition fails, and what it releases in the end.  The             *)
(* constructors lang_cache_new and io_queue_new and their lang_cache_free  *)
(* and io_queue_free are part of it.  What happens between creating the    *)
(* merge thread and joining it is module Tsag's.                           *)
(***************************************************************************)
EXTENDS Integers, Sequences, SequencesExt, FiniteSetsExt

CONSTANTS
  Texts,         \* arguments of -j: [value, rest], what strtol reads and
                 \* whether anything follows it (or it reads nothing)
  Cores,         \* what sysconf may say, -1 included
  LONG_MAX, INT_MAX, SIZE_MAX,
  WordSize,      \* sizeof(void*) and sizeof(pthread_t)
  MaxThreads     \* threads the system lets the process have

(* sysconf returns -1 or a number that fits a long; no system has as many   *)
(* threads as an int has values.                                            *)
ASSUME StartupAssumption ==
  /\ Texts \in SUBSET [value : Int, rest : BOOLEAN]
  /\ Cores \in SUBSET (-1..LONG_MAX)
  /\ {LONG_MAX, INT_MAX, SIZE_MAX, WordSize, MaxThreads} \in SUBSET (Nat \ {0})
  /\ MaxThreads <= INT_MAX

VARIABLES
  build,      \* "debug", or "release", which compiles assertions out
  env,        \* which of the two environment variables are set
  at,         \* where main stands, see TypeOK
  opts,       \* output ("NULL" when not given) and jobs (0: not given)
  dir,        \* the parser directory
  jobs,       \* the local variable of main
  owned,      \* what was acquired and not released
  misused,    \* something was released that was not owned, or too early
  tags,       \* the output file: "old", or "truncated" by fopen
  bytes,      \* size of the array threads
  created,    \* worker threads created
  n           \* merge_arg.n

mem == <<owned, misused>>
vars == <<build, env, at, opts, dir, jobs, mem, tags, bytes, created, n>>

Init ==
  /\ build \in {"debug", "release"}
  /\ env \in SUBSET {"TSAG_PARSERS", "XDG_DATA_HOME"}
  /\ at = "options"
  /\ opts = [output |-> "NULL", jobs |-> 0]
  /\ dir = "unset" /\ jobs = 0
  /\ owned = {} /\ misused = FALSE
  /\ tags = "old" /\ bytes = 0 /\ created = 0 /\ n = 0

-------------------------------------------------------------------------------
(* Mistakes that are easy to make in this code.  The specification uses     *)
(* none of them; substituted for the definition named in the comment, each  *)
(* breaks a property below.                                                 *)
ForgetDir == <<"cacheLock", "cacheLoaded", "cache">>          \* for CacheFree
AnySize == TRUE                                               \* for FitsMemory
SomeCreated == created >= 1                                   \* for AllCreated
AnyNumber(t) == ~t.rest                                       \* for Accepted

-------------------------------------------------------------------------------
(* parse_options: getopt returns one option after another, each any number  *)
(* of times; the last -o and the last -j count.                             *)
OptionO(file) ==
  /\ at = "options"
  /\ opts' = [opts EXCEPT !.output = file]
  /\ UNCHANGED <<build, env, at, dir, jobs, mem, tags, bytes, created, n>>

(* strtol sets errno when the number is out of range of a long.             *)
InRange(v) == -LONG_MAX - 1 <= v /\ v <= LONG_MAX
Accepted(t) == InRange(t.value) /\ ~t.rest /\ t.value >= 1

OptionJ(t) ==
  /\ at = "options"
  /\ \/ Accepted(t) /\ opts' = [opts EXCEPT !.jobs = t.value] /\ UNCHANGED at
     \/ ~Accepted(t) /\ at' = "exit 2" /\ UNCHANGED opts
  /\ UNCHANGED <<build, env, dir, jobs, mem, tags, bytes, created, n>>

(* -h, and an option that is unknown or lacks its argument.                 *)
OptionOther ==
  /\ at = "options"
  /\ at' \in {"help", "exit 2"}
  /\ UNCHANGED <<build, env, opts, dir, jobs, mem, tags, bytes, created, n>>

OptionsEnd ==
  /\ at = "options"
  /\ at' = "dir"
  /\ UNCHANGED <<build, env, opts, dir, jobs, mem, tags, bytes, created, n>>

-------------------------------------------------------------------------------
BaseDirSet == env # {}

(* assert(base_dir) aborts a debug build; a release build formats NULL.     *)
ChooseDir ==
  /\ at = "dir"
  /\ \/ /\ BaseDirSet \/ build = "release"
        /\ dir' = CASE "TSAG_PARSERS" \in env -> "$TSAG_PARSERS"
                    [] env = {"XDG_DATA_HOME"} -> "$XDG_DATA_HOME/tsag"
                    [] OTHER -> "(null)/tsag"
        /\ at' = "cache"
     \/ ~BaseDirSet /\ build = "debug" /\ at' = "aborted" /\ UNCHANGED dir
  /\ UNCHANGED <<build, env, opts, jobs, mem, tags, bytes, created, n>>

CountJobs(cores) ==
  /\ at = "jobs"
  /\ jobs' = IF opts.jobs > 0 THEN opts.jobs ELSE Max({cores - 2, 1})
  /\ at' = "out"
  /\ UNCHANGED <<build, env, opts, dir, mem, tags, bytes, created, n>>

-------------------------------------------------------------------------------
(* What main acquires, in this order.                                       *)
Order == <<"cache", "cacheDir", "cacheLock", "cacheLoaded", "jobs", "out",
           "queue", "queueBuf", "outq", "outqBuf", "threads", "workers">>
Steps == ToSet(Order) \ {"jobs", "workers"}
QueueLocks == {"queueLock", "queueNotFull", "queueNotEmpty"}
OutQueueLocks == {"outqLock", "outqNotFull", "outqNotEmpty"}
Resources == Steps \cup QueueLocks \cup OutQueueLocks
After(r) == Order[CHOOSE i \in DOMAIN Order : i > 1 /\ Order[i - 1] = r]

ToStdout == opts.output = "-"

(* calloc refuses a product that does not fit, malloc is given what is left *)
(* of it.                                                                   *)
FitsMemory == jobs * WordSize <= SIZE_MAX
Product == (jobs * WordSize) % (SIZE_MAX + 1)

(* io_queue_new makes the mutex and the condition variables of a queue when  *)
(* it has the buffer.                                                       *)
Gained(r) ==
  CASE r = "out" /\ ToStdout -> {}
    [] r = "queueBuf" -> {"queueBuf"} \cup QueueLocks
    [] r = "outqBuf" -> {"outqBuf"} \cup OutQueueLocks
    [] OTHER -> {r}

Acquire(r) ==
  /\ at = r
  /\ r = "outqBuf" => FitsMemory
  /\ owned' = owned \cup Gained(r)
  /\ tags' = IF r = "out" /\ ~ToStdout THEN "truncated" ELSE tags
  /\ bytes' = IF r = "threads" THEN Product ELSE bytes
  /\ at' = After(r)
  /\ UNCHANGED <<build, env, opts, dir, jobs, misused, created, n>>

CacheFree == <<"cacheLock", "cacheLoaded", "cacheDir", "cache">>
QueueFree == <<"queueBuf", "queueLock", "queueNotFull", "queueNotEmpty", "queue">>
OutQueueFree == <<"outqBuf", "outqLock", "outqNotFull", "outqNotEmpty", "outq">>
CloseOut == IF ToStdout THEN <<>> ELSE <<"out">>

(* What the constructors release when acquiring r fails, and main after it. *)
LangCacheNewUndo(r) ==
  CASE r = "cacheDir"    -> <<"cache">>
    [] r = "cacheLock"   -> <<"cacheDir", "cache">>
    [] r = "cacheLoaded" -> <<"cacheLock", "cacheDir", "cache">>
    [] OTHER             -> <<>>

IoQueueNewUndo(r) ==
  CASE r = "queueBuf" -> <<"queue">> [] r = "outqBuf" -> <<"outq">> [] OTHER -> <<>>

MainUndo(r) ==
  CASE r = "out"                   -> CacheFree
    [] r \in {"queue", "queueBuf"} -> CloseOut \o CacheFree
    [] r \in {"outq", "outqBuf"}   -> QueueFree \o CloseOut \o CacheFree
    [] r = "threads"               -> OutQueueFree \o QueueFree \o CloseOut \o CacheFree
    [] r = "workers"               -> <<"threads">> \o OutQueueFree \o QueueFree
                                        \o CloseOut \o CacheFree
    [] OTHER                       -> <<>>

Undo(r) == LangCacheNewUndo(r) \o IoQueueNewUndo(r) \o MainUndo(r)
AtTheEnd == <<"threads">> \o OutQueueFree \o QueueFree \o CacheFree \o CloseOut

(* The object that holds r, or through which r is reached. *)
Holder(r) ==
  CASE r \in {"cacheDir", "cacheLock", "cacheLoaded"} -> {"cache"}
    [] r \in {"queueBuf"} \cup QueueLocks -> {"queue"}
    [] r \in {"outqBuf"} \cup OutQueueLocks -> {"outq"}
    [] OTHER -> {}

(* To release r is right while r and what holds it are owned.               *)
Release(s) ==
  /\ owned' = owned \ ToSet(s)
  /\ misused' = (misused \/ \E i \in DOMAIN s :
                   ~({s[i]} \cup Holder(s[i])) \subseteq owned \ ToSet(SubSeq(s, 1, i - 1)))

(* At "workers" a worker cannot be created, or all are and the merge thread  *)
(* cannot: both release the same.                                           *)
Fails(r) ==
  /\ at = r
  /\ r # "out" \/ ~ToStdout
  /\ Release(Undo(r))
  /\ at' = "exit 1"
  /\ UNCHANGED <<build, env, opts, dir, jobs, tags, bytes, created, n>>

-------------------------------------------------------------------------------
AllCreated == created = jobs

CreateWorker ==
  /\ at = "workers" /\ ~AllCreated
  /\ created < MaxThreads
  /\ created' = created + 1
  /\ UNCHANGED <<build, env, at, opts, dir, jobs, mem, tags, bytes, n>>

(* (int)jobs *)
ToInt(v) == ((v + INT_MAX + 1) % (2 * (INT_MAX + 1))) - (INT_MAX + 1)

CreateMerge ==
  /\ at = "workers" /\ AllCreated
  /\ n' = ToInt(jobs)
  /\ at' = "merge"
  /\ UNCHANGED <<build, env, opts, dir, jobs, mem, tags, bytes, created>>

(* All threads are joined; fclose may report a failure.                     *)
End ==
  /\ at = "merge"
  /\ Release(AtTheEnd)
  /\ at' \in IF ToStdout THEN {"exit 0"} ELSE {"exit 0", "exit 1"}
  /\ UNCHANGED <<build, env, opts, dir, jobs, tags, bytes, created, n>>

Ended == at \in {"help", "exit 0", "exit 1", "exit 2", "aborted"}
Finished == Ended /\ UNCHANGED vars

Next ==
  \/ \E file \in {"-", "path"} : OptionO(file)
  \/ \E t \in Texts : OptionJ(t)
  \/ OptionOther \/ OptionsEnd \/ ChooseDir
  \/ \E cores \in Cores : CountJobs(cores)
  \/ \E r \in Steps : Acquire(r)
  \/ \E r \in Steps \cup {"workers"} : Fails(r)
  \/ CreateWorker \/ CreateMerge \/ End \/ Finished

Spec == Init /\ [][Next]_vars

-------------------------------------------------------------------------------
(* Properties.                                                              *)

(* Ranges; in particular the number of jobs is one an array can have, for   *)
(* every argument of -j and every answer of sysconf.                        *)
TypeOK ==
  /\ at \in {"options", "dir", "merge"} \cup ToSet(Order)
         \cup {"help", "exit 0", "exit 1", "exit 2", "aborted"}
  /\ opts.output \in {"NULL", "-", "path"} /\ opts.jobs \in 0..LONG_MAX
  /\ jobs \in 0..LONG_MAX
  /\ at \in {"out", "workers", "merge"} => jobs >= 1
  /\ owned \subseteq Resources
  /\ bytes \in 0..SIZE_MAX /\ created \in 0..MaxThreads

(* Wherever a run of main ends, everything it acquired has been released,   *)
(* nothing twice, and nothing after the object that holds it.               *)
CleanExit == ~misused /\ (Ended => owned = {})

(* Every pthread_create stores its thread inside the array, although the    *)
(* size given to malloc may have wrapped: main.c:76 checks nothing.         *)
ThreadsFit == created * WordSize <= bytes

(* The merge thread has room for exactly as many batches as there are       *)
(* workers, at least one, although jobs is a long and merge_arg.n an int.   *)
MergeArrayFits == at = "merge" => n = created /\ n >= 1
===============================================================================
