------------------------------ MODULE LangCache ------------------------------
(***************************************************************************)
(* The language cache of src/lang.c, shared by all workers.  A worker asks *)
(* for the language of a file's extension; the first to ask loads it with  *)
(* the lock released (dlopen, dlsym, ts_query_new), the others for that    *)
(* language wait on the condition variable, and other languages load in    *)
(* parallel.  An entry is handed out as a pointer into entries[] and used  *)
(* without the lock until the worker's next file.                          *)
(*                                                                         *)
(* What runs under the lock is one action.  load_lang runs without it and  *)
(* touches nothing shared, so it is one action too.                        *)
(***************************************************************************)
EXTENDS Naturals, Sequences, FiniteSets

CONSTANTS
  Workers,
  Exts,        \* the extensions in EXT_LANG
  Literal,     \* Literal[e]: the string literal EXT_LANG gives for e
  Name,        \* Name[p]: what the literal p spells
  MAX_LANGS,   \* size of entries[] and of loading[]
  Gets,        \* bound: Gets[w] files for worker w
  NULL

Literals == {Literal[e] : e \in Exts}
Langs == {Name[p] : p \in Literals}
Handles == UNION {{w} \X (1..Gets[w]) : w \in Workers}    \* load k of worker w
Copied == {"lib", "query", "name"}       \* what an entry of entries[] has
Parts == {"entry"} \cup Copied           \* and load_lang: a LangEntry on the heap

(* lang.c:169 and 198 compare names by pointer: one language should be one  *)
(* literal.  Compilers keep one copy of equal literals of a file; the C     *)
(* standard leaves it open, so this is not assumed.                         *)
LiteralsMerged == \A p, q \in Literals : Name[p] = Name[q] => p = q

ASSUME LangCacheAssumption ==
  /\ IsFiniteSet(Workers) /\ IsFiniteSet(Langs)
  /\ MAX_LANGS \in Nat \ {0}
  /\ Gets \in [Workers -> Nat]
  /\ NULL \notin Literals \cup Handles

VARIABLES
  entries,   \* entries[0..entry_count-1], as a sequence
  loading,   \* loading[0..loading_count-1], as a sequence of literals
  pc,        \* where each worker stands, see TypeOK
  want,      \* name in lang_cache_get: the literal of the last request
  held,      \* index of the entry last returned, 0 for NULL
  tmp,       \* what load_lang returned, NULL for NULL
  ngets,     \* requests made by each worker
  open,      \* parts of loads that are acquired and not released
  freed,     \* lang_cache_free has run
  tried      \* history: literals a load of which has ended

vars == <<entries, loading, pc, want, held, tmp, ngets, open, freed, tried>>

Init ==
  /\ entries = <<>> /\ loading = <<>>
  /\ pc = [w \in Workers |-> "idle"]
  /\ want = [w \in Workers |-> NULL]
  /\ held = [w \in Workers |-> 0]
  /\ tmp = [w \in Workers |-> NULL]
  /\ ngets = [w \in Workers |-> 0]
  /\ open = {}
  /\ freed = FALSE
  /\ tried = {}

-------------------------------------------------------------------------------
(* Mistakes that are easy to make in this code.  The specification uses     *)
(* none of them; substituted for the definition named in the comment, each  *)
(* breaks a property below.                                                 *)
UnmarkAtEnd(q, p) == SubSeq(q, 1, Len(q) - 1)                \* for Unmark
OneEntryLess == Len(loading) = MAX_LANGS \/ Len(entries) = MAX_LANGS - 1   \* for Full
InsertFirst(q, e) == <<e>> \o q                              \* for Insert
WakeNone == pc                                               \* for WakeAll
KeepLib(h) == {h} \X (Parts \ {"lib"})                       \* for Resources
RoomForOneMore == Len(entries) <= MAX_LANGS                  \* for Room

-------------------------------------------------------------------------------
Cached(l) == {i \in DOMAIN entries : entries[i].name = l}
InFlight(p) == \E i \in DOMAIN loading : loading[i] = p
Full == Len(loading) = MAX_LANGS \/ Len(entries) = MAX_LANGS
Room == Len(entries) < MAX_LANGS

First(S) == CHOOSE i \in S : \A j \in S : i <= j

(* Overwrite the first p in loading[] with the last element, drop the last. *)
Unmark(q, p) ==
  LET S == {i \in DOMAIN q : q[i] = p} IN
  IF S = {} THEN q
  ELSE SubSeq([q EXCEPT ![First(S)] = q[Len(q)]], 1, Len(q) - 1)

Insert(q, e) == Append(q, e)

(* pthread_cond_broadcast(&cache->loaded). *)
WakeAll == [w \in Workers |-> IF pc[w] = "waiting" THEN "scan" ELSE pc[w]]

(* What load_lang, when it fails, and load_lang_free release of a load.     *)
Resources(h) == {h} \X Parts

-------------------------------------------------------------------------------
(* parse_file_lines asks for the language of a file that discovery let      *)
(* through, so its extension is one of Exts.                                *)
Get(w, e) ==
  /\ pc[w] = "idle" /\ ngets[w] < Gets[w]
  /\ want' = [want EXCEPT ![w] = Literal[e]]
  /\ ngets' = [ngets EXCEPT ![w] = @ + 1]
  /\ held' = [held EXCEPT ![w] = 0]
  /\ pc' = [pc EXCEPT ![w] = "scan"]
  /\ UNCHANGED <<entries, loading, tmp, open, freed, tried>>

(* A worker with no more files leaves. *)
Leave(w) ==
  /\ pc[w] = "idle"
  /\ pc' = [pc EXCEPT ![w] = "done"]
  /\ UNCHANGED <<entries, loading, want, held, tmp, ngets, open, freed, tried>>

(* Under the lock, the name is in entries[]. *)
Hit(w) ==
  /\ pc[w] = "scan"
  /\ Cached(Name[want[w]]) # {}
  /\ held' = [held EXCEPT ![w] = First(Cached(Name[want[w]]))]
  /\ pc' = [pc EXCEPT ![w] = "idle"]
  /\ UNCHANGED <<entries, loading, want, tmp, ngets, open, freed, tried>>

(* Not there, and another worker is loading it. *)
Wait(w) ==
  /\ pc[w] = "scan"
  /\ Cached(Name[want[w]]) = {} /\ InFlight(want[w])
  /\ pc' = [pc EXCEPT ![w] = "waiting"]
  /\ UNCHANGED <<entries, loading, want, held, tmp, ngets, open, freed, tried>>

(* First to ask, but no slot is left: "Maximum number of languages". *)
Refuse(w) ==
  /\ pc[w] = "scan"
  /\ Cached(Name[want[w]]) = {} /\ ~InFlight(want[w]) /\ Full
  /\ pc' = [pc EXCEPT ![w] = "idle"]
  /\ UNCHANGED <<entries, loading, want, held, tmp, ngets, open, freed, tried>>

(* First to ask: mark the language, release the lock and load. *)
Mark(w) ==
  /\ pc[w] = "scan"
  /\ Cached(Name[want[w]]) = {} /\ ~InFlight(want[w]) /\ ~Full
  /\ loading' = Append(loading, want[w])
  /\ pc' = [pc EXCEPT ![w] = "loading"]
  /\ UNCHANGED <<entries, want, held, tmp, ngets, open, freed, tried>>

(* load_lang: every step may fail, and the cleanup releases what the steps  *)
(* before it acquired; on success the parts stay acquired.                  *)
Load(w) ==
  /\ pc[w] = "loading"
  /\ \/ /\ tmp' = [tmp EXCEPT ![w] = <<w, ngets[w]>>]
        /\ open' = open \cup ({<<w, ngets[w]>>} \X Parts)
     \/ \E acquired \in {{"entry"}, {"entry", "lib"}, {"entry", "lib", "query"}} :
          /\ tmp' = [tmp EXCEPT ![w] = NULL]
          /\ open' = (open \cup ({<<w, ngets[w]>>} \X acquired))
                       \ Resources(<<w, ngets[w]>>)
  /\ pc' = [pc EXCEPT ![w] = "loaded"]
  /\ tried' = tried \cup {want[w]}
  /\ UNCHANGED <<entries, loading, want, held, ngets, freed>>

(* Under the lock again: unmark, if loaded and there is room copy the       *)
(* LangEntry into entries[] and free it, wake every waiter; a load that     *)
(* found no room is released.                                               *)
Publish(w) ==
  /\ pc[w] = "loaded"
  /\ loading' = Unmark(loading, want[w])
  /\ IF tmp[w] # NULL /\ Room
     THEN /\ entries' = Insert(entries, [name |-> Name[want[w]], handle |-> tmp[w]])
          /\ held' = [held EXCEPT ![w] = Len(entries) + 1]
          /\ open' = open \ {<<tmp[w], "entry">>}
     ELSE /\ open' = IF tmp[w] = NULL THEN open ELSE open \ Resources(tmp[w])
          /\ UNCHANGED <<entries, held>>
  /\ tmp' = [tmp EXCEPT ![w] = NULL]
  /\ pc' = [WakeAll EXCEPT ![w] = "idle"]
  /\ UNCHANGED <<want, ngets, freed, tried>>

(* pthread_cond_wait may return although nobody broadcast; like a woken     *)
(* waiter the worker scans again.                                           *)
SpuriousWakeup(w) ==
  /\ pc[w] = "waiting"
  /\ pc' = [pc EXCEPT ![w] = "scan"]
  /\ UNCHANGED <<entries, loading, want, held, tmp, ngets, open, freed, tried>>

(* main, after joining the workers. *)
Free ==
  /\ ~freed
  /\ \A w \in Workers : pc[w] = "done"
  /\ freed' = TRUE
  /\ open' = open \ ({entries[i].handle : i \in DOMAIN entries} \X Copied)
  /\ UNCHANGED <<entries, loading, pc, want, held, tmp, ngets, tried>>

Finished == freed /\ UNCHANGED vars

Scan(w) == Hit(w) \/ Wait(w) \/ Refuse(w) \/ Mark(w)
NextFile(w) == Leave(w) \/ \E e \in Exts : Get(w, e)

Next ==
  \/ \E w \in Workers :
       NextFile(w) \/ Scan(w) \/ Load(w) \/ Publish(w) \/ SpuriousWakeup(w)
  \/ Free
  \/ Finished

(* Every thread that can run does; spurious wake-ups need not happen.       *)
Fairness ==
  /\ \A w \in Workers : /\ WF_vars(NextFile(w)) /\ WF_vars(Scan(w))
                        /\ WF_vars(Load(w)) /\ WF_vars(Publish(w))
  /\ WF_vars(Free)

Spec == Init /\ [][Next]_vars
FairSpec == Spec /\ Fairness

-------------------------------------------------------------------------------
(* Properties.                                                              *)

PcLabels == {"idle", "scan", "waiting", "loading", "loaded", "done"}
Loaders == {w \in Workers : pc[w] \in {"loading", "loaded"}}

(* Neither array is overrun and every field keeps its range.  "scan" is     *)
(* contending for the lock, "loading" and "loaded" run without it.          *)
TypeOK ==
  /\ entries \in Seq([name : Langs, handle : Handles]) /\ Len(entries) <= MAX_LANGS
  /\ loading \in Seq(Literals) /\ Len(loading) <= MAX_LANGS
  /\ pc \in [Workers -> PcLabels]
  /\ want \in [Workers -> Literals \cup {NULL}]
  /\ held \in [Workers -> 0..MAX_LANGS]
  /\ tmp \in [Workers -> Handles \cup {NULL}]
  /\ ngets \in [Workers -> Nat] /\ \A w \in Workers : ngets[w] <= Gets[w]
  /\ open \in SUBSET (Handles \X Parts)
  /\ freed \in BOOLEAN
  /\ tried \in SUBSET Literals

(* loading[] lists exactly what is being loaded, each name once and by one  *)
(* worker.  When equal literals are one object, nothing that is cached is   *)
(* loaded again and entries[] has no duplicates.                            *)
SingleFlight ==
  /\ \A v, w \in Loaders : want[v] = want[w] => v = w
  /\ {loading[i] : i \in DOMAIN loading} = {want[w] : w \in Loaders}
  /\ \A i, j \in DOMAIN loading : loading[i] = loading[j] => i = j
  /\ LiteralsMerged =>
       /\ \A w \in Loaders : Cached(Name[want[w]]) = {}
       /\ \A i, j \in DOMAIN entries : entries[i].name = entries[j].name => i = j

(* A pointer handed out keeps pointing at the language it was asked for     *)
(* while other workers insert theirs.                                       *)
HeldStaysRight ==
  \A w \in Workers : held[w] # 0 =>
    /\ held[w] \in DOMAIN entries
    /\ entries[held[w]].name = Name[want[w]]

(* Everything acquired belongs to an entry or to a load in progress, on     *)
(* every failure path; lang_cache_free leaves nothing.                      *)
NothingLeaks ==
  open = IF freed THEN {} ELSE
    ({entries[i].handle : i \in DOMAIN entries} \X Copied)
      \cup (({tmp[w] : w \in Workers} \ {NULL}) \X Parts)

(* A request is refused, or a finished load thrown away, only when the      *)
(* languages cached, in flight and asked for are more than MAX_LANGS: never *)
(* with the nine languages of EXT_LANG and 32 slots.                        *)
TurnedAway(w) ==
  /\ pc[w] \in {"scan", "loaded"} /\ pc'[w] = "idle"
  /\ held'[w] = 0
  /\ pc[w] = "loaded" => tmp[w] # NULL
InUse(w) ==
  {entries[i].name : i \in DOMAIN entries} \cup {Name[want[v]] : v \in Loaders \cup {w}}
RefusedOnlyWhenFull ==
  [][\A w \in Workers : LiteralsMerged /\ TurnedAway(w) =>
       Cardinality(InUse(w)) > MAX_LANGS]_vars

(* A waiter always has a loader to wait for.                                *)
WaitersHaveLoader ==
  \A w \in Workers : pc[w] = "waiting" =>
    \E v \in Loaders : want[v] = want[w]

(* Entries are only ever added, at the end.                                 *)
AppendOnly ==
  [][/\ Len(entries') >= Len(entries)
     /\ \A i \in DOMAIN entries : entries'[i] = entries[i]]_entries

(* Every request returns, although waiters depend on loads that may fail.   *)
EveryGetReturns == \A w \in Workers : pc[w] = "scan" ~> pc[w] = "idle"

(* docs/ARCHITECTURE.md:200 says a language is loaded once.  The cache does *)
(* not remember a load that failed, so the next file tries again.           *)
LoadedOnce == \A w \in Workers : pc[w] = "loading" => want[w] \notin tried
===============================================================================
