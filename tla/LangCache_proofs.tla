--------------------------- MODULE LangCache_proofs ---------------------------
(* Theorems about LangCache for every set of workers, table of extensions    *)
(* and size of the cache.  Except where LiteralsMerged is named, equal names *)
(* may be several objects.                                                   *)
EXTENDS LangCache, FiniteSetTheorems, SequenceTheorems, WellFoundedInduction, TLAPS

Asks == {"scan", "waiting", "loading", "loaded"}

(* In lang_cache_get a worker has a name and has been counted.               *)
Asking ==
  \A w \in Workers : pc[w] \in Asks => want[w] \in Literals /\ ngets[w] \in 1..Gets[w]

(* A load that has ended is held by its worker and is the worker's latest;   *)
(* what is in the table is older than what its worker is loading.            *)
Fresh ==
  /\ \A w \in Workers : tmp[w] # NULL => pc[w] = "loaded" /\ tmp[w] = <<w, ngets[w]>>
  /\ \A i \in DOMAIN entries :
       LET w == entries[i].handle[1]
           k == entries[i].handle[2] IN
       k <= ngets[w] /\ (k = ngets[w] => pc[w] \notin Asks)
  /\ freed => \A w \in Workers : pc[w] = "done"

IInv ==
  TypeOK /\ Asking /\ SingleFlight /\ HeldStaysRight /\ WaitersHaveLoader /\ Fresh /\ NothingLeaks

-------------------------------------------------------------------------------
(* Unmarking takes one name out of loading[] and keeps the others.           *)
LEMMA UnmarkRemoves ==
  ASSUME NEW S, NEW q \in Seq(S), NEW k \in DOMAIN q,
         \A i, j \in DOMAIN q : q[i] = q[j] => i = j
  PROVE  /\ Unmark(q, q[k]) \in Seq(S)
         /\ Len(Unmark(q, q[k])) = Len(q) - 1
         /\ \A i, j \in DOMAIN Unmark(q, q[k]) :
              Unmark(q, q[k])[i] = Unmark(q, q[k])[j] => i = j
         /\ {Unmark(q, q[k])[i] : i \in DOMAIN Unmark(q, q[k])}
              = {q[i] : i \in DOMAIN q} \ {q[k]}
<1> DEFINE n == Len(q)
           t == [q EXCEPT ![k] = q[n]]
           r == SubSeq(t, 1, n - 1)
<1>1. n \in Nat /\ DOMAIN q = 1..n /\ k \in 1..n /\ n >= 1
  OBVIOUS
<1>2. {i \in DOMAIN q : q[i] = q[k]} = {k}
  OBVIOUS
<1>3. First({k}) = k
  BY <1>1 DEF First
<1>4. Unmark(q, q[k]) = r
  BY <1>2, <1>3 DEF Unmark
<1>5. t \in Seq(S) /\ Len(t) = n
  BY <1>1
<1>6. /\ r \in Seq(S) /\ Len(r) = n - 1 /\ DOMAIN r = 1..(n - 1)
      /\ \A i \in 1..(n - 1) : r[i] = IF i = k THEN q[n] ELSE q[i]
  BY <1>1, <1>5
<1> HIDE DEF t, r
<1>7. \A i, j \in DOMAIN r : r[i] = r[j] => i = j
  BY <1>1, <1>6
<1>8. {r[i] : i \in DOMAIN r} \subseteq {q[i] : i \in DOMAIN q} \ {q[k]}
  BY <1>1, <1>6
<1>9. ASSUME NEW i \in DOMAIN q, q[i] # q[k] PROVE \E j \in DOMAIN r : r[j] = q[i]
  <2>1. CASE i = n
    BY <2>1, <1>1, <1>6, <1>9
  <2>2. CASE i # n
    BY <2>2, <1>1, <1>6, <1>9
  <2> QED BY <2>1, <2>2
<1> QED BY <1>4, <1>6, <1>7, <1>8, <1>9

(* A broadcast turns waiters into contenders and nothing else.               *)
LEMMA WakeAllType ==
  ASSUME pc \in [Workers -> PcLabels]
  PROVE  /\ WakeAll \in [Workers -> PcLabels]
         /\ \A w \in Workers : WakeAll[w] = IF pc[w] = "waiting" THEN "scan" ELSE pc[w]
BY DEF WakeAll, PcLabels

(* The first of a nonempty set of positions is one of them.                  *)
LEMMA FirstIn ==
  ASSUME NEW S \in SUBSET Nat, S # {}
  PROVE  First(S) \in S
<1> DEFINE R == StrictSubsetOrdering(Nat)
           T == {1..i : i \in S}
<1>1. IsWellFoundedOn(R, FiniteSubsetsOf(Nat))
  BY FS_StrictSubsetOrderingWellFounded
<1>2. T \subseteq FiniteSubsetsOf(Nat)
  <2>1. ASSUME NEW i \in S PROVE 1..i \in SUBSET Nat /\ IsFiniteSet(1..i)
    BY FS_Interval
  <2> QED BY <2>1 DEF FiniteSubsetsOf
<1>3. T # {}
  OBVIOUS
<1>4. \A i, j \in Nat : j < i => <<1..j, 1..i>> \in R
  <2> SUFFICES ASSUME NEW i \in Nat, NEW j \in Nat, j < i PROVE <<1..j, 1..i>> \in R
    OBVIOUS
  <2>1. 1..j \subseteq 1..i /\ i \in 1..i /\ i \notin 1..j
    OBVIOUS
  <2>2. 1..j \in SUBSET Nat /\ 1..i \in SUBSET Nat
    OBVIOUS
  <2> QED BY <2>1, <2>2 DEF StrictSubsetOrdering
<1> HIDE DEF R, T
<1>5. \E x \in T : \A y \in T : <<y, x>> \notin R
  BY <1>1, <1>2, <1>3, WFMin
<1>6. PICK i \in S : \A j \in S : <<1..j, 1..i>> \notin R
  BY <1>5 DEF T
<1>7. ASSUME NEW j \in S PROVE i <= j
  <2>1. i \in Nat /\ j \in Nat /\ <<1..j, 1..i>> \notin R
    BY <1>6
  <2>2. ~(j < i)
    BY <1>4, <2>1, Zenon
  <2> QED BY <2>1, <2>2
<1> QED BY <1>7 DEF First

-------------------------------------------------------------------------------
(* The ways Publish can leave the cache, in the terms the proofs need.       *)
LEMMA PublishEffect ==
  ASSUME TypeOK, Asking, SingleFlight, NEW w \in Workers, Publish(w)
  PROVE  /\ loading' \in Seq(Literals) /\ Len(loading') = Len(loading) - 1
         /\ Len(loading) \in 1..MAX_LANGS
         /\ \A i, j \in DOMAIN loading' : loading'[i] = loading'[j] => i = j
         /\ {loading'[i] : i \in DOMAIN loading'}
              = {loading[i] : i \in DOMAIN loading} \ {want[w]}
         /\ pc' \in [Workers -> PcLabels]
         /\ \A v \in Workers : pc'[v] = IF v = w THEN "idle"
                                        ELSE IF pc[v] = "waiting" THEN "scan" ELSE pc[v]
<1>1. w \in Loaders
  BY DEF Publish, Loaders
<1>2. PICK k \in DOMAIN loading : loading[k] = want[w]
  BY <1>1 DEF SingleFlight
<1>3. loading \in Seq(Literals) /\ Len(loading) <= MAX_LANGS
  BY DEF TypeOK
<1>4. Len(loading) \in 1..MAX_LANGS
  BY <1>2, <1>3, LangCacheAssumption
<1>5. \A i, j \in DOMAIN loading : loading[i] = loading[j] => i = j
  BY DEF SingleFlight
<1>6. loading' = Unmark(loading, loading[k])
  BY <1>2 DEF Publish
<1>7. pc' = [WakeAll EXCEPT ![w] = "idle"]
  BY DEF Publish
<1>8. /\ WakeAll \in [Workers -> PcLabels]
      /\ \A v \in Workers : WakeAll[v] = IF pc[v] = "waiting" THEN "scan" ELSE pc[v]
  BY WakeAllType DEF TypeOK
<1>9. /\ loading' \in Seq(Literals) /\ Len(loading') = Len(loading) - 1
      /\ \A i, j \in DOMAIN loading' : loading'[i] = loading'[j] => i = j
      /\ {loading'[i] : i \in DOMAIN loading'} = {loading[i] : i \in DOMAIN loading} \ {want[w]}
  <2> DEFINE u == Unmark(loading, loading[k])
  <2>1. /\ u \in Seq(Literals) /\ Len(u) = Len(loading) - 1
        /\ \A i, j \in DOMAIN u : u[i] = u[j] => i = j
        /\ {u[i] : i \in DOMAIN u} = {loading[i] : i \in DOMAIN loading} \ {loading[k]}
    BY <1>2, <1>3, <1>5, UnmarkRemoves
  <2>2. loading' = u
    BY <1>6
  <2> HIDE DEF u
  <2> QED BY <1>2, <2>1, <2>2
<1>10. "idle" \in PcLabels
  BY DEF PcLabels
<1>11. /\ pc' \in [Workers -> PcLabels]
       /\ \A v \in Workers : pc'[v] = IF v = w THEN "idle" ELSE WakeAll[v]
  BY <1>7, <1>8, <1>10
<1>12. \A v \in Workers : pc'[v] = IF v = w THEN "idle"
                                ELSE IF pc[v] = "waiting" THEN "scan" ELSE pc[v]
  BY <1>8, <1>11
<1> QED BY <1>2, <1>4, <1>9, <1>11, <1>12

(* Every variable keeps its range, and both arrays their bounds.             *)
LEMMA TypeStep == TypeOK /\ Asking /\ SingleFlight /\ [Next]_vars => TypeOK' /\ Asking'
<1> SUFFICES ASSUME TypeOK, Asking, SingleFlight, [Next]_vars PROVE TypeOK' /\ Asking'
  OBVIOUS
<1> USE LangCacheAssumption
<1>1. ASSUME NEW w \in Workers, NEW e \in Exts, Get(w, e) PROVE TypeOK' /\ Asking'
  BY <1>1 DEF Get, TypeOK, Asking, Asks, PcLabels, Literals
<1>2. ASSUME NEW w \in Workers, Leave(w) PROVE TypeOK' /\ Asking'
  BY <1>2 DEF Leave, TypeOK, Asking, Asks, PcLabels
<1>3. ASSUME NEW w \in Workers, Hit(w) PROVE TypeOK' /\ Asking'
  <2>1. First(Cached(Name[want[w]])) \in DOMAIN entries
    <3>1. Cached(Name[want[w]]) \in SUBSET Nat /\ Cached(Name[want[w]]) # {}
      BY <1>3 DEF Hit, Cached, TypeOK
    <3> QED BY <3>1, FirstIn DEF Cached
  <2>2. held'[w] \in 0..MAX_LANGS
    BY <1>3, <2>1 DEF Hit, TypeOK
  <2> QED BY <1>3, <2>2 DEF Hit, TypeOK, Asking, Asks, PcLabels
<1>4. ASSUME NEW w \in Workers, Wait(w) PROVE TypeOK' /\ Asking'
  BY <1>4 DEF Wait, TypeOK, Asking, Asks, PcLabels
<1>5. ASSUME NEW w \in Workers, Refuse(w) PROVE TypeOK' /\ Asking'
  BY <1>5 DEF Refuse, TypeOK, Asking, Asks, PcLabels
<1>6. ASSUME NEW w \in Workers, Mark(w) PROVE TypeOK' /\ Asking'
  <2>1. want[w] \in Literals
    BY <1>6 DEF Mark, Asking, Asks
  <2>2. loading' \in Seq(Literals) /\ Len(loading') <= MAX_LANGS
    BY <1>6, <2>1 DEF Mark, Full, TypeOK
  <2> QED BY <1>6, <2>2 DEF Mark, TypeOK, Asking, Asks, PcLabels
<1>7. ASSUME NEW w \in Workers, Load(w) PROVE TypeOK' /\ Asking'
  <2>1. want[w] \in Literals /\ <<w, ngets[w]>> \in Handles
    BY <1>7 DEF Load, Asking, Asks, Handles
  <2>2. tmp' \in [Workers -> Handles \cup {NULL}] /\ open' \in SUBSET (Handles \X Parts)
    <3>1. tmp \in [Workers -> Handles \cup {NULL}] /\ open \in SUBSET (Handles \X Parts)
      BY DEF TypeOK
    <3>2. tmp' \in [Workers -> Handles \cup {NULL}]
      BY <1>7, <2>1, <3>1 DEF Load
    <3>3. {<<w, ngets[w]>>} \X Parts \subseteq Handles \X Parts
      BY <2>1
    <3>4. \A acquired \in {{"entry"}, {"entry", "lib"}, {"entry", "lib", "query"}} :
            {<<w, ngets[w]>>} \X acquired \subseteq Handles \X Parts
      BY <2>1 DEF Parts, Copied
    <3> QED BY <1>7, <3>1, <3>2, <3>3, <3>4 DEF Load
  <2>3. tried' \in SUBSET Literals
    BY <1>7, <2>1 DEF Load, TypeOK
  <2> QED BY <1>7, <2>2, <2>3 DEF Load, TypeOK, Asking, Asks, PcLabels
<1>8. ASSUME NEW w \in Workers, Publish(w) PROVE TypeOK' /\ Asking'
  <2>1. want[w] \in Literals /\ Name[want[w]] \in Langs /\ tmp[w] \in Handles \cup {NULL}
    BY <1>8 DEF Publish, Asking, Asks, Langs, TypeOK
  <2>2. entries' \in Seq([name : Langs, handle : Handles]) /\ Len(entries') <= MAX_LANGS
    <3>1. CASE tmp[w] # NULL /\ Room
      <4>1. [name |-> Name[want[w]], handle |-> tmp[w]] \in [name : Langs, handle : Handles]
        BY <2>1, <3>1
      <4>2. entries' = Append(entries, [name |-> Name[want[w]], handle |-> tmp[w]])
        BY <1>8, <3>1 DEF Publish, Insert
      <4> QED BY <3>1, <4>1, <4>2 DEF Room, TypeOK
    <3>2. CASE ~(tmp[w] # NULL /\ Room)
      BY <1>8, <3>2 DEF Publish, TypeOK
    <3> QED BY <3>1, <3>2
  <2>3. held' \in [Workers -> 0..MAX_LANGS]
    <3>1. CASE tmp[w] # NULL /\ Room
      <4>1. Len(entries) + 1 \in 0..MAX_LANGS
        BY <3>1 DEF Room, TypeOK
      <4> QED BY <1>8, <3>1, <4>1 DEF Publish, TypeOK
    <3>2. CASE ~(tmp[w] # NULL /\ Room)
      BY <1>8, <3>2 DEF Publish, TypeOK
    <3> QED BY <3>1, <3>2
  <2>4. open' \in SUBSET (Handles \X Parts)
    BY <1>8 DEF Publish, TypeOK
  <2>5. tmp' \in [Workers -> Handles \cup {NULL}]
    BY <1>8 DEF Publish, TypeOK
  <2>6. UNCHANGED <<want, ngets, freed, tried>>
    BY <1>8 DEF Publish
  <2>7. loading' \in Seq(Literals) /\ Len(loading') <= MAX_LANGS
    BY <1>8, PublishEffect DEF TypeOK
  <2>8. TypeOK'
    BY <1>8, PublishEffect, <2>2, <2>3, <2>4, <2>5, <2>6, <2>7 DEF TypeOK
  <2>9. Asking'
    BY <1>8, PublishEffect, <2>6 DEF Asking, Asks
  <2> QED BY <2>8, <2>9
<1>9. ASSUME NEW w \in Workers, SpuriousWakeup(w) PROVE TypeOK' /\ Asking'
  BY <1>9 DEF SpuriousWakeup, TypeOK, Asking, Asks, PcLabels
<1>10. ASSUME Free PROVE TypeOK' /\ Asking'
  BY <1>10 DEF Free, TypeOK, Asking
<1>11. ASSUME UNCHANGED vars PROVE TypeOK' /\ Asking'
  BY <1>11 DEF vars, TypeOK, Asking
<1> QED BY <1>1, <1>2, <1>3, <1>4, <1>5, <1>6, <1>7, <1>8, <1>9, <1>10, <1>11
        DEF Next, NextFile, Scan, Finished

-------------------------------------------------------------------------------
(* SingleFlight in two parts: what holds for names as objects, and what       *)
(* holds of the languages when equal names are one object.                    *)
Listed ==
  /\ \A v, w \in Loaders : want[v] = want[w] => v = w
  /\ {loading[i] : i \in DOMAIN loading} = {want[w] : w \in Loaders}
  /\ \A i, j \in DOMAIN loading : loading[i] = loading[j] => i = j

CachedOnce ==
  /\ \A w \in Loaders : Cached(Name[want[w]]) = {}
  /\ \A i, j \in DOMAIN entries : entries[i].name = entries[j].name => i = j

(* A step that moves no worker in or out of load_lang and leaves the arrays   *)
(* and the loaders' names alone keeps SingleFlight.                           *)
LEMMA SameLoaders ==
  ASSUME SingleFlight, entries' = entries, loading' = loading, Loaders' = Loaders,
         \A v \in Loaders : want'[v] = want[v]
  PROVE  SingleFlight'
BY DEF SingleFlight, Cached

(* loading[] keeps listing what is being loaded, and nothing cached is loaded *)
(* again.                                                                     *)
LEMMA SingleFlightStep ==
  TypeOK /\ Asking /\ SingleFlight /\ [Next]_vars => SingleFlight'
<1> SUFFICES ASSUME TypeOK, Asking, SingleFlight, [Next]_vars PROVE SingleFlight'
  OBVIOUS
<1>1. ASSUME NEW w \in Workers, NEW e \in Exts, Get(w, e) PROVE SingleFlight'
  BY <1>1, SameLoaders DEF Get, Loaders, TypeOK
<1>2. ASSUME NEW w \in Workers, Leave(w) PROVE SingleFlight'
  BY <1>2, SameLoaders DEF Leave, Loaders, TypeOK
<1>3. ASSUME NEW w \in Workers, Hit(w) PROVE SingleFlight'
  BY <1>3, SameLoaders DEF Hit, Loaders, TypeOK
<1>4. ASSUME NEW w \in Workers, Wait(w) PROVE SingleFlight'
  BY <1>4, SameLoaders DEF Wait, Loaders, TypeOK
<1>5. ASSUME NEW w \in Workers, Refuse(w) PROVE SingleFlight'
  BY <1>5, SameLoaders DEF Refuse, Loaders, TypeOK
<1>6. ASSUME NEW w \in Workers, Mark(w) PROVE SingleFlight'
  <2>1. Loaders' = Loaders \cup {w} /\ w \notin Loaders /\ want' = want /\ entries' = entries
    BY <1>6 DEF Mark, Loaders, TypeOK
  <2>2. want[w] \notin {loading[i] : i \in DOMAIN loading}
    BY <1>6 DEF Mark, InFlight
  <2>3. want[w] \in Literals /\ loading \in Seq(Literals)
    BY <1>6 DEF Mark, Asking, Asks, TypeOK
  <2>4. loading' = Append(loading, want[w])
    BY <1>6 DEF Mark
  <2>5. /\ DOMAIN loading' = DOMAIN loading \cup {Len(loading) + 1}
        /\ Len(loading) + 1 \notin DOMAIN loading
        /\ loading'[Len(loading) + 1] = want[w]
        /\ \A i \in DOMAIN loading : loading'[i] = loading[i]
    BY <2>3, <2>4
  <2>6. \A u, v \in Loaders' : want'[u] = want'[v] => u = v
    <3>1. \A u \in Loaders : want[u] # want[w]
      BY <2>2 DEF SingleFlight
    <3>2. \A u, v \in Loaders : want[u] = want[v] => u = v
      BY DEF SingleFlight
    <3> QED BY <2>1, <3>1, <3>2
  <2>7. {loading'[i] : i \in DOMAIN loading'} = {want'[v] : v \in Loaders'}
    <3>1. {loading'[i] : i \in DOMAIN loading'}
            = {loading[i] : i \in DOMAIN loading} \cup {want[w]}
      BY <2>5
    <3>2. {want'[v] : v \in Loaders'} = {want[v] : v \in Loaders} \cup {want[w]}
      BY <2>1
    <3> QED BY <3>1, <3>2 DEF SingleFlight
  <2>8. \A i, j \in DOMAIN loading' : loading'[i] = loading'[j] => i = j
    BY <2>2, <2>5 DEF SingleFlight
  <2>9. LiteralsMerged => CachedOnce'
    BY <1>6, <2>1 DEF Mark, SingleFlight, CachedOnce, Cached
  <2> QED BY <2>6, <2>7, <2>8, <2>9 DEF SingleFlight, CachedOnce
<1>7. ASSUME NEW w \in Workers, Load(w) PROVE SingleFlight'
  BY <1>7, SameLoaders DEF Load, Loaders, TypeOK
<1>8. ASSUME NEW w \in Workers, Publish(w) PROVE SingleFlight'
  <2>1. Loaders' = Loaders \ {w} /\ w \in Loaders /\ want' = want
    <3>1. pc[w] = "loaded" /\ want' = want
      BY <1>8 DEF Publish
    <3>2. \A v \in Workers : pc'[v] = IF v = w THEN "idle"
                                  ELSE IF pc[v] = "waiting" THEN "scan" ELSE pc[v]
      BY <1>8, PublishEffect
    <3> QED BY <3>1, <3>2 DEF Loaders
  <2>2. /\ {loading'[i] : i \in DOMAIN loading'}
             = {loading[i] : i \in DOMAIN loading} \ {want[w]}
        /\ \A i, j \in DOMAIN loading' : loading'[i] = loading'[j] => i = j
    BY <1>8, PublishEffect
  <2>3. \A u, v \in Loaders' : want'[u] = want'[v] => u = v
    BY <2>1 DEF SingleFlight
  <2>4. {loading'[i] : i \in DOMAIN loading'} = {want'[v] : v \in Loaders'}
    <3>1. {want'[v] : v \in Loaders'} = {want[v] : v \in Loaders} \ {want[w]}
      BY <2>1 DEF SingleFlight
    <3> QED BY <2>2, <3>1 DEF SingleFlight
  <2>5. ASSUME LiteralsMerged PROVE CachedOnce'
    <3>1. CASE tmp[w] # NULL /\ Room
      <4>1. entries' = Append(entries, [name |-> Name[want[w]], handle |-> tmp[w]])
        BY <1>8, <3>1 DEF Publish, Insert
      <4>2. /\ DOMAIN entries' = DOMAIN entries \cup {Len(entries) + 1}
            /\ entries'[Len(entries) + 1].name = Name[want[w]]
            /\ \A i \in DOMAIN entries : entries'[i] = entries[i]
        BY <4>1 DEF TypeOK
      <4>3. Cached(Name[want[w]]) = {}
        BY <2>1, <2>5 DEF SingleFlight
      <4>4. \A v \in Loaders' : Name[want[v]] # Name[want[w]] /\ Cached(Name[want[v]]) = {}
        <5> SUFFICES ASSUME NEW v \in Loaders'
                     PROVE  Name[want[v]] # Name[want[w]] /\ Cached(Name[want[v]]) = {}
          OBVIOUS
        <5>1. v \in Loaders /\ v # w
          BY <2>1
        <5>2. want[v] \in Literals /\ want[w] \in Literals
          BY <2>1, <5>1 DEF Asking, Asks, Loaders
        <5>3. want[v] # want[w]
          BY <2>1, <5>1 DEF SingleFlight
        <5> QED BY <2>5, <5>1, <5>2, <5>3 DEF LiteralsMerged, SingleFlight
      <4>5. \A v \in Loaders' : Cached(Name[want[v]])' = {}
        BY <2>1, <4>2, <4>4 DEF Cached
      <4>6. \A i, j \in DOMAIN entries' : entries'[i].name = entries'[j].name => i = j
        BY <2>5, <4>2, <4>3 DEF Cached, SingleFlight
      <4> QED BY <4>5, <4>6, <2>1 DEF CachedOnce, Cached
    <3>2. CASE ~(tmp[w] # NULL /\ Room)
      <4>1. entries' = entries
        BY <1>8, <3>2 DEF Publish
      <4> QED BY <2>1, <2>5, <4>1 DEF CachedOnce, Cached, SingleFlight
    <3> QED BY <3>1, <3>2
  <2> QED BY <2>2, <2>3, <2>4, <2>5 DEF SingleFlight, CachedOnce, LiteralsMerged
<1>9. ASSUME NEW w \in Workers, SpuriousWakeup(w) PROVE SingleFlight'
  BY <1>9, SameLoaders DEF SpuriousWakeup, Loaders, TypeOK
<1>10. ASSUME Free PROVE SingleFlight'
  BY <1>10, SameLoaders DEF Free, Loaders
<1>11. ASSUME UNCHANGED vars PROVE SingleFlight'
  BY <1>11, SameLoaders DEF vars, Loaders
<1> QED BY <1>1, <1>2, <1>3, <1>4, <1>5, <1>6, <1>7, <1>8, <1>9, <1>10, <1>11
        DEF Next, NextFile, Scan, Finished

-------------------------------------------------------------------------------
(* Only Publish changes entries[], and it adds at the end.                    *)
LEMMA EntriesGrow ==
  ASSUME TypeOK, [Next]_vars
  PROVE  /\ Len(entries') >= Len(entries)
         /\ DOMAIN entries \subseteq DOMAIN entries'
         /\ \A i \in DOMAIN entries : entries'[i] = entries[i]
<1>1. CASE entries' = entries
  BY <1>1 DEF TypeOK
<1>2. CASE \E w \in Workers : Publish(w) /\ Room
  <2>1. CASE entries' = entries
    BY <1>1, <2>1
  <2>2. CASE \E e : entries' = Append(entries, e)
    <3>1. PICK e : entries' = Append(entries, e)
      BY <2>2
    <3>2. Len(entries) \in Nat /\ DOMAIN entries = 1..Len(entries)
      BY DEF TypeOK
    <3>3. /\ Len(entries') = Len(entries) + 1 /\ DOMAIN entries' = 1..(Len(entries) + 1)
          /\ \A i \in 1..Len(entries) : entries'[i] = entries[i]
      BY <3>1 DEF TypeOK
    <3> QED BY <3>2, <3>3
  <2> QED BY <1>2, <2>1, <2>2 DEF Publish, Insert
<1>3. entries' = entries \/ \E w \in Workers : Publish(w) /\ Room
  BY DEF Next, NextFile, Scan, Finished, vars, Get, Leave, Hit, Wait, Refuse, Mark, Load,
         Publish, SpuriousWakeup, Free
<1> QED BY <1>1, <1>2, <1>3

(* What a worker holds is its language, for every way of merging literals.    *)
LEMMA HeldStep ==
  TypeOK /\ HeldStaysRight /\ [Next]_vars => HeldStaysRight'
<1> SUFFICES ASSUME TypeOK, HeldStaysRight, [Next]_vars, NEW v \in Workers, held'[v] # 0
             PROVE  held'[v] \in DOMAIN entries' /\ entries'[held'[v]].name = Name[want'[v]]
  BY DEF HeldStaysRight
<1>1. CASE held'[v] = held[v] /\ want'[v] = want[v]
  BY <1>1, EntriesGrow DEF HeldStaysRight
<1>2. CASE Hit(v)
  <2>1. Cached(Name[want[v]]) \in SUBSET Nat /\ Cached(Name[want[v]]) # {}
    BY <1>2 DEF Hit, Cached, TypeOK
  <2>2. First(Cached(Name[want[v]])) \in Cached(Name[want[v]])
    BY <2>1, FirstIn
  <2> QED BY <1>2, <2>2 DEF Hit, Cached, TypeOK
<1>3. CASE Publish(v) /\ tmp[v] # NULL /\ Room
  <2>1. entries' = Append(entries, [name |-> Name[want[v]], handle |-> tmp[v]])
    BY <1>3 DEF Publish, Insert
  <2>2. held'[v] = Len(entries) + 1 /\ want' = want
    BY <1>3 DEF Publish, TypeOK
  <2> QED BY <2>1, <2>2 DEF TypeOK
<1>4. \/ held'[v] = held[v] /\ want'[v] = want[v]
      \/ Hit(v)
      \/ Publish(v) /\ tmp[v] # NULL /\ Room
  <2>1. ASSUME NEW w \in Workers, NEW e \in Exts, Get(w, e)
        PROVE  held'[v] = held[v] /\ want'[v] = want[v]
    BY <2>1 DEF Get, TypeOK
  <2>2. ASSUME NEW w \in Workers, Hit(w), w # v PROVE held'[v] = held[v] /\ want'[v] = want[v]
    BY <2>2 DEF Hit, TypeOK
  <2>3. ASSUME NEW w \in Workers, Publish(w), ~(w = v /\ tmp[v] # NULL /\ Room)
        PROVE  held'[v] = held[v] /\ want'[v] = want[v]
    BY <2>3 DEF Publish, TypeOK
  <2> QED BY <2>1, <2>2, <2>3
        DEF Next, NextFile, Scan, Finished, vars, Leave, Wait, Refuse, Mark, Load,
            SpuriousWakeup, Free
<1> QED BY <1>1, <1>2, <1>3, <1>4

(* A worker begins to wait only for a name that some worker is loading, and   *)
(* the end of a load leaves nobody waiting.                                   *)
LEMMA WaitersStep ==
  TypeOK /\ Asking /\ SingleFlight /\ WaitersHaveLoader /\ [Next]_vars => WaitersHaveLoader'
<1> SUFFICES ASSUME TypeOK, Asking, SingleFlight, WaitersHaveLoader, [Next]_vars,
                    NEW u \in Workers, pc'[u] = "waiting"
             PROVE  \E v \in Loaders' : want'[v] = want'[u]
  BY DEF WaitersHaveLoader
<1>1. ASSUME NEW w \in Workers, Publish(w) PROVE FALSE
  BY <1>1, PublishEffect
<1>2. ASSUME NEW w \in Workers, Wait(w) PROVE \E v \in Loaders' : want'[v] = want'[u]
  <2>1. want' = want /\ Loaders' = Loaders
    BY <1>2 DEF Wait, Loaders, TypeOK
  <2>2. \E v \in Loaders : want[v] = want[w]
    BY <1>2 DEF Wait, InFlight, SingleFlight
  <2>3. u = w \/ pc[u] = "waiting"
    BY <1>2 DEF Wait, TypeOK
  <2> QED BY <2>1, <2>2, <2>3 DEF WaitersHaveLoader
<1>3. ASSUME pc[u] = "waiting", want'[u] = want[u], Loaders \subseteq Loaders',
             \A v \in Loaders : want'[v] = want[v]
      PROVE  \E v \in Loaders' : want'[v] = want'[u]
  BY <1>3 DEF WaitersHaveLoader
<1>4. ASSUME NEW w \in Workers, NEW e \in Exts, Get(w, e)
      PROVE  \E v \in Loaders' : want'[v] = want'[u]
  BY <1>3, <1>4 DEF Get, Loaders, TypeOK
<1>5. ASSUME NEW w \in Workers, Leave(w) \/ Hit(w) \/ Refuse(w) \/ Mark(w) \/ Load(w)
                                 \/ SpuriousWakeup(w)
      PROVE  \E v \in Loaders' : want'[v] = want'[u]
  <2>1. want' = want
    BY <1>5 DEF Leave, Hit, Refuse, Mark, Load, SpuriousWakeup
  <2>2. pc[w] \notin {"loading", "loaded"} \/ pc'[w] = "loaded"
    BY <1>5 DEF Leave, Hit, Refuse, Mark, Load, SpuriousWakeup, TypeOK
  <2>3. \A v \in Workers \ {w} : pc'[v] = pc[v]
    BY <1>5 DEF Leave, Hit, Refuse, Mark, Load, SpuriousWakeup, TypeOK
  <2>4. pc'[w] # "waiting"
    BY <1>5 DEF Leave, Hit, Refuse, Mark, Load, SpuriousWakeup, TypeOK
  <2> QED BY <1>3, <2>1, <2>2, <2>3, <2>4 DEF Loaders
<1>6. ASSUME Free \/ UNCHANGED vars PROVE \E v \in Loaders' : want'[v] = want'[u]
  BY <1>3, <1>6 DEF Free, vars, Loaders
<1> QED BY <1>1, <1>2, <1>4, <1>5, <1>6 DEF Next, NextFile, Scan, Finished

-------------------------------------------------------------------------------
(* A handle names one load: the table and the workers never share one.        *)
LEMMA FreshStep ==
  TypeOK /\ Asking /\ SingleFlight /\ Fresh /\ [Next]_vars => Fresh'
<1> SUFFICES ASSUME TypeOK, Asking, SingleFlight, Fresh, [Next]_vars PROVE Fresh'
  OBVIOUS
<1>t. /\ \A i \in DOMAIN entries : /\ entries[i].handle[1] \in Workers
                                   /\ entries[i].handle[2] \in Nat
      /\ \A w \in Workers : ngets[w] \in Nat
  <2>1. \A i \in DOMAIN entries : entries[i].handle \in Handles
    <3> DEFINE E == [name : Langs, handle : Handles]
    <3>1. entries \in Seq(E)
      BY DEF TypeOK
    <3>2. \A e \in E : e.handle \in Handles
      OBVIOUS
    <3> HIDE DEF E
    <3>3. \A i \in DOMAIN entries : entries[i] \in E
      BY <3>1
    <3> QED BY <3>2, <3>3
  <2>2. \A x \in Handles : x[1] \in Workers /\ x[2] \in Nat
    <3> SUFFICES ASSUME NEW w \in Workers, NEW x \in {w} \X (1..Gets[w])
                 PROVE  x[1] \in Workers /\ x[2] \in Nat
      BY DEF Handles
    <3>1. Gets[w] \in Nat
      BY LangCacheAssumption
    <3> QED BY <3>1
  <2>3. \A w \in Workers : ngets[w] \in Nat
    BY DEF TypeOK
  <2> QED BY <2>1, <2>2, <2>3
<1>1. ASSUME NEW w \in Workers, NEW e \in Exts, Get(w, e) PROVE Fresh'
  BY <1>1, <1>t DEF Get, Fresh, TypeOK
<1>2. ASSUME NEW w \in Workers, Leave(w) PROVE Fresh'
  BY <1>2, <1>t DEF Leave, Fresh, TypeOK, Asks
<1>3. ASSUME NEW w \in Workers,
             Hit(w) \/ Wait(w) \/ Refuse(w) \/ Mark(w) \/ SpuriousWakeup(w)
      PROVE  Fresh'
  <2>1. UNCHANGED <<entries, tmp, ngets, freed>>
    BY <1>3 DEF Hit, Wait, Refuse, Mark, SpuriousWakeup
  <2>2. \A v \in Workers \ {w} : pc'[v] = pc[v]
    BY <1>3 DEF Hit, Wait, Refuse, Mark, SpuriousWakeup, TypeOK
  <2>3. pc[w] \in {"scan", "waiting"}
    BY <1>3 DEF Hit, Wait, Refuse, Mark, SpuriousWakeup
  <2> QED BY <1>t, <2>1, <2>2, <2>3 DEF Fresh, Asks
<1>4. ASSUME NEW w \in Workers, Load(w) PROVE Fresh'
  <2>1. UNCHANGED <<entries, ngets, freed>>
    BY <1>4 DEF Load
  <2>2. \A v \in Workers \ {w} : pc'[v] = pc[v] /\ tmp'[v] = tmp[v]
    BY <1>4 DEF Load, TypeOK
  <2>3. pc[w] = "loading" /\ pc'[w] = "loaded" /\ tmp'[w] \in {NULL, <<w, ngets[w]>>}
    BY <1>4 DEF Load, TypeOK
  <2> QED BY <1>t, <2>1, <2>2, <2>3 DEF Fresh, Asks
<1>5. ASSUME NEW w \in Workers, Publish(w) PROVE Fresh'
  <2>1. /\ UNCHANGED <<ngets, freed>> /\ pc[w] = "loaded" /\ tmp'[w] = NULL
        /\ \A v \in Workers \ {w} : tmp'[v] = tmp[v]
    BY <1>5 DEF Publish, TypeOK
  <2>2. \A v \in Workers : pc'[v] = IF v = w THEN "idle"
                                ELSE IF pc[v] = "waiting" THEN "scan" ELSE pc[v]
    BY <1>5, PublishEffect
  <2>3. \A i \in DOMAIN entries' :
          \/ i \in DOMAIN entries /\ entries'[i] = entries[i]
          \/ entries'[i].handle = tmp[w] /\ tmp[w] # NULL
    <3>1. CASE tmp[w] # NULL /\ Room
      <4>1. entries' = Append(entries, [name |-> Name[want[w]], handle |-> tmp[w]])
        BY <1>5, <3>1 DEF Publish, Insert
      <4> QED BY <3>1, <4>1 DEF TypeOK
    <3>2. CASE ~(tmp[w] # NULL /\ Room)
      BY <1>5, <3>2 DEF Publish
    <3> QED BY <3>1, <3>2
  <2>4. \A v \in Workers : tmp'[v] # NULL => pc'[v] = "loaded" /\ tmp'[v] = <<v, ngets'[v]>>
    BY <2>1, <2>2 DEF Fresh
  <2>5. ASSUME NEW i \in DOMAIN entries'
        PROVE  LET v == entries'[i].handle[1]
                   k == entries'[i].handle[2] IN
               k <= ngets'[v] /\ (k = ngets'[v] => pc'[v] \notin Asks)
    <3>1. CASE i \in DOMAIN entries /\ entries'[i] = entries[i]
      BY <1>t, <2>1, <2>2, <3>1 DEF Fresh, Asks
    <3>2. CASE entries'[i].handle = tmp[w] /\ tmp[w] # NULL
      <4>1. entries'[i].handle[1] = w /\ entries'[i].handle[2] = ngets[w]
        BY <3>2 DEF Fresh
      <4> QED BY <1>t, <2>1, <2>2, <4>1 DEF Asks
    <3> QED BY <2>3, <3>1, <3>2
  <2>6. ~freed'
    BY <2>1 DEF Fresh
  <2> QED BY <2>4, <2>5, <2>6 DEF Fresh
<1>6. ASSUME Free \/ UNCHANGED vars PROVE Fresh'
  BY <1>6 DEF Free, vars, Fresh
<1> QED BY <1>1, <1>2, <1>3, <1>4, <1>5, <1>6 DEF Next, NextFile, Scan, Finished

-------------------------------------------------------------------------------
(* The loads that own something: those in the table and those just ended.     *)
Tabled == {entries[i].handle : i \in DOMAIN entries}
Ended == {tmp[w] : w \in Workers} \ {NULL}
Owned == (Tabled \X Copied) \cup (Ended \X Parts)

(* Every failure path releases what it acquired, and nothing else.            *)
LEMMA NothingLeaksStep ==
  TypeOK /\ Asking /\ SingleFlight /\ Fresh /\ NothingLeaks /\ [Next]_vars => NothingLeaks'
<1> SUFFICES ASSUME TypeOK, Asking, SingleFlight, Fresh, NothingLeaks, [Next]_vars
             PROVE  NothingLeaks'
  OBVIOUS
<1>t. NothingLeaks <=> open = IF freed THEN {} ELSE Owned
  BY DEF NothingLeaks, Owned, Tabled, Ended
<1>p. NothingLeaks' <=> open' = IF freed' THEN {} ELSE Owned'
  BY DEF NothingLeaks, Owned, Tabled, Ended
<1>c. Copied \subseteq Parts /\ Parts \ {"entry"} = Copied
  BY DEF Copied, Parts
<1>1. ASSUME UNCHANGED <<entries, tmp, open, freed>> PROVE NothingLeaks'
  BY <1>1, <1>t, <1>p DEF Owned, Tabled, Ended
<1>2. ASSUME NEW w \in Workers, Load(w) PROVE NothingLeaks'
  <2> DEFINE h == <<w, ngets[w]>>
  <2>1. UNCHANGED <<entries, freed>> /\ pc[w] = "loading" /\ ~freed
    BY <1>2 DEF Load, Fresh
  <2>2. tmp[w] = NULL
    BY <2>1 DEF Fresh
  <2>3. h \notin Tabled /\ h \notin Ended
    <3>1. \A i \in DOMAIN entries : entries[i].handle # h
      BY <2>1 DEF Fresh, Asks
    <3>2. \A v \in Workers : tmp[v] # NULL => tmp[v] # h
      BY <2>2 DEF Fresh
    <3> QED BY <3>1, <3>2 DEF Tabled, Ended
  <2>4. h # NULL
    BY <1>2, LangCacheAssumption DEF Load, Asking, Asks, Handles
  <2>5. Tabled' = Tabled /\ open = Owned
    BY <1>t, <2>1 DEF Tabled
  <2>6. CASE tmp' = [tmp EXCEPT ![w] = h] /\ open' = open \cup ({h} \X Parts)
    <3>1. Ended' = Ended \cup {h}
      BY <2>2, <2>4, <2>6 DEF Ended, TypeOK
    <3>2. Owned' = Owned \cup ({h} \X Parts)
      BY <2>5, <3>1 DEF Owned
    <3> QED BY <1>p, <2>1, <2>5, <2>6, <3>2
  <2>7. CASE \E acquired \in {{"entry"}, {"entry", "lib"}, {"entry", "lib", "query"}} :
               /\ tmp' = [tmp EXCEPT ![w] = NULL]
               /\ open' = (open \cup ({h} \X acquired)) \ Resources(h)
    <3>1. Ended' = Ended
      BY <2>2, <2>7 DEF Ended, TypeOK
    <3>2. Owned' = Owned
      BY <2>5, <3>1 DEF Owned
    <3>3. open' = open
      <4>1. PICK acquired \in {{"entry"}, {"entry", "lib"}, {"entry", "lib", "query"}} :
              open' = (open \cup ({h} \X acquired)) \ Resources(h)
        BY <2>7
      <4>2. {h} \X acquired \subseteq Resources(h)
        BY <4>1 DEF Resources, Parts, Copied
      <4>3. open \cap Resources(h) = {}
        BY <2>3, <2>5 DEF Resources, Owned
      <4> QED BY <4>1, <4>2, <4>3
    <3> QED BY <1>p, <2>1, <2>5, <3>2, <3>3
  <2> QED BY <1>2, <2>6, <2>7 DEF Load
<1>3. ASSUME NEW w \in Workers, Publish(w) PROVE NothingLeaks'
  <2>1. pc[w] = "loaded" /\ freed' = freed /\ ~freed
    BY <1>3 DEF Publish, Fresh
  <2>2. open = Owned
    BY <1>t, <2>1
  <2>3. tmp' = [tmp EXCEPT ![w] = NULL]
    BY <1>3 DEF Publish
  <2>4. Ended' = Ended \ {tmp[w]}
    BY <2>3 DEF Ended, Fresh, TypeOK
  <2>5. tmp[w] # NULL => tmp[w] \notin Tabled /\ tmp[w] \in Ended
    <3> SUFFICES ASSUME tmp[w] # NULL PROVE tmp[w] \notin Tabled /\ tmp[w] \in Ended
      OBVIOUS
    <3>1. tmp[w] = <<w, ngets[w]>>
      BY DEF Fresh
    <3>2. \A i \in DOMAIN entries : entries[i].handle # tmp[w]
      BY <2>1, <3>1 DEF Fresh, Asks
    <3> QED BY <3>2 DEF Tabled, Ended
  <2>6. CASE tmp[w] # NULL /\ Room
    <3>1. entries' = Append(entries, [name |-> Name[want[w]], handle |-> tmp[w]])
      BY <1>3, <2>6 DEF Publish, Insert
    <3>2. Tabled' = Tabled \cup {tmp[w]}
      <4>1. /\ DOMAIN entries' = DOMAIN entries \cup {Len(entries) + 1}
            /\ entries'[Len(entries) + 1].handle = tmp[w]
            /\ \A i \in DOMAIN entries : entries'[i] = entries[i]
        BY <3>1 DEF TypeOK
      <4> QED BY <4>1 DEF Tabled
    <3>3. open' = open \ {<<tmp[w], "entry">>}
      BY <1>3, <2>6 DEF Publish
    <3>4. Owned' = Owned \ {<<tmp[w], "entry">>}
      <4> DEFINE t == tmp[w]
      <4>1. Owned' = ((Tabled \cup {t}) \X Copied) \cup ((Ended \ {t}) \X Parts)
        BY <2>4, <3>2 DEF Owned
      <4>2. t \notin Tabled /\ t \in Ended
        BY <2>5, <2>6
      <4>3. "entry" \notin Copied
        BY <1>c
      <4> HIDE DEF t
      <4>4. \A x, y : <<x, y>> \in Owned' <=> <<x, y>> \in Owned /\ ~(x = t /\ y = "entry")
        BY <1>c, <4>1, <4>2, <4>3 DEF Owned
      <4>5. \A x \in Owned' \cup Owned : \E u, v : x = <<u, v>>
        BY <4>1 DEF Owned
      <4> QED BY <4>4, <4>5 DEF t
    <3> QED BY <1>p, <2>1, <2>2, <3>3, <3>4
  <2>7. CASE tmp[w] # NULL /\ ~Room
    <3>1. entries' = entries /\ open' = open \ Resources(tmp[w])
      BY <1>3, <2>7 DEF Publish
    <3>2. Tabled' = Tabled
      BY <3>1 DEF Tabled
    <3>3. Owned' = Owned \ ({tmp[w]} \X Parts)
      BY <1>c, <2>4, <2>5, <2>7, <3>2 DEF Owned
    <3> QED BY <1>p, <2>1, <2>2, <3>1, <3>3 DEF Resources
  <2>8. CASE tmp[w] = NULL
    <3>1. entries' = entries /\ open' = open
      BY <1>3, <2>8 DEF Publish
    <3>2. Owned' = Owned
      BY <2>4, <2>8, <3>1 DEF Owned, Tabled, Ended
    <3> QED BY <1>p, <2>1, <2>2, <3>1, <3>2
  <2> QED BY <2>6, <2>7, <2>8
<1>4. ASSUME Free PROVE NothingLeaks'
  <2>1. freed' = TRUE /\ ~freed
    BY <1>4 DEF Free
  <2>2. \A w \in Workers : tmp[w] = NULL
    BY <1>4 DEF Free, Fresh
  <2>3. open = Tabled \X Copied
    <3>1. Ended = {}
      BY <2>2 DEF Ended
    <3> QED BY <1>t, <2>1, <3>1 DEF Owned
  <2> QED BY <1>4, <1>p, <2>1, <2>3 DEF Free, Tabled
<1> QED BY <1>1, <1>2, <1>3, <1>4
     DEF Next, NextFile, Scan, Finished, vars, Get, Leave, Hit, Wait, Refuse, Mark,
         SpuriousWakeup

-------------------------------------------------------------------------------
(* The empty cache satisfies the invariant.                                  *)
LEMMA InitIInv == Init => IInv
<1> SUFFICES ASSUME Init PROVE IInv
  OBVIOUS
<1> USE LangCacheAssumption DEF Init
<1>1. TypeOK
  <2>1. open \in SUBSET (Handles \X Parts) /\ tried \in SUBSET Literals
    OBVIOUS
  <2>2. entries \in Seq([name : Langs, handle : Handles]) /\ Len(entries) = 0
    OBVIOUS
  <2>3. loading \in Seq(Literals) /\ Len(loading) = 0
    OBVIOUS
  <2>4. pc \in [Workers -> PcLabels] /\ held \in [Workers -> 0..MAX_LANGS]
    BY DEF PcLabels
  <2>5. ngets \in [Workers -> Nat] /\ \A w \in Workers : ngets[w] <= Gets[w]
    OBVIOUS
  <2>6. want \in [Workers -> Literals \cup {NULL}] /\ tmp \in [Workers -> Handles \cup {NULL}]
    OBVIOUS
  <2>7. Len(entries) <= MAX_LANGS /\ Len(loading) <= MAX_LANGS
    <3>1. 0 <= MAX_LANGS
      OBVIOUS
    <3> QED BY <2>2, <2>3, <3>1
  <2>8. freed \in BOOLEAN
    OBVIOUS
  <2> HIDE LangCacheAssumption DEF Init
  <2> QED BY <2>1, <2>2, <2>3, <2>4, <2>5, <2>6, <2>7, <2>8 DEF TypeOK
<1>2. Asking /\ WaitersHaveLoader /\ HeldStaysRight
  BY DEF Asking, Asks, WaitersHaveLoader, HeldStaysRight
<1>3. SingleFlight
  BY DEF SingleFlight, Loaders
<1>4. Fresh
  BY DEF Fresh
<1>5. NothingLeaks
  <2>1. {entries[i].handle : i \in DOMAIN entries} = {}
    OBVIOUS
  <2>2. {tmp[w] : w \in Workers} \ {NULL} = {}
    OBVIOUS
  <2> QED BY <2>1, <2>2 DEF NothingLeaks
<1> QED BY <1>1, <1>2, <1>3, <1>4, <1>5 DEF IInv

(* Every step keeps it.                                                       *)
LEMMA NextIInv == IInv /\ [Next]_vars => IInv'
BY TypeStep, SingleFlightStep, HeldStep, WaitersStep, FreshStep, NothingLeaksStep DEF IInv

THEOREM Invariant == Spec => []IInv
BY InitIInv, NextIInv, PTL DEF Spec

(* entries[] and loading[] (lang.h) are never overrun.                        *)
THEOREM TypeCorrect == Spec => []TypeOK
<1>1. IInv => TypeOK
  BY DEF IInv
<1> QED BY <1>1, Invariant, PTL

(* At most one worker loads a name at a time, and loading[] says which.       *)
THEOREM SingleFlightHolds == Spec => []SingleFlight
<1>1. IInv => SingleFlight
  BY DEF IInv
<1> QED BY <1>1, Invariant, PTL

(* The entry a worker uses without the lock stays the language it asked for,  *)
(* whether or not the compiler merged the literals of EXT_LANG.               *)
THEOREM HeldStaysRightHolds == Spec => []HeldStaysRight
<1>1. IInv => HeldStaysRight
  BY DEF IInv
<1> QED BY <1>1, Invariant, PTL

(* Nobody waits for a load that is not running.                               *)
THEOREM WaitersHaveLoaderHolds == Spec => []WaitersHaveLoader
<1>1. IInv => WaitersHaveLoader
  BY DEF IInv
<1> QED BY <1>1, Invariant, PTL

(* No failure of load_lang leaks a library, a query or a name, also when      *)
(* unmerged literals load one language twice.                                 *)
THEOREM NothingLeaksHolds == Spec => []NothingLeaks
<1>1. IInv => NothingLeaks
  BY DEF IInv
<1> QED BY <1>1, Invariant, PTL

(* No step moves or changes an entry that was handed out.                     *)
THEOREM AppendOnlyHolds == Spec => AppendOnly
<1>1. TypeOK /\ [Next]_vars =>
        [/\ Len(entries') >= Len(entries)
         /\ \A i \in DOMAIN entries : entries'[i] = entries[i]]_entries
  BY EntriesGrow
<1> QED BY <1>1, TypeCorrect, PTL DEF Spec, AppendOnly

-------------------------------------------------------------------------------
(* n different members and one more are more than n.                          *)
LEMMA MoreThan ==
  ASSUME NEW S, IsFiniteSet(S), NEW n \in Nat, NEW f \in [1..n -> S],
         \A i, j \in 1..n : f[i] = f[j] => i = j,
         NEW x \in S, \A i \in 1..n : f[i] # x
  PROVE  Cardinality(S) > n
<1> DEFINE T == {f[i] : i \in 1..n}
<1>1. f \in Bijection(1..n, T)
  BY DEF Bijection, Injection, Surjection, IsInjective
<1>2. IsFiniteSet(1..n) /\ Cardinality(1..n) = n
  BY FS_Interval
<1>3. IsFiniteSet(T) /\ Cardinality(T) = n
  BY <1>1, <1>2, FS_Bijection DEF ExistsBijection
<1>4. x \notin T /\ T \cup {x} \subseteq S
  OBVIOUS
<1>5. Cardinality(T \cup {x}) = n + 1
  BY <1>3, <1>4, FS_AddElement
<1>6. Cardinality(T \cup {x}) <= Cardinality(S) /\ Cardinality(S) \in Nat
  BY <1>4, FS_Subset, FS_CardinalityType
<1> QED BY <1>5, <1>6

(* With equal literals merged, a request is turned away or its load thrown    *)
(* away only when more than MAX_LANGS languages are in use.                   *)
THEOREM RefusedOnlyWhenFullHolds == Spec => RefusedOnlyWhenFull
<1>1. ASSUME IInv, [Next]_vars, NEW w \in Workers, LiteralsMerged, TurnedAway(w)
      PROVE  Cardinality(InUse(w)) > MAX_LANGS
  <2> USE LangCacheAssumption
  <2>1. IsFiniteSet(InUse(w)) /\ Name[want[w]] \in InUse(w)
    <3>1. {entries[i].name : i \in DOMAIN entries} \subseteq Langs
      <4> DEFINE E == [name : Langs, handle : Handles]
      <4>1. entries \in Seq(E)
        BY <1>1 DEF IInv, TypeOK
      <4>2. \A e \in E : e.name \in Langs
        OBVIOUS
      <4> HIDE DEF E
      <4>3. \A i \in DOMAIN entries : entries[i] \in E
        BY <4>1
      <4> QED BY <4>2, <4>3
    <3>2. pc[w] \in Asks /\ \A v \in Loaders : pc[v] \in Asks
      BY <1>1 DEF TurnedAway, Loaders, Asks
    <3>3. {Name[want[v]] : v \in Loaders \cup {w}} \subseteq Langs
      BY <1>1, <3>2 DEF IInv, Asking, Langs, Loaders
    <3> QED BY <3>1, <3>3, FS_Subset DEF InUse
  <2>2. ASSUME Len(entries) = MAX_LANGS, Cached(Name[want[w]]) = {}
        PROVE  Cardinality(InUse(w)) > MAX_LANGS
    <3> DEFINE f == [i \in 1..MAX_LANGS |-> entries[i].name]
    <3>1. DOMAIN entries = 1..MAX_LANGS
      BY <1>1, <2>2 DEF IInv, TypeOK
    <3>2. f \in [1..MAX_LANGS -> InUse(w)]
      BY <3>1 DEF InUse
    <3>3. \A i, j \in 1..MAX_LANGS : f[i] = f[j] => i = j
      BY <1>1, <3>1 DEF IInv, SingleFlight
    <3>4. \A i \in 1..MAX_LANGS : f[i] # Name[want[w]]
      BY <2>2, <3>1 DEF Cached
    <3> HIDE DEF f
    <3> QED BY <2>1, <3>2, <3>3, <3>4, MoreThan
  <2>3. ASSUME Refuse(w), Len(loading) = MAX_LANGS
        PROVE  Cardinality(InUse(w)) > MAX_LANGS
    <3> DEFINE f == [i \in 1..MAX_LANGS |-> Name[loading[i]]]
    <3>1. DOMAIN loading = 1..MAX_LANGS /\ \A i \in 1..MAX_LANGS : loading[i] \in Literals
      BY <1>1, <2>3 DEF IInv, TypeOK
    <3>2. f \in [1..MAX_LANGS -> InUse(w)]
      <4>0. {loading[i] : i \in DOMAIN loading} = {want[v] : v \in Loaders}
        BY <1>1 DEF IInv, SingleFlight
      <4>1. \A i \in 1..MAX_LANGS : \E v \in Loaders : loading[i] = want[v]
        <5>1. \A i \in 1..MAX_LANGS : loading[i] \in {loading[j] : j \in DOMAIN loading}
          BY <3>1
        <5>2. \A x \in {want[v] : v \in Loaders} : \E v \in Loaders : x = want[v]
          OBVIOUS
        <5> QED BY <4>0, <5>1, <5>2
      <4>2. \A i \in 1..MAX_LANGS : Name[loading[i]] \in InUse(w)
        BY <4>1 DEF InUse
      <4> QED BY <4>2
    <3>3. \A i, j \in 1..MAX_LANGS : f[i] = f[j] => i = j
      BY <1>1, <3>1 DEF IInv, SingleFlight, LiteralsMerged
    <3>4. want[w] \in Literals /\ \A i \in 1..MAX_LANGS : loading[i] # want[w]
      BY <1>1, <2>3, <3>1 DEF Refuse, InFlight, IInv, Asking, Asks
    <3>5. \A i \in 1..MAX_LANGS : f[i] # Name[want[w]]
      BY <1>1, <3>1, <3>4 DEF LiteralsMerged
    <3> HIDE DEF f
    <3> QED BY <2>1, <3>2, <3>3, <3>5, MoreThan
  <2>4. \/ Refuse(w)
        \/ Publish(w) /\ tmp[w] # NULL /\ ~Room
    <3>1. ASSUME Hit(w) PROVE FALSE
      <4>1. Cached(Name[want[w]]) \in SUBSET (Nat \ {0}) /\ Cached(Name[want[w]]) # {}
        BY <1>1, <3>1 DEF Hit, Cached, IInv, TypeOK
      <4>2. First(Cached(Name[want[w]])) # 0
        BY <4>1, FirstIn
      <4> QED BY <1>1, <3>1, <4>2 DEF Hit, TurnedAway, IInv, TypeOK
    <3>2. ASSUME Publish(w), tmp[w] # NULL, Room PROVE FALSE
      <4>1. held'[w] = Len(entries) + 1
        BY <1>1, <3>2 DEF Publish, IInv, TypeOK
      <4> QED BY <1>1, <4>1 DEF TurnedAway, IInv, TypeOK
    <3>3. \A v \in Workers \ {w} : ~Hit(v) /\ ~Refuse(v) /\ ~Wait(v) /\ ~Mark(v) /\ ~Load(v)
                                   /\ ~SpuriousWakeup(v) /\ ~Leave(v)
                                   /\ \A e \in Exts : ~Get(v, e)
      BY <1>1 DEF TurnedAway, Hit, Refuse, Wait, Mark, Load, SpuriousWakeup, Leave, Get,
                  IInv, TypeOK
    <3>4. ASSUME NEW v \in Workers \ {w}, Publish(v) PROVE FALSE
      <4>1. pc'[w] = IF pc[w] = "waiting" THEN "scan" ELSE pc[w]
        BY <1>1, <3>4, PublishEffect DEF IInv
      <4> QED BY <1>1, <4>1 DEF TurnedAway
    <3>5. ~Wait(w) /\ ~Mark(w) /\ ~Load(w) /\ ~SpuriousWakeup(w) /\ ~Leave(w)
          /\ \A e \in Exts : ~Get(w, e)
      BY <1>1 DEF TurnedAway, Wait, Mark, Load, SpuriousWakeup, Leave, Get, IInv, TypeOK
    <3>6. ~Free /\ ~UNCHANGED vars
      BY <1>1 DEF TurnedAway, Free, vars
    <3> QED BY <1>1, <3>1, <3>2, <3>3, <3>4, <3>5, <3>6
         DEF Next, NextFile, Scan, Finished, TurnedAway, Publish
  <2>5. CASE Refuse(w)
    <3>1. Cached(Name[want[w]]) = {} /\ (Len(loading) = MAX_LANGS \/ Len(entries) = MAX_LANGS)
      BY <2>5 DEF Refuse, Full
    <3> QED BY <2>2, <2>3, <2>5, <3>1
  <2>6. CASE Publish(w) /\ tmp[w] # NULL /\ ~Room
    <3>1. Len(entries) = MAX_LANGS
      BY <1>1, <2>6 DEF Room, IInv, TypeOK
    <3>2. Cached(Name[want[w]]) = {}
      BY <1>1, <2>6 DEF Publish, Loaders, IInv, SingleFlight
    <3> QED BY <2>2, <3>1, <3>2
  <2> QED BY <2>4, <2>5, <2>6
<1>2. IInv /\ [Next]_vars =>
        [\A w \in Workers : LiteralsMerged /\ TurnedAway(w) =>
           Cardinality(InUse(w)) > MAX_LANGS]_vars
  BY <1>1
<1> QED BY <1>2, Invariant, PTL DEF Spec, RefusedOnlyWhenFull
===============================================================================
