--------------------------- MODULE ParseFile_proofs ---------------------------
(* Theorems about ParseFile for every set of ranges and patterns, every      *)
(* table size, and whatever fails: the table always points at lines of the   *)
(* file being parsed, so a line of an earlier file is never touched.         *)
EXTENDS ParseFile, FiniteSetTheorems, SequenceTheorems, TLAPS

SeenEntry == [range : Ranges, pattern : Patterns, idx : Nat]
VecLine == [file : 1..NFiles, range : Printable, pattern : Patterns]

(* What is held while parse_file_lines stands at each place.                 *)
Only(S) == [x \in Resources |-> IF x \in S THEN 1 ELSE 0]
HeldAt ==
  /\ at \in {"idle", "read"} => held = Nothing
  /\ at = "source" => held = Only({"buf"})
  /\ at = "match" => held = Only({"buf", "tree"})
  /\ at # "idle" => file > 0

IInv == TypeOK /\ TableAgrees /\ NoNameLost /\ HeldAt /\ strings = Len(vec) /\ cap > 0

(* A match of a table entry leads to a line of the file and of the range.    *)
LEMMA EntryHasLine ==
  ASSUME IInv, NEW r \in Ranges, NEW k \in Entry(r)
  PROVE  /\ k \in DOMAIN seen /\ seen[k] \in SeenEntry /\ seen[k].range = r
         /\ seen[k].idx \in DOMAIN vec /\ vec[seen[k].idx] \in VecLine
         /\ vec[seen[k].idx].file = file /\ vec[seen[k].idx].range = r
         /\ vec[seen[k].idx].pattern <= seen[k].pattern
         /\ r \in Printable
<1>1. k \in DOMAIN seen /\ seen[k].range = r
  BY DEF Entry
<1>2. seen[k] \in SeenEntry
  <2>1. seen \in Seq(SeenEntry)
    BY DEF IInv, TypeOK, SeenEntry
  <2> QED BY <1>1, <2>1
<1>3. /\ seen[k].idx \in DOMAIN vec /\ vec[seen[k].idx].range = r
      /\ vec[seen[k].idx].file = file /\ vec[seen[k].idx].pattern <= seen[k].pattern
  BY <1>1 DEF IInv, TableAgrees
<1>4. vec[seen[k].idx] \in VecLine
  <2>1. vec \in Seq(VecLine)
    BY DEF IInv, TypeOK, VecLine
  <2> QED BY <1>3, <2>1
<1> QED BY <1>1, <1>2, <1>3, <1>4 DEF VecLine

(* line_vec_push keeps the lines it finds and adds one.                      *)
LEMMA NewEffect ==
  ASSUME IInv, NEW r \in Ranges, NEW p \in Patterns, New(r, p)
  PROVE  /\ Line(r, p) \in VecLine
         /\ vec' \in Seq(VecLine) /\ Len(vec') = Len(vec) + 1 /\ Len(vec) \in Nat
         /\ Len(vec) + 1 \in DOMAIN vec' /\ vec'[Len(vec) + 1] = Line(r, p)
         /\ \A i \in DOMAIN vec : i \in DOMAIN vec' /\ vec'[i] = vec[i]
         /\ cap' \in Nat /\ Len(vec') <= cap' /\ cap' > 0
<1>1. r \in Printable /\ vec' = Append(vec, Line(r, p)) /\ at = "match"
  BY DEF New, Push, Examine
<1>2. Line(r, p) \in VecLine
  BY <1>1 DEF Line, VecLine, IInv, TypeOK, HeldAt
<1>3. vec \in Seq(VecLine) /\ cap \in Nat /\ Len(vec) <= cap /\ Len(vec) \in Nat
  BY DEF IInv, TypeOK, VecLine
<1>4. /\ vec' \in Seq(VecLine) /\ Len(vec') = Len(vec) + 1
      /\ Len(vec) + 1 \in DOMAIN vec' /\ vec'[Len(vec) + 1] = Line(r, p)
      /\ \A i \in DOMAIN vec : i \in DOMAIN vec' /\ vec'[i] = vec[i]
  BY <1>1, <1>2, <1>3
<1>5. cap' = IF Len(vec) = cap THEN 2 * cap ELSE cap
  BY DEF New, Push, VecFull
<1>6. cap > 0
  BY DEF IInv
<1> QED BY <1>2, <1>3, <1>4, <1>5, <1>6

(* What Better does, for the entry that it finds.                            *)
BetterAt(k, r, p) ==
  /\ ~Loses(p, seen[k])
  /\ seen' = [seen EXCEPT ![k].pattern = p]
  /\ Replace(seen[k].idx, Line(r, p))

(* line_vec_replace changes the line of the entry and no other.              *)
LEMMA BetterEffect ==
  ASSUME IInv, NEW r \in Ranges, NEW p \in Patterns, NEW k \in Entry(r), BetterAt(k, r, p)
  PROVE  /\ seen' \in Seq(SeenEntry) /\ Len(seen') = Len(seen) /\ DOMAIN seen' = DOMAIN seen
         /\ \A j \in DOMAIN seen : seen'[j].range = seen[j].range /\ seen'[j].idx = seen[j].idx
         /\ \A j \in DOMAIN seen : j # k => seen'[j] = seen[j]
         /\ seen'[k].pattern = p
         /\ vec' \in Seq(VecLine) /\ Len(vec') = Len(vec) /\ DOMAIN vec' = DOMAIN vec
         /\ vec'[seen[k].idx] = Line(r, p) /\ Line(r, p) \in VecLine
         /\ \A i \in DOMAIN vec : i # seen[k].idx => vec'[i] = vec[i]
         /\ p > vec[seen[k].idx].pattern
<1>1. /\ k \in DOMAIN seen /\ seen[k] \in SeenEntry /\ seen[k].range = r /\ r \in Printable
      /\ seen[k].idx \in DOMAIN vec /\ vec[seen[k].idx] \in VecLine
      /\ vec[seen[k].idx].file = file /\ vec[seen[k].idx].pattern <= seen[k].pattern
  BY EntryHasLine
<1>2. seen \in Seq(SeenEntry) /\ vec \in Seq(VecLine)
  BY DEF IInv, TypeOK, SeenEntry, VecLine
<1>3. /\ seen' \in Seq(SeenEntry) /\ Len(seen') = Len(seen) /\ DOMAIN seen' = DOMAIN seen
      /\ \A j \in DOMAIN seen : seen'[j].range = seen[j].range /\ seen'[j].idx = seen[j].idx
      /\ \A j \in DOMAIN seen : j # k => seen'[j] = seen[j]
      /\ seen'[k].pattern = p
  BY <1>1, <1>2 DEF SeenEntry, BetterAt
<1>4. Line(r, p) \in VecLine
  BY <1>1 DEF Line, VecLine
<1>5. vec' = [vec EXCEPT ![seen[k].idx] = Line(r, p)]
  BY DEF Replace, BetterAt
<1>6. /\ vec' \in Seq(VecLine) /\ Len(vec') = Len(vec) /\ DOMAIN vec' = DOMAIN vec
      /\ vec'[seen[k].idx] = Line(r, p)
      /\ \A i \in DOMAIN vec : i # seen[k].idx => vec'[i] = vec[i]
  BY <1>1, <1>2, <1>4, <1>5
<1>7. p > vec[seen[k].idx].pattern
  BY <1>1, ParseFileAssumption DEF Loses, SeenEntry, VecLine, BetterAt
<1> QED BY <1>3, <1>4, <1>6, <1>7

-------------------------------------------------------------------------------
(* How many of no, one and two calls release x.                              *)
LEMMA NoCall == \A x : Cardinality({k \in DOMAIN <<>> : x \in <<>>[k]}) = 0
<1> TAKE x
<1>1. {k \in DOMAIN <<>> : x \in <<>>[k]} = {}
  OBVIOUS
<1> QED BY <1>1, FS_EmptySet

(* A call counts for what it releases.                                       *)
LEMMA OneCall ==
  \A A, x : Cardinality({k \in DOMAIN <<A>> : x \in <<A>>[k]}) = IF x \in A THEN 1 ELSE 0
<1> TAKE A, x
<1>1. DOMAIN <<A>> = {1} /\ <<A>>[1] = A
  OBVIOUS
<1>2. {k \in DOMAIN <<A>> : x \in <<A>>[k]} = IF x \in A THEN {1} ELSE {}
  BY <1>1
<1>3. Cardinality({}) = 0 /\ Cardinality({1}) = 1
  BY FS_EmptySet, FS_Singleton
<1> QED BY <1>2, <1>3

(* So do two.                                                                *)
LEMMA TwoCalls ==
  \A A, B, x : A \cap B = {} =>
    Cardinality({k \in DOMAIN <<A, B>> : x \in <<A, B>>[k]}) = IF x \in A \cup B THEN 1 ELSE 0
<1> SUFFICES ASSUME NEW A, NEW B, NEW x, A \cap B = {}
             PROVE  Cardinality({k \in DOMAIN <<A, B>> : x \in <<A, B>>[k]}) =
                      IF x \in A \cup B THEN 1 ELSE 0
  OBVIOUS
<1>1. DOMAIN <<A, B>> = {1, 2} /\ <<A, B>>[1] = A /\ <<A, B>>[2] = B
  OBVIOUS
<1>2. {k \in DOMAIN <<A, B>> : x \in <<A, B>>[k]} =
        IF x \in A THEN {1} ELSE IF x \in B THEN {2} ELSE {}
  BY <1>1
<1>3. Cardinality({}) = 0 /\ Cardinality({1}) = 1 /\ Cardinality({2}) = 1
  BY FS_EmptySet, FS_Singleton
<1> QED BY <1>2, <1>3

(* What is acquired joins what was held.                                    *)
LEMMA Taken ==
  ASSUME NEW S \in SUBSET Resources, NEW A \in SUBSET Resources,
         held = Only(S), S \cap A = {},
         Exchange(A, <<>>)
  PROVE  held' = Only(S \cup A)
<1> DEFINE n(x) == Cardinality({k \in DOMAIN <<>> : x \in <<>>[k]})
<1>1. \A x \in Resources : n(x) = 0
  BY NoCall
<1>2. held' = [x \in Resources |-> held[x] + (IF x \in A THEN 1 ELSE 0) - n(x)]
  BY DEF Exchange
<1>3. \A x \in Resources : held[x] = IF x \in S THEN 1 ELSE 0
  BY DEF Only
<1> HIDE DEF n
<1> QED BY <1>1, <1>2, <1>3 DEF Only

(* A call takes away what it releases, if it was held or has been acquired.  *)
LEMMA GivenBack ==
  ASSUME NEW S \in SUBSET Resources, NEW A \in SUBSET Resources, NEW B \in SUBSET Resources,
         held = Only(S), S \cap A = {}, B \subseteq S \cup A,
         Exchange(A, <<B>>)
  PROVE  held' = Only((S \cup A) \ B)
<1> DEFINE n(x) == Cardinality({k \in DOMAIN <<B>> : x \in <<B>>[k]})
<1>1. \A x \in Resources : n(x) = IF x \in B THEN 1 ELSE 0
  BY OneCall
<1>2. held' = [x \in Resources |-> held[x] + (IF x \in A THEN 1 ELSE 0) - n(x)]
  BY DEF Exchange
<1>3. \A x \in Resources : held[x] = IF x \in S THEN 1 ELSE 0
  BY DEF Only
<1> HIDE DEF n
<1> QED BY <1>1, <1>2, <1>3 DEF Only

(* So do two calls, if they do not release the same.                         *)
LEMMA BothGivenBack ==
  ASSUME NEW S \in SUBSET Resources, NEW B \in SUBSET Resources, NEW C \in SUBSET Resources,
         held = Only(S), B \subseteq S, C \subseteq S, B \cap C = {},
         Exchange({}, <<B, C>>)
  PROVE  held' = Only(S \ (B \cup C))
<1> DEFINE n(x) == Cardinality({k \in DOMAIN <<B, C>> : x \in <<B, C>>[k]})
<1>1. \A x \in Resources : n(x) = IF x \in B \cup C THEN 1 ELSE 0
  BY TwoCalls
<1>2. held' = [x \in Resources |-> held[x] + (IF x \in {} THEN 1 ELSE 0) - n(x)]
  BY DEF Exchange
<1>3. \A x \in Resources : held[x] = IF x \in S THEN 1 ELSE 0
  BY DEF Only
<1> HIDE DEF n
<1> QED BY <1>1, <1>2, <1>3 DEF Only

(* Whatever read_file fails at, it releases what it has acquired.            *)
LEMMA CleanedUp ==
  ASSUME held = Nothing, NEW x \in Failing, Exchange(Acquired(x), CleanUp(x))
  PROVE  held' = Nothing
<1>1. held = Only({}) /\ Nothing = Only({})
  BY DEF Only, Nothing
<1>2. /\ {} \in SUBSET Resources /\ {"fd"} \in SUBSET Resources
      /\ {"fd", "FILE"} \in SUBSET Resources
      /\ \A A : {} \cap A = {} /\ A \subseteq {} \cup A /\ ({} \cup A) \ A = {}
  BY DEF Resources
<1>6. ASSUME NEW A \in SUBSET Resources, Exchange(A, <<A>>) PROVE held' = Only({})
  <2>1. held' = Only(({} \cup A) \ A)
    BY <1>1, <1>2, <1>6, GivenBack
  <2> QED BY <1>2, <2>1
<1>3. CASE x = "open"
  <2>1. Exchange({}, <<>>)
    BY <1>3 DEF Acquired, CleanUp
  <2>2. held' = Only({} \cup {})
    BY <1>1, <1>2, <2>1, Taken
  <2> QED BY <1>1, <2>2
<1>4. CASE x = "malloc"
  <2>1. Exchange({"fd", "FILE"}, <<{"fd", "FILE"}>>)
    BY <1>4 DEF Acquired, CleanUp, Fclose
  <2> QED BY <1>1, <1>2, <1>6, <2>1
<1>5. CASE x \in {"fstat", "size", "fdopen"}
  <2>1. Exchange({"fd"}, <<{"fd"}>>)
    BY <1>5 DEF Acquired, CleanUp, Close
  <2> QED BY <1>1, <1>2, <1>6, <2>1
<1> QED BY <1>3, <1>4, <1>5 DEF Failing

-------------------------------------------------------------------------------
(* Every step keeps the table, the lines and what is held in agreement.      *)
LEMMA StepKeeps == IInv /\ [Next]_vars => IInv'
<1> SUFFICES ASSUME IInv, [Next]_vars PROVE IInv'
  OBVIOUS
<1>1. ASSUME StartFile PROVE IInv'
  <2>1. /\ file < NFiles /\ file' = file + 1 /\ at' \in {"idle", "read"} /\ at = "idle"
        /\ examined' = 0 /\ seen' = <<>> /\ offered' = {} /\ failed' = FALSE
        /\ UNCHANGED <<held, vec, cap, strings>>
    BY <1>1 DEF StartFile, FreshTable, lines
  <2>2. seen' \in Seq(SeenEntry) /\ Len(seen') = 0 /\ \A k \in DOMAIN seen' : FALSE
    BY <2>1
  <2>3. TypeOK'
    <3>1. file' \in 0..NFiles /\ file' > 0 /\ 0 \in 0..MAX_MATCHES_PER_FILE /\ 0 <= DEDUP_CAP
      BY <2>1, ParseFileAssumption DEF IInv, TypeOK
    <3>2. at' \in {"idle", "read", "source", "match"} /\ offered' \in SUBSET (Printable \X Patterns)
      BY <2>1
    <3> QED BY <2>1, <2>2, <3>1, <3>2 DEF IInv, TypeOK, SeenEntry
  <2>4. TableAgrees' /\ NoNameLost'
    BY <2>1, <2>2 DEF TableAgrees, NoNameLost
  <2>5. HeldAt'
    BY <2>1 DEF IInv, TypeOK, HeldAt
  <2> QED BY <2>1, <2>3, <2>4, <2>5 DEF IInv
<1>2. ASSUME ReadFile \/ Skip \/ StartMatching \/ CloseFile PROVE IInv'
  <2>1. UNCHANGED <<file, examined, seen, vec, cap, strings, offered, failed>>
    BY <1>2 DEF ReadFile, Skip, StartMatching, CloseFile, lines
  <2>2. Nothing = Only({}) /\ \A S : Only(S) \in [Resources -> Int]
    BY DEF Only, Nothing
  <2>3. /\ {} \in SUBSET Resources /\ {"buf"} \in SUBSET Resources /\ {"tree"} \in SUBSET Resources
        /\ {"fd", "FILE"} \in SUBSET Resources /\ {"fd", "FILE", "buf"} \in SUBSET Resources
        /\ {"buf", "tree"} \in SUBSET Resources
    BY DEF Resources
  <2>4. HeldAt' /\ at' \in {"idle", "source", "match"} /\ held' \in [Resources -> Int]
    <3>1. CASE ReadFile
      <4>1. at = "read" /\ held = Only({}) /\ file > 0
        BY <2>2, <3>1 DEF ReadFile, IInv, HeldAt
      <4>2. ASSUME at' = "idle", \E x \in Failing : Exchange(Acquired(x), CleanUp(x))
            PROVE  held' = Nothing
        BY <2>2, <4>1, <4>2, CleanedUp
      <4>3. ASSUME Exchange({"fd", "FILE", "buf"}, <<{"fd", "FILE"}>>) PROVE held' = Only({"buf"})
        <5>1. held' = Only(({} \cup {"fd", "FILE", "buf"}) \ {"fd", "FILE"})
          <6>1. {} \cap {"fd", "FILE", "buf"} = {} /\ {"fd", "FILE"} \subseteq {} \cup {"fd", "FILE", "buf"}
            OBVIOUS
          <6> QED BY <2>3, <4>1, <4>3, <6>1, GivenBack
        <5>2. ({} \cup {"fd", "FILE", "buf"}) \ {"fd", "FILE"} = {"buf"}
          OBVIOUS
        <5> QED BY <5>1, <5>2
      <4>4. \/ at' = "idle" /\ held' = Nothing
            \/ at' = "source" /\ held' = Only({"buf"})
        BY <3>1, <4>2, <4>3 DEF ReadFile, Fclose
      <4> QED BY <2>1, <2>2, <4>1, <4>4 DEF HeldAt
    <3>2. CASE Skip
      <4>1. at = "source" /\ held = Only({"buf"}) /\ at' = "idle" /\ Exchange({}, <<{"buf"}>>)
        BY <3>2 DEF Skip, IInv, HeldAt
      <4>2. held' = Only(({"buf"} \cup {}) \ {"buf"})
        <5>1. {"buf"} \cap {} = {} /\ {"buf"} \subseteq {"buf"} \cup {}
          OBVIOUS
        <5> QED BY <2>3, <4>1, <5>1, GivenBack
      <4>3. ({"buf"} \cup {}) \ {"buf"} = {}
        OBVIOUS
      <4> QED BY <2>2, <4>1, <4>2, <4>3 DEF HeldAt
    <3>3. CASE StartMatching
      <4>1. /\ at = "source" /\ held = Only({"buf"}) /\ file > 0 /\ at' = "match"
            /\ Exchange({"tree"}, <<>>)
        BY <3>3 DEF StartMatching, IInv, HeldAt
      <4>2. held' = Only({"buf"} \cup {"tree"})
        <5>1. {"buf"} \cap {"tree"} = {}
          OBVIOUS
        <5> QED BY <2>3, <4>1, <5>1, Taken
      <4>3. {"buf"} \cup {"tree"} = {"buf", "tree"}
        OBVIOUS
      <4> QED BY <2>1, <2>2, <4>1, <4>2, <4>3 DEF HeldAt
    <3>4. CASE CloseFile
      <4>1. /\ at = "match" /\ held = Only({"buf", "tree"}) /\ at' = "idle"
            /\ Exchange({}, <<{"tree"}, {"buf"}>>)
        BY <3>4 DEF CloseFile, IInv, HeldAt
      <4>2. held' = Only({"buf", "tree"} \ ({"tree"} \cup {"buf"}))
        <5>1. /\ {"tree"} \subseteq {"buf", "tree"} /\ {"buf"} \subseteq {"buf", "tree"}
              /\ {"tree"} \cap {"buf"} = {}
          OBVIOUS
        <5> QED BY <2>3, <4>1, <5>1, BothGivenBack
      <4>3. {"buf", "tree"} \ ({"tree"} \cup {"buf"}) = {}
        OBVIOUS
      <4> QED BY <2>2, <4>1, <4>2, <4>3 DEF HeldAt
    <3> QED BY <1>2, <3>1, <3>2, <3>3, <3>4
  <2>5. TypeOK'
    BY <2>1, <2>4 DEF IInv, TypeOK
  <2> QED BY <2>1, <2>4, <2>5 DEF IInv, TableAgrees, NoNameLost
<1>3. ASSUME Incomplete PROVE IInv'
  <2>1. /\ examined < MAX_MATCHES_PER_FILE /\ examined' = examined + 1
        /\ UNCHANGED <<file, at, held, seen, vec, cap, strings, offered, failed>>
    BY <1>3 DEF Incomplete, Examine, lines
  <2>2. TypeOK'
    BY <2>1, ParseFileAssumption DEF IInv, TypeOK
  <2> QED BY <2>1, <2>2 DEF IInv, TableAgrees, NoNameLost, HeldAt
<1>4. ASSUME NEW r \in Ranges, NEW p \in Patterns, Duplicate(r, p) PROVE IInv'
  <2>1. /\ examined < MAX_MATCHES_PER_FILE /\ examined' = examined + 1
        /\ UNCHANGED <<file, at, held, seen, vec, cap, strings, failed>>
        /\ offered' = IF r \in Printable THEN offered \cup {<<r, p>>} ELSE offered
    BY <1>4 DEF Duplicate, Examine, lines
  <2>2. PICK k \in Entry(r) : TRUE
    BY <1>4 DEF Duplicate
  <2>3. seen[k].idx \in DOMAIN vec /\ vec[seen[k].idx].file = file /\ vec[seen[k].idx].range = r
    BY EntryHasLine
  <2>4. TypeOK'
    BY <2>1, ParseFileAssumption DEF IInv, TypeOK
  <2>5. NoNameLost'
    BY <2>1, <2>3 DEF IInv, NoNameLost
  <2> QED BY <2>1, <2>4, <2>5 DEF IInv, TableAgrees, HeldAt
<1>5. ASSUME NEW r \in Ranges, NEW p \in Patterns, New(r, p) PROVE IInv'
  <2>1. /\ examined < MAX_MATCHES_PER_FILE /\ examined' = examined + 1 /\ r \in Printable
        /\ strings' = strings + 1 /\ offered' = offered \cup {<<r, p>>}
        /\ UNCHANGED <<file, at, held, failed>> /\ Entry(r) = {}
    BY <1>5 DEF New, Push, Examine
  <2>2. /\ Line(r, p) \in VecLine
        /\ vec' \in Seq(VecLine) /\ Len(vec') = Len(vec) + 1 /\ Len(vec) \in Nat
        /\ Len(vec) + 1 \in DOMAIN vec' /\ vec'[Len(vec) + 1] = Line(r, p)
        /\ \A i \in DOMAIN vec : i \in DOMAIN vec' /\ vec'[i] = vec[i]
        /\ cap' \in Nat /\ Len(vec') <= cap' /\ cap' > 0
    BY <1>5, NewEffect
  <2> DEFINE e == [range |-> r, pattern |-> p, idx |-> Len(vec) + 1]
  <2>3. e \in SeenEntry /\ seen \in Seq(SeenEntry) /\ Len(seen) <= DEDUP_CAP
    BY <2>2 DEF SeenEntry, IInv, TypeOK
  <2>4. (seen' = Append(seen, e) /\ Len(seen) < DEDUP_CAP) \/ seen' = seen
    BY <1>5 DEF New, TableHasRoom, NextSlot
  <2>5. /\ seen' \in Seq(SeenEntry) /\ Len(seen') <= DEDUP_CAP
        /\ \A k \in DOMAIN seen' :
             (k \in DOMAIN seen /\ seen'[k] = seen[k]) \/ (k = Len(seen) + 1 /\ seen'[k] = e)
    <3> HIDE DEF e
    <3> QED BY <2>3, <2>4, ParseFileAssumption
  <2>6. \A k \in DOMAIN seen : seen[k].range # r
    BY <2>1 DEF Entry
  <2>7. TypeOK'
    <3>1. examined' \in 0..MAX_MATCHES_PER_FILE /\ strings' \in Nat
      BY <2>1, ParseFileAssumption DEF IInv, TypeOK
    <3>2. offered' \in SUBSET (Printable \X Patterns)
      BY <2>1 DEF IInv, TypeOK
    <3> QED BY <2>1, <2>2, <2>5, <3>1, <3>2 DEF IInv, TypeOK, SeenEntry, VecLine
  <2>8. TableAgrees'
    <3>1. p <= p
      BY ParseFileAssumption
    <3>2. Line(r, p).file = file /\ Line(r, p).range = r /\ Line(r, p).pattern = p
      BY DEF Line
    <3>3. e.range = r /\ e.pattern = p /\ e.idx = Len(vec) + 1
      OBVIOUS
    <3> HIDE DEF e
    <3>4. ASSUME NEW k \in DOMAIN seen'
          PROVE  /\ seen'[k].idx \in DOMAIN vec' /\ vec'[seen'[k].idx].file = file'
                 /\ vec'[seen'[k].idx].range = seen'[k].range
                 /\ vec'[seen'[k].idx].pattern <= seen'[k].pattern
                 /\ ~failed' => vec'[seen'[k].idx].pattern = seen'[k].pattern
      <4>1. CASE k \in DOMAIN seen /\ seen'[k] = seen[k]
        BY <2>1, <2>2, <4>1 DEF IInv, TableAgrees
      <4>2. CASE seen'[k] = e
        BY <2>1, <2>2, <3>1, <3>2, <3>3, <4>2
      <4> QED BY <2>5, <4>1, <4>2
    <3>5. \A j, k \in DOMAIN seen' : seen'[j].range = seen'[k].range => j = k
      BY <2>5, <2>6, <3>3 DEF IInv, TableAgrees
    <3> QED BY <3>4, <3>5 DEF TableAgrees
  <2>9. NoNameLost'
    <3>1. ASSUME ~failed', NEW o \in offered'
          PROVE  \E i \in DOMAIN vec' : vec'[i].file = file' /\ vec'[i].range = o[1]
      <4>1. CASE o = <<r, p>>
        BY <2>1, <2>2, <4>1 DEF Line
      <4>2. CASE o # <<r, p>>
        <5>1. PICK i \in DOMAIN vec : vec[i].file = file /\ vec[i].range = o[1]
          BY <2>1, <3>1, <4>2 DEF IInv, NoNameLost
        <5> QED BY <2>1, <2>2, <5>1
      <4> QED BY <4>1, <4>2
    <3> QED BY <3>1 DEF NoNameLost
  <2> QED BY <2>1, <2>2, <2>7, <2>8, <2>9 DEF IInv, HeldAt
<1>6. ASSUME NEW r \in Ranges, NEW p \in Patterns, Better(r, p) PROVE IInv'
  <2>1. PICK k \in Entry(r) : BetterAt(k, r, p)
    BY <1>6 DEF Better, BetterAt
  <2>2. /\ examined < MAX_MATCHES_PER_FILE /\ examined' = examined + 1
        /\ offered' = offered \cup {<<r, p>>}
        /\ UNCHANGED <<file, at, held, failed>>
    BY <1>6 DEF Better, Examine
  <2>3. strings' = (strings + 1) - 1 /\ UNCHANGED cap
    BY <2>1 DEF Replace, AfterReplace, BetterAt
  <2>4. /\ k \in DOMAIN seen /\ seen[k].range = r /\ seen[k].idx \in DOMAIN vec
        /\ vec[seen[k].idx].range = r /\ r \in Printable
    BY EntryHasLine
  <2>5. /\ seen' \in Seq(SeenEntry) /\ Len(seen') = Len(seen) /\ DOMAIN seen' = DOMAIN seen
        /\ \A j \in DOMAIN seen : seen'[j].range = seen[j].range /\ seen'[j].idx = seen[j].idx
        /\ \A j \in DOMAIN seen : j # k => seen'[j] = seen[j]
        /\ seen'[k].pattern = p
        /\ vec' \in Seq(VecLine) /\ Len(vec') = Len(vec) /\ DOMAIN vec' = DOMAIN vec
        /\ vec'[seen[k].idx] = Line(r, p)
        /\ \A i \in DOMAIN vec : i # seen[k].idx => vec'[i] = vec[i]
    BY <2>1, BetterEffect
  <2>6. Line(r, p).file = file /\ Line(r, p).range = r /\ Line(r, p).pattern = p /\ p <= p
    BY ParseFileAssumption DEF Line
  <2>7. TypeOK'
    <3>1. strings' \in Nat /\ cap' \in Nat /\ Len(vec') <= cap' /\ Len(seen') <= DEDUP_CAP
      BY <2>3, <2>5 DEF IInv, TypeOK
    <3>2. examined' \in 0..MAX_MATCHES_PER_FILE
      BY <2>2, ParseFileAssumption DEF IInv, TypeOK
    <3>3. offered' \in SUBSET (Printable \X Patterns)
      BY <2>2, <2>4 DEF IInv, TypeOK
    <3> QED BY <2>2, <2>5, <3>1, <3>2, <3>3 DEF IInv, TypeOK, SeenEntry, VecLine
  <2>8. TableAgrees'
    <3>1. \A j \in DOMAIN seen : j # k => seen[j].idx # seen[k].idx
      BY <2>4 DEF IInv, TableAgrees
    <3>2. ASSUME NEW j \in DOMAIN seen, j # k
          PROVE  seen'[j] = seen[j] /\ vec'[seen[j].idx] = vec[seen[j].idx]
      BY <2>5, <3>1, <3>2 DEF IInv, TableAgrees
    <3>3. ASSUME NEW j \in DOMAIN seen
          PROVE  /\ seen'[j].idx \in DOMAIN vec' /\ vec'[seen'[j].idx].file = file
                 /\ vec'[seen'[j].idx].range = seen'[j].range
                 /\ vec'[seen'[j].idx].pattern <= seen'[j].pattern
                 /\ ~failed => vec'[seen'[j].idx].pattern = seen'[j].pattern
      <4>1. CASE j = k
        BY <2>4, <2>5, <2>6, <4>1
      <4>2. CASE j # k
        BY <2>5, <3>2, <4>2 DEF IInv, TableAgrees
      <4> QED BY <4>1, <4>2
    <3>4. \A i, j \in DOMAIN seen' : seen'[i].range = seen'[j].range => i = j
      BY <2>5 DEF IInv, TableAgrees
    <3> QED BY <2>2, <2>5, <3>3, <3>4 DEF TableAgrees
  <2>9. NoNameLost'
    <3>1. ASSUME ~failed', NEW o \in offered'
          PROVE  \E i \in DOMAIN vec' : vec'[i].file = file' /\ vec'[i].range = o[1]
      <4>1. CASE o = <<r, p>>
        <5>1. seen[k].idx \in DOMAIN vec' /\ o[1] = r
          BY <2>4, <2>5, <4>1
        <5>2. vec'[seen[k].idx].file = file' /\ vec'[seen[k].idx].range = o[1]
          BY <2>2, <2>5, <2>6, <5>1
        <5> QED BY <5>1, <5>2
      <4>2. CASE o # <<r, p>>
        <5>1. o \in offered /\ ~failed
          BY <2>2, <3>1, <4>2
        <5>2. PICK i \in DOMAIN vec : vec[i].file = file /\ vec[i].range = o[1]
          BY <5>1 DEF IInv, NoNameLost
        <5>3. CASE i = seen[k].idx
          <6>1. r = o[1]
            BY <2>4, <5>2, <5>3
          <6> QED BY <2>2, <2>5, <2>6, <5>2, <5>3, <6>1
        <5>4. CASE i # seen[k].idx
          BY <2>2, <2>5, <5>2, <5>4
        <5> QED BY <5>3, <5>4
      <4> QED BY <4>1, <4>2
    <3> QED BY <3>1 DEF NoNameLost
  <2>10. strings' = Len(vec') /\ cap' > 0
    BY <2>3, <2>5 DEF IInv, TypeOK
  <2> QED BY <2>2, <2>7, <2>8, <2>9, <2>10 DEF IInv, HeldAt
<1>7. ASSUME NEW r \in Ranges, NEW p \in Patterns, NoLine(r, p) PROVE IInv'
  <2>1. /\ examined < MAX_MATCHES_PER_FILE /\ examined' = examined + 1
        /\ failed' = (failed \/ r \in Printable)
        /\ offered' = IF r \in Printable THEN offered \cup {<<r, p>>} ELSE offered
        /\ UNCHANGED <<file, at, held, vec, cap, strings>>
    BY <1>7 DEF NoLine, Examine, lines
  <2>2. seen \in Seq(SeenEntry)
    BY DEF IInv, TypeOK, SeenEntry
  <2> DEFINE OnlyRaised ==
        /\ seen' \in Seq(SeenEntry) /\ Len(seen') = Len(seen) /\ DOMAIN seen' = DOMAIN seen
        /\ \A j \in DOMAIN seen : seen'[j].range = seen[j].range /\ seen'[j].idx = seen[j].idx
        /\ \A j \in DOMAIN seen : /\ seen[j].pattern <= seen'[j].pattern
                                  /\ seen'[j].pattern # seen[j].pattern => r \in Printable
  <2>3. OnlyRaised
    <3>1. ASSUME NEW j \in DOMAIN seen
          PROVE  seen[j].pattern \in Nat /\ seen[j].pattern <= seen[j].pattern
      <4>1. seen[j] \in SeenEntry
        BY <2>2
      <4>2. seen[j].pattern \in Nat
        BY <4>1, ParseFileAssumption DEF SeenEntry
      <4> QED BY <4>2
    <3>2. CASE UNCHANGED seen
      BY <2>2, <3>1, <3>2
    <3>3. ASSUME NEW k \in Entry(r), ~Loses(p, seen[k]), seen' = [seen EXCEPT ![k].pattern = p]
          PROVE OnlyRaised
      <4>1. k \in DOMAIN seen /\ seen[k] \in SeenEntry /\ r \in Printable
        BY EntryHasLine
      <4>2. /\ seen' \in Seq(SeenEntry) /\ Len(seen') = Len(seen) /\ DOMAIN seen' = DOMAIN seen
            /\ \A j \in DOMAIN seen : seen'[j].range = seen[j].range /\ seen'[j].idx = seen[j].idx
            /\ \A j \in DOMAIN seen : j # k => seen'[j] = seen[j]
            /\ seen'[k].pattern = p
        BY <2>2, <3>3, <4>1 DEF SeenEntry
      <4>3. seen[k].pattern <= p
        BY <3>3, <4>1, ParseFileAssumption DEF Loses, SeenEntry
      <4> QED BY <3>1, <4>1, <4>2, <4>3
    <3> QED BY <1>7, <3>2, <3>3 DEF NoLine
  <2>4. TypeOK'
    BY <2>1, <2>3, ParseFileAssumption DEF IInv, TypeOK, SeenEntry
  <2>5. TableAgrees'
    <3>1. ASSUME NEW k \in DOMAIN seen
          PROVE  /\ seen'[k].idx \in DOMAIN vec' /\ vec'[seen'[k].idx].file = file'
                 /\ vec'[seen'[k].idx].range = seen'[k].range
                 /\ vec'[seen'[k].idx].pattern <= seen'[k].pattern
                 /\ ~failed' => vec'[seen'[k].idx].pattern = seen'[k].pattern
      <4>1. seen[k] \in SeenEntry /\ seen'[k] \in SeenEntry /\ vec[seen[k].idx] \in VecLine
        <5>1. vec \in Seq(VecLine) /\ seen[k].idx \in DOMAIN vec
          BY DEF IInv, TypeOK, TableAgrees, VecLine
        <5> QED BY <2>2, <2>3, <5>1
      <4>2. vec[seen[k].idx].pattern <= seen[k].pattern
        BY DEF IInv, TableAgrees
      <4>3. vec[seen[k].idx].pattern <= seen'[k].pattern
        <5>1. {vec[seen[k].idx].pattern, seen[k].pattern, seen'[k].pattern} \in SUBSET Nat
          BY <4>1, ParseFileAssumption DEF SeenEntry, VecLine
        <5>2. seen[k].pattern <= seen'[k].pattern
          BY <2>3
        <5> QED BY <4>2, <5>1, <5>2
      <4> QED BY <2>1, <2>3, <4>3 DEF IInv, TableAgrees
    <3> QED BY <2>3, <3>1 DEF IInv, TableAgrees
  <2>6. NoNameLost'
    BY <2>1 DEF IInv, NoNameLost
  <2> QED BY <2>1, <2>4, <2>5, <2>6 DEF IInv, HeldAt
<1>8. ASSUME NEW r \in Ranges, NEW p \in Patterns, NoRoom(r, p) PROVE IInv'
  <2>1. /\ examined < MAX_MATCHES_PER_FILE /\ examined' = examined + 1
        /\ failed' = TRUE /\ offered' = offered \cup {<<r, p>>} /\ r \in Printable
        /\ UNCHANGED <<file, at, held, seen, vec, cap, strings>>
    BY <1>8 DEF NoRoom, Examine, lines
  <2>2. TypeOK'
    BY <2>1, ParseFileAssumption DEF IInv, TypeOK
  <2> QED BY <2>1, <2>2 DEF IInv, TableAgrees, NoNameLost, HeldAt
<1>9. CASE UNCHANGED vars
  BY <1>9 DEF vars, lines, IInv, TypeOK, TableAgrees, NoNameLost, HeldAt
<1> QED BY <1>1, <1>2, <1>3, <1>4, <1>5, <1>6, <1>7, <1>8, <1>9 DEF Next, Match

(* The agreement of table, lines and what is held is never broken.           *)
THEOREM Inductive == Spec => []IInv
<1>1. ASSUME Init PROVE IInv
  <2>1. /\ file = 0 /\ at = "idle" /\ held = Nothing /\ examined = 0 /\ seen = <<>> /\ vec = <<>>
        /\ cap = VecCap /\ strings = 0 /\ offered = {} /\ failed = FALSE
    BY <1>1 DEF Init
  <2>2. /\ seen \in Seq(SeenEntry) /\ Len(seen) = 0 /\ \A k \in DOMAIN seen : FALSE
        /\ vec \in Seq(VecLine) /\ Len(vec) = 0
    BY <2>1
  <2>3. /\ 0 <= DEDUP_CAP /\ cap \in Nat /\ 0 <= cap /\ cap > 0
        /\ 0 \in 0..NFiles /\ 0 \in 0..MAX_MATCHES_PER_FILE
    BY <2>1, ParseFileAssumption
  <2>4. TypeOK
    <3>1. held \in [Resources -> Int]
      BY <2>1 DEF Nothing
    <3> QED BY <2>1, <2>2, <2>3, <3>1 DEF TypeOK, SeenEntry, VecLine
  <2>5. TableAgrees /\ NoNameLost /\ HeldAt
    BY <2>1, <2>2 DEF TableAgrees, NoNameLost, HeldAt
  <2> QED BY <2>1, <2>2, <2>3, <2>4, <2>5 DEF IInv
<1>2. IInv /\ [Next]_vars => IInv'
  BY StepKeeps
<1> QED BY <1>1, <1>2, PTL DEF Spec

(* Every variable keeps its range and the table never outgrows its array.    *)
THEOREM TypeCorrect == Spec => []TypeOK
<1>1. IInv => TypeOK
  BY DEF IInv
<1> QED BY <1>1, Inductive, PTL

(* Every entry of the table points at the line of its range, a line of the   *)
(* file being parsed.                                                        *)
THEOREM TableAgreesHolds == Spec => []TableAgrees
<1>1. IInv => TableAgrees
  BY DEF IInv
<1> QED BY <1>1, Inductive, PTL

(* Unless an allocation failed, each name that was offered has a line.       *)
THEOREM NoNameLostHolds == Spec => []NoNameLost
<1>1. IInv => NoNameLost
  BY DEF IInv
<1> QED BY <1>1, Inductive, PTL

(* Between files a worker holds nothing but its lines, and no line leaks.    *)
THEOREM OwnsOnlyLinesHolds == Spec => []OwnsOnlyLines
<1>1. IInv => OwnsOnlyLines
  BY DEF IInv, HeldAt, OwnsOnlyLines
<1> QED BY <1>1, Inductive, PTL

(* No step changes or removes a line of an earlier file, and a line that is  *)
(* replaced gives way to a later pattern of the same range.                  *)
THEOREM EarlierFilesKeptHolds == Spec => EarlierFilesKept
<1> DEFINE Keeps == /\ Len(vec') >= Len(vec)
                    /\ \A i \in DOMAIN vec : vec'[i] # vec[i] =>
                         /\ vec[i].file = file
                         /\ vec'[i].range = vec[i].range
                         /\ vec'[i].pattern > vec[i].pattern
<1>1. IInv /\ [Next]_vars => [Keeps]_vec
  <2> SUFFICES ASSUME IInv, [Next]_vars, vec' # vec PROVE Keeps
    OBVIOUS
  <2>1. PICK r \in Ranges, p \in Patterns : New(r, p) \/ Better(r, p)
    BY DEF Next, vars, lines, StartFile, ReadFile, Skip, StartMatching, CloseFile, Incomplete,
           Match, Duplicate, NoLine, NoRoom
  <2>2. CASE New(r, p)
    BY <2>2, NewEffect
  <2>3. CASE Better(r, p)
    <3>1. PICK k \in Entry(r) : BetterAt(k, r, p)
      BY <2>3 DEF Better, BetterAt
    <3>2. /\ Len(vec') = Len(vec) /\ vec'[seen[k].idx] = Line(r, p)
          /\ \A i \in DOMAIN vec : i # seen[k].idx => vec'[i] = vec[i]
          /\ p > vec[seen[k].idx].pattern
      BY <3>1, BetterEffect
    <3>3. vec[seen[k].idx].file = file /\ vec[seen[k].idx].range = r
      BY EntryHasLine
    <3>4. Len(vec') >= Len(vec)
      BY <3>2 DEF IInv, TypeOK
    <3> QED BY <3>2, <3>3, <3>4 DEF Line
  <2> QED BY <2>1, <2>2, <2>3
<1>2. Spec => [][Keeps]_vec
  BY <1>1, Inductive, PTL DEF Spec
<1> QED BY <1>2 DEF EarlierFilesKept

-------------------------------------------------------------------------------
(* Why a range keeps the highest pattern: while the table has had room it    *)
(* has an entry for just the ranges that were offered, and for every line of *)
(* the file.                                                                 *)
OfferedRanges == {o[1] : o \in offered}
SeenRanges == {seen[k].range : k \in DOMAIN seen}
Roomy == ~failed /\ Cardinality(OfferedRanges) <= DEDUP_CAP

Counted ==
  /\ IsFiniteSet(OfferedRanges) /\ SeenRanges \subseteq OfferedRanges
  /\ Len(seen) = Cardinality(SeenRanges)
  /\ \A i \in DOMAIN vec : vec[i].file <= file
AllEntered ==
  Roomy => /\ OfferedRanges \subseteq SeenRanges
           /\ \A o \in offered, k \in DOMAIN seen : seen[k].range = o[1] => o[2] <= seen[k].pattern
           /\ \A i \in DOMAIN vec : vec[i].file = file => \E k \in DOMAIN seen : seen[k].idx = i

(* A range that is offered once more, or for the first time.                 *)
LEMMA OfferOne ==
  ASSUME NEW r, NEW p, IsFiniteSet(OfferedRanges), offered' = offered \cup {<<r, p>>}
  PROVE  /\ OfferedRanges' = OfferedRanges \cup {r} /\ IsFiniteSet(OfferedRanges')
         /\ Cardinality(OfferedRanges) \in Nat /\ Cardinality(OfferedRanges') \in Nat
         /\ r \in OfferedRanges => Cardinality(OfferedRanges') = Cardinality(OfferedRanges)
         /\ r \notin OfferedRanges => Cardinality(OfferedRanges') = Cardinality(OfferedRanges) + 1
<1>1. OfferedRanges' = OfferedRanges \cup {r}
  <2>1. OfferedRanges' = {o[1] : o \in offered \cup {<<r, p>>}}
    BY DEF OfferedRanges
  <2>2. <<r, p>>[1] = r
    OBVIOUS
  <2>3. \A x : x \in OfferedRanges' <=> x \in OfferedRanges \cup {r}
    BY <2>1, <2>2, Zenon DEF OfferedRanges
  <2> QED BY <2>3
<1> QED BY <1>1, FS_AddElement, FS_CardinalityType

(* A range that the table does not know makes it one longer.                 *)
LEMMA EnterOne ==
  ASSUME NEW e, IInv, Counted, e.range \notin SeenRanges, seen' = Append(seen, e)
  PROVE  /\ SeenRanges' = SeenRanges \cup {e.range}
         /\ Len(seen') = Len(seen) + 1 /\ Cardinality(SeenRanges') = Len(seen) + 1
<1>1. /\ \A k \in DOMAIN seen : k \in DOMAIN seen' /\ seen'[k] = seen[k]
      /\ Len(seen) + 1 \in DOMAIN seen' /\ seen'[Len(seen) + 1] = e
      /\ \A k \in DOMAIN seen' : (k \in DOMAIN seen /\ seen'[k] = seen[k]) \/ seen'[k] = e
      /\ Len(seen') = Len(seen) + 1
  BY DEF IInv, TypeOK
<1>2. SeenRanges' = SeenRanges \cup {e.range}
  BY <1>1 DEF SeenRanges
<1>3. IsFiniteSet(SeenRanges)
  BY FS_Subset DEF Counted
<1> QED BY <1>1, <1>2, <1>3, FS_AddElement DEF Counted

(* Every step keeps the table complete while it has room.                    *)
LEMMA StepEnters == IInv /\ Counted /\ AllEntered /\ [Next]_vars => Counted' /\ AllEntered'
<1> SUFFICES ASSUME IInv, Counted, AllEntered, [Next]_vars PROVE Counted' /\ AllEntered'
  OBVIOUS
<1>1. ASSUME StartFile PROVE Counted' /\ AllEntered'
  <2>1. file' = file + 1 /\ seen' = <<>> /\ offered' = {} /\ UNCHANGED vec /\ file \in Nat
    BY <1>1 DEF StartFile, FreshTable, lines, IInv, TypeOK
  <2>2. seen' \in Seq(SeenEntry) /\ Len(seen') = 0 /\ \A k \in DOMAIN seen' : FALSE
    BY <2>1
  <2>3. SeenRanges' = {} /\ OfferedRanges' = {}
    BY <2>1, <2>2 DEF SeenRanges, OfferedRanges
  <2>4. \A i \in DOMAIN vec : vec[i].file \in Nat /\ vec[i].file <= file
    <3>1. vec \in Seq(VecLine)
      BY DEF IInv, TypeOK, VecLine
    <3>2. \A i \in DOMAIN vec : vec[i] \in VecLine
      BY <3>1
    <3> QED BY <3>2 DEF Counted, VecLine
  <2>5. \A i \in DOMAIN vec' : vec'[i].file <= file' /\ vec'[i].file # file'
    BY <2>1, <2>4
  <2>6. Counted'
    BY <2>2, <2>3, <2>5, FS_EmptySet DEF Counted
  <2>7. AllEntered'
    BY <2>1, <2>3, <2>5 DEF AllEntered
  <2> QED BY <2>6, <2>7
<1>2. ASSUME ReadFile \/ Skip \/ StartMatching \/ CloseFile \/ Incomplete \/ UNCHANGED vars
      PROVE Counted' /\ AllEntered'
  <2>1. UNCHANGED <<file, seen, vec, offered, failed>>
    BY <1>2 DEF ReadFile, Skip, StartMatching, CloseFile, Incomplete, vars, lines
  <2>2. SeenRanges' = SeenRanges /\ OfferedRanges' = OfferedRanges
    BY <2>1 DEF OfferedRanges, SeenRanges
  <2>3. Counted'
    BY <2>1, <2>2 DEF Counted
  <2>4. AllEntered'
    BY <2>1, <2>2 DEF AllEntered, Roomy
  <2> QED BY <2>3, <2>4
<1>3. ASSUME NEW r \in Ranges, NEW p \in Patterns, Duplicate(r, p) PROVE Counted' /\ AllEntered'
  <2>1. UNCHANGED <<file, seen, vec, failed>>
    BY <1>3 DEF Duplicate, lines
  <2>2. PICK k \in Entry(r) : p <= seen[k].pattern
    BY <1>3 DEF Duplicate, Loses
  <2>3. k \in DOMAIN seen /\ seen[k].range = r /\ r \in Printable
    BY EntryHasLine
  <2>4. offered' = offered \cup {<<r, p>>} /\ r \in SeenRanges
    BY <1>3, <2>3 DEF Duplicate, SeenRanges
  <2>5. OfferedRanges' = OfferedRanges /\ SeenRanges' = SeenRanges
    BY <2>1, <2>4, OfferOne DEF Counted, SeenRanges
  <2>6. Counted'
    BY <2>1, <2>5 DEF Counted
  <2>7. \A j \in DOMAIN seen : seen[j].range = r => j = k
    BY <2>3 DEF IInv, TableAgrees
  <2>8. AllEntered'
    BY <2>1, <2>2, <2>4, <2>5, <2>7 DEF AllEntered, Roomy
  <2> QED BY <2>6, <2>8
<1>4. ASSUME NEW r \in Ranges, NEW p \in Patterns, New(r, p) PROVE Counted' /\ AllEntered'
  <2> DEFINE e == [range |-> r, pattern |-> p, idx |-> Len(vec) + 1]
  <2>1. /\ offered' = offered \cup {<<r, p>>} /\ r \notin SeenRanges
        /\ seen' = IF Len(seen) < DEDUP_CAP THEN Append(seen, e) ELSE seen
        /\ UNCHANGED <<file, failed>>
    BY <1>4 DEF New, TableHasRoom, NextSlot, Entry, SeenRanges
  <2>2. /\ vec' \in Seq(VecLine) /\ Len(vec') = Len(vec) + 1 /\ Len(vec) \in Nat
        /\ vec'[Len(vec) + 1] = Line(r, p)
        /\ \A i \in DOMAIN vec : i \in DOMAIN vec' /\ vec'[i] = vec[i]
    BY <1>4, NewEffect
  <2>3. \A i \in DOMAIN vec' : i \in DOMAIN vec \/ i = Len(vec) + 1
    BY <2>2 DEF IInv, TypeOK
  <2>4. /\ OfferedRanges' = OfferedRanges \cup {r} /\ IsFiniteSet(OfferedRanges')
        /\ Cardinality(OfferedRanges) \in Nat /\ Cardinality(OfferedRanges') \in Nat
        /\ r \in OfferedRanges => Cardinality(OfferedRanges') = Cardinality(OfferedRanges)
        /\ r \notin OfferedRanges => Cardinality(OfferedRanges') = Cardinality(OfferedRanges) + 1
    BY <2>1, OfferOne DEF Counted
  <2>5. seen' = Append(seen, e) =>
          /\ SeenRanges' = SeenRanges \cup {r}
          /\ Len(seen') = Len(seen) + 1 /\ Cardinality(SeenRanges') = Len(seen) + 1
    <3>1. e.range = r
      OBVIOUS
    <3> HIDE DEF e
    <3> QED BY <2>1, <3>1, EnterOne
  <2>6. Counted'
    <3>1. \A i \in DOMAIN vec' : vec'[i].file <= file'
      <4>1. Line(r, p).file = file /\ file <= file
        BY DEF Line, IInv, TypeOK
      <4> QED BY <2>1, <2>2, <2>3, <4>1 DEF Counted
    <3>2. CASE seen' = seen
      BY <2>4, <3>1, <3>2 DEF Counted, SeenRanges
    <3>3. CASE seen' = Append(seen, e)
      BY <2>4, <2>5, <3>1, <3>3 DEF Counted
    <3> QED BY <2>1, <3>2, <3>3
  <2>7. ASSUME Roomy' PROVE AllEntered'
    <3>1. Roomy
      BY <2>1, <2>4, <2>7, ParseFileAssumption DEF Roomy
    <3>2. r \notin OfferedRanges /\ OfferedRanges = SeenRanges
      BY <2>1, <3>1 DEF AllEntered, Counted
    <3>3. seen' = Append(seen, e)
      BY <2>1, <2>4, <2>7, <3>2, ParseFileAssumption DEF Roomy, Counted
    <3>4. /\ \A k \in DOMAIN seen : k \in DOMAIN seen' /\ seen'[k] = seen[k]
          /\ Len(seen) + 1 \in DOMAIN seen' /\ seen'[Len(seen) + 1] = e
          /\ \A k \in DOMAIN seen' : (k \in DOMAIN seen /\ seen'[k] = seen[k]) \/ seen'[k] = e
      <4> HIDE DEF e
      <4> QED BY <3>3 DEF IInv, TypeOK
    <3>5. e.range = r /\ e.pattern = p /\ e.idx = Len(vec) + 1 /\ p <= p
      BY ParseFileAssumption
    <3>6. \A o \in offered : o[1] # r
      BY <3>2 DEF OfferedRanges
    <3>7. \A k \in DOMAIN seen : seen[k].range # r
      BY <2>1 DEF SeenRanges
    <3> HIDE DEF e
    <3>8. \A o \in offered', k \in DOMAIN seen' : seen'[k].range = o[1] => o[2] <= seen'[k].pattern
      BY <2>1, <3>1, <3>4, <3>5, <3>6, <3>7 DEF AllEntered
    <3>9. \A i \in DOMAIN vec' : vec'[i].file = file' => \E k \in DOMAIN seen' : seen'[k].idx = i
      BY <2>1, <2>2, <2>3, <3>1, <3>4, <3>5 DEF AllEntered
    <3>10. OfferedRanges' \subseteq SeenRanges'
      BY <2>4, <2>5, <3>2, <3>3
    <3> QED BY <3>8, <3>9, <3>10 DEF AllEntered
  <2> QED BY <2>6, <2>7 DEF AllEntered
<1>5. ASSUME NEW r \in Ranges, NEW p \in Patterns, Better(r, p) PROVE Counted' /\ AllEntered'
  <2>1. PICK k \in Entry(r) : BetterAt(k, r, p)
    BY <1>5 DEF Better, BetterAt
  <2>2. /\ k \in DOMAIN seen /\ seen[k].range = r /\ seen[k] \in SeenEntry
        /\ vec[seen[k].idx].file = file
    BY EntryHasLine
  <2>3. /\ Len(seen') = Len(seen) /\ DOMAIN seen' = DOMAIN seen
        /\ \A j \in DOMAIN seen : seen'[j].range = seen[j].range /\ seen'[j].idx = seen[j].idx
        /\ \A j \in DOMAIN seen : j # k => seen'[j] = seen[j]
        /\ seen'[k].pattern = p
        /\ DOMAIN vec' = DOMAIN vec /\ vec'[seen[k].idx] = Line(r, p)
        /\ \A i \in DOMAIN vec : i # seen[k].idx => vec'[i] = vec[i]
    BY <2>1, BetterEffect
  <2>4. offered' = offered \cup {<<r, p>>} /\ UNCHANGED <<file, failed>>
    BY <1>5 DEF Better, Examine
  <2>5. r \in OfferedRanges /\ SeenRanges' = SeenRanges
    <3>1. r \in SeenRanges
      BY <2>2 DEF SeenRanges
    <3>2. r \in OfferedRanges
      BY <3>1 DEF Counted
    <3>3. SeenRanges' = {seen'[j].range : j \in DOMAIN seen'}
      BY DEF SeenRanges
    <3>4. {seen'[j].range : j \in DOMAIN seen'} = {seen[j].range : j \in DOMAIN seen}
      BY <2>3
    <3> QED BY <3>2, <3>3, <3>4 DEF SeenRanges
  <2>6. OfferedRanges' = OfferedRanges
    <3>1. OfferedRanges' = OfferedRanges \cup {r}
      BY <2>4, OfferOne DEF Counted
    <3> QED BY <2>5, <3>1
  <2>7. \A i \in DOMAIN vec : vec'[i].file = vec[i].file
    BY <2>2, <2>3 DEF Line
  <2>8. Counted'
    BY <2>3, <2>4, <2>5, <2>6, <2>7 DEF Counted
  <2>9. \A j \in DOMAIN seen : seen[j].range = r => j = k
    BY <2>2 DEF IInv, TableAgrees
  <2>10. ASSUME Roomy' PROVE AllEntered'
    <3>1. Roomy
      BY <2>4, <2>6, <2>10 DEF Roomy
    <3>2. ASSUME NEW o \in offered, seen[k].range = o[1] PROVE o[2] <= p
      <4>1. o[2] <= seen[k].pattern /\ o[2] \in Nat /\ seen[k].pattern \in Nat /\ p \in Nat
        BY <2>2, <3>1, <3>2, ParseFileAssumption DEF AllEntered, IInv, TypeOK, SeenEntry
      <4>2. ~(p <= seen[k].pattern)
        BY <2>1 DEF BetterAt, Loses
      <4> QED BY <4>1, <4>2
    <3>3. p <= p
      BY ParseFileAssumption
    <3>4. \A o \in offered', j \in DOMAIN seen' : seen'[j].range = o[1] => o[2] <= seen'[j].pattern
      BY <2>2, <2>3, <2>4, <2>9, <3>1, <3>2, <3>3 DEF AllEntered
    <3> QED BY <2>3, <2>4, <2>5, <2>6, <2>7, <3>1, <3>4 DEF AllEntered
  <2> QED BY <2>8, <2>10 DEF AllEntered
<1>6. ASSUME NEW r \in Ranges, NEW p \in Patterns, NoLine(r, p) PROVE Counted' /\ AllEntered'
  <2>1. UNCHANGED <<file, vec>> /\ failed' = (failed \/ r \in Printable)
    BY <1>6 DEF NoLine, lines
  <2>2. CASE r \in Printable
    <3>1. offered' = offered \cup {<<r, p>>} /\ failed'
      BY <1>6, <2>1, <2>2 DEF NoLine
    <3> DEFINE SameRanges ==
          /\ Len(seen') = Len(seen) /\ DOMAIN seen' = DOMAIN seen
          /\ \A j \in DOMAIN seen : seen'[j].range = seen[j].range
    <3>2. SameRanges
      <4>1. ASSUME NEW k \in Entry(r), seen' = [seen EXCEPT ![k].pattern = p] PROVE SameRanges
        <5>1. seen \in Seq(SeenEntry) /\ k \in DOMAIN seen
          BY DEF IInv, TypeOK, SeenEntry, Entry
        <5>2. Len(seen') = Len(seen) /\ DOMAIN seen' = DOMAIN seen
          BY <4>1, <5>1
        <5>3. ASSUME NEW j \in DOMAIN seen PROVE seen'[j].range = seen[j].range
          <6>1. seen[j] \in SeenEntry
            BY <5>1
          <6>2. CASE j # k
            BY <4>1, <5>1, <6>2
          <6>3. CASE j = k
            <7>1. seen'[k] = [seen[k] EXCEPT !.pattern = p]
              BY <4>1, <5>1
            <7> QED BY <6>1, <6>3, <7>1 DEF SeenEntry
          <6> QED BY <6>2, <6>3
        <5> QED BY <5>2, <5>3
      <4> QED BY <1>6, <4>1 DEF NoLine
    <3>3. SeenRanges' = SeenRanges
      BY <3>2 DEF SeenRanges
    <3>4. OfferedRanges' = OfferedRanges \cup {r} /\ IsFiniteSet(OfferedRanges')
      BY <3>1, OfferOne DEF Counted
    <3> QED BY <2>1, <3>1, <3>2, <3>3, <3>4 DEF Counted, AllEntered, Roomy
  <2>3. CASE r \notin Printable
    <3>1. Entry(r) = {}
      BY <2>3, EntryHasLine
    <3>2. UNCHANGED <<seen, offered>> /\ failed' = failed
      BY <1>6, <2>1, <2>3, <3>1 DEF NoLine, IInv, TypeOK
    <3>3. SeenRanges' = SeenRanges /\ OfferedRanges' = OfferedRanges
      BY <3>2 DEF OfferedRanges, SeenRanges
    <3>4. Counted'
      BY <2>1, <3>2, <3>3 DEF Counted
    <3>5. AllEntered'
      BY <2>1, <3>2, <3>3 DEF AllEntered, Roomy
    <3> QED BY <3>4, <3>5
  <2> QED BY <2>2, <2>3
<1>7. ASSUME NEW r \in Ranges, NEW p \in Patterns, NoRoom(r, p) PROVE Counted' /\ AllEntered'
  <2>1. UNCHANGED <<file, seen, vec>> /\ failed' = TRUE /\ offered' = offered \cup {<<r, p>>}
    BY <1>7 DEF NoRoom, lines
  <2>2. OfferedRanges' = OfferedRanges \cup {r} /\ IsFiniteSet(OfferedRanges')
    BY <2>1, OfferOne DEF Counted
  <2> QED BY <2>1, <2>2 DEF Counted, AllEntered, Roomy, SeenRanges
<1> QED BY <1>1, <1>2, <1>3, <1>4, <1>5, <1>6, <1>7 DEF Next, Match

(* While the table has had room and allocations succeeded, each range that   *)
(* was offered has exactly one line, that of the highest pattern offered.    *)
THEOREM KeepsHighestHolds == Spec => []KeepsHighest
<1>1. ASSUME Init PROVE Counted /\ AllEntered
  <2>1. seen = <<>> /\ vec = <<>> /\ offered = {}
    BY <1>1 DEF Init
  <2>2. /\ seen \in Seq(SeenEntry) /\ Len(seen) = 0 /\ \A k \in DOMAIN seen : FALSE
        /\ \A i \in DOMAIN vec : FALSE
    BY <2>1
  <2>3. SeenRanges = {} /\ OfferedRanges = {}
    BY <2>1, <2>2 DEF SeenRanges, OfferedRanges
  <2> QED BY <2>1, <2>2, <2>3, FS_EmptySet DEF Counted, AllEntered
<1>2. IInv /\ Counted /\ AllEntered /\ [Next]_vars => Counted' /\ AllEntered'
  BY StepEnters
<1>3. IInv /\ Counted /\ AllEntered => KeepsHighest
  <2> SUFFICES ASSUME IInv, Counted, AllEntered, Roomy, NEW r \in Ranges
               PROVE  LET mine == {i \in DOMAIN vec : vec[i].file = file /\ vec[i].range = r}
                          offers == {o \in offered : o[1] = r} IN
                      /\ Cardinality(mine) = (IF offers = {} THEN 0 ELSE 1)
                      /\ \A i \in mine : \A o \in offers : o[2] <= vec[i].pattern
    BY DEF KeepsHighest, Roomy, OfferedRanges
  <2> DEFINE mine == {i \in DOMAIN vec : vec[i].file = file /\ vec[i].range = r}
             offers == {o \in offered : o[1] = r}
  <2>1. SeenRanges = OfferedRanges
    BY DEF Counted, AllEntered
  <2>2. \A i \in mine : \E k \in DOMAIN seen : seen[k].idx = i /\ seen[k].range = r
    BY DEF AllEntered, IInv, TableAgrees
  <2>3. CASE offers = {}
    <3>1. r \notin SeenRanges
      BY <2>1, <2>3 DEF OfferedRanges
    <3>2. mine = {}
      BY <2>2, <3>1 DEF SeenRanges
    <3> QED BY <2>3, <3>2, FS_EmptySet
  <2>4. CASE offers # {}
    <3>1. r \in SeenRanges
      BY <2>1, <2>4 DEF OfferedRanges
    <3>2. PICK k \in DOMAIN seen : seen[k].range = r
      BY <3>1 DEF SeenRanges
    <3>3. seen[k].idx \in mine /\ vec[seen[k].idx].pattern = seen[k].pattern
      BY <3>2 DEF IInv, TableAgrees, Roomy
    <3>4. mine = {seen[k].idx}
      BY <2>2, <3>2, <3>3 DEF IInv, TableAgrees
    <3>5. \A o \in offers : o[2] <= vec[seen[k].idx].pattern
      BY <3>2, <3>3 DEF AllEntered
    <3>6. Cardinality(mine) = 1
      BY <3>4, FS_Singleton
    <3> QED BY <2>4, <3>4, <3>5, <3>6
  <2> QED BY <2>3, <2>4
<1> QED BY <1>1, <1>2, <1>3, Inductive, PTL DEF Spec
===============================================================================
