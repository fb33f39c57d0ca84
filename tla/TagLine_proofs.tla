---------------------------- MODULE TagLine_proofs ----------------------------
(* Theorems about TagLine for every source and all limits.                   *)
EXTENDS TagLine, FiniteSetTheorems, SequenceTheorems, TLAPS

-------------------------------------------------------------------------------
(* The state.                                                                *)

(* The characters of the pattern.                                            *)
Bytes == Chars \cup {"\\", "t", "$"}
Bad == {LF, CR, TAB, NUL, "/"}
Fresh == [text |-> <<>>, raw |-> {}, escape |-> FALSE]

Typed ==
  /\ src \in Seq(Chars) /\ i \in Nat /\ run \in Nat
  /\ at \in {"count", "matched", "back", "forward", "measure", "fill", "print", "line",
             "skipped", "unmatched", "refused"}
  /\ name \in [kind : Nat, start : Nat, end : Nat] /\ line \in [start : Nat, end : Nat]
  /\ name.start <= Len(src)
  /\ width \in Nat /\ filled \in Seq(Bytes)
  /\ reader \in [text : Seq(Chars), raw : SUBSET (Bytes \ Bad), escape : BOOLEAN]

(* One of the first n characters ends a line that is too long.               *)
Long(n) == \E k \in Nat : /\ k + MAX_SRC_LINE_LEN < n
                          /\ \A j \in 1..(MAX_SRC_LINE_LEN + 1) : src[k + j] # LF

(* run counts the characters since the last newline.                         *)
Counted ==
  /\ at = "count" => /\ i <= Len(src) /\ run <= i /\ run <= MAX_SRC_LINE_LEN
                     /\ \A j \in 1..run : src[i - run + j] # LF
                     /\ run < i => src[i - run] = LF
                     /\ \A n \in {i} : ~Long(n)
  /\ at = "skipped" => Long(Len(src))
  /\ at \notin {"count", "skipped"} => ~Long(Len(src))

(* The line has grown backwards, then forwards, and what stopped it.         *)
Spanned ==
  at \in {"back", "forward", "measure", "fill", "print", "line"} =>
    /\ BackLimit <= line.start /\ line.start <= name.start
    /\ name.start <= line.end /\ line.end <= FwdLimit
    /\ \A k \in (line.start + 1)..line.end : src[k] # LF
    /\ at # "back" /\ line.start > BackLimit => src[line.start] = LF
    /\ at \notin {"back", "forward"} /\ line.end < FwdLimit => src[line.end + 1] = LF

(* Where what is written for the character k begins, less one.               *)
Offset(k) == k - 1 + Cardinality({m \in 1..(k - 1) : TwoWide(m)})

(* The loops come to k, and stop there.                                      *)
Reached(k) == k \in 1..(Length + 1) /\ \A m \in 1..(k - 1) : Char(m) \notin {LF, CR}
StopsAt(k) == Reached(k) /\ (k <= Length => Char(k) \in {LF, CR})

(* All before k is written, each character at its place.                     *)
Written(k) ==
  /\ Len(filled) = Offset(k)
  /\ \A m \in 1..(k - 1) : /\ filled[Offset(m) + 1] = Escaped(m)[1]
                           /\ TwoWide(m) => filled[Offset(m) + 2] = Escaped(m)[2]

(* The reader has made out all before m, and is at m or inside what stands   *)
(* for it.                                                                   *)
TextIs(m) == /\ Len(reader.text) = m - 1
             /\ \A j \in 1..(m - 1) : reader.text[j] = Char(j) /\ Char(j) # NUL
Before(m) == i = Offset(m) + 1 /\ ~reader.escape /\ TextIs(m)
Within(m) == i = Offset(m) + 2 /\ reader.escape /\ TextIs(m) /\ TwoWide(m)
Through(m) == ~reader.escape /\ TextIs(m)

Escaping ==
  /\ at \in {"count", "matched", "back", "forward"} => width = 0
  /\ at \in {"count", "matched", "back", "forward", "measure"} => filled = <<>>
  /\ at \in {"count", "matched", "back", "forward", "measure", "fill"} => reader = Fresh
  /\ at = "measure" => \E k \in Nat : i = k /\ Reached(k) /\ width = Offset(k)
  /\ at = "fill" => \E k, n \in Nat : /\ i = k /\ Reached(k) /\ Written(k)
                                      /\ StopsAt(n) /\ width = Offset(n)
  /\ at = "print" => \E m, n \in Nat : /\ StopsAt(n) /\ width = Offset(n) /\ Written(n)
                                       /\ m \in 1..n
                                       /\ (Before(m) \/ (m < n /\ Within(m)))
  /\ at = "line" => \E m, n \in Nat : /\ StopsAt(n) /\ width = Offset(n) /\ Written(n)
                                      /\ m \in 1..n /\ Through(m)
                                      /\ m < n => Char(m) = NUL

IInv == Typed /\ Counted /\ Spanned /\ Escaping

-------------------------------------------------------------------------------
(* Where the characters of the pattern stand.                                *)

(* One more character takes one or two bytes more.                           *)
LEMMA OffsetSteps ==
  ASSUME NEW k \in Nat \ {0}
  PROVE  /\ Offset(k) \in Nat /\ Offset(1) = 0
         /\ Offset(k + 1) = Offset(k) + (IF TwoWide(k) THEN 2 ELSE 1)
<1> DEFINE T == {m \in 1..(k - 1) : TwoWide(m)}
           U == {m \in 1..k : TwoWide(m)}
<1>1. Offset(k) = k - 1 + Cardinality(T)
  BY DEF Offset
<1>2. Offset(k + 1) = k + Cardinality(U)
  <2>1. k + 1 - 1 = k
    OBVIOUS
  <2> QED BY <2>1 DEF Offset
<1>3. U = IF TwoWide(k) THEN T \cup {k} ELSE T
  OBVIOUS
<1>4. k \notin T /\ IsFiniteSet(T) /\ Cardinality(T) \in Nat
  <2>1. IsFiniteSet(1..(k - 1)) /\ T \subseteq 1..(k - 1)
    BY FS_Interval
  <2> QED BY <2>1, FS_Subset, FS_CardinalityType
<1>5. Cardinality(T \cup {k}) = Cardinality(T) + 1
  BY <1>4, FS_AddElement
<1>6. Offset(1) = 0
  <2>1. {m \in 1..(1 - 1) : TwoWide(m)} = {}
    OBVIOUS
  <2>2. Offset(1) = 1 - 1 + Cardinality({})
    BY <2>1 DEF Offset
  <2> QED BY <2>2, FS_EmptySet
<1> HIDE DEF T, U
<1> QED BY <1>1, <1>2, <1>3, <1>4, <1>5, <1>6

(* Later characters stand farther on.                                        *)
LEMMA OffsetGrows ==
  ASSUME NEW j \in Nat \ {0}, NEW k \in Nat \ {0}, j <= k
  PROVE  Offset(j) <= Offset(k)
<1> DEFINE T == {m \in 1..(j - 1) : TwoWide(m)}
           U == {m \in 1..(k - 1) : TwoWide(m)}
<1>1. Offset(j) = j - 1 + Cardinality(T) /\ Offset(k) = k - 1 + Cardinality(U)
  BY DEF Offset
<1>2. IsFiniteSet(U) /\ T \subseteq U
  <2>1. IsFiniteSet(1..(k - 1)) /\ U \subseteq 1..(k - 1) /\ T \subseteq U
    BY FS_Interval
  <2> QED BY <2>1, FS_Subset
<1>3. Cardinality(T) <= Cardinality(U) /\ Cardinality(T) \in Nat /\ Cardinality(U) \in Nat
  BY <1>2, FS_Subset, FS_CardinalityType
<1> HIDE DEF T, U
<1> QED BY <1>1, <1>3

(* What is written for one character.                                        *)
LEMMA EscapedIs ==
  ASSUME NEW k, Char(k) \in Chars
  PROVE  /\ Escaped(k) \in Seq(Bytes)
         /\ TwoWide(k) =>
              /\ Len(Escaped(k)) = 2 /\ Escaped(k)[1] = "\\" /\ Char(k) # NUL
              /\ Escaped(k)[2] # NUL
              /\ (IF Escaped(k)[2] = "t" THEN TAB ELSE Escaped(k)[2]) = Char(k)
         /\ ~TwoWide(k) =>
              /\ Len(Escaped(k)) = 1 /\ Escaped(k)[1] = Char(k)
              /\ Char(k) \notin {TAB, "\\", "/"}
<1> DEFINE c == Char(k)
<1>1. CASE c = TAB
  BY <1>1 DEF Escaped, TwoWide, Bytes, TAB, NUL
<1>2. CASE c \in {"\\", "/"}
  <2>1. Escaped(k) = <<"\\", c>> /\ TwoWide(k) /\ c \in Bytes /\ "\\" \in Bytes
    BY <1>2 DEF Escaped, TwoWide, Bytes, TAB
  <2>2. c # NUL /\ c # "t"
    BY <1>2 DEF NUL
  <2>3. Escaped(k) \in Seq(Bytes) /\ Len(Escaped(k)) = 2
        /\ Escaped(k)[1] = "\\" /\ Escaped(k)[2] = c
    BY <2>1
  <2> QED BY <2>1, <2>2, <2>3
<1>3. CASE c \notin {TAB, "\\", "/"} /\ c = "$" /\ k = Length
  BY <1>3 DEF Escaped, TwoWide, Bytes, TAB, NUL
<1>4. CASE c \notin {TAB, "\\", "/"} /\ ~(c = "$" /\ k = Length)
  BY <1>4 DEF Escaped, TwoWide, Bytes, TAB, NUL
<1> QED BY <1>1, <1>2, <1>3, <1>4

(* The line does not change while it is escaped.                             *)
LEMMA SameLine ==
  ASSUME src' = src, line' = line
  PROVE  /\ Length' = Length
         /\ \A k : /\ Char(k)' = Char(k) /\ (TwoWide(k)' <=> TwoWide(k))
                   /\ Escaped(k)' = Escaped(k) /\ Offset(k)' = Offset(k)
                   /\ (Reached(k)' <=> Reached(k)) /\ (StopsAt(k)' <=> StopsAt(k))
                   /\ filled' = filled => (Written(k)' <=> Written(k))
<1>1. Length' = Length /\ \A k : Char(k)' = Char(k)
  BY DEF Length, Char
<1>2. \A k : (TwoWide(k)' <=> TwoWide(k)) /\ Escaped(k)' = Escaped(k)
  BY <1>1 DEF TwoWide, Escaped
<1>3. \A k : Offset(k)' = Offset(k)
  BY <1>2 DEF Offset
<1>4. \A k : (Reached(k)' <=> Reached(k)) /\ (StopsAt(k)' <=> StopsAt(k))
  BY <1>1 DEF Reached, StopsAt
<1>5. \A k : filled' = filled => (Written(k)' <=> Written(k))
  BY <1>2, <1>3 DEF Written
<1> QED BY <1>1, <1>2, <1>3, <1>4, <1>5

(* The limits are on both sides of the name and within the source.           *)
LEMMA Limits ==
  ASSUME Typed
  PROVE  /\ name.start \in Nat /\ Len(src) \in Nat /\ BackLimit \in Nat /\ FwdLimit \in Nat
         /\ BackLimit <= name.start /\ name.start <= FwdLimit /\ FwdLimit <= Len(src)
         /\ line.start \in Nat /\ line.end \in Nat
BY TagLineAssumption DEF Typed, BackLimit, FwdLimit

(* The characters of the line.                                               *)
LEMMA LineIs ==
  ASSUME Typed, Spanned, at \in {"measure", "fill", "print", "line"}
  PROVE  /\ Length \in Nat /\ line.start + Length = line.end
         /\ line.start <= line.end /\ line.end <= Len(src)
         /\ \A k \in 1..Length : Char(k) \in Chars /\ Char(k) # LF
<1>1. /\ line.start \in Nat /\ line.end \in Nat /\ line.start <= line.end
      /\ line.end <= Len(src) /\ Len(src) \in Nat
      /\ \A k \in (line.start + 1)..line.end : src[k] # LF
  BY Limits DEF Spanned
<1>2. Length \in Nat /\ line.start + Length = line.end
  BY <1>1 DEF Length
<1>3. ASSUME NEW k \in 1..Length PROVE Char(k) \in Chars /\ Char(k) # LF
  <2>1. line.start + k \in 1..Len(src) /\ line.start + k \in (line.start + 1)..line.end
    BY <1>1, <1>2
  <2>2. src[line.start + k] \in Chars
    BY <2>1 DEF Typed
  <2> QED BY <1>1, <2>1, <2>2 DEF Char
<1> QED BY <1>1, <1>2, <1>3

-------------------------------------------------------------------------------
(* The steps.                                                                *)

(* What a step leaves alone keeps what is said of it.                        *)
LEMMA SameSource ==
  ASSUME src' = src
  PROVE  \A n : Long(n)' <=> Long(n)
BY DEF Long

(* One character more in the file.                                           *)
LEMMA CountCharKeeps ==
  ASSUME IInv, CountChar
  PROVE  IInv'
<1> DEFINE M == MAX_SRC_LINE_LEN
<1>1. /\ at = "count" /\ i < Len(src) /\ run' = Count(run, src[i + 1]) /\ i' = i + 1
      /\ at' = (IF run' > M THEN "skipped" ELSE "count")
      /\ src' = src /\ name' = name /\ line' = line /\ width' = width
      /\ filled' = filled /\ reader' = reader
  BY DEF CountChar
<1>2. /\ Typed /\ i \in Nat /\ run \in Nat /\ M \in Nat /\ Len(src) \in Nat
  BY TagLineAssumption DEF IInv, Typed
<1>3. /\ run <= i /\ run <= M
      /\ \A j \in 1..run : src[i - run + j] # LF
      /\ run < i => src[i - run] = LF
      /\ ~Long(i)
  BY <1>1 DEF IInv, Counted
<1>4. \A n : Long(n)' <=> Long(n)
  BY <1>1, SameSource
<1>5. run' \in Nat /\ at' \in {"count", "skipped"} /\ i' \in Nat
  BY <1>1, <1>2 DEF Count
<1>6. Typed'
  BY <1>1, <1>2, <1>5 DEF Typed
<1>7. Spanned' /\ Escaping'
  <2>1. Spanned'
    BY <1>5 DEF Spanned
  <2>2. width = 0 /\ filled = <<>> /\ reader = Fresh
    BY <1>1 DEF IInv, Escaping
  <2>3. Escaping'
    BY <1>1, <1>5, <2>2 DEF Escaping, Fresh
  <2> QED BY <2>1, <2>3
<1>8. CASE src[i + 1] = LF
  <2>1. run' = 0 /\ at' = "count"
    BY <1>1, <1>2, <1>8 DEF Count
  <2>2. ~Long(i + 1)
    <3> SUFFICES ASSUME NEW k \in Nat, k + M < i + 1, \A j \in 1..(M + 1) : src[k + j] # LF
                 PROVE  FALSE
      BY DEF Long
    <3>1. CASE k + M < i
      BY <1>3, <3>1 DEF Long
    <3>2. CASE k + M = i
      <4>1. M + 1 \in 1..(M + 1) /\ k + (M + 1) = i + 1
        BY <1>2, <3>2
      <4> QED BY <1>8, <4>1
    <3> QED BY <1>2, <3>1, <3>2
  <2>3. i + 1 <= Len(src) /\ 0 <= i + 1 /\ 0 <= M /\ i + 1 - 0 = i + 1
    BY <1>1, <1>2
  <2>4. Counted'
    BY <1>1, <1>4, <1>8, <2>1, <2>2, <2>3 DEF Counted
  <2> QED BY <1>6, <1>7, <2>4 DEF IInv
<1>9. CASE src[i + 1] # LF
  <2>1. run' = run + 1
    BY <1>1, <1>9 DEF Count
  <2>2. \A j \in 1..(run + 1) : src[i - run + j] # LF
    <3> SUFFICES ASSUME NEW j \in 1..(run + 1) PROVE src[i - run + j] # LF
      OBVIOUS
    <3>1. CASE j \in 1..run
      BY <1>3, <3>1
    <3>2. CASE j = run + 1
      <4>1. i - run + j = i + 1
        BY <1>2, <3>2
      <4> QED BY <1>9, <4>1
    <3> QED BY <1>2, <3>1, <3>2
  <2>3. CASE run + 1 > M
    <3>1. run = M /\ at' = "skipped"
      BY <1>1, <1>2, <1>3, <2>1, <2>3
    <3>2. i - run \in Nat /\ i - run + M < Len(src)
      BY <1>1, <1>2, <1>3, <3>1
    <3>3. Long(Len(src))
      BY <2>2, <3>1, <3>2 DEF Long
    <3>4. Counted'
      BY <1>1, <1>4, <3>1, <3>3 DEF Counted
    <3> QED BY <1>6, <1>7, <3>4 DEF IInv
  <2>4. CASE ~(run + 1 > M)
    <3>1. at' = "count" /\ run + 1 <= M
      BY <1>1, <1>2, <2>1, <2>4
    <3>2. ~Long(i + 1)
      <4> SUFFICES ASSUME NEW k \in Nat, k + M < i + 1, \A j \in 1..(M + 1) : src[k + j] # LF
                   PROVE  FALSE
        BY DEF Long
      <4>1. CASE k + M < i
        BY <1>3, <4>1 DEF Long
      <4>2. CASE k + M = i
        <5>1. run < i /\ i - run - k \in 1..(M + 1) /\ k + (i - run - k) = i - run
          BY <1>2, <3>1, <4>2
        <5>2. src[i - run] = LF
          BY <1>3, <5>1
        <5>3. src[k + (i - run - k)] # LF
          BY <5>1
        <5> QED BY <5>1, <5>2, <5>3
      <4> QED BY <1>2, <4>1, <4>2
    <3>3. /\ i + 1 <= Len(src) /\ run + 1 <= i + 1
          /\ i + 1 - (run + 1) = i - run /\ (run + 1 < i + 1 => run < i)
      BY <1>1, <1>2, <1>3
    <3>4. i' - run' = i - run /\ i' <= Len(src') /\ run' <= i' /\ run' <= M
      BY <1>1, <1>2, <2>1, <3>1, <3>3
    <3>5. \A j \in 1..run' : src'[i' - run' + j] # LF
      BY <1>1, <2>1, <2>2, <3>4
    <3>6. run' < i' => src'[i' - run'] = LF
      BY <1>1, <1>3, <2>1, <3>3, <3>4
    <3>7. \A n \in {i'} : ~Long(n)'
      BY <1>1, <1>4, <3>2
    <3>8. Counted'
      BY <3>1, <3>4, <3>5, <3>6, <3>7 DEF Counted
    <3> QED BY <1>6, <1>7, <3>8 DEF IInv
  <2> QED BY <2>3, <2>4
<1> QED BY <1>8, <1>9

(* When the loop over the file is through, no line is too long.              *)
LEMMA MatchKeeps ==
  ASSUME IInv, NoMatch \/ \E kind, start, end \in 0..Len(src) : Match(kind, start, end)
  PROVE  IInv'
<1>1. /\ at = "count" /\ i = Len(src) /\ at' \in {"matched", "unmatched"}
      /\ src' = src /\ i' = i /\ run' = run /\ line' = line /\ width' = width
      /\ filled' = filled /\ reader' = reader
  BY DEF NoMatch, Match
<1>2. Typed
  BY DEF IInv
<1>3. name' \in [kind : Nat, start : Nat, end : Nat] /\ name'.start <= Len(src)
  <2>1. CASE NoMatch
    BY <1>2, <2>1 DEF NoMatch, Typed
  <2>2. ASSUME NEW kind \in 0..Len(src), NEW start \in 0..Len(src), NEW end \in 0..Len(src),
               Match(kind, start, end)
        PROVE  name' \in [kind : Nat, start : Nat, end : Nat] /\ name'.start <= Len(src)
    <3>1. name' = [kind |-> kind, start |-> start, end |-> end] /\ Len(src) \in Nat
      BY <1>2, <2>2 DEF Match, Typed
    <3> QED BY <3>1
  <2> QED BY <2>1, <2>2
<1>4. Typed'
  BY <1>1, <1>2, <1>3 DEF Typed
<1>5. ~Long(Len(src))
  BY <1>1 DEF IInv, Counted
<1>6. Counted'
  BY <1>1, <1>5, SameSource DEF Counted
<1>7. width = 0 /\ filled = <<>> /\ reader = Fresh
  BY <1>1 DEF IInv, Escaping
<1>8. Spanned' /\ Escaping'
  BY <1>1, <1>7 DEF Spanned, Escaping, Fresh
<1> QED BY <1>4, <1>6, <1>8 DEF IInv

(* A name that gives no line.                                                *)
LEMMA RefuseKeeps ==
  ASSUME IInv, Refuse
  PROVE  IInv'
<1>1. /\ at \in {"matched", "fill", "print"} /\ at' = "refused"
      /\ src' = src /\ i' = i /\ run' = run /\ name' = name /\ line' = line /\ width' = width
      /\ filled' = filled /\ reader' = reader
  BY DEF Refuse
<1>2. Typed'
  BY <1>1 DEF IInv, Typed
<1>3. Counted'
  <2>1. ~Long(Len(src))
    BY <1>1 DEF IInv, Counted
  <2> QED BY <1>1, <2>1, SameSource DEF Counted
<1>4. Spanned' /\ Escaping'
  BY <1>1 DEF Spanned, Escaping
<1> QED BY <1>2, <1>3, <1>4 DEF IInv

(* The line starts as nothing at the start of the name.                      *)
LEMMA MakeLineKeeps ==
  ASSUME IInv, MakeLine
  PROVE  IInv'
<1>1. /\ at = "matched" /\ at' = "back" /\ line' = [start |-> name.start, end |-> name.start]
      /\ src' = src /\ i' = i /\ run' = run /\ name' = name /\ width' = width
      /\ filled' = filled /\ reader' = reader
  BY DEF MakeLine
<1>2. /\ Typed /\ name.start \in Nat /\ BackLimit \in Nat /\ FwdLimit \in Nat
      /\ BackLimit <= name.start /\ name.start <= FwdLimit
  BY Limits DEF IInv
<1>3. line'.start = name.start /\ line'.end = name.start /\ line' \in [start : Nat, end : Nat]
  BY <1>1, <1>2
<1>4. Typed'
  BY <1>1, <1>2, <1>3 DEF Typed
<1>5. Counted'
  <2>1. ~Long(Len(src))
    BY <1>1 DEF IInv, Counted
  <2> QED BY <1>1, <2>1, SameSource DEF Counted
<1>6. Spanned'
  <2>1. BackLimit' = BackLimit /\ FwdLimit' = FwdLimit
    BY <1>1 DEF BackLimit, FwdLimit
  <2>2. \A k \in (name.start + 1)..name.start : FALSE
    BY <1>2
  <2> QED BY <1>1, <1>2, <1>3, <2>1, <2>2 DEF Spanned
<1>7. Escaping'
  <2>1. width = 0 /\ filled = <<>> /\ reader = Fresh
    BY <1>1 DEF IInv, Escaping
  <2> QED BY <1>1, <2>1 DEF Escaping, Fresh
<1> QED BY <1>4, <1>5, <1>6, <1>7 DEF IInv

(* The start of the line moves back.                                         *)
LEMMA BackKeeps ==
  ASSUME IInv, Back
  PROVE  IInv'
<1>1. /\ at = "back" /\ at' \in {"back", "forward"}
      /\ src' = src /\ i' = i /\ run' = run /\ name' = name /\ width' = width
      /\ filled' = filled /\ reader' = reader
  BY DEF Back
<1>2. /\ Typed /\ name.start \in Nat /\ BackLimit \in Nat /\ FwdLimit \in Nat
      /\ line.start \in Nat /\ line.end \in Nat /\ line \in [start : Nat, end : Nat]
  BY Limits DEF IInv, Typed
<1>3. /\ BackLimit <= line.start /\ line.start <= name.start
      /\ name.start <= line.end /\ line.end <= FwdLimit
      /\ \A k \in (line.start + 1)..line.end : src[k] # LF
  BY <1>1 DEF IInv, Spanned
<1>4. BackLimit' = BackLimit /\ FwdLimit' = FwdLimit
  BY <1>1 DEF BackLimit, FwdLimit
<1>5. Counted'
  <2>1. ~Long(Len(src))
    BY <1>1 DEF IInv, Counted
  <2> QED BY <1>1, <2>1, SameSource DEF Counted
<1>6. Escaping'
  <2>1. width = 0 /\ filled = <<>> /\ reader = Fresh
    BY <1>1 DEF IInv, Escaping
  <2> QED BY <1>1, <2>1 DEF Escaping, Fresh
<1>7. CASE line.start > BackLimit /\ src[line.start] # LF
  <2>1. at' = "back" /\ line' = [line EXCEPT !.start = line.start - 1]
    BY <1>7 DEF Back
  <2>2. line.start - 1 \in Nat
    BY <1>2, <1>7
  <2>3. line'.start = line.start - 1 /\ line'.end = line.end /\ line' \in [start : Nat, end : Nat]
    BY <1>2, <2>1, <2>2
  <2>4. Typed'
    BY <1>1, <1>2, <2>3 DEF Typed
  <2>5. ASSUME NEW k \in (line'.start + 1)..line'.end PROVE src[k] # LF
    <3>1. k = line.start \/ k \in (line.start + 1)..line.end
      BY <1>2, <2>3
    <3> QED BY <1>3, <1>7, <3>1
  <2>6. BackLimit <= line.start - 1 /\ line.start - 1 <= name.start
    BY <1>2, <1>3, <1>7
  <2>7. Spanned'
    BY <1>1, <1>3, <1>4, <2>1, <2>3, <2>5, <2>6 DEF Spanned
  <2> QED BY <1>5, <1>6, <2>4, <2>7 DEF IInv
<1>8. CASE ~(line.start > BackLimit /\ src[line.start] # LF)
  <2>1. at' = "forward" /\ line' = line
    BY <1>8 DEF Back
  <2>2. Typed'
    BY <1>1, <1>2, <2>1 DEF Typed
  <2>3. Spanned'
    BY <1>1, <1>3, <1>4, <1>8, <2>1 DEF Spanned
  <2> QED BY <1>5, <1>6, <2>2, <2>3 DEF IInv
<1> QED BY <1>7, <1>8

(* Its end moves forward.                                                    *)
LEMMA ForwardKeeps ==
  ASSUME IInv, Forward
  PROVE  IInv'
<1>1. /\ at = "forward" /\ at' \in {"forward", "measure"}
      /\ src' = src /\ run' = run /\ name' = name /\ width' = width
      /\ filled' = filled /\ reader' = reader
  BY DEF Forward
<1>2. /\ Typed /\ name.start \in Nat /\ BackLimit \in Nat /\ FwdLimit \in Nat
      /\ line.start \in Nat /\ line.end \in Nat /\ line \in [start : Nat, end : Nat]
  BY Limits DEF IInv, Typed
<1>3. /\ BackLimit <= line.start /\ line.start <= name.start
      /\ name.start <= line.end /\ line.end <= FwdLimit
      /\ \A k \in (line.start + 1)..line.end : src[k] # LF
      /\ line.start > BackLimit => src[line.start] = LF
  BY <1>1 DEF IInv, Spanned
<1>4. BackLimit' = BackLimit /\ FwdLimit' = FwdLimit
  BY <1>1 DEF BackLimit, FwdLimit
<1>5. Counted'
  <2>1. ~Long(Len(src))
    BY <1>1 DEF IInv, Counted
  <2> QED BY <1>1, <2>1, SameSource DEF Counted
<1>6. width = 0 /\ filled = <<>> /\ reader = Fresh
  BY <1>1 DEF IInv, Escaping
<1>7. CASE line.end < FwdLimit /\ src[line.end + 1] # LF
  <2>1. at' = "forward" /\ i' = i /\ line' = [line EXCEPT !.end = line.end + 1]
    BY <1>1, <1>7 DEF Forward
  <2>2. line'.start = line.start /\ line'.end = line.end + 1 /\ line' \in [start : Nat, end : Nat]
    BY <1>2, <2>1
  <2>3. Typed'
    BY <1>1, <1>2, <2>1, <2>2 DEF Typed
  <2>4. ASSUME NEW k \in (line'.start + 1)..line'.end PROVE src[k] # LF
    <3>1. k = line.end + 1 \/ k \in (line.start + 1)..line.end
      BY <1>2, <2>2
    <3> QED BY <1>3, <1>7, <3>1
  <2>5. name.start <= line.end + 1 /\ line.end + 1 <= FwdLimit
    BY <1>2, <1>3, <1>7
  <2>6. Spanned'
    BY <1>1, <1>3, <1>4, <2>1, <2>2, <2>4, <2>5 DEF Spanned
  <2>7. Escaping'
    BY <1>1, <1>6, <2>1 DEF Escaping, Fresh
  <2> QED BY <1>5, <2>3, <2>6, <2>7 DEF IInv
<1>8. CASE ~(line.end < FwdLimit /\ src[line.end + 1] # LF)
  <2>1. at' = "measure" /\ i' = 1 /\ line' = line
    BY <1>1, <1>8 DEF Forward
  <2>2. Typed'
    BY <1>1, <1>2, <2>1 DEF Typed
  <2>3. Spanned'
    BY <1>1, <1>3, <1>4, <1>8, <2>1 DEF Spanned
  <2>4. Length \in Nat
    BY <1>2, <1>3 DEF Length
  <2>5. Reached(1) /\ Offset(1) = 0
    BY <2>4, OffsetSteps DEF Reached
  <2>6. Reached(1)' /\ Offset(1)' = 0
    BY <1>1, <2>1, <2>5, SameLine
  <2>7. Escaping'
    BY <1>1, <1>6, <2>1, <2>6 DEF Escaping, Fresh
  <2> QED BY <1>5, <2>2, <2>3, <2>7 DEF IInv
<1> QED BY <1>7, <1>8

(* While the line is escaped and read, the rest stays as it is.              *)
LEMMA RestStays ==
  ASSUME IInv, at \in {"measure", "fill", "print"}, at' \in {"measure", "fill", "print", "line"},
         src' = src, run' = run, name' = name, line' = line
  PROVE  Counted' /\ Spanned'
<1>1. Counted'
  <2>1. ~Long(Len(src))
    BY DEF IInv, Counted
  <2> QED BY <2>1, SameSource DEF Counted
<1>2. BackLimit' = BackLimit /\ FwdLimit' = FwdLimit
  BY DEF BackLimit, FwdLimit
<1>3. Spanned'
  BY <1>2 DEF IInv, Spanned
<1> QED BY <1>1, <1>3

(* A loop of escape_pattern goes on to the next character or stops.          *)
LEMMA MoreIs ==
  ASSUME Length \in Nat, NEW k \in Nat, i = k, Reached(k)
  PROVE  /\ More => k \in 1..Length /\ Reached(k + 1)
         /\ ~More => StopsAt(k)
<1>1. k \in 1..(Length + 1) /\ \A m \in 1..(k - 1) : Char(m) \notin {LF, CR}
  BY DEF Reached
<1>2. ASSUME More PROVE k \in 1..Length /\ Reached(k + 1)
  <2>1. k \in 1..Length /\ k + 1 \in 1..(Length + 1) /\ Char(k) \notin {LF, CR}
    BY <1>1, <1>2 DEF More
  <2>2. ASSUME NEW m \in 1..(k + 1 - 1) PROVE Char(m) \notin {LF, CR}
    <3>1. m = k \/ m \in 1..(k - 1)
      OBVIOUS
    <3> QED BY <1>1, <2>1, <3>1
  <2> QED BY <2>1, <2>2 DEF Reached
<1>3. ~More => StopsAt(k)
  BY DEF More, StopsAt
<1> QED BY <1>2, <1>3

(* The width of one character more.                                          *)
LEMMA MeasureKeeps ==
  ASSUME IInv, Measure
  PROVE  IInv'
<1>1. /\ at = "measure" /\ at' \in {"measure", "fill"}
      /\ src' = src /\ run' = run /\ name' = name /\ line' = line
      /\ filled' = filled /\ reader' = reader
  BY DEF Measure
<1>2. Typed /\ Spanned
  BY DEF IInv
<1>3. Counted' /\ Spanned'
  BY <1>1, RestStays
<1>4. filled = <<>> /\ reader = Fresh
  BY <1>1 DEF IInv, Escaping
<1>5. PICK k \in Nat : i = k /\ Reached(k) /\ width = Offset(k)
  BY <1>1 DEF IInv, Escaping
<1>6. Length \in Nat /\ k \in Nat \ {0}
  BY <1>1, <1>2, <1>5, LineIs DEF Reached
<1>7. /\ Offset(k) \in Nat /\ Offset(1) = 0
      /\ Offset(k + 1) = Offset(k) + (IF TwoWide(k) THEN 2 ELSE 1)
  BY <1>6, OffsetSteps
<1>8. CASE More
  <2>1. at' = "measure" /\ i' = k + 1 /\ width' = Offset(k + 1) /\ k + 1 \in Nat
    BY <1>5, <1>7, <1>8, <1>1 DEF Measure
  <2>2. Reached(k + 1)
    BY <1>5, <1>6, <1>8, MoreIs
  <2>3. Reached(k + 1)' /\ Offset(k + 1)' = Offset(k + 1)
    BY <1>1, <2>2, SameLine
  <2>4. \E n \in Nat : i' = n /\ Reached(n)' /\ width' = Offset(n)'
    BY <2>1, <2>3
  <2>5. Escaping'
    BY <1>1, <1>4, <2>1, <2>4 DEF Escaping, Fresh
  <2>6. width' \in Nat
    BY <1>7, <2>1
  <2>7. Typed'
    BY <1>1, <1>2, <2>1, <2>6 DEF Typed
  <2> QED BY <1>3, <2>5, <2>7 DEF IInv
<1>9. CASE ~More
  <2>1. at' = "fill" /\ i' = 1 /\ width' = Offset(k)
    BY <1>1, <1>5, <1>9 DEF Measure
  <2>2. StopsAt(k)
    BY <1>5, <1>6, <1>9, MoreIs
  <2>3. Reached(1) /\ Written(1)
    <3>1. \A m \in 1..(1 - 1) : FALSE
      OBVIOUS
    <3>2. Len(filled) = 0
      BY <1>4
    <3> QED BY <1>6, <1>7, <3>1, <3>2 DEF Reached, Written
  <2>4. StopsAt(k)' /\ Offset(k)' = Offset(k) /\ Reached(1)' /\ Written(1)'
    BY <1>1, <2>2, <2>3, SameLine
  <2>5. \E m, n \in Nat : i' = m /\ Reached(m)' /\ Written(m)' /\ StopsAt(n)' /\ width' = Offset(n)'
    BY <2>1, <2>4
  <2>6. Escaping'
    BY <1>1, <1>4, <2>1, <2>5 DEF Escaping, Fresh
  <2>7. Typed'
    BY <1>1, <1>2, <1>7, <2>1 DEF Typed
  <2> QED BY <1>3, <2>6, <2>7 DEF IInv
<1> QED BY <1>8, <1>9

(* One character more is written where it belongs.                           *)
LEMMA WrittenGrows ==
  ASSUME Typed, src' = src, line' = line, NEW k \in Nat \ {0}, Char(k) \in Chars,
         Written(k), filled' = filled \o Escaped(k)
  PROVE  filled' \in Seq(Bytes) /\ Written(k + 1)'
<1> DEFINE e == Escaped(k)
           o == Offset(k)
<1>1. /\ filled \in Seq(Bytes) /\ e \in Seq(Bytes) /\ Len(filled) = o
      /\ \A m \in 1..(k - 1) : /\ filled[Offset(m) + 1] = Escaped(m)[1]
                               /\ TwoWide(m) => filled[Offset(m) + 2] = Escaped(m)[2]
  BY EscapedIs DEF Typed, Written
<1>2. Len(e) = (IF TwoWide(k) THEN 2 ELSE 1)
  BY EscapedIs
<1>3. o \in Nat /\ Offset(k + 1) = o + Len(e)
  BY <1>2, OffsetSteps
<1> HIDE DEF e, o
<1>4. /\ filled' \in Seq(Bytes) /\ Len(filled') = o + Len(e)
      /\ \A j \in 1..(o + Len(e)) : filled'[j] = IF j <= o THEN filled[j] ELSE e[j - o]
  BY <1>1, ConcatProperties DEF e
<1>5. Len(filled') = Offset(k + 1)
  BY <1>3, <1>4
<1>6. ASSUME NEW m \in 1..k
      PROVE  /\ filled'[Offset(m) + 1] = Escaped(m)[1]
             /\ TwoWide(m) => filled'[Offset(m) + 2] = Escaped(m)[2]
  <2>1. CASE m \in 1..(k - 1)
    <3>0. m \in Nat \ {0}
      BY <2>1
    <3>1. Offset(m) \in Nat /\ Offset(m + 1) = Offset(m) + (IF TwoWide(m) THEN 2 ELSE 1)
      BY <3>0, OffsetSteps
    <3>2. m + 1 \in Nat \ {0} /\ m + 1 <= k
      BY <2>1
    <3>3. Offset(m + 1) <= o
      BY <3>2, OffsetGrows DEF o
    <3>4. /\ Offset(m) + 1 \in 1..(o + Len(e)) /\ Offset(m) + 1 <= o
          /\ TwoWide(m) => Offset(m) + 2 \in 1..(o + Len(e)) /\ Offset(m) + 2 <= o
      BY <1>2, <1>3, <3>1, <3>3
    <3> QED BY <1>1, <1>4, <2>1, <3>4
  <2>2. CASE m = k
    <3>1. filled'[o + 1] = e[1]
      <4> DEFINE j == o + 1
      <4>1. j \in 1..(o + Len(e)) /\ ~(j <= o) /\ j - o = 1
        BY <1>2, <1>3
      <4> HIDE DEF j
      <4>2. filled'[j] = e[j - o]
        BY <1>4, <4>1
      <4> QED BY <4>1, <4>2 DEF j
    <3>2. TwoWide(k) => filled'[o + 2] = e[2]
      <4> SUFFICES ASSUME TwoWide(k) PROVE filled'[o + 2] = e[2]
        OBVIOUS
      <4> DEFINE j == o + 2
      <4>1. j \in 1..(o + Len(e)) /\ ~(j <= o) /\ j - o = 2
        BY <1>2, <1>3
      <4> HIDE DEF j
      <4>2. filled'[j] = e[j - o]
        BY <1>4, <4>1
      <4> QED BY <4>1, <4>2 DEF j
    <3> QED BY <2>2, <3>1, <3>2 DEF e, o
  <2>3. m \in 1..(k - 1) \/ m = k
    OBVIOUS
  <2> QED BY <2>1, <2>2, <2>3
<1> DEFINE n == k + 1
<1>7. \A m \in 1..(n - 1) : m \in 1..k
  OBVIOUS
<1>8. Len(filled') = Offset(n)
  BY <1>5
<1> HIDE DEF n
<1>9. Written(n)'
  BY <1>6, <1>7, <1>8, SameLine DEF Written
<1> QED BY <1>4, <1>9 DEF n

(* The second loop.                                                          *)
LEMMA FillKeeps ==
  ASSUME IInv, Fill
  PROVE  IInv'
<1>1. /\ at = "fill" /\ at' \in {"fill", "print"}
      /\ src' = src /\ run' = run /\ name' = name /\ line' = line
      /\ width' = width /\ reader' = reader
  BY DEF Fill
<1>2. Typed /\ Spanned
  BY DEF IInv
<1>3. Counted' /\ Spanned'
  BY <1>1, RestStays
<1>4. reader = Fresh
  BY <1>1 DEF IInv, Escaping
<1>5. PICK k \in Nat, n \in Nat : i = k /\ Reached(k) /\ Written(k) /\ StopsAt(n) /\ width = Offset(n)
  BY <1>1 DEF IInv, Escaping
<1>6. /\ Length \in Nat /\ k \in Nat \ {0}
      /\ \A j \in 1..Length : Char(j) \in Chars
  BY <1>1, <1>2, <1>5, LineIs DEF Reached
<1>7. StopsAt(n)' /\ Offset(n)' = Offset(n)
  BY <1>1, <1>5, SameLine
<1>8. CASE More
  <2>1. at' = "fill" /\ i' = k + 1 /\ k + 1 \in Nat /\ filled' = filled \o Escaped(k)
    BY <1>1, <1>5, <1>8 DEF Fill
  <2>2. Reached(k + 1) /\ k \in 1..Length
    BY <1>5, <1>6, <1>8, MoreIs
  <2>3. Reached(k + 1)'
    BY <1>1, <2>2, SameLine
  <2>4. filled' \in Seq(Bytes) /\ Written(k + 1)'
    BY <1>1, <1>2, <1>5, <1>6, <2>1, <2>2, WrittenGrows
  <2>5. \E m, l \in Nat : i' = m /\ Reached(m)' /\ Written(m)' /\ StopsAt(l)' /\ width' = Offset(l)'
    BY <1>1, <1>5, <1>7, <2>1, <2>3, <2>4
  <2>6. Escaping'
    BY <1>1, <1>4, <2>1, <2>5 DEF Escaping, Fresh
  <2>7. Typed'
    BY <1>1, <1>2, <2>1, <2>4 DEF Typed
  <2> QED BY <1>3, <2>6, <2>7 DEF IInv
<1>9. CASE ~More
  <2>1. at' = "print" /\ i' = 1 /\ filled' = filled
    BY <1>1, <1>9 DEF Fill
  <2>2. StopsAt(k)
    BY <1>5, <1>6, <1>9, MoreIs
  <2>3. k = n
    <3>1. /\ k \in 1..(Length + 1) /\ n \in 1..(Length + 1)
          /\ \A m \in 1..(k - 1) : Char(m) \notin {LF, CR}
          /\ \A m \in 1..(n - 1) : Char(m) \notin {LF, CR}
          /\ k <= Length => Char(k) \in {LF, CR}
          /\ n <= Length => Char(n) \in {LF, CR}
      BY <1>5, <2>2 DEF StopsAt, Reached
    <3>2. ~(k < n)
      <4> SUFFICES ASSUME k < n PROVE FALSE
        OBVIOUS
      <4>1. k \in 1..(n - 1) /\ k <= Length
        BY <1>6, <3>1
      <4> QED BY <3>1, <4>1
    <3>3. ~(n < k)
      <4> SUFFICES ASSUME n < k PROVE FALSE
        OBVIOUS
      <4>1. n \in 1..(k - 1) /\ n <= Length
        BY <1>6, <3>1
      <4> QED BY <3>1, <4>1
    <3> QED BY <3>2, <3>3
  <2>4. Written(n)'
    BY <1>1, <1>5, <2>1, <2>3, SameLine
  <2>5. Before(1)'
    <3>1. Offset(1)' = 0
      BY <1>1, <1>6, OffsetSteps, SameLine
    <3>2. Len(Fresh.text) = 0 /\ ~Fresh.escape /\ \A j \in 1..(1 - 1) : FALSE
      BY DEF Fresh
    <3>3. reader' = Fresh
      BY <1>1, <1>4
    <3> QED BY <2>1, <3>1, <3>2, <3>3 DEF Before, TextIs
  <2>6. 1 \in 1..n /\ n \in Nat
    BY <1>6, <2>3
  <2>7. \E m, l \in Nat : /\ StopsAt(l)' /\ width' = Offset(l)' /\ Written(l)' /\ m \in 1..l
                          /\ (Before(m)' \/ (m < l /\ Within(m)'))
    BY <1>1, <1>5, <1>7, <2>4, <2>5, <2>6
  <2>8. Escaping'
    BY <1>1, <1>4, <2>1, <2>7 DEF Escaping, Fresh
  <2>9. Typed'
    BY <1>1, <1>2, <2>1 DEF Typed
  <2> QED BY <1>3, <2>8, <2>9 DEF IInv
<1> QED BY <1>8, <1>9

(* The reader has made out one character more.                               *)
LEMMA TextGrows ==
  ASSUME Typed, src' = src, line' = line, NEW m \in Nat \ {0}, TextIs(m),
         Char(m) \in Chars, Char(m) # NUL, reader'.text = Append(reader.text, Char(m))
  PROVE  reader'.text \in Seq(Chars) /\ TextIs(m + 1)'
<1> DEFINE t == reader.text
           n == m + 1
<1>1. /\ t \in Seq(Chars) /\ Len(t) = m - 1
      /\ \A j \in 1..(m - 1) : t[j] = Char(j) /\ Char(j) # NUL
  BY DEF Typed, TextIs
<1>2. /\ reader'.text \in Seq(Chars) /\ Len(reader'.text) = Len(t) + 1
      /\ reader'.text[Len(t) + 1] = Char(m)
      /\ \A j \in 1..Len(t) : reader'.text[j] = t[j]
  BY <1>1, AppendProperties
<1> HIDE DEF t
<1>3. Len(reader'.text) = n - 1
  BY <1>1, <1>2
<1>4. ASSUME NEW j \in 1..(n - 1) PROVE reader'.text[j] = Char(j) /\ Char(j) # NUL
  <2>1. CASE j = m
    <3>1. Len(t) + 1 = j
      BY <1>1, <2>1
    <3> QED BY <1>2, <2>1, <3>1
  <2>2. CASE j \in 1..(m - 1)
    BY <1>1, <1>2, <2>2
  <2>3. j = m \/ j \in 1..(m - 1)
    OBVIOUS
  <2> QED BY <2>1, <2>2, <2>3
<1> HIDE DEF n
<1>5. TextIs(n)'
  BY <1>3, <1>4, SameLine DEF TextIs
<1> QED BY <1>2, <1>5 DEF n

(* The reader is never anywhere but at the first byte of a character, or at  *)
(* the second one knowing it.                                                *)
LEMMA ReadKeeps ==
  ASSUME IInv, Read
  PROVE  IInv'
<1>1. /\ at = "print" /\ at' \in {"print", "line"}
      /\ src' = src /\ run' = run /\ name' = name /\ line' = line
      /\ width' = width /\ filled' = filled
  BY DEF Read
<1>2. Typed /\ Spanned
  BY DEF IInv
<1>3. Counted' /\ Spanned'
  BY <1>1, RestStays
<1>4. PICK m \in Nat, n \in Nat : /\ StopsAt(n) /\ width = Offset(n) /\ Written(n) /\ m \in 1..n
                                  /\ (Before(m) \/ (m < n /\ Within(m)))
  BY <1>1 DEF IInv, Escaping
<1>5. /\ Length \in Nat /\ n \in 1..(Length + 1)
      /\ \A k \in 1..Length : Char(k) \in Chars
      /\ \A k \in 1..(n - 1) : Char(k) \notin {LF, CR}
  BY <1>1, <1>2, <1>4, LineIs DEF StopsAt, Reached
<1>6. StopsAt(n)' /\ width' = Offset(n)' /\ Written(n)'
  BY <1>1, <1>4, SameLine
<1>7. /\ \A k : TextIs(k)' <=> /\ Len(reader'.text) = k - 1
                               /\ \A j \in 1..(k - 1) : reader'.text[j] = Char(j) /\ Char(j) # NUL
      /\ \A k : (TwoWide(k)' <=> TwoWide(k)) /\ Offset(k)' = Offset(k) /\ Char(k)' = Char(k)
  BY <1>1, SameLine DEF TextIs
<1>8. /\ m \in Nat \ {0} /\ Offset(m) \in Nat /\ Len(filled) = Offset(n) /\ Offset(n) \in Nat
      /\ Offset(m + 1) = Offset(m) + (IF TwoWide(m) THEN 2 ELSE 1)
  <2>1. m \in Nat \ {0} /\ n \in Nat \ {0}
    BY <1>4, <1>5
  <2> QED BY <1>4, <2>1, OffsetSteps DEF Written
<1>9. /\ reader \in [text : Seq(Chars), raw : SUBSET (Bytes \ Bad), escape : BOOLEAN]
      /\ i \in Nat
  BY <1>2 DEF Typed
<1>10. ASSUME at' = "line", i' = i, reader' = reader, Through(m), m < n => Char(m) = NUL
       PROVE  IInv'
  <2>1. Through(m)' /\ (m < n => Char(m)' = NUL)
    BY <1>1, <1>7, <1>10 DEF Through, TextIs
  <2>2. \E k, l \in Nat : /\ StopsAt(l)' /\ width' = Offset(l)' /\ Written(l)'
                          /\ k \in 1..l /\ Through(k)' /\ (k < l => Char(k)' = NUL)
    BY <1>4, <1>6, <2>1
  <2>3. Escaping'
    BY <1>10, <2>2 DEF Escaping
  <2>4. Typed'
    BY <1>1, <1>2, <1>10 DEF Typed
  <2> QED BY <1>3, <2>3, <2>4 DEF IInv
<1>11. ASSUME at' = "print", i' \in Nat,
              reader' \in [text : Seq(Chars), raw : SUBSET (Bytes \ Bad), escape : BOOLEAN],
              \E k \in 1..n : Before(k)' \/ (k < n /\ Within(k)')
       PROVE  IInv'
  <2>1. \E k, l \in Nat : /\ StopsAt(l)' /\ width' = Offset(l)' /\ Written(l)' /\ k \in 1..l
                          /\ (Before(k)' \/ (k < l /\ Within(k)'))
    <3>1. PICK k \in 1..n : Before(k)' \/ (k < n /\ Within(k)')
      BY <1>11
    <3>2. k \in Nat
      OBVIOUS
    <3> QED BY <1>4, <1>6, <3>1, <3>2
  <2>2. Escaping'
    BY <1>11, <2>1 DEF Escaping
  <2>3. Typed'
    BY <1>1, <1>2, <1>11 DEF Typed
  <2> QED BY <1>3, <2>2, <2>3 DEF IInv
<1>12. CASE Before(m) /\ ~(m < n)
  <2>1. m = n
    BY <1>4, <1>12
  <2>2. ~(i <= Len(filled))
    BY <1>8, <1>12, <2>1 DEF Before
  <2>3. at' = "line" /\ i' = i /\ reader' = reader
    BY <2>2 DEF Read
  <2> QED BY <1>10, <1>12, <2>3 DEF Before, Through
<1>13. ASSUME m < n
       PROVE  /\ m \in 1..Length /\ m \in 1..(n - 1) /\ m + 1 \in 1..n /\ Char(m) \in Chars
              /\ Char(m) \notin {LF, CR} /\ Offset(m + 1) <= Len(filled)
              /\ filled[Offset(m) + 1] = Escaped(m)[1]
              /\ TwoWide(m) => filled[Offset(m) + 2] = Escaped(m)[2]
  <2>1. m \in 1..Length /\ m \in 1..(n - 1) /\ m + 1 \in 1..n
    BY <1>5, <1>8, <1>13
  <2>2. m + 1 \in Nat \ {0} /\ n \in Nat \ {0} /\ m + 1 <= n
    BY <1>8, <1>13
  <2>3. Offset(m + 1) <= Len(filled)
    BY <1>8, <2>2, OffsetGrows
  <2> QED BY <1>4, <1>5, <2>1, <2>3 DEF Written
<1>14. CASE Before(m) /\ m < n
  <2>1. i = Offset(m) + 1 /\ ~reader.escape /\ TextIs(m) /\ i <= Len(filled)
    BY <1>8, <1>13, <1>14 DEF Before
  <2>2. CASE TwoWide(m)
    <3>1. filled[i] = "\\"
      BY <1>13, <1>14, <2>1, <2>2, EscapedIs
    <3>2. filled[i] # NUL
      BY <3>1 DEF NUL
    <3>3. at' = "print" /\ i' = i + 1 /\ reader' = ReadChar(reader, filled[i])
      BY <1>1, <2>1, <3>2 DEF Read
    <3>4. reader' = [reader EXCEPT !.escape = TRUE]
      BY <2>1, <3>1, <3>3 DEF ReadChar
    <3>5. /\ reader' \in [text : Seq(Chars), raw : SUBSET (Bytes \ Bad), escape : BOOLEAN]
          /\ reader'.escape /\ reader'.text = reader.text
      BY <1>9, <3>4
    <3>6. i' = Offset(m) + 2 /\ i' \in Nat
      BY <1>8, <2>1, <3>3
    <3>7. Within(m)'
      <4>1. TextIs(m)'
        BY <1>7, <2>1, <3>5 DEF TextIs
      <4> QED BY <1>7, <2>2, <3>5, <3>6, <4>1 DEF Within
    <3> QED BY <1>4, <1>11, <1>14, <3>3, <3>5, <3>6, <3>7
  <2>3. CASE ~TwoWide(m)
    <3>1. filled[i] = Char(m) /\ Char(m) \notin {TAB, "\\", "/"}
      BY <1>13, <1>14, <2>1, <2>3, EscapedIs
    <3>2. CASE Char(m) = NUL
      <4>1. at' = "line" /\ i' = i /\ reader' = reader
        BY <3>1, <3>2 DEF Read
      <4> QED BY <1>10, <2>1, <3>2, <4>1 DEF Through
    <3>3. CASE Char(m) # NUL
      <4>1. at' = "print" /\ i' = i + 1 /\ reader' = ReadChar(reader, Char(m))
        BY <1>1, <2>1, <3>1, <3>3 DEF Read
      <4>2. reader' = [reader EXCEPT !.text = Append(reader.text, Char(m)),
                                     !.raw = reader.raw \cup {Char(m)}]
        BY <2>1, <3>1, <4>1 DEF ReadChar
      <4>3. reader'.text = Append(reader.text, Char(m))
        BY <1>9, <4>2
      <4>4. reader'.text \in Seq(Chars) /\ TextIs(m + 1)'
        BY <1>1, <1>2, <1>8, <1>13, <1>14, <2>1, <3>3, <4>3, TextGrows
      <4>5. Char(m) \in Bytes \ Bad
        BY <1>13, <1>14, <3>1, <3>3 DEF Bytes, Bad
      <4>6. /\ reader' \in [text : Seq(Chars), raw : SUBSET (Bytes \ Bad), escape : BOOLEAN]
            /\ ~reader'.escape
        <5>1. reader'.raw = reader.raw \cup {Char(m)} /\ reader'.escape = reader.escape
          BY <1>9, <4>2
        <5>2. Append(reader.text, Char(m)) \in Seq(Chars)
          BY <4>3, <4>4
        <5> QED BY <1>9, <2>1, <4>2, <4>5, <5>1, <5>2
      <4>7. i' = Offset(m + 1) + 1 /\ i' \in Nat
        BY <1>8, <2>1, <2>3, <4>1
      <4>8. Before(m + 1)'
        <5> DEFINE k == m + 1
        <5>1. i' = Offset(k)' + 1 /\ ~reader'.escape /\ TextIs(k)'
          BY <1>7, <4>4, <4>6, <4>7
        <5> HIDE DEF k
        <5>2. Before(k)'
          BY <5>1 DEF Before
        <5> QED BY <5>2 DEF k
      <4> QED BY <1>11, <1>13, <1>14, <4>1, <4>6, <4>7, <4>8
    <3> QED BY <3>2, <3>3
  <2> QED BY <2>2, <2>3
<1>15. CASE m < n /\ Within(m)
  <2>1. i = Offset(m) + 2 /\ reader.escape /\ TextIs(m) /\ TwoWide(m) /\ i <= Len(filled)
    BY <1>8, <1>13, <1>15 DEF Within
  <2>2. /\ filled[i] # NUL /\ Char(m) # NUL
        /\ (IF filled[i] = "t" THEN TAB ELSE filled[i]) = Char(m)
    BY <1>13, <1>15, <2>1, EscapedIs
  <2>3. at' = "print" /\ i' = i + 1 /\ reader' = ReadChar(reader, filled[i])
    BY <1>1, <2>1, <2>2 DEF Read
  <2>4. reader' = [reader EXCEPT !.text = Append(reader.text, Char(m)), !.escape = FALSE]
    BY <2>1, <2>2, <2>3 DEF ReadChar
  <2>5. reader'.text = Append(reader.text, Char(m)) /\ reader'.raw = reader.raw /\ ~reader'.escape
    BY <1>9, <2>4
  <2>6. reader'.text \in Seq(Chars) /\ TextIs(m + 1)'
    BY <1>1, <1>2, <1>8, <1>13, <1>15, <2>1, <2>2, <2>5, TextGrows
  <2>7. reader' \in [text : Seq(Chars), raw : SUBSET (Bytes \ Bad), escape : BOOLEAN]
    <3>1. Append(reader.text, Char(m)) \in Seq(Chars)
      BY <2>5, <2>6
    <3> QED BY <1>9, <2>4, <3>1
  <2>8. i' = Offset(m + 1) + 1 /\ i' \in Nat
    BY <1>8, <2>1, <2>3
  <2>9. Before(m + 1)'
    <3> DEFINE k == m + 1
    <3>1. i' = Offset(k)' + 1 /\ ~reader'.escape /\ TextIs(k)'
      BY <1>7, <2>5, <2>6, <2>8
    <3> HIDE DEF k
    <3>2. Before(k)'
      BY <3>1 DEF Before
    <3> QED BY <3>2 DEF k
  <2> QED BY <1>11, <1>13, <1>15, <2>3, <2>7, <2>8, <2>9
<1> QED BY <1>4, <1>12, <1>14, <1>15

(* The invariant holds at the start.                                         *)
LEMMA InitHolds ==
  ASSUME Init
  PROVE  IInv
<1>1. /\ src \in Seq(Chars) /\ at = "count" /\ i = 0 /\ run = 0
      /\ name = Unnamed /\ line = Nowhere /\ width = 0 /\ filled = <<>> /\ reader = Fresh
  BY TagLineAssumption DEF Init, Fresh
<1>2. Typed
  <2>1. /\ Nowhere \in [start : Nat, end : Nat] /\ 0 <= Len(src)
        /\ Unnamed \in [kind : Nat, start : Nat, end : Nat] /\ Unnamed.start = 0
    BY <1>1 DEF Nowhere, Unnamed
  <2>2. Fresh \in [text : Seq(Chars), raw : SUBSET (Bytes \ Bad), escape : BOOLEAN]
    BY DEF Fresh
  <2> QED BY <1>1, <2>1, <2>2 DEF Typed
<1>3. Counted
  <2>1. ~Long(0)
    BY TagLineAssumption DEF Long
  <2>2. 0 <= Len(src) /\ 0 <= MAX_SRC_LINE_LEN /\ \A j \in 1..0 : FALSE
    BY <1>1, TagLineAssumption
  <2> QED BY <1>1, <2>1, <2>2 DEF Counted
<1>4. Spanned /\ Escaping
  BY <1>1 DEF Spanned, Escaping
<1> QED BY <1>2, <1>3, <1>4 DEF IInv

(* It is inductive.                                                          *)
LEMMA StepKeeps ==
  ASSUME IInv, [Next]_vars
  PROVE  IInv'
<1>1. CASE UNCHANGED vars
  <2>1. /\ src' = src /\ at' = at /\ i' = i /\ run' = run /\ name' = name /\ line' = line
        /\ width' = width /\ filled' = filled /\ reader' = reader
    BY <1>1 DEF vars
  <2>2. Typed' /\ Counted'
    BY <2>1, SameSource DEF IInv, Typed, Counted
  <2>3. Spanned'
    BY <2>1 DEF IInv, Spanned, BackLimit, FwdLimit
  <2>4. \A k : /\ (TextIs(k)' <=> TextIs(k)) /\ (Before(k)' <=> Before(k))
               /\ (Within(k)' <=> Within(k)) /\ (Through(k)' <=> Through(k))
    BY <2>1, SameLine DEF TextIs, Before, Within, Through
  <2>5. Escaping'
    BY <2>1, <2>4, SameLine DEF IInv, Escaping
  <2> QED BY <2>2, <2>3, <2>5 DEF IInv
<1>2. CASE Finished
  BY <1>1, <1>2 DEF Finished
<1> QED BY <1>1, <1>2, CountCharKeeps, MatchKeeps, RefuseKeeps, MakeLineKeeps, BackKeeps,
           ForwardKeeps, MeasureKeeps, FillKeeps, ReadKeeps DEF Next

-------------------------------------------------------------------------------
(* The theorems.                                                             *)

(* In every state the counter counts the characters since the last newline,  *)
(* the line found so far lies between the limits, both loops over it come to *)
(* the same places, and the reader is where a character starts or knows that *)
(* it is within one.                                                         *)
THEOREM Invariant == Spec => []IInv
<1>1. Init => IInv
  BY InitHolds
<1>2. IInv /\ [Next]_vars => IInv'
  BY StepKeeps
<1> QED BY <1>1, <1>2, PTL DEF Spec

(* escape_pattern never writes past what it allocated, and fills it.         *)
THEOREM FitsBufferHolds == Spec => []FitsBuffer
<1>1. IInv => FitsBuffer
  <2> SUFFICES ASSUME IInv PROVE FitsBuffer
    OBVIOUS
  <2>1. ASSUME at = "fill" PROVE Len(filled) <= width
    <3>1. PICK k \in Nat, n \in Nat : Reached(k) /\ Written(k) /\ StopsAt(n) /\ width = Offset(n)
      BY <2>1 DEF IInv, Escaping
    <3>2. Length \in Nat
      BY <2>1, LineIs DEF IInv
    <3>3. /\ k \in 1..(Length + 1) /\ \A m \in 1..(k - 1) : Char(m) \notin {LF, CR}
          /\ n \in 1..(Length + 1) /\ (n <= Length => Char(n) \in {LF, CR})
      BY <3>1 DEF StopsAt, Reached
    <3>4. k <= n
      <4> SUFFICES ASSUME n < k PROVE FALSE
        BY <3>1
      <4>1. n \in 1..(k - 1) /\ n <= Length
        BY <3>2, <3>3
      <4> QED BY <3>3, <4>1
    <3>5. k \in Nat \ {0} /\ n \in Nat \ {0}
      BY <3>2, <3>3
    <3> QED BY <3>1, <3>4, <3>5, OffsetGrows DEF Written
  <2>2. ASSUME at \in {"print", "line"} PROVE Len(filled) = width
    BY <2>2 DEF IInv, Escaping, Written
  <2> QED BY <2>1, <2>2 DEF FitsBuffer
<1> QED BY <1>1, Invariant, PTL

(* No tab, newline, NUL or bare slash gets into the pattern, and it ends     *)
(* after a whole escape.                                                     *)
THEOREM OneFieldHolds == Spec => []OneField
<1>1. IInv => OneField
  <2> SUFFICES ASSUME IInv PROVE OneField
    OBVIOUS
  <2>1. reader.raw \in SUBSET (Bytes \ Bad)
    BY DEF IInv, Typed
  <2>2. Bad \cap reader.raw = {}
    BY <2>1
  <2>3. at = "line" => ~reader.escape
    BY DEF IInv, Escaping, Through
  <2> QED BY <2>2, <2>3 DEF OneField, Bad
<1> QED BY <1>1, Invariant, PTL

(* Exactly the files with a line that is too long are skipped.               *)
THEOREM LongLinesSkippedHolds == Spec => []LongLinesSkipped
<1>1. IInv => LongLinesSkipped
  <2> SUFFICES ASSUME IInv, at # "count"
               PROVE  at = "skipped" <=>
                        \E k \in 0..Len(src) :
                          /\ k + MAX_SRC_LINE_LEN < Len(src)
                          /\ \A j \in 1..(MAX_SRC_LINE_LEN + 1) : src[k + j] # LF
    BY DEF LongLinesSkipped
  <2>1. at = "skipped" <=> Long(Len(src))
    BY DEF IInv, Counted
  <2>2. Len(src) \in Nat /\ MAX_SRC_LINE_LEN \in Nat
    BY TagLineAssumption DEF IInv, Typed
  <2> DEFINE Clear(k) == \A j \in 1..(MAX_SRC_LINE_LEN + 1) : src[k + j] # LF
  <2>3. Long(Len(src)) <=> \E k \in Nat : k + MAX_SRC_LINE_LEN < Len(src) /\ Clear(k)
    BY DEF Long
  <2> HIDE DEF Clear
  <2>4. \A k : k \in Nat /\ k + MAX_SRC_LINE_LEN < Len(src)
                <=> k \in 0..Len(src) /\ k + MAX_SRC_LINE_LEN < Len(src)
    BY <2>2
  <2>5. Long(Len(src)) <=> \E k \in 0..Len(src) : k + MAX_SRC_LINE_LEN < Len(src) /\ Clear(k)
    BY <2>3, <2>4
  <2> QED BY <2>1, <2>5 DEF Clear
<1> QED BY <1>1, Invariant, PTL

(* The ends of an interval.                                                  *)
LEMMA EndsOf ==
  ASSUME NEW a \in Nat, NEW b \in Nat, a <= b
  PROVE  Min(a..b) = a /\ Max(a..b) = b
<1>1. Min(a..b) = a
  <2>1. a \in a..b /\ \A y \in a..b : a <= y
    OBVIOUS
  <2>2. ASSUME NEW x \in a..b, \A y \in a..b : x <= y PROVE x = a
    BY <2>1, <2>2
  <2> QED BY <2>1, <2>2 DEF Min
<1>2. Max(a..b) = b
  <2>1. b \in a..b /\ \A y \in a..b : b >= y
    OBVIOUS
  <2>2. ASSUME NEW x \in a..b, \A y \in a..b : x >= y PROVE x = b
    BY <2>1, <2>2
  <2> QED BY <2>1, <2>2 DEF Max
<1> QED BY <1>1, <1>2

(* What line_range finds is what the property says of it.                    *)
LEMMA KeptIs ==
  ASSUME IInv, at = "line", NEW o, o = name.start
  PROVE  {k \in LineOf(o) : IF k <= o THEN o < k + MAX_LINE_LEN ELSE k <= o + MAX_LINE_LEN}
           = (line.start + 1)..line.end
<1> DEFINE s == line.start
           e == line.end
           M == MAX_LINE_LEN
           near(k) == IF k <= o THEN o < k + M ELSE k <= o + M
<1>1. /\ o \in Nat /\ Len(src) \in Nat /\ s \in Nat /\ e \in Nat /\ M \in Nat
      /\ BackLimit \in Nat /\ FwdLimit \in Nat /\ FwdLimit <= Len(src)
  BY TagLineAssumption, Limits DEF IInv
<1>2. /\ BackLimit <= s /\ s <= o /\ o <= e /\ e <= FwdLimit
      /\ \A k \in (s + 1)..e : src[k] # LF
      /\ s > BackLimit => src[s] = LF
      /\ e < FwdLimit => src[e + 1] = LF
  BY DEF IInv, Spanned
<1>3. /\ BackLimit = (IF o > M THEN o - M ELSE 0)
      /\ FwdLimit = (IF Len(src) - o > M THEN o + M ELSE Len(src))
  BY DEF BackLimit, FwdLimit
<1> HIDE DEF s, e, M
<1>4. \A k : k \in LineOf(o) <=> /\ k \in 1..Len(src)
                                 /\ \A j \in (IF k <= o THEN k..o ELSE (o + 1)..k) : src[j] # LF
  BY DEF LineOf
<1>5. ASSUME NEW k \in (s + 1)..e PROVE k \in LineOf(o) /\ near(k)
  <2>1. k \in 1..Len(src)
    BY <1>1, <1>2
  <2>2. near(k)
    <3>1. k \in Nat /\ s < k /\ k <= e
      BY <1>1
    <3>2. CASE k <= o
      <4>1. BackLimit < k
        BY <1>1, <1>2, <3>1
      <4>2. o < k + M
        BY <1>1, <1>3, <3>1, <4>1
      <4> QED BY <3>2, <4>2
    <3>3. CASE ~ (k <= o)
      <4>1. k <= FwdLimit
        BY <1>1, <1>2, <3>1
      <4>2. k <= o + M
        BY <1>1, <1>3, <3>1, <4>1
      <4> QED BY <3>3, <4>2
    <3> QED BY <3>2, <3>3
  <2>3. \A j \in (IF k <= o THEN k..o ELSE (o + 1)..k) : j \in (s + 1)..e
    BY <1>1, <1>2
  <2> QED BY <1>2, <1>4, <2>1, <2>2, <2>3
<1>6. ASSUME NEW k \in LineOf(o), near(k) PROVE k \in (s + 1)..e
  <2>1. k \in 1..Len(src)
    BY <1>4
  <2>2. CASE k <= o
    <3>1. \A j \in k..o : src[j] # LF
      BY <1>4, <2>2
    <3>2. o < k + M
      BY <1>6, <2>2
    <3>3. ~(k <= s)
      <4> SUFFICES ASSUME k <= s PROVE FALSE
        OBVIOUS
      <4>1. s \in k..o
        BY <1>1, <1>2, <2>1
      <4>2. ~(s > BackLimit)
        BY <1>2, <3>1, <4>1
      <4> QED BY <1>1, <1>3, <2>1, <3>2, <4>2
    <3> QED BY <1>1, <1>2, <2>1, <2>2, <3>3
  <2>3. CASE ~(k <= o)
    <3>1. \A j \in (o + 1)..k : src[j] # LF
      BY <1>4, <2>3
    <3>2. k <= o + M
      BY <1>6, <2>3
    <3>3. ~(k > e)
      <4> SUFFICES ASSUME k > e PROVE FALSE
        OBVIOUS
      <4>1. e + 1 \in (o + 1)..k
        BY <1>1, <1>2, <2>1
      <4>2. ~(e < FwdLimit)
        BY <1>2, <3>1, <4>1
      <4> QED BY <1>1, <1>2, <1>3, <2>1, <3>2, <4>2
    <3> QED BY <1>1, <1>2, <2>1, <2>3, <3>3
  <2> QED BY <2>2, <2>3
<1>7. {k \in LineOf(o) : near(k)} = (s + 1)..e
  BY <1>5, <1>6
<1> QED BY <1>7 DEF s, e, M

(* What the reader makes of the pattern is the line of the name, cut at both *)
(* limits and at a carriage return or NUL, for every source.                 *)
THEOREM ReadsBackHolds == Spec => []ReadsBack
<1>1. IInv => ReadsBack
  <2> SUFFICES ASSUME IInv, at = "line", NEW o, o = name.start
               PROVE  reader.text =
                        Shown({k \in LineOf(o) :
                                 IF k <= o THEN o < k + MAX_LINE_LEN ELSE k <= o + MAX_LINE_LEN})
    BY DEF ReadsBack
  <2> DEFINE s == line.start
             e == line.end
             t == reader.text
             K == (s + 1)..e
             L == SubSeq(src, s + 1, e)
             ends == {k \in DOMAIN L : L[k] \in {CR, NUL}}
  <2>1. SUFFICES t = Shown(K)
    BY KeptIs
  <2>2. Typed /\ Spanned /\ src \in Seq(Chars) /\ t \in Seq(Chars)
    BY DEF IInv, Typed
  <2>3. /\ Length \in Nat /\ s + Length = e /\ s <= e /\ e <= Len(src) /\ s \in Nat /\ e \in Nat
        /\ \A k \in 1..Length : Char(k) \in Chars /\ Char(k) # LF
    BY <2>2, LineIs, Limits
  <2>4. PICK m \in Nat, n \in Nat : StopsAt(n) /\ m \in 1..n /\ Through(m) /\ (m < n => Char(m) = NUL)
    BY DEF IInv, Escaping
  <2>5. /\ n \in 1..(Length + 1) /\ \A j \in 1..(n - 1) : Char(j) \notin {LF, CR}
        /\ n <= Length => Char(n) \in {LF, CR}
    BY <2>4 DEF StopsAt, Reached
  <2>6. Len(t) = m - 1 /\ \A j \in 1..(m - 1) : t[j] = Char(j) /\ Char(j) # NUL
    BY <2>4 DEF Through, TextIs
  <2>7. /\ m \in 1..(Length + 1)
        /\ \A j \in 1..(m - 1) : Char(j) \notin {CR, NUL}
        /\ m <= Length => Char(m) \in {CR, NUL}
    <3>1. m \in 1..(Length + 1) /\ \A j \in 1..(m - 1) : j \in 1..(n - 1)
      BY <2>3, <2>4, <2>5
    <3>2. ASSUME m <= Length PROVE Char(m) \in {CR, NUL}
      <4>1. CASE m < n
        BY <2>4, <4>1
      <4>2. CASE m = n
        <5>1. m \in 1..Length
          BY <3>1, <3>2, <2>3
        <5> QED BY <2>3, <2>5, <3>2, <4>2, <5>1
      <4> QED BY <2>4, <4>1, <4>2
    <3> QED BY <2>5, <2>6, <3>1, <3>2
  <2>8. CASE s = e
    <3>1. K = {} /\ Length = 0
      BY <2>3, <2>8
    <3>2. Len(t) = 0
      BY <2>6, <2>7, <3>1
    <3>3. t = <<>>
      BY <2>2, <3>2
    <3> HIDE DEF K
    <3> QED BY <3>1, <3>3 DEF Shown
  <2>9. CASE s < e
    <3>1. K # {} /\ Min(K) = s + 1 /\ Max(K) = e
      <4>1. s + 1 \in Nat /\ e \in Nat /\ s + 1 <= e /\ s + 1 \in K
        BY <2>3, <2>9
      <4>2. Min((s + 1)..e) = s + 1 /\ Max((s + 1)..e) = e
        BY <4>1, EndsOf
      <4> QED BY <4>1, <4>2
    <3>2. L \in Seq(Chars) /\ Len(L) = Length /\ \A k \in 1..Length : L[k] = Char(k)
      <4>1. \A k \in (s + 1)..e : src[k] \in Chars
        BY <2>2, <2>3
      <4>2. /\ L \in Seq(Chars) /\ Len(L) = IF s + 1 <= e THEN e - (s + 1) + 1 ELSE 0
            /\ \A k \in 1..(e - (s + 1) + 1) : L[k] = src[s + 1 + k - 1]
        <5> HIDE DEF s, e
        <5>1. s + 1 \in Int /\ e \in Int
          BY <2>3
        <5> QED BY <4>1, <5>1, SubSeqProperties
      <4>3. e - (s + 1) + 1 = Length /\ s + 1 <= e /\ \A k \in 1..Length : s + 1 + k - 1 = s + k
        BY <2>3, <2>9
      <4> HIDE DEF L
      <4>4. \A k \in 1..Length : Char(k) = src[s + k]
        BY DEF Char
      <4> HIDE DEF s, e
      <4> QED BY <4>2, <4>3, <4>4
    <3>3. Shown(K) = IF ends = {} THEN L ELSE SubSeq(L, 1, Min(ends) - 1)
      <4> HIDE DEF K
      <4> QED BY <3>1 DEF Shown, Upto
    <3> HIDE DEF s, e, K, L, t
    <3>4. DOMAIN L = 1..Length
      BY <3>2
    <3>5. \A k \in 1..Length : k \in ends <=> Char(k) \in {CR, NUL}
      BY <3>2, <3>4
    <3>6. CASE m = Length + 1
      <4>1. ends = {}
        BY <2>3, <2>7, <3>4, <3>5, <3>6
      <4>2. Len(t) = Len(L) /\ \A j \in 1..Len(t) : t[j] = L[j]
        BY <2>3, <2>6, <3>2, <3>6
      <4>3. t = L
        BY <2>2, <3>2, <4>2, SeqEqual
      <4> QED BY <3>3, <4>1, <4>3
    <3>7. CASE m \in 1..Length
      <4>1. m \in ends /\ \A k \in ends : m <= k
        <5>1. m \in ends
          BY <2>7, <3>5, <3>7
        <5>2. ASSUME NEW k \in ends PROVE m <= k
          <6>1. k \in 1..Length /\ Char(k) \in {CR, NUL}
            BY <3>4, <3>5
          <6>2. ~(k \in 1..(m - 1))
            BY <2>7, <6>1
          <6> QED BY <3>7, <6>1, <6>2
        <5> QED BY <5>1, <5>2
      <4>2. \A k \in ends : k \in Nat
        BY <3>4
      <4> HIDE DEF ends
      <4>3. Min(ends) = m
        <5>1. ASSUME NEW x \in ends, \A y \in ends : x <= y PROVE x = m
          BY <4>1, <4>2, <5>1
        <5> QED BY <4>1, <5>1 DEF Min
      <4> DEFINE u == SubSeq(L, 1, m - 1)
      <4>4. u \in Seq(Chars) /\ Len(u) = m - 1 /\ \A j \in 1..(m - 1) : u[j] = L[j]
        <5>1. m - 1 \in Int /\ \A j \in 1..(m - 1) : L[j] \in Chars
          BY <2>3, <3>2, <3>7
        <5> DEFINE b == m - 1
        <5> HIDE DEF b
        <5>2. b \in Int /\ \A j \in 1..b : L[j] \in Chars
          BY <5>1 DEF b
        <5>3. /\ SubSeq(L, 1, b) \in Seq(Chars) /\ Len(SubSeq(L, 1, b)) = IF 1 <= b THEN b - 1 + 1 ELSE 0
              /\ \A j \in 1..(b - 1 + 1) : SubSeq(L, 1, b)[j] = L[1 + j - 1]
          BY <5>2, SubSeqProperties
        <5>4. b \in Nat /\ b - 1 + 1 = b /\ \A j \in 1..b : 1 + j - 1 = j
          BY <3>7 DEF b
        <5> QED BY <5>3, <5>4 DEF b
      <4> HIDE DEF u
      <4>5. \A j \in 1..(m - 1) : j \in 1..Length
        BY <2>3, <3>7
      <4>6. Len(t) = Len(u) /\ \A j \in 1..Len(t) : t[j] = u[j]
        BY <2>6, <3>2, <4>4, <4>5
      <4>7. t = u
        BY <2>2, <4>4, <4>6, SeqEqual
      <4>8. ends # {}
        BY <4>1
      <4> QED BY <3>3, <4>3, <4>7, <4>8 DEF u
    <3>8. m = Length + 1 \/ m \in 1..Length
      BY <2>3, <2>7
    <3> QED BY <3>6, <3>7, <3>8
  <2> QED BY <2>3, <2>8, <2>9
<1> QED BY <1>1, Invariant, PTL
===============================================================================
