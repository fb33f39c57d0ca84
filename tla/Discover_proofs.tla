---------------------------- MODULE Discover_proofs ----------------------------
(* Theorems about Discover for every tree, every list of arguments and every *)
(* set of names, whatever fails and whatever comes and goes.                 *)
EXTENDS Discover, FiniteSetTheorems, SequenceTheorems, TLAPS

-------------------------------------------------------------------------------
(* Sequences of names.                                                       *)

(* A prefix, element by element.                                             *)
LEMMA PrefixIs ==
  ASSUME NEW S, NEW s \in Seq(S), NEW t \in Seq(S)
  PROVE  IsPrefix(s, t) <=> Len(s) <= Len(t) /\ \A i \in 1..Len(s) : s[i] = t[i]
<1>1. Len(s) \in Nat /\ Len(t) \in Nat
  OBVIOUS
<1>2. ASSUME Len(s) <= Len(t)
      PROVE  SubSeq(s, 1, Len(s)) = SubSeq(t, 1, Len(s)) <=> \A i \in 1..Len(s) : s[i] = t[i]
  <2>1. \A i \in 1..Len(s) : s[i] \in S /\ t[i] \in S
    BY <1>1, <1>2
  <2> DEFINE u == SubSeq(s, 1, Len(s))
             v == SubSeq(t, 1, Len(s))
  <2>2. /\ u \in Seq(S) /\ Len(u) = Len(s) /\ \A i \in 1..Len(s) : u[i] = s[i]
        /\ v \in Seq(S) /\ Len(v) = Len(s) /\ \A i \in 1..Len(s) : v[i] = t[i]
    <3>1. /\ u \in Seq(S) /\ Len(u) = IF 1 <= Len(s) THEN Len(s) - 1 + 1 ELSE 0
          /\ \A i \in 1..(Len(s) - 1 + 1) : u[i] = s[1 + i - 1]
      BY <1>1, <2>1, SubSeqProperties
    <3>2. /\ v \in Seq(S) /\ Len(v) = IF 1 <= Len(s) THEN Len(s) - 1 + 1 ELSE 0
          /\ \A i \in 1..(Len(s) - 1 + 1) : v[i] = t[1 + i - 1]
      BY <1>1, <2>1, SubSeqProperties
    <3> HIDE DEF u, v
    <3>3. \A i \in 1..Len(s) : i \in 1..(Len(s) - 1 + 1) /\ 1 + i - 1 = i
      BY <1>1
    <3> QED BY <1>1, <3>1, <3>2, <3>3
  <2> HIDE DEF u, v
  <2>3. u = v <=> \A i \in 1..Len(s) : u[i] = v[i]
    BY <2>2, SeqEqual
  <2>4. u = v <=> \A i \in 1..Len(s) : s[i] = t[i]
    BY <2>2, <2>3
  <2> QED BY <2>4 DEF u, v
<1> QED BY <1>2 DEF IsPrefix

(* Of two prefixes of one sequence one is a prefix of the other, prefixes of *)
(* prefixes are prefixes, and a prefix of the same length is the same.       *)
LEMMA PrefixOrder ==
  ASSUME NEW S, NEW s \in Seq(S), NEW t \in Seq(S), NEW u \in Seq(S)
  PROVE  /\ IsPrefix(s, s)
         /\ IsPrefix(s, u) /\ IsPrefix(t, u) => IsPrefix(s, t) \/ IsPrefix(t, s)
         /\ IsPrefix(s, t) /\ IsPrefix(t, u) => IsPrefix(s, u)
         /\ IsPrefix(s, t) /\ Len(t) <= Len(s) => s = t
<1>1. Len(s) \in Nat /\ Len(t) \in Nat /\ Len(u) \in Nat
  OBVIOUS
<1>2. IsPrefix(s, s)
  BY <1>1, PrefixIs
<1>3. ASSUME IsPrefix(s, u), IsPrefix(t, u) PROVE IsPrefix(s, t) \/ IsPrefix(t, s)
  <2>1. (\A i \in 1..Len(s) : s[i] = u[i]) /\ \A i \in 1..Len(t) : t[i] = u[i]
    BY <1>3, PrefixIs
  <2>2. Len(s) <= Len(t) => IsPrefix(s, t)
    BY <1>1, <2>1, PrefixIs
  <2>3. Len(t) <= Len(s) => IsPrefix(t, s)
    BY <1>1, <2>1, PrefixIs
  <2> QED BY <1>1, <2>2, <2>3
<1>4. ASSUME IsPrefix(s, t), IsPrefix(t, u) PROVE IsPrefix(s, u)
  <2>1. /\ Len(s) <= Len(t) /\ \A i \in 1..Len(s) : s[i] = t[i]
        /\ Len(t) <= Len(u) /\ \A i \in 1..Len(t) : t[i] = u[i]
    BY <1>4, PrefixIs
  <2>2. Len(s) <= Len(u) /\ \A i \in 1..Len(s) : s[i] = u[i]
    BY <1>1, <2>1
  <2> QED BY <2>2, PrefixIs
<1>5. ASSUME IsPrefix(s, t), Len(t) <= Len(s) PROVE s = t
  <2>1. Len(s) = Len(t) /\ \A i \in 1..Len(s) : s[i] = t[i]
    BY <1>1, <1>5, PrefixIs
  <2> QED BY <2>1, SeqEqual
<1> QED BY <1>2, <1>3, <1>4, <1>5

(* Without the last element, and with it.                                    *)
LEMMA FrontLast ==
  ASSUME NEW S, NEW s \in Seq(S), s # <<>>
  PROVE  /\ Front(s) \in Seq(S) /\ Len(Front(s)) = Len(s) - 1 /\ Len(s) \in Nat \ {0}
         /\ \A i \in 1..(Len(s) - 1) : Front(s)[i] = s[i]
         /\ Last(s) \in S /\ Last(s) = s[Len(s)]
         /\ Append(Front(s), Last(s)) = s
<1>1. Len(s) \in Nat \ {0}
  OBVIOUS
<1>2. /\ Front(s) \in Seq(S) /\ Len(Front(s)) = Len(s) - 1
      /\ \A i \in 1..(Len(s) - 1) : Front(s)[i] = s[i]
  <2> DEFINE m == Len(s) - 1
             f == SubSeq(s, 1, m)
  <2>1. m \in Nat /\ \A i \in 1..m : s[i] \in S
    BY <1>1
  <2>2. /\ f \in Seq(S) /\ Len(f) = IF 1 <= m THEN m - 1 + 1 ELSE 0
        /\ \A i \in 1..(m - 1 + 1) : f[i] = s[1 + i - 1]
    <3> HIDE DEF m
    <3> QED BY <2>1, SubSeqProperties
  <2>3. Front(s) = f
    BY DEF Front
  <2> HIDE DEF m, f
  <2>4. m - 1 + 1 = m /\ \A i \in 1..m : 1 + i - 1 = i
    BY <2>1
  <2>5. f \in Seq(S) /\ Len(f) = m /\ \A i \in 1..m : f[i] = s[i]
    BY <2>1, <2>2, <2>4
  <2> QED BY <2>3, <2>5 DEF m
<1>3. Last(s) \in S /\ Last(s) = s[Len(s)]
  BY <1>1 DEF Last
<1> DEFINE f == Front(s)
           w == Append(f, Last(s))
<1>4. /\ w \in Seq(S) /\ Len(w) = Len(f) + 1 /\ w[Len(f) + 1] = Last(s)
      /\ \A i \in 1..Len(f) : w[i] = f[i]
  BY <1>2, <1>3, AppendProperties
<1> HIDE DEF w, f
<1>5. Len(w) = Len(s) /\ \A i \in 1..Len(w) : w[i] = s[i]
  BY <1>1, <1>2, <1>3, <1>4 DEF f
<1>6. w = s
  BY <1>4, <1>5, SeqEqual
<1> QED BY <1>1, <1>2, <1>3, <1>6 DEF w, f

-------------------------------------------------------------------------------
(* Paths.                                                                    *)

EntryType == [path : Seq(Names) \ {<<>>}, node : Seq(Names)]

(* The arguments are paths.                                                  *)
LEMMA ArgsType == /\ Args \in Seq(EntryType) /\ Args # <<>> /\ Len(Args) \in Nat \ {0}
                  /\ \A i \in DOMAIN Args : Args[i] \in EntryType
<1>1. "." \in Names
  <2>1. "." \in ToSet(<<".">>)
    BY DEF ToSet
  <2>2. <<".">> \in Nodes \cup {<<".">>, Cwd}
    OBVIOUS
  <2> QED BY <2>1, <2>2 DEF Names
<1>2. Dot \in Seq(Names) \ {<<>>}
  BY <1>1 DEF Dot
<1>3. [path |-> Dot, node |-> Cwd] \in EntryType
  BY <1>2, DiscoverAssumption DEF EntryType
<1>4. Roots \in Seq(EntryType)
  BY DiscoverAssumption DEF EntryType
<1> HIDE DEF EntryType
<1>5. Args \in Seq(EntryType) /\ Args # <<>>
  <2>1. CASE Roots = <<>>
    BY <1>3, <2>1 DEF Args
  <2>2. CASE Roots # <<>>
    BY <1>4, <2>2 DEF Args
  <2> QED BY <2>1, <2>2
<1> QED BY <1>5

(* What a node has beyond another above it.                                  *)
LEMMA RestIs ==
  ASSUME NEW r \in EntryType, NEW q \in Seq(Names), IsPrefix(r.node, q)
  PROVE  /\ Rest(r, q) \in Seq(Names) /\ Len(Rest(r, q)) = Len(q) - Len(r.node)
         /\ Len(r.node) \in Nat /\ Len(q) \in Nat /\ Len(r.node) <= Len(q)
         /\ \A i \in 1..(Len(q) - Len(r.node)) : Rest(r, q)[i] = q[Len(r.node) + i]
<1> DEFINE k == Len(r.node)
           n == Len(q)
           s == SubSeq(q, k + 1, n)
<1>1. r.node \in Seq(Names)
  BY DEF EntryType
<1>2. k \in Nat /\ n \in Nat /\ k <= n
  BY <1>1, PrefixIs
<1>3. \A i \in (k + 1)..n : q[i] \in Names
  BY <1>2
<1>4. /\ s \in Seq(Names) /\ Len(s) = IF k + 1 <= n THEN n - (k + 1) + 1 ELSE 0
      /\ \A i \in 1..(n - (k + 1) + 1) : s[i] = q[k + 1 + i - 1]
  <2> HIDE DEF k, n
  <2>1. k + 1 \in Int /\ n \in Int
    BY <1>2
  <2> QED BY <1>3, <2>1, SubSeqProperties
<1> HIDE DEF s
<1>5. Rest(r, q) = s
  BY DEF Rest, s
<1> HIDE DEF k, n
<1>6. n - (k + 1) + 1 = n - k /\ \A i \in 1..(n - k) : k + 1 + i - 1 = k + i
  BY <1>2
<1>7. s \in Seq(Names) /\ Len(s) = n - k /\ \A i \in 1..(n - k) : s[i] = q[k + i]
  BY <1>2, <1>4, <1>6
<1> QED BY <1>2, <1>5, <1>7 DEF k, n

(* What of the argument is left in front of it.                              *)
Lead(r, q) == IF r.path = Dot /\ q # r.node THEN <<>> ELSE r.path

(* The parts of a path.                                                      *)
LEMMA PathIs ==
  ASSUME NEW r, NEW q
  PROVE  /\ Under(r, q).path = Spell(r, q) /\ Under(r, q).node = q
         /\ Spell(r, q) = Lead(r, q) \o Rest(r, q)
BY DEF Under, Spell, Lead

(* The spelled path, component by component.                                 *)
LEMMA SpellIs ==
  ASSUME NEW r \in EntryType, NEW q \in Seq(Names), IsPrefix(r.node, q)
  PROVE  /\ Spell(r, q) = Lead(r, q) \o Rest(r, q)
         /\ Spell(r, q) \in Seq(Names) /\ Lead(r, q) \in Seq(Names)
         /\ Len(Spell(r, q)) = Len(Lead(r, q)) + (Len(q) - Len(r.node))
         /\ \A i \in 1..Len(Lead(r, q)) : Spell(r, q)[i] = Lead(r, q)[i]
         /\ \A i \in 1..(Len(q) - Len(r.node)) : Spell(r, q)[Len(Lead(r, q)) + i] = q[Len(r.node) + i]
<1> DEFINE a == Lead(r, q)
           b == Rest(r, q)
           k == Len(r.node)
           n == Len(q)
<1>1. Spell(r, q) = a \o b
  BY DEF Spell, Lead
<1>2. a \in Seq(Names)
  BY DEF EntryType, Lead
<1>3. /\ b \in Seq(Names) /\ Len(b) = n - k /\ k \in Nat /\ n \in Nat /\ k <= n
      /\ \A i \in 1..(n - k) : b[i] = q[k + i]
  BY RestIs
<1> HIDE DEF a, b, k, n
<1>4. Len(a) \in Nat
  BY <1>2
<1>5. /\ a \o b \in Seq(Names) /\ Len(a \o b) = Len(a) + Len(b)
      /\ \A i \in 1..(Len(a) + Len(b)) : (a \o b)[i] = IF i <= Len(a) THEN a[i] ELSE b[i - Len(a)]
  BY <1>2, <1>3, ConcatProperties
<1>6. \A i \in 1..Len(a) : (a \o b)[i] = a[i]
  BY <1>3, <1>4, <1>5
<1>7. ASSUME NEW i \in 1..(n - k) PROVE (a \o b)[Len(a) + i] = q[k + i]
  <2>1. /\ Len(a) + i \in 1..(Len(a) + Len(b)) /\ ~(Len(a) + i <= Len(a)) /\ Len(a) + i - Len(a) = i
    BY <1>3, <1>4
  <2>2. (a \o b)[Len(a) + i] = b[i]
    BY <1>5, <2>1
  <2> QED BY <1>3, <2>2
<1> QED BY <1>1, <1>2, <1>3, <1>5, <1>6, <1>7 DEF a, b, k, n

(* Paths below an argument are paths.                                        *)
LEMMA UnderType ==
  ASSUME NEW r \in EntryType, NEW q \in Seq(Names), IsPrefix(r.node, q)
  PROVE  Under(r, q) \in EntryType /\ Under(r, q).node = q /\ Under(r, q).path = Spell(r, q)
<1>1. r.node \in Seq(Names) /\ r.path \in Seq(Names) /\ r.path # <<>>
  BY DEF EntryType
<1>2. /\ Spell(r, q) \in Seq(Names) /\ Lead(r, q) \in Seq(Names)
      /\ Len(Spell(r, q)) = Len(Lead(r, q)) + (Len(q) - Len(r.node))
  BY SpellIs
<1>3. Len(r.node) \in Nat /\ Len(q) \in Nat /\ Len(r.node) <= Len(q)
  BY RestIs
<1>4. Len(Spell(r, q)) # 0
  <2>1. CASE Lead(r, q) = r.path
    <3>1. Len(r.path) \in Nat \ {0}
      BY <1>1
    <3> QED BY <1>2, <1>3, <2>1, <3>1
  <2>2. CASE Lead(r, q) = <<>> /\ q # r.node
    <3>1. ~(Len(q) <= Len(r.node))
      BY <1>1, <2>2, PrefixOrder
    <3> QED BY <1>2, <1>3, <2>2, <3>1
  <2> QED BY <2>1, <2>2 DEF Lead
<1>5. Spell(r, q) # <<>>
  BY <1>2, <1>4
<1> QED BY <1>2, <1>5 DEF Under, EntryType

(* The argument itself.                                                      *)
LEMMA UnderItself ==
  ASSUME NEW r \in EntryType
  PROVE  IsPrefix(r.node, r.node) /\ Under(r, r.node) = r
<1>1. r.node \in Seq(Names) /\ r.path \in Seq(Names) /\ r = [path |-> r.path, node |-> r.node]
  BY DEF EntryType
<1>2. IsPrefix(r.node, r.node)
  BY <1>1, PrefixOrder
<1>3. Rest(r, r.node) \in Seq(Names) /\ Len(Rest(r, r.node)) = 0
  BY <1>1, <1>2, RestIs
<1>4. Rest(r, r.node) = <<>>
  BY <1>3
<1>5. Spell(r, r.node) = r.path
  BY <1>1, <1>4, ConcatEmptySeq DEF Spell
<1> QED BY <1>1, <1>2, <1>5 DEF Under

(* How an entry is spelled does not depend on the way to its directory.      *)
LEMMA ChildIsUnder ==
  ASSUME NEW r \in EntryType, NEW q \in Nodes, IsPrefix(r.node, q), NEW n \in Names, n # "."
  PROVE  /\ Append(q, n) \in Seq(Names) /\ IsPrefix(r.node, Append(q, n))
         /\ Child(Under(r, q), n) = Under(r, Append(q, n))
<1> DEFINE k == Len(r.node)
           c == Append(q, n)
<1>1. q \in Seq(Names) /\ r.node \in Seq(Names) /\ r.path \in Seq(Names) \ {<<>>}
  BY DiscoverAssumption DEF EntryType
<1>2. /\ c \in Seq(Names) /\ Len(c) = Len(q) + 1 /\ c[Len(q) + 1] = n
      /\ \A i \in 1..Len(q) : c[i] = q[i]
  BY <1>1, AppendProperties
<1> HIDE DEF c
<1>3. k \in Nat /\ Len(q) \in Nat /\ k <= Len(q)
  BY <1>1, RestIs
<1>4. IsPrefix(r.node, c)
  <2>1. \A i \in 1..k : r.node[i] = q[i] /\ i \in 1..Len(q)
    BY <1>1, <1>3, PrefixIs
  <2>2. k <= Len(c) /\ \A i \in 1..k : r.node[i] = c[i]
    BY <1>2, <1>3, <2>1
  <2> QED BY <1>1, <1>2, <2>2, PrefixIs
<1>5. c # r.node
  BY <1>2, <1>3
<1>6. /\ Rest(r, q) \in Seq(Names) /\ Len(Rest(r, q)) = Len(q) - k
      /\ \A i \in 1..(Len(q) - k) : Rest(r, q)[i] = q[k + i]
  BY <1>1, RestIs
<1>7. /\ Rest(r, c) \in Seq(Names) /\ Len(Rest(r, c)) = Len(c) - k
      /\ \A i \in 1..(Len(c) - k) : Rest(r, c)[i] = c[k + i]
  BY <1>2, <1>4, RestIs
<1> HIDE DEF k
<1>8. Rest(r, c) = Append(Rest(r, q), n)
  <2> DEFINE a == Append(Rest(r, q), n)
             b == Rest(r, c)
  <2>1. /\ a \in Seq(Names) /\ Len(a) = Len(q) - k + 1 /\ a[Len(q) - k + 1] = n
        /\ \A i \in 1..(Len(q) - k) : a[i] = Rest(r, q)[i]
    BY <1>6, AppendProperties
  <2> HIDE DEF a
  <2>2. b \in Seq(Names) /\ Len(b) = Len(a)
    BY <1>2, <1>3, <1>7, <2>1
  <2>3. ASSUME NEW i \in 1..Len(a) PROVE a[i] = b[i]
    <3>1. b[i] = c[k + i]
      BY <1>2, <1>3, <1>7, <2>1
    <3>2. CASE i = Len(q) - k + 1
      <4>1. k + i = Len(q) + 1
        BY <1>3, <3>2
      <4> QED BY <1>2, <2>1, <3>1, <3>2, <4>1
    <3>3. CASE i \in 1..(Len(q) - k)
      <4>1. k + i \in 1..Len(q)
        BY <1>3, <3>3
      <4> QED BY <1>2, <1>6, <2>1, <3>1, <3>3, <4>1
    <3> QED BY <1>3, <2>1, <3>2, <3>3
  <2>4. a = b
    BY <2>1, <2>2, <2>3, SeqEqual
  <2> QED BY <2>4 DEF a
<1>9. Under(r, c).path = Lead(r, c) \o Append(Rest(r, q), n)
  BY <1>8, PathIs
<1>10. Under(r, q).path = Lead(r, q) \o Rest(r, q)
  BY PathIs
<1>11. CASE r.path = Dot /\ q = r.node
  <2>1. Under(r, q) = r
    BY <1>11, UnderItself
  <2>2. Child(Under(r, q), n).path = <<n>>
    BY <1>11, <2>1 DEF Child
  <2>3. Lead(r, c) = <<>>
    BY <1>5, <1>11 DEF Lead
  <2>4. Len(Rest(r, q)) = 0
    BY <1>3, <1>6, <1>11 DEF k
  <2>5. Rest(r, q) = <<>>
    BY <1>6, <2>4
  <2>6. Append(Rest(r, q), n) = <<n>> /\ <<n>> \in Seq(Names)
    BY <2>5
  <2>7. Under(r, c).path = <<n>>
    BY <1>9, <2>3, <2>6, ConcatEmptySeq
  <2>8. Child(Under(r, q), n).path = Under(r, c).path
    BY <2>2, <2>7
  <2> QED BY <1>2, <1>4, <2>8 DEF Child, Under, c
<1>12. CASE ~(r.path = Dot /\ q = r.node)
  <2>1. Lead(r, c) = Lead(r, q) /\ Lead(r, q) \in Seq(Names)
    BY <1>1, <1>5, <1>12 DEF Lead
  <2>2. Under(r, q).path # Dot
    <3> SUFFICES ASSUME Under(r, q).path = Dot PROVE FALSE
      OBVIOUS
    <3>1. /\ Len(Spell(r, q)) = 1 /\ Spell(r, q)[1] = "."
      <4>1. Spell(r, q) = <<".">>
        BY PathIs DEF Dot
      <4> QED BY <4>1
    <3>2. /\ Len(Spell(r, q)) = Len(Lead(r, q)) + (Len(q) - k)
          /\ \A i \in 1..(Len(q) - k) : Spell(r, q)[Len(Lead(r, q)) + i] = q[k + i]
      BY <1>1, SpellIs DEF k
    <3>3. CASE Lead(r, q) = <<>>
      <4>0. Len(Lead(r, q)) = 0
        BY <3>3
      <4>1. 1 \in 1..(Len(q) - k) /\ Len(Lead(r, q)) = 0
        <5>1. 1 = 0 + (Len(q) - k)
          BY <3>1, <3>2, <4>0
        <5> QED BY <1>3, <4>0, <5>1
      <4>2. k + 1 \in 1..Len(q) /\ 0 + 1 = 1
        BY <1>3, <4>1
      <4>3. q[k + 1] = "."
        BY <3>1, <3>2, <4>1, <4>2
      <4>4. q[k + 1] # "."
        BY <1>1, <4>2, DiscoverAssumption
      <4> QED BY <4>3, <4>4
    <3>4. CASE Lead(r, q) # <<>>
      <4>1. Lead(r, q) = r.path
        BY <3>4 DEF Lead
      <4>2. Len(r.path) \in Nat \ {0}
        BY <1>1
      <4>3. Len(q) = k
        <5>1. 1 = Len(r.path) + (Len(q) - k)
          BY <3>1, <3>2, <4>1
        <5> QED BY <1>3, <4>2, <5>1
      <4>4. q = r.node
        BY <1>1, <1>3, <4>3, PrefixOrder DEF k
      <4>5. r.path = Dot
        BY <4>4, UnderItself
      <4> QED BY <1>12, <4>4, <4>5
    <3> QED BY <3>3, <3>4
  <2>3. Child(Under(r, q), n).path = Append(Lead(r, q) \o Rest(r, q), n)
    BY <1>10, <2>2 DEF Child
  <2>4. Append(Lead(r, q) \o Rest(r, q), n) = Lead(r, q) \o Append(Rest(r, q), n)
    <3> DEFINE a == Lead(r, q)
               b == Rest(r, q)
    <3>1. a \in Seq(Names) /\ b \in Seq(Names)
      BY <1>6, <2>1
    <3> HIDE DEF a, b
    <3>2. a \o b \in Seq(Names) /\ <<n>> \in Seq(Names)
      BY <3>1, ConcatProperties
    <3>3. Append(a \o b, n) = (a \o b) \o <<n>>
      BY <3>2, AppendIsConcat
    <3>4. Append(b, n) = b \o <<n>>
      BY <3>1, AppendIsConcat
    <3>5. (a \o b) \o <<n>> = a \o (b \o <<n>>)
      BY <3>1, <3>2, ConcatAssociative
    <3>6. Append(a \o b, n) = a \o Append(b, n)
      BY <3>3, <3>4, <3>5
    <3> QED BY <3>6 DEF a, b
  <2>5. Child(Under(r, q), n).path = Under(r, c).path
    BY <1>9, <2>1, <2>3, <2>4
  <2> QED BY <1>2, <1>4, <2>5 DEF Child, Under, c
<1> QED BY <1>11, <1>12

(* What is below an ignored component is ignored.                            *)
LEMMA IgnoredBelow ==
  ASSUME NEW r \in EntryType, NEW q \in Seq(Names), NEW p \in Seq(Names),
         IsPrefix(r.node, q), IsPrefix(q, p), IsIgnored(Under(r, q))
  PROVE  \E i \in DOMAIN Under(r, p).path : Under(r, p).path[i] \in IGNORED_FILES
<1> DEFINE k == Len(r.node)
           l == Len(Lead(r, q))
<1>1. r.node \in Seq(Names) /\ r.path \in Seq(Names)
  BY DEF EntryType
<1>2. IsPrefix(r.node, p)
  BY <1>1, PrefixOrder
<1>3. k \in Nat /\ Len(q) \in Nat /\ Len(p) \in Nat /\ k <= Len(q) /\ Len(q) <= Len(p)
  BY <1>1, RestIs, PrefixIs
<1>4. PICK i \in DOMAIN Spell(r, q) : Spell(r, q)[i] # "." /\ Spell(r, q)[i] \in IGNORED_FILES
  BY UnderType DEF IsIgnored
<1>5. /\ Spell(r, q) \in Seq(Names) /\ Lead(r, q) \in Seq(Names)
      /\ Len(Spell(r, q)) = l + (Len(q) - k)
      /\ \A j \in 1..l : Spell(r, q)[j] = Lead(r, q)[j]
      /\ \A j \in 1..(Len(q) - k) : Spell(r, q)[l + j] = q[k + j]
  BY SpellIs
<1>6. Lead(r, p) = Lead(r, q)
  <2>1. CASE q = r.node /\ r.path = Dot
    <3>1. Spell(r, q) = Dot
      BY <2>1, UnderItself DEF Under
    <3>2. Spell(r, q)[i] = "."
      BY <1>4, <3>1 DEF Dot
    <3> QED BY <1>4, <3>2
  <2>2. CASE q # r.node
    <3>1. p # r.node
      <4> SUFFICES ASSUME p = r.node PROVE FALSE
        OBVIOUS
      <4>1. Len(q) <= Len(r.node)
        BY <1>3
      <4> QED BY <1>1, <2>2, <4>1, PrefixOrder
    <3> QED BY <2>2, <3>1 DEF Lead
  <2>3. CASE r.path # Dot
    BY <2>3 DEF Lead
  <2> QED BY <2>1, <2>2, <2>3
<1>7. /\ Spell(r, p) \in Seq(Names) /\ Len(Spell(r, p)) = l + (Len(p) - k)
      /\ \A j \in 1..l : Spell(r, p)[j] = Lead(r, q)[j]
      /\ \A j \in 1..(Len(p) - k) : Spell(r, p)[l + j] = p[k + j]
  <2>1. /\ Spell(r, p) \in Seq(Names)
        /\ Len(Spell(r, p)) = Len(Lead(r, p)) + (Len(p) - Len(r.node))
        /\ \A j \in 1..Len(Lead(r, p)) : Spell(r, p)[j] = Lead(r, p)[j]
        /\ \A j \in 1..(Len(p) - Len(r.node)) : Spell(r, p)[Len(Lead(r, p)) + j] = p[Len(r.node) + j]
    BY <1>2, SpellIs
  <2> QED BY <1>6, <2>1
<1>8. \A j \in 1..Len(q) : p[j] = q[j]
  BY PrefixIs
<1>9. l \in Nat
  BY <1>5
<1> HIDE DEF k, l
<1>10. i \in DOMAIN Spell(r, p) /\ Spell(r, p)[i] = Spell(r, q)[i]
  <2>1. i \in 1..(l + (Len(q) - k)) /\ DOMAIN Spell(r, p) = 1..(l + (Len(p) - k))
    BY <1>4, <1>5, <1>7
  <2>2. CASE i <= l
    <3>1. i \in 1..l /\ i \in 1..(l + (Len(p) - k))
      BY <1>3, <1>9, <2>1, <2>2
    <3> QED BY <1>5, <1>7, <2>1, <3>1
  <2>3. CASE i > l
    <3> DEFINE j == i - l
    <3>1. j \in 1..(Len(q) - k) /\ j \in 1..(Len(p) - k) /\ l + j = i /\ k + j \in 1..Len(q)
      BY <1>3, <1>9, <2>1, <2>3
    <3> HIDE DEF j
    <3>2. Spell(r, q)[i] = q[k + j] /\ Spell(r, p)[i] = p[k + j]
      BY <1>5, <1>7, <3>1
    <3>3. i \in DOMAIN Spell(r, p)
      BY <1>3, <1>9, <2>1
    <3> QED BY <1>8, <3>1, <3>2, <3>3
  <2> QED BY <1>9, <2>1, <2>2, <2>3
<1> QED BY <1>2, <1>4, <1>10, UnderType

-------------------------------------------------------------------------------
(* The tree.                                                                 *)

(* Whatever is on the way to a node is a directory, and if it changes so     *)
(* does the node.                                                            *)
LEMMA OnTheWay ==
  ASSUME NEW s \in Seq(Names), NEW p \in Nodes, IsPrefix(s, p), s # p
  PROVE  s \in Dirs /\ Len(s) < Len(p) /\ (s \in Changing => p \in Changing)
<1>1. p \in Seq(Names)
  BY DiscoverAssumption
<1>2. Len(s) \in Nat /\ Len(p) \in Nat /\ Len(s) <= Len(p)
  BY <1>1, PrefixIs
<1>3. Len(s) \in 0..(Len(p) - 1)
  <2>1. ~(Len(p) <= Len(s))
    BY <1>1, PrefixOrder
  <2> QED BY <1>2, <2>1
<1>4. s = SubSeq(p, 1, Len(s))
  <2>1. SubSeq(s, 1, Len(s)) = SubSeq(p, 1, Len(s))
    BY DEF IsPrefix
  <2>2. SubSeq(s, 1, Len(s)) = s
    BY SubSeqFull
  <2> QED BY <2>1, <2>2
<1>5. /\ SubSeq(p, 1, Len(s)) \in Dirs
      /\ SubSeq(p, 1, Len(s)) \in Changing => p \in Changing
  BY <1>3, DiscoverAssumption
<1>6. s \in Dirs /\ (s \in Changing => p \in Changing)
  BY <1>4, <1>5
<1> QED BY <1>2, <1>3, <1>6

(* The nodes in a directory. *)
In(q) == {c \in Nodes \ {<<>>} : Front(c) = q}

(* Each is one name below it.                                                *)
LEMMA InIs ==
  ASSUME NEW q \in Nodes, NEW c \in In(q)
  PROVE  /\ c \in Nodes /\ c \in Seq(Names) /\ Len(c) = Len(q) + 1 /\ IsPrefix(q, c)
         /\ Last(c) \in Names /\ Last(c) # "." /\ c = Append(q, Last(c))
<1>1. q \in Seq(Names) /\ c \in Seq(Names) /\ c \in Nodes /\ c # <<>> /\ Front(c) = q
  BY DiscoverAssumption DEF In
<1>2. /\ Len(q) = Len(c) - 1 /\ Len(c) \in Nat \ {0}
      /\ \A i \in 1..(Len(c) - 1) : q[i] = c[i]
      /\ Last(c) \in Names /\ Last(c) = c[Len(c)] /\ Append(q, Last(c)) = c
  BY <1>1, FrontLast
<1>3. IsPrefix(q, c)
  <2>1. Len(q) <= Len(c) /\ \A i \in 1..Len(q) : q[i] = c[i]
    BY <1>2
  <2> QED BY <1>1, <2>1, PrefixIs
<1>4. Last(c) # "."
  BY <1>1, <1>2, DiscoverAssumption
<1> QED BY <1>1, <1>2, <1>3, <1>4

(* What is below a directory is at or below one of the nodes in it.          *)
LEMMA WayDown ==
  ASSUME NEW q \in Nodes, NEW p \in Nodes, IsPrefix(q, p), q # p
  PROVE  \E c \in In(q) : IsPrefix(c, p) /\ (c \in Changing => p \in Changing)
<1>1. q \in Seq(Names) /\ p \in Seq(Names)
  BY DiscoverAssumption
<1>2. Len(q) \in Nat /\ Len(p) \in Nat /\ Len(q) < Len(p) /\ \A i \in 1..Len(q) : q[i] = p[i]
  BY <1>1, OnTheWay, PrefixIs
<1> DEFINE m == Len(q) + 1
           c == SubSeq(p, 1, m)
<1>3. m \in Nat \ {0} /\ m <= Len(p) /\ \A i \in 1..m : p[i] \in Names
  BY <1>1, <1>2
<1>4. c \in Seq(Names) /\ Len(c) = m /\ \A i \in 1..m : c[i] = p[i]
  <2>1. /\ c \in Seq(Names) /\ Len(c) = IF 1 <= m THEN m - 1 + 1 ELSE 0
        /\ \A i \in 1..(m - 1 + 1) : c[i] = p[1 + i - 1]
    <3> HIDE DEF m
    <3> QED BY <1>3, SubSeqProperties
  <2> HIDE DEF c, m
  <2>2. m - 1 + 1 = m /\ \A i \in 1..m : 1 + i - 1 = i
    BY <1>3
  <2> QED BY <1>3, <2>1, <2>2
<1> HIDE DEF c
<1>5. IsPrefix(c, p)
  BY <1>1, <1>3, <1>4, PrefixIs
<1>6. c \in Nodes /\ (c \in Changing => p \in Changing)
  <2>1. c = p \/ (c \in Dirs /\ (c \in Changing => p \in Changing))
    BY <1>4, <1>5, OnTheWay
  <2> QED BY <2>1 DEF Nodes
<1>7. c # <<>>
  BY <1>3, <1>4
<1>8. Front(c) = q
  <2>1. Front(c) \in Seq(Names) /\ Len(Front(c)) = m - 1 /\ \A i \in 1..(m - 1) : Front(c)[i] = c[i]
    BY <1>4, <1>7, FrontLast
  <2>2. Len(Front(c)) = Len(q) /\ \A i \in 1..Len(q) : Front(c)[i] = q[i]
    BY <1>2, <1>4, <2>1
  <2> QED BY <1>1, <2>1, <2>2, SeqEqual
<1> QED BY <1>5, <1>6, <1>7, <1>8 DEF In

(* The entries of a directory below r.                                       *)
LEMMA EntriesAre ==
  ASSUME NEW r \in EntryType, NEW q \in Nodes, IsPrefix(r.node, q)
  PROVE  /\ Entries(Under(r, q)) = {Under(r, c) : c \in In(q)}
         /\ \A c \in In(q) : IsPrefix(r.node, c)
<1>1. ASSUME NEW c \in In(q)
      PROVE  IsPrefix(r.node, c) /\ Child(Under(r, q), Last(c)) = Under(r, c)
  <2>1. Last(c) \in Names /\ Last(c) # "." /\ c = Append(q, Last(c))
    BY InIs
  <2>2. /\ IsPrefix(r.node, Append(q, Last(c)))
        /\ Child(Under(r, q), Last(c)) = Under(r, Append(q, Last(c)))
    BY <2>1, ChildIsUnder
  <2> QED BY <2>1, <2>2
<1>2. Entries(Under(r, q)) = {Child(Under(r, q), Last(c)) : c \in In(q)}
  <2>1. Under(r, q).node = q
    BY PathIs
  <2>2. In(q) = {c \in Nodes \ {<<>>} : Front(c) = Under(r, q).node}
    BY <2>1 DEF In
  <2> QED BY <2>2 DEF Entries
<1> QED BY <1>1, <1>2

(* There are finitely many of them.                                          *)
LEMMA EntriesFinite ==
  ASSUME NEW r \in EntryType, NEW q \in Nodes, IsPrefix(r.node, q)
  PROVE  IsFiniteSet(Entries(Under(r, q)))
<1> DEFINE f == [c \in In(q) |-> Under(r, c)]
<1>1. IsFiniteSet(In(q))
  BY FS_Subset, DiscoverAssumption DEF In
<1>2. Entries(Under(r, q)) = {Under(r, c) : c \in In(q)}
  BY EntriesAre
<1>3. f \in Surjection(In(q), Entries(Under(r, q)))
  BY <1>2 DEF Surjection
<1> HIDE DEF f
<1> QED BY <1>1, <1>3, FS_Surjection

-------------------------------------------------------------------------------
(* Counting.                                                                 *)

(* One more.                                                                 *)
LEMMA OneMore ==
  ASSUME NEW n \in Nat, NEW T \in SUBSET (1..n)
  PROVE  /\ IsFiniteSet(T) /\ Cardinality(T) \in Nat
         /\ Cardinality(T \cup {n + 1}) = Cardinality(T) + 1
<1>1. IsFiniteSet(1..n)
  BY FS_Interval
<1>2. IsFiniteSet(T) /\ Cardinality(T) \in Nat
  BY <1>1, FS_Subset, FS_CardinalityType
<1>3. n + 1 \notin T
  OBVIOUS
<1> QED BY <1>2, <1>3, FS_AddElement

(* How often a path was put.                                                 *)
LEMMA FoundCounts ==
  ASSUME put \in Seq(EntryType), NEW e
  PROVE  /\ Found(e) \in Nat
         /\ \A x \in EntryType : put' = Append(put, x) =>
              Found(e)' = Found(e) + (IF e = x THEN 1 ELSE 0)
         /\ put' = put => Found(e)' = Found(e)
         /\ put = <<>> => Found(e) = 0
<1> DEFINE T == {i \in DOMAIN put : put[i] = e}
           n == Len(put)
<1>1. n \in Nat /\ DOMAIN put = 1..n /\ T \in SUBSET (1..n)
  OBVIOUS
<1>2. Found(e) = Cardinality(T)
  BY DEF Found
<1>3. Found(e) \in Nat
  BY <1>1, <1>2, OneMore
<1>4. ASSUME NEW x \in EntryType, put' = Append(put, x)
      PROVE  Found(e)' = Found(e) + (IF e = x THEN 1 ELSE 0)
  <2> DEFINE U == {i \in DOMAIN put' : put'[i] = e}
  <2>1. Found(e)' = Cardinality(U)
    BY DEF Found
  <2>2. DOMAIN put' = 1..(n + 1) /\ put'[n + 1] = x /\ \A i \in 1..n : put'[i] = put[i]
    BY <1>1, <1>4, AppendProperties
  <2>3. U = IF e = x THEN T \cup {n + 1} ELSE T
    BY <1>1, <2>2
  <2> HIDE DEF T, U, n
  <2>4. Cardinality(T \cup {n + 1}) = Cardinality(T) + 1 /\ Cardinality(T) \in Nat
    BY <1>1, OneMore
  <2> QED BY <1>2, <2>1, <2>3, <2>4
<1>5. put' = put => Found(e)' = Found(e)
  BY DEF Found
<1>6. put = <<>> => Found(e) = 0
  BY <1>2, FS_EmptySet
<1> QED BY <1>3, <1>4, <1>5, <1>6

(* How often it is due.                                                      *)
LEMMA DueCounts ==
  ASSUME NEW e, NEW n \in Nat
  PROVE  /\ Due(e, n) \in Nat /\ Due(e, 0) = 0
         /\ Due(e, n + 1) = Due(e, n) + (IF e \in Expected(Args[n + 1]) THEN 1 ELSE 0)
<1> DEFINE T == {i \in 1..n : e \in Expected(Args[i])}
           U == {i \in 1..(n + 1) : e \in Expected(Args[i])}
<1>1. Due(e, n) = Cardinality(T) /\ Due(e, n + 1) = Cardinality(U)
  BY DEF Due
<1>2. T \in SUBSET (1..n) /\ U = IF e \in Expected(Args[n + 1]) THEN T \cup {n + 1} ELSE T
  OBVIOUS
<1>3. Due(e, 0) = 0
  <2>1. {i \in 1..0 : e \in Expected(Args[i])} = {}
    OBVIOUS
  <2> QED BY <2>1, FS_EmptySet DEF Due
<1> HIDE DEF T, U
<1>4. Cardinality(T \cup {n + 1}) = Cardinality(T) + 1 /\ Cardinality(T) \in Nat
  BY <1>2, OneMore
<1> QED BY <1>1, <1>2, <1>3, <1>4

-------------------------------------------------------------------------------
(* The state.                                                                *)

Typed ==
  /\ todo \in Seq(EntryType) /\ stack \in Seq(EntryType) /\ put \in Seq(EntryType)
  /\ missed \in BOOLEAN
  /\ Len(todo) <= Len(Args) /\ \A i \in DOMAIN todo : todo[i] = Args[Walked + i]
  /\ todo = <<>> => stack = <<>>

(* What is on the stack is below the current argument and spelled so.        *)
Placed ==
  \A i \in DOMAIN stack : /\ IsPrefix(Head(todo).node, stack[i].node)
                          /\ stack[i] = Under(Head(todo), stack[i].node)

(* Nothing on the stack is below anything else on it.                        *)
Apart == \A i, j \in DOMAIN stack : IsPrefix(stack[i].node, stack[j].node) => i = j

(* The walk will still come to e. *)
Pending(e) == \E i \in DOMAIN stack : IsPrefix(stack[i].node, e.node)

(* e is due under the current argument. *)
Current(e) == todo # <<>> /\ e \in Expected(Head(todo))

(* How often the walk has passed the place where e is due.                   *)
Passed(e) == Due(e, Walked) + (IF Current(e) /\ ~Pending(e) THEN 1 ELSE 0)

NoneWrong == \A e : Found(e) <= Passed(e)
NoneMissed == ~missed => \A e : e.node \notin Changing => Found(e) >= Passed(e)

IInv == Typed /\ Placed /\ Apart /\ NoneWrong /\ NoneMissed

(* The current argument.                                                     *)
LEMMA HeadIs ==
  ASSUME Typed
  PROVE  /\ Len(todo) \in Nat /\ Walked \in Nat /\ Len(Args) = Walked + Len(todo)
         /\ todo # <<>> => /\ Head(todo) \in EntryType /\ Head(todo) = Args[Walked + 1]
                           /\ Walked + 1 \in DOMAIN Args
<1>1. Len(todo) \in Nat /\ Len(Args) \in Nat /\ Len(todo) <= Len(Args)
  BY ArgsType DEF Typed
<1>2. Walked \in Nat /\ Len(Args) = Walked + Len(todo)
  BY <1>1 DEF Walked
<1>3. ASSUME todo # <<>>
      PROVE  Head(todo) \in EntryType /\ Head(todo) = Args[Walked + 1] /\ Walked + 1 \in DOMAIN Args
  <2>1. todo \in Seq(EntryType) /\ 1 \in DOMAIN todo /\ Len(todo) > 0
    BY <1>3 DEF Typed
  <2>2. Head(todo) = todo[1] /\ todo[1] \in EntryType
    BY <1>3, <2>1
  <2>3. DOMAIN Args = 1..Len(Args)
    BY ArgsType
  <2> QED BY <1>1, <1>2, <2>1, <2>2, <2>3 DEF Typed
<1> QED BY <1>1, <1>2, <1>3

(* What is expected below an argument.                                       *)
LEMMA ExpectedIs ==
  ASSUME NEW r \in EntryType, NEW e \in Expected(r)
  PROVE  /\ e \in EntryType /\ e.node \in Seq(Names) /\ e.node \in Regular /\ e.node \in Nodes
         /\ IsPrefix(r.node, e.node) /\ e = Under(r, e.node)
         /\ Wanted(e) /\ \A i \in DOMAIN e.path : e.path[i] \notin IGNORED_FILES
<1>1. PICK q \in Regular : IsPrefix(r.node, q) /\ e = Under(r, q)
  BY DEF Expected
<1>2. q \in Nodes /\ q \in Seq(Names)
  BY DiscoverAssumption DEF Nodes
<1>3. e \in EntryType /\ e.node = q
  BY <1>1, <1>2, UnderType
<1> QED BY <1>1, <1>2, <1>3 DEF Expected

(* The other way round.                                                      *)
LEMMA IsExpected ==
  ASSUME NEW r \in EntryType, NEW q \in Regular, IsPrefix(r.node, q),
         Wanted(Under(r, q)), ~IsIgnored(Under(r, q))
  PROVE  Under(r, q) \in Expected(r)
<1>1. q \in Seq(Names)
  BY DiscoverAssumption DEF Nodes
<1>2. \A i \in DOMAIN Under(r, q).path : Under(r, q).path[i] \notin IGNORED_FILES
  BY DiscoverAssumption DEF IsIgnored
<1> QED BY <1>2 DEF Expected

(* How Passed changes while one argument is walked.                          *)
LEMMA PassedSteps ==
  ASSUME Typed, todo' = todo, NEW e
  PROVE  /\ Passed(e) \in Nat /\ Passed(e)' \in Nat
         /\ ~Current(e) => Passed(e)' = Passed(e)
         /\ (Pending(e)' <=> Pending(e)) => Passed(e)' = Passed(e)
         /\ (Pending(e)' => Pending(e)) => Passed(e)' >= Passed(e)
         /\ Current(e) /\ Pending(e) /\ ~Pending(e)' => Passed(e)' = Passed(e) + 1
<1>1. Due(e, Walked) \in Nat
  BY HeadIs, DueCounts
<1>2. Due(e, Walked)' = Due(e, Walked) /\ (Current(e)' <=> Current(e))
  BY DEF Due, Walked, Current
<1>3. Passed(e) = Due(e, Walked) + (IF Current(e) /\ ~Pending(e) THEN 1 ELSE 0)
  BY DEF Passed
<1>4. Passed(e)' = Due(e, Walked) + (IF Current(e) /\ ~Pending(e)' THEN 1 ELSE 0)
  BY <1>2 DEF Passed
<1> QED BY <1>1, <1>3, <1>4

(* The top of the stack.                                                     *)
LEMMA TopIs ==
  ASSUME Typed, Placed, stack # <<>>
  PROVE  /\ todo # <<>> /\ Head(todo) \in EntryType /\ Len(stack) \in Nat \ {0}
         /\ Top = stack[Len(stack)] /\ Len(stack) \in DOMAIN stack
         /\ Top \in EntryType /\ Top.node \in Seq(Names)
         /\ IsPrefix(Head(todo).node, Top.node) /\ Top = Under(Head(todo), Top.node)
         /\ \A i \in DOMAIN stack : stack[i].node \in Seq(Names)
<1>1. stack \in Seq(EntryType) /\ todo # <<>>
  BY DEF Typed
<1>2. Len(stack) \in Nat \ {0} /\ Top = stack[Len(stack)] /\ Len(stack) \in DOMAIN stack
  BY <1>1 DEF Top, Last
<1>3. \A i \in DOMAIN stack : stack[i] \in EntryType
  BY <1>1
<1>4. \A i \in DOMAIN stack : stack[i].node \in Seq(Names)
  BY <1>3 DEF EntryType
<1>5. Top \in EntryType /\ Top.node \in Seq(Names)
  BY <1>2, <1>3, <1>4
<1> QED BY <1>1, <1>2, <1>4, <1>5, HeadIs DEF Placed

(* Popping takes away what was at or below the top, and no more.             *)
LEMMA PopEffect ==
  ASSUME Typed, Placed, Apart, stack # <<>>, Discard, todo' = todo
  PROVE  /\ stack' \in Seq(EntryType) /\ Placed' /\ Apart'
         /\ \A e : Pending(e)' => Pending(e)
         /\ \A e : Pending(e) /\ ~Pending(e)' => IsPrefix(Top.node, e.node)
         /\ \A e : IsPrefix(Top.node, e.node) /\ e.node \in Seq(Names) => Pending(e) /\ ~Pending(e)'
<1> DEFINE n == Len(stack)
<1>1. /\ n \in Nat \ {0} /\ stack \in Seq(EntryType) /\ DOMAIN stack = 1..n /\ Top = stack[n]
  BY TopIs DEF Typed
<1>2. /\ stack' \in Seq(EntryType) /\ DOMAIN stack' = 1..(n - 1)
      /\ \A i \in 1..(n - 1) : stack'[i] = stack[i]
  BY <1>1, FrontLast DEF Discard
<1> HIDE DEF n
<1>3. \A i \in DOMAIN stack' : i \in DOMAIN stack /\ stack'[i] = stack[i] /\ i # n
  BY <1>1, <1>2
<1>4. \A i \in DOMAIN stack : i \in DOMAIN stack' \/ i = n
  BY <1>1, <1>2
<1>5. Placed'
  BY <1>3 DEF Placed
<1>6. Apart'
  BY <1>3 DEF Apart
<1>7. \A e : Pending(e)' => Pending(e)
  BY <1>3 DEF Pending
<1>8. \A e : Pending(e) /\ ~Pending(e)' => IsPrefix(Top.node, e.node)
  BY <1>1, <1>3, <1>4 DEF Pending
<1>9. ASSUME NEW e, IsPrefix(Top.node, e.node), e.node \in Seq(Names)
      PROVE  Pending(e) /\ ~Pending(e)'
  <2>1. Pending(e)
    BY <1>1, <1>9 DEF Pending
  <2>2. ASSUME NEW i \in DOMAIN stack', IsPrefix(stack'[i].node, e.node) PROVE FALSE
    <3>1. i \in DOMAIN stack /\ i # n /\ n \in DOMAIN stack /\ IsPrefix(stack[i].node, e.node)
      BY <1>1, <1>3, <2>2
    <3>2. stack[i].node \in Seq(Names) /\ stack[n].node \in Seq(Names)
      BY <3>1, TopIs
    <3>3. IsPrefix(stack[i].node, stack[n].node) \/ IsPrefix(stack[n].node, stack[i].node)
      BY <1>1, <1>9, <3>1, <3>2, PrefixOrder
    <3> QED BY <3>1, <3>3 DEF Apart
  <2> QED BY <2>1, <2>2 DEF Pending
<1> QED BY <1>2, <1>5, <1>6, <1>7, <1>8, <1>9

-------------------------------------------------------------------------------
(* The steps.                                                                *)

(* What keeps the current argument keeps what is said of it.                 *)
LEMMA SameArgument ==
  ASSUME Typed, todo' = todo, todo # <<>>,
         stack' \in Seq(EntryType), put' \in Seq(EntryType), missed' \in BOOLEAN
  PROVE  Typed'
<1>1. Walked' = Walked
  BY DEF Walked
<1> QED BY <1>1 DEF Typed

(* A path that is discarded while nothing due lies at or below it.           *)
LEMMA DropKeeps ==
  ASSUME IInv, stack # <<>>, todo' = todo, put' = put, Discard,
         missed' \in BOOLEAN, missed => missed',
         ~missed' => \A e : Current(e) /\ e.node \notin Changing => ~IsPrefix(Top.node, e.node)
  PROVE  IInv'
<1>1. Typed /\ Placed /\ Apart /\ todo # <<>>
  BY TopIs DEF IInv
<1>2. /\ stack' \in Seq(EntryType) /\ Placed' /\ Apart'
      /\ \A e : Pending(e)' => Pending(e)
      /\ \A e : Pending(e) /\ ~Pending(e)' => IsPrefix(Top.node, e.node)
  BY <1>1, PopEffect
<1>3. Typed'
  <2>1. put \in Seq(EntryType)
    BY <1>1 DEF Typed
  <2> QED BY <1>1, <1>2, <2>1, SameArgument
<1>4. \A e : Found(e)' = Found(e) /\ Found(e) \in Nat
  BY <1>1, FoundCounts DEF Typed
<1>5. ASSUME NEW e
      PROVE  /\ Passed(e) \in Nat /\ Passed(e)' \in Nat /\ Passed(e)' >= Passed(e)
             /\ ~Current(e) => Passed(e)' = Passed(e)
             /\ (Pending(e)' <=> Pending(e)) => Passed(e)' = Passed(e)
  BY <1>1, <1>2, PassedSteps
<1>6. NoneWrong'
  <2>1. ASSUME NEW e PROVE Found(e)' <= Passed(e)'
    <3>1. Found(e) <= Passed(e)
      BY DEF IInv, NoneWrong
    <3> QED BY <1>4, <1>5, <3>1
  <2> QED BY <2>1 DEF NoneWrong
<1>7. NoneMissed'
  <2>1. ASSUME ~missed', NEW e, e.node \notin Changing PROVE Found(e)' >= Passed(e)'
    <3>1. Found(e) >= Passed(e)
      BY <2>1 DEF IInv, NoneMissed
    <3>2. Current(e) => (Pending(e)' <=> Pending(e))
      BY <1>2, <2>1
    <3>3. Passed(e)' = Passed(e)
      BY <1>5, <3>2
    <3> QED BY <1>4, <3>1, <3>3
  <2> QED BY <2>1 DEF NoneMissed
<1> QED BY <1>2, <1>3, <1>6, <1>7 DEF IInv

(* Nothing due lies below an ignored path.                                   *)
LEMMA IgnoreKeeps ==
  ASSUME IInv, Ignore
  PROVE  IInv'
<1>1. stack # <<>> /\ todo' = todo /\ put' = put /\ Discard /\ missed' = missed /\ IsIgnored(Top)
  BY DEF Ignore, Visit
<1>2. Typed /\ Placed /\ missed \in BOOLEAN
  BY DEF IInv, Typed
<1>3. /\ todo # <<>> /\ Head(todo) \in EntryType /\ Top.node \in Seq(Names)
      /\ IsPrefix(Head(todo).node, Top.node) /\ Top = Under(Head(todo), Top.node)
  BY <1>1, <1>2, TopIs
<1>4. ASSUME NEW e, Current(e), IsPrefix(Top.node, e.node) PROVE FALSE
  <2>1. /\ e.node \in Seq(Names) /\ e = Under(Head(todo), e.node)
        /\ \A i \in DOMAIN e.path : e.path[i] \notin IGNORED_FILES
    BY <1>3, <1>4, ExpectedIs DEF Current
  <2>2. \E i \in DOMAIN Under(Head(todo), e.node).path :
           Under(Head(todo), e.node).path[i] \in IGNORED_FILES
    BY <1>1, <1>3, <1>4, <2>1, IgnoredBelow
  <2> QED BY <2>1, <2>2
<1> QED BY <1>1, <1>2, <1>4, DropKeeps

(* Where nothing is, or only what changes, nothing due was there all the     *)
(* time; otherwise the failure is recorded.                                  *)
LEMMA FailKeeps ==
  ASSUME IInv, Fail
  PROVE  IInv'
<1>1. /\ stack # <<>> /\ todo' = todo /\ put' = put /\ Discard
      /\ IF Top.node \in Nodes \ Changing THEN missed' = TRUE ELSE missed' = missed
  BY DEF Fail, Visit
<1>2. Typed /\ Placed /\ missed \in BOOLEAN
  BY DEF IInv, Typed
<1>3. todo # <<>> /\ Head(todo) \in EntryType /\ Top.node \in Seq(Names)
  BY <1>1, <1>2, TopIs
<1>4. ASSUME ~missed', NEW e, Current(e), e.node \notin Changing, IsPrefix(Top.node, e.node)
      PROVE  FALSE
  <2>1. Top.node \notin Nodes \/ Top.node \in Changing
    BY <1>1, <1>4
  <2>2. e.node \in Nodes
    BY <1>3, <1>4, ExpectedIs DEF Current
  <2>3. Top.node = e.node \/ (Top.node \in Dirs /\ (Top.node \in Changing => e.node \in Changing))
    BY <1>3, <1>4, <2>2, OnTheWay
  <2> QED BY <1>4, <2>1, <2>2, <2>3 DEF Nodes
<1> QED BY <1>1, <1>2, <1>4, DropKeeps

(* Nothing is below a link, unless it was something else before.             *)
LEMMA DropOtherKeeps ==
  ASSUME IInv, DropOther
  PROVE  IInv'
<1>1. /\ stack # <<>> /\ todo' = todo /\ put' = put /\ Discard /\ missed' = missed
      /\ Top.node \in Links
  BY DEF DropOther, Visit
<1>2. Typed /\ Placed /\ missed \in BOOLEAN
  BY DEF IInv, Typed
<1>3. todo # <<>> /\ Head(todo) \in EntryType /\ Top.node \in Seq(Names)
  BY <1>1, <1>2, TopIs
<1>4. ASSUME NEW e, Current(e), e.node \notin Changing, IsPrefix(Top.node, e.node) PROVE FALSE
  <2>1. e.node \in Nodes /\ e.node \in Regular /\ e.node \notin Changing
    BY <1>3, <1>4, ExpectedIs DEF Current
  <2>2. Top.node = e.node \/ (Top.node \in Dirs /\ Top.node \notin Changing)
    BY <1>3, <1>4, <2>1, OnTheWay
  <2> QED BY <1>1, <2>1, <2>2, DiscoverAssumption
<1> QED BY <1>1, <1>2, <1>4, DropKeeps

(* A file is due itself, or was dropped because it is not.                   *)
LEMMA TakeFileKeeps ==
  ASSUME IInv, TakeFile
  PROVE  IInv'
<1>1. /\ stack # <<>> /\ todo' = todo /\ Discard /\ missed' = missed /\ ~IsIgnored(Top)
      /\ put' = (IF Wanted(Top) THEN Append(put, Top) ELSE put) /\ Top.node \in Regular
  BY DEF TakeFile, Visit
<1>2. Typed /\ Placed /\ Apart /\ missed \in BOOLEAN /\ put \in Seq(EntryType)
  BY DEF IInv, Typed
<1>3. /\ todo # <<>> /\ Head(todo) \in EntryType /\ Top \in EntryType /\ Top.node \in Seq(Names)
      /\ IsPrefix(Head(todo).node, Top.node) /\ Top = Under(Head(todo), Top.node)
  BY <1>1, <1>2, TopIs
<1>4. ASSUME NEW e, Current(e), e.node \notin Changing, IsPrefix(Top.node, e.node)
      PROVE  e = Top /\ Wanted(Top)
  <2>1. e.node \in Nodes /\ e = Under(Head(todo), e.node) /\ Wanted(e)
    BY <1>3, <1>4, ExpectedIs DEF Current
  <2>2. Top.node = e.node \/ (Top.node \in Dirs /\ Top.node \notin Changing)
    BY <1>3, <1>4, <2>1, OnTheWay
  <2>3. Top.node = e.node
    BY <1>1, <2>2, DiscoverAssumption
  <2>4. e = Top
    BY <1>3, <2>1, <2>3
  <2> QED BY <2>1, <2>4
<1>5. CASE ~Wanted(Top)
  <2>1. \A e : Current(e) /\ e.node \notin Changing => ~IsPrefix(Top.node, e.node)
    BY <1>4, <1>5
  <2> QED BY <1>1, <1>2, <1>5, <2>1, DropKeeps
<1>6. CASE Wanted(Top)
  <2>1. put' = Append(put, Top)
    BY <1>1, <1>6
  <2>2. /\ stack' \in Seq(EntryType) /\ Placed' /\ Apart'
        /\ \A e : Pending(e)' => Pending(e)
        /\ \A e : Pending(e) /\ ~Pending(e)' => IsPrefix(Top.node, e.node)
        /\ \A e : IsPrefix(Top.node, e.node) /\ e.node \in Seq(Names) => Pending(e) /\ ~Pending(e)'
    BY <1>1, <1>2, PopEffect
  <2>3. put' \in Seq(EntryType)
    BY <1>2, <1>3, <2>1, AppendProperties
  <2>4. Typed'
    BY <1>1, <1>2, <1>3, <2>2, <2>3, SameArgument
  <2>5. \A e : Found(e) \in Nat /\ Found(e)' = Found(e) + (IF e = Top THEN 1 ELSE 0)
    BY <1>2, <1>3, <2>1, FoundCounts
  <2>6. ASSUME NEW e
        PROVE  /\ Passed(e) \in Nat /\ Passed(e)' \in Nat
               /\ Passed(e)' >= Passed(e) + (IF e = Top THEN 1 ELSE 0)
               /\ e.node \notin Changing => Passed(e)' = Passed(e) + (IF e = Top THEN 1 ELSE 0)
    <3>1. /\ Passed(e) \in Nat /\ Passed(e)' \in Nat
          /\ (Pending(e)' => Pending(e)) => Passed(e)' >= Passed(e)
          /\ ~Current(e) => Passed(e)' = Passed(e)
          /\ (Pending(e)' <=> Pending(e)) => Passed(e)' = Passed(e)
          /\ Current(e) /\ Pending(e) /\ ~Pending(e)' => Passed(e)' = Passed(e) + 1
      BY <1>1, <1>2, PassedSteps
    <3>2. CASE e = Top
      <4>1. Top \in Expected(Head(todo))
        BY <1>1, <1>3, <1>6, IsExpected
      <4>2. Current(e)
        BY <1>3, <3>2, <4>1 DEF Current
      <4>3. IsPrefix(Top.node, e.node)
        BY <1>3, <3>2, PrefixOrder
      <4>4. Pending(e) /\ ~Pending(e)'
        BY <1>3, <2>2, <3>2, <4>3
      <4> QED BY <3>1, <3>2, <4>2, <4>4
    <3>3. CASE e # Top
      <4>1. Current(e) /\ e.node \notin Changing => (Pending(e)' <=> Pending(e))
        BY <1>4, <2>2, <3>3
      <4>2. Passed(e)' >= Passed(e)
        BY <2>2, <3>1
      <4> QED BY <3>1, <3>3, <4>1, <4>2
    <3> QED BY <3>2, <3>3
  <2>7. NoneWrong'
    <3>1. ASSUME NEW e PROVE Found(e)' <= Passed(e)'
      <4>1. Found(e) <= Passed(e)
        BY DEF IInv, NoneWrong
      <4> QED BY <2>5, <2>6, <4>1
    <3> QED BY <3>1 DEF NoneWrong
  <2>8. NoneMissed'
    <3>1. ASSUME ~missed', NEW e, e.node \notin Changing PROVE Found(e)' >= Passed(e)'
      <4>1. Found(e) >= Passed(e)
        BY <1>1, <3>1 DEF IInv, NoneMissed
      <4> QED BY <2>5, <2>6, <3>1, <4>1
    <3> QED BY <3>1 DEF NoneMissed
  <2> QED BY <2>2, <2>4, <2>7, <2>8 DEF IInv
<1> QED BY <1>5, <1>6

(* An order of a finite set holds each of its elements once.                 *)
LEMMA OrderIs ==
  ASSUME NEW S, IsFiniteSet(S), NEW f \in SetToSeqs(S)
  PROVE  /\ f \in Seq(S)
         /\ \A i, j \in DOMAIN f : f[i] = f[j] => i = j
         /\ \A x \in S : \E i \in DOMAIN f : f[i] = x
<1> DEFINE n == Cardinality(S)
<1>1. n \in Nat
  BY FS_CardinalityType
<1>2. f \in [1..n -> S] /\ \A i, j \in 1..n : i # j => f[i] # f[j]
  BY DEF SetToSeqs
<1> HIDE DEF n
<1>3. f \in Injection(1..n, S)
  BY <1>2 DEF Injection, IsInjective
<1>4. Cardinality(1..n) = n
  BY <1>1, FS_Interval
<1>5. f \in Surjection(1..n, S)
  <2>1. Cardinality(1..n) = Cardinality(S) <=> f \in Surjection(1..n, S)
    BY <1>3, FS_Injection
  <2> QED BY <1>4, <2>1 DEF n
<1>6. \A x \in S : \E i \in 1..n : f[i] = x
  BY <1>5 DEF Surjection
<1>7. f \in Seq(S)
  BY <1>1, <1>2 DEF Seq
<1> QED BY <1>2, <1>6, <1>7

(* What is on the stack after a directory has been listed.                   *)
LEMMA ListEffect ==
  ASSUME IInv, ListDir
  PROVE  \E kept \in SUBSET Entries(Top) :
           /\ missed' \in BOOLEAN
           /\ ~missed' => ~missed /\ \A x \in Entries(Top) \ kept : x.node \in Changing
           /\ stack' \in Seq(EntryType)
           /\ \A i \in DOMAIN stack' :
                \/ i < Len(stack) /\ i \in DOMAIN stack /\ stack'[i] = stack[i]
                \/ i >= Len(stack) /\ stack'[i] \in kept
           /\ \A i, j \in DOMAIN stack' :
                i >= Len(stack) /\ j >= Len(stack) /\ stack'[i] = stack'[j] => i = j
           /\ \A i \in DOMAIN stack : i # Len(stack) => i \in DOMAIN stack' /\ stack'[i] = stack[i]
           /\ \A x \in kept : \E i \in DOMAIN stack' : stack'[i] = x
<1>1. stack # <<>> /\ Top.node \in Dirs
  BY DEF ListDir, Visit
<1>2. Typed /\ Placed /\ missed \in BOOLEAN /\ stack \in Seq(EntryType)
  BY DEF IInv, Typed
<1>3. /\ todo # <<>> /\ Head(todo) \in EntryType /\ Top = Under(Head(todo), Top.node)
      /\ IsPrefix(Head(todo).node, Top.node) /\ Top.node \in Nodes
  BY <1>1, <1>2, TopIs DEF Nodes
<1> DEFINE n == Len(stack)
<1>4. n \in Nat \ {0} /\ DOMAIN stack = 1..n
  BY <1>1, <1>2
<1>5. PICK kept \in SUBSET Entries(Top) :
        LET lost == {e \in Entries(Top) \ kept : e.node \notin Changing} IN
        /\ lost = {} \/ MayFail
        /\ \E order \in SetToSeqs(kept) : stack' = Pushed(order)
        /\ missed' = (missed \/ lost # {})
  BY DEF ListDir
<1>6. /\ missed' \in BOOLEAN
      /\ ~missed' => ~missed /\ \A x \in Entries(Top) \ kept : x.node \in Changing
  BY <1>5
<1>7. PICK order \in SetToSeqs(kept) : stack' = Front(stack) \o order
  BY <1>5 DEF Pushed
<1>8. IsFiniteSet(kept)
  <2>1. IsFiniteSet(Entries(Under(Head(todo), Top.node)))
    BY <1>3, EntriesFinite
  <2>2. IsFiniteSet(Entries(Top))
    BY <1>3, <2>1
  <2> QED BY <2>2, FS_Subset
<1>9. /\ order \in Seq(kept)
      /\ \A i, j \in DOMAIN order : order[i] = order[j] => i = j
      /\ \A x \in kept : \E i \in DOMAIN order : order[i] = x
  BY <1>8, OrderIs
<1>10. \A x \in kept : x \in EntryType
  <2> SUFFICES ASSUME NEW x \in Entries(Top) PROVE x \in EntryType
    OBVIOUS
  <2>1. /\ Entries(Under(Head(todo), Top.node)) = {Under(Head(todo), c) : c \in In(Top.node)}
        /\ \A c \in In(Top.node) : IsPrefix(Head(todo).node, c)
    BY <1>3, EntriesAre
  <2>2. PICK c \in In(Top.node) : x = Under(Head(todo), c)
    BY <1>3, <2>1
  <2>3. c \in Seq(Names)
    BY <1>3, InIs
  <2> QED BY <1>3, <2>1, <2>2, <2>3, UnderType
<1> DEFINE F == Front(stack)
           k == Len(order)
<1>11. F \in Seq(EntryType) /\ Len(F) = n - 1 /\ \A i \in 1..(n - 1) : F[i] = stack[i]
  BY <1>1, <1>2, FrontLast
<1>12. k \in Nat /\ DOMAIN order = 1..k /\ order \in Seq(EntryType) /\ \A i \in 1..k : order[i] \in kept
  <2>1. k \in Nat /\ DOMAIN order = 1..k /\ \A i \in 1..k : order[i] \in kept
    BY <1>9
  <2>2. \A i \in 1..k : order[i] \in EntryType
    BY <1>10, <2>1
  <2>3. order \in [1..k -> EntryType]
    BY <1>9, <2>1, <2>2
  <2> QED BY <2>1, <2>3 DEF Seq
<1> HIDE DEF F, k, n
<1>13. /\ stack' \in Seq(EntryType) /\ Len(stack') = (n - 1) + k
       /\ \A i \in 1..((n - 1) + k) : stack'[i] = IF i <= n - 1 THEN F[i] ELSE order[i - (n - 1)]
  BY <1>7, <1>11, <1>12, ConcatProperties DEF F
<1>14. DOMAIN stack' = 1..((n - 1) + k)
  BY <1>13
<1>15. ASSUME NEW i \in DOMAIN stack, i # n PROVE i \in DOMAIN stack' /\ stack'[i] = stack[i]
  <2>1. i \in 1..(n - 1) /\ i \in 1..((n - 1) + k) /\ i <= n - 1
    BY <1>4, <1>12, <1>15
  <2> QED BY <1>11, <1>13, <1>14, <2>1
<1>16. ASSUME NEW i \in DOMAIN stack', i < n
       PROVE  i \in DOMAIN stack /\ i # n /\ stack'[i] = stack[i]
  <2>1. i \in 1..((n - 1) + k) /\ i \in 1..(n - 1) /\ i \in 1..n /\ i <= n - 1
    BY <1>4, <1>12, <1>14, <1>16
  <2> QED BY <1>4, <1>11, <1>13, <1>16, <2>1
<1>17. ASSUME NEW i \in DOMAIN stack', i >= n
       PROVE  stack'[i] = order[i - (n - 1)] /\ i - (n - 1) \in 1..k
  <2>1. i \in 1..((n - 1) + k) /\ ~(i <= n - 1) /\ i - (n - 1) \in 1..k
    BY <1>4, <1>12, <1>14, <1>17
  <2> QED BY <1>13, <2>1
<1>18. \A i \in DOMAIN stack' : i \in Nat /\ (i < n \/ i >= n)
  BY <1>4, <1>12, <1>14
<1>19. ASSUME NEW i \in DOMAIN stack', NEW j \in DOMAIN stack',
              i >= n, j >= n, stack'[i] = stack'[j]
       PROVE  i = j
  <2>1. stack'[i] = order[i - (n - 1)] /\ i - (n - 1) \in 1..k
    BY <1>17, <1>19
  <2>2. stack'[j] = order[j - (n - 1)] /\ j - (n - 1) \in 1..k
    BY <1>17, <1>19
  <2>3. i - (n - 1) = j - (n - 1)
    BY <1>9, <1>12, <1>19, <2>1, <2>2
  <2> QED BY <1>4, <1>18, <2>3
<1>20. ASSUME NEW x \in kept PROVE \E i \in DOMAIN stack' : stack'[i] = x
  <2>1. PICK j \in 1..k : order[j] = x
    BY <1>9, <1>12
  <2> DEFINE i == (n - 1) + j
  <2>2. i \in DOMAIN stack' /\ i >= n /\ i - (n - 1) = j
    BY <1>4, <1>12, <1>14
  <2> HIDE DEF i
  <2>3. stack'[i] = order[i - (n - 1)]
    BY <1>17, <2>2
  <2> QED BY <2>1, <2>2, <2>3
<1>21. ASSUME NEW i \in DOMAIN stack'
       PROVE  \/ i < n /\ i \in DOMAIN stack /\ stack'[i] = stack[i]
              \/ i >= n /\ stack'[i] \in kept
  <2>1. CASE i < n
    BY <1>16, <2>1
  <2>2. CASE i >= n
    BY <1>12, <1>17, <2>2
  <2> QED BY <1>18, <2>1, <2>2
<1> QED BY <1>6, <1>13, <1>15, <1>19, <1>20, <1>21 DEF n

(* What was below the directory is below one of its entries, unless an       *)
(* entry was lost.                                                           *)
LEMMA ListDirKeeps ==
  ASSUME IInv, ListDir
  PROVE  IInv'
<1> DEFINE r == Head(todo)
           q == Top.node
           n == Len(stack)
<1>1. /\ stack # <<>> /\ todo' = todo /\ put' = put /\ q \in Dirs
  BY DEF ListDir, Visit
<1>2. Typed /\ Placed /\ Apart /\ put \in Seq(EntryType)
  BY DEF IInv, Typed
<1>3. /\ todo # <<>> /\ r \in EntryType /\ Top = Under(r, q) /\ IsPrefix(r.node, q)
      /\ q \in Nodes /\ q \in Seq(Names) /\ n \in DOMAIN stack /\ Top = stack[n]
      /\ \A i \in DOMAIN stack : stack[i].node \in Seq(Names)
  BY <1>1, <1>2, TopIs DEF Nodes
<1>4. PICK kept \in SUBSET Entries(Top) :
        /\ missed' \in BOOLEAN
        /\ ~missed' => ~missed /\ \A x \in Entries(Top) \ kept : x.node \in Changing
        /\ stack' \in Seq(EntryType)
        /\ \A i \in DOMAIN stack' :
             \/ i < n /\ i \in DOMAIN stack /\ stack'[i] = stack[i]
             \/ i >= n /\ stack'[i] \in kept
        /\ \A i, j \in DOMAIN stack' : i >= n /\ j >= n /\ stack'[i] = stack'[j] => i = j
        /\ \A i \in DOMAIN stack : i # n => i \in DOMAIN stack' /\ stack'[i] = stack[i]
        /\ \A x \in kept : \E i \in DOMAIN stack' : stack'[i] = x
  BY ListEffect
<1>5. /\ Entries(Top) = {Under(r, c) : c \in In(q)}
      /\ \A c \in In(q) : IsPrefix(r.node, c)
  <2>1. /\ Entries(Under(r, q)) = {Under(r, c) : c \in In(q)}
        /\ \A c \in In(q) : IsPrefix(r.node, c)
    BY <1>3, EntriesAre
  <2> QED BY <1>3, <2>1
<1>6. \A c \in In(q) : c \in Nodes /\ c \in Seq(Names) /\ Len(c) = Len(q) + 1 /\ IsPrefix(q, c)
  BY <1>3, InIs
<1>7. ASSUME NEW x \in kept
      PROVE  /\ x.node \in Nodes /\ x.node \in Seq(Names) /\ Len(x.node) = Len(q) + 1
             /\ IsPrefix(q, x.node) /\ IsPrefix(r.node, x.node) /\ x = Under(r, x.node)
  <2>1. PICK c \in In(q) : x = Under(r, c)
    BY <1>5
  <2>2. x.node = c
    BY <2>1, PathIs
  <2> QED BY <1>5, <1>6, <2>1, <2>2
<1> HIDE DEF n
<1>8. n \in Nat /\ \A i \in DOMAIN stack : i < n => i # n
  BY <1>2 DEF n, Typed
<1>9. \A i \in DOMAIN stack' :
        \/ i < n /\ i # n /\ i \in DOMAIN stack /\ stack'[i] = stack[i]
        \/ i >= n /\ stack'[i] \in kept
  BY <1>4, <1>8
<1>10. Typed'
  BY <1>1, <1>2, <1>3, <1>4, SameArgument
<1>11. Placed'
  <2>1. ASSUME NEW i \in DOMAIN stack'
        PROVE  IsPrefix(r.node, stack'[i].node) /\ stack'[i] = Under(r, stack'[i].node)
    <3>1. CASE i \in DOMAIN stack /\ stack'[i] = stack[i]
      BY <1>2, <3>1 DEF Placed
    <3>2. CASE stack'[i] \in kept
      BY <1>7, <3>2
    <3> QED BY <1>9, <3>1, <3>2
  <2> QED BY <1>1, <2>1 DEF Placed
<1>12. ASSUME NEW i \in DOMAIN stack, i # n
       PROVE  ~IsPrefix(q, stack[i].node) /\ ~IsPrefix(stack[i].node, q)
  BY <1>2, <1>3, <1>12 DEF Apart
<1>13. Apart'
  <2>1. ASSUME NEW i \in DOMAIN stack', NEW j \in DOMAIN stack',
               IsPrefix(stack'[i].node, stack'[j].node)
        PROVE  i = j
    <3>1. CASE /\ i # n /\ i \in DOMAIN stack /\ stack'[i] = stack[i]
               /\ j \in DOMAIN stack /\ stack'[j] = stack[j]
      BY <1>2, <2>1, <3>1 DEF Apart
    <3>2. CASE i # n /\ i \in DOMAIN stack /\ stack'[i] = stack[i] /\ stack'[j] \in kept
      <4>1. IsPrefix(q, stack'[j].node) /\ stack'[j].node \in Seq(Names)
        BY <1>7, <3>2
      <4>2. IsPrefix(q, stack[i].node) \/ IsPrefix(stack[i].node, q)
        BY <1>3, <2>1, <3>2, <4>1, PrefixOrder
      <4> QED BY <1>12, <3>2, <4>2
    <3>3. CASE stack'[i] \in kept /\ j # n /\ j \in DOMAIN stack /\ stack'[j] = stack[j]
      <4>1. IsPrefix(q, stack'[i].node) /\ stack'[i].node \in Seq(Names)
        BY <1>7, <3>3
      <4>2. IsPrefix(q, stack[j].node)
        BY <1>3, <2>1, <3>3, <4>1, PrefixOrder
      <4> QED BY <1>12, <3>3, <4>2
    <3>4. CASE i >= n /\ stack'[i] \in kept /\ j >= n /\ stack'[j] \in kept
      <4>1. /\ stack'[i].node \in Seq(Names) /\ Len(stack'[i].node) = Len(q) + 1
            /\ stack'[i] = Under(r, stack'[i].node)
        BY <1>7, <3>4
      <4>2. /\ stack'[j].node \in Seq(Names) /\ Len(stack'[j].node) = Len(q) + 1
            /\ stack'[j] = Under(r, stack'[j].node)
        BY <1>7, <3>4
      <4>3. Len(stack'[j].node) <= Len(stack'[i].node)
        <5>1. Len(q) + 1 \in Nat
          BY <1>3
        <5> QED BY <4>1, <4>2, <5>1
      <4>4. stack'[i].node = stack'[j].node
        BY <2>1, <4>1, <4>2, <4>3, PrefixOrder
      <4>5. stack'[i] = stack'[j]
        BY <4>1, <4>2, <4>4
      <4> QED BY <1>4, <3>4, <4>5
    <3> QED BY <1>9, <3>1, <3>2, <3>3, <3>4
  <2> QED BY <2>1 DEF Apart
<1>14. ASSUME NEW e, Current(e), Pending(e)' PROVE Pending(e)
  <2>1. e.node \in Seq(Names)
    BY <1>3, <1>14, ExpectedIs DEF Current
  <2>2. PICK i \in DOMAIN stack' : IsPrefix(stack'[i].node, e.node)
    BY <1>14 DEF Pending
  <2>3. CASE i \in DOMAIN stack /\ stack'[i] = stack[i]
    BY <2>2, <2>3 DEF Pending
  <2>4. CASE stack'[i] \in kept
    <3>1. IsPrefix(q, stack'[i].node) /\ stack'[i].node \in Seq(Names)
      BY <1>7, <2>4
    <3>2. IsPrefix(q, e.node)
      BY <1>3, <2>1, <2>2, <3>1, PrefixOrder
    <3> QED BY <1>3, <3>2 DEF Pending
  <2> QED BY <1>9, <2>3, <2>4
<1>15. ASSUME ~missed', NEW e, Current(e), e.node \notin Changing, Pending(e) PROVE Pending(e)'
  <2>1. e.node \in Nodes /\ e.node \in Regular
    BY <1>3, <1>15, ExpectedIs DEF Current
  <2>2. PICK i \in DOMAIN stack : IsPrefix(stack[i].node, e.node)
    BY <1>15 DEF Pending
  <2>3. CASE i # n
    <3>1. i \in DOMAIN stack' /\ stack'[i] = stack[i]
      BY <1>4, <2>3
    <3> QED BY <2>2, <3>1 DEF Pending
  <2>4. CASE i = n
    <3>1. IsPrefix(q, e.node) /\ q # e.node
      BY <1>1, <1>3, <1>15, <2>1, <2>2, <2>4, DiscoverAssumption
    <3>2. PICK c \in In(q) : IsPrefix(c, e.node) /\ (c \in Changing => e.node \in Changing)
      BY <1>3, <2>1, <3>1, WayDown
    <3>3. Under(r, c) \in Entries(Top) /\ Under(r, c).node = c
      BY <1>5, PathIs
    <3>4. Under(r, c) \in kept
      BY <1>4, <1>15, <3>2, <3>3
    <3>5. PICK j \in DOMAIN stack' : stack'[j] = Under(r, c)
      BY <1>4, <3>4
    <3>6. IsPrefix(stack'[j].node, e.node)
      BY <3>2, <3>3, <3>5
    <3> QED BY <3>6 DEF Pending
  <2> QED BY <2>3, <2>4
<1>16. \A e : Found(e)' = Found(e) /\ Found(e) \in Nat
  BY <1>1, <1>2, FoundCounts
<1>17. ASSUME NEW e
       PROVE  /\ Passed(e) \in Nat /\ Passed(e)' \in Nat
              /\ ~Current(e) => Passed(e)' = Passed(e)
              /\ (Pending(e)' <=> Pending(e)) => Passed(e)' = Passed(e)
              /\ (Pending(e)' => Pending(e)) => Passed(e)' >= Passed(e)
  BY <1>1, <1>2, PassedSteps
<1>18. NoneWrong'
  <2>1. ASSUME NEW e PROVE Found(e)' <= Passed(e)'
    <3>1. Found(e) <= Passed(e)
      BY DEF IInv, NoneWrong
    <3>2. Passed(e)' >= Passed(e)
      BY <1>14, <1>17
    <3> QED BY <1>16, <1>17, <3>1, <3>2
  <2> QED BY <2>1 DEF NoneWrong
<1>19. NoneMissed'
  <2>1. ASSUME ~missed', NEW e, e.node \notin Changing PROVE Found(e)' >= Passed(e)'
    <3>1. Found(e) >= Passed(e)
      BY <1>4, <2>1 DEF IInv, NoneMissed
    <3>2. Passed(e)' = Passed(e)
      BY <1>14, <1>15, <1>17, <2>1
    <3> QED BY <1>16, <3>1, <3>2
  <2> QED BY <2>1 DEF NoneMissed
<1> QED BY <1>10, <1>11, <1>13, <1>18, <1>19 DEF IInv

(* When an argument has been walked, all that was due under it is passed.    *)
LEMMA NextRootKeeps ==
  ASSUME IInv, NextRoot
  PROVE  IInv'
<1> DEFINE w == Walked
           n == Len(todo)
<1>1. stack = <<>> /\ todo # <<>> /\ todo' = Tail(todo) /\ put' = put
  BY DEF NextRoot
<1>2. Typed /\ todo \in Seq(EntryType) /\ put \in Seq(EntryType) /\ missed \in BOOLEAN
  BY DEF IInv, Typed
<1>3. /\ w \in Nat /\ n \in Nat \ {0} /\ Len(Args) = w + n
      /\ Head(todo) = Args[w + 1]
  BY <1>1, <1>2, HeadIs
<1>4. \A i \in 1..n : todo[i] = Args[w + i] /\ todo[i] \in EntryType
  BY <1>2 DEF Typed
<1>5. /\ todo' \in Seq(EntryType) /\ Len(todo') = n - 1
      /\ \A i \in 1..(n - 1) : todo'[i] = todo[i + 1]
  BY <1>1, <1>2, HeadTailProperties
<1>6. Walked' = w + 1
  <2>1. Walked' = Len(Args) - Len(todo')
    BY DEF Walked
  <2> HIDE DEF w, n
  <2> QED BY <1>3, <1>5, <2>1
<1> HIDE DEF w, n
<1>7. todo' # <<>> => /\ 2 \in 1..n /\ todo[2] \in EntryType /\ Head(todo') = todo[2]
  <2> SUFFICES ASSUME todo' # <<>> PROVE 2 \in 1..n /\ todo[2] \in EntryType /\ Head(todo') = todo[2]
    OBVIOUS
  <2>1. Len(todo') # 0 /\ Head(todo') = todo'[1]
    BY <1>5
  <2>2. 2 \in 1..n /\ 1 \in 1..(n - 1) /\ 1 + 1 = 2
    BY <1>3, <1>5, <2>1
  <2> QED BY <1>4, <1>5, <2>1, <2>2
<1>8. /\ missed' \in BOOLEAN /\ (missed => missed')
      /\ \/ stack' = <<>>
         \/ todo' # <<>> /\ stack' = <<todo[2]>>
      /\ ~missed' /\ todo' # <<>> => stack' = <<todo[2]>>
  <2>1. \/ stack' = (IF todo' = <<>> THEN <<>> ELSE <<todo[2]>>) /\ missed' = missed
        \/ todo' # <<>> /\ stack' = <<>> /\ missed' = TRUE
    BY <1>1 DEF NextRoot
  <2> QED BY <1>2, <2>1
<1>9. Typed'
  <2>1. stack' \in Seq(EntryType) /\ (todo' = <<>> => stack' = <<>>)
    <3>1. <<>> \in Seq(EntryType) /\ \A x \in EntryType : <<x>> \in Seq(EntryType)
      OBVIOUS
    <3>2. CASE stack' = <<>>
      BY <3>1, <3>2
    <3>3. CASE todo' # <<>> /\ stack' = <<todo[2]>>
      BY <1>7, <3>1, <3>3
    <3> QED BY <1>8, <3>2, <3>3
  <2>2. Len(todo') <= Len(Args)
    BY <1>3, <1>5
  <2>3. ASSUME NEW i \in DOMAIN todo' PROVE todo'[i] = Args[w + 1 + i]
    <3>1. i \in 1..(n - 1)
      BY <1>5
    <3>2. i + 1 \in 1..n /\ w + (i + 1) = w + 1 + i
      BY <1>3, <3>1
    <3> QED BY <1>4, <1>5, <3>1, <3>2
  <2> QED BY <1>1, <1>2, <1>5, <1>6, <1>8, <2>1, <2>2, <2>3 DEF Typed
<1>10. Placed'
  <2>1. CASE stack' = <<>>
    BY <2>1 DEF Placed
  <2>2. CASE todo' # <<>> /\ stack' = <<todo[2]>>
    <3>1. IsPrefix(todo[2].node, todo[2].node) /\ Under(todo[2], todo[2].node) = todo[2]
      BY <1>7, <2>2, UnderItself
    <3>2. \A i \in DOMAIN stack' : stack'[i] = todo[2]
      BY <2>2
    <3> QED BY <1>7, <2>2, <3>1, <3>2 DEF Placed
  <2> QED BY <1>8, <2>1, <2>2
<1>11. Apart'
  BY <1>8 DEF Apart
<1>12. \A e : Found(e)' = Found(e) /\ Found(e) \in Nat
  BY <1>1, <1>2, FoundCounts
<1>13. ASSUME NEW e
       PROVE  /\ Passed(e) = Due(e, w + 1) /\ Due(e, w + 1) \in Nat
              /\ Passed(e)' = Due(e, w + 1) + (IF Current(e)' /\ ~Pending(e)' THEN 1 ELSE 0)
  <2>1. Due(e, w) \in Nat /\ Due(e, w + 1) = Due(e, w) + (IF e \in Expected(Args[w + 1]) THEN 1 ELSE 0)
    BY <1>3, DueCounts
  <2>2. Current(e) <=> e \in Expected(Args[w + 1])
    BY <1>1, <1>3 DEF Current
  <2>3. ~Pending(e)
    BY <1>1 DEF Pending
  <2>4. Passed(e) = Due(e, w) + (IF Current(e) /\ ~Pending(e) THEN 1 ELSE 0)
    BY DEF Passed, w
  <2>5. Passed(e)' = Due(e, w + 1) + (IF Current(e)' /\ ~Pending(e)' THEN 1 ELSE 0)
    BY <1>6 DEF Passed, Due
  <2> QED BY <2>1, <2>2, <2>3, <2>4, <2>5
<1>14. NoneWrong'
  <2>1. ASSUME NEW e PROVE Found(e)' <= Passed(e)'
    <3>1. Found(e) <= Passed(e)
      BY DEF IInv, NoneWrong
    <3> QED BY <1>12, <1>13, <3>1
  <2> QED BY <2>1 DEF NoneWrong
<1>15. ASSUME ~missed', NEW e, Current(e)' PROVE Pending(e)'
  <2>1. todo' # <<>> /\ e \in Expected(Head(todo'))
    BY <1>15 DEF Current
  <2>2. stack' = <<todo[2]>> /\ todo[2] \in EntryType /\ e \in Expected(todo[2])
    BY <1>7, <1>8, <1>15, <2>1
  <2>3. IsPrefix(todo[2].node, e.node)
    BY <2>2, ExpectedIs
  <2>4. 1 \in DOMAIN stack' /\ stack'[1] = todo[2]
    BY <2>2
  <2> QED BY <2>3, <2>4 DEF Pending
<1>16. NoneMissed'
  <2>1. ASSUME ~missed', NEW e, e.node \notin Changing PROVE Found(e)' >= Passed(e)'
    <3>1. Found(e) >= Passed(e)
      BY <1>8, <2>1 DEF IInv, NoneMissed
    <3>2. Passed(e)' = Passed(e)
      BY <1>13, <1>15, <2>1
    <3> QED BY <1>12, <3>1, <3>2
  <2> QED BY <2>1 DEF NoneMissed
<1> QED BY <1>9, <1>10, <1>11, <1>14, <1>16 DEF IInv

(* The invariant holds at the start.                                         *)
LEMMA InitHolds ==
  ASSUME Init
  PROVE  IInv
<1> DEFINE r == Head(todo)
<1>1. /\ todo = Args /\ put = <<>> /\ missed \in BOOLEAN
      /\ stack = <<>> \/ stack = <<r>>
      /\ ~missed => stack = <<r>>
  BY DEF Init
<1>2. todo # <<>> /\ todo \in Seq(EntryType) /\ Len(todo) \in Nat /\ r \in EntryType
  BY <1>1, ArgsType
<1> HIDE DEF r
<1>3. Walked = 0 /\ Len(todo) <= Len(Args)
  BY <1>1, <1>2 DEF Walked
<1>4. Typed
  <2>1. stack \in Seq(EntryType) /\ put \in Seq(EntryType)
    <3>1. <<>> \in Seq(EntryType) /\ <<r>> \in Seq(EntryType)
      BY <1>2
    <3> QED BY <1>1, <3>1
  <2>2. \A i \in DOMAIN todo : 0 + i = i
    BY <1>2
  <2> QED BY <1>1, <1>2, <1>3, <2>1, <2>2 DEF Typed
<1>5. Placed
  <2>1. IsPrefix(r.node, r.node) /\ Under(r, r.node) = r
    BY <1>2, UnderItself
  <2>2. \A i \in DOMAIN stack : stack[i] = r
    BY <1>1
  <2> QED BY <2>1, <2>2 DEF Placed, r
<1>6. Apart
  BY <1>1 DEF Apart
<1>7. ASSUME NEW e
      PROVE  Found(e) = 0 /\ Passed(e) = IF Current(e) /\ ~Pending(e) THEN 1 ELSE 0
  <2>1. Found(e) = 0
    BY <1>1, <1>4, FoundCounts DEF Typed
  <2>2. Due(e, Walked) = 0
    BY <1>3, DueCounts
  <2> QED BY <2>1, <2>2 DEF Passed
<1>8. NoneWrong
  BY <1>7 DEF NoneWrong
<1>9. ASSUME ~missed, NEW e, Current(e) PROVE Pending(e)
  <2>1. IsPrefix(r.node, e.node)
    BY <1>2, <1>9, ExpectedIs DEF Current, r
  <2>2. 1 \in DOMAIN stack /\ stack[1] = r
    BY <1>1, <1>9
  <2> QED BY <2>1, <2>2 DEF Pending
<1>10. NoneMissed
  BY <1>7, <1>9 DEF NoneMissed
<1> QED BY <1>4, <1>5, <1>6, <1>8, <1>10 DEF IInv

(* It is inductive.                                                          *)
LEMMA StepKeeps ==
  ASSUME IInv, [Next]_vars
  PROVE  IInv'
<1>1. CASE UNCHANGED vars
  <2>1. todo' = todo /\ stack' = stack /\ put' = put /\ missed' = missed
    BY <1>1 DEF vars
  <2>2. Typed' /\ Placed' /\ Apart'
    BY <2>1 DEF IInv, Typed, Placed, Apart, Walked
  <2>3. \A e : Found(e)' = Found(e) /\ Passed(e)' = Passed(e)
    BY <2>1 DEF Found, Passed, Due, Walked, Current, Pending
  <2>4. NoneWrong' /\ NoneMissed'
    BY <2>1, <2>3 DEF IInv, NoneWrong, NoneMissed
  <2> QED BY <2>2, <2>4 DEF IInv
<1>2. CASE Finished
  BY <1>1, <1>2 DEF Finished
<1> QED BY <1>1, <1>2, NextRootKeeps, IgnoreKeeps, FailKeeps, ListDirKeeps, TakeFileKeeps,
           DropOtherKeeps DEF Next

-------------------------------------------------------------------------------
(* The theorems.                                                             *)

(* In every state of every walk what is on the stack is below the current    *)
(* argument, nothing on it is below anything else on it, and how often each  *)
(* path was put agrees with how often the walk has passed where it is due.   *)
THEOREM Invariant == Spec => []IInv
<1>1. Init => IInv
  BY InitHolds
<1>2. IInv /\ [Next]_vars => IInv'
  BY StepKeeps
<1> QED BY <1>1, <1>2, PTL DEF Spec

(* Each path that enqueue_path hands to the queue is due under an argument   *)
(* already begun, and was handed over at most once for each such argument.   *)
THEOREM PutRightHolds == Spec => []PutRight
<1>1. IInv => PutRight
  <2> SUFFICES ASSUME IInv, NEW e PROVE Found(e) <= Due(e, Begun)
    BY DEF PutRight
  <2>1. Typed /\ Found(e) \in Nat /\ Found(e) <= Passed(e)
    BY FoundCounts DEF IInv, Typed, NoneWrong
  <2>2. Walked \in Nat /\ (todo # <<>> => Head(todo) = Args[Walked + 1])
    BY <2>1, HeadIs
  <2>3. /\ Due(e, Walked) \in Nat
        /\ Due(e, Walked + 1) = Due(e, Walked) + (IF e \in Expected(Args[Walked + 1]) THEN 1 ELSE 0)
    BY <2>2, DueCounts
  <2>4. Passed(e) <= Due(e, Begun)
    <3>1. CASE todo = <<>>
      BY <2>3, <3>1 DEF Passed, Current, Begun
    <3>2. CASE todo # <<>>
      <4>1. Current(e) <=> e \in Expected(Args[Walked + 1])
        BY <2>2, <3>2 DEF Current
      <4> QED BY <2>3, <3>2, <4>1 DEF Passed, Begun
    <3> QED BY <3>1, <3>2
  <2>5. Passed(e) \in Nat /\ Due(e, Begun) \in Nat
    BY <2>3 DEF Passed, Begun
  <2> QED BY <2>1, <2>4, <2>5
<1> QED BY <1>1, Invariant, PTL

(* When the walk has ended and nothing failed, every file that was there all *)
(* the time has been handed over as often as it is due: none is missed, in   *)
(* whatever order the directories are listed and whatever else changes.      *)
THEOREM PutCompleteHolds == Spec => []PutComplete
<1>1. IInv => PutComplete
  <2> SUFFICES ASSUME IInv, todo = <<>>, ~missed, NEW e, e.node \notin Changing
               PROVE  Found(e) = Due(e, Len(Args))
    BY DEF PutComplete
  <2>1. Typed /\ Found(e) \in Nat /\ Found(e) <= Passed(e) /\ Found(e) >= Passed(e)
    BY FoundCounts DEF IInv, Typed, NoneWrong, NoneMissed
  <2>2. Walked \in Nat /\ Len(Args) = Walked
    BY <2>1, HeadIs
  <2>3. Due(e, Walked) \in Nat
    BY <2>2, DueCounts
  <2>4. Passed(e) = Due(e, Len(Args)) /\ Passed(e) \in Nat
    BY <2>2, <2>3 DEF Passed, Current
  <2> QED BY <2>1, <2>4
<1> QED BY <1>1, Invariant, PTL
===============================================================================
