------------------------- MODULE SignatureScanProofs -------------------------
(***************************************************************************)
(* Proofs about the scanning engine, for all databases and all texts.       *)
(* What the recursive functions of the construction compute is proved by    *)
(* looking at a shortest word, or a smallest index, where they differ from  *)
(* what is claimed.                                                         *)
(***************************************************************************)
EXTENDS SignatureScan, SequenceTheorems, WellFoundedInduction, TLAPS

-----------------------------------------------------------------------------
(* Least elements and suffixes                                              *)

\* A nonempty set of naturals has a least element.
LEMMA LeastNatural ==
  ASSUME NEW T, T \subseteq Nat, T # {}
  PROVE  \E n \in T : \A m \in T : n <= m
<1>1. PICK n \in T : \A m \in T : ~(<<m, n>> \in OpToRel(<, Nat))
  BY NatLessThanWellFounded, WFMin
<1>2. \A m \in T : ~(m < n)
  BY <1>1 DEF OpToRel
<1> QED
  BY <1>2

\* A suffix agrees with the end of the sequence, element by element.
LEMMA SuffixElements ==
  ASSUME NEW s \in Seq(Byte), NEW t \in Seq(Byte)
  PROVE  IsSuffix(s, t) <=> /\ Len(s) <= Len(t)
                            /\ \A i \in 1..Len(s) : s[i] = t[Len(t) - Len(s) + i]
<1> SUFFICES ASSUME Len(s) <= Len(t)
             PROVE  s = SubSeq(t, Len(t) - Len(s) + 1, Len(t))
                      <=> \A i \in 1..Len(s) : s[i] = t[Len(t) - Len(s) + i]
  BY DEF IsSuffix
<1> DEFINE u == SubSeq(t, Len(t) - Len(s) + 1, Len(t))
<1>1. \A i \in Len(t) - Len(s) + 1..Len(t) : t[i] \in Byte
  BY ElementOfSeq, LenProperties
<1>2. /\ u \in Seq(Byte)
      /\ Len(u) = Len(s)
      /\ \A i \in 1..Len(s) : u[i] = t[Len(t) - Len(s) + i]
  BY <1>1, SubSeqProperties, LenProperties
<1> HIDE DEF u
<1>3. (\A i \in 1..Len(s) : s[i] = u[i]) => s = u
  BY <1>2, SeqEqual
<1> QED
  BY <1>2, <1>3 DEF u

\* The empty word and the word itself are suffixes.
LEMMA SuffixEnds ==
  ASSUME NEW t \in Seq(Byte)
  PROVE  IsSuffix(<<>>, t) /\ IsSuffix(t, t)
<1>1. /\ <<>> \in Seq(Byte)
      /\ Len(<<>>) = 0
      /\ Len(t) \in Nat
  BY EmptySeq, LenProperties
<1>2. IsSuffix(<<>>, t)
  <2>1. ASSUME NEW e \in Seq(Byte), Len(e) = 0  PROVE  IsSuffix(e, t)
    <3>1. 1..Len(e) = {} /\ Len(e) <= Len(t)
      BY <1>1, <2>1
    <3> QED
      BY <3>1, SuffixElements
  <2> QED
    BY <1>1, <2>1
<1>3. IsSuffix(t, t)
  <2>1. \A i \in 1..Len(t) : t[i] = t[Len(t) - Len(t) + i]
    BY <1>1
  <2> QED
    BY <1>1, <2>1, SuffixElements
<1> QED
  BY <1>2, <1>3

\* Suffixes of suffixes are suffixes.
LEMMA SuffixTransitive ==
  ASSUME NEW r \in Seq(Byte), NEW s \in Seq(Byte), NEW t \in Seq(Byte),
         IsSuffix(r, s), IsSuffix(s, t)
  PROVE  IsSuffix(r, t)
<1>1. Len(r) \in Nat /\ Len(s) \in Nat /\ Len(t) \in Nat
  BY LenProperties
<1>2. /\ Len(r) <= Len(s)
      /\ \A i \in 1..Len(r) : r[i] = s[Len(s) - Len(r) + i]
  BY SuffixElements
<1>3. /\ Len(s) <= Len(t)
      /\ \A i \in 1..Len(s) : s[i] = t[Len(t) - Len(s) + i]
  BY SuffixElements
<1>4. ASSUME NEW i \in 1..Len(r)
      PROVE  r[i] = t[Len(t) - Len(r) + i]
  <2>1. Len(s) - Len(r) + i \in 1..Len(s)
    BY <1>1, <1>2
  <2>2. s[Len(s) - Len(r) + i] = t[Len(t) - Len(s) + (Len(s) - Len(r) + i)]
    BY <1>3, <2>1
  <2>3. Len(t) - Len(s) + (Len(s) - Len(r) + i) = Len(t) - Len(r) + i
    BY <1>1
  <2> QED
    BY <1>2, <2>2, <2>3
<1> QED
  BY <1>1, <1>2, <1>3, <1>4, SuffixElements

\* Of two suffixes of one sequence the shorter one is a suffix of the longer.
LEMMA SuffixNested ==
  ASSUME NEW r \in Seq(Byte), NEW s \in Seq(Byte), NEW t \in Seq(Byte),
         IsSuffix(r, t), IsSuffix(s, t), Len(r) <= Len(s)
  PROVE  IsSuffix(r, s)
<1>1. Len(r) \in Nat /\ Len(s) \in Nat /\ Len(t) \in Nat
  BY LenProperties
<1>2. /\ Len(r) <= Len(t)
      /\ \A i \in 1..Len(r) : r[i] = t[Len(t) - Len(r) + i]
  BY SuffixElements
<1>3. /\ Len(s) <= Len(t)
      /\ \A i \in 1..Len(s) : s[i] = t[Len(t) - Len(s) + i]
  BY SuffixElements
<1>4. ASSUME NEW i \in 1..Len(r)
      PROVE  r[i] = s[Len(s) - Len(r) + i]
  <2>1. Len(s) - Len(r) + i \in 1..Len(s)
    BY <1>1
  <2>2. s[Len(s) - Len(r) + i] = t[Len(t) - Len(s) + (Len(s) - Len(r) + i)]
    BY <1>3, <2>1
  <2>3. Len(t) - Len(s) + (Len(s) - Len(r) + i) = Len(t) - Len(r) + i
    BY <1>1
  <2> QED
    BY <1>2, <2>2, <2>3
<1> QED
  BY <1>1, <1>4, SuffixElements

\* Suffixes of the same length are the same.
LEMMA SuffixUnique ==
  ASSUME NEW r, NEW s, NEW t, IsSuffix(r, t), IsSuffix(s, t), Len(r) = Len(s)
  PROVE  r = s
BY DEF IsSuffix

\* A suffix of the whole length is the whole.
LEMMA SuffixWhole ==
  ASSUME NEW s \in Seq(Byte), NEW t \in Seq(Byte), IsSuffix(s, t), Len(t) <= Len(s)
  PROVE  s = t
<1>1. Len(s) = Len(t)
  BY LenProperties DEF IsSuffix
<1> QED
  BY <1>1, SuffixEnds, SuffixUnique

\* A prefix one shorter, and what is left of it.
LEMMA PrefixOfWord ==
  ASSUME NEW w \in Seq(Byte), NEW n \in 0..Len(w)
  PROVE  /\ Prefix(w, n) \in Seq(Byte)
         /\ Len(Prefix(w, n)) = n
         /\ \A i \in 1..n : Prefix(w, n)[i] = w[i]
<1>1. \A i \in 1..n : w[i] \in Byte
  BY ElementOfSeq, LenProperties
<1>2. Len(w) \in Nat
  BY LenProperties
<1> QED
  BY <1>1, <1>2, SubSeqProperties DEF Prefix

\* A word is its prefix one shorter and its last byte.
LEMMA FrontAndLast ==
  ASSUME NEW w \in Seq(Byte), w # <<>>
  PROVE  /\ Len(w) \in Nat \ {0}
         /\ Prefix(w, Len(w) - 1) \in Seq(Byte)
         /\ Len(Prefix(w, Len(w) - 1)) = Len(w) - 1
         /\ w[Len(w)] \in Byte
         /\ w = Append(Prefix(w, Len(w) - 1), w[Len(w)])
<1>1. Len(w) \in Nat \ {0}
  BY EmptySeq
<1> DEFINE v == Prefix(w, Len(w) - 1)
           b == w[Len(w)]
<1>2. /\ v \in Seq(Byte)
      /\ Len(v) = Len(w) - 1
      /\ \A i \in 1..Len(w) - 1 : v[i] = w[i]
  BY <1>1, PrefixOfWord
<1>3. b \in Byte
  BY <1>1, ElementOfSeq
<1> HIDE DEF v, b
<1>4. /\ Append(v, b) \in Seq(Byte)
      /\ Len(Append(v, b)) = Len(w)
      /\ \A i \in 1..Len(w) - 1 : Append(v, b)[i] = w[i]
      /\ Append(v, b)[Len(w)] = b
  BY <1>1, <1>2, <1>3, AppendProperties
<1>5. \A i \in 1..Len(w) : Append(v, b)[i] = w[i]
  BY <1>1, <1>4 DEF b
<1>6. w = Append(v, b)
  BY <1>4, <1>5, SeqEqual
<1> QED
  BY <1>1, <1>2, <1>3, <1>6 DEF v, b

\* The same byte may be added to or taken from both ends.
LEMMA SuffixAppend ==
  ASSUME NEW v \in Seq(Byte), NEW w \in Seq(Byte), NEW b \in Byte, NEW c \in Byte
  PROVE  IsSuffix(Append(v, c), Append(w, b)) <=> IsSuffix(v, w) /\ b = c
<1>1. Len(v) \in Nat /\ Len(w) \in Nat
  BY LenProperties
<1> DEFINE vc == Append(v, c)
           wb == Append(w, b)
<1>2. /\ vc \in Seq(Byte)
      /\ Len(vc) = Len(v) + 1
      /\ \A i \in 1..Len(v) : vc[i] = v[i]
      /\ vc[Len(v) + 1] = c
  BY AppendProperties
<1>3. /\ wb \in Seq(Byte)
      /\ Len(wb) = Len(w) + 1
      /\ \A i \in 1..Len(w) : wb[i] = w[i]
      /\ wb[Len(w) + 1] = b
  BY AppendProperties
<1> HIDE DEF vc, wb
<1>4. IsSuffix(vc, wb) <=> /\ Len(vc) <= Len(wb)
                           /\ \A i \in 1..Len(vc) : vc[i] = wb[Len(wb) - Len(vc) + i]
  BY <1>2, <1>3, SuffixElements
<1>5. IsSuffix(v, w) <=> /\ Len(v) <= Len(w)
                         /\ \A i \in 1..Len(v) : v[i] = w[Len(w) - Len(v) + i]
  BY SuffixElements
<1>6. CASE Len(v) <= Len(w)
  <2>1. \A i \in 1..Len(v) : /\ vc[i] = v[i]
                             /\ wb[Len(wb) - Len(vc) + i] = w[Len(w) - Len(v) + i]
    <3> TAKE i \in 1..Len(v)
    <3>1. /\ Len(wb) - Len(vc) + i = Len(w) - Len(v) + i
          /\ Len(w) - Len(v) + i \in 1..Len(w)
      BY <1>1, <1>2, <1>3, <1>6
    <3> QED
      BY <1>2, <1>3, <3>1
  <2>2. (\A i \in 1..Len(vc) : vc[i] = wb[Len(wb) - Len(vc) + i])
          <=> /\ \A i \in 1..Len(v) : vc[i] = wb[Len(wb) - Len(vc) + i]
              /\ c = b
    <3>1. Len(wb) - Len(vc) + (Len(v) + 1) = Len(w) + 1
      BY <1>1, <1>2, <1>3
    <3>2. vc[Len(v) + 1] = wb[Len(wb) - Len(vc) + (Len(v) + 1)] <=> c = b
      BY <1>2, <1>3, <3>1
    <3>3. /\ \A i \in 1..Len(v) : i \in 1..Len(vc)
          /\ Len(v) + 1 \in 1..Len(vc)
          /\ \A i \in 1..Len(vc) : i \in 1..Len(v) \/ i = Len(v) + 1
      BY <1>1, <1>2
    <3> QED
      BY <3>2, <3>3
  <2>3. (\A i \in 1..Len(v) : vc[i] = wb[Len(wb) - Len(vc) + i])
          <=> \A i \in 1..Len(v) : v[i] = w[Len(w) - Len(v) + i]
    BY <2>1
  <2>4. Len(vc) <= Len(wb)
    BY <1>1, <1>2, <1>3, <1>6
  <2>5. IsSuffix(vc, wb) <=> IsSuffix(v, w) /\ b = c
    BY <1>4, <1>5, <1>6, <2>2, <2>3, <2>4
  <2> QED
    BY <2>5 DEF vc, wb
<1>7. CASE ~(Len(v) <= Len(w))
  <2>1. ~(Len(vc) <= Len(wb))
    BY <1>1, <1>2, <1>3, <1>7
  <2>2. IsSuffix(vc, wb) <=> IsSuffix(v, w) /\ b = c
    BY <1>4, <1>5, <1>7, <2>1
  <2> QED
    BY <2>2 DEF vc, wb
<1> QED
  BY <1>1, <1>6, <1>7
-----------------------------------------------------------------------------
(* The longest suffix among the words of the nodes                          *)

\* Words closed under taking the last byte away: those of an automaton.
IsTrie(words) == /\ words \subseteq Seq(Byte)
                 /\ <<>> \in words
                 /\ \A w \in words \ {<<>>} : Prefix(w, Len(w) - 1) \in words

\* The longest word of at most n bytes that ends t.
IsLongest(w, words, t, n) ==
  /\ w \in words /\ IsSuffix(w, t) /\ Len(w) <= n
  /\ \A v \in words : IsSuffix(v, t) /\ Len(v) <= n => Len(v) <= Len(w)
Longest(words, t, n) == CHOOSE w \in words : IsLongest(w, words, t, n)

\* What a failure link and a transition should be.
Link(words, w) == IF w = <<>> THEN <<>> ELSE Longest(words, w, Len(w) - 1)
Target(words, w, byte) == Longest(words, Append(w, byte), Len(w) + 1)

\* Among the words of a trie there is a longest one that ends a text.
LEMMA LongestExists ==
  ASSUME NEW words, IsTrie(words), NEW t \in Seq(Byte), NEW n \in Nat
  PROVE  IsLongest(Longest(words, t, n), words, t, n)
<1> DEFINE Ends == {w \in words : IsSuffix(w, t) /\ Len(w) <= n}
           Short == {n - Len(w) : w \in Ends}
<1>1. \A w \in Ends : w \in words /\ Len(w) \in Nat /\ Len(w) <= n /\ IsSuffix(w, t)
  BY LenProperties DEF IsTrie
<1>2. <<>> \in Ends
  BY SuffixEnds, EmptySeq DEF IsTrie
<1>3. Short \subseteq Nat
  BY <1>1
<1>4. Short # {}
  BY <1>2
<1>5. PICK k \in Short : \A m \in Short : k <= m
  <2> HIDE DEF Short
  <2> QED
    BY <1>3, <1>4, LeastNatural
<1>6. PICK w \in Ends : k = n - Len(w)
  BY <1>5
<1>7. \A v \in Ends : Len(v) <= Len(w)
  <2> TAKE v \in Ends
  <2>1. n - Len(w) <= n - Len(v)
    BY <1>5, <1>6
  <2> QED
    BY <1>1, <2>1
<1>8. IsLongest(w, words, t, n)
  BY <1>1, <1>6, <1>7 DEF IsLongest
<1> QED
  BY <1>1, <1>8 DEF Longest

\* There is only one.
LEMMA LongestUnique ==
  ASSUME NEW words, IsTrie(words), NEW t \in Seq(Byte), NEW n \in Nat,
         NEW w, IsLongest(w, words, t, n)
  PROVE  w = Longest(words, t, n)
<1> DEFINE v == Longest(words, t, n)
<1>1. IsLongest(v, words, t, n)
  BY LongestExists
<1> HIDE DEF v
<1>2. Len(v) <= Len(w) /\ Len(w) <= Len(v)
  BY <1>1 DEF IsLongest
<1>3. Len(v) \in Nat /\ Len(w) \in Nat
  BY <1>1, LenProperties DEF IsLongest, IsTrie
<1>4. v = w
  BY <1>1, <1>2, <1>3, SuffixUnique DEF IsLongest
<1> QED
  BY <1>4 DEF v

\* A failure link leads to a shorter word that ends the word.
LEMMA LinkFacts ==
  ASSUME NEW words, IsTrie(words), NEW w \in words, w # <<>>
  PROVE  /\ Link(words, w) \in words
         /\ Len(Link(words, w)) < Len(w)
         /\ IsLongest(Link(words, w), words, w, Len(w) - 1)
<1>1. w \in Seq(Byte) /\ Len(w) \in Nat \ {0}
  BY FrontAndLast DEF IsTrie
<1>2. IsLongest(Link(words, w), words, w, Len(w) - 1)
  BY <1>1, LongestExists DEF Link
<1>3. Link(words, w) \in words /\ Len(Link(words, w)) <= Len(w) - 1
  BY <1>2 DEF IsLongest
<1>4. Len(Link(words, w)) \in Nat
  BY <1>3, LenProperties DEF IsTrie
<1> QED
  BY <1>1, <1>2, <1>3, <1>4

\* The target of a transition, as the loop computes it: the word with the byte
\* if there is a node for it.
LEMMA TargetOfWord ==
  ASSUME NEW words, IsTrie(words), NEW w \in words, NEW b \in Byte,
         Append(w, b) \in words
  PROVE  Target(words, w, b) = Append(w, b)
<1>1. w \in Seq(Byte) /\ Len(w) \in Nat
  BY LenProperties DEF IsTrie
<1>2. Append(w, b) \in Seq(Byte) /\ Len(Append(w, b)) = Len(w) + 1
  BY <1>1, AppendProperties
<1>3. IsSuffix(Append(w, b), Append(w, b))
  BY <1>2, SuffixEnds
<1>4. IsLongest(Append(w, b), words, Append(w, b), Len(w) + 1)
  BY <1>1, <1>2, <1>3 DEF IsLongest
<1>5. Len(w) + 1 \in Nat
  BY <1>1
<1>6. Append(w, b) = Longest(words, Append(w, b), Len(w) + 1)
  BY <1>2, <1>4, <1>5, LongestUnique
<1> QED
  BY <1>6 DEF Target

\* At the root, without a node for the byte, the root.
LEMMA TargetOfRoot ==
  ASSUME NEW words, IsTrie(words), NEW b \in Byte, Append(<<>>, b) \notin words
  PROVE  Target(words, <<>>, b) = <<>>
<1> DEFINE e == <<>>
           t == Append(e, b)
<1>1. /\ e \in Seq(Byte) /\ Len(e) = 0
      /\ t \in Seq(Byte) /\ Len(t) = 1
      /\ e \in words
  BY EmptySeq, AppendProperties DEF IsTrie
<1>2. t \notin words
  OBVIOUS
<1> HIDE DEF t, e
<1>3. \A v \in words : IsSuffix(v, t) /\ Len(v) <= 1 => Len(v) <= Len(e)
  <2> SUFFICES ASSUME NEW v \in words, IsSuffix(v, t), Len(v) <= 1, ~(Len(v) <= Len(e))
               PROVE  FALSE
    OBVIOUS
  <2>1. v \in Seq(Byte) /\ Len(v) \in Nat
    BY LenProperties DEF IsTrie
  <2>2. Len(t) <= Len(v)
    BY <1>1, <2>1
  <2>3. v = t
    BY <1>1, <2>1, <2>2, SuffixWhole
  <2> QED
    BY <1>2, <2>3
<1>4. IsSuffix(e, t)
  BY <1>1, SuffixEnds DEF e
<1>5. IsLongest(e, words, t, 1)
  BY <1>1, <1>3, <1>4 DEF IsLongest
<1>6. e = Longest(words, t, 1)
  BY <1>1, <1>5, LongestUnique
<1>7. Len(e) + 1 = 1
  BY <1>1
<1> QED
  BY <1>6, <1>7 DEF Target, t, e

\* Elsewhere, without a node for the byte, the target of the failure link.
LEMMA TargetOfLink ==
  ASSUME NEW words, IsTrie(words), NEW w \in words, w # <<>>, NEW b \in Byte,
         Append(w, b) \notin words
  PROVE  Target(words, w, b) = Target(words, Link(words, w), b)
<1> DEFINE f == Link(words, w)
           wb == Append(w, b)
           fb == Append(f, b)
           u == Target(words, f, b)
<1>1. /\ f \in words /\ f \in Seq(Byte) /\ w \in Seq(Byte)
      /\ Len(f) \in Nat /\ Len(w) \in Nat \ {0} /\ Len(f) < Len(w)
      /\ IsLongest(f, words, w, Len(w) - 1)
  BY LinkFacts, LenProperties, FrontAndLast DEF IsTrie
<1>2. /\ wb \in Seq(Byte) /\ Len(wb) = Len(w) + 1
      /\ fb \in Seq(Byte) /\ Len(fb) = Len(f) + 1
  BY <1>1, AppendProperties
<1>n. Len(f) + 1 \in Nat /\ Len(w) + 1 \in Nat
  BY <1>1
<1>3. IsLongest(u, words, fb, Len(f) + 1)
  BY <1>2, <1>n, LongestExists DEF Target
<1>4. IsSuffix(fb, wb)
  BY <1>1, SuffixAppend DEF IsLongest
<1> HIDE DEF f, u
<1>5. /\ u \in words /\ u \in Seq(Byte) /\ Len(u) \in Nat
      /\ IsSuffix(u, fb) /\ Len(u) <= Len(f) + 1
  BY <1>3, LenProperties DEF IsLongest, IsTrie
<1>6. IsSuffix(u, wb)
  BY <1>2, <1>4, <1>5, SuffixTransitive
<1>7. ASSUME NEW v \in words, IsSuffix(v, wb), Len(v) <= Len(w) + 1
      PROVE  Len(v) <= Len(u)
  <2>1. v \in Seq(Byte) /\ Len(v) \in Nat
    BY LenProperties DEF IsTrie
  <2>2. CASE v = <<>>
    BY <1>5, <2>1, <2>2, EmptySeq
  <2>3. CASE v # <<>>
    <3> DEFINE x == Prefix(v, Len(v) - 1)
               c == v[Len(v)]
    <3>1. /\ x \in Seq(Byte) /\ Len(x) = Len(v) - 1 /\ c \in Byte
          /\ v = Append(x, c) /\ x \in words
      BY <2>1, <2>3, FrontAndLast DEF IsTrie
    <3> HIDE DEF x, c
    <3>2. IsSuffix(x, w) /\ b = c
      BY <1>1, <1>7, <3>1, SuffixAppend
    <3>3. v # wb
      OBVIOUS
    <3>4. ~(Len(wb) <= Len(v))
      BY <1>2, <1>7, <2>1, <3>3, SuffixWhole
    <3>5. Len(x) <= Len(w) - 1
      BY <1>1, <1>2, <2>1, <3>1, <3>4
    <3>6. Len(x) <= Len(f)
      BY <1>1, <3>1, <3>2, <3>5 DEF IsLongest
    <3>7. IsSuffix(x, f)
      BY <1>1, <3>1, <3>2, <3>6, SuffixNested DEF IsLongest
    <3>8. IsSuffix(v, fb)
      BY <1>1, <3>1, <3>2, <3>7, SuffixAppend
    <3>9. Len(v) <= Len(f) + 1
      BY <1>1, <2>1, <3>1, <3>6
    <3> QED
      BY <1>3, <3>8, <3>9 DEF IsLongest
  <2> QED
    BY <2>2, <2>3
<1>8. Len(u) <= Len(w) + 1
  BY <1>1, <1>5
<1>9. IsLongest(u, words, wb, Len(w) + 1)
  BY <1>5, <1>6, <1>7, <1>8 DEF IsLongest
<1>10. u = Longest(words, wb, Len(w) + 1)
  BY <1>2, <1>9, <1>n, LongestUnique
<1> QED
  BY <1>10 DEF Target, u, f
-----------------------------------------------------------------------------
(* Follow and Failures compute them                                         *)

\* The loop over the failure links ends at the longest word that ends the bytes
\* read, whatever the links of longer words are.
THEOREM FollowIsTarget ==
  ASSUME NEW words, IsTrie(words), NEW failure, NEW word \in words, NEW b \in Byte,
         \A v \in words \ {<<>>} : Len(v) <= Len(word) => failure[v] = Link(words, v)
  PROVE  Follow(words, failure, word, b) = Target(words, word, b)
<1> DEFINE S == {v \in words : Len(v) <= Len(word)}
           Turn(g, w) == IF Append(w, b) \in words THEN Append(w, b)
                         ELSE IF w = <<>> THEN <<>> ELSE g[failure[w]]
           Loop(g) == g = [w \in S |-> Turn(g, w)]
           go == [w \in S |-> Target(words, w, b)]
<1>1. \A w \in words : w \in Seq(Byte) /\ Len(w) \in Nat
  BY LenProperties DEF IsTrie
<1>2. word \in S
  BY <1>1
<1>3. ASSUME NEW w \in S, w # <<>>
      PROVE  /\ failure[w] \in S /\ Len(failure[w]) < Len(w)
             /\ failure[w] = Link(words, w)
  BY <1>1, <1>3, LinkFacts
<1>4. ASSUME NEW w \in S
      PROVE  Target(words, w, b) = Turn(go, w)
  <2>1. CASE Append(w, b) \in words
    BY <2>1, TargetOfWord
  <2>2. CASE Append(w, b) \notin words /\ w = <<>>
    BY <2>2, TargetOfRoot
  <2>3. CASE Append(w, b) \notin words /\ w # <<>>
    BY <1>3, <2>3, TargetOfLink
  <2> QED
    BY <2>1, <2>2, <2>3
<1>5. Loop(go)
  BY <1>4
<1>6. ASSUME NEW g, Loop(g)
      PROVE  g[word] = go[word]
  <2> DEFINE Wrong == {Len(w) : w \in {v \in S : g[v] # Target(words, v, b)}}
  <2>1. SUFFICES ASSUME Wrong # {} PROVE FALSE
    BY <1>2
  <2>2. Wrong \subseteq Nat
    BY <1>1
  <2>3. PICK n \in Wrong : \A m \in Wrong : n <= m
    <3> HIDE DEF Wrong
    <3> QED
      BY <2>1, <2>2, LeastNatural
  <2>4. PICK w \in S : n = Len(w) /\ g[w] # Target(words, w, b)
    BY <2>3
  <2>5. g[w] = Turn(g, w)
    BY <1>6
  <2>6. ~(Append(w, b) \in words \/ w = <<>>)
    BY <1>4, <2>4, <2>5
  <2>7. /\ failure[w] \in S /\ Len(failure[w]) < Len(w)
        /\ failure[w] = Link(words, w)
    BY <1>3, <2>6
  <2>8. Len(failure[w]) \notin Wrong
    BY <1>1, <2>3, <2>4, <2>7
  <2>9. g[failure[w]] = Target(words, failure[w], b)
    BY <2>7, <2>8
  <2>10. Target(words, w, b) = Target(words, failure[w], b)
    BY <2>6, <2>7, TargetOfLink
  <2> QED
    BY <2>4, <2>5, <2>6, <2>9, <2>10
<1>7. Follow(words, failure, word, b) = (CHOOSE g : Loop(g))[word]
  BY DEF Follow
<1>8. Loop(CHOOSE g : Loop(g))
  <2> HIDE DEF Loop
  <2> QED
    BY <1>5
<1>9. go[word] = Target(words, word, b)
  BY <1>2
<1> HIDE DEF Loop, go
<1> QED
  BY <1>6, <1>7, <1>8, <1>9

\* Taking the last byte off a word and following from the failure link of the
\* rest leads to the failure link of the word.
LEMMA LinkOfWord ==
  ASSUME NEW words, IsTrie(words), NEW w \in words, Len(w) > 1
  PROVE  LET v == Prefix(w, Len(w) - 1)
         IN  Link(words, w) = Target(words, Link(words, v), w[Len(w)])
<1> DEFINE v == Prefix(w, Len(w) - 1)
           b == w[Len(w)]
           f == Link(words, v)
           fb == Append(f, b)
           u == Link(words, w)
<1>1. w \in Seq(Byte) /\ Len(w) \in Nat /\ w # <<>>
  BY LenProperties, EmptySeq DEF IsTrie
<1>2. /\ v \in Seq(Byte) /\ Len(v) = Len(w) - 1 /\ b \in Byte
      /\ v \in words /\ w = Append(v, b)
  BY <1>1, FrontAndLast DEF IsTrie
<1>3. v # <<>>
  BY <1>1, <1>2, EmptySeq
<1> HIDE DEF v, b
<1>4. /\ f \in words /\ f \in Seq(Byte) /\ Len(f) \in Nat
      /\ Len(f) < Len(v) /\ IsLongest(f, words, v, Len(v) - 1)
  BY <1>2, <1>3, LinkFacts, LenProperties DEF IsTrie
<1>5. /\ u \in words /\ u \in Seq(Byte) /\ Len(u) \in Nat
      /\ Len(u) < Len(w) /\ IsLongest(u, words, w, Len(w) - 1)
  BY <1>1, LinkFacts, LenProperties DEF IsTrie
<1> HIDE DEF f, u
<1>6. fb \in Seq(Byte) /\ Len(fb) = Len(f) + 1
  BY <1>2, <1>4, AppendProperties
<1>7. IsSuffix(fb, w)
  BY <1>2, <1>4, SuffixAppend DEF IsLongest
<1> HIDE DEF fb
<1>8. ASSUME NEW x \in words, IsSuffix(x, w), Len(x) <= Len(w) - 1
      PROVE  IsSuffix(x, fb) /\ Len(x) <= Len(f) + 1
  <2>1. x \in Seq(Byte) /\ Len(x) \in Nat
    BY LenProperties DEF IsTrie
  <2>2. CASE x = <<>>
    BY <1>4, <1>6, <2>1, <2>2, SuffixEnds, EmptySeq
  <2>3. CASE x # <<>>
    <3> DEFINE y == Prefix(x, Len(x) - 1)
               c == x[Len(x)]
    <3>1. /\ y \in Seq(Byte) /\ Len(y) = Len(x) - 1 /\ c \in Byte
          /\ x = Append(y, c) /\ y \in words
      BY <2>1, <2>3, FrontAndLast DEF IsTrie
    <3> HIDE DEF y, c
    <3>2. IsSuffix(y, v) /\ b = c
      BY <1>2, <1>8, <3>1, SuffixAppend
    <3>3. Len(y) <= Len(v) - 1
      BY <1>1, <1>2, <1>8, <2>1, <3>1
    <3>4. Len(y) <= Len(f)
      BY <1>4, <3>1, <3>2, <3>3 DEF IsLongest
    <3>5. IsSuffix(y, f)
      BY <1>2, <1>4, <3>1, <3>2, <3>4, SuffixNested DEF IsLongest
    <3>6. IsSuffix(x, fb)
      BY <1>2, <1>4, <3>1, <3>2, <3>5, SuffixAppend DEF fb
    <3> QED
      BY <1>4, <2>1, <3>1, <3>4, <3>6
  <2> QED
    BY <2>2, <2>3
<1>9. IsSuffix(u, fb) /\ Len(u) <= Len(f) + 1
  BY <1>5, <1>8 DEF IsLongest
<1>10. ASSUME NEW x \in words, IsSuffix(x, fb), Len(x) <= Len(f) + 1
       PROVE  Len(x) <= Len(u)
  <2>1. x \in Seq(Byte) /\ Len(x) \in Nat
    BY LenProperties DEF IsTrie
  <2>2. IsSuffix(x, w)
    BY <1>1, <1>6, <1>7, <1>10, <2>1, SuffixTransitive
  <2>3. Len(x) <= Len(w) - 1
    BY <1>1, <1>2, <1>4, <1>10, <2>1
  <2> QED
    BY <1>5, <2>2, <2>3 DEF IsLongest
<1>11. IsLongest(u, words, fb, Len(f) + 1)
  BY <1>5, <1>9, <1>10 DEF IsLongest
<1>12. Len(f) + 1 \in Nat
  BY <1>4
<1>13. u = Longest(words, fb, Len(f) + 1)
  BY <1>6, <1>11, <1>12, LongestUnique
<1> QED
  BY <1>13 DEF Target, u, f, fb, v, b

\* The failure links: the longest proper suffix that is a node.
THEOREM FailuresAreLinks ==
  ASSUME NEW words, IsTrie(words)
  PROVE  Failures(words) = [w \in words |-> Link(words, w)]
<1> DEFINE Turn(f, w) ==
             IF Len(w) <= 1 THEN <<>>
             ELSE Follow(words, f, f[Prefix(w, Len(w) - 1)], w[Len(w)])
           Linked(f) == f = [w \in words |-> Turn(f, w)]
           links == [w \in words |-> Link(words, w)]
<1>1. \A w \in words : w \in Seq(Byte) /\ Len(w) \in Nat
  BY LenProperties DEF IsTrie
<1>2. ASSUME NEW w \in words, Len(w) <= 1
      PROVE  Link(words, w) = <<>>
  <2>1. CASE w = <<>>
    BY <2>1 DEF Link
  <2>2. CASE w # <<>>
    <3>1. Link(words, w) \in Seq(Byte) /\ Len(Link(words, w)) < 1
      BY <1>1, <1>2, <2>2, LinkFacts
    <3> QED
      BY <3>1, EmptySeq
  <2> QED
    BY <2>1, <2>2
<1>3. ASSUME NEW f, NEW w \in words, Len(w) > 1,
             \A v \in words : Len(v) < Len(w) => f[v] = Link(words, v)
      PROVE  Turn(f, w) = Link(words, w)
  <2> DEFINE v == Prefix(w, Len(w) - 1)
             b == w[Len(w)]
  <2>1. w # <<>>
    BY <1>3, EmptySeq
  <2>2. /\ v \in words /\ Len(v) = Len(w) - 1 /\ b \in Byte
    BY <1>1, <2>1, FrontAndLast DEF IsTrie
  <2>3. v # <<>>
    BY <1>1, <1>3, <2>2, EmptySeq
  <2>4. Link(words, w) = Target(words, Link(words, v), b)
    BY <1>3, LinkOfWord
  <2> HIDE DEF v, b
  <2>5. f[v] = Link(words, v)
    BY <1>1, <1>3, <2>2
  <2>6. /\ Link(words, v) \in words
        /\ Len(Link(words, v)) < Len(v)
    BY <2>2, <2>3, LinkFacts
  <2>7. \A x \in words \ {<<>>} :
           Len(x) <= Len(Link(words, v)) => f[x] = Link(words, x)
    BY <1>1, <1>3, <2>2, <2>6
  <2>8. Follow(words, f, Link(words, v), b) = Target(words, Link(words, v), b)
    BY <2>2, <2>6, <2>7, FollowIsTarget
  <2> QED
    BY <1>1, <1>3, <2>4, <2>5, <2>8 DEF v, b
<1>4. ASSUME NEW w \in words
      PROVE  Turn(links, w) = Link(words, w)
  <2>1. CASE Len(w) <= 1
    BY <1>2, <2>1
  <2>2. CASE Len(w) > 1
    <3>1. \A v \in words : links[v] = Link(words, v)
      OBVIOUS
    <3> HIDE DEF links, Turn
    <3> QED
      BY <1>3, <2>2, <3>1
  <2> QED
    BY <1>1, <2>1, <2>2
<1>5. Linked(links)
  <2> HIDE DEF Turn
  <2> QED
    BY <1>4
<1>6. ASSUME NEW f, Linked(f)
      PROVE  f = links
  <2> DEFINE Wrong == {Len(w) : w \in {v \in words : f[v] # Link(words, v)}}
  <2> HIDE DEF Turn
  <2>1. SUFFICES ASSUME Wrong # {} PROVE FALSE
    BY <1>6
  <2>2. Wrong \subseteq Nat
    BY <1>1
  <2>3. PICK n \in Wrong : \A m \in Wrong : n <= m
    <3> HIDE DEF Wrong
    <3> QED
      BY <2>1, <2>2, LeastNatural
  <2>4. PICK w \in words : n = Len(w) /\ f[w] # Link(words, w)
    BY <2>3
  <2>5. \A v \in words : Len(v) < Len(w) => f[v] = Link(words, v)
    <3> TAKE v \in words
    <3> HAVE Len(v) < Len(w)
    <3>1. Len(v) \notin Wrong
      BY <1>1, <2>3, <2>4
    <3> QED
      BY <3>1
  <2>6. f[w] = Turn(f, w)
    BY <1>6
  <2>7. CASE Len(w) <= 1
    BY <1>2, <2>4, <2>6, <2>7 DEF Turn
  <2>8. CASE Len(w) > 1
    BY <1>3, <2>4, <2>5, <2>6, <2>8
  <2> QED
    BY <1>1, <2>7, <2>8
<1>7. Failures(words) = CHOOSE f : Linked(f)
  BY DEF Failures
<1>8. Linked(CHOOSE f : Linked(f))
  <2> HIDE DEF Linked
  <2> QED
    BY <1>5
<1> QED
  BY <1>6, <1>7, <1>8
-----------------------------------------------------------------------------
(* The nodes                                                                *)

\* Prefixes of prefixes are prefixes.
LEMMA PrefixOfPrefix ==
  ASSUME NEW w \in Seq(Byte), NEW n \in 0..Len(w), NEW m \in 0..n
  PROVE  Prefix(Prefix(w, n), m) = Prefix(w, m)
<1> DEFINE u == Prefix(w, n)
           x == Prefix(u, m)
           y == Prefix(w, m)
<1>1. Len(w) \in Nat
  BY LenProperties
<1>2. u \in Seq(Byte) /\ Len(u) = n /\ \A i \in 1..n : u[i] = w[i]
  BY PrefixOfWord
<1> HIDE DEF u
<1>3. x \in Seq(Byte) /\ Len(x) = m /\ \A i \in 1..m : x[i] = u[i]
  BY <1>2, PrefixOfWord
<1>4. m \in 0..Len(w)
  BY <1>1
<1>5. y \in Seq(Byte) /\ Len(y) = m /\ \A i \in 1..m : y[i] = w[i]
  BY <1>4, PrefixOfWord
<1> HIDE DEF x, y
<1>6. \A i \in 1..m : x[i] = y[i]
  <2> TAKE i \in 1..m
  <2>1. i \in 1..n
    OBVIOUS
  <2> QED
    BY <1>2, <1>3, <1>5, <2>1
<1>7. x = y
  BY <1>3, <1>5, <1>6, SeqEqual
<1> QED
  BY <1>7 DEF x, y, u

\* The whole of a word is a prefix of it, the empty word another.
LEMMA PrefixEnds ==
  ASSUME NEW w \in Seq(Byte)
  PROVE  Prefix(w, Len(w)) = w /\ Prefix(w, 0) = <<>>
BY SubSeqFull, SubSeqEmpty DEF Prefix

\* A sequence of nodes: the root first, every node below another one.
AreNodes(nodes) == /\ nodes \in Seq(Seq(Byte))
                   /\ Len(nodes) >= 1
                   /\ nodes[1] = <<>>
                   /\ IsTrie(WordsOf(nodes))

\* The nodes of the first sequence keep their indices in the second.
Extends(more, nodes) == /\ Len(nodes) <= Len(more)
                        /\ \A n \in 1..Len(nodes) : more[n] = nodes[n]

\* There is a depth from which the pattern needs new nodes.
LEMMA DepthFacts ==
  ASSUME NEW nodes, AreNodes(nodes), NEW pattern \in Seq(Byte)
  PROVE  /\ Depth(nodes, pattern) \in 0..Len(pattern)
         /\ Prefix(pattern, Depth(nodes, pattern)) \in WordsOf(nodes)
<1> DEFINE Here == {d \in 0..Len(pattern) : Prefix(pattern, d) \in WordsOf(nodes)}
           Left == {Len(pattern) - d : d \in Here}
<1>1. Len(pattern) \in Nat
  BY LenProperties
<1>2. 0 \in Here
  BY <1>1, PrefixEnds DEF AreNodes, IsTrie
<1>3. Left \subseteq Nat
  BY <1>1
<1>4. Left # {}
  BY <1>2
<1>5. PICK k \in Left : \A m \in Left : k <= m
  <2> HIDE DEF Left
  <2> QED
    BY <1>3, <1>4, LeastNatural
<1>6. PICK d \in Here : k = Len(pattern) - d
  BY <1>5
<1>7. \A e \in d+1..Len(pattern) : Prefix(pattern, e) \notin WordsOf(nodes)
  <2> SUFFICES ASSUME NEW e \in d+1..Len(pattern), Prefix(pattern, e) \in WordsOf(nodes)
               PROVE  FALSE
    OBVIOUS
  <2>1. d \in Nat
    BY <1>6
  <2>2. e \in Here
    BY <1>1, <2>1
  <2>3. Len(pattern) - d <= Len(pattern) - e
    BY <1>5, <1>6, <2>2
  <2> QED
    BY <1>1, <2>1, <2>3
<1> QED
  BY <1>6, <1>7 DEF Depth

\* Inserting a pattern keeps the nodes there are, and adds those it needs.
LEMMA InsertFacts ==
  ASSUME NEW nodes, AreNodes(nodes), NEW pattern \in Seq(Byte)
  PROVE  /\ AreNodes(Insert(nodes, pattern))
         /\ Extends(Insert(nodes, pattern), nodes)
         /\ pattern \in WordsOf(Insert(nodes, pattern))
<1> DEFINE d == Depth(nodes, pattern)
           len == Len(pattern) - d
           rest == [i \in 1..len |-> Prefix(pattern, d + i)]
           more == nodes \o rest
<1>1. /\ d \in 0..Len(pattern) /\ Len(pattern) \in Nat
      /\ Prefix(pattern, d) \in WordsOf(nodes)
  BY DepthFacts, LenProperties
<1> HIDE DEF d
<1>2. len \in Nat
  BY <1>1
<1>3. \A i \in 1..len : /\ d + i \in 0..Len(pattern)
                        /\ Prefix(pattern, d + i) \in Seq(Byte)
                        /\ Len(Prefix(pattern, d + i)) = d + i
  <2> TAKE i \in 1..len
  <2>1. d + i \in 0..Len(pattern)
    BY <1>1
  <2> QED
    BY <2>1, PrefixOfWord
<1>4. rest \in Seq(Seq(Byte)) /\ Len(rest) = len
  <2>1. rest \in [1..len -> Seq(Byte)]
    BY <1>3
  <2> HIDE DEF rest, len
  <2>2. rest \in Seq(Seq(Byte))
    BY <1>2, <2>1, SeqDef
  <2>3. DOMAIN rest = 1..Len(rest) /\ Len(rest) \in Nat
    BY <2>2, LenProperties
  <2>4. 1..len = 1..Len(rest)
    BY <2>1, <2>3
  <2>5. \A i \in Nat, j \in Nat : 1..i = 1..j => i = j
    <3> SUFFICES ASSUME NEW i \in Nat, NEW j \in Nat, 1..i = 1..j, i < j
                 PROVE  FALSE
      OBVIOUS
    <3>1. j \in 1..j /\ j \notin 1..i
      OBVIOUS
    <3> QED
      BY <3>1
  <2> QED
    BY <1>2, <2>2, <2>3, <2>4, <2>5
<1>5. /\ nodes \in Seq(Seq(Byte)) /\ Len(nodes) \in Nat \ {0}
      /\ nodes[1] = <<>> /\ IsTrie(WordsOf(nodes))
  BY LenProperties DEF AreNodes
<1>6. \A i \in 1..len : rest[i] = Prefix(pattern, d + i)
  OBVIOUS
<1> HIDE DEF len, rest
<1>7. /\ more \in Seq(Seq(Byte))
      /\ Len(more) = Len(nodes) + len
      /\ \A n \in 1..Len(nodes) + len :
           more[n] = IF n <= Len(nodes) THEN nodes[n] ELSE rest[n - Len(nodes)]
  BY <1>4, <1>5, ConcatProperties
<1> HIDE DEF more
<1>8. Extends(more, nodes)
  <2>1. Len(nodes) <= Len(more)
    BY <1>2, <1>5, <1>7
  <2>2. \A n \in 1..Len(nodes) : n \in 1..Len(nodes) + len
    BY <1>2, <1>5
  <2>3. \A n \in 1..Len(nodes) : more[n] = nodes[n]
    BY <1>7, <2>2
  <2> QED
    BY <2>1, <2>3 DEF Extends
<1>9. \A w : w \in WordsOf(more) <=> \/ w \in WordsOf(nodes)
                                     \/ \E i \in 1..len : w = Prefix(pattern, d + i)
  <2>1. DOMAIN more = 1..Len(nodes) + len /\ DOMAIN nodes = 1..Len(nodes)
    BY <1>5, <1>7, LenProperties
  <2>2. ASSUME NEW w \in WordsOf(more)
        PROVE  \/ w \in WordsOf(nodes)
               \/ \E i \in 1..len : w = Prefix(pattern, d + i)
    <3>1. PICK n \in 1..Len(nodes) + len : w = more[n]
      BY <2>1 DEF WordsOf
    <3>2. CASE n <= Len(nodes)
      <4>1. n \in 1..Len(nodes)
        BY <1>2, <1>5, <3>1, <3>2
      <4>2. w = nodes[n]
        BY <1>7, <3>1, <3>2
      <4> QED
        BY <2>1, <4>1, <4>2 DEF WordsOf
    <3>3. CASE ~(n <= Len(nodes))
      <4>1. n - Len(nodes) \in 1..len
        BY <1>2, <1>5, <3>1, <3>3
      <4>2. w = rest[n - Len(nodes)]
        BY <1>7, <3>1, <3>3
      <4> QED
        BY <1>6, <4>1, <4>2
    <3> QED
      BY <3>2, <3>3
  <2>3. ASSUME NEW w \in WordsOf(nodes)
        PROVE  w \in WordsOf(more)
    <3>1. PICK n \in 1..Len(nodes) : w = nodes[n]
      BY <2>1 DEF WordsOf
    <3>2. n \in DOMAIN more /\ more[n] = w
      BY <1>2, <1>5, <1>8, <2>1, <3>1 DEF Extends
    <3> QED
      BY <3>2 DEF WordsOf
  <2>4. ASSUME NEW i \in 1..len
        PROVE  Prefix(pattern, d + i) \in WordsOf(more)
    <3> DEFINE n == Len(nodes) + i
    <3>1. n \in 1..Len(nodes) + len /\ ~(n <= Len(nodes)) /\ n - Len(nodes) = i
      BY <1>2, <1>5
    <3> HIDE DEF n
    <3>2. more[n] = Prefix(pattern, d + i)
      BY <1>6, <1>7, <3>1
    <3> QED
      BY <2>1, <3>1, <3>2 DEF WordsOf
  <2> QED
    BY <2>2, <2>3, <2>4
<1>10. IsTrie(WordsOf(more))
  <2>1. WordsOf(more) \subseteq Seq(Byte)
    BY <1>3, <1>5, <1>9 DEF IsTrie
  <2>2. <<>> \in WordsOf(more)
    BY <1>5, <1>9 DEF IsTrie
  <2>3. ASSUME NEW w \in WordsOf(more), w # <<>>
        PROVE  Prefix(w, Len(w) - 1) \in WordsOf(more)
    <3>1. CASE w \in WordsOf(nodes)
      BY <1>5, <1>9, <2>3, <3>1 DEF IsTrie
    <3>2. CASE \E i \in 1..len : w = Prefix(pattern, d + i)
      <4>1. PICK i \in 1..len : w = Prefix(pattern, d + i)
        BY <3>2
      <4>6. Len(w) = d + i /\ d + i \in 0..Len(pattern)
        BY <1>3, <4>1
      <4>2. Len(w) - 1 = d + i - 1 /\ d + i - 1 \in 0..d + i
        BY <1>1, <1>2, <4>6
      <4>3. Prefix(w, Len(w) - 1) = Prefix(pattern, d + i - 1)
        BY <4>1, <4>2, <4>6, PrefixOfPrefix
      <4>4. CASE i = 1
        <5>1. d + i - 1 = d
          BY <1>1, <4>4
        <5> QED
          BY <1>1, <1>9, <4>3, <5>1
      <4>5. CASE i # 1
        <5>1. i - 1 \in 1..len /\ d + i - 1 = d + (i - 1)
          BY <1>1, <1>2, <4>5
        <5> QED
          BY <1>9, <4>3, <5>1
      <4> QED
        BY <4>4, <4>5
    <3> QED
      BY <1>9, <2>3, <3>1, <3>2
  <2> QED
    BY <2>1, <2>2, <2>3 DEF IsTrie
<1>11. pattern \in WordsOf(more)
  <2>1. CASE len = 0
    <3>1. d = Len(pattern)
      BY <1>1, <2>1 DEF len
    <3> QED
      BY <1>1, <1>9, <3>1, PrefixEnds
  <2>2. CASE len # 0
    <3>1. len \in 1..len /\ d + len = Len(pattern)
      BY <1>1, <1>2, <2>2 DEF len
    <3> QED
      BY <1>9, <3>1, PrefixEnds
  <2> QED
    BY <2>1, <2>2
<1>12. AreNodes(more)
  <2>1. Len(more) >= 1
    BY <1>2, <1>5, <1>7
  <2>2. more[1] = <<>>
    BY <1>5, <1>8 DEF Extends
  <2> QED
    BY <1>7, <1>10, <2>1, <2>2 DEF AreNodes
<1>13. Insert(nodes, pattern) = more
  BY DEF Insert, more, rest, len, d
<1> QED
  BY <1>8, <1>11, <1>12, <1>13
-----------------------------------------------------------------------------
(* Nodes: one record after another                                          *)

\* The recursive function of Nodes, for the first n records.
NodesAfter(after, records, n) ==
  after = [k \in 0..n |-> IF k = 0 THEN << <<>> >>
                          ELSE Insert(after[k-1], records[k].pattern)]

\* The recursion over the records defines a function.
LEMMA NodesAfterExists ==
  ASSUME NEW records, NEW n \in Nat
  PROVE  \E after : NodesAfter(after, records, n)
<1> DEFINE Missing == {m \in Nat : ~\E after : NodesAfter(after, records, m)}
<1> SUFFICES ASSUME Missing # {} PROVE FALSE
  OBVIOUS
<1>1. PICK m \in Missing : \A k \in Missing : m <= k
  <2>1. Missing \subseteq Nat
    OBVIOUS
  <2> HIDE DEF Missing
  <2> QED
    BY <2>1, LeastNatural
<1>2. m \in Nat /\ ~\E after : NodesAfter(after, records, m)
  BY <1>1
<1>3. CASE m = 0
  <2> DEFINE first == [k \in 0..0 |-> << <<>> >>]
  <2>1. NodesAfter(first, records, 0)
    BY DEF NodesAfter
  <2> QED
    BY <1>2, <1>3, <2>1
<1>4. CASE m # 0
  <2>1. m - 1 \in Nat /\ ~(m <= m - 1)
    BY <1>2, <1>4
  <2>2. PICK before : NodesAfter(before, records, m - 1)
    BY <1>1, <2>1
  <2> DEFINE after == [k \in 0..m |-> IF k = m
                                      THEN Insert(before[m-1], records[m].pattern)
                                      ELSE before[k]]
             again == [k \in 0..m |-> IF k = 0 THEN << <<>> >>
                                      ELSE Insert(after[k-1], records[k].pattern)]
  <2>3. ASSUME NEW k \in 0..m
        PROVE  after[k] = again[k]
    <3>1. CASE k = m
      <4>1. m - 1 \in 0..m /\ m - 1 # m
        BY <1>2, <1>4
      <4>2. after[k-1] = before[k-1]
        BY <3>1, <4>1
      <4> QED
        BY <1>4, <3>1, <4>2
    <3>2. CASE k = 0
      <4>1. before[0] = << <<>> >>
        BY <2>1, <2>2 DEF NodesAfter
      <4> QED
        BY <1>4, <3>2, <4>1
    <3>3. CASE k # 0 /\ k # m
      <4>1. k - 1 \in 0..m /\ k - 1 # m /\ k \in 0..m - 1
        BY <1>2, <3>3
      <4>2. after[k-1] = before[k-1] /\ after[k] = before[k]
        BY <3>3, <4>1
      <4>3. before[k] = Insert(before[k-1], records[k].pattern)
        BY <2>2, <3>3, <4>1 DEF NodesAfter
      <4> QED
        BY <3>3, <4>2, <4>3
    <3> QED
      BY <3>1, <3>2, <3>3
  <2>4. after = [k \in 0..m |-> after[k]] /\ again = [k \in 0..m |-> again[k]]
    OBVIOUS
  <2>5. after = again
    <3> HIDE DEF after, again
    <3> QED
      BY <2>3, <2>4
  <2>6. NodesAfter(after, records, m)
    BY <2>5 DEF NodesAfter
  <2> QED
    BY <1>2, <2>6
<1> QED
  BY <1>3, <1>4

\* What holds after every record.
LEMMA NodesAfterFacts ==
  ASSUME NEW records, NEW n \in Nat, NEW after, NodesAfter(after, records, n),
         \A k \in 1..n : records[k].pattern \in Seq(Byte)
  PROVE  \A k \in 0..n : /\ AreNodes(after[k])
                         /\ \A j \in 1..k : records[j].pattern \in WordsOf(after[k])
<1> DEFINE Good(k) == /\ AreNodes(after[k])
                      /\ \A j \in 1..k : records[j].pattern \in WordsOf(after[k])
           Bad == {k \in 0..n : ~Good(k)}
<1> SUFFICES ASSUME Bad # {} PROVE FALSE
  OBVIOUS
<1>1. PICK k \in Bad : \A m \in Bad : k <= m
  <2>1. Bad \subseteq Nat
    OBVIOUS
  <2> HIDE DEF Bad
  <2> QED
    BY <2>1, LeastNatural
<1>2. k \in 0..n /\ ~Good(k)
  BY <1>1
<1>3. after[0] = << <<>> >> /\ \A m \in 1..n : after[m] = Insert(after[m-1], records[m].pattern)
  BY DEF NodesAfter
<1>4. CASE k = 0
  <2> DEFINE root == << <<>> >>
  <2>1. root \in Seq(Seq(Byte)) /\ Len(root) = 1 /\ root[1] = <<>> /\ DOMAIN root = 1..1
    BY EmptySeq
  <2>2. WordsOf(root) = {<<>>}
    BY <2>1 DEF WordsOf
  <2>3. IsTrie(WordsOf(root))
    BY <2>2, EmptySeq DEF IsTrie
  <2>4. AreNodes(root)
    BY <2>1, <2>3 DEF AreNodes
  <2> QED
    BY <1>2, <1>3, <1>4, <2>4
<1>5. CASE k # 0
  <2>1. k \in 1..n /\ k - 1 \in 0..n /\ ~(k <= k - 1)
    BY <1>2, <1>5
  <2>2. Good(k - 1)
    BY <1>1, <2>1
  <2> DEFINE old == after[k-1]
             pattern == records[k].pattern
  <2>3. AreNodes(old) /\ pattern \in Seq(Byte)
    BY <2>1, <2>2
  <2>4. /\ AreNodes(Insert(old, pattern))
        /\ Extends(Insert(old, pattern), old)
        /\ pattern \in WordsOf(Insert(old, pattern))
    BY <2>3, InsertFacts
  <2>5. after[k] = Insert(old, pattern)
    BY <1>3, <2>1
  <2>6. ASSUME NEW w \in WordsOf(old)
        PROVE  w \in WordsOf(after[k])
    <3>1. PICK i \in 1..Len(old) : w = old[i]
      BY <2>3, LenProperties DEF WordsOf, AreNodes
    <3>2. Len(old) \in Nat /\ Len(after[k]) \in Nat /\ DOMAIN after[k] = 1..Len(after[k])
      BY <2>3, <2>4, <2>5, LenProperties DEF AreNodes
    <3>3. Len(old) <= Len(after[k]) /\ after[k][i] = old[i]
      BY <2>4, <2>5, <3>1 DEF Extends
    <3>4. i \in 1..Len(after[k])
      BY <3>1, <3>2, <3>3
    <3> QED
      BY <3>1, <3>2, <3>3, <3>4 DEF WordsOf
  <2>7. \A j \in 1..k : j \in 1..k - 1 \/ j = k
    BY <2>1
  <2>8. \A j \in 1..k : records[j].pattern \in WordsOf(after[k])
    BY <2>2, <2>4, <2>5, <2>6, <2>7
  <2> QED
    BY <1>2, <2>4, <2>5, <2>8
<1> QED
  BY <1>4, <1>5

\* Records in front of others lead to the same nodes, whatever follows.
LEMMA NodesAfterGrow ==
  ASSUME NEW records, NEW more, NEW m \in Nat, NEW n \in Nat, m <= n,
         \A k \in 1..n : more[k].pattern \in Seq(Byte),
         \A k \in 1..m : more[k].pattern = records[k].pattern,
         NEW before, NodesAfter(before, records, m),
         NEW after, NodesAfter(after, more, n)
  PROVE  Extends(after[n], before[m])
<1>1. /\ before[0] = << <<>> >> /\ after[0] = << <<>> >>
      /\ \A k \in 1..m : before[k] = Insert(before[k-1], records[k].pattern)
      /\ \A k \in 1..n : after[k] = Insert(after[k-1], more[k].pattern)
  BY DEF NodesAfter
<1>2. before[m] = after[m]
  <2> DEFINE Bad == {k \in 0..m : before[k] # after[k]}
  <2> SUFFICES ASSUME Bad # {} PROVE FALSE
    OBVIOUS
  <2>1. PICK k \in Bad : \A j \in Bad : k <= j
    <3>1. Bad \subseteq Nat
      OBVIOUS
    <3> HIDE DEF Bad
    <3> QED
      BY <3>1, LeastNatural
  <2>2. k \in 0..m /\ before[k] # after[k]
    BY <2>1
  <2>5. k # 0
    BY <1>1, <2>2
  <2>3. k \in 1..m /\ k \in 1..n /\ k - 1 \in 0..m /\ ~(k <= k - 1)
    BY <2>2, <2>5
  <2>4. before[k-1] = after[k-1]
    BY <2>1, <2>3
  <2> QED
    BY <1>1, <2>2, <2>3, <2>4
<1>3. \A k \in 0..n : AreNodes(after[k])
  BY NodesAfterFacts
<1>4. Extends(after[n], after[m])
  <2> DEFINE Bad == {k \in m..n : ~Extends(after[k], after[m])}
  <2> SUFFICES ASSUME Bad # {} PROVE FALSE
    OBVIOUS
  <2>1. PICK k \in Bad : \A j \in Bad : k <= j
    <3>1. Bad \subseteq Nat
      OBVIOUS
    <3> HIDE DEF Bad
    <3> QED
      BY <3>1, LeastNatural
  <2>2. k \in m..n /\ ~Extends(after[k], after[m])
    BY <2>1
  <2>3. Len(after[m]) \in Nat
    BY <1>3, LenProperties DEF AreNodes
  <2>4. k # m
    BY <2>2, <2>3 DEF Extends
  <2>5. k \in 1..n /\ k - 1 \in 0..n /\ k - 1 \in m..n /\ ~(k <= k - 1)
    BY <2>2, <2>4
  <2>6. Extends(after[k-1], after[m])
    BY <2>1, <2>5
  <2>7. Extends(after[k], after[k-1])
    BY <1>1, <1>3, <2>5, InsertFacts
  <2>8. Len(after[k]) \in Nat /\ Len(after[k-1]) \in Nat
    BY <1>3, <2>5, LenProperties DEF AreNodes
  <2>9. \A i \in 1..Len(after[m]) : i \in 1..Len(after[k-1])
    BY <2>3, <2>6, <2>8 DEF Extends
  <2>10. Extends(after[k], after[m])
    BY <2>3, <2>6, <2>7, <2>8, <2>9 DEF Extends
  <2> QED
    BY <2>2, <2>10
<1> QED
  BY <1>2, <1>4

\* The nodes of a database: a trie that holds every pattern, and a longer
\* database only adds to them.
LEMMA NodesFacts ==
  ASSUME NEW records \in Seq(AvRecords)
  PROVE  /\ AreNodes(Nodes(records))
         /\ \A k \in 1..Len(records) : records[k].pattern \in WordsOf(Nodes(records))
<1> DEFINE n == Len(records)
           after == CHOOSE f : NodesAfter(f, records, n)
<1>1. n \in Nat /\ \A k \in 1..n : records[k].pattern \in Seq(Byte)
  <2>1. n \in Nat /\ \A k \in 1..n : records[k] \in AvRecords
    BY ElementOfSeq, LenProperties
  <2> QED
    BY <2>1 DEF AvRecords
<1>2. NodesAfter(after, records, n)
  BY <1>1, NodesAfterExists
<1>3. Nodes(records) = after[n]
  BY DEF Nodes, NodesAfter
<1> HIDE DEF after, n
<1>4. n \in 0..n
  BY <1>1
<1>5. AreNodes(after[n]) /\ \A k \in 1..n : records[k].pattern \in WordsOf(after[n])
  BY <1>1, <1>2, <1>4, NodesAfterFacts
<1> QED
  BY <1>3, <1>5 DEF n

\* A release with more records has the nodes of the smaller one first.
LEMMA NodesGrow ==
  ASSUME NEW records \in Seq(AvRecords), NEW added \in Seq(AvRecords)
  PROVE  Extends(Nodes(records \o added), Nodes(records))
<1> DEFINE more == records \o added
           m == Len(records)
           n == Len(more)
           before == CHOOSE f : NodesAfter(f, records, m)
           after == CHOOSE f : NodesAfter(f, more, n)
<1>1. /\ m \in Nat /\ n \in Nat /\ m <= n
      /\ \A k \in 1..m : more[k] = records[k]
      /\ more \in Seq(AvRecords)
  BY ConcatProperties, LenProperties
<1> HIDE DEF more
<1>2. \A k \in 1..n : more[k].pattern \in Seq(Byte)
  <2>1. \A k \in 1..n : more[k] \in AvRecords
    BY <1>1, ElementOfSeq
  <2> QED
    BY <2>1 DEF AvRecords
<1>3. Nodes(records) = before[m] /\ Nodes(more) = after[n]
  BY DEF Nodes, NodesAfter
<1>4. NodesAfter(before, records, m) /\ NodesAfter(after, more, n)
  BY <1>1, NodesAfterExists
<1> HIDE DEF before, after, m, n
<1>5. \A k \in 1..m : more[k].pattern = records[k].pattern
  BY <1>1
<1>6. Extends(after[n], before[m])
  BY <1>1, <1>2, <1>4, <1>5, NodesAfterGrow
<1> QED
  BY <1>3, <1>6 DEF more
-----------------------------------------------------------------------------
(* The outputs of the nodes                                                 *)

\* The recursive function of Own, for the first n records.
OwnAfter(own, records, word, n) ==
  own = [k \in 0..n |-> IF k = 0 THEN <<>>
                        ELSE IF records[k].pattern = word THEN Append(own[k-1], k)
                             ELSE own[k-1]]

\* The recursion over the records defines a function.
LEMMA OwnAfterExists ==
  ASSUME NEW records, NEW word, NEW n \in Nat
  PROVE  \E own : OwnAfter(own, records, word, n)
<1> DEFINE Missing == {m \in Nat : ~\E own : OwnAfter(own, records, word, m)}
           Turn(own, k) == IF records[k].pattern = word THEN Append(own[k-1], k)
                           ELSE own[k-1]
<1> SUFFICES ASSUME Missing # {} PROVE FALSE
  OBVIOUS
<1>1. PICK m \in Missing : \A k \in Missing : m <= k
  <2>1. Missing \subseteq Nat
    OBVIOUS
  <2> HIDE DEF Missing
  <2> QED
    BY <2>1, LeastNatural
<1>2. m \in Nat /\ ~\E own : OwnAfter(own, records, word, m)
  BY <1>1
<1>3. CASE m = 0
  <2> DEFINE first == [k \in 0..0 |-> <<>>]
  <2>1. OwnAfter(first, records, word, 0)
    BY DEF OwnAfter
  <2> QED
    BY <1>2, <1>3, <2>1
<1>4. CASE m # 0
  <2>1. m - 1 \in Nat /\ ~(m <= m - 1)
    BY <1>2, <1>4
  <2>2. PICK before : OwnAfter(before, records, word, m - 1)
    BY <1>1, <2>1
  <2> DEFINE own == [k \in 0..m |-> IF k = m THEN Turn(before, k) ELSE before[k]]
             again == [k \in 0..m |-> IF k = 0 THEN <<>> ELSE Turn(own, k)]
  <2>3. ASSUME NEW k \in 0..m
        PROVE  own[k] = again[k]
    <3>1. CASE k = m
      <4>1. m - 1 \in 0..m /\ m - 1 # m
        BY <1>2, <1>4
      <4>2. own[k-1] = before[k-1]
        BY <3>1, <4>1
      <4> QED
        BY <1>4, <3>1, <4>2
    <3>2. CASE k = 0
      <4>1. before[0] = <<>>
        BY <2>1, <2>2 DEF OwnAfter
      <4> QED
        BY <1>4, <3>2, <4>1
    <3>3. CASE k # 0 /\ k # m
      <4>1. k - 1 \in 0..m /\ k - 1 # m /\ k \in 0..m - 1
        BY <1>2, <3>3
      <4>2. own[k-1] = before[k-1] /\ own[k] = before[k]
        BY <3>3, <4>1
      <4>3. before[k] = Turn(before, k)
        BY <2>2, <3>3, <4>1 DEF OwnAfter
      <4> QED
        BY <3>3, <4>2, <4>3
    <3> QED
      BY <3>1, <3>2, <3>3
  <2>4. own = [k \in 0..m |-> own[k]] /\ again = [k \in 0..m |-> again[k]]
    OBVIOUS
  <2>5. own = again
    <3> HIDE DEF own, again
    <3> QED
      BY <2>3, <2>4
  <2>6. OwnAfter(own, records, word, m)
    BY <2>5 DEF OwnAfter
  <2> QED
    BY <1>2, <2>6
<1> QED
  BY <1>3, <1>4

\* list holds exactly the numbers for which the set has them.
Lists(list, set) == /\ list \in Seq(Nat)
                    /\ \A k : k \in set <=> \E i \in 1..Len(list) : list[i] = k

\* Own lists the records of a pattern.
LEMMA OwnFacts ==
  ASSUME NEW records \in Seq(AvRecords), NEW word
  PROVE  Lists(Own(records, word), {k \in 1..Len(records) : records[k].pattern = word})
<1> DEFINE n == Len(records)
           own == CHOOSE f : OwnAfter(f, records, word, n)
           Which(m) == {k \in 1..m : records[k].pattern = word}
           Bad == {m \in 0..n : ~Lists(own[m], Which(m))}
<1>1. n \in Nat
  BY LenProperties
<1>2. OwnAfter(own, records, word, n)
  BY <1>1, OwnAfterExists
<1>3. Own(records, word) = own[n]
  BY DEF Own, OwnAfter
<1> HIDE DEF own, n
<1>4. SUFFICES ASSUME Bad # {} PROVE FALSE
  <2>1. SUFFICES Lists(own[n], Which(n))
    BY <1>3 DEF n
  <2> HIDE DEF Which
  <2> QED
    BY <1>1
<1>5. PICK m \in Bad : \A j \in Bad : m <= j
  <2>1. Bad \subseteq Nat
    OBVIOUS
  <2> HIDE DEF Bad
  <2> QED
    BY <1>4, <2>1, LeastNatural
<1>6. m \in 0..n /\ ~Lists(own[m], Which(m))
  BY <1>5
<1>7. own[0] = <<>> /\ \A k \in 1..n : own[k] = IF records[k].pattern = word
                                               THEN Append(own[k-1], k) ELSE own[k-1]
  <2>1. \A k \in 0..n : own[k] = IF k = 0 THEN <<>>
                                 ELSE IF records[k].pattern = word
                                      THEN Append(own[k-1], k) ELSE own[k-1]
    BY <1>2 DEF OwnAfter
  <2>2. 0 \in 0..n /\ \A k \in 1..n : k \in 0..n /\ k # 0
    BY <1>1
  <2> QED
    BY <2>1, <2>2
<1>8. CASE m = 0
  <2>1. own[0] \in Seq(Nat) /\ 1..Len(own[0]) = {}
    BY <1>7, EmptySeq
  <2>2. Which(0) = {}
    OBVIOUS
  <2>3. Lists(own[0], Which(0))
    BY <2>1, <2>2 DEF Lists
  <2> QED
    BY <1>6, <1>8, <2>3
<1>9. CASE m # 0
  <2> DEFINE old == own[m-1]
             new == own[m]
  <2>1. m \in 1..n /\ m \in Nat /\ m - 1 \in 0..n /\ ~(m <= m - 1)
    <3>1. m \in 0..n
      BY <1>6
    <3> QED
      BY <1>1, <1>9, <3>1
  <2>2. Lists(old, Which(m - 1))
    BY <1>5, <2>1
  <2>3. \A k : k \in 1..m <=> k \in 1..m - 1 \/ k = m
    BY <2>1
  <2>4. new = IF records[m].pattern = word THEN Append(old, m) ELSE old
    BY <1>7, <2>1
  <2> HIDE DEF old, new
  <2>5. CASE records[m].pattern # word
    <3>1. \A k : k \in Which(m) <=> k \in Which(m - 1)
      BY <2>3, <2>5
    <3>2. Lists(new, Which(m))
      BY <2>2, <2>4, <2>5, <3>1 DEF Lists
    <3> QED
      BY <1>6, <3>2 DEF new
  <2>6. CASE records[m].pattern = word
    <3>1. \A k : k \in Which(m) <=> k \in Which(m - 1) \/ k = m
      BY <2>3, <2>6
    <3> HIDE DEF Which
    <3>2. old \in Seq(Nat) /\ Len(old) \in Nat
      BY <2>2, LenProperties DEF Lists
    <3>3. /\ new \in Seq(Nat) /\ Len(new) = Len(old) + 1
          /\ \A i \in 1..Len(old) : new[i] = old[i]
          /\ new[Len(old) + 1] = m
      BY <2>1, <2>4, <2>6, <3>2, AppendProperties
    <3>4. \A i : i \in 1..Len(new) <=> i \in 1..Len(old) \/ i = Len(old) + 1
      BY <3>2, <3>3
    <3>5. \A k : (\E i \in 1..Len(new) : new[i] = k)
                   <=> (\E i \in 1..Len(old) : old[i] = k) \/ k = m
      BY <3>3, <3>4
    <3>6. Lists(new, Which(m))
      BY <2>2, <3>1, <3>3, <3>5 DEF Lists
    <3> QED
      BY <1>6, <3>6 DEF new
  <2> QED
    BY <2>5, <2>6
<1> QED
  BY <1>8, <1>9

\* The recursive function of Outputs, on some of the words.
OutOn(out, some, records, failure) ==
  out = [w \in some |-> IF Len(w) <= 1 THEN Own(records, w)
                        ELSE Own(records, w) \o out[failure[w]]]
UpTo(words, n) == {w \in words : Len(w) <= n}

\* Failure links lead to shorter words.
Shortens(failure, words) ==
  \A w \in words : Len(w) > 1 => failure[w] \in words /\ Len(failure[w]) < Len(w)

\* There is at most one such function on the words up to a length.
LEMMA OutUnique ==
  ASSUME NEW words, IsTrie(words), NEW records, NEW failure, Shortens(failure, words),
         NEW m \in Nat, NEW n \in Nat, m <= n,
         NEW f, OutOn(f, UpTo(words, m), records, failure),
         NEW g, OutOn(g, UpTo(words, n), records, failure)
  PROVE  \A w \in UpTo(words, m) : f[w] = g[w]
<1> DEFINE Wrong == {Len(w) : w \in {v \in UpTo(words, m) : f[v] # g[v]}}
<1> SUFFICES ASSUME Wrong # {} PROVE FALSE
  OBVIOUS
<1>1. \A w \in words : Len(w) \in Nat
  BY LenProperties DEF IsTrie
<1>2. PICK k \in Wrong : \A j \in Wrong : k <= j
  <2>1. Wrong \subseteq Nat
    BY <1>1 DEF UpTo
  <2> HIDE DEF Wrong
  <2> QED
    BY <2>1, LeastNatural
<1>3. PICK w \in UpTo(words, m) : k = Len(w) /\ f[w] # g[w]
  BY <1>2
<1>4. w \in words /\ Len(w) \in Nat /\ Len(w) <= m /\ Len(w) <= n
  BY <1>1, <1>3 DEF UpTo
<1>5. w \in UpTo(words, n)
  BY <1>4 DEF UpTo
<1>6. CASE Len(w) <= 1
  BY <1>3, <1>5, <1>6 DEF OutOn
<1>7. CASE Len(w) > 1
  <2> DEFINE v == failure[w]
  <2>1. v \in words /\ Len(v) \in Nat /\ Len(v) < Len(w)
    BY <1>1, <1>4, <1>7 DEF Shortens
  <2>2. ~(Len(w) <= 1)
    BY <1>4, <1>7
  <2>3. v \in UpTo(words, m) /\ ~(k <= Len(v))
    BY <1>3, <1>4, <2>1 DEF UpTo
  <2>4. f[v] = g[v]
    BY <1>2, <2>3
  <2>5. f[w] = Own(records, w) \o f[v] /\ g[w] = Own(records, w) \o g[v]
    BY <1>3, <1>5, <2>2 DEF OutOn
  <2> QED
    BY <1>3, <2>4, <2>5
<1> QED
  BY <1>4, <1>6, <1>7

\* There is one.
LEMMA OutUpToExists ==
  ASSUME NEW words, IsTrie(words), NEW records, NEW failure, Shortens(failure, words),
         NEW n \in Nat
  PROVE  \E out : OutOn(out, UpTo(words, n), records, failure)
<1> DEFINE Missing == {m \in Nat : ~\E out : OutOn(out, UpTo(words, m), records, failure)}
           Turn(out, w) == IF Len(w) <= 1 THEN Own(records, w)
                           ELSE Own(records, w) \o out[failure[w]]
<1> SUFFICES ASSUME Missing # {} PROVE FALSE
  OBVIOUS
<1>1. \A w \in words : Len(w) \in Nat
  BY LenProperties DEF IsTrie
<1>2. PICK m \in Missing : \A k \in Missing : m <= k
  <2>1. Missing \subseteq Nat
    OBVIOUS
  <2> HIDE DEF Missing
  <2> QED
    BY <2>1, LeastNatural
<1>3. m \in Nat /\ ~\E out : OutOn(out, UpTo(words, m), records, failure)
  BY <1>2
<1>4. CASE m = 0
  <2> DEFINE first == [w \in UpTo(words, 0) |-> Own(records, w)]
             again == [w \in UpTo(words, 0) |-> Turn(first, w)]
  <2>1. \A w \in UpTo(words, 0) : Len(w) <= 1
    BY <1>1 DEF UpTo
  <2>2. first = again
    BY <2>1
  <2>3. OutOn(first, UpTo(words, 0), records, failure)
    BY <2>2 DEF OutOn
  <2> QED
    BY <1>3, <1>4, <2>3
<1>5. CASE m # 0
  <2>1. m - 1 \in Nat /\ ~(m <= m - 1)
    BY <1>3, <1>5
  <2>2. PICK before : OutOn(before, UpTo(words, m - 1), records, failure)
    BY <1>2, <2>1
  <2> DEFINE out == [w \in UpTo(words, m) |-> IF Len(w) <= m - 1 THEN before[w]
                                              ELSE Turn(before, w)]
             again == [w \in UpTo(words, m) |-> Turn(out, w)]
  <2>3. ASSUME NEW w \in UpTo(words, m)
        PROVE  out[w] = again[w]
    <3>1. w \in words /\ Len(w) \in Nat /\ Len(w) <= m
      BY <1>1 DEF UpTo
    <3>2. out[w] = Turn(before, w)
      <4>1. CASE Len(w) <= m - 1
        <5>1. w \in UpTo(words, m - 1)
          BY <3>1, <4>1 DEF UpTo
        <5> QED
          BY <2>2, <4>1, <5>1 DEF OutOn
      <4>2. CASE ~(Len(w) <= m - 1)
        BY <4>2
      <4> QED
        BY <4>1, <4>2
    <3>3. CASE Len(w) <= 1
      BY <3>2, <3>3
    <3>4. CASE ~(Len(w) <= 1)
      <4>1. Len(w) > 1
        BY <3>1, <3>4
      <4>2. failure[w] \in words /\ Len(failure[w]) < Len(w) /\ Len(failure[w]) \in Nat
        BY <1>1, <3>1, <4>1 DEF Shortens
      <4>3. failure[w] \in UpTo(words, m) /\ Len(failure[w]) <= m - 1
        BY <1>3, <3>1, <4>2 DEF UpTo
      <4>4. out[failure[w]] = before[failure[w]]
        BY <4>3
      <4> QED
        BY <3>2, <3>4, <4>4
    <3> QED
      BY <3>3, <3>4
  <2>4. /\ out = [w \in UpTo(words, m) |-> out[w]]
        /\ again = [w \in UpTo(words, m) |-> again[w]]
    OBVIOUS
  <2>5. out = again
    <3> HIDE DEF out, again
    <3> QED
      BY <2>3, <2>4
  <2>6. OutOn(out, UpTo(words, m), records, failure)
    BY <2>5 DEF OutOn
  <2> QED
    BY <1>3, <2>6
<1> QED
  BY <1>4, <1>5

\* Outputs is that function on all words.
LEMMA OutputsSatisfy ==
  ASSUME NEW words, IsTrie(words), NEW records, NEW failure, Shortens(failure, words)
  PROVE  OutOn(Outputs(records, words, failure), words, records, failure)
<1> DEFINE Turn(out, w) == IF Len(w) <= 1 THEN Own(records, w)
                           ELSE Own(records, w) \o out[failure[w]]
           Part(n) == CHOOSE f : OutOn(f, UpTo(words, n), records, failure)
           whole == [w \in words |-> Part(Len(w))[w]]
           again == [w \in words |-> Turn(whole, w)]
<1>1. \A w \in words : Len(w) \in Nat
  BY LenProperties DEF IsTrie
<1>2. \A n \in Nat : OutOn(Part(n), UpTo(words, n), records, failure)
  BY OutUpToExists
<1> HIDE DEF Part
<1>3. ASSUME NEW w \in words
      PROVE  whole[w] = again[w]
  <2>1. w \in UpTo(words, Len(w)) /\ Len(w) \in Nat
    BY <1>1 DEF UpTo
  <2>2. Part(Len(w))[w] = Turn(Part(Len(w)), w)
    BY <1>2, <2>1 DEF OutOn
  <2>3. CASE Len(w) <= 1
    BY <2>2, <2>3
  <2>4. CASE ~(Len(w) <= 1)
    <3> DEFINE v == failure[w]
    <3>1. v \in words /\ Len(v) \in Nat /\ Len(v) <= Len(w)
      BY <1>1, <2>1, <2>4 DEF Shortens
    <3>2. v \in UpTo(words, Len(v))
      BY <3>1 DEF UpTo
    <3>3. Part(Len(v))[v] = Part(Len(w))[v]
      <4>1. /\ OutOn(Part(Len(v)), UpTo(words, Len(v)), records, failure)
            /\ OutOn(Part(Len(w)), UpTo(words, Len(w)), records, failure)
        BY <1>2, <2>1, <3>1
      <4>2. \A u \in UpTo(words, Len(v)) : Part(Len(v))[u] = Part(Len(w))[u]
        BY <2>1, <3>1, <4>1, OutUnique
      <4> QED
        BY <3>2, <4>2
    <3>4. whole[v] = Part(Len(v))[v]
      BY <3>1
    <3> QED
      BY <2>2, <2>4, <3>3, <3>4
  <2> QED
    BY <2>3, <2>4
<1>4. whole = [w \in words |-> whole[w]] /\ again = [w \in words |-> again[w]]
  OBVIOUS
<1>5. whole = again
  <2> HIDE DEF whole, again
  <2> QED
    BY <1>3, <1>4
<1>6. OutOn(whole, words, records, failure)
  BY <1>5 DEF OutOn
<1>7. Outputs(records, words, failure) = CHOOSE f : OutOn(f, words, records, failure)
  BY DEF Outputs, OutOn
<1> HIDE DEF whole
<1> QED
  BY <1>6, <1>7

\* Concatenation of two lists.
LEMMA ListsConcat ==
  ASSUME NEW first, NEW second, NEW S, NEW T, Lists(first, S), Lists(second, T)
  PROVE  Lists(first \o second, S \cup T)
<1> DEFINE both == first \o second
           m == Len(first)
           n == Len(second)
<1>1. /\ first \in Seq(Nat) /\ second \in Seq(Nat)
      /\ \A k : k \in S <=> \E i \in 1..m : first[i] = k
      /\ \A k : k \in T <=> \E i \in 1..n : second[i] = k
  BY DEF Lists
<1>2. m \in Nat /\ n \in Nat
  BY <1>1, LenProperties
<1>3. /\ both \in Seq(Nat) /\ Len(both) = m + n
      /\ \A i \in 1..m + n : both[i] = IF i <= m THEN first[i] ELSE second[i - m]
  BY <1>1, ConcatProperties
<1> HIDE DEF both, m, n
<1>4. ASSUME NEW k \in S
      PROVE  \E i \in 1..m + n : both[i] = k
  <2>1. PICK i \in 1..m : first[i] = k
    BY <1>1
  <2>2. i \in 1..m + n /\ i <= m
    BY <1>2
  <2> QED
    BY <1>3, <2>1, <2>2
<1>5. ASSUME NEW k \in T
      PROVE  \E i \in 1..m + n : both[i] = k
  <2>1. PICK i \in 1..n : second[i] = k
    BY <1>1
  <2>2. m + i \in 1..m + n /\ ~(m + i <= m) /\ (m + i) - m = i
    BY <1>2
  <2> QED
    BY <1>3, <2>1, <2>2
<1>6. ASSUME NEW i \in 1..m + n
      PROVE  both[i] \in S \cup T
  <2>1. CASE i <= m
    <3>1. i \in 1..m
      BY <1>2, <2>1
    <3> QED
      BY <1>1, <1>3, <2>1, <3>1
  <2>2. CASE ~(i <= m)
    <3>1. i - m \in 1..n
      BY <1>2, <2>2
    <3> QED
      BY <1>1, <1>3, <2>2, <3>1
  <2> QED
    BY <2>1, <2>2
<1>7. \A k : k \in S \cup T <=> \E i \in 1..Len(both) : both[i] = k
  BY <1>3, <1>4, <1>5, <1>6
<1> QED
  BY <1>3, <1>7 DEF Lists, both

\* A node is given records whose signature ends its word, and all of those that
\* have a signature.
THEOREM OutputsFacts ==
  ASSUME NEW words, IsTrie(words), NEW records \in Seq(AvRecords), NEW w \in words
  PROVE  LET out == Outputs(records, words, Failures(words))
         IN  /\ DOMAIN out[w] \subseteq Nat
             /\ \A i \in DOMAIN out[w] : /\ out[w][i] \in 1..Len(records)
                                         /\ IsSuffix(records[out[w][i]].pattern, w)
             /\ \A k \in 1..Len(records) :
                  /\ records[k].pattern # <<>>
                  /\ records[k].pattern \in words
                  /\ IsSuffix(records[k].pattern, w)
                  => \E i \in DOMAIN out[w] : out[w][i] = k
<1> DEFINE failure == Failures(words)
           out == Outputs(records, words, failure)
           Ending(v) == {k \in 1..Len(records) : /\ records[k].pattern # <<>>
                                                 /\ records[k].pattern \in words
                                                 /\ IsSuffix(records[k].pattern, v)}
           Matching(v) == {k \in 1..Len(records) : IsSuffix(records[k].pattern, v)}
           Good(v) == \E set : /\ Lists(out[v], set)
                               /\ set \subseteq Matching(v)
                               /\ Ending(v) \subseteq set
           OwnSet(v) == {k \in 1..Len(records) : records[k].pattern = v}
<1>1. \A v \in words : v \in Seq(Byte) /\ Len(v) \in Nat
  BY LenProperties DEF IsTrie
<1>2. \A v \in words : failure[v] = Link(words, v)
  BY FailuresAreLinks
<1> HIDE DEF failure
<1>3. \A v \in words : v # <<>> => /\ failure[v] \in words /\ Len(failure[v]) < Len(v)
                                   /\ IsLongest(failure[v], words, v, Len(v) - 1)
  BY <1>2, LinkFacts
<1>4. \A v \in words : Len(v) > 1 => v # <<>>
  BY EmptySeq
<1>5. Shortens(failure, words)
  BY <1>3, <1>4 DEF Shortens
<1>6. OutOn(out, words, records, failure)
  BY <1>5, OutputsSatisfy
<1> HIDE DEF out
<1>7. /\ \A v \in words : Len(v) <= 1 => out[v] = Own(records, v)
      /\ \A v \in words : ~(Len(v) <= 1) => out[v] = Own(records, v) \o out[failure[v]]
  BY <1>6 DEF OutOn
<1>8. \A v \in words : Lists(Own(records, v), OwnSet(v))
  BY OwnFacts
\* A signature that ends a word is the word, or ends its failure node's word.
<1>9. ASSUME NEW v \in words, NEW k \in Ending(v)
      PROVE  \/ k \in OwnSet(v)
             \/ Len(v) > 1 /\ k \in Ending(failure[v])
  <2> DEFINE p == records[k].pattern
  <2>1. p # <<>> /\ p \in words /\ IsSuffix(p, v) /\ k \in 1..Len(records)
    OBVIOUS
  <2> SUFFICES ASSUME p # v
               PROVE  Len(v) > 1 /\ k \in Ending(failure[v])
    BY <2>1
  <2> HIDE DEF p
  <2>2. p \in Seq(Byte) /\ v \in Seq(Byte) /\ Len(p) \in Nat \ {0} /\ Len(v) \in Nat
    BY <1>1, <2>1, EmptySeq
  <2>3. ~(Len(v) <= Len(p))
    BY <2>1, <2>2, SuffixWhole
  <2>4. Len(v) > 1 /\ Len(p) <= Len(v) - 1
    BY <2>2, <2>3
  <2>5. /\ failure[v] \in words /\ failure[v] \in Seq(Byte)
        /\ IsLongest(failure[v], words, v, Len(v) - 1)
    BY <1>1, <1>3, <1>4, <2>4
  <2>6. Len(p) <= Len(failure[v]) /\ IsSuffix(failure[v], v)
    BY <2>1, <2>4, <2>5 DEF IsLongest
  <2>7. IsSuffix(p, failure[v])
    BY <2>1, <2>2, <2>5, <2>6, SuffixNested
  <2> QED
    BY <2>1, <2>4, <2>7 DEF p
<1>10. ASSUME NEW v \in words, Len(v) <= 1
       PROVE  Good(v)
  <2>1. Ending(v) \subseteq OwnSet(v)
    BY <1>1, <1>9, <1>10
  <2>2. Lists(out[v], OwnSet(v)) /\ OwnSet(v) \subseteq Matching(v)
    BY <1>1, <1>7, <1>8, <1>10, SuffixEnds
  <2> HIDE DEF OwnSet, Ending, Matching
  <2> QED
    BY <2>1, <2>2
<1>11. ASSUME NEW v \in words, ~(Len(v) <= 1), Good(failure[v])
       PROVE  Good(v)
  <2>1. PICK set : /\ Lists(out[failure[v]], set)
                   /\ set \subseteq Matching(failure[v])
                   /\ Ending(failure[v]) \subseteq set
    BY <1>11
  <2>2. Ending(v) \subseteq OwnSet(v) \cup set
    <3> HIDE DEF OwnSet, Ending
    <3> QED
      BY <1>9, <2>1
  <2>3. Lists(out[v], OwnSet(v) \cup set)
    <3> HIDE DEF OwnSet, Matching
    <3> QED
      <4>1. out[v] = Own(records, v) \o out[failure[v]]
        BY <1>7, <1>11
      <4>2. Lists(Own(records, v), OwnSet(v))
        BY <1>8
      <4>3. Lists(Own(records, v) \o out[failure[v]], OwnSet(v) \cup set)
        BY <2>1, <4>2, ListsConcat
      <4> QED
        BY <4>1, <4>3
  <2>4. OwnSet(v) \cup set \subseteq Matching(v)
    <3>1. OwnSet(v) \subseteq Matching(v)
      BY <1>1, SuffixEnds
    <3>2. ASSUME NEW k \in Matching(failure[v])
          PROVE  k \in Matching(v)
      <4>1. records[k].pattern \in Seq(Byte)
        <5>1. records[k] \in AvRecords
          BY ElementOfSeq
        <5> QED
          BY <5>1 DEF AvRecords
      <4>2. failure[v] \in Seq(Byte) /\ IsSuffix(failure[v], v) /\ v \in Seq(Byte)
        <5>1. v # <<>>
          BY <1>11, EmptySeq
        <5> QED
          BY <1>1, <1>3, <5>1 DEF IsLongest
      <4> QED
        BY <4>1, <4>2, SuffixTransitive
    <3> HIDE DEF OwnSet, Matching
    <3> QED
      BY <2>1, <3>1, <3>2
  <2> HIDE DEF OwnSet, Ending, Matching
  <2> QED
    BY <2>2, <2>3, <2>4
<1> HIDE DEF Good
<1>12. Good(w)
  <2> DEFINE Bad == {Len(v) : v \in {u \in words : ~Good(u)}}
  <2> SUFFICES ASSUME Bad # {} PROVE FALSE
    OBVIOUS
  <2>1. PICK n \in Bad : \A j \in Bad : n <= j
    <3>1. Bad \subseteq Nat
      BY <1>1
    <3> HIDE DEF Bad
    <3> QED
      BY <3>1, LeastNatural
  <2>2. PICK v \in words : n = Len(v) /\ ~Good(v)
    BY <2>1
  <2>3. ~(Len(v) <= 1)
    BY <1>10, <2>2
  <2>4. /\ failure[v] \in words /\ Len(failure[v]) < Len(v)
        /\ Len(failure[v]) \in Nat /\ Len(v) \in Nat
    BY <1>1, <1>3, <1>4, <2>3
  <2>5. Len(failure[v]) \notin Bad
    BY <2>1, <2>2, <2>4
  <2>6. Good(failure[v])
    BY <2>4, <2>5
  <2> QED
    BY <1>11, <2>2, <2>3, <2>6
<1>13. PICK set : Lists(out[w], set) /\ set \subseteq Matching(w) /\ Ending(w) \subseteq set
  BY <1>12 DEF Good
<1>14. DOMAIN out[w] = 1..Len(out[w])
  BY <1>13, LenProperties DEF Lists
<1>15. \A i \in DOMAIN out[w] : out[w][i] \in Matching(w)
  BY <1>13, <1>14 DEF Lists
<1>16. \A k \in Ending(w) : \E i \in DOMAIN out[w] : out[w][i] = k
  <2> HIDE DEF Ending
  <2> QED
    BY <1>13, <1>14 DEF Lists
<1>17. DOMAIN out[w] \subseteq Nat
  BY <1>14
<1> QED
  BY <1>15, <1>16, <1>17 DEF out, failure
-----------------------------------------------------------------------------
(* The two databases                                                        *)

\* The databases of an installation and their automata: the update adds
\* records, and with them nodes.
LEMMA DatabaseFacts ==
  ASSUME pair \in Pairs
  PROVE  /\ Default \in Seq(AvRecords) /\ Updated \in Seq(AvRecords)
         /\ Default # <<>>
         /\ Len(Default) \in Nat \ {0} /\ Len(Updated) \in Nat
         /\ Len(Default) <= Len(Updated)
         /\ Updated # Default => Len(Default) < Len(Updated)
         /\ \A k \in 1..Len(Default) : Updated[k] = Default[k]
         /\ DOMAIN Default = 1..Len(Default) /\ DOMAIN Updated = 1..Len(Updated)
         /\ Built[Default] = Automaton(Default)
         /\ Built[Updated] = Automaton(Updated)
<1> DEFINE m == Len(pair[1])
           n == Len(pair[2])
<1>1. pair[1] \in Seq(AvRecords) /\ pair[2] \in Seq(AvRecords) /\ pair[1] # <<>>
  BY PairsAssumption
<1>2. Default \in Databases /\ Updated \in Databases
  BY DEF Databases, Default, Updated
<1>3. m \in Nat \ {0} /\ n \in Nat
  BY <1>1, EmptySeq, LenProperties
<1>4. /\ Updated \in Seq(AvRecords) /\ Len(Updated) = m + n
      /\ \A k \in 1..m + n :
           Updated[k] = IF k <= m THEN pair[1][k] ELSE pair[2][k - m]
  BY <1>1, ConcatProperties DEF Updated
<1>5. pair[2] = <<>> => Updated = Default
  BY <1>1, ConcatEmptySeq DEF Updated, Default
<1>6. pair[2] # <<>> => n # 0
  BY <1>1, EmptySeq
<1>12. Default = pair[1] /\ Len(Default) = m
  BY DEF Default
<1> HIDE DEF m, n
<1>13. m + n \in Nat /\ m <= m + n /\ (n # 0 => m < m + n)
  BY <1>3
<1>7. Updated # Default => Len(Default) < Len(Updated)
  BY <1>4, <1>5, <1>6, <1>12, <1>13
<1>8. \A k \in 1..Len(Default) : Updated[k] = Default[k]
  <2> TAKE k \in 1..Len(Default)
  <2>1. k \in 1..m + n /\ k <= m
    BY <1>3, <1>12
  <2> QED
    BY <1>4, <1>12, <2>1
<1>9. DOMAIN Default = 1..Len(Default) /\ DOMAIN Updated = 1..Len(Updated)
  BY <1>1, <1>4, <1>12, LenProperties
<1>10. Built[Default] = Automaton(Default) /\ Built[Updated] = Automaton(Updated)
  BY <1>2 DEF Built
<1>11. /\ Default \in Seq(AvRecords) /\ Default # <<>> /\ Len(Default) \in Nat \ {0}
       /\ Len(Updated) \in Nat /\ Len(Default) <= Len(Updated)
  BY <1>1, <1>3, <1>4, <1>12, <1>13
<1> QED
  BY <1>4, <1>7, <1>8, <1>9, <1>10, <1>11

\* The automaton of a database, in the terms of the lemmas above.
LEMMA AutomatonFacts ==
  ASSUME NEW records \in Seq(AvRecords)
  PROVE  LET a == Automaton(records)
         IN  /\ AreNodes(a.nodes) /\ a.words = WordsOf(a.nodes) /\ IsTrie(a.words)
             /\ DOMAIN a.nodes = 1..Len(a.nodes) /\ Len(a.nodes) \in Nat \ {0}
             /\ \A k \in 1..Len(records) : records[k].pattern \in a.words
             /\ a.failure = [w \in a.words |-> Link(a.words, w)]
             /\ a.out = Outputs(records, a.words, Failures(a.words))
<1> DEFINE nodes == Nodes(records)
           words == WordsOf(nodes)
<1>1. AreNodes(nodes) /\ \A k \in 1..Len(records) : records[k].pattern \in words
  BY NodesFacts
<1>2. IsTrie(words)
  BY <1>1 DEF AreNodes
<1>3. Failures(words) = [w \in words |-> Link(words, w)]
  BY <1>2, FailuresAreLinks
<1>4. DOMAIN nodes = 1..Len(nodes) /\ Len(nodes) \in Nat \ {0}
  BY <1>1, LenProperties DEF AreNodes
<1>5. Automaton(records) = [nodes |-> nodes, words |-> words, failure |-> Failures(words),
                            out |-> Outputs(records, words, Failures(words))]
  BY DEF Automaton
<1> HIDE DEF nodes, words
<1> QED
  BY <1>1, <1>2, <1>3, <1>4, <1>5 DEF words

\* Every node of the default release is one of the updated release, at the same
\* index.
LEMMA NodesOfBoth ==
  ASSUME pair \in Pairs
  PROVE  /\ Extends(Built[Updated].nodes, Built[Default].nodes)
         /\ Built[Default].words \subseteq Built[Updated].words
<1> DEFINE D == Built[Default]
           U == Built[Updated]
<1>1. /\ D.nodes = Nodes(Default) /\ D.words = WordsOf(D.nodes)
      /\ U.nodes = Nodes(Updated) /\ U.words = WordsOf(U.nodes)
  BY DatabaseFacts DEF Automaton
<1>2. pair[1] \in Seq(AvRecords) /\ pair[2] \in Seq(AvRecords)
  BY PairsAssumption
<1>3. Extends(U.nodes, D.nodes)
  BY <1>1, <1>2, NodesGrow DEF Default, Updated
<1>4. /\ DOMAIN D.nodes = 1..Len(D.nodes) /\ Len(D.nodes) \in Nat
      /\ DOMAIN U.nodes = 1..Len(U.nodes) /\ Len(U.nodes) \in Nat
  BY DatabaseFacts, AutomatonFacts
<1> HIDE DEF D, U
<1>5. \A n \in 1..Len(D.nodes) : n \in 1..Len(U.nodes) /\ U.nodes[n] = D.nodes[n]
  BY <1>3, <1>4 DEF Extends
<1>6. D.words \subseteq U.words
  BY <1>1, <1>4, <1>5 DEF WordsOf
<1> QED
  BY <1>3, <1>6 DEF D, U

-----------------------------------------------------------------------------
(* The checks on a candidate                                                *)

\* They accept a record exactly where it occurs.
THEOREM PassesWhereItEnds ==
  ASSUME text \in Seq(Byte), NEW r \in AvRecords, NEW end \in 1..Len(text)
  PROVE  Passes(r, end) <=> EndsAt(r, end)
<1> DEFINE n == Len(r.pattern)
           start == end - n
           cut == SubSeq(text, start + 1, end)
<1>1. /\ r.pattern \in Seq(Byte) /\ n \in Nat /\ r.from \in Nat /\ r.to \in Nat
      /\ DOMAIN r.pattern = 1..n
  BY LenProperties DEF AvRecords
<1>2. Len(text) \in Nat /\ end \in Nat
  BY LenProperties
<1> HIDE DEF n
<1>3. ASSUME start >= 0
      PROVE  cut = r.pattern <=> \A i \in 1..n : text[start + i] = r.pattern[i]
  <2>1. \A i \in start + 1..end : text[i] \in Byte
    BY <1>1, <1>2, <1>3, ElementOfSeq
  <2>2. start + 1 \in Int /\ end \in Int /\ end - (start + 1) + 1 = n
    BY <1>1, <1>2
  <2>3. /\ cut \in Seq(Byte)
        /\ Len(cut) = IF start + 1 <= end THEN end - (start + 1) + 1 ELSE 0
        /\ \A i \in 1..end - (start + 1) + 1 : cut[i] = text[(start + 1) + i - 1]
    BY <2>1, <2>2, SubSeqProperties
  <2> HIDE DEF cut
  <2>4. Len(cut) = n
    BY <1>1, <1>2, <2>3
  <2>5. \A i \in 1..n : cut[i] = text[start + i]
    <3> TAKE i \in 1..n
    <3>1. (start + 1) + i - 1 = start + i
      BY <1>1, <1>2
    <3>2. cut[i] = text[(start + 1) + i - 1]
      BY <2>2, <2>3
    <3> QED
      BY <3>1, <3>2
  <2>6. (\A i \in 1..n : cut[i] = r.pattern[i]) => cut = r.pattern
    BY <1>1, <2>3, <2>4, SeqEqual DEF n
  <2> HIDE DEF start
  <2> QED
    BY <2>5, <2>6
<1>4. Passes(r, end) <=> /\ start >= 0 /\ r.kind = kind /\ r.from <= start
                         /\ start <= r.to /\ cut = r.pattern
  BY DEF Passes, n
<1> HIDE DEF cut
<1>5. EndsAt(r, end) <=> \E s \in r.from..r.to :
                           /\ r.kind = kind /\ s + n = end
                           /\ \A i \in 1..n : text[s + i] = r.pattern[i]
  BY <1>1 DEF EndsAt, n
<1>6. ASSUME Passes(r, end)
      PROVE  EndsAt(r, end)
  <2>1. start \in r.from..r.to /\ start + n = end
    BY <1>1, <1>2, <1>4, <1>6
  <2>2. \A i \in 1..n : text[start + i] = r.pattern[i]
    BY <1>3, <1>4, <1>6
  <2> HIDE DEF start
  <2> QED
    BY <1>4, <1>5, <1>6, <2>1, <2>2
<1>7. ASSUME EndsAt(r, end)
      PROVE  Passes(r, end)
  <2>1. PICK s \in r.from..r.to : /\ r.kind = kind /\ s + n = end
                                  /\ \A i \in 1..n : text[s + i] = r.pattern[i]
    BY <1>5, <1>7
  <2>2. s = start /\ start >= 0 /\ r.from <= start /\ start <= r.to
    BY <1>1, <1>2, <2>1
  <2> HIDE DEF start
  <2> QED
    BY <1>3, <1>4, <2>1, <2>2
<1> QED
  BY <1>6, <1>7

\* A signature that ends at `end' ends the text read up to there.
LEMMA EndsTheText ==
  ASSUME text \in Seq(Byte), NEW r \in AvRecords, NEW end \in 1..Len(text),
         EndsAt(r, end)
  PROVE  IsSuffix(r.pattern, SubSeq(text, 1, end))
<1> DEFINE n == Len(r.pattern)
           read == SubSeq(text, 1, end)
<1>1. /\ r.pattern \in Seq(Byte) /\ n \in Nat /\ r.from \in Nat
      /\ DOMAIN r.pattern = 1..n
  BY LenProperties DEF AvRecords
<1>2. Len(text) \in Nat /\ end \in 0..Len(text)
  BY LenProperties
<1>3. read \in Seq(Byte) /\ Len(read) = end /\ \A i \in 1..end : read[i] = text[i]
  BY <1>2, PrefixOfWord DEF Prefix
<1> HIDE DEF n, read
<1>4. PICK s \in r.from..r.to : /\ s + n = end
                                /\ \A i \in 1..n : text[s + i] = r.pattern[i]
  BY <1>1 DEF EndsAt, n
<1>5. s \in Nat /\ n <= end
  BY <1>1, <1>4
<1>6. \A i \in 1..n : r.pattern[i] = read[end - n + i]
  <2> TAKE i \in 1..n
  <2>1. end - n + i = s + i /\ s + i \in 1..end
    BY <1>1, <1>2, <1>4, <1>5
  <2> QED
    BY <1>3, <1>4, <2>1
<1>7. \A i \in 1..Len(r.pattern) : r.pattern[i] = read[Len(read) - Len(r.pattern) + i]
  BY <1>3, <1>6 DEF n
<1>8. Len(r.pattern) <= Len(read)
  BY <1>3, <1>5 DEF n
<1>9. IsSuffix(r.pattern, read)
  BY <1>1, <1>3, <1>7, <1>8, SuffixElements
<1> QED
  BY <1>9 DEF read
-----------------------------------------------------------------------------
(* The scan                                                                 *)

\* One byte: the index stays within the automaton in memory, it stands on the
\* longest word there is, and the scan ends at a record that occurs here unless
\* no record of the node does.
LEMMA ScanByteFacts ==
  ASSUME TypeOK, ScanByte
  PROVE  LET a == Built[db]
             here == a.nodes[state]
             byte == text[position + 1]
             word == Target(a.words, here, byte)
         IN  /\ position + 1 \in 1..Len(text) /\ byte \in Byte
             /\ here \in a.words /\ state \in 1..Len(a.nodes)
             /\ state' \in 1..Len(a.nodes) /\ a.nodes[state'] = word
             /\ position' = position + 1 /\ shrunk' = FALSE
             /\ UNCHANGED <<pair, db, text, kind>>
             /\ \/ /\ UNCHANGED <<verdict, found>>
                   /\ \A k \in 1..Len(db) :
                        db[k].pattern # <<>> /\ IsSuffix(db[k].pattern, word)
                          => ~EndsAt(db[k], position + 1)
                \/ /\ verdict' = "infected"
                   /\ \E k \in 1..Len(db) : found' = db[k] /\ EndsAt(db[k], position + 1)
<1> DEFINE a == Built[db]
           here == a.nodes[state]
           byte == text[position + 1]
           word == Target(a.words, here, byte)
           next == position + 1
           candidates == [i \in DOMAIN a.out[word] |-> db[a.out[word][i]]]
           hits == {i \in DOMAIN candidates : Passes(candidates[i], next)}
<1>1. pair \in Pairs /\ db \in {Default, Updated} /\ text \in Seq(Byte)
  BY TextsAssumption DEF TypeOK
<1>2. db \in Seq(AvRecords) /\ a = Automaton(db)
  BY <1>1, DatabaseFacts
<1> HIDE DEF a
<1>3. /\ AreNodes(a.nodes) /\ a.words = WordsOf(a.nodes) /\ IsTrie(a.words)
      /\ DOMAIN a.nodes = 1..Len(a.nodes) /\ Len(a.nodes) \in Nat \ {0}
      /\ \A k \in 1..Len(db) : db[k].pattern \in a.words
      /\ a.failure = [w \in a.words |-> Link(a.words, w)]
      /\ a.out = Outputs(db, a.words, Failures(a.words))
  BY <1>2, AutomatonFacts
<1>4. /\ Len(text) \in Nat /\ position \in 0..Len(text) /\ position < Len(text)
      /\ state <= Len(a.nodes)
  BY <1>1, LenProperties DEF TypeOK, ScanByte, a
<1>5. next \in 1..Len(text) /\ byte \in Byte
  <2>1. next \in 1..Len(text)
    BY <1>4
  <2> HIDE DEF next
  <2>2. text[next] \in Byte
    BY <1>1, <2>1, ElementOfSeq
  <2> QED
    BY <2>1, <2>2 DEF next
<1>6. state \in 1..Len(a.nodes)
  <2>1. state \in Nat \ {0}
    <3>1. Len(Built[Updated].nodes) \in Nat
      BY <1>1, DatabaseFacts, AutomatonFacts
    <3> QED
      BY <3>1 DEF TypeOK
  <2> QED
    BY <1>3, <1>4, <2>1
<1>7. here \in a.words /\ here \in Seq(Byte)
  BY <1>3, <1>6 DEF WordsOf, IsTrie
<1> HIDE DEF here, byte
<1>8. Follow(a.words, a.failure, here, byte) = word
  <2>1. \A v \in a.words \ {<<>>} :
          Len(v) <= Len(here) => a.failure[v] = Link(a.words, v)
    BY <1>3
  <2> QED
    BY <1>3, <1>5, <1>7, <2>1, FollowIsTarget
<1>9. word \in a.words
  <2>1. Append(here, byte) \in Seq(Byte) /\ Len(here) + 1 \in Nat
    BY <1>5, <1>7, AppendProperties, LenProperties
  <2> QED
    BY <1>3, <2>1, LongestExists DEF Target, IsLongest
<1> HIDE DEF word
<1>10. /\ SearchFrom(CHOOSE n \in DOMAIN a.nodes : a.nodes[n] = word)
       /\ IF hits = {} THEN UNCHANGED <<verdict, found>>
          ELSE /\ verdict' = "infected"
               /\ found' = candidates[CHOOSE i \in hits : \A j \in hits : i <= j]
  BY <1>8 DEF ScanByte, a, here, byte
<1>11. /\ position' = next /\ shrunk' = FALSE
       /\ UNCHANGED <<pair, db, text, kind>>
       /\ state' = CHOOSE n \in DOMAIN a.nodes : a.nodes[n] = word
  BY <1>10 DEF SearchFrom
<1>12. state' \in 1..Len(a.nodes) /\ a.nodes[state'] = word
  <2>1. \E n \in DOMAIN a.nodes : a.nodes[n] = word
    BY <1>3, <1>9 DEF WordsOf
  <2> QED
    BY <1>3, <1>11, <2>1
<1>13. /\ DOMAIN a.out[word] \subseteq Nat
       /\ \A i \in DOMAIN a.out[word] : a.out[word][i] \in 1..Len(db)
       /\ \A k \in 1..Len(db) :
            /\ db[k].pattern # <<>>
            /\ db[k].pattern \in a.words
            /\ IsSuffix(db[k].pattern, word)
            => \E i \in DOMAIN a.out[word] : a.out[word][i] = k
  BY <1>2, <1>3, <1>9, OutputsFacts
<1>14. \A k \in 1..Len(db) : db[k] \in AvRecords
  BY <1>2, ElementOfSeq
<1>15. \A k \in 1..Len(db) : Passes(db[k], next) <=> EndsAt(db[k], next)
  BY <1>1, <1>5, <1>14, PassesWhereItEnds
<1> DEFINE None == \A k \in 1..Len(db) :
                     db[k].pattern # <<>> /\ IsSuffix(db[k].pattern, word)
                       => ~EndsAt(db[k], next)
           One == \E k \in 1..Len(db) : found' = db[k] /\ EndsAt(db[k], next)
<1>16. CASE hits = {}
  <2>1. ASSUME NEW k \in 1..Len(db), db[k].pattern # <<>>, IsSuffix(db[k].pattern, word)
        PROVE  ~EndsAt(db[k], next)
    <3>1. PICK i \in DOMAIN a.out[word] : a.out[word][i] = k
      BY <1>3, <1>13, <2>1
    <3>2. i \in DOMAIN candidates /\ candidates[i] = db[k]
      BY <3>1
    <3>3. ~Passes(db[k], next)
      BY <1>16, <3>2
    <3> QED
      BY <1>15, <3>3
  <2>2. None
    BY <2>1
  <2>3. UNCHANGED <<verdict, found>>
    BY <1>10, <1>16
  <2> QED
    BY <1>5, <1>6, <1>7, <1>11, <1>12, <2>2, <2>3 DEF word, here, byte, a
<1>17. CASE hits # {}
  <2> DEFINE first == CHOOSE i \in hits : \A j \in hits : i <= j
  <2>1. hits \subseteq Nat
    BY <1>13
  <2>2. first \in hits
    <3> HIDE DEF hits
    <3>1. \E i \in hits : \A j \in hits : i <= j
      BY <1>17, <2>1, LeastNatural
    <3> QED
      BY <3>1
  <2> HIDE DEF first
  <2>3. first \in DOMAIN a.out[word] /\ Passes(db[a.out[word][first]], next)
    BY <2>2
  <2>4. found' = db[a.out[word][first]] /\ verdict' = "infected"
    BY <1>10, <1>17, <2>3 DEF first
  <2>5. a.out[word][first] \in 1..Len(db)
    BY <1>13, <2>3
  <2>6. One
    BY <1>15, <2>3, <2>4, <2>5
  <2> QED
    BY <1>5, <1>6, <1>7, <1>11, <1>12, <2>4, <2>6 DEF word, here, byte, a
<1> QED
  BY <1>16, <1>17

\* The variables after each of the other steps.
LEMMA OtherSteps ==
  ASSUME Next
  PROVE  \/ ScanByte
         \/ /\ ReadPastEnd \/ Finish
            /\ UNCHANGED <<pair, db, text, kind, position, state, found, shrunk>>
            /\ verdict = "scanning" /\ verdict' \in {"undefined", "clean"}
         \/ /\ UNCHANGED <<pair, text, kind, position, state, verdict, found>>
            /\ verdict = "scanning"
            /\ db' \in {Default, Updated} \ {db}
            /\ shrunk' = (shrunk \/ Len(db') < Len(db))
BY DEF Next, ReadPastEnd, Finish, ApplyAvRecords

\* Types: every variable of the scan stays in its range; in particular the node
\* index stays within the larger of the two automata.
THEOREM TypeCorrect == Spec => []TypeOK
<1>1. Init => TypeOK
  <2> SUFFICES ASSUME Init PROVE TypeOK
    OBVIOUS
  <2>1. /\ pair \in Pairs /\ db \in {Default, Updated} /\ text \in Texts /\ kind \in Kinds
        /\ position = 0 /\ state = 1 /\ verdict = "scanning" /\ found = Default[1]
        /\ shrunk = FALSE
    BY DEF Init, Default
  <2>2. Len(text) \in Nat
    BY <2>1, TextsAssumption, LenProperties
  <2>3. Len(Built[Updated].nodes) \in Nat \ {0}
    BY <2>1, DatabaseFacts, AutomatonFacts
  <2>4. found \in {Updated[k] : k \in DOMAIN Updated}
    <3>1. 1 \in 1..Len(Default) /\ 1 \in DOMAIN Updated
      BY <2>1, DatabaseFacts
    <3>2. found = Updated[1]
      BY <2>1, <3>1, DatabaseFacts
    <3> QED
      BY <3>1, <3>2
  <2>5. position \in 0..Len(text) /\ state \in 1..Len(Built[Updated].nodes)
    BY <2>1, <2>2, <2>3
  <2> QED
    BY <2>1, <2>4, <2>5 DEF TypeOK
<1>2. TypeOK /\ [Next]_vars => TypeOK'
  <2> SUFFICES ASSUME TypeOK, [Next]_vars PROVE TypeOK'
    OBVIOUS
  <2>1. pair \in Pairs /\ db \in {Default, Updated}
    BY DEF TypeOK
  <2>2. CASE ScanByte
    <3> DEFINE a == Built[db]
    <3>1. /\ position + 1 \in 1..Len(text) /\ position' = position + 1
          /\ state' \in 1..Len(a.nodes) /\ shrunk' = FALSE
          /\ UNCHANGED <<pair, db, text, kind>>
          /\ \/ UNCHANGED <<verdict, found>>
             \/ verdict' = "infected" /\ \E k \in 1..Len(db) : found' = db[k]
      BY <2>2, ScanByteFacts
    <3>2. Len(a.nodes) <= Len(Built[Updated].nodes) /\ Len(a.nodes) \in Nat
      <4>1. /\ Len(Built[Default].nodes) <= Len(Built[Updated].nodes)
            /\ Len(Built[Default].nodes) \in Nat /\ Len(Built[Updated].nodes) \in Nat
        BY <2>1, NodesOfBoth, DatabaseFacts, AutomatonFacts DEF Extends
      <4> QED
        BY <2>1, <4>1
    <3>3. state' \in 1..Len(Built[Updated].nodes)
      <4>1. Len(Built[Updated].nodes) \in Nat
        BY <2>1, DatabaseFacts, AutomatonFacts
      <4> QED
        BY <3>1, <3>2, <4>1
    <3>4. ASSUME NEW k \in 1..Len(db)
          PROVE  db[k] \in {Updated[j] : j \in DOMAIN Updated}
      <4>1. k \in DOMAIN Updated /\ db[k] = Updated[k]
        BY <2>1, DatabaseFacts
      <4> QED
        BY <4>1
    <3>5. found' \in {Updated[k] : k \in DOMAIN Updated}
      BY <3>1, <3>4 DEF TypeOK
    <3>6. position' \in 0..Len(text)
      BY <3>1
    <3>7. Updated' = Updated /\ Default' = Default
      BY <3>1 DEF Updated, Default
    <3> HIDE DEF a
    <3> QED
      BY <3>1, <3>3, <3>5, <3>6, <3>7 DEF TypeOK
  <2>3. CASE UNCHANGED vars
    BY <2>3 DEF TypeOK, vars, Default, Updated
  <2>4. CASE Next /\ ~ScanByte
    <3>1. /\ UNCHANGED <<pair, text, kind, position, state, found>>
          /\ db' \in {Default, Updated} /\ shrunk' \in BOOLEAN
          /\ verdict' \in {"scanning", "clean", "infected", "undefined"}
      <4>1. shrunk \in BOOLEAN
        BY DEF TypeOK
      <4> QED
        BY <2>1, <2>4, <4>1, OtherSteps
    <3>2. Updated' = Updated /\ Default' = Default
      BY <3>1 DEF Updated, Default
    <3> QED
      BY <3>1, <3>2 DEF TypeOK
  <2> QED
    BY <2>2, <2>3, <2>4
<1> QED
  BY <1>1, <1>2, PTL DEF Spec

\* The node index leaves the automaton in memory only when a release with fewer
\* records was applied since the last byte.
THEOREM RangeKept == Spec => []OutOfRangeOnlyAfterRollback
<1>1. Init => OutOfRangeOnlyAfterRollback
  <2> SUFFICES ASSUME Init PROVE OutOfRangeOnlyAfterRollback
    OBVIOUS
  <2>1. Len(Built[db].nodes) \in Nat \ {0}
    BY DatabaseFacts, AutomatonFacts DEF Init
  <2> QED
    BY <2>1 DEF Init, OutOfRangeOnlyAfterRollback
<1>2. TypeOK /\ OutOfRangeOnlyAfterRollback /\ [Next]_vars
        => OutOfRangeOnlyAfterRollback'
  <2> SUFFICES ASSUME TypeOK, OutOfRangeOnlyAfterRollback, [Next]_vars
               PROVE  OutOfRangeOnlyAfterRollback'
    OBVIOUS
  <2>1. pair \in Pairs /\ db \in {Default, Updated} /\ shrunk \in BOOLEAN
    BY DEF TypeOK
  <2>2. /\ Len(Built[db].nodes) \in Nat /\ Len(Built[Updated].nodes) \in Nat
    BY <2>1, DatabaseFacts, AutomatonFacts
  <2>3. CASE ScanByte
    <3>1. state' \in 1..Len(Built[db].nodes) /\ db' = db
      BY <2>3, ScanByteFacts
    <3> QED
      BY <2>2, <3>1 DEF OutOfRangeOnlyAfterRollback
  <2>4. CASE UNCHANGED <<db, state, shrunk>>
    BY <2>4 DEF OutOfRangeOnlyAfterRollback
  <2>5. CASE /\ UNCHANGED <<pair, text, kind, position, state, verdict, found>>
             /\ db' \in {Default, Updated} \ {db}
             /\ shrunk' = (shrunk \/ Len(db') < Len(db))
    <3>1. CASE db' = Updated
      <4>1. state \in 1..Len(Built[Updated].nodes)
        BY DEF TypeOK
      <4>2. ~(state' > Len(Built[db'].nodes))
        BY <2>2, <2>5, <3>1, <4>1
      <4> QED
        BY <4>2 DEF OutOfRangeOnlyAfterRollback
    <3>2. CASE db' = Default /\ db = Updated
      <4>1. Len(Default) < Len(Updated)
        BY <2>1, <2>5, <3>2, DatabaseFacts
      <4>2. shrunk'
        BY <2>5, <3>2, <4>1
      <4> QED
        BY <4>2 DEF OutOfRangeOnlyAfterRollback
    <3> QED
      BY <2>1, <2>5, <3>1, <3>2
  <2> QED
    BY <2>3, <2>4, <2>5, OtherSteps DEF vars
<1> QED
  BY <1>1, <1>2, TypeCorrect, PTL DEF Spec

\* A detection is real: the record reported occurs where the scan stands.
THEOREM DetectionsReal == Spec => []DetectionReal
<1>1. Init => DetectionReal
  BY DEF Init, DetectionReal
<1>2. TypeOK /\ DetectionReal /\ [Next]_vars => DetectionReal'
  <2> SUFFICES ASSUME TypeOK, DetectionReal, [Next]_vars, verdict' = "infected"
               PROVE  EndsAt(found, position)'
    BY DEF DetectionReal
  <2>1. CASE ScanByte
    <3>1. /\ position' = position + 1 /\ UNCHANGED <<text, kind>>
          /\ \/ UNCHANGED <<verdict, found>>
             \/ \E k \in 1..Len(db) : found' = db[k] /\ EndsAt(db[k], position + 1)
      BY <2>1, ScanByteFacts
    <3>2. verdict = "scanning"
      BY <2>1 DEF ScanByte
    <3>3. EndsAt(found', position')
      BY <3>1, <3>2
    <3> QED
      BY <3>1, <3>3 DEF EndsAt
  <2>2. CASE UNCHANGED <<text, kind, position, verdict, found>>
    BY <2>2 DEF DetectionReal, EndsAt
  <2> QED
    BY <2>1, <2>2, OtherSteps DEF vars
<1> QED
  BY <1>1, <1>2, TypeCorrect, PTL DEF Spec

\* Reading one more byte: of the words of a release that end the text read, the
\* target is at least as long as any, when the node before it was.
LEMMA TargetKeeps ==
  ASSUME NEW words, IsTrie(words), NEW known, IsTrie(known), known \subseteq words,
         NEW read \in Seq(Byte), NEW byte \in Byte,
         NEW here \in words, IsSuffix(here, read),
         \A w \in known : IsSuffix(w, read) => Len(w) <= Len(here)
  PROVE  LET word == Target(words, here, byte)
         IN  /\ IsSuffix(word, Append(read, byte))
             /\ \A w \in known : IsSuffix(w, Append(read, byte)) => Len(w) <= Len(word)
<1> DEFINE word == Target(words, here, byte)
           hb == Append(here, byte)
           rb == Append(read, byte)
<1>1. here \in Seq(Byte) /\ Len(here) \in Nat /\ Len(here) + 1 \in Nat
  BY LenProperties DEF IsTrie
<1>2. /\ hb \in Seq(Byte) /\ rb \in Seq(Byte) /\ Len(hb) = Len(here) + 1
      /\ IsSuffix(hb, rb)
  BY <1>1, AppendProperties, SuffixAppend
<1>3. IsLongest(word, words, hb, Len(here) + 1)
  BY <1>1, <1>2, LongestExists DEF Target
<1> HIDE DEF word
<1>4. word \in words /\ word \in Seq(Byte) /\ Len(word) \in Nat /\ IsSuffix(word, hb)
  BY <1>3, LenProperties DEF IsLongest, IsTrie
<1>5. IsSuffix(word, rb)
  BY <1>2, <1>4, SuffixTransitive
<1>6. ASSUME NEW w \in known, IsSuffix(w, rb)
      PROVE  Len(w) <= Len(word)
  <2>1. w \in Seq(Byte) /\ Len(w) \in Nat
    BY LenProperties DEF IsTrie
  <2>2. CASE w = <<>>
    BY <1>4, <2>2, EmptySeq
  <2>3. CASE w # <<>>
    <3> DEFINE v == Prefix(w, Len(w) - 1)
               c == w[Len(w)]
    <3>1. /\ v \in Seq(Byte) /\ Len(v) = Len(w) - 1 /\ c \in Byte
          /\ w = Append(v, c) /\ v \in known
      BY <2>1, <2>3, FrontAndLast DEF IsTrie
    <3> HIDE DEF v, c
    <3>2. IsSuffix(v, read) /\ byte = c
      BY <1>6, <3>1, SuffixAppend
    <3>3. Len(v) <= Len(here)
      BY <3>1, <3>2
    <3>4. IsSuffix(v, here)
      BY <1>1, <3>1, <3>2, <3>3, SuffixNested
    <3>5. IsSuffix(w, hb)
      BY <1>1, <3>1, <3>2, <3>4, SuffixAppend
    <3>6. Len(w) <= Len(here) + 1
      BY <1>1, <2>1, <3>1, <3>3
    <3> QED
      BY <1>3, <3>5, <3>6 DEF IsLongest
  <2> QED
    BY <2>2, <2>3
<1> QED
  BY <1>5, <1>6 DEF word

\* One more byte of the text.
LEMMA ReadNext ==
  ASSUME NEW t \in Seq(Byte), NEW n \in 0..Len(t), n + 1 \in 1..Len(t)
  PROVE  /\ SubSeq(t, 1, n) \in Seq(Byte)
         /\ SubSeq(t, 1, n + 1) \in Seq(Byte)
         /\ SubSeq(t, 1, n + 1) = Append(SubSeq(t, 1, n), t[n + 1])
<1> DEFINE more == Prefix(t, n + 1)
<1>1. Len(t) \in Nat /\ n \in Nat /\ n + 1 \in 0..Len(t)
  BY LenProperties
<1>2. more \in Seq(Byte) /\ Len(more) = n + 1 /\ more[n + 1] = t[n + 1]
  BY <1>1, PrefixOfWord
<1>3. Prefix(more, n) = Prefix(t, n)
  BY <1>1, PrefixOfPrefix
<1> HIDE DEF more
<1>4. more # <<>>
  BY <1>1, <1>2, EmptySeq
<1>5. more = Append(Prefix(more, n), more[n + 1])
  <2>1. Len(more) - 1 = n
    BY <1>1, <1>2
  <2> QED
    BY <1>2, <1>4, <2>1, FrontAndLast
<1>6. Prefix(t, n) \in Seq(Byte)
  BY PrefixOfWord
<1>7. more = Append(Prefix(t, n), t[n + 1])
  BY <1>2, <1>3, <1>5
<1> QED
  BY <1>2, <1>6, <1>7 DEF more, Prefix

\* The automaton stands on the longest suffix of the bytes read that begins a
\* signature of the default release, whatever is applied between two bytes.
LEMMA ScanByteKeeps ==
  ASSUME TypeOK, SuffixKept, ScanByte
  PROVE  LET here == Built[Updated].nodes[state']
             read == SubSeq(text, 1, position + 1)
         IN  /\ here = Built[db].nodes[state']
             /\ read \in Seq(Byte)
             /\ IsSuffix(here, read)
             /\ \A w \in Built[Default].words : IsSuffix(w, read) => Len(w) <= Len(here)
<1> DEFINE a == Built[db]
           D == Built[Default]
           U == Built[Updated]
           here == a.nodes[state]
           byte == text[position + 1]
           read == SubSeq(text, 1, position)
           word == Target(a.words, here, byte)
<1>1. pair \in Pairs /\ db \in {Default, Updated} /\ text \in Seq(Byte)
  BY TextsAssumption DEF TypeOK
<1>2. /\ position + 1 \in 1..Len(text) /\ byte \in Byte
      /\ here \in a.words /\ state \in 1..Len(a.nodes)
      /\ state' \in 1..Len(a.nodes) /\ a.nodes[state'] = word
  BY ScanByteFacts
<1>3. /\ IsTrie(a.words) /\ IsTrie(D.words) /\ D.words \subseteq a.words
  <2>1. IsTrie(D.words) /\ IsTrie(U.words)
    BY <1>1, DatabaseFacts, AutomatonFacts
  <2>2. D.words \subseteq U.words
    BY <1>1, NodesOfBoth
  <2> QED
    BY <1>1, <2>1, <2>2
<1>4. \A n \in 1..Len(a.nodes) : U.nodes[n] = a.nodes[n]
  <2>1. \A n \in 1..Len(D.nodes) : U.nodes[n] = D.nodes[n]
    BY <1>1, NodesOfBoth DEF Extends
  <2> QED
    BY <1>1, <2>1
<1>5. U.nodes[state] = here
  BY <1>2, <1>4
<1>6. verdict = "scanning"
  BY DEF ScanByte
<1>7. /\ IsSuffix(here, read)
      /\ \A w \in D.words : IsSuffix(w, read) => Len(w) <= Len(here)
  BY <1>5, <1>6 DEF SuffixKept
<1>8. position \in 0..Len(text)
  BY DEF TypeOK
<1>9. /\ read \in Seq(Byte)
      /\ SubSeq(text, 1, position + 1) \in Seq(Byte)
      /\ SubSeq(text, 1, position + 1) = Append(read, byte)
  BY <1>1, <1>2, <1>8, ReadNext
<1>10. U.nodes[state'] = a.nodes[state']
  BY <1>2, <1>4
<1> HIDE DEF a, D, U, here, byte, read
<1>11. /\ IsSuffix(word, Append(read, byte))
       /\ \A w \in D.words : IsSuffix(w, Append(read, byte)) => Len(w) <= Len(word)
  BY <1>2, <1>3, <1>7, <1>9, TargetKeeps
<1> HIDE DEF word
<1> QED
  BY <1>2, <1>9, <1>10, <1>11 DEF a, D, U, byte

\* The automaton stands on the longest suffix of the consumed bytes that begins a
\* signature of the default release, or on a longer one, in every state of the scan.
THEOREM SuffixesKept == Spec => []SuffixKept
<1>1. Init => SuffixKept
  <2> SUFFICES ASSUME Init PROVE SuffixKept
    OBVIOUS
  <2>1. pair \in Pairs /\ text \in Seq(Byte) /\ position = 0 /\ state = 1
    BY TextsAssumption DEF Init
  <2>2. /\ Built[Updated].nodes[1] = <<>>
        /\ IsTrie(Built[Default].words)
    BY <2>1, DatabaseFacts, AutomatonFacts DEF AreNodes
  <2>3. SubSeq(text, 1, 0) = <<>>
    BY <2>1, PrefixEnds DEF Prefix
  <2>4. IsSuffix(<<>>, <<>>)
    BY EmptySeq, SuffixEnds
  <2>5. \A w \in Built[Default].words : IsSuffix(w, <<>>) => Len(w) <= Len(<<>>)
    BY DEF IsSuffix
  <2> QED
    BY <2>1, <2>2, <2>3, <2>4, <2>5 DEF SuffixKept
<1>2. TypeOK /\ SuffixKept /\ [Next]_vars => SuffixKept'
  <2> SUFFICES ASSUME TypeOK, SuffixKept, [Next]_vars PROVE SuffixKept'
    OBVIOUS
  <2>1. CASE ScanByte
    <3>1. UNCHANGED <<pair, text>> /\ position' = position + 1
      BY <2>1, ScanByteFacts
    <3>2. Updated' = Updated /\ Default' = Default
      BY <3>1 DEF Updated, Default
    <3>3. LET here == Built[Updated].nodes[state']
              read == SubSeq(text, 1, position + 1)
          IN  /\ IsSuffix(here, read)
              /\ \A w \in Built[Default].words : IsSuffix(w, read) => Len(w) <= Len(here)
      BY <2>1, ScanByteKeeps
    <3> QED
      BY <3>1, <3>2, <3>3 DEF SuffixKept
  <2>2. CASE /\ UNCHANGED <<pair, text, position, state>>
             /\ verdict' = verdict \/ verdict = "scanning"
    <3>1. Updated' = Updated /\ Default' = Default
      BY <2>2 DEF Updated, Default
    <3>2. verdict' \in {"scanning", "clean"} /\ verdict' = verdict
            => verdict \in {"scanning", "clean"}
      OBVIOUS
    <3> QED
      BY <2>2, <3>1, <3>2 DEF SuffixKept
  <2> QED
    BY <2>1, <2>2, OtherSteps DEF vars
<1> QED
  BY <1>1, <1>2, TypeCorrect, PTL DEF Spec

\* A signature of the default release is found at its first occurrence, however
\* often the database is replaced during the scan.
THEOREM KnownFound == Spec => []KnownStillFound
<1>1. Init => KnownStillFound
  <2> SUFFICES ASSUME Init PROVE KnownStillFound
    OBVIOUS
  <2>1. 1..position = {}
    BY DEF Init
  <2> QED
    BY <2>1 DEF KnownStillFound, OccursBefore
<1>2. TypeOK /\ SuffixKept /\ KnownStillFound /\ [Next]_vars => KnownStillFound'
  <2> SUFFICES ASSUME TypeOK, SuffixKept, KnownStillFound, [Next]_vars,
                      verdict' \in {"scanning", "clean"},
                      NEW k \in DOMAIN Default', OccursBefore(Default[k], position)'
               PROVE  FALSE
    BY DEF KnownStillFound
  <2>1. CASE ScanByte
    <3> DEFINE word == Built[db].nodes[state']
               read == SubSeq(text, 1, position + 1)
               r == Default[k]
               end == position + 1
    <3>1. pair \in Pairs /\ db \in {Default, Updated} /\ text \in Seq(Byte)
      BY TextsAssumption DEF TypeOK
    <3>2. /\ position' = end /\ UNCHANGED <<pair, text, kind>> /\ end \in 1..Len(text)
          /\ \A j \in 1..Len(db) :
               db[j].pattern # <<>> /\ IsSuffix(db[j].pattern, word) => ~EndsAt(db[j], end)
      BY <2>1, ScanByteFacts
    <3>3. verdict = "scanning"
      BY <2>1 DEF ScanByte
    <3>4. k \in DOMAIN Default /\ OccursBefore(r, end)
      <4>1. Default' = Default
        BY <3>2 DEF Default
      <4> QED
        BY <3>2, <4>1 DEF OccursBefore, EndsAt
    <3>5. ~OccursBefore(r, position)
      BY <3>3, <3>4 DEF KnownStillFound
    <3>6. EndsAt(r, end)
      <4>1. position \in Nat
        BY <3>1, LenProperties DEF TypeOK
      <4>2. \A e \in 1..end : e \in 1..position \/ e = end
        BY <4>1
      <4> HIDE DEF end
      <4> QED
        BY <3>4, <3>5, <4>2 DEF OccursBefore
    <3>7. /\ k \in 1..Len(Default) /\ k \in 1..Len(db) /\ db[k] = r
          /\ r \in AvRecords /\ r.pattern \in Built[Default].words
      <4>1. /\ k \in 1..Len(Default) /\ k \in 1..Len(db) /\ db[k] = r
        BY <3>1, <3>4, DatabaseFacts
      <4>2. r \in AvRecords
        BY <3>1, <4>1, DatabaseFacts, ElementOfSeq
      <4>3. r.pattern \in Built[Default].words
        BY <3>1, <4>1, DatabaseFacts, AutomatonFacts
      <4> QED
        BY <4>1, <4>2, <4>3
    <3>8. r.pattern # <<>>
      BY <3>1, <3>4, NonemptyAssumption DEF Default
    <3>9. /\ read \in Seq(Byte) /\ IsSuffix(word, read) /\ word \in Seq(Byte)
          /\ \A w \in Built[Default].words : IsSuffix(w, read) => Len(w) <= Len(word)
      <4>1. word = Built[Updated].nodes[state']
        BY <2>1, ScanByteKeeps
      <4>2. word \in Seq(Byte)
        <5>1. state' \in 1..Len(Built[db].nodes)
          BY <2>1, ScanByteFacts
        <5>2. Built[db].nodes \in Seq(Seq(Byte))
          BY <3>1, DatabaseFacts, AutomatonFacts DEF AreNodes
        <5> QED
          BY <5>1, <5>2, ElementOfSeq
      <4> QED
        BY <2>1, <4>1, <4>2, ScanByteKeeps
    <3>10. IsSuffix(r.pattern, read) /\ r.pattern \in Seq(Byte)
      BY <3>1, <3>2, <3>6, <3>7, EndsTheText DEF AvRecords
    <3> HIDE DEF word, read, r, end
    <3>11. IsSuffix(r.pattern, word)
      BY <3>7, <3>9, <3>10, SuffixNested
    <3> QED
      BY <3>2, <3>6, <3>7, <3>8, <3>11
  <2>2. CASE /\ UNCHANGED <<pair, text, kind, position>>
             /\ verdict' = verdict \/ verdict = "scanning"
    <3>1. Default' = Default
      BY <2>2 DEF Default
    <3>2. k \in DOMAIN Default /\ OccursBefore(Default[k], position)
      BY <2>2, <3>1 DEF OccursBefore, EndsAt
    <3>3. verdict \in {"scanning", "clean"}
      BY <2>2
    <3> QED
      BY <3>2, <3>3 DEF KnownStillFound
  <2> QED
    BY <2>1, <2>2, OtherSteps DEF vars
<1> QED
  BY <1>1, <1>2, TypeCorrect, SuffixesKept, PTL DEF Spec
=============================================================================
