--------------------------- MODULE SequenceLemmas ---------------------------
(***************************************************************************)
(* What the sequence operators of the community modules return: facts the  *)
(* proofs of this project cite.                                            *)
(***************************************************************************)
EXTENDS Integers, Sequences, SequencesExt, FiniteSets, SequenceTheorems,
        FiniteSetTheorems, TLAPS

\* Popping a non-empty list returns an element of it and keeps the others.
LEMMA FrontLast ==
  ASSUME NEW S, NEW s \in Seq(S), s # <<>>
  PROVE  /\ Front(s) \in Seq(S)
         /\ Len(Front(s)) = Len(s) - 1
         /\ \A i \in 1..Len(s) - 1 : Front(s)[i] = s[i]
         /\ Last(s) \in S
         /\ Last(s) = s[Len(s)]
         /\ Len(s) \in Nat \ {0}
<1>1. Len(s) \in Nat \ {0}
  BY EmptySeq
<1> DEFINE n == Len(s) - 1
<1>2. n \in Int /\ \A i \in 1..n : s[i] \in S
  BY <1>1, ElementOfSeq
<1> HIDE DEF n
<1>3. /\ SubSeq(s, 1, n) \in Seq(S)
      /\ Len(SubSeq(s, 1, n)) = IF 1 <= n THEN n - 1 + 1 ELSE 0
      /\ \A i \in 1..n - 1 + 1 : SubSeq(s, 1, n)[i] = s[1 + i - 1]
  BY <1>2, SubSeqProperties
<1>4. Front(s) = SubSeq(s, 1, n)
  BY DEF Front, n
<1>5. n \in Nat /\ n = Len(s) - 1
  BY <1>1 DEF n
<1>6. Last(s) = s[Len(s)] /\ Last(s) \in S
  BY <1>1, ElementOfSeq DEF Last
<1>7. \A i \in 1..n : Front(s)[i] = s[i]
  BY <1>3, <1>4, <1>5
<1> QED
  BY <1>1, <1>3, <1>4, <1>5, <1>6, <1>7

\* Splicing the entry i out of a list keeps every other entry, in order.
LEMMA RemoveAtProperties ==
  ASSUME NEW S, NEW s \in Seq(S), NEW i \in 1..Len(s)
  PROVE  /\ RemoveAt(s, i) \in Seq(S)
         /\ Len(RemoveAt(s, i)) = Len(s) - 1
         /\ \A j \in 1..Len(s) - 1 :
              RemoveAt(s, i)[j] = IF j < i THEN s[j] ELSE s[j + 1]
<1> DEFINE a == SubSeq(s, 1, i - 1)
           b == SubSeq(s, i + 1, Len(s))
<1>1. Len(s) \in Nat /\ i \in Nat
  BY LenProperties
<1>2. /\ a \in Seq(S) /\ Len(a) = i - 1
      /\ \A j \in 1..i - 1 : a[j] = s[j]
  <2>1. \A j \in 1..i - 1 : s[j] \in S
    BY <1>1, ElementOfSeq
  <2> QED
    BY <1>1, <2>1, SubSeqProperties
<1>3. /\ b \in Seq(S) /\ Len(b) = Len(s) - i
      /\ \A j \in 1..Len(s) - i : b[j] = s[i + j]
  <2>1. \A j \in i + 1..Len(s) : s[j] \in S
    BY <1>1, ElementOfSeq
  <2> QED
    BY <1>1, <2>1, SubSeqProperties
<1>4. /\ a \o b \in Seq(S)
      /\ Len(a \o b) = Len(a) + Len(b)
      /\ \A j \in 1..Len(a) + Len(b) :
           (a \o b)[j] = IF j <= Len(a) THEN a[j] ELSE b[j - Len(a)]
  <2> HIDE DEF a, b
  <2> QED  BY <1>2, <1>3, ConcatProperties
<1>5. RemoveAt(s, i) = a \o b
  BY DEF RemoveAt
<1> HIDE DEF a, b
<1> QED
  BY <1>1, <1>2, <1>3, <1>4, <1>5

\* An enumeration of a finite subset is a list over the set.
LEMMA SetToSeqsProperties ==
  ASSUME NEW S, NEW T \in SUBSET S, IsFiniteSet(T), NEW js \in SetToSeqs(T)
  PROVE  js \in Seq(S) /\ \A i \in 1..Len(js) : js[i] \in T
<1>1. Cardinality(T) \in Nat
  BY FS_CardinalityType
<1>2. js \in [1..Cardinality(T) -> T]
  BY DEF SetToSeqs
<1>3. js \in Seq(T)
  BY <1>1, <1>2, SeqDef
<1> QED
  BY <1>3, ElementOfSeq, SeqMonotonic

\* ... in which every element of the set stands.
LEMMA SetToSeqsCovers ==
  ASSUME NEW T, IsFiniteSet(T), NEW js \in SetToSeqs(T)
  PROVE  T \subseteq ToSet(js)
<1>1. Cardinality(T) \in Nat
  BY FS_CardinalityType
<1>2. /\ js \in [1..Cardinality(T) -> T]
      /\ \A i, j \in 1..Cardinality(T) : i # j => js[i] # js[j]
  BY DEF SetToSeqs
<1>3. js \in Injection(1..Cardinality(T), T)
  BY <1>2 DEF IsInjective, Injection
<1>4. IsFiniteSet(1..Cardinality(T)) /\ Cardinality(1..Cardinality(T)) = Cardinality(T)
  <2>1. /\ IsFiniteSet(1..Cardinality(T))
        /\ Cardinality(1..Cardinality(T))
             = IF 1 > Cardinality(T) THEN 0 ELSE Cardinality(T) - 1 + 1
    BY <1>1, FS_Interval
  <2> QED
    BY <1>1, <2>1
<1>5. js \in Surjection(1..Cardinality(T), T)
  BY <1>3, <1>4, FS_Injection
<1> QED
  BY <1>2, <1>5 DEF Surjection, ToSet

\* What an append adds to the entries of a list, and what popping its end takes.
LEMMA EndEntries ==
  ASSUME NEW S, NEW s \in Seq(S)
  PROVE  /\ \A x \in S : ToSet(Append(s, x)) = ToSet(s) \cup {x}
         /\ s # <<>> => ToSet(Front(s)) \cup {Last(s)} = ToSet(s)
<1>1. Len(s) \in Nat /\ ToSet(s) = { s[i] : i \in 1..Len(s) }
  BY LenProperties DEF ToSet
<1>2. ASSUME NEW x \in S PROVE ToSet(Append(s, x)) = ToSet(s) \cup {x}
  <2> DEFINE t == Append(s, x)
  <2>1. /\ Len(t) = Len(s) + 1 /\ t[Len(s) + 1] = x
        /\ \A i \in 1..Len(s) : t[i] = s[i]
        /\ t \in Seq(S)
    BY <1>1, AppendProperties
  <2>2. ToSet(t) = { t[i] : i \in 1..Len(t) }
    BY <2>1, LenProperties DEF ToSet
  <2> HIDE DEF t
  <2>3. ToSet(t) \subseteq ToSet(s) \cup {x}
    BY <1>1, <2>1, <2>2
  <2>4. ToSet(s) \cup {x} \subseteq ToSet(t)
    BY <1>1, <2>1, <2>2
  <2> QED  BY <2>3, <2>4 DEF t
<1>3. ASSUME s # <<>> PROVE ToSet(Front(s)) \cup {Last(s)} = ToSet(s)
  <2> DEFINE t == Front(s)
             x == Last(s)
  <2>1. /\ Len(t) = Len(s) - 1 /\ x = s[Len(s)] /\ Len(s) \in Nat \ {0}
        /\ \A i \in 1..Len(s) - 1 : t[i] = s[i]
        /\ t \in Seq(S)
    BY <1>3, FrontLast
  <2>2. ToSet(t) = { t[i] : i \in 1..Len(t) }
    BY <2>1, LenProperties DEF ToSet
  <2> HIDE DEF t, x
  <2>3. ToSet(t) \cup {x} \subseteq ToSet(s)
    BY <1>1, <2>1, <2>2
  <2>4. ToSet(s) \subseteq ToSet(t) \cup {x}
    BY <1>1, <2>1, <2>2
  <2> QED  BY <2>3, <2>4 DEF t, x
<1> QED  BY <1>2, <1>3

\* Dropping entries from the front of a list leaves a list.
LEMMA DropProperties ==
  ASSUME NEW S, NEW s \in Seq(S), NEW n \in 0..Len(s)
  PROVE  /\ SubSeq(s, n + 1, Len(s)) \in Seq(S)
         /\ Len(SubSeq(s, n + 1, Len(s))) = Len(s) - n
<1>1. Len(s) \in Nat /\ n \in Nat
  BY LenProperties
<1>2. \A i \in n + 1..Len(s) : s[i] \in S
  BY <1>1, ElementOfSeq
<1> QED
  BY <1>1, <1>2, SubSeqProperties

\* What is in a list is dropped from its front or left in the rest.
LEMMA DropSplits ==
  ASSUME NEW S, NEW s \in Seq(S), NEW n \in 0..Len(s)
  PROVE  ToSet(s) \subseteq ToSet(SubSeq(s, 1, n)) \cup ToSet(SubSeq(s, n + 1, Len(s)))
<1> DEFINE a == SubSeq(s, 1, n)
           b == SubSeq(s, n + 1, Len(s))
<1>1. Len(s) \in Nat /\ n \in Nat
  BY LenProperties
<1>2. Len(a) = n /\ \A i \in 1..n : a[i] = s[i]
  <2>1. \A i \in 1..n : s[i] \in S
    BY <1>1, ElementOfSeq
  <2> QED
    BY <1>1, <2>1, SubSeqProperties
<1>3. Len(b) = Len(s) - n /\ \A i \in 1..Len(s) - n : b[i] = s[n + i]
  <2>1. \A i \in n + 1..Len(s) : s[i] \in S
    BY <1>1, ElementOfSeq
  <2> QED
    BY <1>1, <2>1, SubSeqProperties
<1> HIDE DEF a, b
<1> SUFFICES ASSUME NEW i \in 1..Len(s)
             PROVE  s[i] \in ToSet(a) \cup ToSet(b)
  BY LenProperties DEF ToSet, a, b
<1>4. CASE i <= n
  BY <1>1, <1>2, <1>4 DEF ToSet
<1>5. CASE i > n
  <2>1. i - n \in 1..Len(b) /\ b[i - n] = s[i]
    BY <1>1, <1>3, <1>5
  <2> QED
    BY <2>1 DEF ToSet
<1> QED
  BY <1>1, <1>4, <1>5

\* The entries of two lists are the entries of their concatenation.
LEMMA ConcatEntries ==
  ASSUME NEW S, NEW s \in Seq(S), NEW t \in Seq(S)
  PROVE  ToSet(s) \subseteq ToSet(s \o t) /\ ToSet(t) \subseteq ToSet(s \o t)
<1>1. /\ Len(s) \in Nat /\ Len(t) \in Nat /\ Len(s \o t) = Len(s) + Len(t)
      /\ \A i \in 1..Len(s) + Len(t) :
           (s \o t)[i] = IF i <= Len(s) THEN s[i] ELSE t[i - Len(s)]
  BY ConcatProperties, LenProperties
<1>2. ASSUME NEW i \in 1..Len(s) PROVE s[i] \in ToSet(s \o t)
  BY <1>1 DEF ToSet
<1>3. ASSUME NEW i \in 1..Len(t) PROVE t[i] \in ToSet(s \o t)
  <2>1. Len(s) + i \in 1..Len(s \o t) /\ (s \o t)[Len(s) + i] = t[i]
    BY <1>1
  <2> QED
    BY <2>1 DEF ToSet
<1> QED
  BY <1>2, <1>3, LenProperties DEF ToSet

\* A list has at most as many entries as it is long.
LEMMA EntriesAreBounded ==
  ASSUME NEW S, NEW s \in Seq(S)
  PROVE  IsFiniteSet(ToSet(s)) /\ Cardinality(ToSet(s)) <= Len(s)
<1>1. Len(s) \in Nat /\ s \in [1..Len(s) -> ToSet(s)]
  BY LenProperties, ElementOfSeq DEF ToSet
<1>2. s \in Surjection(1..Len(s), ToSet(s))
  BY <1>1 DEF Surjection, ToSet
<1>3. IsFiniteSet(1..Len(s)) /\ Cardinality(1..Len(s)) = Len(s)
  <2>1. /\ IsFiniteSet(1..Len(s))
        /\ Cardinality(1..Len(s)) = IF 1 > Len(s) THEN 0 ELSE Len(s) - 1 + 1
    BY <1>1, FS_Interval
  <2> QED
    BY <1>1, <2>1
<1> QED
  BY <1>1, <1>2, <1>3, FS_Surjection

\* ... and nothing else is in what is left of a concatenation.
LEMMA DropOfConcat ==
  ASSUME NEW S, NEW s \in Seq(S), NEW t \in Seq(S), NEW a \in 1..Len(s \o t) + 1,
         NEW b \in 0..Len(s \o t)
  PROVE  ToSet(SubSeq(s \o t, a, b)) \subseteq ToSet(s) \cup ToSet(t)
<1> DEFINE u == s \o t
           w == SubSeq(u, a, b)
<1>1. /\ Len(s) \in Nat /\ Len(t) \in Nat /\ Len(u) = Len(s) + Len(t) /\ u \in Seq(S)
      /\ \A i \in 1..Len(s) + Len(t) :
           u[i] = IF i <= Len(s) THEN s[i] ELSE t[i - Len(s)]
  BY ConcatProperties, LenProperties
<1>2. \A i \in 1..Len(u) : u[i] \in ToSet(s) \cup ToSet(t)
  <2> SUFFICES ASSUME NEW i \in 1..Len(u) PROVE u[i] \in ToSet(s) \cup ToSet(t)
    OBVIOUS
  <2>1. CASE i <= Len(s)
    <3>1. i \in 1..Len(s) /\ u[i] = s[i]
      BY <1>1, <2>1
    <3> QED
      BY <3>1, LenProperties DEF ToSet
  <2>2. CASE i > Len(s)
    <3>1. i - Len(s) \in 1..Len(t) /\ u[i] = t[i - Len(s)]
      BY <1>1, <2>2
    <3> QED
      BY <3>1, LenProperties DEF ToSet
  <2> QED
    BY <1>1, <2>1, <2>2
<1>3. /\ Len(w) = IF a <= b THEN b - a + 1 ELSE 0
      /\ \A i \in 1..b - a + 1 : w[i] = u[a + i - 1]
      /\ w \in Seq(S)
  <2> HIDE DEF u
  <2>1. \A i \in a..b : u[i] \in S
    BY <1>1, ElementOfSeq DEF u
  <2>2. a \in Int /\ b \in Int
    BY <1>1 DEF u
  <2> QED
    BY <1>1, <2>1, <2>2, SubSeqProperties
<1> SUFFICES ASSUME NEW i \in 1..Len(w)
             PROVE  w[i] \in ToSet(s) \cup ToSet(t)
  <2>1. w \in Seq(S)
    BY <1>3
  <2> HIDE DEF w
  <2> QED
    BY <2>1, LenProperties DEF ToSet, w
<1>4. a + i - 1 \in 1..Len(u) /\ w[i] = u[a + i - 1]
  <2> HIDE DEF w
  <2> QED
    BY <1>1, <1>3
<1> QED
  BY <1>2, <1>4
=============================================================================
