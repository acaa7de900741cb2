----------------------------- MODULE ListLemmas -----------------------------
(***************************************************************************)
(* What the models' lists rest on: a set of natural numbers has a least    *)
(* one, what taking an element out of a sequence leaves, and how many      *)
(* elements of a kind there are in it.                                     *)
(***************************************************************************)
EXTENDS Naturals, SequencesExt, SequenceTheorems, FiniteSetTheorems, WellFoundedInduction,
        TLAPS

Before == {pair \in Nat \X Nat : pair[1] < pair[2]}

\* The order of the natural numbers as a relation, as a set to be cited with WFMin.
LEMMA BeforeIsWellFounded == IsWellFoundedOn(Before, Nat)
<1>1. OpToRel(<, Nat) = Before
  BY Zenon DEF OpToRel, Before
<1>2. QED
  BY <1>1, NatLessThanWellFounded, Zenon

\* The least-number principle, for a set instead of an operator.
LEMMA LeastNatural ==
    ASSUME NEW S \in SUBSET Nat, S # {}
    PROVE  \E n \in S : \A m \in S : n <= m
<1>1. PICK n \in S : \A m \in S : <<m, n>> \notin Before
  BY BeforeIsWellFounded, WFMin
<1>2. ASSUME NEW m \in S PROVE n <= m
  <2>1. n \in Nat /\ m \in Nat /\ <<m, n>> \notin Before
    BY <1>1
  <2>2. ~(m < n)
    BY <2>1 DEF Before
  <2>3. QED
    BY <2>1, <2>2
<1>3. QED
  BY <1>2

LEMMA MinIsLeast ==
    ASSUME NEW S \in SUBSET Nat, S # {}
    PROVE  Min(S) \in S /\ \A m \in S : Min(S) <= m
BY LeastNatural DEF Min

\* Taking out the element at a place.
LEMMA RemoveAtProperties ==
    ASSUME NEW T, NEW s \in Seq(T), NEW i \in 1 .. Len(s)
    PROVE  /\ RemoveAt(s, i) \in Seq(T)
           /\ Len(RemoveAt(s, i)) = Len(s) - 1
           /\ \A j \in 1 .. Len(s) - 1 :
                 RemoveAt(s, i)[j] = IF j < i THEN s[j] ELSE s[j + 1]
<1> DEFINE front == SubSeq(s, 1, i - 1)
           back == SubSeq(s, i + 1, Len(s))
<1>1. Len(s) \in Nat /\ \A j \in 1 .. Len(s) : s[j] \in T
  BY LenProperties, ElementOfSeq
<1>2. /\ front \in Seq(T) /\ Len(front) = i - 1
      /\ \A j \in 1 .. i - 1 : front[j] = s[j]
  BY <1>1, SubSeqProperties
<1>3. /\ back \in Seq(T) /\ Len(back) = Len(s) - i
      /\ \A j \in 1 .. Len(s) - i : back[j] = s[i + j]
  BY <1>1, SubSeqProperties
<1> HIDE DEF front, back
<1>4. /\ front \o back \in Seq(T)
      /\ Len(front \o back) = Len(front) + Len(back)
      /\ \A j \in 1 .. Len(front) + Len(back) :
            (front \o back)[j] = IF j <= Len(front) THEN front[j] ELSE back[j - Len(front)]
  BY <1>2, <1>3, ConcatProperties
<1>5. Len(front) + Len(back) = Len(s) - 1
  BY <1>1, <1>2, <1>3
<1>6. ASSUME NEW j \in 1 .. Len(s) - 1
      PROVE  (front \o back)[j] = IF j < i THEN s[j] ELSE s[j + 1]
  <2>1. CASE j < i
    BY <1>1, <1>2, <1>4, <1>5, <2>1
  <2>2. CASE ~(j < i)
    <3>1. j - (i - 1) \in 1 .. Len(s) - i /\ i + (j - (i - 1)) = j + 1
      BY <1>1, <2>2
    <3>2. back[j - (i - 1)] = s[j + 1]
      BY <1>3, <3>1
    <3>3. QED
      BY <1>1, <1>2, <1>4, <1>5, <2>2, <3>2
  <2>3. QED
    BY <2>1, <2>2
<1>7. RemoveAt(s, i) = front \o back
  BY DEF RemoveAt, front, back
<1>8. QED
  BY <1>4, <1>5, <1>6, <1>7

LEMMA RemoveAtHead ==
    ASSUME NEW T, NEW s \in Seq(T), s # <<>>
    PROVE  /\ Len(s) \in Nat /\ 1 \in 1 .. Len(s)
           /\ RemoveAt(s, 1) = Tail(s) /\ Head(s) = s[1]
<1>1. /\ Len(s) \in Nat /\ 1 \in 1 .. Len(s) /\ Head(s) = s[1]
      /\ Tail(s) \in Seq(T) /\ Len(Tail(s)) = Len(s) - 1
      /\ \A j \in 1 .. Len(Tail(s)) : Tail(s)[j] = s[j + 1]
  BY HeadTailProperties, EmptySeq, LenProperties
<1>2. /\ RemoveAt(s, 1) \in Seq(T) /\ Len(RemoveAt(s, 1)) = Len(s) - 1
      /\ \A j \in 1 .. Len(s) - 1 : RemoveAt(s, 1)[j] = s[j + 1]
  <2>1. /\ RemoveAt(s, 1) \in Seq(T) /\ Len(RemoveAt(s, 1)) = Len(s) - 1
        /\ \A j \in 1 .. Len(s) - 1 :
              RemoveAt(s, 1)[j] = IF j < 1 THEN s[j] ELSE s[j + 1]
    BY <1>1, RemoveAtProperties
  <2>2. \A j \in 1 .. Len(s) - 1 : ~(j < 1)
    BY <1>1
  <2>3. QED
    BY <2>1, <2>2
<1>3. RemoveAt(s, 1) = Tail(s)
  BY <1>1, <1>2, SeqEqual
<1>4. QED
  BY <1>1, <1>3

\* In a sequence without repetition the first is the only one.
LEMMA RemoveFirstIs ==
    ASSUME NEW T, NEW s \in Seq(T), NEW i \in 1 .. Len(s),
           \A j \in 1 .. Len(s) : s[j] = s[i] => j = i
    PROVE  RemoveFirst(s, s[i]) = RemoveAt(s, i)
<1> DEFINE I == {j \in 1 .. Len(s) : s[j] = s[i]}
<1>1. I \in SUBSET Nat /\ I # {}
  BY LenProperties
<1>2. Min(I) = i
  BY <1>1, MinIsLeast
<1>3. RemoveFirst(s, s[i]) = RemoveAt(s, Min(I))
  BY <1>1 DEF RemoveFirst, SelectInSeq
<1>4. QED
  BY <1>2, <1>3

\* Taking out an element keeps the type, whether or not it is there.
LEMMA RemoveFirstType ==
    ASSUME NEW T, NEW s \in Seq(T), NEW e
    PROVE  RemoveFirst(s, e) \in Seq(T)
<1> DEFINE I == {i \in 1 .. Len(s) : s[i] = e}
<1>1. CASE \E i \in 1 .. Len(s) : s[i] = e
  <2>1. I \in SUBSET Nat /\ I # {}
    BY <1>1, LenProperties
  <2>2. Min(I) \in 1 .. Len(s)
    BY <2>1, MinIsLeast
  <2>3. RemoveFirst(s, e) = RemoveAt(s, Min(I))
    BY <1>1, <2>1 DEF RemoveFirst, SelectInSeq
  <2>4. QED
    BY <2>2, <2>3, RemoveAtProperties
<1>2. CASE ~\E i \in 1 .. Len(s) : s[i] = e
  BY <1>2 DEF RemoveFirst
<1>3. QED
  BY <1>1, <1>2

-----------------------------------------------------------------------------
\* How many elements of s are in M.
Count(s, M) == Cardinality({i \in DOMAIN s : s[i] \in M})

LEMMA CountType ==
    ASSUME NEW T, NEW s \in Seq(T), NEW M
    PROVE  IsFiniteSet({i \in DOMAIN s : s[i] \in M}) /\ Count(s, M) \in Nat
<1>1. DOMAIN s = 1 .. Len(s) /\ Len(s) \in Nat
  BY LenProperties
<1>2. IsFiniteSet(1 .. Len(s))
  BY <1>1, FS_Interval
<1>3. IsFiniteSet({i \in DOMAIN s : s[i] \in M})
  BY <1>1, <1>2, FS_Subset
<1>4. QED
  BY <1>3, FS_CardinalityType DEF Count

LEMMA CountAppend ==
    ASSUME NEW T, NEW s \in Seq(T), NEW x \in T, NEW M
    PROVE  Count(Append(s, x), M) = IF x \in M THEN Count(s, M) + 1 ELSE Count(s, M)
<1> DEFINE u == Append(s, x)
           I == {i \in DOMAIN s : s[i] \in M}
           J == {i \in DOMAIN u : u[i] \in M}
<1>1. /\ Len(s) \in Nat /\ DOMAIN s = 1 .. Len(s) /\ DOMAIN u = 1 .. Len(s) + 1
      /\ \A i \in 1 .. Len(s) : u[i] = s[i]
      /\ u[Len(s) + 1] = x
  BY LenProperties, AppendProperties
<1> HIDE DEF u
<1>2. IsFiniteSet(I) /\ Len(s) + 1 \notin I /\ Count(s, M) = Cardinality(I)
  <2>1. IsFiniteSet(I)
    BY CountType
  <2>2. Len(s) + 1 \notin I
    BY <1>1
  <2>3. Count(s, M) = Cardinality(I)
    BY DEF Count
  <2>4. QED
    BY <2>1, <2>2, <2>3
<1>3. CASE x \in M
  <2>1. J = I \cup {Len(s) + 1}
    BY <1>1, <1>3
  <2>2. Cardinality(I \cup {Len(s) + 1}) = Cardinality(I) + 1
    BY <1>2, FS_AddElement
  <2>3. QED
    BY <1>2, <1>3, <2>1, <2>2 DEF Count, u
<1>4. CASE x \notin M
  <2>1. J = I
    BY <1>1, <1>4
  <2>2. QED
    BY <1>2, <1>4, <2>1 DEF Count, u
<1>5. QED
  BY <1>3, <1>4

LEMMA CountTail ==
    ASSUME NEW T, NEW s \in Seq(T), s # <<>>, NEW M
    PROVE  Count(Tail(s), M) + (IF Head(s) \in M THEN 1 ELSE 0) <= Count(s, M)
<1> DEFINE u == Tail(s)
           I == {i \in DOMAIN s : s[i] \in M}
           J == {i \in DOMAIN u : u[i] \in M}
           f == [j \in J |-> j + 1]
<1>1. /\ Len(s) \in Nat /\ 1 \in 1 .. Len(s) /\ DOMAIN s = 1 .. Len(s) /\ Head(s) = s[1]
      /\ u \in Seq(T) /\ DOMAIN u = 1 .. Len(s) - 1
      /\ \A i \in 1 .. Len(s) - 1 : u[i] = s[i + 1]
  BY RemoveAtHead, HeadTailProperties, LenProperties
<1> HIDE DEF u
<1>2. IsFiniteSet(I) /\ IsFiniteSet(I \ {1}) /\ Cardinality(I) \in Nat
      /\ Cardinality(J) \in Nat
      /\ Cardinality(I \ {1}) = IF Head(s) \in M THEN Cardinality(I) - 1 ELSE Cardinality(I)
  <2>1. IsFiniteSet(I) /\ (1 \in I <=> Head(s) \in M)
    BY <1>1, CountType
  <2>2. Cardinality(I \ {1}) = IF 1 \in I THEN Cardinality(I) - 1 ELSE Cardinality(I)
    BY <2>1, FS_RemoveElement
  <2>3. IsFiniteSet(J)
    BY <1>1, CountType
  <2>4. QED
    BY <2>1, <2>2, <2>3, FS_RemoveElement, FS_CardinalityType
<1>3. f \in Injection(J, I \ {1})
  <2>1. \A j \in J : f[j] \in I \ {1}
    BY <1>1
  <2>2. f \in [J -> I \ {1}]
    BY <2>1
  <2>3. IsInjective(f)
    BY <1>1 DEF IsInjective
  <2>4. QED
    BY <2>2, <2>3 DEF Injection
<1>4. Cardinality(J) <= Cardinality(I \ {1})
  BY <1>2, <1>3, FS_Injection
<1>5. Count(Tail(s), M) = Cardinality(J) /\ Count(s, M) = Cardinality(I)
  BY DEF Count, u
<1>6. QED
  BY <1>2, <1>4, <1>5
=============================================================================
