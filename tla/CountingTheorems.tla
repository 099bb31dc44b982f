-------------------------- MODULE CountingTheorems --------------------------
(***************************************************************************)
(* Facts about finite sets, sums and lists without repetition that the     *)
(* proofs of the components share: every count of the program stands for   *)
(* the size of a set, every total for a sum over one, and every LRU list,  *)
(* pool and queue holds an element once.                                   *)
(***************************************************************************)
EXTENDS Integers, FiniteSets, SequencesExt, FiniteSetTheorems,
        SequenceTheorems, TLAPS

\* How one element more or less changes the size of the subset A of S.
Counted(A, S, x) ==
  /\ Cardinality(A) \in Nat /\ Cardinality(S) \in Nat
  /\ Cardinality(A) <= Cardinality(S)
  /\ x \in A => Cardinality(A) >= 1
  /\ x \in A => Cardinality(A \cup {x}) = Cardinality(A)
  /\ x \in A => Cardinality(A \ {x}) = Cardinality(A) - 1
  /\ x \notin A => Cardinality(A \cup {x}) = Cardinality(A) + 1
  /\ x \notin A => Cardinality(A \ {x}) = Cardinality(A)
  /\ x \notin A => Cardinality(A) + 1 <= Cardinality(S)

\* The arithmetic behind every counter that one step changes by one.
LEMMA SubsetCount ==
  ASSUME NEW S, IsFiniteSet(S), NEW A \in SUBSET S, NEW x \in S
  PROVE  Counted(A, S, x)
<1>1. IsFiniteSet(A) /\ Cardinality(A) <= Cardinality(S)
  BY FS_Subset
<1>2. Cardinality(A) \in Nat /\ Cardinality(S) \in Nat
  BY <1>1, FS_CardinalityType
<1>3. Cardinality(A \cup {x}) = IF x \in A THEN Cardinality(A)
                                           ELSE Cardinality(A) + 1
  BY <1>1, FS_AddElement
<1>4. /\ Cardinality(A \ {x}) = IF x \in A THEN Cardinality(A) - 1
                                           ELSE Cardinality(A)
      /\ IsFiniteSet(A \ {x})
  BY <1>1, FS_RemoveElement
<1>5. Cardinality(A \ {x}) \in Nat
  BY <1>4, FS_CardinalityType
<1>6. Cardinality(A \cup {x}) <= Cardinality(S)
  <2>1. A \cup {x} \in SUBSET S
    OBVIOUS
  <2> QED
    BY <2>1, FS_Subset
<1> QED
  BY <1>1, <1>2, <1>3, <1>4, <1>5, <1>6 DEF Counted

\* What is left of a finite set after some elements are taken away.
LEMMA TakenAway ==
  ASSUME NEW A, IsFiniteSet(A), NEW S
  PROVE  /\ Cardinality(A \ S) \in Nat
         /\ Cardinality(A \ S) = Cardinality(A) - Cardinality(A \cap S)
BY FS_Difference, FS_CardinalityType

\* The numbers from 1 to n are n.
LEMMA IntervalSize ==
  ASSUME NEW n \in Nat
  PROVE  IsFiniteSet(1..n) /\ Cardinality(1..n) = n
<1>1. /\ IsFiniteSet(1..n)
      /\ Cardinality(1..n) = IF 1 > n THEN 0 ELSE n - 1 + 1
  BY FS_Interval
<1> QED
  BY <1>1

-----------------------------------------------------------------------------
(* Lists in which no element occurs twice *)

Distinct(s) == \A i, j \in 1..Len(s) : s[i] = s[j] => i = j

\* What is in a list.
LEMMA RangeOf ==
  ASSUME NEW S, NEW s \in Seq(S)
  PROVE  /\ Range(s) \subseteq S
         /\ \A x : x \in Range(s) <=> \E i \in 1..Len(s) : s[i] = x
BY DEF Range

\* The library's injective functions are the lists without repetition.
LEMMA DistinctIsInjective ==
  ASSUME NEW S, NEW s \in Seq(S)
  PROVE  IsInjective(s) <=> Distinct(s)
BY DEF IsInjective, Distinct

\* A list without repetition is as long as what it holds.
LEMMA DistinctLength ==
  ASSUME NEW S, NEW s \in Seq(S), Distinct(s)
  PROVE  IsFiniteSet(Range(s)) /\ Cardinality(Range(s)) = Len(s)
<1>1. Len(s) \in Nat /\ s \in [1..Len(s) -> Range(s)]
  BY DEF Range
<1>2. s \in Bijection(1..Len(s), Range(s))
  BY <1>1, RangeOf DEF Distinct, Bijection, Injection, Surjection, IsInjective
<1>3. ExistsBijection(1..Len(s), Range(s))
  BY <1>2 DEF ExistsBijection
<1>4. IsFiniteSet(1..Len(s)) /\ Cardinality(1..Len(s)) = Len(s)
  BY <1>1, IntervalSize
<1> QED
  BY <1>3, <1>4, FS_Bijection

\* Removing the element at one place.
LEMMA RemovedAt ==
  ASSUME NEW S, NEW s \in Seq(S), NEW i \in 1..Len(s), Distinct(s)
  PROVE  /\ RemoveAt(s, i) \in Seq(S) /\ Len(RemoveAt(s, i)) = Len(s) - 1
         /\ Distinct(RemoveAt(s, i)) /\ Range(RemoveAt(s, i)) = Range(s) \ {s[i]}
<1> DEFINE r == RemoveAt(s, i)
<1>1. /\ r \in Seq(S) /\ Len(r) = Len(s) - 1
      /\ \A j \in 1..Len(r) : r[j] = IF j < i THEN s[j] ELSE s[j + 1]
  <2> DEFINE a == SubSeq(s, 1, i - 1)
             b == SubSeq(s, i + 1, Len(s))
  <2>1. a \in Seq(S) /\ Len(a) = i - 1 /\ \A j \in 1..(i - 1) : a[j] = s[j]
    OBVIOUS
  <2>2. /\ b \in Seq(S) /\ Len(b) = Len(s) - i
        /\ \A j \in 1..(Len(s) - i) : b[j] = s[i + j]
    OBVIOUS
  <2>3. r = a \o b
    BY DEF RemoveAt
  <2> HIDE DEF a, b, r
  <2>4. /\ r \in Seq(S) /\ Len(r) = Len(a) + Len(b)
        /\ \A j \in 1..(Len(a) + Len(b)) :
              r[j] = IF j <= Len(a) THEN a[j] ELSE b[j - Len(a)]
    BY <2>1, <2>2, <2>3, ConcatProperties
  <2>5. i \in Nat /\ Len(s) \in Nat /\ 1 <= i /\ i <= Len(s)
    OBVIOUS
  <2>6. Len(r) = Len(s) - 1
    BY <2>1, <2>2, <2>4, <2>5
  <2>7. ASSUME NEW j \in 1..Len(r) PROVE r[j] = IF j < i THEN s[j] ELSE s[j + 1]
    <3>1. CASE j < i
      <4>1. j \in 1..(i - 1) /\ j \in 1..(Len(a) + Len(b)) /\ j <= Len(a)
        BY <2>1, <2>4, <2>5, <3>1
      <4> QED
        BY <2>1, <2>4, <3>1, <4>1
    <3>2. CASE ~(j < i)
      <4>1. /\ j - (i - 1) \in 1..(Len(s) - i) /\ i + (j - (i - 1)) = j + 1
            /\ j \in 1..(Len(a) + Len(b)) /\ ~(j <= Len(a)) /\ Len(a) = i - 1
        BY <2>1, <2>4, <2>5, <2>6, <3>2
      <4>2. r[j] = b[j - (i - 1)]
        BY <2>4, <4>1
      <4>3. b[j - (i - 1)] = s[j + 1]
        BY <2>2, <4>1
      <4> QED
        BY <3>2, <4>2, <4>3
    <3> QED
      BY <3>1, <3>2
  <2> QED
    BY <2>4, <2>6, <2>7
<1> HIDE DEF r
<1>2. Distinct(r)
  <2> SUFFICES ASSUME NEW j \in 1..Len(r), NEW k \in 1..Len(r), r[j] = r[k] PROVE j = k
    BY DEF Distinct
  <2> DEFINE p(m) == IF m < i THEN m ELSE m + 1
  <2>1. j \in Nat /\ k \in Nat /\ p(j) \in 1..Len(s) /\ p(k) \in 1..Len(s)
    BY <1>1
  <2>2. r[j] = s[p(j)] /\ r[k] = s[p(k)]
    BY <1>1
  <2>3. p(j) = p(k)
    <3> HIDE DEF p
    <3> QED
      BY <2>1, <2>2 DEF Distinct
  <2> QED
    BY <2>1, <2>3
<1>3. ASSUME NEW x PROVE x \in Range(r) <=> x \in Range(s) /\ x # s[i]
  <2>1. ASSUME NEW j \in 1..Len(r), r[j] = x
        PROVE  x \in Range(s) /\ x # s[i]
    <3>1. PICK k \in 1..Len(s) : k # i /\ s[k] = x
      BY <1>1, <2>1
    <3> QED
      BY <3>1, RangeOf DEF Distinct
  <2>2. ASSUME NEW k \in 1..Len(s), s[k] = x, x # s[i]
        PROVE  \E j \in 1..Len(r) : r[j] = x
    <3>1. CASE k < i
      BY <1>1, <2>2, <3>1
    <3>2. CASE k > i
      <4>1. k - 1 \in 1..Len(r) /\ r[k - 1] = x
        BY <1>1, <2>2, <3>2
      <4> QED
        BY <4>1
    <3> QED
      BY <2>2, <3>1, <3>2
  <2> QED
    BY <1>1, <2>1, <2>2, RangeOf
<1>4. Range(r) = Range(s) \ {s[i]}
  BY <1>3
<1> QED
  BY <1>1, <1>2, <1>4 DEF r

\* list.Remove of the element that holds x, if there is one.
LEMMA RemovedFirst ==
  ASSUME NEW S, NEW s \in Seq(S), NEW x, Distinct(s)
  PROVE  /\ RemoveFirst(s, x) \in Seq(S) /\ Len(RemoveFirst(s, x)) <= Len(s)
         /\ Distinct(RemoveFirst(s, x))
         /\ Range(RemoveFirst(s, x)) = Range(s) \ {x}
<1>1. CASE \E i \in 1..Len(s) : s[i] = x
  <2>1. PICK i \in 1..Len(s) : s[i] = x
    BY <1>1
  <2>2. {j \in 1..Len(s) : s[j] = x} = {i}
    BY <2>1 DEF Distinct
  <2>3. SelectInSeq(s, LAMBDA v : v = x) = i
    BY <2>2 DEF SelectInSeq, Min
  <2>4. RemoveFirst(s, x) = RemoveAt(s, i)
    BY <1>1, <2>3 DEF RemoveFirst
  <2> QED
    BY <2>1, <2>4, RemovedAt
<1>2. CASE ~\E i \in 1..Len(s) : s[i] = x
  <2>1. RemoveFirst(s, x) = s
    BY <1>2 DEF RemoveFirst
  <2>2. x \notin Range(s)
    BY <1>2, RangeOf
  <2> QED
    BY <2>1, <2>2
<1> QED
  BY <1>1, <1>2

\* PushFront of an element the list does not hold.
LEMMA PushedFront ==
  ASSUME NEW S, NEW s \in Seq(S), Distinct(s), NEW x \in S, x \notin Range(s)
  PROVE  /\ <<x>> \o s \in Seq(S) /\ Len(<<x>> \o s) = Len(s) + 1
         /\ Distinct(<<x>> \o s) /\ Range(<<x>> \o s) = Range(s) \cup {x}
<1> DEFINE r == <<x>> \o s
<1>1. /\ r \in Seq(S) /\ Len(r) = Len(s) + 1
      /\ \A j \in 1..Len(r) : r[j] = IF j = 1 THEN x ELSE s[j - 1]
  OBVIOUS
<1>2. \A j \in 1..Len(s) : s[j] # x
  BY RangeOf
<1>3. Distinct(r)
  BY <1>1, <1>2 DEF Distinct
<1>4. ASSUME NEW y PROVE y \in Range(r) <=> y \in Range(s) \/ y = x
  <2>1. ASSUME NEW j \in 1..Len(r), r[j] = y PROVE y \in Range(s) \/ y = x
    BY <1>1, <2>1, RangeOf
  <2>2. ASSUME NEW k \in 1..Len(s), s[k] = y PROVE \E j \in 1..Len(r) : r[j] = y
    <3>1. k + 1 \in 1..Len(r) /\ r[k + 1] = y
      BY <1>1, <2>2
    <3> QED
      BY <3>1
  <2>3. r[1] = x /\ 1 \in 1..Len(r)
    BY <1>1
  <2> HIDE DEF r
  <2>4. y \in Range(r) <=> \E j \in 1..Len(r) : r[j] = y
    BY <1>1, RangeOf
  <2>5. y \in Range(s) <=> \E k \in 1..Len(s) : s[k] = y
    BY RangeOf
  <2> QED
    BY <2>1, <2>2, <2>3, <2>4, <2>5
<1> HIDE DEF r
<1>5. Range(r) = Range(s) \cup {x}
  BY <1>4
<1> QED
  BY <1>1, <1>3, <1>5 DEF r

\* Append of an element the list does not hold.
LEMMA PushedBack ==
  ASSUME NEW S, NEW s \in Seq(S), Distinct(s), NEW x \in S, x \notin Range(s)
  PROVE  /\ Append(s, x) \in Seq(S) /\ Len(Append(s, x)) = Len(s) + 1
         /\ Distinct(Append(s, x)) /\ Range(Append(s, x)) = Range(s) \cup {x}
<1> DEFINE r == Append(s, x)
<1>1. /\ r \in Seq(S) /\ Len(r) = Len(s) + 1
      /\ \A j \in 1..Len(r) : r[j] = IF j = Len(r) THEN x ELSE s[j]
  OBVIOUS
<1>2. \A j \in 1..Len(s) : s[j] # x
  BY RangeOf
<1>3. Distinct(r)
  BY <1>1, <1>2 DEF Distinct
<1>4. ASSUME NEW y PROVE y \in Range(r) <=> y \in Range(s) \/ y = x
  <2>1. ASSUME NEW j \in 1..Len(r), r[j] = y PROVE y \in Range(s) \/ y = x
    BY <1>1, <2>1, RangeOf
  <2>2. ASSUME NEW k \in 1..Len(s), s[k] = y PROVE \E j \in 1..Len(r) : r[j] = y
    BY <1>1, <2>2
  <2>3. r[Len(r)] = x /\ Len(r) \in 1..Len(r)
    BY <1>1
  <2> HIDE DEF r
  <2>4. y \in Range(r) <=> \E j \in 1..Len(r) : r[j] = y
    BY <1>1, RangeOf
  <2>5. y \in Range(s) <=> \E k \in 1..Len(s) : s[k] = y
    BY RangeOf
  <2> QED
    BY <2>1, <2>2, <2>3, <2>4, <2>5
<1> HIDE DEF r
<1>5. Range(r) = Range(s) \cup {x}
  BY <1>4
<1> QED
  BY <1>1, <1>3, <1>5 DEF r

\* Both ends of a list that is not empty.
LEMMA TakenFromEnd ==
  ASSUME NEW S, NEW s \in Seq(S), Distinct(s), s # <<>>
  PROVE  /\ Head(s) \in Range(s) /\ Last(s) \in Range(s) /\ Len(s) >= 1
         /\ Tail(s) \in Seq(S) /\ Len(Tail(s)) = Len(s) - 1
         /\ Distinct(Tail(s)) /\ Range(Tail(s)) = Range(s) \ {Head(s)}
         /\ Front(s) \in Seq(S) /\ Len(Front(s)) = Len(s) - 1
         /\ Distinct(Front(s)) /\ Range(Front(s)) = Range(s) \ {Last(s)}
<1>1. 1 \in 1..Len(s) /\ Len(s) \in 1..Len(s)
  OBVIOUS
<1>2. Head(s) = s[1] /\ Last(s) = s[Len(s)]
  BY <1>1 DEF Last
<1>3. Head(s) \in Range(s) /\ Last(s) \in Range(s)
  BY <1>1, <1>2, RangeOf
<1>4. Tail(s) = RemoveAt(s, 1)
  BY <1>1 DEF RemoveAt
<1>5. Front(s) = RemoveAt(s, Len(s))
  BY <1>1 DEF RemoveAt, Front
<1>6. /\ Tail(s) \in Seq(S) /\ Len(Tail(s)) = Len(s) - 1
      /\ Distinct(Tail(s)) /\ Range(Tail(s)) = Range(s) \ {Head(s)}
  <2>1. /\ RemoveAt(s, 1) \in Seq(S) /\ Len(RemoveAt(s, 1)) = Len(s) - 1
        /\ Distinct(RemoveAt(s, 1)) /\ Range(RemoveAt(s, 1)) = Range(s) \ {s[1]}
    BY <1>1, RemovedAt
  <2> QED
    BY <1>2, <1>4, <2>1
<1>7. /\ Front(s) \in Seq(S) /\ Len(Front(s)) = Len(s) - 1
      /\ Distinct(Front(s)) /\ Range(Front(s)) = Range(s) \ {Last(s)}
  BY <1>1, <1>2, <1>5, RemovedAt
<1> QED
  BY <1>1, <1>3, <1>6, <1>7

\* The empty list is a list of anything and holds nothing.
LEMMA EmptyList ==
  /\ <<>> \in Seq({}) /\ Len(<<>>) = 0 /\ Distinct(<<>>) /\ Range(<<>>) = {}
  /\ \A S : <<>> \in Seq(S)
BY DEF Distinct, Range

\* A set of positions has a last one.
LEMMA LastPosition ==
  ASSUME NEW n \in Nat, NEW A \in SUBSET (1..n), A # {}
  PROVE  Max(A) \in A /\ \A y \in A : y <= Max(A)
<1> DEFINE below == {i \in 1..n : \E j \in A : i <= j}
           k == Cardinality(below)
<1>1. IsFiniteSet(below) /\ k \in Nat
  BY IntervalSize, FS_Subset, FS_CardinalityType
<1>2. ASSUME NEW i \in below PROVE i <= k
  <2>1. 1..i \in SUBSET below /\ i \in Nat
    BY <1>2
  <2>2. Cardinality(1..i) = i
    BY <2>1, IntervalSize
  <2>3. Cardinality(1..i) <= Cardinality(below)
    BY <1>1, <2>1, FS_Subset
  <2> QED
    BY <2>2, <2>3
<1>3. below \in SUBSET (1..k)
  <2> HIDE DEF k
  <2>1. ASSUME NEW i \in below PROVE i \in 1..k
    BY <1>1, <1>2
  <2> QED
    BY <2>1
<1>4. below = 1..k
  <2> HIDE DEF below
  <2> QED
    BY <1>1, <1>3, IntervalSize, FS_Subset
<1>5. A \in SUBSET below
  OBVIOUS
<1>6. k \in below
  <2> HIDE DEF k
  <2>1. k >= 1
    <3>1. PICK a \in A : TRUE
      OBVIOUS
    <3>2. a \in 1..k
      BY <1>4, <1>5, <3>1
    <3> QED
      BY <1>1, <3>2
  <2> QED
    BY <1>1, <1>4, <2>1
<1>7. PICK m \in A : k <= m
  <2> HIDE DEF k
  <2> QED
    BY <1>6
<1>8. m \in A /\ \A y \in A : m >= y
  <2> HIDE DEF k
  <2>1. ASSUME NEW y \in A PROVE y <= k
    BY <1>2, <1>5
  <2> QED
    BY <1>1, <1>7, <2>1
<1>9. Max(A) \in A /\ \A y \in A : Max(A) >= y
  BY <1>8 DEF Max
<1> QED
  BY <1>9

\* The first n elements of a list.
LEMMA PrefixOf ==
  ASSUME NEW S, NEW s \in Seq(S), Distinct(s), NEW n \in 0..Len(s)
  PROVE  /\ SubSeq(s, 1, n) \in Seq(S) /\ Len(SubSeq(s, 1, n)) = n
         /\ Distinct(SubSeq(s, 1, n)) /\ Range(SubSeq(s, 1, n)) \subseteq Range(s)
         /\ \A i \in 1..Len(s) : s[i] \in Range(SubSeq(s, 1, n)) <=> i <= n
<1> DEFINE t == SubSeq(s, 1, n)
<1>1. t \in Seq(S) /\ Len(t) = n /\ \A i \in 1..n : t[i] = s[i]
  OBVIOUS
<1>2. n \in Nat /\ Len(s) \in Nat /\ n <= Len(s)
  OBVIOUS
<1> HIDE DEF t
<1>3. Distinct(t)
  BY <1>1, <1>2 DEF Distinct
<1>4. \A x : x \in Range(t) <=> \E i \in 1..Len(t) : t[i] = x
  BY <1>1, RangeOf
<1>5. \A x : x \in Range(s) <=> \E i \in 1..Len(s) : s[i] = x
  BY RangeOf
<1>6. Range(t) \subseteq Range(s)
  BY <1>1, <1>2, <1>4, <1>5
<1>7. \A i \in 1..Len(s) : s[i] \in Range(t) <=> i <= n
  BY <1>1, <1>2, <1>4 DEF Distinct
<1> QED
  BY <1>1, <1>3, <1>6, <1>7 DEF t

\* A set of positions has a first one.
LEMMA FirstPosition ==
  ASSUME NEW n \in Nat, NEW A \in SUBSET (1..n), A # {}
  PROVE  Min(A) \in A /\ \A y \in A : Min(A) <= y
<1> DEFINE B == {i \in 1..n : \A a \in A : i <= a}
           m == Max(B)
<1>1. PICK a0 \in A : TRUE
  OBVIOUS
<1>2. 1 \in B
  BY <1>1
<1>3. B \in SUBSET (1..n) /\ B # {}
  BY <1>2
<1>4. m \in B /\ \A y \in B : y <= m
  <2> HIDE DEF B
  <2> QED
    BY <1>3, LastPosition
<1> HIDE DEF m
<1>5. m \in 1..n /\ \A a \in A : m <= a
  BY <1>4
<1>6. m \in A
  <2> SUFFICES ASSUME m \notin A PROVE FALSE
    OBVIOUS
  <2>1. \A a \in A : m + 1 <= a
    BY <1>5
  <2>2. m + 1 \in 1..n
    BY <1>1, <1>5, <2>1
  <2>3. m + 1 \in B
    BY <2>1, <2>2
  <2> QED
    BY <1>4, <1>5, <2>3
<1>7. \E x \in A : \A y \in A : x <= y
  BY <1>5, <1>6
<1> QED
  BY <1>7 DEF Min

\* A set of natural numbers has a least one.
LEMMA LeastNumber ==
  ASSUME NEW V \in SUBSET Nat, V # {}
  PROVE  \E m \in V : \A v \in V : m <= v
<1>1. PICK a \in V : TRUE
  OBVIOUS
<1> DEFINE A == {i \in 1..(a + 1) : i - 1 \in V}
<1>2. A \in SUBSET (1..(a + 1)) /\ a + 1 \in A /\ a + 1 \in Nat /\ A # {}
  BY <1>1
<1>3. Min(A) \in A /\ \A y \in A : Min(A) <= y
  <2> HIDE DEF A
  <2> QED
    BY <1>2, FirstPosition
<1> DEFINE k == Min(A)
<1> HIDE DEF k
<1>4. k \in 1..(a + 1) /\ k - 1 \in V
  BY <1>3 DEF k
<1>5. ASSUME NEW v \in V PROVE k - 1 <= v
  <2>1. CASE v <= a
    <3>1. v + 1 \in A
      BY <1>1, <2>1
    <3>2. k <= v + 1
      BY <1>3, <3>1 DEF k
    <3> QED
      BY <1>4, <3>2
  <2>2. CASE v > a
    BY <1>1, <1>4, <2>2
  <2> QED
    BY <1>1, <2>1, <2>2
<1> QED
  BY <1>4, <1>5

\* Counting up from the least, every number up to the size of a set is the rank
\* of one of its members.
LEMMA RankTaken ==
  ASSUME NEW n \in Nat, NEW S \in SUBSET (1..n), NEW k \in 1..Cardinality(S)
  PROVE  \E t \in S : Cardinality({u \in S : u <= t}) = k
<1> DEFINE below(t) == {u \in S : u <= t}
           rank == [t \in S |-> Cardinality(below(t))]
           size == Cardinality(S)
<1>1. IsFiniteSet(S) /\ size \in Nat
  BY IntervalSize, FS_Subset, FS_CardinalityType
<1>2. ASSUME NEW t \in S
      PROVE  /\ IsFiniteSet(below(t)) /\ Cardinality(below(t)) \in 1..size
  <2>1. below(t) \in SUBSET S /\ t \in below(t)
    OBVIOUS
  <2> HIDE DEF below
  <2>2. IsFiniteSet(below(t)) /\ Cardinality(below(t)) \in Nat /\ Cardinality(below(t)) <= size
    BY <1>1, <2>1, FS_Subset, FS_CardinalityType
  <2>3. Cardinality(below(t)) # 0
    BY <2>1, <2>2, FS_EmptySet
  <2> QED
    BY <1>1, <2>2, <2>3
<1>3. ASSUME NEW t \in S, NEW v \in S, t < v PROVE Cardinality(below(t)) < Cardinality(below(v))
  <2>1. below(t) \in SUBSET below(v) /\ v \in below(v) /\ v \notin below(t)
    <3>1. S \in SUBSET Nat
      OBVIOUS
    <3>2. \A u \in S : u <= t => u <= v
      BY <1>3, <3>1
    <3>3. v <= v /\ ~(v <= t)
      BY <1>3, <3>1
    <3> QED
      BY <3>2, <3>3
  <2>2. IsFiniteSet(below(v)) /\ Cardinality(below(v)) \in Nat /\ Cardinality(below(t)) \in Nat
    BY <1>2
  <2> HIDE DEF below
  <2>3. Cardinality(below(t)) <= Cardinality(below(v))
    BY <2>1, <2>2, FS_Subset
  <2>4. Cardinality(below(t)) # Cardinality(below(v))
    BY <2>1, <2>2, FS_Subset
  <2> QED
    BY <2>2, <2>3, <2>4
<1> DEFINE I == {rank[t] : t \in S}
<1> HIDE DEF below
<1>4. I \in SUBSET (1..size)
  BY <1>2
<1>5. rank \in Bijection(S, I)
  <2>1. rank \in [S -> I] /\ \A y \in I : \E t \in S : rank[t] = y
    OBVIOUS
  <2>2. ASSUME NEW t \in S, NEW v \in S, t # v PROVE rank[t] # rank[v]
    <3>1. rank[t] = Cardinality(below(t)) /\ rank[v] = Cardinality(below(v))
      OBVIOUS
    <3>2. rank[t] \in Nat /\ rank[v] \in Nat
      BY <1>1, <1>2, <3>1
    <3>3. t < v \/ v < t
      BY <2>2
    <3> HIDE DEF rank
    <3> QED
      BY <1>3, <3>1, <3>2, <3>3
  <2> HIDE DEF rank, I
  <2> QED
    BY <2>1, <2>2, Zenon DEF Bijection, Injection, Surjection, IsInjective
<1>6. Cardinality(I) = size
  <2> HIDE DEF rank, I
  <2> QED
    BY <1>1, <1>5, FS_Bijection DEF ExistsBijection
<1>7. I = 1..size
  <2> HIDE DEF I, size
  <2>1. IsFiniteSet(1..size) /\ Cardinality(1..size) = size
    BY <1>1, IntervalSize
  <2> QED
    BY <1>4, <1>6, <2>1, FS_Subset
<1>8. k \in I
  BY <1>7
<1> QED
  BY <1>8 DEF below

-----------------------------------------------------------------------------
(* Sums *)

\* What is added up, in units: as many of each x in S as w[x] says.
Units(w, S) == UNION {{x} \X (1..w[x]) : x \in S}

\* The units of one element.
LEMMA UnitsOfOne ==
  ASSUME NEW x, NEW n \in Nat
  PROVE  IsFiniteSet({x} \X (1..n)) /\ Cardinality({x} \X (1..n)) = n
<1>1. IsFiniteSet({x}) /\ Cardinality({x}) = 1
  BY FS_Singleton
<1>2. IsFiniteSet(1..n) /\ Cardinality(1..n) = n
  BY IntervalSize
<1>3. /\ IsFiniteSet({x} \X (1..n))
      /\ Cardinality({x} \X (1..n)) = Cardinality({x}) * Cardinality(1..n)
  BY <1>1, <1>2, FS_Product
<1> QED
  BY <1>1, <1>2, <1>3

\* The units of a finite set are finitely many.
LEMMA UnitsFinite ==
  ASSUME NEW A, NEW w \in [A -> Nat], NEW S \in SUBSET A, IsFiniteSet(S)
  PROVE  IsFiniteSet(Units(w, S)) /\ Cardinality(Units(w, S)) \in Nat
<1> DEFINE Of(x) == {x} \X (1..w[x])
           T == {Of(x) : x \in S}
<1>1. ASSUME NEW x \in S PROVE IsFiniteSet(Of(x))
  BY UnitsOfOne
<1> HIDE DEF Of
<1> DEFINE f == [x \in S |-> Of(x)]
<1>2. f \in Surjection(S, T)
  BY DEF Surjection
<1>3. IsFiniteSet(T)
  <2> HIDE DEF f, T
  <2> QED
    BY <1>2, FS_Surjection
<1>4. \A t \in T : IsFiniteSet(t)
  BY <1>1
<1>5. IsFiniteSet(UNION T)
  <2> HIDE DEF T
  <2> QED
    BY <1>3, <1>4, FS_UNION
<1>6. Units(w, S) = UNION T
  BY DEF Units, Of
<1> QED
  BY <1>5, <1>6, FS_CardinalityType

\* Two sets without a common element have the units of both.
LEMMA UnitsJoined ==
  ASSUME NEW A, NEW w \in [A -> Nat], NEW S \in SUBSET A, NEW T \in SUBSET A,
         IsFiniteSet(S), IsFiniteSet(T), S \cap T = {}
  PROVE  /\ Cardinality(Units(w, S \cup T)) = Cardinality(Units(w, S)) + Cardinality(Units(w, T))
         /\ Cardinality(Units(w, S)) \in Nat /\ Cardinality(Units(w, T)) \in Nat
<1>1. /\ IsFiniteSet(Units(w, S)) /\ Cardinality(Units(w, S)) \in Nat
      /\ IsFiniteSet(Units(w, T)) /\ Cardinality(Units(w, T)) \in Nat
  BY UnitsFinite
<1>2. Units(w, S \cup T) = Units(w, S) \cup Units(w, T)
  BY DEF Units
<1>3. Units(w, S) \cap Units(w, T) = {}
  BY DEF Units
<1>4. Cardinality({}) = 0
  BY FS_EmptySet
<1> DEFINE U == Units(w, S)
           V == Units(w, T)
<1> HIDE DEF U, V
<1>5. Cardinality(U \cup V) = Cardinality(U) + Cardinality(V) - Cardinality(U \cap V)
  BY <1>1, FS_Union DEF U, V
<1>6. Cardinality(U \cap V) = 0
  BY <1>3, <1>4, Zenon DEF U, V
<1>7. Cardinality(U) \in Nat /\ Cardinality(V) \in Nat
  BY <1>1 DEF U, V
<1>8. Cardinality(U \cup V) = Cardinality(U) + Cardinality(V)
  BY <1>5, <1>6, <1>7
<1> QED
  BY <1>1, <1>2, <1>8 DEF U, V

\* The units of no element, and of one more.
LEMMA UnitsStep ==
  ASSUME NEW A, NEW w \in [A -> Nat]
  PROVE  /\ Cardinality(Units(w, {})) = 0
         /\ \A x \in A : Cardinality(Units(w, {x})) = w[x]
         /\ \A S \in SUBSET A : IsFiniteSet(S) =>
              \A x \in S : Cardinality(Units(w, S)) = w[x] + Cardinality(Units(w, S \ {x}))
<1>1. Units(w, {}) = {}
  BY DEF Units
<1>2. ASSUME NEW x \in A PROVE Cardinality(Units(w, {x})) = w[x]
  <2>1. Units(w, {x}) = {x} \X (1..w[x])
    BY DEF Units
  <2> QED
    BY <2>1, UnitsOfOne
<1>3. ASSUME NEW S \in SUBSET A, IsFiniteSet(S), NEW x \in S
      PROVE  Cardinality(Units(w, S)) = w[x] + Cardinality(Units(w, S \ {x}))
  <2> DEFINE R == S \ {x}
  <2>1. R \in SUBSET A /\ {x} \in SUBSET A /\ {x} \cap R = {} /\ {x} \cup R = S
    BY <1>3
  <2>2. IsFiniteSet(R) /\ IsFiniteSet({x})
    BY <1>3, FS_Subset, FS_Singleton
  <2> HIDE DEF R
  <2>3. Cardinality(Units(w, S)) = Cardinality(Units(w, {x})) + Cardinality(Units(w, R))
    BY <2>1, <2>2, UnitsJoined
  <2> QED
    BY <1>2, <1>3, <2>3 DEF R
<1> QED
  BY <1>1, <1>2, <1>3, FS_EmptySet

\* The equation by which the library adds w up: it takes one element after another.
Adds(h, w, S) ==
  h = [s \in SUBSET S |-> IF s = {} THEN 0
         ELSE w[CHOOSE x \in s : TRUE] + h[s \ {CHOOSE x \in s : TRUE}]]

\* The recursion by which the library adds up counts the units, whatever element
\* it takes next.
LEMMA SumCounts ==
  ASSUME NEW A, NEW w \in [A -> Nat], NEW S \in SUBSET A, IsFiniteSet(S),
         NEW h, Adds(h, w, S)
  PROVE  \A s \in SUBSET S : h[s] = Cardinality(Units(w, s))
<1> DEFINE sizes == {n \in Nat : \E s \in SUBSET S : Cardinality(s) = n /\ h[s] # Cardinality(Units(w, s))}
<1>1. SUFFICES ASSUME sizes # {} PROVE FALSE
  <2>1. ASSUME NEW s \in SUBSET S PROVE Cardinality(s) \in Nat
    BY FS_Subset, FS_CardinalityType
  <2> QED
    BY <2>1
<1>2. PICK n \in sizes : \A m \in sizes : n <= m
  BY <1>1, LeastNumber
<1>3. PICK s \in SUBSET S : Cardinality(s) = n /\ h[s] # Cardinality(Units(w, s))
  BY <1>2
<1>4. IsFiniteSet(s) /\ s \in SUBSET A /\ n \in Nat
  BY <1>2, FS_Subset
<1>5. s # {}
  <2>1. h[{}] = 0
    BY DEF Adds
  <2> QED
    BY <1>3, <2>1, UnitsStep
<1> DEFINE x == CHOOSE y \in s : TRUE
           r == s \ {x}
<1>6. x \in s
  BY <1>5
<1>7. h[s] = w[x] + h[r]
  BY <1>5 DEF Adds
<1> HIDE DEF x
<1>8. Cardinality(r) = n - 1 /\ r \in SUBSET S /\ Cardinality(r) \in Nat
  BY <1>3, <1>4, <1>6, FS_RemoveElement, FS_CardinalityType
<1>9. h[r] = Cardinality(Units(w, r))
  <2> HIDE DEF r
  <2>1. n - 1 \notin sizes
    <3> HIDE DEF sizes
    <3> QED
      BY <1>2, <1>4
  <2> QED
    BY <1>4, <1>8, <2>1
<1>10. Cardinality(Units(w, s)) = w[x] + Cardinality(Units(w, r))
  BY <1>4, <1>6, UnitsStep
<1> QED
  BY <1>3, <1>7, <1>9, <1>10

\* The count satisfies the equation of that recursion, so that there is a solution.
LEMMA CountSolves ==
  ASSUME NEW A, NEW w \in [A -> Nat], NEW S \in SUBSET A, IsFiniteSet(S)
  PROVE  \E h : Adds(h, w, S)
<1> DEFINE h == [s \in SUBSET S |-> Cardinality(Units(w, s))]
           g == [s \in SUBSET S |-> IF s = {} THEN 0
                   ELSE w[CHOOSE x \in s : TRUE] + h[s \ {CHOOSE x \in s : TRUE}]]
<1>1. ASSUME NEW s \in SUBSET S PROVE h[s] = g[s]
  <2>1. CASE s = {}
    BY <2>1, UnitsStep
  <2>2. CASE s # {}
    <3> DEFINE x == CHOOSE y \in s : TRUE
    <3>1. x \in s
      BY <2>2
    <3>2. g[s] = w[x] + h[s \ {x}]
      BY <2>2
    <3> HIDE DEF x, g
    <3>3. s \ {x} \in SUBSET S /\ s \in SUBSET A /\ IsFiniteSet(s)
      BY FS_Subset
    <3>4. h[s \ {x}] = Cardinality(Units(w, s \ {x})) /\ h[s] = Cardinality(Units(w, s))
      BY <3>3
    <3> HIDE DEF h
    <3> QED
      BY <3>1, <3>2, <3>3, <3>4, UnitsStep
  <2> QED
    BY <2>1, <2>2
<1>2. h = g
  BY <1>1
<1>3. Adds(h, w, S)
  <2> HIDE DEF h
  <2> QED
    BY <1>2 DEF Adds
<1> QED
  BY <1>3

\* A sum over a finite set is the number of its units.
LEMMA SumIsCount ==
  ASSUME NEW A, NEW w \in [A -> Nat], NEW S \in SUBSET A, IsFiniteSet(S)
  PROVE  FoldFunctionOnSet(+, 0, w, S) = Cardinality(Units(w, S))
<1> DEFINE g == CHOOSE h : Adds(h, w, S)
<1>1. FoldFunctionOnSet(+, 0, w, S) = g[S]
  BY DEF FoldFunctionOnSet, MapThenFoldSet, Adds
<1>2. \E h : Adds(h, w, S)
  BY CountSolves
<1>3. Adds(g, w, S)
  BY <1>2
<1> HIDE DEF g
<1>4. g[S] = Cardinality(Units(w, S))
  BY <1>3, SumCounts
<1> QED
  BY <1>1, <1>4

-----------------------------------------------------------------------------
(* Remainders *)

\* A number is its quotient and its remainder.
LEMMA Divided ==
  ASSUME NEW n \in Nat, NEW d \in Nat \ {0}
  PROVE  \E q \in Nat, r \in 0..(d - 1) : n = d * q + r /\ n % d = r
<1> DEFINE q == n \div d
           r == n % d
<1>1. r = n - d * q
  OBVIOUS
<1>2. r \in 0..(d - 1) /\ q \in Nat
  OBVIOUS
<1> HIDE DEF q, r
<1>3. d * q \in Int
  BY <1>2
<1>4. n = d * q + r
  BY <1>1, <1>2, <1>3
<1>5. n % d = r
  BY DEF r
<1> QED
  BY <1>2, <1>4, <1>5, Zenon

\* Quotient and remainder are unique.
LEMMA RemainderOf ==
  ASSUME NEW d \in Nat \ {0}, NEW q \in Int, NEW r \in 0..(d - 1), NEW n \in Nat, n = d * q + r
  PROVE  n % d = r
<1>1. PICK p \in Nat, s \in 0..(d - 1) : n = d * p + s /\ n % d = s
  BY Divided
<1>2. d * (p - q) = r - s /\ p - q \in Int
  <2>1. d * (p - q) = d * p - d * q
    BY <1>1
  <2>2. d * p \in Int /\ d * q \in Int
    OBVIOUS
  <2> QED
    BY <1>1, <2>1, <2>2
<1> DEFINE e == p - q
<1> HIDE DEF e
<1>3. e = 0
  <2>1. e \in Int /\ d * e = r - s
    BY <1>2 DEF e
  <2>2. e >= 1 => d * e >= d
    BY <2>1
  <2>3. e <= -1 => d * e <= -d
    BY <2>1
  <2> QED
    BY <1>1, <2>1, <2>2, <2>3
<1>4. r - s = 0
  BY <1>2, <1>3 DEF e
<1> QED
  BY <1>1, <1>4

\* A number is divided by what its quotient says.
LEMMA QuotientOf ==
  ASSUME NEW d \in Nat \ {0}, NEW q \in Int, NEW r \in 0..(d - 1), NEW n \in Nat, n = d * q + r
  PROVE  n \div d = q
<1> DEFINE p == n \div d
<1>1. n % d = n - d * p /\ p \in Int
  OBVIOUS
<1>2. n % d = r
  BY RemainderOf
<1> HIDE DEF p
<1>3. d * (p - q) = 0 /\ p - q \in Int
  <2>1. d * p \in Int /\ d * q \in Int /\ d * (p - q) = d * p - d * q
    BY <1>1
  <2> QED
    BY <1>1, <1>2, <2>1
<1>4. p = q
  <2> DEFINE e == p - q
  <2>1. e \in Int /\ d * e = 0
    BY <1>3
  <2> HIDE DEF e
  <2>2. e >= 1 => d * e >= d
    BY <2>1
  <2>3. e <= -1 => d * e <= -d
    BY <2>1
  <2>4. e = 0
    BY <2>1, <2>2, <2>3
  <2> QED
    BY <1>1, <2>4 DEF e
<1> QED
  BY <1>4 DEF p

\* Of d consecutive numbers one has the remainder 1: who counts those counts the
\* n there are by d, rounded up.
LEMMA EveryNth ==
  ASSUME NEW d \in Nat, d >= 2, NEW n \in Nat
  PROVE  (n + 1 + d - 1) \div d = IF (n + 1) % d = 1 THEN (n + d - 1) \div d + 1
                                                     ELSE (n + d - 1) \div d
<1>0. d \in Nat \ {0}
  OBVIOUS
<1>1. PICK q \in Nat, r \in 0..(d - 1) : n = d * q + r
  BY <1>0, Divided
<1>2. d * q \in Int /\ d * (q + 1) = d * q + d /\ q + 1 \in Int /\ d \in Nat \ {0}
  BY <1>0, <1>1
<1> DEFINE a == n + 1 + d - 1
           b == n + d - 1
           c == n + 1
           p == q + 1
<1>3. a \in Nat /\ b \in Nat /\ c \in Nat /\ p \in Int /\ p = q + 1
  BY <1>1
<1>4. a = d * p + r
  BY <1>1, <1>2
<1>5. a \div d = p
  <2> HIDE DEF a, p
  <2> QED
    BY <1>1, <1>2, <1>3, <1>4, QuotientOf
<1>6. CASE r = 0
  <2> DEFINE s == d - 1
  <2>1. b = d * q + s /\ s \in 0..(d - 1)
    BY <1>1, <1>2, <1>6
  <2> DEFINE u == 1
  <2>2. c = d * q + u /\ u \in 0..(d - 1)
    BY <1>1, <1>2, <1>6
  <2>3. b \div d = q
    <3> HIDE DEF b, s
    <3> QED
      BY <1>1, <1>2, <1>3, <2>1, QuotientOf
  <2>4. c % d = 1
    <3> HIDE DEF c, u
    <3>1. c % d = u
      BY <1>1, <1>2, <1>3, <2>2, RemainderOf
    <3> QED
      BY <3>1 DEF u
  <2> QED
    BY <1>3, <1>5, <2>3, <2>4
<1>7. CASE r > 0
  <2> DEFINE s == r - 1
             t == r + 1
  <2>1. b = d * p + s /\ s \in 0..(d - 1)
    BY <1>1, <1>2, <1>7
  <2>2. b \div d = p
    <3> HIDE DEF b, s, p
    <3> QED
      BY <1>2, <1>3, <2>1, QuotientOf
  <2>3. c % d # 1
    <3>1. CASE t \in 0..(d - 1)
      <4>1. c = d * q + t /\ t # 1
        BY <1>1, <1>2, <1>7
      <4> HIDE DEF c, t
      <4>2. c % d = t
        BY <1>1, <1>2, <1>3, <3>1, <4>1, RemainderOf
      <4> QED
        BY <4>1, <4>2
    <3>2. CASE t \notin 0..(d - 1)
      <4>1. c = d * p + 0 /\ 0 \in 0..(d - 1)
        BY <1>1, <1>2, <3>2
      <4> HIDE DEF c, p
      <4>2. c % d = 0
        BY <1>2, <1>3, <4>1, RemainderOf
      <4> QED
        BY <4>2
    <3> QED
      BY <3>1, <3>2
  <2> QED
    BY <1>3, <1>5, <2>2, <2>3
<1> QED
  BY <1>1, <1>6, <1>7

\* Every place of a clock of d places is passed once in d consecutive ticks: those
\* from b to b + w - 1 are w of them, wherever the clock stands at n.
LEMMA ShiftCount ==
  ASSUME NEW d \in Nat \ {0}, NEW n \in Nat, NEW b \in Nat, NEW w \in Nat, b + w <= d
  PROVE  Cardinality({k \in 0..(d - 1) : (n + k) % d \in b..(b + w - 1)}) = w
<1>1. PICK q \in Nat, r \in 0..(d - 1) : n = d * q + r /\ n % d = r
  BY Divided
<1> DEFINE V == b..(b + w - 1)
           K == {k \in 0..(d - 1) : (n + k) % d \in V}
           g == [v \in V |-> IF v >= r THEN v - r ELSE v - r + d]
<1>2. d * q \in Int /\ d * (q + 1) = d * q + d
  OBVIOUS
<1>3. ASSUME NEW k \in 0..(d - 1)
      PROVE  (n + k) % d = IF r + k < d THEN r + k ELSE r + k - d
  <2>1. CASE r + k < d
    <3>1. r + k \in 0..(d - 1) /\ n + k \in Nat
      BY <1>1, <2>1
    <3>2. n + k = d * q + (r + k)
      BY <1>1, <1>2
    <3> QED
      BY <1>1, <2>1, <3>1, <3>2, RemainderOf
  <2>2. CASE ~(r + k < d)
    <3>1. r + k - d \in 0..(d - 1) /\ n + k \in Nat
      BY <2>2
    <3>2. n + k = d * (q + 1) + (r + k - d)
      BY <1>1, <1>2
    <3>3. q + 1 \in Int
      BY <1>1
    <3> DEFINE p == q + 1
               s == r + k - d
    <3> HIDE DEF p, s
    <3> DEFINE m == n + k
    <3>4. m \in Nat /\ s \in 0..(d - 1) /\ p \in Int /\ m = d * p + s
      BY <3>1, <3>2, <3>3, Zenon DEF p, s
    <3> HIDE DEF m
    <3>5. m % d = s
      BY <3>4, RemainderOf
    <3> QED
      BY <2>2, <3>5 DEF s, m
  <2> QED
    BY <2>1, <2>2
<1>4. \A v \in V : g[v] \in K
  <2> SUFFICES ASSUME NEW v \in V PROVE g[v] \in K
    OBVIOUS
  <2>1. v \in 0..(d - 1)
    OBVIOUS
  <2>2. g[v] = IF v >= r THEN v - r ELSE v - r + d
    OBVIOUS
  <2> HIDE DEF g
  <2>3. g[v] \in 0..(d - 1)
    BY <1>1, <2>1, <2>2
  <2>4. (n + g[v]) % d = v
    <3> DEFINE k == g[v]
    <3>1. k \in 0..(d - 1) /\ k = IF v >= r THEN v - r ELSE v - r + d
      BY <2>2, <2>3
    <3> HIDE DEF k
    <3>2. (IF r + k < d THEN r + k ELSE r + k - d) = v
      BY <1>1, <2>1, <3>1
    <3>3. (n + k) % d = v
      BY <1>3, <3>1, <3>2, Zenon
    <3> QED
      BY <3>3 DEF k
  <2> QED
    BY <2>3, <2>4
<1>5. \A u, v \in V : g[u] = g[v] => u = v
  OBVIOUS
<1>6. \A k \in K : \E v \in V : g[v] = k
  <2> SUFFICES ASSUME NEW k \in K PROVE \E v \in V : g[v] = k
    OBVIOUS
  <2> DEFINE v == (n + k) % d
  <2>1. v \in V /\ k \in 0..(d - 1)
    OBVIOUS
  <2>2. v = IF r + k < d THEN r + k ELSE r + k - d
    BY <1>3, <2>1
  <2> HIDE DEF v, V, K
  <2>3. g[v] = IF v >= r THEN v - r ELSE v - r + d
    BY <2>1
  <2> HIDE DEF g
  <2>4. g[v] = k
    BY <1>1, <2>1, <2>2, <2>3
  <2> QED
    BY <2>1, <2>4
<1>7. g \in Bijection(V, K)
  <2>1. g \in [V -> K]
    BY <1>4
  <2> HIDE DEF g, V, K
  <2> QED
    BY <1>5, <1>6, <2>1, Zenon DEF Bijection, Injection, Surjection, IsInjective
<1>8. IsFiniteSet(V) /\ Cardinality(V) = w
  <2>1. /\ IsFiniteSet(V)
        /\ Cardinality(V) = IF b > b + w - 1 THEN 0 ELSE (b + w - 1) - b + 1
    BY FS_Interval
  <2> QED
    BY <2>1
<1> HIDE DEF g, V, K
<1>9. ExistsBijection(V, K)
  BY <1>7 DEF ExistsBijection
<1>10. Cardinality(K) = w
  BY <1>8, <1>9, FS_Bijection
<1> QED
  BY <1>10 DEF K, V

\* A set of numbers that is not empty has a least.
LEMMA LeastOfSet ==
  ASSUME NEW A \in SUBSET Nat, A # {}
  PROVE  Min(A) \in A /\ \A y \in A : Min(A) <= y
<1>1. \E x \in A : \A y \in A : x <= y
  BY LeastNumber
<1> QED
  BY <1>1 DEF Min

\* Finitely many numbers have a largest.
LEMMA LargestOf ==
  ASSUME NEW n \in Nat, NEW A \in SUBSET (0..n), NEW w \in [A -> Nat], A # {}
  PROVE  \E i \in A : \A j \in A : w[j] <= w[i]
<1> DEFINE Upto(m) == {i \in A : i <= m}
           Has(m) == \E i \in Upto(m) : \A j \in Upto(m) : w[j] <= w[i]
           B == {m \in Nat : Upto(m) # {} /\ ~Has(m)}
<1>1. B = {}
  <2> SUFFICES ASSUME B # {} PROVE FALSE
    OBVIOUS
  <2>1. PICK m \in B : \A k \in B : m <= k
    <3>1. B \in SUBSET Nat
      OBVIOUS
    <3> HIDE DEF B
    <3> QED
      BY <3>1, LeastNumber
  <2>2. m \in Nat /\ Upto(m) # {} /\ ~Has(m)
    BY <2>1
  <2>3. CASE m = 0
    <3>1. Upto(m) = {0}
      <4>1. \A i \in A : i <= 0 <=> i = 0
        OBVIOUS
      <4> QED
        BY <2>2, <2>3, <4>1
    <3>2. w[0] <= w[0]
      BY <3>1
    <3> QED
      BY <2>2, <3>1, <3>2
  <2>4. CASE m > 0
    <3> DEFINE k == m - 1
    <3>1. k \in Nat /\ ~(m <= k)
      BY <2>2, <2>4
    <3>2. k \notin B
      BY <2>1, <3>1
    <3>3. Upto(m) = Upto(k) \cup (IF m \in A THEN {m} ELSE {})
      <4>1. \A i \in A : i <= m <=> (i <= k \/ i = m)
        BY <2>2, <3>1
      <4>2. m <= m
        BY <2>2
      <4> QED
        BY <4>1, <4>2
    <3>4. \A i \in A : w[i] \in Nat
      OBVIOUS
    <3>5. CASE Upto(k) = {}
      <4>1. Upto(m) = {m} /\ m \in A
        BY <2>2, <3>3, <3>5
      <4>2. w[m] <= w[m]
        BY <3>4, <4>1
      <4> QED
        BY <2>2, <4>1, <4>2
    <3>6. CASE Upto(k) # {}
      <4>1. Has(k)
        BY <3>1, <3>2, <3>6
      <4>2. PICK i \in Upto(k) : \A j \in Upto(k) : w[j] <= w[i]
        BY <4>1
      <4>3. CASE m \in A /\ w[m] > w[i]
        <5>1. \A j \in Upto(m) : w[j] <= w[m]
          BY <3>3, <3>4, <4>2, <4>3
        <5>2. m \in Upto(m)
          BY <3>3, <4>3
        <5> QED
          BY <2>2, <5>1, <5>2
      <4>4. CASE ~(m \in A /\ w[m] > w[i])
        <5>1. \A j \in Upto(m) : w[j] <= w[i]
          BY <3>3, <3>4, <4>2, <4>4
        <5>2. i \in Upto(m)
          BY <3>3
        <5> QED
          BY <2>2, <5>1, <5>2
      <4> QED
        BY <4>3, <4>4
    <3> QED
      BY <3>5, <3>6
  <2> QED
    BY <2>2, <2>3, <2>4
<1>2. Upto(n) = A
  <2>1. \A i \in A : i <= n
    OBVIOUS
  <2> QED
    BY <2>1
<1> HIDE DEF Upto
<1>3. Has(n)
  BY <1>1, <1>2
<1> QED
  BY <1>2, <1>3

-----------------------------------------------------------------------------
(* Recursion: what a definition asks for has a lower rank than what it is asked for. *)

\* An element belongs to S as soon as all of a lower rank do.
Inductive(D, rank, S) ==
  \A x \in D : (\A y \in D : rank[y] < rank[x] => y \in S) => x \in S

\* Then all do.
LEMMA RankInduction ==
  ASSUME NEW D, NEW rank \in [D -> Nat], NEW S, Inductive(D, rank, S)
  PROVE  \A x \in D : x \in S
<1> DEFINE V == {n \in Nat : \E x \in D : rank[x] = n /\ x \notin S}
<1>1. SUFFICES ASSUME V # {} PROVE FALSE
  OBVIOUS
<1>2. V \in SUBSET Nat
  OBVIOUS
<1>3. PICK n \in V : \A m \in V : n <= m
  <2> HIDE DEF V
  <2> QED
    BY <1>1, <1>2, LeastNumber
<1>4. PICK x \in D : rank[x] = n /\ x \notin S
  BY <1>3
<1>5. ASSUME NEW y \in D, rank[y] < rank[x] PROVE y \in S
  <2>1. rank[y] \in Nat /\ n \in Nat /\ ~(n <= rank[y])
    BY <1>4, <1>5
  <2> QED
    BY <1>3, <2>1
<1> QED
  BY <1>4, <1>5 DEF Inductive

\* A recursion that asks for lower ranks only.
Descends(D, V, rank, G) ==
  \A x \in D, f, g \in [D -> V] :
    (\A y \in D : rank[y] < rank[x] => f[y] = g[y]) => G[<<x, f>>] = G[<<x, g>>]

\* f satisfies the recursion at every rank below n.
SolvesBelow(D, rank, G, f, n) == \A x \in D : rank[x] < n => f[x] = G[<<x, f>>]

Recursive(D, V, rank, G) ==
  /\ V # {} /\ rank \in [D -> Nat] /\ G \in [D \X [D -> V] -> V]
  /\ Descends(D, V, rank, G)

LEMMA RecursionStep ==
  ASSUME NEW D, NEW V, NEW rank, NEW G, Recursive(D, V, rank, G), NEW n \in Nat,
         NEW f \in [D -> V], SolvesBelow(D, rank, G, f, n)
  PROVE  \E g \in [D -> V] : SolvesBelow(D, rank, G, g, n + 1)
<1>a. /\ rank \in [D -> Nat] /\ G \in [D \X [D -> V] -> V]
      /\ Descends(D, V, rank, G)
  BY DEF Recursive
<1> DEFINE g == [x \in D |-> IF rank[x] = n THEN G[<<x, f>>] ELSE f[x]]
<1>1. g \in [D -> V] /\ \A x \in D : g[x] = IF rank[x] = n THEN G[<<x, f>>] ELSE f[x]
  BY <1>a
<1> HIDE DEF g
<1>2. ASSUME NEW x \in D, rank[x] < n + 1 PROVE g[x] = G[<<x, g>>]
  <2>1. rank[x] \in Nat /\ (rank[x] < n \/ rank[x] = n)
    <3>1. rank[x] \in Nat
      BY <1>a
    <3> QED
      BY ONLY <1>2, <3>1, n \in Nat
  <2>2. \A y \in D : rank[y] < rank[x] => rank[y] # n
    BY <1>a, <2>1
  <2>3. \A y \in D : rank[y] < rank[x] => f[y] = g[y]
    BY <1>1, <2>2
  <2>4. G[<<x, f>>] = G[<<x, g>>]
    BY <1>1, <1>a, <2>3 DEF Descends
  <2>5. rank[x] # n => f[x] = G[<<x, f>>]
    BY <2>1 DEF SolvesBelow
  <2> QED
    BY <1>1, <2>4, <2>5
<1> QED
  BY <1>1, <1>2 DEF SolvesBelow

LEMMA RecursionBelow ==
  ASSUME NEW D, NEW V, NEW rank, NEW G, Recursive(D, V, rank, G)
  PROVE  \A n \in Nat : \E f \in [D -> V] : SolvesBelow(D, rank, G, f, n)
<1>0. rank \in [D -> Nat]
  BY DEF Recursive
<1>b. PICK v \in V : TRUE
  BY DEF Recursive
<1> DEFINE B == {n \in Nat : ~\E f \in [D -> V] : SolvesBelow(D, rank, G, f, n)}
<1> SUFFICES ASSUME B # {} PROVE FALSE
  OBVIOUS
<1>1. B \in SUBSET Nat
  OBVIOUS
<1>2. PICK n \in B : \A m \in B : n <= m
  <2> HIDE DEF B
  <2> QED
    BY <1>1, LeastNumber
<1>3. n # 0
  <2> DEFINE f == [x \in D |-> v]
  <2>1. f \in [D -> V]
    BY <1>b
  <2> HIDE DEF f
  <2>2. SolvesBelow(D, rank, G, f, 0)
    BY <1>0 DEF SolvesBelow
  <2> QED
    BY <1>2, <2>1, <2>2
<1>4. n - 1 \in Nat /\ ~(n <= n - 1) /\ (n - 1) + 1 = n
  BY <1>1, <1>2, <1>3
<1>5. PICK f \in [D -> V] : SolvesBelow(D, rank, G, f, n - 1)
  BY <1>2, <1>4
<1> DEFINE k == n - 1
<1>6. k \in Nat /\ k + 1 = n
  BY <1>4
<1> HIDE DEF k, B
<1>7. \E g \in [D -> V] : SolvesBelow(D, rank, G, g, k + 1)
  BY <1>5, <1>6, RecursionStep DEF k
<1> QED
  BY <1>2, <1>6, <1>7 DEF B

\* Where two functions satisfy the recursion they are the same.
LEMMA RecursionAgrees ==
  ASSUME NEW D, NEW V, NEW rank, NEW G, Recursive(D, V, rank, G), NEW n \in Nat, NEW m \in Nat,
         n <= m, NEW f \in [D -> V], SolvesBelow(D, rank, G, f, n),
         NEW g \in [D -> V], SolvesBelow(D, rank, G, g, m)
  PROVE  \A x \in D : rank[x] < n => f[x] = g[x]
<1>a. rank \in [D -> Nat] /\ Descends(D, V, rank, G)
  BY DEF Recursive
<1> DEFINE S == {x \in D : rank[x] < n => f[x] = g[x]}
<1>1. Inductive(D, rank, S)
  <2> SUFFICES ASSUME NEW x \in D, \A y \in D : rank[y] < rank[x] => y \in S, rank[x] < n
               PROVE  f[x] = g[x]
    BY DEF Inductive
  <2>1. rank[x] \in Nat /\ \A y \in D : rank[y] \in Nat
    BY <1>a
  <2>2. \A y \in D : rank[y] < rank[x] => rank[y] < n
    BY <2>1
  <2>3. \A y \in D : rank[y] < rank[x] => f[y] = g[y]
    BY <2>2
  <2>4. G[<<x, f>>] = G[<<x, g>>]
    BY <1>a, <2>3 DEF Descends
  <2>5. rank[x] < m
    BY <2>1
  <2>6. f[x] = G[<<x, f>>] /\ g[x] = G[<<x, g>>]
    BY <2>5 DEF SolvesBelow
  <2> QED
    BY <2>4, <2>6
<1> HIDE DEF S
<1>2. \A x \in D : x \in S
  BY <1>1, <1>a, RankInduction
<1> QED
  BY <1>2 DEF S

\* It has a solution.
LEMMA Recursion ==
  ASSUME NEW D, NEW V, NEW rank, NEW G, Recursive(D, V, rank, G)
  PROVE  \E f \in [D -> V] : \A x \in D : f[x] = G[<<x, f>>]
<1>a. rank \in [D -> Nat] /\ Descends(D, V, rank, G)
  BY DEF Recursive
<1> DEFINE Upto(n) == CHOOSE f \in [D -> V] : SolvesBelow(D, rank, G, f, n)
           h == [x \in D |-> Upto(rank[x] + 1)[x]]
<1>1. ASSUME NEW n \in Nat PROVE Upto(n) \in [D -> V] /\ SolvesBelow(D, rank, G, Upto(n), n)
  <2>1. \E f \in [D -> V] : SolvesBelow(D, rank, G, f, n)
    BY RecursionBelow
  <2> QED
    BY <2>1
<1> HIDE DEF Upto
<1>2. \A x \in D : rank[x] \in Nat /\ rank[x] + 1 \in Nat /\ rank[x] < rank[x] + 1
  BY <1>a
<1>3. h \in [D -> V] /\ \A x \in D : h[x] = Upto(rank[x] + 1)[x]
  BY <1>1, <1>2
<1> HIDE DEF h
<1>4. ASSUME NEW x \in D PROVE h[x] = G[<<x, h>>]
  <2> DEFINE f == Upto(rank[x] + 1)
  <2>1. f \in [D -> V] /\ f[x] = G[<<x, f>>]
    BY <1>1, <1>2 DEF SolvesBelow
  <2>2. ASSUME NEW y \in D, rank[y] < rank[x] PROVE f[y] = h[y]
    <3> DEFINE n == rank[y] + 1
               m == rank[x] + 1
    <3>1. n \in Nat /\ m \in Nat /\ n <= m /\ rank[y] < n
      BY <1>2, <2>2
    <3> HIDE DEF n, m
    <3>2. Upto(n)[y] = Upto(m)[y]
      BY <1>1, <3>1, RecursionAgrees
    <3> QED
      BY <1>3, <3>2 DEF n, m
  <2> HIDE DEF f
  <2>3. G[<<x, f>>] = G[<<x, h>>]
    BY <1>3, <1>a, <2>1, <2>2 DEF Descends
  <2> QED
    BY <1>3, <2>1, <2>3 DEF f
<1> QED
  BY <1>3, <1>4

\* The order of a larger first and any second number.
LEMMA FirstThenSecond ==
  ASSUME NEW K \in Nat, NEW c \in Nat, NEW d \in Nat, d < c, NEW k \in Nat, NEW l \in Nat, l < K
  PROVE  d * K + l < c * K + k /\ c * K + k \in Nat
<1> DEFINE e == c - d - 1
<1>1. e \in Nat /\ c = d + 1 + e
  OBVIOUS
<1> HIDE DEF e
<1>2. c * K = d * K + K + e * K
  BY <1>1
<1>3. d * K \in Nat /\ e * K \in Nat
  BY <1>1
<1> DEFINE a == d * K
           b == e * K
<1>4. a \in Nat /\ b \in Nat /\ c * K = a + K + b
  BY <1>2, <1>3
<1> HIDE DEF a, b
<1>5. a + l < (a + K + b) + k /\ (a + K + b) + k \in Nat
  BY <1>4
<1> QED
  BY <1>4, <1>5 DEF a

\* Finitely many numbers have a bound.
LEMMA BoundOf ==
  ASSUME NEW A, IsFiniteSet(A), NEW w \in [A -> Nat]
  PROVE  \E K \in Nat : \A x \in A : w[x] < K
<1>1. /\ IsFiniteSet(Units(w, A)) /\ Cardinality(Units(w, A)) \in Nat
      /\ \A x \in A : Cardinality(Units(w, {x})) = w[x]
  BY UnitsFinite, UnitsStep
<1>2. ASSUME NEW x \in A PROVE w[x] <= Cardinality(Units(w, A))
  <2>1. Units(w, {x}) \in SUBSET Units(w, A)
    BY DEF Units
  <2> QED
    BY <1>1, <2>1, FS_Subset
<1> DEFINE K == Cardinality(Units(w, A)) + 1
<1>3. K \in Nat /\ \A x \in A : w[x] < K
  BY <1>1, <1>2
<1> QED
  BY <1>3
=============================================================================
