---------------------------- MODULE LimitProofs ----------------------------
(***************************************************************************)
(* Proofs about the limits a request passes, for any requests, keys and    *)
(* buckets, any rate, burst and window, any limit of at least two requests *)
(* and any number of connections: each limiter admits what it is           *)
(* configured to admit and no more, whichever requests, resets and         *)
(* clean-ups of internal/middleware/security meet.                         *)
(***************************************************************************)
EXTENDS Limits, CountingTheorems

-----------------------------------------------------------------------------
(* The inductive invariant *)

Running == Cardinality(Requests)

\* The requests of key k that have found a bucket which the map has dropped
\* since then: they take their tokens from it and not from the one of the map.
Stale(k) == {r \in Requests : pc[r] = "found" /\ key[r] = k /\ held[r] # map[k]}

\* What the bucket of a key would hold if it had no size.
Saved(k) == IF map[k] = None THEN Burst
            ELSE bucket[map[k]].tokens + bucket[map[k]].age * Rate

\* What the requests on their way know.
HoldersKnown ==
  \A r \in Requests :
    /\ pc[r] # "idle" => key[r] \in Keys
    /\ pc[r] = "found" => held[r] \in Buckets /\ alg = "token"

\* A bucket belongs to one key, that of the requests that have found it.
BucketsOwned ==
  /\ \A k, l \in Keys : map[k] # None /\ map[k] = map[l] => k = l
  /\ \A r \in Requests, k \in Keys :
       pc[r] = "found" /\ held[r] = map[k] => key[r] = k

\* The credit of a key falls behind its bucket by at most one token for every
\* request that has run with a dropped bucket.  Such requests meet no bucket that
\* time has filled, since they take their tokens before it moves on.
CreditKept ==
  alg = "token" =>
    \A k \in Keys :
      /\ Stale(k) # {} => Saved(k) <= Burst
      /\ credit[k] >= Least(Burst, Saved(k) - Running + Cardinality(Stale(k)))

\* A bucket is empty only right after it has let a request through.
EmptyDrawn ==
  alg = "token" =>
    \A k \in Keys :
      map[k] # None /\ bucket[map[k]].tokens = 0 /\ bucket[map[k]].age = 0
        => admitted[k] # <<>>

Sorted(s) == \A i, j \in 1..Len(s) : i <= j => s[j] =< s[i]

\* The age of the j-th youngest stamp, counted from 0, as far as the window.
AgeOf(s, j) == IF j < Len(s) THEN Least(s[Len(s) - j], Window) ELSE Window

\* The stamps are as old as the requests that were admitted, and behind the
\* Limit youngest ones everything is older than the window.
StampsExact(k) ==
  /\ \A j \in Nat : AgeOf(stamps[k], j) = AgeOf(admitted[k], j)
  /\ AgeOf(admitted[k], Limit) = Window

\* As long as the first stamp of the approximation is within the window, so is
\* a request that was admitted.
StampsCovered(k) ==
  stamps[k] # <<>> /\ stamps[k][1] <= Window =>
    admitted[k] # <<>> /\ admitted[k][Len(admitted[k])] <= stamps[k][1]

WindowKept ==
  \A k \in Keys :
    /\ Sorted(stamps[k]) /\ Sorted(admitted[k])
    /\ alg = "precise" => StampsExact(k)
    /\ alg = "approximate" => StampsCovered(k)

\* The counter of a request, and the requests that count for k: those that have a
\* place, and those that hold one or give one back.
Counter(r) == IF perKey THEN key[r] ELSE None
Served(k) == {r \in Requests : pc[r] = "in" /\ Counter(r) = k}
Placed(k) == {r \in Requests : pc[r] \in {"in", "over"} /\ Counter(r) = k}

ConnsCounted ==
  /\ perKey => \A r \in Requests : pc[r] # "over"
  /\ \A k \in Keys \cup {None} :
       /\ conns[k] = Cardinality(Placed(k))
       /\ Cardinality(Served(k)) <= MaxConns

LimitInv ==
  /\ LimitTypeOK /\ HoldersKnown /\ BucketsOwned
  /\ CreditKept /\ EmptyDrawn /\ WindowKept /\ ConnsCounted
-----------------------------------------------------------------------------
(* Stamps *)

\* In a list that is sorted, the ages of c and more are the first ones.
LEMMA SortedCut ==
  ASSUME NEW s \in Seq(Nat), Sorted(s), NEW c \in Nat
  PROVE  LET m == Cardinality({i \in DOMAIN s : s[i] >= c})
         IN /\ m \in 0..Len(s)
            /\ \A i \in 1..Len(s) : s[i] >= c <=> i <= m
<1> DEFINE A == {i \in DOMAIN s : s[i] >= c}
           n == Len(s)
<1>1. /\ n \in Nat /\ A \in SUBSET (1..n) /\ \A i \in 1..n : i \in A <=> s[i] >= c
      /\ \A i \in 1..n : s[i] \in Nat
  OBVIOUS
<1>2. \A i, j \in 1..n : i <= j => s[j] <= s[i]
  BY DEF Sorted
<1>3. CASE A = {}
  <2>1. Cardinality(A) = 0
    BY <1>3, FS_EmptySet
  <2>2. 0 \in 0..n /\ \A i \in 1..n : s[i] >= c <=> i <= 0
    BY <1>1, <1>3
  <2> QED
    BY <2>1, <2>2 DEF A, n
<1>4. CASE A # {}
  <2>1. PICK p \in A : \A i \in A : i <= p
    BY <1>1, <1>4, LastPosition
  <2>2. p \in 1..n /\ s[p] >= c
    BY <1>1, <2>1
  <2> HIDE DEF A, n
  <2>3. A = 1..p
    <3>1. ASSUME NEW i \in 1..p PROVE i \in A
      <4>1. i \in 1..n /\ i <= p
        BY <1>1, <2>2
      <4>2. s[p] <= s[i] /\ s[i] \in Nat /\ s[p] \in Nat
        BY <1>1, <1>2, <2>2, <4>1
      <4> QED
        BY <1>1, <2>2, <4>1, <4>2
    <3>2. ASSUME NEW i \in A PROVE i \in 1..p
      BY <1>1, <2>1, <2>2
    <3> QED
      BY <3>1, <3>2
  <2>4. Cardinality(A) = p
    BY <1>1, <2>2, <2>3, IntervalSize
  <2>5. \A i \in 1..n : s[i] >= c <=> i <= p
    BY <1>1, <2>2, <2>3
  <2>6. Cardinality(A) \in 0..n
    BY <1>1, <2>2, <2>4
  <2> QED
    BY <2>4, <2>5, <2>6 DEF A, n
<1> QED
  BY <1>3, <1>4

Ages == 0..(Window + 1)

LEMMA WindowIsNat == Window \in Nat \ {0} /\ Limit \in Nat \ {0, 1}
BY LimitsAssumption

\* What is left of a sorted list when the old stamps are cut off: the youngest
\* ones, in their places from the end, and as many as are not old.
LEMMA YoungerKept ==
  ASSUME NEW s \in Seq(Ages), Sorted(s), NEW c \in Nat
  PROVE  /\ Younger(s, c) \in Seq(Ages) /\ Sorted(Younger(s, c))
         /\ Len(Younger(s, c)) <= Len(s)
         /\ \A i \in 1..Len(Younger(s, c)) :
               Younger(s, c)[i] < c /\ Younger(s, c)[i] = s[i + Len(s) - Len(Younger(s, c))]
         /\ \A i \in 1..(Len(s) - Len(Younger(s, c))) : s[i] >= c
<1> DEFINE m == Cardinality({i \in DOMAIN s : s[i] >= c})
           n == Len(s)
           y == Younger(s, c)
<1>1. n \in Nat /\ s \in Seq(Nat) /\ \A i \in 1..n : s[i] \in Nat /\ s[i] \in Ages
  BY WindowIsNat DEF Ages
<1>2. m \in 0..n /\ \A i \in 1..n : s[i] >= c <=> i <= m
  BY <1>1, SortedCut
<1>3. y = SubSeq(s, m + 1, n)
  BY DEF Younger
<1>4. \A i, j \in 1..n : i <= j => s[j] <= s[i]
  BY DEF Sorted
<1> HIDE DEF m, y
<1>5. m + 1 \in 1..(n + 1) /\ n \in Nat /\ m \in Nat
  BY <1>1, <1>2
<1>6. /\ y \in Seq(Ages) /\ Len(y) = n - m
      /\ \A i \in 1..(n - m) : y[i] = s[i + m]
  BY <1>1, <1>3, <1>5
<1> HIDE DEF n
<1>7. \A i \in 1..(n - m) : i + m \in 1..n /\ ~(i + m <= m)
  BY <1>5, <1>2
<1>8. \A i \in 1..(n - m) : y[i] < c /\ y[i] = s[i + m]
  BY <1>1, <1>2, <1>6, <1>7
<1>9. Sorted(y)
  <2>1. SUFFICES ASSUME NEW i \in 1..(n - m), NEW j \in 1..(n - m), i <= j
                 PROVE  y[j] <= y[i]
    BY <1>6 DEF Sorted
  <2>2. i + m <= j + m /\ i + m \in 1..n /\ j + m \in 1..n
    BY <1>5, <1>7, <2>1
  <2> QED
    BY <1>4, <1>8, <2>2
<1>10. \A i \in 1..m : i \in 1..n /\ s[i] >= c
  BY <1>2, <1>5
<1>11. n - Len(y) = m /\ Len(y) <= n /\ \A i \in 1..Len(y) : i + n - Len(y) = i + m
  BY <1>5, <1>6, <1>2
<1> QED
  BY <1>6, <1>8, <1>9, <1>10, <1>11 DEF n, y
LEMMA AgeType ==
  ASSUME NEW s \in Seq(Ages), NEW j \in Nat
  PROVE  /\ j < Len(s) => Len(s) - j \in 1..Len(s) /\ s[Len(s) - j] \in Nat
         /\ AgeOf(s, j) \in 0..Window
         /\ j < Len(s) /\ s[Len(s) - j] < Window => AgeOf(s, j) = s[Len(s) - j]
         /\ j < Len(s) /\ s[Len(s) - j] >= Window => AgeOf(s, j) = Window
         /\ j >= Len(s) => AgeOf(s, j) = Window
<1>1. Len(s) \in Nat /\ (j < Len(s) => Len(s) - j \in 1..Len(s))
  OBVIOUS
<1>2. Window \in Nat /\ \A i \in 1..Len(s) : s[i] \in Nat
  BY WindowIsNat DEF Ages
<1>3. CASE j < Len(s)
  <2> DEFINE v == s[Len(s) - j]
  <2>1. v \in Nat /\ AgeOf(s, j) = Least(v, Window)
    BY <1>1, <1>2, <1>3 DEF AgeOf
  <2>2. AgeOf(s, j) = IF v < Window THEN v ELSE Window
    BY <2>1 DEF Least
  <2> HIDE DEF v
  <2>3. /\ AgeOf(s, j) \in 0..Window
        /\ v < Window => AgeOf(s, j) = v
        /\ v >= Window => AgeOf(s, j) = Window
    BY <1>2, <2>1, <2>2
  <2> QED
    BY <1>1, <1>3, <2>1, <2>3 DEF v
<1>4. CASE ~(j < Len(s))
  BY <1>1, <1>2, <1>4 DEF AgeOf
<1> QED
  BY <1>3, <1>4

\* Cutting off what is older than the window changes no age.
LEMMA AgeYounger ==
  ASSUME NEW s \in Seq(Ages), Sorted(s), NEW c \in Nat, c >= Window, NEW j \in Nat
  PROVE  AgeOf(Younger(s, c), j) = AgeOf(s, j)
<1> DEFINE y == Younger(s, c)
           n == Len(s)
           l == Len(y)
<1>1. /\ y \in Seq(Ages) /\ n \in Nat /\ l \in Nat /\ l <= n /\ Window \in Nat
      /\ \A i \in 1..l : y[i] = s[i + n - l]
      /\ \A i \in 1..(n - l) : s[i] >= c
      /\ \A i \in 1..n : s[i] \in Nat
  BY YoungerKept, WindowIsNat DEF Ages
<1> HIDE DEF y, n, l
<1>2. CASE j < l
  <2>1. l - j \in 1..l /\ (l - j) + n - l = n - j /\ j < n
    BY <1>1, <1>2
  <2>2. y[l - j] = s[n - j]
    BY <1>1, <2>1
  <2> QED
    BY <1>2, <2>1, <2>2 DEF AgeOf, y, n, l
<1>3. CASE j >= l /\ j < n
  <2>1. n - j \in 1..(n - l)
    BY <1>1, <1>3
  <2>2. s[n - j] >= Window
    <3>1. n - j \in 1..n
      BY <1>1, <2>1
    <3> QED
      BY <1>1, <2>1, <3>1
  <2>3. AgeOf(s, j) = Window /\ AgeOf(y, j) = Window
    BY <1>1, <1>3, <2>2, AgeType DEF n, l
  <2> QED
    BY <2>3 DEF y
<1>4. CASE j >= n
  BY <1>1, <1>4, AgeType DEF n, l, y
<1> QED
  BY <1>1, <1>2, <1>3, <1>4 DEF y

\* No more than L stamps are within the window if the one behind them is not.
LEMMA AgeBound ==
  ASSUME NEW s \in Seq(Ages), Sorted(s), NEW L \in Nat
  PROVE  /\ Len(Younger(s, Window)) \in Nat
         /\ AgeOf(s, L) = Window <=> Len(Younger(s, Window)) <= L
<1> DEFINE y == Younger(s, Window)
           n == Len(s)
           l == Len(y)
<1>1. /\ y \in Seq(Ages) /\ n \in Nat /\ l \in Nat /\ l <= n /\ Window \in Nat
      /\ \A i \in 1..l : y[i] < Window /\ y[i] = s[i + n - l]
      /\ \A i \in 1..(n - l) : s[i] >= Window
      /\ \A i \in 1..n : s[i] \in Nat
  BY YoungerKept, WindowIsNat DEF Ages
<1> HIDE DEF y, l
<1>2. CASE L < l
  <2>1. l - L \in 1..l /\ (l - L) + n - l = n - L /\ L < n
    BY <1>1, <1>2
  <2>2. s[n - L] < Window /\ s[n - L] \in Nat
    <3>1. n - L \in 1..n
      BY <1>1, <2>1
    <3> QED
      BY <1>1, <2>1, <3>1
  <2>3. AgeOf(s, L) = s[n - L]
    BY <2>1, <2>2, AgeType
  <2> QED
    BY <1>1, <1>2, <2>2, <2>3 DEF y, l
<1>3. CASE L >= l /\ L < n
  <2>1. n - L \in 1..(n - l)
    BY <1>1, <1>3
  <2>2. AgeOf(s, L) = Window
    BY <1>1, <1>3, <2>1, AgeType
  <2> QED
    BY <1>1, <1>3, <2>2 DEF y, l
<1>4. CASE L >= n
  <2>1. AgeOf(s, L) = Window
    BY <1>4, AgeType
  <2> QED
    BY <1>1, <1>4, <2>1 DEF y, l
<1> QED
  BY <1>1, <1>2, <1>3, <1>4

\* ... and these are all that are within the window.
LEMMA YoungerCount ==
  ASSUME NEW s \in Seq(Ages), Sorted(s)
  PROVE  Cardinality({i \in DOMAIN s : s[i] < Window}) <= Len(Younger(s, Window))
<1> DEFINE y == Younger(s, Window)
           n == Len(s)
           l == Len(y)
           B == {i \in DOMAIN s : s[i] < Window}
           C == (n - l + 1)..n
<1>1. /\ n \in Nat /\ l \in Nat /\ l <= n /\ Window \in Nat
      /\ \A i \in 1..(n - l) : s[i] >= Window
      /\ \A i \in 1..n : s[i] \in Nat
      /\ DOMAIN s = 1..n
  BY YoungerKept, WindowIsNat DEF Ages
<1> HIDE DEF y, l, n
<1>2. IsFiniteSet(C) /\ Cardinality(C) = l
  <2>1. n - l + 1 \in Int /\ n \in Int
    BY <1>1
  <2>2. /\ IsFiniteSet(C)
        /\ Cardinality(C) = IF n - l + 1 > n THEN 0 ELSE n - (n - l + 1) + 1
    BY <2>1, FS_Interval
  <2> QED
    BY <1>1, <2>2
<1>3. B \subseteq C
  <2>1. SUFFICES ASSUME NEW i \in B PROVE i \in C
    OBVIOUS
  <2>2. i \in 1..n /\ s[i] < Window /\ s[i] \in Nat
    BY <1>1
  <2>3. ~(i \in 1..(n - l))
    BY <1>1, <2>2
  <2> QED
    BY <1>1, <2>2, <2>3
<1>4. Cardinality(B) <= Cardinality(C)
  BY <1>2, <1>3, FS_Subset
<1> QED
  BY <1>2, <1>4 DEF y, l

\* A tick makes every stamp older.
LEMMA AgedKept ==
  ASSUME NEW s \in Seq(Ages), Sorted(s)
  PROVE  /\ Aged(s) \in Seq(Ages) /\ Len(Aged(s)) = Len(s) /\ Sorted(Aged(s))
         /\ \A i \in 1..Len(s) : Aged(s)[i] = Least(s[i] + 1, Window + 1)
         /\ \A j \in Nat : AgeOf(Aged(s), j) = Least(AgeOf(s, j) + 1, Window)
<1> DEFINE a == Aged(s)
           n == Len(s)
<1>1. /\ n \in Nat /\ Window \in Nat /\ DOMAIN s = 1..n
      /\ \A i \in 1..n : s[i] \in Nat /\ s[i] \in Ages
  BY WindowIsNat DEF Ages
<1>2. a = [i \in 1..n |-> Least(s[i] + 1, Window + 1)]
  BY <1>1 DEF Aged
<1>3. \A i \in 1..n : a[i] = IF s[i] < Window THEN s[i] + 1 ELSE Window + 1
  BY <1>1, <1>2 DEF Least
<1> HIDE DEF a
<1>4. \A i \in 1..n : a[i] \in Ages /\ a[i] \in Nat
  BY <1>1, <1>3 DEF Ages
<1>5. a \in Seq(Ages) /\ Len(a) = n
  <2>1. a \in [1..n -> Ages]
    BY <1>2, <1>4
  <2> QED
    BY <1>1, <2>1
<1>6. Sorted(a)
  <2>1. SUFFICES ASSUME NEW i \in 1..n, NEW j \in 1..n, i <= j
                 PROVE  a[j] <= a[i]
    BY <1>5 DEF Sorted
  <2>2. s[j] <= s[i]
    BY <2>1 DEF Sorted
  <2> QED
    BY <1>1, <1>3, <2>2
<1>7. ASSUME NEW j \in Nat
      PROVE  AgeOf(a, j) = Least(AgeOf(s, j) + 1, Window)
  <2>0. /\ AgeOf(s, j) \in 0..Window
        /\ Least(AgeOf(s, j) + 1, Window)
              = IF AgeOf(s, j) + 1 < Window THEN AgeOf(s, j) + 1 ELSE Window
    BY AgeType DEF Least
  <2>1. CASE j < n
    <3>1. n - j \in 1..n
      BY <1>1, <2>1
    <3>2. a[n - j] = IF s[n - j] < Window THEN s[n - j] + 1 ELSE Window + 1
      BY <1>3, <3>1
    <3>3. s[n - j] \in Nat /\ a[n - j] \in Nat
      BY <1>1, <1>4, <3>1
    <3>4. /\ AgeOf(s, j) = IF s[n - j] < Window THEN s[n - j] ELSE Window
          /\ AgeOf(a, j) = IF a[n - j] < Window THEN a[n - j] ELSE Window
      BY <1>5, <2>1 DEF AgeOf, Least
    <3> HIDE DEF n
    <3> QED
      BY <1>1, <2>0, <3>2, <3>3, <3>4
  <2>2. CASE ~(j < n)
    <3>1. AgeOf(s, j) = Window /\ AgeOf(a, j) = Window
      BY <1>5, <2>2 DEF AgeOf
    <3> QED
      BY <1>1, <2>0, <3>1
  <2> QED
    BY <2>1, <2>2
<1> QED
  BY <1>2, <1>5, <1>6, <1>7 DEF a

\* A request that is admitted now is the youngest.
LEMMA AgeAppended ==
  ASSUME NEW s \in Seq(Ages), Sorted(s)
  PROVE  /\ Append(s, 0) \in Seq(Ages) /\ Sorted(Append(s, 0))
         /\ Len(Append(s, 0)) = Len(s) + 1 /\ Append(s, 0)[Len(s) + 1] = 0
         /\ \A i \in 1..Len(s) : Append(s, 0)[i] = s[i]
         /\ AgeOf(Append(s, 0), 0) = 0
         /\ \A j \in Nat : AgeOf(Append(s, 0), j + 1) = AgeOf(s, j)
<1> DEFINE a == Append(s, 0)
           n == Len(s)
<1>1. n \in Nat /\ 0 \in Ages /\ Window \in Nat \ {0} /\ \A i \in 1..n : s[i] \in Nat
  BY WindowIsNat DEF Ages
<1>2. /\ a \in Seq(Ages) /\ Len(a) = n + 1 /\ a[n + 1] = 0
      /\ \A i \in 1..n : a[i] = s[i]
  BY <1>1
<1> HIDE DEF a, n
<1>3. Sorted(a)
  <2>1. SUFFICES ASSUME NEW i \in 1..(n + 1), NEW j \in 1..(n + 1), i <= j
                 PROVE  a[j] <= a[i]
    BY <1>2 DEF Sorted
  <2>2. \A p, q \in 1..n : p <= q => s[q] <= s[p]
    BY DEF Sorted, n
  <2>3. CASE j = n + 1
    <3>1. i = n + 1 \/ i \in 1..n
      BY <1>1
    <3> QED
      BY <1>1, <1>2, <2>3, <3>1
  <2>4. CASE j # n + 1
    <3>1. i \in 1..n /\ j \in 1..n
      BY <1>1, <2>1, <2>4
    <3> QED
      BY <1>2, <2>1, <2>2, <3>1
  <2> QED
    BY <2>3, <2>4
<1>4. AgeOf(a, 0) = 0
  BY <1>1, <1>2 DEF AgeOf, Least
<1>5. ASSUME NEW j \in Nat
      PROVE  AgeOf(a, j + 1) = AgeOf(s, j)
  <2>1. n + 1 - (j + 1) = n - j /\ (j + 1 < n + 1) <=> (j < n)
    BY <1>1
  <2>2. j < n => n - j \in 1..n
    BY <1>1
  <2> QED
    BY <1>2, <2>1, <2>2 DEF AgeOf, n
<1> QED
  BY <1>2, <1>3, <1>4, <1>5 DEF a, n
-----------------------------------------------------------------------------
(* Connections *)

\* How the size of a set of requests changes when r moves on.
Moved(A, B, r) ==
  /\ Cardinality(A) \in Nat /\ Cardinality(B) \in Nat
  /\ r \in A => Cardinality(A) >= 1
  /\ (r \in A <=> r \in B) => Cardinality(B) = Cardinality(A)
  /\ r \in A /\ r \notin B => Cardinality(B) = Cardinality(A) - 1
  /\ r \notin A /\ r \in B => Cardinality(B) = Cardinality(A) + 1

LEMMA OneMoves ==
  ASSUME NEW A \in SUBSET Requests, NEW B \in SUBSET Requests, NEW r \in Requests,
         \A q \in Requests \ {r} : q \in B <=> q \in A
  PROVE  Moved(A, B, r)
<1>1. Counted(A, Requests, r) /\ Counted(B, Requests, r)
  BY LimitsAssumption, SubsetCount
<1>2. CASE r \in A /\ r \notin B
  <2>1. B = A \ {r}
    BY <1>2
  <2> QED
    BY <1>1, <1>2, <2>1 DEF Counted, Moved
<1>3. CASE r \notin A /\ r \in B
  <2>1. B = A \cup {r}
    BY <1>3
  <2> QED
    BY <1>1, <1>3, <2>1 DEF Counted, Moved
<1>4. CASE r \in A <=> r \in B
  <2>1. A = B
    BY <1>4
  <2> QED
    BY <1>1, <1>4, <2>1 DEF Counted, Moved
<1> QED
  BY <1>2, <1>3, <1>4

\* One request moves, and the others stay where they are.
OnlyMoves(r) ==
  /\ perKey' = perKey
  /\ \A q \in Requests \ {r} : pc'[q] = pc[q] /\ key'[q] = key[q]

LEMMA PlaceMoves ==
  ASSUME NEW r \in Requests, OnlyMoves(r), NEW k
  PROVE  Moved(Served(k), Served(k)', r) /\ Moved(Placed(k), Placed(k)', r)
<1>1. \A q \in Requests \ {r} : pc'[q] = pc[q] /\ Counter(q)' = Counter(q)
  BY DEF Counter, OnlyMoves
<1>2. /\ Served(k) \in SUBSET Requests /\ Served(k)' \in SUBSET Requests
      /\ Placed(k) \in SUBSET Requests /\ Placed(k)' \in SUBSET Requests
  BY DEF Served, Placed
<1>3. ASSUME NEW q \in Requests \ {r}
      PROVE  (q \in Served(k)' <=> q \in Served(k)) /\ (q \in Placed(k)' <=> q \in Placed(k))
  BY <1>1 DEF Served, Placed
<1> QED
  BY <1>2, <1>3, OneMoves

\* Requests that hold no place before and after a step leave the counts alone.
LEMMA ConnsUntouched ==
  ASSUME ConnsCounted, NEW r \in Requests, OnlyMoves(r), conns' = conns,
         pc[r] \notin {"in", "over"}, pc'[r] \notin {"in", "over"}
  PROVE  ConnsCounted'
<1>1. perKey' => \A q \in Requests : pc'[q] # "over"
  BY DEF ConnsCounted, OnlyMoves
<1>2. ASSUME NEW k \in Keys \cup {None}
      PROVE  /\ conns'[k] = Cardinality(Placed(k)')
             /\ Cardinality(Served(k)') <= MaxConns
  <2>1. Moved(Served(k), Served(k)', r) /\ Moved(Placed(k), Placed(k)', r)
    BY PlaceMoves
  <2>2. r \notin Served(k) /\ r \notin Served(k)' /\ r \notin Placed(k) /\ r \notin Placed(k)'
    BY DEF Served, Placed
  <2>3. conns[k] = Cardinality(Placed(k)) /\ Cardinality(Served(k)) <= MaxConns
    BY DEF ConnsCounted
  <2> QED
    BY <2>1, <2>2, <2>3 DEF Moved
<1> QED
  BY <1>1, <1>2 DEF ConnsCounted

\* A step that takes a place for k or gives one back moves the counter by one.
LEMMA CounterMoves ==
  ASSUME ConnsCounted, NEW r \in Requests, OnlyMoves(r), NEW k \in Keys \cup {None},
         conns[k] \in Nat,
         conns'[k] = conns[k] + (IF r \in Placed(k)' THEN 1 ELSE 0)
                              - (IF r \in Placed(k) THEN 1 ELSE 0),
         r \in Served(k)' => Cardinality(Served(k)) < MaxConns
  PROVE  conns'[k] = Cardinality(Placed(k)') /\ Cardinality(Served(k)') <= MaxConns
<1>1. Moved(Served(k), Served(k)', r) /\ Moved(Placed(k), Placed(k)', r)
  BY PlaceMoves
<1>2. conns[k] = Cardinality(Placed(k)) /\ Cardinality(Served(k)) <= MaxConns
  BY DEF ConnsCounted
<1>3. MaxConns \in Nat
  BY LimitsAssumption
<1> QED
  BY <1>1, <1>2, <1>3 DEF Moved

\* ConnLimiter: Acquire and Release move the counter with the request.
LEMMA ConnsStep ==
  ASSUME LimitTypeOK, HoldersKnown, ConnsCounted, LimitNext
  PROVE  ConnsCounted'
<1>0. /\ pc \in [Requests -> Labels] /\ key \in [Requests -> Keys \cup {None}]
      /\ conns \in [Keys \cup {None} -> Nat] /\ MaxConns \in Nat \ {0}
      /\ perKey \in BOOLEAN /\ None \notin Keys
  BY LimitsAssumption DEF LimitTypeOK
<1>1. ASSUME NEW r \in Requests, NEW k \in Keys, Find(r, k) PROVE ConnsCounted'
  <2>1. OnlyMoves(r) /\ pc[r] = "idle" /\ pc'[r] = "found" /\ conns' = conns
    BY <1>0, <1>1 DEF Find, Goto, OnlyMoves
  <2> QED
    BY <2>1, ConnsUntouched
<1>2. ASSUME NEW r \in Requests, NEW k \in Keys, Slide(r, k) PROVE ConnsCounted'
  <2>1. OnlyMoves(r) /\ pc[r] = "idle" /\ pc'[r] \in {"conn", "idle"} /\ conns' = conns
    BY <1>0, <1>2 DEF Slide, Goto, OnlyMoves
  <2> QED
    BY <2>1, ConnsUntouched
<1>3. ASSUME NEW r \in Requests, Consume(r) PROVE ConnsCounted'
  <2>1. OnlyMoves(r) /\ pc[r] = "found" /\ pc'[r] \in {"conn", "idle"} /\ conns' = conns
    BY <1>0, <1>3 DEF Consume, Admit, LimitEnd, Goto, OnlyMoves
  <2> QED
    BY <2>1, ConnsUntouched
<1>4. ASSUME NEW r \in Requests, Acquire(r) PROVE ConnsCounted'
  <2>0. pc[r] = "conn" /\ perKey /\ perKey' = perKey /\ key[r] \in Keys
    BY <1>4 DEF Acquire, HoldersKnown
  <2>1. CASE LimitEnd(r) /\ UNCHANGED conns
    <3>1. OnlyMoves(r) /\ pc'[r] = "idle"
      BY <1>0, <2>0, <2>1 DEF LimitEnd, Goto, OnlyMoves
    <3> QED
      BY <2>0, <2>1, <3>1, ConnsUntouched
  <2>2. CASE /\ conns[key[r]] < MaxConns /\ Goto(r, "in")
             /\ conns' = [conns EXCEPT ![key[r]] = @ + 1] /\ UNCHANGED <<key, held>>
    <3>1. OnlyMoves(r) /\ pc'[r] = "in" /\ key' = key /\ Counter(r)' = key[r]
      BY <1>0, <2>0, <2>2 DEF Goto, OnlyMoves, Counter
    <3>2. perKey' => \A q \in Requests : pc'[q] # "over"
      BY <2>0, <3>1 DEF ConnsCounted, OnlyMoves
    <3>3. ASSUME NEW k \in Keys \cup {None}
          PROVE  conns'[k] = Cardinality(Placed(k)') /\ Cardinality(Served(k)') <= MaxConns
      <4>1. conns'[k] = conns[k] + (IF key[r] = k THEN 1 ELSE 0) /\ conns[k] \in Nat
        BY <1>0, <2>0, <2>2
      <4>2. /\ r \notin Placed(k) /\ (r \in Placed(k)' <=> key[r] = k)
            /\ (r \in Served(k)' => key[r] = k)
        BY <2>0, <3>1 DEF Placed, Served
      <4>3. Served(k) = Placed(k)
        BY <2>0 DEF Served, Placed, ConnsCounted
      <4>4. conns[k] = Cardinality(Placed(k))
        BY DEF ConnsCounted
      <4>5. key[r] = k => Cardinality(Served(k)) < MaxConns
        BY <2>2, <4>3, <4>4
      <4> QED
        BY <3>1, <4>1, <4>2, <4>5, CounterMoves
    <3> QED
      BY <3>2, <3>3 DEF ConnsCounted
  <2> QED
    BY <1>4, <2>1, <2>2 DEF Acquire
<1>5. ASSUME NEW r \in Requests, Raise(r) PROVE ConnsCounted'
  <2>0. /\ pc[r] = "conn" /\ ~perKey /\ perKey' = perKey
        /\ pc'[r] = IF conns[None] + 1 > MaxConns THEN "over" ELSE "in"
        /\ OnlyMoves(r) /\ Counter(r)' = None
        /\ conns' = [conns EXCEPT ![None] = @ + 1]
    BY <1>0, <1>5 DEF Raise, Goto, OnlyMoves, Counter
  <2>1. ASSUME NEW k \in Keys \cup {None}
        PROVE  conns'[k] = Cardinality(Placed(k)') /\ Cardinality(Served(k)') <= MaxConns
    <3>1. conns'[k] = conns[k] + (IF None = k THEN 1 ELSE 0) /\ conns[k] \in Nat
      BY <1>0, <2>0
    <3>2. /\ r \notin Placed(k) /\ (r \in Placed(k)' <=> None = k)
          /\ (r \in Served(k)' => None = k /\ pc'[r] = "in")
      BY <2>0 DEF Placed, Served
    <3>3. pc'[r] = "in" /\ None = k => conns[k] < MaxConns
      BY <1>0, <2>0, <3>1
    <3>4. Cardinality(Served(k)) <= Cardinality(Placed(k)) /\ Cardinality(Served(k)) \in Nat
      <4>1. Served(k) \subseteq Placed(k) /\ IsFiniteSet(Placed(k))
        BY LimitsAssumption, FS_Subset DEF Served, Placed
      <4> QED
        BY <4>1, FS_Subset, FS_CardinalityType
    <3>5. conns[k] = Cardinality(Placed(k))
      BY DEF ConnsCounted
    <3>6. r \in Served(k)' => Cardinality(Served(k)) < MaxConns
      BY <1>0, <3>1, <3>2, <3>3, <3>4, <3>5
    <3> QED
      BY <2>0, <3>1, <3>2, <3>6, CounterMoves
  <2> QED
    BY <2>0, <2>1 DEF ConnsCounted
<1>6. ASSUME NEW r \in Requests, pc[r] \in {"in", "over"}, LimitEnd(r), perKey' = perKey,
             conns' = [conns EXCEPT ![Counter(r)] = @ - 1]
      PROVE ConnsCounted'
  <2>0. pc'[r] = "idle" /\ OnlyMoves(r) /\ Counter(r) \in Keys \cup {None}
    BY <1>0, <1>6 DEF LimitEnd, Goto, OnlyMoves, Counter
  <2>1. perKey' => \A q \in Requests : pc'[q] # "over"
    BY <1>6, <2>0 DEF ConnsCounted, OnlyMoves
  <2>2. ASSUME NEW k \in Keys \cup {None}
        PROVE  conns'[k] = Cardinality(Placed(k)') /\ Cardinality(Served(k)') <= MaxConns
    <3>1. conns'[k] = conns[k] - (IF Counter(r) = k THEN 1 ELSE 0) /\ conns[k] \in Nat
      BY <1>0, <1>6, <2>0
    <3>2. /\ (r \in Placed(k) <=> Counter(r) = k) /\ r \notin Placed(k)' /\ r \notin Served(k)'
      BY <1>6, <2>0 DEF Placed, Served
    <3> QED
      BY <2>0, <3>1, <3>2, CounterMoves
  <2> QED
    BY <2>1, <2>2 DEF ConnsCounted
<1>7. ASSUME NEW r \in Requests, Lower(r) PROVE ConnsCounted'
  <2>1. Counter(r) = None
    BY <1>7 DEF Lower, Counter, ConnsCounted
  <2> QED
    BY <1>6, <1>7, <2>1 DEF Lower
<1>8. ASSUME NEW r \in Requests, Release(r) PROVE ConnsCounted'
  BY <1>6, <1>8 DEF Release, Counter
<1>9. CASE \/ \E K \in {{k} : k \in Keys} \cup {Keys} : Reset(K)
           \/ Cleanup \/ StopCleanup \/ Tick
  <2>1. UNCHANGED <<pc, key, perKey, conns>>
    BY <1>9 DEF Reset, Cleanup, StopCleanup, Tick, qvars
  <2>2. \A k : Served(k)' = Served(k) /\ Placed(k)' = Placed(k)
    BY <2>1 DEF Served, Placed, Counter
  <2> QED
    BY <2>1, <2>2 DEF ConnsCounted
<1> QED
  BY <1>1, <1>2, <1>3, <1>4, <1>5, <1>7, <1>8, <1>9 DEF LimitNext
-----------------------------------------------------------------------------
(* Buckets *)

\* What the other proofs need of the types
LEMMA LimitTypes ==
  ASSUME LimitTypeOK
  PROVE  /\ map \in [Keys -> Buckets \cup {None}]
         /\ bucket \in [Buckets -> [tokens : 0..Burst, age : 0..(CleanupAge + 1)]]
         /\ pc \in [Requests -> Labels] /\ key \in [Requests -> Keys \cup {None}]
         /\ held \in [Requests -> Buckets \cup {None}]
         /\ credit \in [Keys -> Int]
         /\ None \notin Buckets /\ None \notin Keys
         /\ Rate \in Nat \ {0} /\ Burst \in Nat /\ Burst >= Rate /\ CleanupAge \in Nat
         /\ \A r \in Requests : held[r] \in InUse
         /\ \A k \in Keys : map[k] \in InUse
BY LimitsAssumption DEF LimitTypeOK, InUse, Range

\* The requests of a step other than r keep what they know.
LEMMA HoldersStep ==
  ASSUME LimitTypeOK, HoldersKnown, LimitNext
  PROVE  HoldersKnown'
<1>0. /\ pc \in [Requests -> Labels] /\ key \in [Requests -> Keys \cup {None}]
      /\ held \in [Requests -> Buckets \cup {None}]
      /\ map \in [Keys -> Buckets \cup {None}]
  BY LimitTypes
<1>1. ASSUME NEW r \in Requests, NEW k \in Keys, Find(r, k) PROVE HoldersKnown'
  BY <1>0, <1>1 DEF Find, Goto, HoldersKnown, rvars
<1>2. ASSUME NEW r \in Requests, NEW k \in Keys, Slide(r, k) PROVE HoldersKnown'
  BY <1>0, <1>2 DEF Slide, Goto, HoldersKnown
<1>3. ASSUME NEW r \in Requests, Consume(r) PROVE HoldersKnown'
  BY <1>0, <1>3 DEF Consume, Admit, LimitEnd, Goto, HoldersKnown
<1>4. ASSUME NEW r \in Requests, Acquire(r) \/ Raise(r) \/ Lower(r) \/ Release(r)
      PROVE HoldersKnown'
  BY <1>0, <1>4 DEF Acquire, Raise, Lower, Release, LimitEnd, Goto, HoldersKnown
<1>5. CASE \/ \E K \in {{k} : k \in Keys} \cup {Keys} : Reset(K)
           \/ Cleanup \/ StopCleanup \/ Tick
  BY <1>5 DEF Reset, Cleanup, StopCleanup, Tick, qvars, HoldersKnown
<1> QED
  BY <1>1, <1>2, <1>3, <1>4, <1>5 DEF LimitNext

LEMMA OwnedStep ==
  ASSUME LimitTypeOK, HoldersKnown, BucketsOwned, LimitNext
  PROVE  BucketsOwned'
<1>0. /\ pc \in [Requests -> Labels] /\ key \in [Requests -> Keys \cup {None}]
      /\ held \in [Requests -> Buckets \cup {None}]
      /\ map \in [Keys -> Buckets \cup {None}]
      /\ None \notin Buckets
      /\ \A r \in Requests : held[r] \in InUse
      /\ \A k \in Keys : map[k] \in InUse
  BY LimitTypes
<1>1. ASSUME NEW r \in Requests, NEW k \in Keys, Find(r, k) PROVE BucketsOwned'
  <2>1. CASE map[k] # None /\ held' = [held EXCEPT ![r] = map[k]] /\ map' = map
    BY <1>0, <1>1, <2>1 DEF Find, Goto, BucketsOwned
  <2>2. CASE \E b \in Buckets \ InUse : /\ map' = [map EXCEPT ![k] = b]
                                       /\ held' = [held EXCEPT ![r] = b]
    <3>1. PICK b \in Buckets \ InUse : /\ map' = [map EXCEPT ![k] = b]
                                      /\ held' = [held EXCEPT ![r] = b]
      BY <2>2
    <3>2. /\ \A q \in Requests : held[q] # b
          /\ \A l \in Keys : map[l] # b
      BY <1>0
    <3>3. \A l \in Keys : map'[l] = IF l = k THEN b ELSE map[l]
      BY <1>0, <3>1
    <3>4. \A q \in Requests : /\ held'[q] = IF q = r THEN b ELSE held[q]
                              /\ key'[q] = IF q = r THEN k ELSE key[q]
                              /\ pc'[q] = IF q = r THEN "found" ELSE pc[q]
      BY <1>0, <1>1, <3>1 DEF Find, Goto
    <3> QED
      BY <3>2, <3>3, <3>4 DEF BucketsOwned
  <2> QED
    BY <1>1, <2>1, <2>2 DEF Find, rvars
<1>2. ASSUME NEW r \in Requests, map' = map, pc'[r] # "found",
             \A q \in Requests \ {r} : pc'[q] = pc[q] /\ key'[q] = key[q] /\ held'[q] = held[q]
      PROVE BucketsOwned'
  BY <1>2 DEF BucketsOwned
<1>3. ASSUME NEW r \in Requests, NEW k \in Keys, Slide(r, k) PROVE BucketsOwned'
  <2>1. /\ map' = map /\ pc'[r] # "found"
        /\ \A q \in Requests \ {r} : pc'[q] = pc[q] /\ key'[q] = key[q] /\ held'[q] = held[q]
    BY <1>0, <1>3 DEF Slide, Goto, rvars
  <2> QED
    BY <1>2, <2>1
<1>4. ASSUME NEW r \in Requests, Consume(r) PROVE BucketsOwned'
  <2>1. /\ map' = map /\ pc'[r] # "found"
        /\ \A q \in Requests \ {r} : pc'[q] = pc[q] /\ key'[q] = key[q] /\ held'[q] = held[q]
    BY <1>0, <1>4 DEF Consume, Admit, LimitEnd, Goto
  <2> QED
    BY <1>2, <2>1
<1>5. ASSUME NEW r \in Requests, Acquire(r) \/ Raise(r) \/ Lower(r) \/ Release(r)
      PROVE BucketsOwned'
  <2>1. /\ map' = map /\ pc'[r] # "found"
        /\ \A q \in Requests \ {r} : pc'[q] = pc[q] /\ key'[q] = key[q] /\ held'[q] = held[q]
    BY <1>0, <1>5 DEF Acquire, Raise, Lower, Release, LimitEnd, Goto, rvars
  <2> QED
    BY <1>2, <2>1
<1>6. CASE \/ \E K \in {{k} : k \in Keys} \cup {Keys} : Reset(K)
           \/ Cleanup \/ StopCleanup \/ Tick
  <2>1. UNCHANGED qvars /\ \A k \in Keys : map'[k] \in {map[k], None}
    BY <1>0, <1>6 DEF Reset, Cleanup, StopCleanup, Tick, rvars
  <2>2. \A r \in Requests : pc[r] = "found" => held[r] # None
    BY <1>0 DEF HoldersKnown
  <2> QED
    BY <2>1, <2>2 DEF BucketsOwned, qvars
<1> QED
  BY <1>1, <1>3, <1>4, <1>5, <1>6 DEF LimitNext
\* Time fills a bucket, up to its size.
LEMMA Filled ==
  ASSUME NEW t \in Nat, NEW a \in Nat
  PROVE  /\ a * Rate \in Nat /\ (a + 1) * Rate = a * Rate + Rate
         /\ a >= 1 => a * Rate >= 1
         /\ Least(Burst, t + a * Rate) \in 0..Burst
         /\ Least(Burst, t + a * Rate) <= t + a * Rate
         /\ t + a * Rate < Burst => Least(Burst, t + a * Rate) = t + a * Rate
         /\ t + a * Rate >= 1 => Least(Burst, t + a * Rate) >= 1
<1>1. Rate \in Nat \ {0} /\ Burst \in Nat /\ Burst >= 1
  BY LimitsAssumption
<1>2. a * Rate \in Nat /\ (a + 1) * Rate = a * Rate + Rate
  BY <1>1
<1>3. a >= 1 => a * Rate >= 1
  <2>1. SUFFICES ASSUME a >= 1 PROVE a * Rate >= 1
    OBVIOUS
  <2>2. a - 1 \in Nat /\ a = (a - 1) + 1
    BY <2>1
  <2>3. a * Rate = (a - 1) * Rate + Rate /\ (a - 1) * Rate \in Nat
    BY <1>1, <2>2
  <2> QED
    BY <1>1, <2>3
<1> DEFINE p == a * Rate
<1> HIDE DEF p
<1>4. p \in Nat
  BY <1>2 DEF p
<1>5. /\ Least(Burst, t + p) \in 0..Burst /\ Least(Burst, t + p) <= t + p
      /\ t + p < Burst => Least(Burst, t + p) = t + p
      /\ t + p >= 1 => Least(Burst, t + p) >= 1
  BY <1>1, <1>4 DEF Least
<1> QED
  BY <1>2, <1>3, <1>5 DEF p
-----------------------------------------------------------------------------
(* Windows *)

LEMMA StampTypes ==
  ASSUME LimitTypeOK
  PROVE  /\ stamps \in [Keys -> Seq(Ages)] /\ admitted \in [Keys -> Seq(Ages)]
         /\ empty \in [Keys -> BOOLEAN] /\ phase \in 0..(Window - 1)
         /\ alg \in {"token", "precise", "approximate"}
<1>1. 0..Window \subseteq Ages
  BY WindowIsNat DEF Ages
<1>2. Seq(0..Window) \subseteq Seq(Ages)
  BY <1>1, SeqMonotonic
<1> QED
  BY <1>2 DEF LimitTypeOK, Ages

\* A single stamp never reaches the limit, wherever the clock is in the window.
LEMMA ShareOfOne ==
  ASSUME NEW n \in {0, 1}, NEW p \in 0..(Window - 1)
  PROVE  (n * (Window - p)) \div Window < Limit
<1>1. Window \in Nat \ {0} /\ Limit \in Nat /\ Limit >= 2
  BY WindowIsNat
<1> DEFINE x == n * (Window - p)
<1>2. x \in Nat /\ x <= Window
  BY <1>1
<1> HIDE DEF x
<1>3. x \div Window \in Nat /\ Window * (x \div Window) <= x
  BY <1>1, <1>2
<1>4. x \div Window <= 1
  <2> DEFINE d == x \div Window
  <2>1. d \in Nat /\ Window * d <= Window
    BY <1>1, <1>2, <1>3
  <2> HIDE DEF d
  <2>2. SUFFICES ASSUME d >= 2 PROVE FALSE
    BY <2>1 DEF d
  <2>3. d - 2 \in Nat /\ Window * d = Window * (d - 2) + 2 * Window
    BY <1>1, <2>1, <2>2
  <2>4. Window * (d - 2) >= 0
    BY <1>1, <2>3
  <2> QED
    BY <1>1, <2>1, <2>3, <2>4
<1> QED
  BY <1>1, <1>3, <1>4 DEF x

\* Neither algorithm forgets a stamp that is within the window: the precise one
\* drops the others, the approximation starts anew and then admits the request.
LEMMA SlideDoes ==
  ASSUME LimitTypeOK, WindowKept, NEW r \in Requests, NEW k \in Keys, Slide(r, k)
  PROVE  \E old \in Seq(Ages), ok \in BOOLEAN :
           /\ Sorted(old)
           /\ alg = "precise" => old = Younger(stamps[k], Window) /\ (ok <=> Len(old) < Limit)
           /\ alg = "approximate" => old = stamps[k] \/ (ok /\ old \in {<<>>, <<0>>})
           /\ stamps' = [stamps EXCEPT ![k] = IF ok THEN Append(old, 0) ELSE old]
           /\ admitted' = IF ok THEN [admitted EXCEPT ![k] = Append(@, 0)] ELSE admitted
<1>0. /\ stamps[k] \in Seq(Ages) /\ Sorted(stamps[k]) /\ phase \in 0..(Window - 1)
      /\ Window \in Nat \ {0} /\ 0 \in Ages /\ alg \in {"precise", "approximate"}
  BY StampTypes, WindowIsNat DEF WindowKept, Ages, Slide
<1> DEFINE w == IF alg = "precise" THEN Precise(k) ELSE Approximate(k)
<1>1. /\ stamps' = [stamps EXCEPT ![k] = IF w.ok THEN Append(w.stamps, 0) ELSE w.stamps]
      /\ admitted' = IF w.ok THEN [admitted EXCEPT ![k] = Append(@, 0)] ELSE admitted
  BY DEF Slide
<1> HIDE DEF w
<1>2. CASE alg = "precise"
  <2> DEFINE y == Younger(stamps[k], Window)
  <2>1. w = [ok |-> Len(y) < Limit, stamps |-> y]
    BY <1>2 DEF w, Precise
  <2>2. y \in Seq(Ages) /\ Sorted(y)
    BY <1>0, YoungerKept
  <2> HIDE DEF y
  <2>3. w.stamps = y /\ w.ok = (Len(y) < Limit) /\ (Len(y) < Limit) \in BOOLEAN
    BY <2>1
  <2> QED
    BY <1>1, <1>2, <2>2, <2>3 DEF y
<1>3. CASE alg = "approximate"
  <2> DEFINE old == IF empty[k] \/ stamps[k] = <<>> THEN <<0>>
                    ELSE IF stamps[k][1] > Window THEN <<>> ELSE stamps[k]
             ok == (Len(old) * (Window - phase)) \div Window < Limit
  <2>1. w = [ok |-> ok, stamps |-> old]
    BY <1>3 DEF w, Approximate
  <2>2. old = stamps[k] \/ old = <<>> \/ old = <<0>>
    OBVIOUS
  <2> HIDE DEF old
  <2>3. Len(<<0>>) = 1 /\ Len(<<>>) = 0 /\ <<0>> \in Seq(Ages) /\ <<>> \in Seq(Ages)
    BY <1>0
  <2>4. Sorted(<<0>>) /\ Sorted(<<>>)
    BY DEF Sorted
  <2>5. old \in Seq(Ages) /\ Sorted(old)
    BY <1>0, <2>2, <2>3, <2>4
  <2>6. old \in {<<>>, <<0>>} => ok
    BY <1>0, <2>3, ShareOfOne
  <2> HIDE DEF ok
  <2>7. w.stamps = old /\ w.ok = ok
    BY <2>1
  <2>8. ok \in BOOLEAN
    BY DEF ok
  <2>9. /\ stamps' = [stamps EXCEPT ![k] = IF ok THEN Append(old, 0) ELSE old]
        /\ admitted' = IF ok THEN [admitted EXCEPT ![k] = Append(@, 0)] ELSE admitted
    BY <1>1, <2>7
  <2>10. alg = "approximate" => old = stamps[k] \/ (ok /\ old \in {<<>>, <<0>>})
    BY <2>2, <2>6
  <2> QED
    BY <1>3, <2>5, <2>8, <2>9, <2>10
<1> QED
  BY <1>0, <1>2, <1>3

\* A request that is admitted
LEMMA WindowAppended ==
  ASSUME NEW k, StampsExact(k), NEW old, old = Younger(stamps[k], Window), Sorted(stamps[k]),
         stamps[k] \in Seq(Ages), admitted[k] \in Seq(Ages), Sorted(admitted[k]),
         Len(old) < Limit
  PROVE  /\ \A j \in Nat : AgeOf(Append(old, 0), j) = AgeOf(Append(admitted[k], 0), j)
         /\ AgeOf(Append(admitted[k], 0), Limit) = Window
<1> DEFINE a == Append(old, 0)
           b == Append(admitted[k], 0)
<1>1. Window \in Nat /\ Limit \in Nat /\ Limit >= 2
  BY WindowIsNat
<1>2. old \in Seq(Ages) /\ Sorted(old)
  BY <1>1, YoungerKept
<1>3. \A j \in Nat : AgeOf(old, j) = AgeOf(admitted[k], j)
  BY <1>1, AgeYounger DEF StampsExact
<1>4. /\ AgeOf(a, 0) = 0 /\ AgeOf(b, 0) = 0
      /\ \A j \in Nat : AgeOf(a, j + 1) = AgeOf(old, j) /\ AgeOf(b, j + 1) = AgeOf(admitted[k], j)
  BY <1>2, AgeAppended
<1> HIDE DEF a, b
<1>5. ASSUME NEW j \in Nat PROVE AgeOf(a, j) = AgeOf(b, j)
  <2>1. CASE j = 0
    BY <1>4, <2>1
  <2>2. CASE j # 0
    <3>1. j - 1 \in Nat /\ j = (j - 1) + 1
      BY <2>2
    <3> DEFINE i == j - 1
    <3> HIDE DEF i
    <3>2. i \in Nat /\ AgeOf(a, i + 1) = AgeOf(b, i + 1)
      BY <1>3, <1>4, <3>1 DEF i
    <3> QED
      BY <3>1, <3>2 DEF i
  <2> QED
    BY <2>1, <2>2
<1>6. AgeOf(b, Limit) = Window
  <2> DEFINE i == Limit - 1
  <2>1. i \in Nat /\ Limit = i + 1 /\ Len(old) <= i
    <3>1. Len(old) \in Nat
      BY <1>2
    <3> QED
      BY <1>1, <3>1
  <2> HIDE DEF i
  <2>2. AgeOf(stamps[k], i) = Window
    BY <2>1, AgeBound
  <2>3. AgeOf(admitted[k], i) = Window
    BY <2>1, <2>2 DEF StampsExact
  <2> QED
    BY <1>4, <2>1, <2>3
<1> QED
  BY <1>5, <1>6 DEF a, b
\* The windows of one key, for the step lemmas
WindowOf(k) ==
  /\ Sorted(stamps[k]) /\ Sorted(admitted[k])
  /\ alg = "precise" => StampsExact(k)
  /\ alg = "approximate" => StampsCovered(k)

LEMMA SlideWindow ==
  ASSUME LimitTypeOK, WindowKept, NEW r \in Requests, NEW k \in Keys, Slide(r, k)
  PROVE  WindowKept'
<1>0. /\ stamps \in [Keys -> Seq(Ages)] /\ admitted \in [Keys -> Seq(Ages)]
      /\ \A l \in Keys : WindowOf(l)
      /\ stamps[k] \in Seq(Ages) /\ admitted[k] \in Seq(Ages) /\ Window \in Nat \ {0}
  BY StampTypes, WindowIsNat DEF WindowKept, WindowOf
<1>1. alg' = alg /\ alg # "token"
  BY DEF Slide
<1>2. PICK old \in Seq(Ages), ok \in BOOLEAN :
           /\ Sorted(old)
           /\ alg = "precise" => old = Younger(stamps[k], Window) /\ (ok <=> Len(old) < Limit)
           /\ alg = "approximate" => old = stamps[k] \/ (ok /\ old \in {<<>>, <<0>>})
           /\ stamps' = [stamps EXCEPT ![k] = IF ok THEN Append(old, 0) ELSE old]
           /\ admitted' = IF ok THEN [admitted EXCEPT ![k] = Append(@, 0)] ELSE admitted
  BY SlideDoes
<1>3. ASSUME NEW l \in Keys, l # k PROVE WindowOf(l)'
  <2>1. stamps'[l] = stamps[l] /\ admitted'[l] = admitted[l]
    BY <1>0, <1>2, <1>3
  <2> QED
    BY <1>0, <1>1, <2>1 DEF WindowOf, StampsExact, StampsCovered
<1>4. WindowOf(k)
  BY <1>0
<1>5. ASSUME ok PROVE WindowOf(k)'
  <2>1. stamps'[k] = Append(old, 0) /\ admitted'[k] = Append(admitted[k], 0)
    BY <1>0, <1>2, <1>5
  <2>2. /\ Sorted(stamps'[k]) /\ Sorted(admitted'[k])
        /\ Len(admitted'[k]) = Len(admitted[k]) + 1 /\ admitted'[k][Len(admitted[k]) + 1] = 0
        /\ stamps'[k] \in Seq(Ages) /\ Len(stamps'[k]) = Len(old) + 1
    BY <1>0, <1>2, <1>4, <2>1, AgeAppended DEF WindowOf
  <2>3. alg = "precise" => StampsExact(k)'
    <3>1. SUFFICES ASSUME alg = "precise" PROVE StampsExact(k)'
      OBVIOUS
    <3>2. old = Younger(stamps[k], Window) /\ Len(old) < Limit
      BY <1>2, <1>5, <3>1
    <3>3. /\ \A j \in Nat : AgeOf(Append(old, 0), j) = AgeOf(Append(admitted[k], 0), j)
          /\ AgeOf(Append(admitted[k], 0), Limit) = Window
      BY <1>0, <1>4, <3>1, <3>2, WindowAppended DEF WindowOf
    <3> QED
      BY <2>1, <3>3 DEF StampsExact
  <2>4. StampsCovered(k)'
    <3>1. stamps'[k][1] \in Nat
      <4>1. Len(old) \in Nat /\ 1 \in 1..Len(stamps'[k])
        BY <1>2, <2>2
      <4> QED
        BY <1>0, <2>2, <4>1 DEF Ages
    <3>2. Len(admitted[k]) \in Nat /\ admitted'[k] # <<>>
      <4>1. Len(admitted[k]) \in Nat
        BY <1>0
      <4> QED
        BY <2>2, <4>1, EmptySeq
    <3> QED
      BY <2>2, <3>1, <3>2 DEF StampsCovered
  <2> QED
    BY <1>1, <2>2, <2>3, <2>4 DEF WindowOf
<1>6. ASSUME ~ok PROVE WindowOf(k)'
  <2>1. stamps'[k] = old /\ admitted' = admitted
    BY <1>0, <1>2, <1>6
  <2>2. alg = "precise" => StampsExact(k)'
    <3>1. SUFFICES ASSUME alg = "precise" PROVE StampsExact(k)'
      OBVIOUS
    <3>2. \A j \in Nat : AgeOf(old, j) = AgeOf(stamps[k], j)
      BY <1>0, <1>2, <1>4, <3>1, AgeYounger DEF WindowOf
    <3> QED
      BY <1>4, <2>1, <3>1, <3>2 DEF StampsExact, WindowOf
  <2>3. alg = "approximate" => StampsCovered(k)'
    BY <1>2, <1>4, <1>6, <2>1 DEF StampsCovered, WindowOf
  <2> QED
    BY <1>1, <1>2, <1>4, <2>1, <2>2, <2>3 DEF WindowOf
<1> QED
  BY <1>3, <1>5, <1>6 DEF WindowKept, WindowOf

LEMMA TickWindow ==
  ASSUME LimitTypeOK, WindowKept, Tick
  PROVE  WindowKept'
<1>0. /\ stamps' = [k \in Keys |-> Aged(stamps[k])] /\ alg' = alg
      /\ admitted' = [k \in Keys |-> Younger(Aged(admitted[k]), Window + 1)]
  BY DEF Tick
<1>1. ASSUME NEW k \in Keys PROVE WindowOf(k)'
  <2> DEFINE s == stamps[k]
             a == admitted[k]
             b == Aged(a)
             y == Younger(b, Window + 1)
  <2>1. /\ s \in Seq(Ages) /\ a \in Seq(Ages) /\ Window \in Nat \ {0} /\ Limit \in Nat
        /\ WindowOf(k)
    BY StampTypes, WindowIsNat DEF WindowKept, WindowOf
  <2>2. stamps'[k] = Aged(s) /\ admitted'[k] = y
    BY <1>0
  <2>3. Sorted(s) /\ Sorted(a)
    BY <2>1 DEF WindowOf
  <2> HIDE DEF s, a
  <2>4. /\ Aged(s) \in Seq(Ages) /\ Len(Aged(s)) = Len(s) /\ Sorted(Aged(s))
        /\ \A i \in 1..Len(s) : Aged(s)[i] = Least(s[i] + 1, Window + 1)
        /\ \A j \in Nat : AgeOf(Aged(s), j) = Least(AgeOf(s, j) + 1, Window)
    BY <2>1, <2>3, AgedKept
  <2>5. /\ b \in Seq(Ages) /\ Len(b) = Len(a) /\ Sorted(b)
        /\ \A i \in 1..Len(a) : b[i] = Least(a[i] + 1, Window + 1)
        /\ \A j \in Nat : AgeOf(b, j) = Least(AgeOf(a, j) + 1, Window)
    BY <2>1, <2>3, AgedKept
  <2> HIDE DEF b
  <2>6. /\ y \in Seq(Ages) /\ Sorted(y) /\ Len(y) <= Len(b)
        /\ \A i \in 1..Len(y) : y[i] = b[i + Len(b) - Len(y)]
        /\ \A i \in 1..(Len(b) - Len(y)) : b[i] >= Window + 1
    BY <2>1, <2>5, YoungerKept
  <2>7. \A j \in Nat : AgeOf(y, j) = AgeOf(b, j)
    BY <2>1, <2>5, AgeYounger
  <2> HIDE DEF y
  <2>8. alg = "precise" => StampsExact(k)'
    <3>1. SUFFICES ASSUME alg = "precise" PROVE StampsExact(k)'
      OBVIOUS
    <3>2. /\ \A j \in Nat : AgeOf(s, j) = AgeOf(a, j)
          /\ AgeOf(a, Limit) = Window
      BY <2>1, <3>1 DEF WindowOf, StampsExact, s, a
    <3>3. \A j \in Nat : AgeOf(Aged(s), j) = AgeOf(y, j)
      BY <2>4, <2>5, <2>7, <3>2
    <3>4. AgeOf(y, Limit) = Least(Window + 1, Window)
      BY <2>1, <2>5, <2>7, <3>2
    <3>5. Least(Window + 1, Window) = Window
      BY <2>1 DEF Least
    <3> QED
      BY <2>2, <3>3, <3>4, <3>5 DEF StampsExact
  <2>9. alg = "approximate" => StampsCovered(k)'
    <3>1. SUFFICES ASSUME alg = "approximate", Aged(s) # <<>>, Aged(s)[1] <= Window
                   PROVE  y # <<>> /\ y[Len(y)] <= Aged(s)[1]
      BY <2>2 DEF StampsCovered
    <3>2. 1 \in 1..Len(s) /\ s # <<>> /\ s[1] \in Nat
      <4>1. Len(s) \in Nat /\ Len(s) # 0
        BY <2>1, <2>4, <3>1, EmptySeq
      <4> QED
        BY <2>1, <4>1, EmptySeq DEF Ages
    <3>3. Aged(s)[1] = s[1] + 1 /\ s[1] < Window
      <4>1. Aged(s)[1] = Least(s[1] + 1, Window + 1)
        BY <2>4, <3>2
      <4> QED
        BY <2>1, <3>1, <3>2, <4>1 DEF Least
    <3>4. a # <<>> /\ a[Len(a)] <= s[1]
      BY <2>1, <3>1, <3>2, <3>3 DEF WindowOf, StampsCovered, s, a
    <3> DEFINE n == Len(a)
               l == Len(y)
    <3>5. n \in Nat /\ l \in Nat /\ n >= 1 /\ n \in 1..n /\ a[n] \in Nat /\ l <= n
      <4>1. n \in Nat /\ n # 0 /\ l \in Nat
        BY <2>1, <2>6, <3>4, EmptySeq
      <4>2. n >= 1 /\ n \in 1..n
        BY <4>1
      <4> QED
        BY <2>1, <2>5, <2>6, <4>1, <4>2 DEF Ages
    <3>6. b[n] = a[n] + 1 /\ b[n] <= s[1] + 1
      <4>1. b[n] = Least(a[n] + 1, Window + 1)
        BY <2>5, <3>5
      <4> QED
        BY <2>1, <3>2, <3>3, <3>4, <3>5, <4>1 DEF Least
    <3>7. Len(b) = n /\ ~(n \in 1..(n - l))
      BY <2>1, <2>5, <2>6, <3>2, <3>3, <3>5, <3>6
    <3> HIDE DEF n, l
    <3>8. l >= 1 /\ l \in 1..l /\ l + n - l = n
      BY <3>5, <3>7
    <3>9. y[l] = b[n]
      BY <2>6, <3>7, <3>8 DEF l
    <3>10. y # <<>>
      BY <3>8, EmptySeq DEF l
    <3> QED
      BY <3>3, <3>6, <3>9, <3>10 DEF l
  <2> QED
    BY <1>0, <2>2, <2>4, <2>6, <2>8, <2>9 DEF WindowOf
<1> QED
  BY <1>1 DEF WindowKept, WindowOf

LEMMA WindowStep ==
  ASSUME LimitTypeOK, HoldersKnown, WindowKept, LimitNext
  PROVE  WindowKept'
<1>0. /\ stamps \in [Keys -> Seq(Ages)] /\ admitted \in [Keys -> Seq(Ages)]
      /\ \A k \in Keys : WindowOf(k)
  BY StampTypes DEF WindowKept, WindowOf
<1>1. ASSUME UNCHANGED <<alg, stamps, admitted>> PROVE WindowKept'
  BY <1>1 DEF WindowKept, StampsExact, StampsCovered
<1>2. ASSUME NEW r \in Requests, NEW k \in Keys, Find(r, k) PROVE WindowKept'
  BY <1>1, <1>2 DEF Find, wvars, hvars
<1>3. ASSUME NEW r \in Requests, Consume(r) PROVE WindowKept'
  <2>1. CASE Admit(r, key[r])
    <3>1. alg = "token" /\ alg' = alg /\ stamps' = stamps /\ key[r] \in Keys
      BY <1>3 DEF Consume, HoldersKnown, wvars
    <3>2. admitted' = [admitted EXCEPT ![key[r]] = Append(@, 0)]
      BY <2>1 DEF Admit
    <3>3. ASSUME NEW k \in Keys PROVE Sorted(stamps'[k]) /\ Sorted(admitted'[k])
      <4>1. admitted'[k] = admitted[k] \/ admitted'[k] = Append(admitted[k], 0)
        BY <1>0, <3>1, <3>2
      <4>2. Sorted(admitted[k]) /\ Sorted(stamps[k]) /\ Sorted(Append(admitted[k], 0))
        BY <1>0, AgeAppended DEF WindowOf
      <4> QED
        BY <3>1, <4>1, <4>2
    <3> QED
      BY <3>1, <3>3 DEF WindowKept
  <2>2. CASE UNCHANGED hvars
    BY <1>1, <1>3, <2>2 DEF Consume, wvars, hvars
  <2> QED
    BY <1>3, <2>1, <2>2 DEF Consume
<1>4. ASSUME NEW r \in Requests, Acquire(r) \/ Raise(r) \/ Lower(r) \/ Release(r)
      PROVE WindowKept'
  BY <1>1, <1>4 DEF Acquire, Raise, Lower, Release, wvars, hvars
<1>5. CASE Cleanup \/ StopCleanup
  BY <1>1, <1>5 DEF Cleanup, StopCleanup, wvars, hvars
<1>6. ASSUME NEW K, Reset(K) PROVE WindowKept'
  <2>1. Sorted(<<>>)
    BY DEF Sorted
  <2>2. \A j \in Nat : AgeOf(<<>>, j) = Window
    BY DEF AgeOf
  <2>3. ASSUME NEW k \in Keys PROVE WindowOf(k)'
    <3>1. CASE k \in K
      <4>1. stamps'[k] = <<>> /\ admitted'[k] = <<>>
        BY <1>6, <3>1 DEF Reset
      <4> QED
        BY <2>1, <2>2, <4>1, WindowIsNat DEF WindowOf, StampsExact, StampsCovered
    <3>2. CASE k \notin K
      <4>1. stamps'[k] = stamps[k] /\ admitted'[k] = admitted[k] /\ alg' = alg
        BY <1>6, <3>2 DEF Reset
      <4> QED
        BY <1>0, <4>1 DEF WindowOf, StampsExact, StampsCovered
    <3> QED
      BY <3>1, <3>2
  <2> QED
    BY <2>3 DEF WindowKept, WindowOf
<1> QED
  BY <1>2, <1>3, <1>4, <1>5, <1>6, SlideWindow, TickWindow DEF LimitNext
-----------------------------------------------------------------------------
(* Credit *)

\* The credit of one key, for the step lemmas
CreditOf(k) ==
  /\ Stale(k) # {} => Saved(k) <= Burst
  /\ credit[k] >= Least(Burst, Saved(k) - Running + Cardinality(Stale(k)))

LEMMA StaleSize ==
  ASSUME NEW k
  PROVE  /\ Running \in Nat /\ Cardinality(Stale(k)) \in 0..Running
         /\ Stale(k) = {} => Cardinality(Stale(k)) = 0
         /\ \A r \in Stale(k) : Cardinality(Stale(k) \ {r}) = Cardinality(Stale(k)) - 1
<1>1. Stale(k) \in SUBSET Requests /\ IsFiniteSet(Requests)
  BY LimitsAssumption DEF Stale
<1>2. /\ IsFiniteSet(Stale(k)) /\ Cardinality(Stale(k)) <= Cardinality(Requests)
      /\ Cardinality(Stale(k)) \in Nat /\ Cardinality(Requests) \in Nat
  BY <1>1, FS_Subset, FS_CardinalityType
<1>3. \A r \in Stale(k) : Cardinality(Stale(k) \ {r}) = Cardinality(Stale(k)) - 1
  BY <1>2, FS_RemoveElement
<1> QED
  BY <1>2, <1>3, FS_EmptySet DEF Running

LEMMA SavedType ==
  ASSUME LimitTypeOK, NEW k \in Keys
  PROVE  /\ Saved(k) \in Nat /\ credit[k] \in Int /\ Burst \in Nat \ {0}
         /\ map[k] # None =>
              /\ map[k] \in Buckets
              /\ bucket[map[k]].tokens \in Nat /\ bucket[map[k]].age \in Nat
              /\ bucket[map[k]].age <= CleanupAge + 1
              /\ Saved(k) = bucket[map[k]].tokens + bucket[map[k]].age * Rate
<1>1. /\ map[k] \in Buckets \cup {None} /\ credit[k] \in Int /\ Burst \in Nat \ {0}
      /\ \A b \in Buckets : bucket[b].tokens \in Nat /\ bucket[b].age \in Nat
                            /\ bucket[b].age <= CleanupAge + 1
  BY LimitTypes
<1>2. CASE map[k] = None
  BY <1>1, <1>2 DEF Saved
<1>3. CASE map[k] # None
  <2>1. bucket[map[k]].age * Rate \in Nat
    BY <1>1, <1>3, Filled
  <2> QED
    BY <1>1, <1>3, <2>1 DEF Saved
<1> QED
  BY <1>2, <1>3

\* Admitting a request takes as much from the credit as from the bucket.
LEMMA CreditSpent ==
  ASSUME NEW B \in Nat, NEW v \in Nat, NEW n \in Nat, NEW m \in 0..n, NEW c \in Int,
         c >= Least(B, v - n + m), NEW t \in Nat, t <= B, t <= v
  PROVE  /\ c - 1 >= Least(B, t - 1 - n + m)
         /\ c >= Least(B, t - n + m)
BY DEF Least

\* One stale request less may take one token more from the credit.
LEMMA StaleSpent ==
  ASSUME NEW B \in Nat, NEW v \in Nat, v <= B, NEW n \in Nat, NEW m \in 1..n, NEW c \in Int,
         c >= Least(B, v - n + m)
  PROVE  /\ c - 1 >= Least(B, v - n + (m - 1))
         /\ c >= Least(B, v - n + (m - 1))
BY DEF Least

\* Time gives credit and bucket the same.
LEMMA CreditGrows ==
  ASSUME NEW B \in Nat, NEW v \in Nat, NEW n \in Nat, NEW c \in Int, NEW d \in Nat,
         c >= Least(B, v - n)
  PROVE  /\ Least(B, c + d) >= Least(B, v + d - n)
         /\ Least(B, c + d) >= Least(B, v - n)
BY DEF Least

\* A bucket that nobody has used for CleanupAge is worth no less than a new one.
LEMMA OldIsFull ==
  ASSUME LimitTypeOK, NEW k \in Keys, CreditOf(k), map[k] # None,
         bucket[map[k]].age > CleanupAge
  PROVE  credit[k] >= Burst /\ Saved(k) >= Burst + Running
<1>1. /\ bucket[map[k]].age = CleanupAge + 1 /\ CleanupAge \in Nat
      /\ bucket[map[k]].tokens \in Nat /\ Burst \in Nat /\ Rate \in Nat /\ credit[k] \in Int
      /\ Saved(k) \in Nat
      /\ Saved(k) = bucket[map[k]].tokens + bucket[map[k]].age * Rate
  BY SavedType, LimitsAssumption
<1>2. /\ (CleanupAge + 1) * Rate = CleanupAge * Rate + Rate /\ CleanupAge * Rate \in Nat
      /\ CleanupAge * Rate >= Burst + Running
  BY <1>1, Filled, LimitsAssumption DEF Running
<1>3. Running \in Nat /\ Cardinality(Stale(k)) \in 0..Running
  BY StaleSize
<1> DEFINE p == CleanupAge * Rate
<1>4. Saved(k) = bucket[map[k]].tokens + (p + Rate) /\ p \in Nat /\ p >= Burst + Running
  BY <1>1, <1>2
<1> HIDE DEF p
<1>5. Saved(k) >= Burst + Running
  BY <1>1, <1>3, <1>4
<1>6. credit[k] >= Least(Burst, Saved(k) - Running + Cardinality(Stale(k)))
  BY DEF CreditOf
<1>7. credit[k] >= Burst
  BY <1>1, <1>3, <1>5, <1>6 DEF Least
<1> QED
  BY <1>5, <1>7

\* A bucket that is new, or gone
LEMMA CreditOfNew ==
  ASSUME NEW k \in Keys, Saved(k)' = Burst, credit'[k] \in Int, credit'[k] >= Burst
  PROVE  CreditOf(k)'
<1>1. Running \in Nat /\ Cardinality(Stale(k)') \in 0..Running /\ Burst \in Nat
  BY StaleSize, LimitsAssumption, FS_Subset, FS_CardinalityType DEF Stale, Running
<1>2. credit'[k] >= Least(Burst, Burst - Running + Cardinality(Stale(k)'))
  BY <1>1 DEF Least
<1> QED
  BY <1>1, <1>2 DEF CreditOf
\* A key whose bucket, stale requests and credit stay as they are
LEMMA CreditStays ==
  ASSUME NEW k, CreditOf(k), Stale(k)' = Stale(k), Saved(k)' = Saved(k), credit'[k] = credit[k]
  PROVE  CreditOf(k)'
BY DEF CreditOf

LEMMA CreditFind ==
  ASSUME LimitTypeOK, HoldersKnown, NEW r \in Requests, NEW k \in Keys, Find(r, k),
         NEW l \in Keys, CreditOf(l)
  PROVE  CreditOf(l)'
<1>0. /\ map \in [Keys -> Buckets \cup {None}] /\ None \notin Buckets
      /\ bucket \in [Buckets -> [tokens : 0..Burst, age : 0..(CleanupAge + 1)]]
      /\ pc \in [Requests -> Labels] /\ key \in [Requests -> Keys \cup {None}]
      /\ held \in [Requests -> Buckets \cup {None}]
      /\ \A q \in Requests : held[q] \in InUse
      /\ \A m \in Keys : map[m] \in InUse
  BY LimitTypes
<1>1. /\ pc' = [pc EXCEPT ![r] = "found"] /\ key' = [key EXCEPT ![r] = k] /\ credit' = credit
      /\ pc[r] = "idle"
  BY DEF Find, Goto, hvars
<1>2. /\ pc'[r] = "found" /\ key'[r] = k
      /\ \A q \in Requests \ {r} : pc'[q] = pc[q] /\ key'[q] = key[q]
  BY <1>0, <1>1
<1>3. CASE map[k] # None /\ held' = [held EXCEPT ![r] = map[k]] /\ UNCHANGED rvars
  <2>1. /\ map' = map /\ bucket' = bucket /\ held'[r] = map[k]
        /\ \A q \in Requests \ {r} : held'[q] = held[q]
    BY <1>0, <1>3 DEF rvars
  <2>2. Stale(l)' = Stale(l)
    <3>1. ASSUME NEW q \in Requests PROVE q \in Stale(l)' <=> q \in Stale(l)
      BY <1>1, <1>2, <2>1 DEF Stale
    <3>2. Stale(l) \subseteq Requests /\ Stale(l)' \subseteq Requests
      BY DEF Stale
    <3> QED
      BY <3>1, <3>2
  <2>3. Saved(l)' = Saved(l)
    BY <2>1 DEF Saved
  <2> QED
    BY <1>1, <2>2, <2>3, CreditStays
<1>4. ASSUME NEW b \in Buckets \ InUse, map[k] = None,
             map' = [map EXCEPT ![k] = b], held' = [held EXCEPT ![r] = b],
             bucket' = [bucket EXCEPT ![b] = Full]
      PROVE  CreditOf(l)'
  <2>1. /\ \A m \in Keys : map'[m] = IF m = k THEN b ELSE map[m]
        /\ held'[r] = b
        /\ \A q \in Requests \ {r} : held'[q] = held[q]
        /\ bucket'[b] = Full
        /\ \A c \in Buckets \ {b} : bucket'[c] = bucket[c]
        /\ \A q \in Requests : held[q] # b
        /\ \A m \in Keys : map[m] # b
    BY <1>0, <1>4
  <2>2. \A q \in Requests : pc[q] = "found" => held[q] \in Buckets
    BY DEF HoldersKnown
  <2>3. Stale(l)' = Stale(l)
    <3>1. ASSUME NEW q \in Requests PROVE q \in Stale(l)' <=> q \in Stale(l)
      BY <1>0, <1>1, <1>2, <1>4, <2>1, <2>2 DEF Stale
    <3>2. Stale(l) \subseteq Requests /\ Stale(l)' \subseteq Requests
      BY DEF Stale
    <3> QED
      BY <3>1, <3>2
  <2>4. Saved(l)' = Saved(l)
    <3>1. CASE l = k
      <4>1. Saved(l)' = Burst + 0 * Rate
        BY <1>0, <2>1, <3>1 DEF Saved, Full
      <4>2. Saved(l) = Burst
        BY <1>4, <3>1 DEF Saved
      <4> QED
        BY <4>1, <4>2, LimitsAssumption
    <3>2. CASE l # k
      <4>1. map'[l] = map[l] /\ (map[l] # None => bucket'[map[l]] = bucket[map[l]])
        BY <1>0, <2>1, <3>2
      <4> QED
        BY <4>1 DEF Saved
    <3> QED
      BY <3>1, <3>2
  <2> QED
    BY <1>1, <2>3, <2>4, CreditStays
<1> QED
  BY <1>3, <1>4 DEF Find

LEMMA CreditConsume ==
  ASSUME LimitTypeOK, HoldersKnown, BucketsOwned, NEW r \in Requests, Consume(r),
         NEW l \in Keys, CreditOf(l)
  PROVE  CreditOf(l)'
<1> DEFINE b == held[r]
           k == key[r]
           t == Refilled(b)
<1>0. /\ map \in [Keys -> Buckets \cup {None}] /\ None \notin Buckets
      /\ bucket \in [Buckets -> [tokens : 0..Burst, age : 0..(CleanupAge + 1)]]
      /\ pc \in [Requests -> Labels] /\ key \in [Requests -> Keys \cup {None}]
      /\ held \in [Requests -> Buckets \cup {None}]
      /\ credit \in [Keys -> Int] /\ Burst \in Nat
  BY LimitTypes
<1>1. pc[r] = "found" /\ map' = map /\ b \in Buckets /\ k \in Keys
  BY DEF Consume, HoldersKnown
<1>2. /\ bucket[b].tokens \in Nat /\ bucket[b].age \in Nat
      /\ t = Least(Burst, bucket[b].tokens + bucket[b].age * Rate)
  BY <1>0, <1>1 DEF Refilled
<1>3. t \in Nat /\ t <= Burst /\ t <= bucket[b].tokens + bucket[b].age * Rate
  <2> DEFINE x == bucket[b].tokens
             a == bucket[b].age
  <2>1. x \in Nat /\ a \in Nat /\ t = Least(Burst, x + a * Rate)
    BY <1>2
  <2> HIDE DEF x, a, t
  <2>2. Least(Burst, x + a * Rate) \in 0..Burst /\ Least(Burst, x + a * Rate) <= x + a * Rate
    BY <2>1, Filled
  <2> QED
    BY <1>0, <2>1, <2>2 DEF x, a
<1> HIDE DEF t
<1>4. /\ pc'[r] # "found"
      /\ \A q \in Requests \ {r} : pc'[q] = pc[q] /\ key'[q] = key[q] /\ held'[q] = held[q]
  BY <1>0 DEF Consume, Admit, LimitEnd, Goto
<1>5. Stale(l)' = Stale(l) \ {r}
  <2>1. ASSUME NEW q \in Requests PROVE q \in Stale(l)' <=> q \in Stale(l) \ {r}
    BY <1>1, <1>4, <2>1 DEF Stale
  <2>2. Stale(l) \subseteq Requests /\ Stale(l)' \subseteq Requests
    BY DEF Stale
  <2> QED
    BY <2>1, <2>2
<1>6. \/ /\ t >= 1 /\ credit' = [credit EXCEPT ![k] = @ - 1]
         /\ bucket' = [bucket EXCEPT ![b] = [tokens |-> t - 1, age |-> 0]]
      \/ /\ t < 1 /\ credit' = credit
         /\ bucket' = [bucket EXCEPT ![b] = [tokens |-> t, age |-> 0]]
  BY DEF Consume, hvars, t
<1>7. credit'[l] = credit[l] \/ (l = k /\ credit'[l] = credit[l] - 1)
  BY <1>0, <1>6
<1>8. /\ Running \in Nat /\ Cardinality(Stale(l)) \in 0..Running /\ Saved(l) \in Nat
      /\ credit[l] \in Int
      /\ r \in Stale(l) => Cardinality(Stale(l) \ {r}) = Cardinality(Stale(l)) - 1
      /\ r \notin Stale(l) => Stale(l)' = Stale(l)
      /\ Stale(l) = {} => Cardinality(Stale(l)) = 0
  BY <1>5, StaleSize, SavedType
<1>9. CASE map[l] # b
  <2>1. Saved(l)' = Saved(l)
    <3>1. map[l] # None => bucket'[map[l]] = bucket[map[l]]
      BY <1>0, <1>1, <1>6, <1>9
    <3> QED
      BY <1>1, <3>1 DEF Saved
  <2>2. CASE r \in Stale(l)
    <3>1. Saved(l) <= Burst /\ Cardinality(Stale(l)) \in 1..Running
      <4>1. Cardinality(Stale(l)) - 1 \in Nat
        BY <1>8, <2>2, FS_RemoveElement, FS_CardinalityType, FS_Subset, LimitsAssumption DEF Stale
      <4> QED
        BY <1>8, <2>2, <4>1 DEF CreditOf
    <3>2. /\ credit[l] - 1 >= Least(Burst, Saved(l) - Running + (Cardinality(Stale(l)) - 1))
          /\ credit[l] >= Least(Burst, Saved(l) - Running + (Cardinality(Stale(l)) - 1))
      BY <1>0, <1>8, <3>1, StaleSpent DEF CreditOf
    <3>3. credit'[l] >= Least(Burst, Saved(l) - Running + (Cardinality(Stale(l)) - 1))
      BY <1>7, <3>2
    <3> QED
      BY <1>5, <1>8, <2>1, <2>2, <3>1, <3>3 DEF CreditOf
  <2>3. CASE r \notin Stale(l)
    <3>1. l # k
      BY <1>1, <1>9, <2>3 DEF Stale
    <3> QED
      BY <1>7, <1>8, <2>1, <2>3, <3>1, CreditStays
  <2> QED
    BY <2>2, <2>3
<1>10. CASE map[l] = b
  <2>1. l = k /\ r \notin Stale(l) /\ map[l] # None
    BY <1>0, <1>1, <1>10 DEF BucketsOwned, Stale
  <2>2. Saved(l) = bucket[b].tokens + bucket[b].age * Rate
    BY <1>10, <2>1 DEF Saved
  <2>3. /\ credit[l] - 1 >= Least(Burst, t - 1 - Running + Cardinality(Stale(l)))
        /\ credit[l] >= Least(Burst, t - Running + Cardinality(Stale(l)))
    BY <1>0, <1>3, <1>8, <2>2, CreditSpent DEF CreditOf
  <2>4. \/ Saved(l)' = t - 1 /\ credit'[l] = credit[l] - 1
        \/ Saved(l)' = t /\ credit'[l] = credit[l]
    <3>1. ASSUME NEW v \in Int, bucket' = [bucket EXCEPT ![b] = [tokens |-> v, age |-> 0]]
          PROVE  Saved(l)' = v
      <4>1. bucket'[b].tokens = v /\ bucket'[b].age = 0
        BY <1>0, <1>1, <3>1
      <4>2. Saved(l)' = v + 0 * Rate
        BY <1>1, <1>10, <2>1, <4>1 DEF Saved
      <4> QED
        BY <3>1, <4>2, LimitsAssumption
    <3>2. t \in Int /\ t - 1 \in Int
      BY <1>3
    <3>3. credit' = [credit EXCEPT ![k] = @ - 1] => credit'[l] = credit[l] - 1
      BY <1>0, <2>1
    <3> QED
      BY <1>6, <3>1, <3>2, <3>3
  <2>5. Saved(l)' <= Burst
    BY <1>0, <1>3, <2>4
  <2>6. credit'[l] >= Least(Burst, Saved(l)' - Running + Cardinality(Stale(l)))
    BY <2>3, <2>4
  <2> QED
    BY <1>8, <2>1, <2>5, <2>6 DEF CreditOf
<1> QED
  BY <1>9, <1>10

LEMMA CreditTick ==
  ASSUME LimitTypeOK, Tick, NEW k \in Keys, CreditOf(k)
  PROVE  CreditOf(k)'
<1>1. /\ map' = map /\ credit'[k] = Least(Burst, credit[k] + Rate)
      /\ UNCHANGED <<pc, key, held>>
      /\ \A r \in Requests : pc[r] # "found"
  BY DEF Tick, qvars
<1>2. Stale(k) = {} /\ Stale(k)' = {}
  BY <1>1 DEF Stale
<1>3. /\ Running \in Nat /\ Saved(k) \in Nat /\ credit[k] \in Int /\ Burst \in Nat
      /\ Rate \in Nat /\ Cardinality({}) = 0
  BY StaleSize, SavedType, LimitsAssumption, FS_EmptySet
<1>4. credit[k] >= Least(Burst, Saved(k) - Running)
  <2>1. credit[k] >= Least(Burst, Saved(k) - Running + 0)
    BY <1>2, <1>3 DEF CreditOf
  <2> QED
    BY <1>3, <2>1
<1>5. /\ credit'[k] >= Least(Burst, Saved(k) + Rate - Running)
      /\ credit'[k] >= Least(Burst, Saved(k) - Running)
  BY <1>1, <1>3, <1>4, CreditGrows
<1>6. Saved(k)' = Saved(k) + Rate \/ Saved(k)' = Saved(k)
  <2>1. CASE map[k] = None
    BY <1>1, <2>1 DEF Saved
  <2>2. CASE map[k] # None
    <3> DEFINE b == map[k]
    <3>1. /\ b \in Buckets /\ bucket[b].tokens \in Nat /\ bucket[b].age \in Nat
          /\ Saved(k) = bucket[b].tokens + bucket[b].age * Rate
          /\ bucket[b].age <= CleanupAge + 1 /\ CleanupAge \in Nat
          /\ bucket \in [Buckets -> [tokens : 0..Burst, age : 0..(CleanupAge + 1)]]
          /\ b \in InUse
      BY <2>2, SavedType, LimitTypes
    <3>2. bucket'[b] = [bucket[b] EXCEPT !.age = Least(@ + 1, CleanupAge + 1)]
      BY <3>1 DEF Tick
    <3> HIDE DEF b
    <3>3. /\ bucket'[b].tokens = bucket[b].tokens
          /\ bucket'[b].age = Least(bucket[b].age + 1, CleanupAge + 1)
      BY <3>1, <3>2
    <3>4. bucket'[b].age = bucket[b].age + 1 \/ bucket'[b].age = bucket[b].age
      BY <3>1, <3>3 DEF Least
    <3>5. /\ bucket[b].age * Rate \in Nat
          /\ (bucket[b].age + 1) * Rate = bucket[b].age * Rate + Rate
      BY <3>1, Filled
    <3>6. Saved(k)' = bucket'[b].tokens + bucket'[b].age * Rate
      BY <1>1, <2>2 DEF Saved, b
    <3> QED
      BY <1>3, <3>1, <3>3, <3>4, <3>5, <3>6
  <2> QED
    BY <2>1, <2>2
<1>7. credit'[k] >= Least(Burst, Saved(k)' - Running)
  <2>1. CASE Saved(k)' = Saved(k) + Rate
    BY <1>3, <1>5, <2>1
  <2>2. CASE Saved(k)' = Saved(k)
    BY <1>5, <2>2
  <2> QED
    BY <1>6, <2>1, <2>2
<1>8. Saved(k)' - Running + Cardinality(Stale(k)') = Saved(k)' - Running
  BY <1>2, <1>3, <1>6
<1> QED
  BY <1>2, <1>7, <1>8 DEF CreditOf

LEMMA CreditStep ==
  ASSUME LimitTypeOK, HoldersKnown, BucketsOwned, CreditKept, LimitNext
  PROVE  CreditKept'
<1>0. /\ map \in [Keys -> Buckets \cup {None}]
      /\ pc \in [Requests -> Labels] /\ key \in [Requests -> Keys \cup {None}]
      /\ held \in [Requests -> Buckets \cup {None}]
  BY LimitTypes
<1>1. alg' = alg
  BY DEF LimitNext, Find, Slide, Consume, Acquire, Raise, Lower, Release, Reset, Cleanup,
         StopCleanup, Tick
<1>2. SUFFICES ASSUME alg = "token", NEW k \in Keys
               PROVE  CreditOf(k)'
  BY <1>1 DEF CreditKept, CreditOf
<1>3. CreditOf(k)
  BY <1>2 DEF CreditKept, CreditOf
<1>4. ASSUME NEW r \in Requests, Acquire(r) \/ Raise(r) \/ Lower(r) \/ Release(r)
      PROVE CreditOf(k)'
  <2>1. /\ UNCHANGED <<map, bucket, credit>> /\ pc[r] # "found" /\ pc'[r] # "found"
        /\ \A q \in Requests \ {r} : pc'[q] = pc[q] /\ key'[q] = key[q] /\ held'[q] = held[q]
    BY <1>0, <1>4 DEF Acquire, Raise, Lower, Release, LimitEnd, Goto, rvars, hvars
  <2>2. Stale(k)' = Stale(k)
    <3>1. ASSUME NEW q \in Requests PROVE q \in Stale(k)' <=> q \in Stale(k)
      BY <2>1 DEF Stale
    <3>2. Stale(k) \subseteq Requests /\ Stale(k)' \subseteq Requests
      BY DEF Stale
    <3> QED
      BY <3>1, <3>2
  <2>3. Saved(k)' = Saved(k)
    BY <2>1 DEF Saved
  <2> QED
    BY <1>3, <2>1, <2>2, <2>3, CreditStays
<1>5. ASSUME UNCHANGED <<bucket, qvars>>, map'[k] = map[k], credit'[k] = credit[k]
      PROVE CreditOf(k)'
  <2>1. Stale(k)' = Stale(k) /\ Saved(k)' = Saved(k)
    BY <1>5 DEF Stale, Saved, qvars
  <2> QED
    BY <1>3, <1>5, <2>1, CreditStays
<1>6. ASSUME NEW K, Reset(K) PROVE CreditOf(k)'
  <2>1. CASE k \in K
    <3>1. map'[k] = None /\ credit'[k] = Burst
      BY <1>6, <2>1 DEF Reset
    <3>2. Saved(k)' = Burst /\ credit'[k] \in Int /\ credit'[k] >= Burst
      BY <3>1, LimitsAssumption DEF Saved
    <3> QED
      BY <3>2, CreditOfNew
  <2>2. CASE k \notin K
    BY <1>5, <1>6, <2>2 DEF Reset
  <2> QED
    BY <2>1, <2>2
<1>7. CASE Cleanup
  <2>0. UNCHANGED <<bucket, qvars, credit>>
    BY <1>7 DEF Cleanup, hvars
  <2>1. CASE map[k] # None /\ bucket[map[k]].age > CleanupAge
    <3>1. map'[k] = None
      BY <1>7, <2>1 DEF Cleanup
    <3>2. Saved(k)' = Burst /\ credit'[k] \in Int /\ credit'[k] >= Burst
      BY <1>3, <2>0, <2>1, <3>1, OldIsFull, SavedType DEF Saved
    <3> QED
      BY <3>2, CreditOfNew
  <2>2. CASE ~(map[k] # None /\ bucket[map[k]].age > CleanupAge)
    <3>1. map'[k] = map[k]
      BY <1>7, <2>2 DEF Cleanup
    <3> QED
      BY <1>5, <2>0, <3>1
  <2> QED
    BY <2>1, <2>2
<1>8. CASE StopCleanup
  BY <1>5, <1>8 DEF StopCleanup, rvars, hvars
<1>9. ~(\E r \in Requests, l \in Keys : Slide(r, l))
  BY <1>2 DEF Slide
<1> QED
  BY <1>3, <1>4, <1>6, <1>7, <1>8, <1>9, CreditFind, CreditConsume, CreditTick DEF LimitNext
-----------------------------------------------------------------------------
(* Empty buckets *)

\* The bucket of one key, for the step lemma
DrawnOf(k) ==
  map[k] # None /\ bucket[map[k]].tokens = 0 /\ bucket[map[k]].age = 0
    => admitted[k] # <<>>

LEMMA DrawnConsume ==
  ASSUME LimitTypeOK, HoldersKnown, BucketsOwned, NEW r \in Requests, Consume(r),
         NEW l \in Keys, DrawnOf(l)
  PROVE  DrawnOf(l)'
<1> DEFINE b == held[r]
           k == key[r]
           t == Refilled(b)
<1>0. /\ bucket \in [Buckets -> [tokens : 0..Burst, age : 0..(CleanupAge + 1)]]
      /\ admitted \in [Keys -> Seq(Ages)]
      /\ map' = map /\ b \in Buckets /\ k \in Keys /\ pc[r] = "found" /\ None \notin Buckets
      /\ map[l] \in Buckets \cup {None}
  BY LimitTypes, StampTypes DEF Consume, HoldersKnown
<1>1. CASE t >= 1 /\ Admit(r, k)
  <2>1. admitted' = [admitted EXCEPT ![k] = Append(@, 0)]
    BY <1>1 DEF Admit
  <2>2. CASE l = k
    <3>1. admitted'[l] = Append(admitted[l], 0) /\ admitted[l] \in Seq(Ages)
      BY <1>0, <2>1, <2>2
    <3>2. Len(admitted[l]) \in Nat /\ Len(Append(admitted[l], 0)) = Len(admitted[l]) + 1
      BY <3>1
    <3>3. admitted'[l] # <<>>
      BY <3>1, <3>2, EmptySeq
    <3> QED
      BY <3>3 DEF DrawnOf
  <2>3. CASE l # k
    <3>1. admitted'[l] = admitted[l] /\ map[l] # b
      BY <1>0, <2>1, <2>3 DEF BucketsOwned
    <3>2. map[l] # None => bucket'[map[l]] = bucket[map[l]]
      <4>1. bucket' = [bucket EXCEPT ![b] = [tokens |-> t - 1, age |-> 0]]
            \/ bucket' = [bucket EXCEPT ![b] = [tokens |-> t, age |-> 0]]
        BY DEF Consume
      <4> QED
        BY <1>0, <3>1, <4>1
    <3> QED
      BY <1>0, <3>1, <3>2 DEF DrawnOf
  <2> QED
    BY <2>2, <2>3
<1>2. CASE /\ t < 1 /\ UNCHANGED hvars
           /\ bucket' = [bucket EXCEPT ![b] = [tokens |-> t, age |-> 0]]
  <2>1. admitted' = admitted
    BY <1>2 DEF hvars
  <2>2. CASE map[l] = b
    <3> DEFINE x == bucket[b].tokens
               a == bucket[b].age
    <3>1. x \in Nat /\ a \in Nat /\ t = Least(Burst, x + a * Rate)
      BY <1>0 DEF Refilled
    <3> HIDE DEF x, a, t
    <3>2. /\ a * Rate \in Nat /\ (a >= 1 => a * Rate >= 1)
          /\ Least(Burst, x + a * Rate) \in 0..Burst
          /\ x + a * Rate >= 1 => Least(Burst, x + a * Rate) >= 1
      BY <3>1, Filled
    <3>3. ~(Least(Burst, x + a * Rate) >= 1)
      BY <1>0, <1>2, <3>1, <3>2
    <3> DEFINE p == a * Rate
    <3>4. p \in Nat /\ (a >= 1 => p >= 1) /\ ~(x + p >= 1)
      BY <3>2, <3>3
    <3> HIDE DEF p
    <3>5. x = 0 /\ a = 0
      BY <3>1, <3>4
    <3>6. admitted[l] # <<>>
      BY <1>0, <2>2, <3>5 DEF DrawnOf, x, a
    <3> QED
      BY <2>1, <3>6 DEF DrawnOf
  <2>3. CASE map[l] # b
    <3>1. map[l] # None => bucket'[map[l]] = bucket[map[l]]
      BY <1>0, <1>2, <2>3
    <3> QED
      BY <1>0, <2>1, <3>1 DEF DrawnOf
  <2> QED
    BY <2>2, <2>3
<1> QED
  BY <1>1, <1>2 DEF Consume

LEMMA DrawnStep ==
  ASSUME LimitTypeOK, HoldersKnown, BucketsOwned, EmptyDrawn, LimitNext
  PROVE  EmptyDrawn'
<1>0. /\ map \in [Keys -> Buckets \cup {None}] /\ None \notin Buckets
      /\ bucket \in [Buckets -> [tokens : 0..Burst, age : 0..(CleanupAge + 1)]]
      /\ CleanupAge \in Nat /\ Burst \in Nat \ {0}
      /\ \A m \in Keys : map[m] \in InUse
  BY LimitTypes
<1>1. alg' = alg
  BY DEF LimitNext, Find, Slide, Consume, Acquire, Raise, Lower, Release, Reset, Cleanup,
         StopCleanup, Tick
<1>2. SUFFICES ASSUME alg = "token", NEW k \in Keys
               PROVE  DrawnOf(k)'
  BY <1>1 DEF EmptyDrawn, DrawnOf
<1>3. DrawnOf(k)
  BY <1>2 DEF EmptyDrawn, DrawnOf
<1>4. ASSUME UNCHANGED <<bucket, admitted>>, map'[k] \in {None, map[k]} PROVE DrawnOf(k)'
  BY <1>3, <1>4 DEF DrawnOf
<1>5. ASSUME NEW r \in Requests, NEW l \in Keys, Find(r, l) PROVE DrawnOf(k)'
  <2>1. admitted' = admitted
    BY <1>5 DEF Find, hvars
  <2>2. CASE UNCHANGED rvars
    BY <1>4, <2>1, <2>2 DEF rvars
  <2>3. ASSUME NEW b \in Buckets \ InUse, map' = [map EXCEPT ![l] = b],
               bucket' = [bucket EXCEPT ![b] = Full]
        PROVE  DrawnOf(k)'
    <3>1. CASE k = l
      <4>1. map'[k] = b /\ bucket'[b] = Full
        BY <1>0, <2>3, <3>1
      <4> QED
        BY <1>0, <4>1 DEF DrawnOf, Full
    <3>2. CASE k # l
      <4>1. map'[k] = map[k] /\ (map[k] # None => bucket'[map[k]] = bucket[map[k]])
        BY <1>0, <2>3, <3>2
      <4> QED
        BY <1>3, <2>1, <4>1 DEF DrawnOf
    <3> QED
      BY <3>1, <3>2
  <2> QED
    BY <1>5, <2>2, <2>3 DEF Find
<1>6. ASSUME NEW r \in Requests, Acquire(r) \/ Raise(r) \/ Lower(r) \/ Release(r)
      PROVE DrawnOf(k)'
  BY <1>4, <1>6 DEF Acquire, Raise, Lower, Release, rvars, hvars
<1>7. ASSUME NEW K, Reset(K) PROVE DrawnOf(k)'
  <2>1. CASE k \in K
    <3>1. map'[k] = None
      BY <1>7, <2>1 DEF Reset
    <3> QED
      BY <3>1 DEF DrawnOf
  <2>2. CASE k \notin K
    <3>1. bucket' = bucket /\ map'[k] = map[k] /\ admitted'[k] = admitted[k]
      BY <1>7, <2>2 DEF Reset
    <3> QED
      BY <1>3, <3>1 DEF DrawnOf
  <2> QED
    BY <2>1, <2>2
<1>8. CASE Cleanup \/ StopCleanup
  BY <1>4, <1>8 DEF Cleanup, StopCleanup, rvars, hvars
<1>9. CASE Tick
  <2>1. map' = map
    BY <1>9 DEF Tick
  <2>2. CASE map[k] = None
    BY <2>1, <2>2 DEF DrawnOf
  <2>3. CASE map[k] # None
    <3>1. map[k] \in Buckets /\ map[k] \in InUse /\ bucket[map[k]].age \in Nat
      BY <1>0, <2>3
    <3>2. bucket'[map[k]] = [bucket[map[k]] EXCEPT !.age = Least(@ + 1, CleanupAge + 1)]
      BY <1>9, <3>1 DEF Tick
    <3>3. bucket'[map[k]].age = Least(bucket[map[k]].age + 1, CleanupAge + 1)
      BY <1>0, <3>1, <3>2
    <3>4. bucket'[map[k]].age # 0
      BY <1>0, <3>1, <3>3 DEF Least
    <3> QED
      BY <2>1, <3>4 DEF DrawnOf
  <2> QED
    BY <2>2, <2>3
<1>10. ~(\E r \in Requests, l \in Keys : Slide(r, l))
  BY <1>2 DEF Slide
<1> QED
  BY <1>3, <1>5, <1>6, <1>7, <1>8, <1>9, <1>10, DrawnConsume DEF LimitNext

-----------------------------------------------------------------------------
(* Types *)

LEMMA TypeStep ==
  ASSUME LimitTypeOK, HoldersKnown, WindowKept, ConnsCounted', LimitNext
  PROVE  LimitTypeOK'
<1>0. /\ map \in [Keys -> Buckets \cup {None}]
      /\ bucket \in [Buckets -> [tokens : 0..Burst, age : 0..(CleanupAge + 1)]]
      /\ pc \in [Requests -> Labels] /\ key \in [Requests -> Keys \cup {None}]
      /\ held \in [Requests -> Buckets \cup {None}]
      /\ credit \in [Keys -> Int]
      /\ Rate \in Nat \ {0} /\ Burst \in Nat /\ CleanupAge \in Nat
      /\ Window \in Nat \ {0} /\ phase \in 0..(Window - 1)
      /\ conns \in [Keys \cup {None} -> Nat]
      /\ empty \in [Keys -> BOOLEAN] /\ cleaning \in BOOLEAN
      /\ alg \in {"token", "precise", "approximate"} /\ perKey \in BOOLEAN
      /\ stamps \in [Keys -> Seq(0..(Window + 1))] /\ admitted \in [Keys -> Seq(0..Window)]
      /\ 0 \in 0..Window /\ Full \in [tokens : 0..Burst, age : 0..(CleanupAge + 1)]
  BY LimitTypes, WindowIsNat DEF LimitTypeOK, Full
<1>1. conns' \in [Keys \cup {None} -> Nat]
  <2>1. conns' \in [Keys \cup {None} -> Int]
    <3>1. \/ conns' = conns
          \/ \E x : conns' = [conns EXCEPT ![x] = @ + 1] \/ conns' = [conns EXCEPT ![x] = @ - 1]
      BY DEF LimitNext, Find, Slide, Consume, Acquire, Raise, Lower, Release, Reset, Cleanup,
             StopCleanup, Tick
    <3>2. ASSUME NEW x, conns' = [conns EXCEPT ![x] = @ + 1] \/ conns' = [conns EXCEPT ![x] = @ - 1]
          PROVE  conns' \in [Keys \cup {None} -> Int]
      <4>1. conns' = [k \in Keys \cup {None} |-> conns'[k]]
        BY <1>0, <3>2
      <4>2. ASSUME NEW k \in Keys \cup {None} PROVE conns'[k] \in Int
        BY <1>0, <3>2
      <4> QED
        BY <4>1, <4>2
    <3>3. conns \in [Keys \cup {None} -> Int]
      BY <1>0
    <3> QED
      BY <3>1, <3>2, <3>3
  <2>2. ASSUME NEW k \in Keys \cup {None} PROVE conns'[k] \in Nat
    <3>1. Placed(k)' \subseteq Requests
      BY DEF Placed
    <3>2. Cardinality(Placed(k)') \in Nat
      BY <3>1, LimitsAssumption, FS_Subset, FS_CardinalityType
    <3> QED
      BY <3>2 DEF ConnsCounted
  <2> QED
    BY <2>1, <2>2
<1>2. ASSUME NEW r \in Requests, NEW k \in Keys, Find(r, k) PROVE LimitTypeOK'
  <2>1. map' \in [Keys -> Buckets \cup {None}]
    BY <1>0, <1>2 DEF Find, rvars
  <2>7. held' \in [Requests -> Buckets \cup {None}]
    <3>1. map[k] \in Buckets \cup {None}
      BY <1>0
    <3>2. \E x \in Buckets \cup {None} : held' = [held EXCEPT ![r] = x]
      BY <1>2, <3>1 DEF Find
    <3> QED
      BY <1>0, <3>2
  <2>2. bucket' \in [Buckets -> [tokens : 0..Burst, age : 0..(CleanupAge + 1)]]
    BY <1>0, <1>2 DEF Find, rvars
  <2>3. pc' \in [Requests -> Labels] /\ key' \in [Requests -> Keys \cup {None}]
    BY <1>0, <1>2 DEF Find, Goto, Labels
  <2> QED
    BY <1>0, <1>1, <1>2, <2>1, <2>2, <2>3, <2>7 DEF Find, wvars, hvars, LimitTypeOK
<1>3. ASSUME NEW s \in Seq(0..Window) PROVE Append(s, 0) \in Seq(0..Window)
  BY <1>0
<1>4. ASSUME NEW r \in Requests, NEW k \in Keys, Slide(r, k) PROVE LimitTypeOK'
  <2>1. PICK old \in Seq(Ages), ok \in BOOLEAN :
           /\ stamps' = [stamps EXCEPT ![k] = IF ok THEN Append(old, 0) ELSE old]
           /\ admitted' = IF ok THEN [admitted EXCEPT ![k] = Append(@, 0)] ELSE admitted
    BY <1>4, SlideDoes
  <2>2. 0 \in Ages /\ Append(old, 0) \in Seq(Ages) /\ Ages = 0..(Window + 1)
    BY <1>0 DEF Ages
  <2>3. stamps' \in [Keys -> Seq(0..(Window + 1))] /\ admitted' \in [Keys -> Seq(0..Window)]
    BY <1>0, <1>3, <2>1, <2>2
  <2>4. pc' \in [Requests -> Labels] /\ key' \in [Requests -> Keys \cup {None}]
    <3>1. \/ pc' = [pc EXCEPT ![r] = "conn"] /\ key' = [key EXCEPT ![r] = k]
          \/ pc' = pc /\ key' = key
      BY <1>4 DEF Slide, Goto
    <3>2. CASE pc' = [pc EXCEPT ![r] = "conn"] /\ key' = [key EXCEPT ![r] = k]
      BY <1>0, <3>2 DEF Labels
    <3> QED
      BY <1>0, <3>1, <3>2
  <2>5. empty' \in [Keys -> BOOLEAN]
    BY <1>0, <1>4 DEF Slide
  <2> QED
    BY <1>0, <1>1, <1>4, <2>3, <2>4, <2>5 DEF Slide, rvars, LimitTypeOK
<1>5. ASSUME NEW r \in Requests, Consume(r) PROVE LimitTypeOK'
  <2> DEFINE b == held[r]
             k == key[r]
             t == Refilled(b)
  <2>1. b \in Buckets /\ k \in Keys
    BY <1>5 DEF Consume, HoldersKnown
  <2>2. t \in 0..Burst
    <3>1. /\ bucket[b].tokens \in Nat /\ bucket[b].age \in Nat
          /\ t = Least(Burst, bucket[b].tokens + bucket[b].age * Rate)
      BY <1>0, <2>1 DEF Refilled
    <3> HIDE DEF t
    <3> QED
      BY <3>1, Filled
  <2>3. /\ bucket' = [bucket EXCEPT ![b] = [tokens |-> t, age |-> 0]]
            \/ (t >= 1 /\ bucket' = [bucket EXCEPT ![b] = [tokens |-> t - 1, age |-> 0]])
        /\ credit' = [credit EXCEPT ![k] = @ - 1] \/ credit' = credit
        /\ admitted' = [admitted EXCEPT ![k] = Append(@, 0)] \/ admitted' = admitted
    BY <1>5 DEF Consume, Admit, hvars
  <2> HIDE DEF t
  <2>4. bucket' \in [Buckets -> [tokens : 0..Burst, age : 0..(CleanupAge + 1)]]
    <3>1. \E v \in 0..Burst : bucket' = [bucket EXCEPT ![b] = [tokens |-> v, age |-> 0]]
      <4>1. t >= 1 => t - 1 \in 0..Burst
        BY <1>0, <2>2
      <4> QED
        BY <2>2, <2>3, <4>1
    <3>2. 0 \in 0..(CleanupAge + 1)
      BY <1>0
    <3>3. PICK v \in 0..Burst : bucket' = [bucket EXCEPT ![b] = [tokens |-> v, age |-> 0]]
      BY <3>1
    <3>4. [tokens |-> v, age |-> 0] \in [tokens : 0..Burst, age : 0..(CleanupAge + 1)]
      BY <3>2
    <3> QED
      BY <1>0, <3>3, <3>4
  <2>5. credit' \in [Keys -> Int]
    BY <1>0, <2>3
  <2>7. admitted' \in [Keys -> Seq(0..Window)]
    <3>1. Append(admitted[k], 0) \in Seq(0..Window)
      BY <1>0, <1>3, <2>1
    <3> QED
      BY <1>0, <2>3, <3>1
  <2>6. /\ pc' \in [Requests -> Labels] /\ key' \in [Requests -> Keys \cup {None}]
        /\ held' \in [Requests -> Buckets \cup {None}]
    BY <1>0, <1>5 DEF Consume, Admit, LimitEnd, Goto, Labels
  <2> QED
    BY <1>0, <1>1, <1>5, <2>4, <2>5, <2>6, <2>7 DEF Consume, wvars, LimitTypeOK
<1>6. ASSUME NEW r \in Requests, Acquire(r) \/ Raise(r) \/ Lower(r) \/ Release(r)
      PROVE LimitTypeOK'
  <2>1. /\ pc' \in [Requests -> Labels] /\ key' \in [Requests -> Keys \cup {None}]
        /\ held' \in [Requests -> Buckets \cup {None}]
    BY <1>0, <1>6 DEF Acquire, Raise, Lower, Release, LimitEnd, Goto, Labels
  <2>2. UNCHANGED <<alg, perKey, cleaning, phase, rvars, wvars, hvars>>
    BY <1>6 DEF Acquire, Raise, Lower, Release
  <2> QED
    BY <1>0, <1>1, <2>1, <2>2 DEF rvars, wvars, hvars, LimitTypeOK
<1>7. ASSUME NEW K, Reset(K) PROVE LimitTypeOK'
  <2>1. <<>> \in Seq(0..Window) /\ <<>> \in Seq(0..(Window + 1))
    OBVIOUS
  <2>2. map' \in [Keys -> Buckets \cup {None}] /\ credit' \in [Keys -> Int]
    BY <1>0, <1>7 DEF Reset
  <2>3. empty' \in [Keys -> BOOLEAN]
    BY <1>0, <1>7 DEF Reset
  <2>4. stamps' \in [Keys -> Seq(0..(Window + 1))]
    <3>1. stamps' = [k \in Keys |-> IF k \in K THEN <<>> ELSE stamps[k]]
      BY <1>7 DEF Reset
    <3> QED
      BY <1>0, <2>1, <3>1
  <2>5. admitted' \in [Keys -> Seq(0..Window)]
    <3>1. admitted' = [k \in Keys |-> IF k \in K THEN <<>> ELSE admitted[k]]
      BY <1>7 DEF Reset
    <3> QED
      BY <1>0, <2>1, <3>1
  <2> QED
    BY <1>0, <1>1, <1>7, <2>2, <2>3, <2>4, <2>5 DEF Reset, qvars, LimitTypeOK
<1>8. CASE Cleanup
  <2>1. map' \in [Keys -> Buckets \cup {None}]
    BY <1>0, <1>8 DEF Cleanup
  <2> QED
    BY <1>0, <1>1, <1>8, <2>1 DEF Cleanup, wvars, qvars, hvars, LimitTypeOK
<1>9. CASE StopCleanup
  BY <1>0, <1>1, <1>9 DEF StopCleanup, rvars, wvars, qvars, hvars, LimitTypeOK
<1>10. CASE Tick
  <2>1. phase' \in 0..(Window - 1)
    BY <1>0, <1>10 DEF Tick
  <2>2. ASSUME NEW b \in Buckets
        PROVE  bucket'[b] \in [tokens : 0..Burst, age : 0..(CleanupAge + 1)]
    <3>1. CASE b \notin InUse
      BY <1>0, <1>10, <3>1 DEF Tick
    <3>2. CASE b \in InUse
      <4>1. bucket'[b] = [bucket[b] EXCEPT !.age = Least(@ + 1, CleanupAge + 1)]
        BY <1>10, <3>2 DEF Tick
      <4>2. Least(bucket[b].age + 1, CleanupAge + 1) \in 0..(CleanupAge + 1)
        BY <1>0 DEF Least
      <4> QED
        BY <1>0, <4>1, <4>2
    <3> QED
      BY <3>1, <3>2
  <2>3. bucket' \in [Buckets -> [tokens : 0..Burst, age : 0..(CleanupAge + 1)]]
    BY <1>10, <2>2 DEF Tick
  <2>4. credit' \in [Keys -> Int]
    BY <1>0, <1>10 DEF Tick, Least
  <2>5. ASSUME NEW k \in Keys
        PROVE  /\ Aged(stamps[k]) \in Seq(Ages)
               /\ Younger(Aged(admitted[k]), Window + 1) \in Seq(0..Window)
    <3>1. /\ stamps[k] \in Seq(Ages) /\ Sorted(stamps[k])
          /\ admitted[k] \in Seq(Ages) /\ Sorted(admitted[k])
      BY StampTypes DEF WindowKept
    <3> DEFINE y == Younger(Aged(admitted[k]), Window + 1)
    <3>2. /\ Aged(stamps[k]) \in Seq(Ages)
          /\ Aged(admitted[k]) \in Seq(Ages) /\ Sorted(Aged(admitted[k]))
      BY <3>1, AgedKept
    <3>3. y \in Seq(Ages) /\ \A i \in 1..Len(y) : y[i] < Window + 1
      BY <1>0, <3>2, YoungerKept
    <3> HIDE DEF y
    <3>4. \A i \in 1..Len(y) : y[i] \in 0..Window
      BY <1>0, <3>3 DEF Ages
    <3>5. Len(y) \in Nat /\ y \in [1..Len(y) -> 0..Window]
      BY <3>3, <3>4, LenProperties
    <3>6. y \in Seq(0..Window)
      BY <3>5, SeqDef
    <3> QED
      BY <3>2, <3>6 DEF y
  <2>6. stamps' \in [Keys -> Seq(0..(Window + 1))] /\ admitted' \in [Keys -> Seq(0..Window)]
    BY <1>10, <2>5 DEF Tick, Ages
  <2> QED
    BY <1>0, <1>1, <1>10, <2>1, <2>3, <2>4, <2>6 DEF Tick, qvars, LimitTypeOK
<1> QED
  BY <1>2, <1>4, <1>5, <1>6, <1>7, <1>8, <1>9, <1>10 DEF LimitNext
-----------------------------------------------------------------------------
(* The invariant *)

\* Nobody has asked for anything yet.
LEMMA LimitInitInv == LimitInit => LimitInv
<1> SUFFICES ASSUME LimitInit PROVE LimitInv
  OBVIOUS
<1>0. /\ Window \in Nat \ {0} /\ Burst \in Nat \ {0} /\ CleanupAge \in Nat /\ MaxConns \in Nat
      /\ Rate \in Nat
  BY LimitsAssumption
<1>1. LimitTypeOK
  <2>1. /\ Full \in [tokens : 0..Burst, age : 0..(CleanupAge + 1)]
        /\ <<>> \in Seq(0..Window) /\ <<>> \in Seq(0..(Window + 1)) /\ 0 \in 0..(Window - 1)
    BY <1>0 DEF Full
  <2> QED
    BY <1>0, <2>1 DEF LimitInit, LimitTypeOK, Labels
<1>2. HoldersKnown /\ BucketsOwned
  BY DEF LimitInit, HoldersKnown, BucketsOwned
<1>3. CreditKept
  <2>1. ASSUME NEW k \in Keys PROVE CreditOf(k)
    <3>1. Stale(k) = {} /\ Saved(k) = Burst /\ credit[k] = Burst
      BY DEF LimitInit, Stale, Saved
    <3>2. Running \in Nat /\ Cardinality(Stale(k)) \in 0..Running
      BY StaleSize
    <3> QED
      BY <1>0, <3>1, <3>2 DEF CreditOf, Least
  <2> QED
    BY <2>1 DEF CreditKept, CreditOf
<1>4. EmptyDrawn
  BY DEF LimitInit, EmptyDrawn
<1>5. WindowKept
  <2>1. Sorted(<<>>) /\ \A j \in Nat : AgeOf(<<>>, j) = Window
    BY DEF Sorted, AgeOf
  <2>2. \A k \in Keys : stamps[k] = <<>> /\ admitted[k] = <<>>
    BY DEF LimitInit
  <2> QED
    BY <2>1, <2>2, WindowIsNat DEF WindowKept, StampsExact, StampsCovered
<1>6. ConnsCounted
  <2>1. \A k : Served(k) = {} /\ Placed(k) = {}
    BY DEF LimitInit, Served, Placed
  <2>2. \A k \in Keys \cup {None} : conns[k] = 0
    BY DEF LimitInit
  <2>3. \A r \in Requests : pc[r] # "over"
    BY DEF LimitInit
  <2> QED
    BY <1>0, <2>1, <2>2, <2>3, FS_EmptySet DEF ConnsCounted
<1> QED
  BY <1>1, <1>2, <1>3, <1>4, <1>5, <1>6 DEF LimitInv

LEMMA LimitNextInv == LimitInv /\ [LimitNext]_limitVars => LimitInv'
<1> SUFFICES ASSUME LimitInv, [LimitNext]_limitVars PROVE LimitInv'
  OBVIOUS
<1>1. CASE LimitNext
  <2>1. HoldersKnown' /\ BucketsOwned' /\ ConnsCounted'
    BY <1>1, HoldersStep, OwnedStep, ConnsStep DEF LimitInv
  <2>2. LimitTypeOK'
    BY <1>1, <2>1, TypeStep DEF LimitInv
  <2>3. CreditKept' /\ EmptyDrawn' /\ WindowKept'
    BY <1>1, CreditStep, DrawnStep, WindowStep DEF LimitInv
  <2> QED
    BY <2>1, <2>2, <2>3 DEF LimitInv
<1>2. CASE UNCHANGED limitVars
  <2>1. /\ UNCHANGED <<alg, perKey, cleaning, phase, map, bucket, stamps, empty, conns>>
        /\ UNCHANGED <<pc, key, held, credit, admitted>>
    BY <1>2 DEF limitVars, rvars, wvars, qvars, hvars
  <2>2. LimitTypeOK' /\ HoldersKnown' /\ BucketsOwned'
    BY <2>1 DEF LimitInv, LimitTypeOK, HoldersKnown, BucketsOwned
  <2>3. CreditKept' /\ EmptyDrawn'
    BY <2>1 DEF LimitInv, CreditKept, EmptyDrawn, Stale, Saved
  <2>4. WindowKept'
    BY <2>1 DEF LimitInv, WindowKept, StampsExact, StampsCovered
  <2>5. ConnsCounted'
    <3>1. \A k : Served(k)' = Served(k) /\ Placed(k)' = Placed(k)
      BY <2>1 DEF Served, Placed, Counter
    <3> QED
      BY <2>1, <3>1 DEF LimitInv, ConnsCounted
  <2> QED
    BY <2>2, <2>3, <2>4, <2>5 DEF LimitInv
<1> QED
  BY <1>1, <1>2

-----------------------------------------------------------------------------
(* What the invariant is for *)

LEMMA RateFollows == LimitInv => RateRespected
<1> SUFFICES ASSUME LimitInv, alg = "token", NEW k \in Keys
             PROVE  credit[k] >= - Cardinality(Requests)
  BY DEF RateRespected
<1>1. credit[k] >= Least(Burst, Saved(k) - Running + Cardinality(Stale(k)))
  BY DEF LimitInv, CreditKept
<1>2. Saved(k) \in Nat /\ credit[k] \in Int /\ Burst \in Nat
  BY SavedType DEF LimitInv
<1>3. Running \in Nat /\ Cardinality(Stale(k)) \in 0..Running /\ Running = Cardinality(Requests)
  BY StaleSize DEF Running
<1> QED
  BY <1>1, <1>2, <1>3 DEF Least

LEMMA WindowFollows == LimitInv => WindowRespected
<1> SUFFICES ASSUME LimitInv, alg = "precise", NEW k \in Keys
             PROVE  Cardinality({i \in DOMAIN admitted[k] : admitted[k][i] < Window}) <= Limit
  BY DEF WindowRespected
<1>1. /\ admitted[k] \in Seq(Ages) /\ Sorted(admitted[k])
      /\ AgeOf(admitted[k], Limit) = Window /\ Limit \in Nat
  BY StampTypes, WindowIsNat DEF LimitInv, WindowKept, StampsExact
<1>2. Len(Younger(admitted[k], Window)) <= Limit /\ Len(Younger(admitted[k], Window)) \in Nat
  BY <1>1, AgeBound
<1>3. Cardinality({i \in DOMAIN admitted[k] : admitted[k][i] < Window})
        <= Len(Younger(admitted[k], Window))
  BY <1>1, YoungerCount
<1>4. Cardinality({i \in DOMAIN admitted[k] : admitted[k][i] < Window}) \in Nat
  <2>1. DOMAIN admitted[k] = 1..Len(admitted[k]) /\ Len(admitted[k]) \in Nat
    BY <1>1
  <2> QED
    BY <2>1, IntervalSize, FS_Subset, FS_CardinalityType
<1> QED
  BY <1>1, <1>2, <1>3, <1>4

LEMMA ShutOutFollows == LimitInv => NotShutOut
<1> SUFFICES ASSUME LimitInv, NEW k \in Keys, admitted[k] = <<>>
             PROVE  CASE alg = "token"   -> map[k] # None => Refilled(map[k]) >= 1
                      [] alg = "precise" -> Precise(k).ok
                      [] OTHER           -> Approximate(k).ok
  BY DEF NotShutOut
<1>0. /\ alg \in {"token", "precise", "approximate"} /\ stamps[k] \in Seq(Ages)
      /\ Sorted(stamps[k]) /\ Window \in Nat \ {0} /\ Limit \in Nat \ {0, 1}
      /\ phase \in 0..(Window - 1)
  BY StampTypes, WindowIsNat DEF LimitInv, WindowKept
<1>1. ASSUME alg = "token", map[k] # None PROVE Refilled(map[k]) >= 1
  <2> DEFINE x == bucket[map[k]].tokens
             a == bucket[map[k]].age
  <2>1. x \in Nat /\ a \in Nat /\ Refilled(map[k]) = Least(Burst, x + a * Rate)
    BY <1>1, SavedType DEF LimitInv, Refilled
  <2>2. ~(x = 0 /\ a = 0)
    BY <1>1 DEF LimitInv, EmptyDrawn
  <2> HIDE DEF x, a
  <2>3. a * Rate \in Nat /\ (a >= 1 => a * Rate >= 1)
    BY <2>1, Filled
  <2> DEFINE p == a * Rate
  <2>4. x + p >= 1
    <3>1. p \in Nat /\ (a >= 1 => p >= 1)
      BY <2>3
    <3> HIDE DEF p
    <3> QED
      BY <2>1, <2>2, <3>1
  <2> QED
    BY <2>1, <2>4, Filled
<1>2. ASSUME alg = "precise" PROVE Precise(k).ok
  <2>1. AgeOf(<<>>, 0) = Window
    BY DEF AgeOf
  <2>2. AgeOf(stamps[k], 0) = Window
    BY <1>2, <2>1 DEF LimitInv, WindowKept, StampsExact
  <2> DEFINE y == Younger(stamps[k], Window)
  <2>3. Len(y) <= 0 /\ Len(y) \in Nat
    BY <1>0, <2>2, AgeBound
  <2>4. Precise(k) = [ok |-> Len(y) < Limit, stamps |-> y]
    BY DEF Precise
  <2> HIDE DEF y
  <2>5. Len(y) < Limit
    BY <1>0, <2>3
  <2>6. Precise(k) = [ok |-> TRUE, stamps |-> y]
    <3>1. (Len(y) < Limit) = TRUE
      BY <2>5
    <3> DEFINE fits == Len(y) < Limit
    <3>2. fits = TRUE /\ Precise(k) = [ok |-> fits, stamps |-> y]
      BY <2>4, <3>1
    <3> HIDE DEF fits
    <3> QED
      BY <3>2
  <2> QED
    BY <2>6
<1>3. ASSUME alg = "approximate" PROVE Approximate(k).ok
  <2> DEFINE old == IF empty[k] \/ stamps[k] = <<>> THEN <<0>>
                    ELSE IF stamps[k][1] > Window THEN <<>> ELSE stamps[k]
  <2>1. stamps[k] # <<>> => stamps[k][1] > Window
    <3>1. SUFFICES ASSUME stamps[k] # <<>> PROVE stamps[k][1] > Window
      OBVIOUS
    <3>2. ~(stamps[k][1] <= Window)
      BY <1>3, <3>1 DEF LimitInv, WindowKept, StampsCovered
    <3>3. stamps[k][1] \in Nat
      BY <1>0, <3>1 DEF Ages
    <3> QED
      BY <1>0, <3>2, <3>3
  <2>2. Len(old) \in {0, 1}
    BY <2>1
  <2>3. Approximate(k).ok = ((Len(old) * (Window - phase)) \div Window < Limit)
    BY DEF Approximate
  <2> HIDE DEF old
  <2> QED
    BY <1>0, <2>2, <2>3, ShareOfOne
<1> QED
  BY <1>0, <1>1, <1>2, <1>3

LEMMA ConnsFollow == LimitInv => ConnsExact
<1> SUFFICES ASSUME LimitInv, NEW k \in Keys \cup {None}
             PROVE  LET Mine == {r \in Requests : perKey = (k # None) /\ (perKey => key[r] = k)}
                        In(labels) == Cardinality({r \in Mine : pc[r] \in labels})
                    IN conns[k] = In({"in", "over"}) /\ In({"in"}) <= MaxConns
  BY DEF ConnsExact, LimitInv
<1> DEFINE Mine == {r \in Requests : perKey = (k # None) /\ (perKey => key[r] = k)}
<1>1. perKey \in BOOLEAN /\ \A r \in Requests : pc[r] \in {"in", "over"} => key[r] # None
  BY LimitsAssumption DEF LimitInv, LimitTypeOK, HoldersKnown
<1>2. ASSUME NEW r \in Requests, pc[r] \in {"in", "over"}
      PROVE  r \in Mine <=> Counter(r) = k
  BY <1>1, <1>2 DEF Counter
<1>3. /\ {r \in Mine : pc[r] \in {"in", "over"}} = Placed(k)
      /\ {r \in Mine : pc[r] \in {"in"}} = Served(k)
  BY <1>2 DEF Placed, Served
<1> QED
  BY <1>3 DEF LimitInv, ConnsCounted

THEOREM LimitInvariant == LimitSpec => []LimitInv
<1> QED
  BY LimitInitInv, LimitNextInv, PTL DEF LimitSpec

\* internal/middleware/security: whatever the interleaving of requests, resets
\* and clean-ups, no key gets more than its rate and burst (or, in precise mode,
\* Limit requests in any window), none that has been quiet is refused, and the
\* connection counters are exact and never let more than MaxConns in.
THEOREM LimitersRespected == LimitSpec => []LimitsRespected
<1>1. LimitInv => LimitsRespected
  BY RateFollows, WindowFollows, ShutOutFollows, ConnsFollow DEF LimitsRespected
<1> QED
  BY <1>1, LimitInvariant, PTL
=============================================================================
