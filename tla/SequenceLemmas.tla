---------------------------- MODULE SequenceLemmas ----------------------------
(***************************************************************************)
(* Sequences in which nothing stands twice: the waiters of a lock, the     *)
(* keys of an OrderedDict, the tasks of a semaphore.  What taking one out, *)
(* or putting one behind the others, makes of them.                        *)
(***************************************************************************)
EXTENDS Integers, SequencesExt, SequenceTheorems, FiniteSetTheorems, TLAPS

OnceEach(q) == \A i, j \in DOMAIN q : q[i] = q[j] => i = j
Has(q, x) == \E i \in DOMAIN q : q[i] = x

\* A sequence without its k-th element.
LEMMA RemoveAtIs ==
    ASSUME NEW S, NEW q \in Seq(S), NEW k \in 1..Len(q)
    PROVE  /\ RemoveAt(q, k) \in Seq(S)
           /\ Len(RemoveAt(q, k)) = Len(q) - 1
           /\ \A j \in 1..(Len(q) - 1) : RemoveAt(q, k)[j] = IF j < k THEN q[j] ELSE q[j + 1]
<1> DEFINE front == SubSeq(q, 1, k - 1)
           back == SubSeq(q, k + 1, Len(q))
<1>1. Len(q) \in Nat /\ (\A i \in 1..Len(q) : q[i] \in S) /\ k \in Int
  OBVIOUS
<1>2. /\ front \in Seq(S) /\ Len(front) = k - 1
      /\ \A i \in 1..(k - 1) : front[i] = q[i]
  <2>1. \A i \in 1..(k - 1) : q[i] \in S
    BY <1>1
  <2>2. /\ front \in Seq(S)
        /\ Len(front) = IF 1 <= k - 1 THEN (k - 1) - 1 + 1 ELSE 0
        /\ \A i \in 1..((k - 1) - 1 + 1) : front[i] = q[1 + i - 1]
    BY <1>1, <2>1, SubSeqProperties
  <2> HIDE DEF front
  <2>3. Len(front) = k - 1
    BY <1>1, <2>2
  <2>4. ASSUME NEW i \in 1..(k - 1) PROVE front[i] = q[i]
    <3>1. i \in 1..((k - 1) - 1 + 1) /\ 1 + i - 1 = i
      BY <1>1
    <3> QED BY <2>2, <3>1
  <2> QED BY <2>2, <2>3, <2>4
<1>3. /\ back \in Seq(S) /\ Len(back) = Len(q) - k
      /\ \A i \in 1..(Len(q) - k) : back[i] = q[k + i]
  <2>1. \A i \in (k + 1)..Len(q) : q[i] \in S
    BY <1>1
  <2>2. /\ back \in Seq(S)
        /\ Len(back) = IF k + 1 <= Len(q) THEN Len(q) - (k + 1) + 1 ELSE 0
        /\ \A i \in 1..(Len(q) - (k + 1) + 1) : back[i] = q[(k + 1) + i - 1]
    BY <1>1, <2>1, SubSeqProperties
  <2> HIDE DEF back
  <2> QED BY <1>1, <2>2
<1>4. RemoveAt(q, k) = front \o back
  BY DEF RemoveAt
<1> HIDE DEF front, back
<1>5. /\ front \o back \in Seq(S) /\ Len(front \o back) = Len(front) + Len(back)
      /\ \A i \in 1..(Len(front) + Len(back)) : (front \o back)[i] =
            IF i <= Len(front) THEN front[i] ELSE back[i - Len(front)]
  BY <1>2, <1>3, ConcatProperties
<1>6. \A j \in 1..(Len(q) - 1) : (front \o back)[j] = IF j < k THEN q[j] ELSE q[j + 1]
  <2> SUFFICES ASSUME NEW j \in 1..(Len(q) - 1)
               PROVE  (front \o back)[j] = IF j < k THEN q[j] ELSE q[j + 1]
    OBVIOUS
  <2>1. CASE j < k
    BY <1>1, <1>2, <1>3, <1>5, <2>1
  <2>2. CASE ~(j < k)
    <3>1. j - (k - 1) \in 1..(Len(q) - k) /\ k + (j - (k - 1)) = j + 1
      BY <1>1, <2>2
    <3>2. back[j - (k - 1)] = q[j + 1]
      BY <1>3, <3>1
    <3> QED BY <1>1, <1>2, <1>3, <1>5, <2>2, <3>2
  <2> QED BY <2>1, <2>2
<1> QED BY <1>1, <1>2, <1>3, <1>4, <1>5, <1>6

\* What has left a sequence of different things is gone, the others are not.
LEMMA TakenOut ==
    ASSUME NEW S, NEW q \in Seq(S), OnceEach(q), NEW k \in DOMAIN q
    PROVE  /\ RemoveAt(q, k) \in Seq(S) /\ OnceEach(RemoveAt(q, k))
           /\ Len(RemoveAt(q, k)) = Len(q) - 1
           /\ \A x : Has(RemoveAt(q, k), x) <=> x # q[k] /\ Has(q, x)
<1> DEFINE r == RemoveAt(q, k)
           m(n) == IF n < k THEN n ELSE n + 1
<1>1. k \in 1..Len(q) /\ Len(q) \in Nat /\ DOMAIN q = 1..Len(q)
  OBVIOUS
<1>2. /\ r \in Seq(S) /\ Len(r) = Len(q) - 1
      /\ \A j \in 1..(Len(q) - 1) : r[j] = IF j < k THEN q[j] ELSE q[j + 1]
  BY <1>1, RemoveAtIs
<1> HIDE DEF r
<1>3. DOMAIN r = 1..(Len(q) - 1)
  BY <1>2
<1>4. \A j \in DOMAIN r : m(j) \in DOMAIN q /\ m(j) # k /\ r[j] = q[m(j)]
  BY <1>1, <1>2, <1>3
<1>5. OnceEach(r)
  <2> SUFFICES ASSUME NEW i \in DOMAIN r, NEW j \in DOMAIN r, r[i] = r[j] PROVE i = j
    BY DEF OnceEach
  <2>1. m(i) = m(j)
    BY <1>4 DEF OnceEach
  <2> QED BY <1>1, <1>3, <2>1
<1>6. ASSUME NEW x, Has(r, x) PROVE x # q[k] /\ Has(q, x)
  BY <1>4, <1>6 DEF OnceEach, Has
<1>7. ASSUME NEW x, x # q[k], Has(q, x) PROVE Has(r, x)
  <2>1. PICK i \in DOMAIN q : q[i] = x
    BY <1>7 DEF Has
  <2> DEFINE j == IF i < k THEN i ELSE i - 1
  <2>2. j \in DOMAIN r /\ m(j) = i
    BY <1>1, <1>3, <1>7, <2>1
  <2> QED BY <1>4, <2>1, <2>2 DEF Has
<1> QED BY <1>2, <1>5, <1>6, <1>7 DEF r

\* RemoveFirst finds the one place where it stands; without one it does nothing.
LEMMA FirstIs ==
    ASSUME NEW S, NEW q \in Seq(S), OnceEach(q), NEW x
    PROVE  /\ \A k \in DOMAIN q : q[k] = x => RemoveFirst(q, x) = RemoveAt(q, k)
           /\ ~Has(q, x) => RemoveFirst(q, x) = q
<1>0. DOMAIN q = 1..Len(q) /\ Len(q) \in Nat
  OBVIOUS
<1>1. ASSUME NEW k \in DOMAIN q, q[k] = x PROVE RemoveFirst(q, x) = RemoveAt(q, k)
  <2> DEFINE I == {i \in 1..Len(q) : q[i] = x}
  <2>1. RemoveFirst(q, x) = RemoveAt(q, SelectInSeq(q, LAMBDA v : v = x))
    BY <1>0, <1>1, Zenon DEF RemoveFirst
  <2>2. SelectInSeq(q, LAMBDA v : v = x) = IF I # {} THEN Min(I) ELSE 0
    BY Zenon DEF SelectInSeq
  <2>3. I = {k}
    BY <1>0, <1>1 DEF OnceEach
  <2>4. k \in Int
    BY <1>0
  <2>5. Min({k}) = k
    BY <2>4 DEF Min
  <2> QED BY <2>1, <2>2, <2>3, <2>5
<1>2. ASSUME ~Has(q, x) PROVE RemoveFirst(q, x) = q
  BY <1>0, <1>2, Zenon DEF RemoveFirst, Has
<1> QED BY <1>1, <1>2

\* Who leaves a sequence of different things is gone, the others are not.
LEMMA LeavesIt ==
    ASSUME NEW S, NEW q \in Seq(S), OnceEach(q), NEW x
    PROVE  LET r == RemoveFirst(q, x) IN
           /\ r \in Seq(S) /\ OnceEach(r)
           /\ Has(q, x) => Len(r) = Len(q) - 1
           /\ \A y : Has(r, y) <=> y # x /\ Has(q, y)
<1>1. CASE Has(q, x)
  <2>1. PICK k \in DOMAIN q : q[k] = x
    BY <1>1 DEF Has
  <2>2. RemoveFirst(q, x) = RemoveAt(q, k)
    BY <2>1, FirstIs
  <2> QED BY <2>1, <2>2, TakenOut
<1>2. CASE ~Has(q, x)
  <2>1. RemoveFirst(q, x) = q
    BY <1>2, FirstIs
  <2> QED BY <1>2, <2>1
<1> QED BY <1>1, <1>2

\* What is put behind the others is there, and the others still are.
LEMMA PutBehind ==
    ASSUME NEW S, NEW q \in Seq(S), OnceEach(q), NEW x \in S, ~Has(q, x)
    PROVE  /\ Append(q, x) \in Seq(S) /\ OnceEach(Append(q, x))
           /\ Len(Append(q, x)) = Len(q) + 1
           /\ \A y : Has(Append(q, x), y) <=> y = x \/ Has(q, y)
<1> DEFINE r == Append(q, x)
<1>1. /\ r \in Seq(S) /\ Len(r) = Len(q) + 1 /\ Len(q) \in Nat
      /\ DOMAIN q = 1..Len(q) /\ DOMAIN r = 1..(Len(q) + 1)
      /\ r[Len(q) + 1] = x /\ \A j \in 1..Len(q) : r[j] = q[j]
  OBVIOUS
<1> HIDE DEF r
<1>2. \A j \in DOMAIN q : q[j] # x
  BY DEF Has
<1>3. OnceEach(r)
  <2> SUFFICES ASSUME NEW i \in DOMAIN r, NEW j \in DOMAIN r, r[i] = r[j] PROVE i = j
    BY DEF OnceEach
  <2>1. CASE i \in DOMAIN q /\ j \in DOMAIN q
    BY <1>1, <2>1 DEF OnceEach
  <2>2. CASE i \notin DOMAIN q \/ j \notin DOMAIN q
    BY <1>1, <1>2, <2>2
  <2> QED BY <2>1, <2>2
<1>4. \A y : Has(r, y) <=> y = x \/ Has(q, y)
  <2>1. ASSUME NEW y, Has(r, y) PROVE y = x \/ Has(q, y)
    BY <1>1, <2>1 DEF Has
  <2>2. Has(r, x)
    BY <1>1 DEF Has
  <2>3. ASSUME NEW y, Has(q, y) PROVE Has(r, y)
    BY <1>1, <2>3 DEF Has
  <2> QED BY <2>1, <2>2, <2>3
<1> QED BY <1>1, <1>3, <1>4 DEF r

\* What is left when the first ones leave.
LEMMA CutOff ==
    ASSUME NEW S, NEW q \in Seq(S), OnceEach(q), NEW k \in 1..(Len(q) + 1)
    PROVE  LET r == SubSeq(q, k, Len(q)) IN
           /\ r \in Seq(S) /\ OnceEach(r) /\ Len(r) = Len(q) - k + 1
           /\ \A i \in DOMAIN r : (k - 1) + i \in DOMAIN q /\ r[i] = q[(k - 1) + i]
           /\ \A x : Has(r, x) => Has(q, x)
<1> DEFINE r == SubSeq(q, k, Len(q))
<1>1. /\ Len(q) \in Nat /\ DOMAIN q = 1..Len(q) /\ k \in Int /\ Len(q) \in Int
      /\ \A i \in k..Len(q) : q[i] \in S
  OBVIOUS
<1>2. /\ r \in Seq(S)
      /\ Len(r) = IF k <= Len(q) THEN Len(q) - k + 1 ELSE 0
      /\ \A i \in 1..(Len(q) - k + 1) : r[i] = q[k + i - 1]
  BY <1>1, SubSeqProperties
<1> HIDE DEF r
<1>3. Len(r) = Len(q) - k + 1 /\ DOMAIN r = 1..(Len(q) - k + 1)
  BY <1>1, <1>2
<1>4. ASSUME NEW i \in DOMAIN r PROVE (k - 1) + i \in DOMAIN q /\ r[i] = q[(k - 1) + i]
  <2>1. k + i - 1 = (k - 1) + i /\ (k - 1) + i \in 1..Len(q)
    BY <1>1, <1>3
  <2> QED BY <1>1, <1>2, <1>3, <2>1
<1>5. OnceEach(r)
  <2> SUFFICES ASSUME NEW i \in DOMAIN r, NEW j \in DOMAIN r, r[i] = r[j] PROVE i = j
    BY DEF OnceEach
  <2>1. (k - 1) + i = (k - 1) + j
    BY <1>4 DEF OnceEach
  <2> QED BY <1>1, <1>3, <2>1
<1>6. \A x : Has(r, x) => Has(q, x)
  BY <1>4 DEF Has
<1> QED BY <1>2, <1>3, <1>4, <1>5, <1>6 DEF r

\* The first in line leaves it.
LEMMA HeadLeaves ==
    ASSUME NEW S, NEW q \in Seq(S), OnceEach(q), q # << >>
    PROVE  /\ Head(q) \in S /\ Has(q, Head(q))
           /\ Tail(q) \in Seq(S) /\ OnceEach(Tail(q)) /\ Len(Tail(q)) = Len(q) - 1
           /\ \A x : Has(Tail(q), x) <=> x # Head(q) /\ Has(q, x)
<1> DEFINE r == Tail(q)
<1>1. /\ Len(q) \in Nat /\ 1 \in DOMAIN q /\ DOMAIN q = 1..Len(q) /\ Head(q) = q[1]
      /\ r \in Seq(S) /\ Len(r) = Len(q) - 1 /\ DOMAIN r = 1..(Len(q) - 1)
      /\ \A i \in 1..(Len(q) - 1) : r[i] = q[i + 1]
  OBVIOUS
<1> HIDE DEF r
<1>2. OnceEach(r)
  <2> SUFFICES ASSUME NEW i \in DOMAIN r, NEW j \in DOMAIN r, r[i] = r[j] PROVE i = j
    BY DEF OnceEach
  <2>1. i + 1 = j + 1
    BY <1>1 DEF OnceEach
  <2> QED BY <1>1, <2>1
<1>3. ASSUME NEW x, Has(r, x) PROVE x # q[1] /\ Has(q, x)
  <2>1. PICK i \in DOMAIN r : r[i] = x
    BY <1>3 DEF Has
  <2>2. i + 1 \in DOMAIN q /\ q[i + 1] = x /\ i + 1 # 1
    BY <1>1, <2>1
  <2> QED BY <1>1, <2>2 DEF OnceEach, Has
<1>4. ASSUME NEW x, x # q[1], Has(q, x) PROVE Has(r, x)
  <2>1. PICK i \in DOMAIN q : q[i] = x
    BY <1>4 DEF Has
  <2>2. i - 1 \in DOMAIN r /\ r[i - 1] = q[i]
    BY <1>1, <1>4, <2>1
  <2> QED BY <2>1, <2>2 DEF Has
<1>5. Head(q) \in S /\ Has(q, Head(q))
  BY <1>1 DEF Has
<1> QED BY <1>1, <1>2, <1>3, <1>4, <1>5 DEF r

\* A sequence of different things is as long as there are things in it.
LEMMA AsManyAsLong ==
    ASSUME NEW S, NEW q \in Seq(S), OnceEach(q)
    PROVE  Cardinality({q[i] : i \in DOMAIN q}) = Len(q)
<1> DEFINE T == {q[i] : i \in DOMAIN q}
<1>1. Len(q) \in Nat /\ DOMAIN q = 1..Len(q)
  OBVIOUS
<1>2. IsFiniteSet(1..Len(q)) /\ Cardinality(1..Len(q)) = Len(q)
  BY <1>1, FS_Interval
<1>3. q \in Bijection(1..Len(q), T)
  <2>1. q \in [1..Len(q) -> T] /\ \A t \in T : \E i \in 1..Len(q) : q[i] = t
    BY <1>1
  <2>2. \A i, j \in 1..Len(q) : q[i] = q[j] => i = j
    BY <1>1 DEF OnceEach
  <2> HIDE DEF T
  <2> QED BY <2>1, <2>2 DEF Bijection, Injection, Surjection, IsInjective
<1> HIDE DEF T
<1>4. ExistsBijection(1..Len(q), T)
  BY <1>3 DEF ExistsBijection
<1>5. Cardinality(T) = Len(q)
  BY <1>2, <1>4, FS_Bijection
<1> QED BY <1>5 DEF T
===============================================================================
