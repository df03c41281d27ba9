----------------------------- MODULE QueueFacts -----------------------------
(***************************************************************************)
(* Facts about the queues and files of EventLog and JsonlStore, sequences  *)
(* that grow at their end and lose an entry anywhere; about the first and  *)
(* the last of a set of places in one; and about subsequences and          *)
(* prefixes.                                                               *)
(***************************************************************************)
EXTENDS Naturals, SequencesExt, Subsequences, SequenceTheorems, FiniteSetTheorems,
        WellFoundedInduction, TLAPS

\* What is left of a queue when the entry at position i leaves it.
LEMMA QueueRemoveAt ==
  ASSUME NEW S, NEW q \in Seq(S), NEW i \in 1 .. Len(q)
  PROVE  /\ RemoveAt(q, i) \in Seq(S)
         /\ Len(RemoveAt(q, i)) = Len(q) - 1
         /\ \A k \in 1 .. Len(q) - 1 :
              RemoveAt(q, i)[k] = IF k < i THEN q[k] ELSE q[k + 1]
<1> DEFINE a == SubSeq(q, 1, i - 1)
           b == SubSeq(q, i + 1, Len(q))
<1>1. /\ a \in Seq(S)
      /\ Len(a) = i - 1
      /\ \A k \in 1 .. i - 1 : a[k] = q[k]
  OBVIOUS
<1>2. /\ b \in Seq(S)
      /\ Len(b) = Len(q) - i
      /\ \A k \in 1 .. Len(q) - i : b[k] = q[k + i]
  OBVIOUS
<1>3. /\ a \o b \in Seq(S)
      /\ Len(a \o b) = Len(a) + Len(b)
      /\ \A k \in 1 .. Len(a) + Len(b) :
           (a \o b)[k] = IF k <= Len(a) THEN a[k] ELSE b[k - Len(a)]
  BY <1>1, <1>2, ConcatProperties
<1> QED
  <2> HIDE DEF a, b
  <2>1. Len(a \o b) = Len(q) - 1
    BY <1>1, <1>2, <1>3
  <2>2. ASSUME NEW k \in 1 .. Len(q) - 1
        PROVE  (a \o b)[k] = IF k < i THEN q[k] ELSE q[k + 1]
    <3>1. CASE k < i
      BY <3>1, <1>1, <1>2, <1>3
    <3>2. CASE ~(k < i)
      <4>1. /\ k - Len(a) \in 1 .. Len(q) - i
            /\ k - Len(a) + i = k + 1
            /\ k \in 1 .. Len(a) + Len(b)
            /\ ~(k <= Len(a))
        BY <3>2, <1>1, <1>2
      <4>2. (a \o b)[k] = b[k - Len(a)]
        BY <4>1, <1>3
      <4>3. b[k - Len(a)] = q[k - Len(a) + i]
        BY <4>1, <1>2
      <4> QED
        BY <3>2, <4>1, <4>2, <4>3
    <3> QED
      BY <3>1, <3>2
  <2> QED
    BY <1>3, <2>1, <2>2 DEF a, b, RemoveAt

\* What is appended to a queue or a file comes last.
LEMMA QueueAppend ==
  ASSUME NEW S, NEW q \in Seq(S), NEW e \in S
  PROVE  /\ Append(q, e) \in Seq(S)
         /\ Len(Append(q, e)) = Len(q) + 1
         /\ DOMAIN Append(q, e) = 1 .. Len(q) + 1
         /\ \A k \in 1 .. Len(q) : Append(q, e)[k] = q[k]
         /\ Append(q, e)[Len(q) + 1] = e
OBVIOUS

\* The entry that stands at position k when the one at i has left.
From(i, k) == IF k < i THEN k ELSE k + 1

\* Leaving keeps the others, in their order.
LEMMA RemoveAtFrom ==
  ASSUME NEW S, NEW q \in Seq(S), NEW i \in DOMAIN q
  PROVE  /\ RemoveAt(q, i) \in Seq(S)
         /\ \A k \in DOMAIN RemoveAt(q, i) :
              /\ From(i, k) \in DOMAIN q
              /\ From(i, k) # i
              /\ k > 1 => From(i, k) > 1
              /\ RemoveAt(q, i)[k] = q[From(i, k)]
         /\ \A j, k \in DOMAIN RemoveAt(q, i) :
              /\ From(i, j) = From(i, k) => j = k
              /\ j < k => From(i, j) < From(i, k)
<1>1. i \in 1 .. Len(q)
  OBVIOUS
<1>2. /\ RemoveAt(q, i) \in Seq(S)
      /\ Len(RemoveAt(q, i)) = Len(q) - 1
      /\ \A k \in 1 .. Len(q) - 1 :
           RemoveAt(q, i)[k] = IF k < i THEN q[k] ELSE q[k + 1]
  BY <1>1, QueueRemoveAt
<1>3. DOMAIN RemoveAt(q, i) = 1 .. Len(q) - 1
  BY <1>2
<1> QED
  BY <1>1, <1>2, <1>3 DEF From

\* Of a set of numbers there is a first one, and of a finite range a last one.
LEMMA FirstOf ==
  ASSUME NEW T \in SUBSET Nat, T # {}
  PROVE  \E x \in T : \A y \in T : x <= y
<1> DEFINE R == OpToRel(<, Nat)
<1>1. \E x \in T : \A y \in T : <<y, x>> \notin R
  <2> HIDE DEF R
  <2>1. IsWellFoundedOn(R, Nat)
    BY NatLessThanWellFounded DEF R
  <2>2. QED  BY <2>1, WFMin
<1>2. \A x, y \in T : <<y, x>> \notin R => x <= y
  BY DEF OpToRel
<1>3. QED  BY <1>1, <1>2

\* The other way round.
LEMMA LastOf ==
  ASSUME NEW n \in Nat, NEW T \in SUBSET (1 .. n), T # {}
  PROVE  \E x \in T : \A y \in T : x >= y
<1> DEFINE U == {k \in Nat : n - k \in T}
<1>1. \A x \in T : n - x \in U
  OBVIOUS
<1>2. PICK u \in U : \A v \in U : u <= v
  BY <1>1, FirstOf
<1>3. n - u \in T /\ \A y \in T : n - u >= y
  BY <1>1, <1>2
<1>4. QED  BY <1>3

\* A number that is at least as large as all others is the maximum, and so for the minimum.
LEMMA MaxMin ==
  ASSUME NEW n \in Nat, NEW T \in SUBSET (1 .. n), T # {}
  PROVE  /\ Max(T) \in T /\ \A y \in T : Max(T) >= y
         /\ Min(T) \in T /\ \A y \in T : Min(T) <= y
<1>1. \E x \in T : \A y \in T : x >= y
  BY LastOf
<1>2. \E x \in T : \A y \in T : x <= y
  BY FirstOf
<1>3. Max(T) \in T /\ \A y \in T : Max(T) >= y
  BY <1>1 DEF Max
<1>4. Min(T) \in T /\ \A y \in T : Min(T) <= y
  BY <1>2 DEF Min
<1> QED
  BY <1>3, <1>4

\* How many of the places in K are not behind i.
UpTo(K, i) == Cardinality({j \in K : j <= i})

\* Places are finite in number.
LEMMA PlacesAreFinite ==
  ASSUME NEW n \in Nat, NEW K \in SUBSET (1 .. n)
  PROVE  IsFiniteSet(K) /\ Cardinality(K) \in Nat
<1>1. IsFiniteSet(1 .. n)
  BY FS_Interval
<1>2. IsFiniteSet(K)
  BY <1>1, FS_Subset
<1> QED
  BY <1>2, FS_CardinalityType

\* They can be counted.
LEMMA UpToFacts ==
  ASSUME NEW n \in Nat, NEW K \in SUBSET (1 .. n)
  PROVE  /\ Cardinality(K) \in Nat
         /\ \A i : UpTo(K, i) \in Nat
         /\ \A i \in K : UpTo(K, i) >= 1 /\ UpTo(K, i) <= Cardinality(K)
         /\ \A i, m \in K : i < m => UpTo(K, i) < UpTo(K, m)
<1> \A j \in K : j \in Int
  OBVIOUS
<1>1. IsFiniteSet(K) /\ Cardinality(K) \in Nat
  BY PlacesAreFinite
<1>2. \A i : /\ IsFiniteSet({j \in K : j <= i}) /\ UpTo(K, i) \in Nat
             /\ UpTo(K, i) <= Cardinality(K)
  <2> SUFFICES ASSUME NEW i
               PROVE  /\ IsFiniteSet({j \in K : j <= i}) /\ UpTo(K, i) \in Nat
                      /\ UpTo(K, i) <= Cardinality(K)
    OBVIOUS
  <2>1. {j \in K : j <= i} \in SUBSET K
    OBVIOUS
  <2>2. IsFiniteSet({j \in K : j <= i})
    BY <1>1, <2>1, FS_Subset
  <2> QED
    BY <1>1, <2>1, <2>2, FS_Subset, FS_CardinalityType DEF UpTo
<1>3. ASSUME NEW i \in K
      PROVE  UpTo(K, i) >= 1
  <2>1. i \in {j \in K : j <= i}
    OBVIOUS
  <2>2. UpTo(K, i) # 0
    BY <1>2, <2>1, FS_EmptySet DEF UpTo
  <2>3. UpTo(K, i) \in Nat
    BY <1>2
  <2> QED
    BY <2>2, <2>3
<1>4. ASSUME NEW i \in K, NEW m \in K, i < m
      PROVE  UpTo(K, i) < UpTo(K, m)
  <2> DEFINE A == {j \in K : j <= i}
             B == {j \in K : j <= m}
  <2>1. m \in B /\ m \notin A
    BY <1>4
  <2>5. \A j \in K : j <= i => j <= m
    BY <1>4
  <2>6. A \in SUBSET B
    BY <2>5
  <2>2. IsFiniteSet(B) /\ Cardinality(A) \in Nat /\ Cardinality(B) \in Nat
    BY <1>2 DEF UpTo
  <2> HIDE DEF A, B
  <2>3. Cardinality(A) <= Cardinality(B) /\ Cardinality(A) # Cardinality(B)
    BY <2>1, <2>2, <2>6, FS_Subset
  <2>4. Cardinality(A) < Cardinality(B)
    BY <2>2, <2>3
  <2> QED
    BY <2>4 DEF A, B, UpTo
<1> QED
  BY <1>1, <1>2, <1>3, <1>4

\* The k-th place is the one with k places up to it.
LEMMA PlaceOf ==
  ASSUME NEW n \in Nat, NEW K \in SUBSET (1 .. n), NEW i \in K
  PROVE  Place(K, UpTo(K, i)) = i
<1>1. \A m \in K : UpTo(K, m) = UpTo(K, i) => m = i
  <2> SUFFICES ASSUME NEW m \in K, UpTo(K, m) = UpTo(K, i), m # i
               PROVE  FALSE
    OBVIOUS
  <2>1. m < i \/ i < m
    <3>1. m \in Int /\ i \in Int
      OBVIOUS
    <3> QED
      BY <3>1
  <2>4. \A x, y \in K : x < y => UpTo(K, x) < UpTo(K, y)
    BY UpToFacts
  <2>2. UpTo(K, m) < UpTo(K, i) \/ UpTo(K, i) < UpTo(K, m)
    BY <2>1, <2>4
  <2>3. UpTo(K, m) \in Nat
    BY UpToFacts
  <2> QED
    BY <2>2, <2>3
<1>2. Place(K, UpTo(K, i)) = CHOOSE m \in K : UpTo(K, m) = UpTo(K, i)
  BY DEF Place, UpTo
<1> QED
  BY <1>1, <1>2

\* The places of K are counted in their order, each of them once.
LEMMA PlaceFacts ==
  ASSUME NEW n \in Nat, NEW K \in SUBSET (1 .. n)
  PROVE  /\ Cardinality(K) \in Nat
         /\ \A k \in 1 .. Cardinality(K) : Place(K, k) \in K /\ UpTo(K, Place(K, k)) = k
         /\ \A k, l \in 1 .. Cardinality(K) : k < l => Place(K, k) < Place(K, l)
         /\ \A i \in K : \E k \in 1 .. Cardinality(K) : Place(K, k) = i
<1> \A j \in K : j \in 1 .. n /\ j \in Int
  OBVIOUS
<1>1. ASSUME NEW k \in 1 .. Cardinality(K)
      PROVE  \E i \in K : UpTo(K, i) = k
  <2> DEFINE T == {i \in K : UpTo(K, i) >= k}
  <2>1. Cardinality(K) \in Nat /\ \A i : UpTo(K, i) \in Nat
    BY UpToFacts
  <2>2. K # {}
    BY <2>1, FS_EmptySet
  <2>3. T # {}
    <3>1. PICK i \in K : \A j \in K : i >= j
      BY <2>2, LastOf
    <3>2. {j \in K : j <= i} = K
      BY <3>1
    <3> QED
      BY <2>1, <3>2 DEF UpTo
  <2> HIDE DEF T
  <2>10. T \in SUBSET K /\ T \in SUBSET Nat
    <3>1. T \in SUBSET K
      BY DEF T
    <3>2. \A j \in K : j \in Nat
      OBVIOUS
    <3> QED
      BY <3>1, <3>2
  <2>4. PICK i \in T : \A j \in T : i <= j
    BY <2>3, <2>10, FirstOf
  <2>11. i \in K /\ UpTo(K, i) >= k
    BY <2>4, <2>10 DEF T
  <2> DEFINE B == {j \in K : j < i}
  <2>12. \A j \in K : j <= i <=> j < i \/ j = i
    BY <2>11
  <2>13. i \notin B /\ B \in SUBSET (1 .. n)
    <3>1. B \in SUBSET K
      OBVIOUS
    <3>2. ~(i < i)
      BY <2>11
    <3> QED
      BY <3>1, <3>2
  <2>14. {j \in K : j <= i} = B \cup {i}
    BY <2>11, <2>12
  <2>5. {j \in K : j <= i} = B \cup {i} /\ i \notin B /\ B \in SUBSET (1 .. n)
    BY <2>13, <2>14
  <2>6. IsFiniteSet(B) /\ Cardinality(B) \in Nat
    BY <2>5, PlacesAreFinite
  <2>7. UpTo(K, i) = Cardinality(B) + 1
    <3> HIDE DEF B
    <3> QED
      BY <2>5, <2>6, FS_AddElement DEF UpTo
  <2>8. Cardinality(B) < k
    <3>1. CASE B = {}
      BY <3>1, FS_EmptySet
    <3>2. CASE B # {}
      <4>1. PICK y \in B : \A z \in B : y >= z
        BY <2>5, <3>2, LastOf
      <4>2. y \in K /\ y < i
        BY <4>1
      <4>3. \A j \in K : j <= y => j < i
        BY <2>11, <4>2
      <4>4. \A j \in K : j < i => j <= y
        BY <4>1
      <4>5. {j \in K : j <= y} = B
        BY <4>3, <4>4
      <4>6. ~(UpTo(K, y) >= k)
        BY <2>4, <2>11, <4>2 DEF T
      <4> QED
        BY <2>1, <2>6, <4>5, <4>6 DEF UpTo
    <3> QED
      BY <3>1, <3>2
  <2>9. UpTo(K, i) = k
    BY <2>1, <2>11, <2>6, <2>7, <2>8
  <2> QED
    BY <2>9, <2>11
<1>2. \A k \in 1 .. Cardinality(K) : Place(K, k) \in K /\ UpTo(K, Place(K, k)) = k
  <2> SUFFICES ASSUME NEW k \in 1 .. Cardinality(K)
               PROVE  Place(K, k) \in K /\ UpTo(K, Place(K, k)) = k
    OBVIOUS
  <2>1. PICK i \in K : UpTo(K, i) = k
    BY <1>1
  <2> QED
    BY <2>1, PlaceOf
<1>3. ASSUME NEW k \in 1 .. Cardinality(K), NEW l \in 1 .. Cardinality(K), k < l
      PROVE  Place(K, k) < Place(K, l)
  <2>1. Place(K, k) \in 1 .. n /\ Place(K, l) \in 1 .. n
    BY <1>2
  <2>2. Place(K, l) # Place(K, k)
    BY <1>2, <1>3, UpToFacts
  <2>3. ~(Place(K, l) < Place(K, k))
    <3> SUFFICES ASSUME Place(K, l) < Place(K, k)
                 PROVE  FALSE
      OBVIOUS
    <3>1. UpTo(K, Place(K, l)) < UpTo(K, Place(K, k))
      BY <1>2, UpToFacts
    <3> QED
      BY <1>2, <1>3, <3>1, UpToFacts
  <2> QED
    BY <2>1, <2>2, <2>3
<1>5. Cardinality(K) \in Nat /\ \A i \in K : UpTo(K, i) \in Nat
  BY UpToFacts
<1>4. \A i \in K : UpTo(K, i) \in 1 .. Cardinality(K)
  BY <1>5, UpToFacts
<1> QED
  BY <1>2, <1>3, <1>4, PlaceOf, UpToFacts

\* A subsequence is one of the same entries.
LEMMA SubsequenceType ==
  ASSUME NEW S, NEW s \in Seq(S), NEW K \in SUBSET (DOMAIN s)
  PROVE  /\ Subsequence(s, K) \in Seq(S)
         /\ Len(Subsequence(s, K)) = Cardinality(K) /\ Cardinality(K) \in Nat
         /\ DOMAIN Subsequence(s, K) = 1 .. Cardinality(K)
         /\ \A k \in 1 .. Cardinality(K) : /\ Place(K, k) \in K
                                           /\ Subsequence(s, K)[k] = s[Place(K, k)]
<1>1. DOMAIN s = 1 .. Len(s) /\ Len(s) \in Nat
  OBVIOUS
<1>2. /\ Cardinality(K) \in Nat
      /\ \A k \in 1 .. Cardinality(K) : Place(K, k) \in K
  BY <1>1, PlaceFacts
<1>3. \A k \in 1 .. Cardinality(K) : s[Place(K, k)] \in S
  BY <1>2
<1> QED
  BY <1>2, <1>3 DEF Subsequence

\* It grows with the sequence, or it does not.
LEMMA SubsequenceAppend ==
  ASSUME NEW S, NEW s \in Seq(S), NEW e \in S, NEW K \in SUBSET (DOMAIN s)
  PROVE  /\ Subsequence(Append(s, e), K) = Subsequence(s, K)
         /\ Subsequence(Append(s, e), K \cup {Len(s) + 1}) = Append(Subsequence(s, K), e)
<1> DEFINE n == Len(s)
           N == K \cup {n + 1}
           c == Cardinality(K)
<1>1. /\ n \in Nat /\ K \in SUBSET (1 .. n) /\ N \in SUBSET (1 .. n + 1)
      /\ \A i \in 1 .. n : Append(s, e)[i] = s[i]
      /\ Append(s, e)[n + 1] = e
  OBVIOUS
<1>2. /\ c \in Nat
      /\ \A k \in 1 .. c : Place(K, k) \in K /\ UpTo(K, Place(K, k)) = k
  BY <1>1, PlaceFacts
<1>15. \A i \in K : UpTo(K, i) \in 1 .. c
  <2>1. \A i \in K : UpTo(K, i) \in Nat /\ UpTo(K, i) >= 1 /\ UpTo(K, i) <= c
    BY <1>1, UpToFacts
  <2> QED
    BY <1>2, <2>1
<1>3. Subsequence(Append(s, e), K) = Subsequence(s, K)
  BY <1>1, <1>2 DEF Subsequence
<1>4. Cardinality(N) = c + 1
  <2>1. n \in Nat /\ K \in SUBSET (1 .. n)
    BY <1>1
  <2> HIDE DEF n
  <2>2. IsFiniteSet(K)
    BY <2>1, PlacesAreFinite
  <2>3. n + 1 \notin K
    BY <2>1
  <2> QED
    BY <2>2, <2>3, FS_AddElement
<1>5. \A i \in K : UpTo(N, i) = UpTo(K, i)
  <2> SUFFICES ASSUME NEW i \in K
               PROVE  {j \in N : j <= i} = {j \in K : j <= i}
    BY DEF UpTo
  <2> QED
    BY <1>1
<1>6. UpTo(N, n + 1) = c + 1
  <2>1. {j \in N : j <= n + 1} = N
    BY <1>1
  <2> QED
    BY <1>4, <2>1 DEF UpTo
<1> HIDE DEF N
<1>7. \A k \in 1 .. c : Place(N, k) = Place(K, k)
  <2> SUFFICES ASSUME NEW k \in 1 .. c
               PROVE  Place(N, k) = Place(K, k)
    OBVIOUS
  <2>1. Place(K, k) \in K /\ UpTo(N, Place(K, k)) = k
    BY <1>2, <1>5
  <2>2. Place(K, k) \in N
    BY <2>1 DEF N
  <2>3. n + 1 \in Nat
    BY <1>1
  <2>4. Place(N, UpTo(N, Place(K, k))) = Place(K, k)
    BY <1>1, <2>2, <2>3, PlaceOf
  <2> QED
    BY <2>1, <2>4
<1>8. Place(N, c + 1) = n + 1
  <2>1. n + 1 \in N /\ n + 1 \in Nat
    BY <1>1 DEF N
  <2> QED
    BY <1>1, <1>6, <2>1, PlaceOf
<1>9. /\ Subsequence(s, K) \in Seq(S) /\ Len(Subsequence(s, K)) = c
      /\ \A k \in 1 .. c : Subsequence(s, K)[k] = s[Place(K, k)]
  BY SubsequenceType
<1>10. Subsequence(Append(s, e), N) = [k \in 1 .. c + 1 |-> Append(s, e)[Place(N, k)]]
  BY <1>4 DEF Subsequence
<1>11. \A k \in 1 .. c : Append(s, e)[Place(N, k)] = Subsequence(s, K)[k]
  BY <1>1, <1>2, <1>7, <1>9
<1>12. Append(s, e)[Place(N, c + 1)] = e
  BY <1>1, <1>8
<1> DEFINE q == Subsequence(s, K)
           u == Subsequence(Append(s, e), N)
<1>13. /\ Append(q, e) \in Seq(S) /\ Len(Append(q, e)) = c + 1
       /\ \A k \in 1 .. c : Append(q, e)[k] = q[k]
       /\ Append(q, e)[c + 1] = e
  BY <1>2, <1>9
<1>16. Append(s, e) \in Seq(S) /\ N \in SUBSET (DOMAIN Append(s, e))
  BY <1>1
<1>17. u \in Seq(S) /\ Len(u) = c + 1
  BY <1>4, <1>16, SubsequenceType
<1>18. \A k \in 1 .. c + 1 : u[k] = Append(s, e)[Place(N, k)]
  BY <1>10
<1>19. \A k \in 1 .. c + 1 : u[k] = Append(q, e)[k]
  <2> SUFFICES ASSUME NEW k \in 1 .. c + 1
               PROVE  u[k] = Append(q, e)[k]
    OBVIOUS
  <2>1. k \in 1 .. c \/ k = c + 1
    BY <1>2
  <2> QED
    BY <1>11, <1>12, <1>13, <1>18, <2>1
<1> HIDE DEF q, u
<1>20. u = Append(q, e)
  BY <1>13, <1>17, <1>19, SeqEqual
<1>14. Subsequence(Append(s, e), N) = Append(Subsequence(s, K), e)
  BY <1>20 DEF q, u
<1> QED
  BY <1>3, <1>14 DEF N

\* Sequences that are put together.
LEMMA ConcatAppend ==
  ASSUME NEW S, NEW s \in Seq(S), NEW q \in Seq(S), NEW e \in S
  PROVE  /\ s \o <<>> = s /\ s \o q \in Seq(S)
         /\ s \o <<e>> = Append(s, e)
         /\ s \o Append(q, e) = Append(s \o q, e)
<1>1. s \o <<>> = s /\ s \o q \in Seq(S)
  BY ConcatEmptySeq, ConcatProperties
<1>2. ASSUME NEW p \in Seq(S) PROVE p \o <<e>> = Append(p, e)
  <2>1. <<e>> \in Seq(S) /\ Len(<<e>>) = 1 /\ <<e>>[1] = e
    OBVIOUS
  <2>2. /\ p \o <<e>> \in Seq(S) /\ Len(p \o <<e>>) = Len(p) + 1
        /\ \A i \in 1 .. Len(p) + 1 : (p \o <<e>>)[i] = IF i <= Len(p) THEN p[i] ELSE <<e>>[i - Len(p)]
    BY <2>1, ConcatProperties
  <2>3. /\ Append(p, e) \in Seq(S) /\ Len(Append(p, e)) = Len(p) + 1
        /\ Append(p, e)[Len(p) + 1] = e /\ Len(p) \in Nat
        /\ \A i \in 1 .. Len(p) : Append(p, e)[i] = p[i]
    BY QueueAppend
  <2> DEFINE u == p \o <<e>>
             v == Append(p, e)
  <2>4. ASSUME NEW i \in 1 .. Len(u) PROVE u[i] = v[i]
    <3>1. i \in 1 .. Len(p) \/ i = Len(p) + 1
      BY <2>2, <2>3
    <3>2. CASE i \in 1 .. Len(p)
      BY <2>2, <2>3, <3>2
    <3>3. CASE i = Len(p) + 1
      <4>1. i - Len(p) = 1 /\ ~(i <= Len(p)) /\ i \in 1 .. Len(p) + 1
        BY <2>3, <3>3
      <4>2. u[i] = <<e>>[i - Len(p)]
        BY <2>2, <4>1
      <4> QED
        BY <2>1, <2>3, <3>3, <4>1, <4>2
    <3> QED
      BY <3>1, <3>2, <3>3
  <2> HIDE DEF u, v
  <2>5. u = v
    BY <2>2, <2>3, <2>4, SeqEqual DEF u, v
  <2> QED
    BY <2>5 DEF u, v
<1>3. s \o Append(q, e) = Append(s \o q, e)
  <2>1. Append(q, e) = q \o <<e>> /\ Append(s \o q, e) = (s \o q) \o <<e>>
    BY <1>1, <1>2
  <2>2. <<e>> \in Seq(S)
    OBVIOUS
  <2> QED
    BY <2>1, <2>2, ConcatAssociative
<1> QED
  BY <1>1, <1>2, <1>3

\* A sequence is a prefix of itself, and remains one of a sequence that grows.
LEMMA PrefixFacts ==
  ASSUME NEW S, NEW s \in Seq(S), NEW t \in Seq(S), NEW e \in S
  PROVE  /\ IsPrefix(s, s) /\ Append(t, e) \in Seq(S)
         /\ IsPrefix(s, t) => IsPrefix(s, Append(t, e))
         /\ Len(s) \in Nat /\ Len(Append(s, e)) = Len(s) + 1
<1>1. IsPrefix(s, s)
  BY DEF IsPrefix
<1>2. ASSUME IsPrefix(s, t) PROVE IsPrefix(s, Append(t, e))
  <2>1. /\ Append(t, e) \in Seq(S) /\ Len(Append(t, e)) = Len(t) + 1
        /\ \A i \in 1 .. Len(t) : Append(t, e)[i] = t[i]
    BY QueueAppend
  <2>2. Len(s) \in Nat /\ Len(t) \in Nat /\ Len(s) <= Len(t)
    BY <1>2 DEF IsPrefix
  <2> DEFINE u == SubSeq(t, 1, Len(s))
             v == SubSeq(Append(t, e), 1, Len(s))
  <2>3. /\ u \in Seq(S) /\ Len(u) = Len(s) /\ v \in Seq(S) /\ Len(v) = Len(s)
        /\ \A i \in 1 .. Len(s) : u[i] = t[i] /\ v[i] = Append(t, e)[i]
    <3>1. \A i \in 1 .. Len(s) : t[i] \in S /\ Append(t, e)[i] \in S
      BY <2>1, <2>2
    <3>2. /\ u \in Seq(S) /\ Len(u) = Len(s) /\ \A i \in 1 .. Len(s) : u[i] = t[i]
      BY <2>2, <3>1
    <3>3. /\ v \in Seq(S) /\ Len(v) = Len(s) /\ \A i \in 1 .. Len(s) : v[i] = Append(t, e)[i]
      BY <2>1, <2>2, <3>1
    <3> QED
      BY <3>2, <3>3
  <2>4. \A i \in 1 .. Len(s) : u[i] = v[i]
    BY <2>1, <2>2, <2>3
  <2> HIDE DEF u, v
  <2>5. u = v
    BY <2>3, <2>4, SeqEqual
  <2> QED
    BY <1>2, <2>1, <2>2, <2>5 DEF IsPrefix, u, v
<1>3. Append(t, e) \in Seq(S) /\ Len(s) \in Nat /\ Len(Append(s, e)) = Len(s) + 1
  BY QueueAppend
<1> QED
  BY <1>1, <1>2, <1>3
=============================================================================
