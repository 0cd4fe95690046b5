---------------------------- MODULE HLCacheProofs ----------------------------
(***************************************************************************)
(* Proofs about the high-level cache and its contents, for any handles and *)
(* objects.                                                                *)
(***************************************************************************)
EXTENDS HLCache, FiniteSetTheorems, SequenceTheorems, WellFoundedInduction, TLAPS

-----------------------------------------------------------------------------
\* Every set of natural numbers with an element has a least one.
LEMMA LeastExists ==
  ASSUME NEW S, S \subseteq Nat, S # {}
  PROVE  \E n \in S : \A m \in S : n <= m
<1>1. \E x \in S : \A y \in S : ~(<<y, x>> \in OpToRel(<, Nat))
  BY WFMin, NatLessThanWellFounded
<1>2. \A x, y \in Nat : ~(<<y, x>> \in OpToRel(<, Nat)) => x <= y
  BY DEF OpToRel
<1> QED BY <1>1, <1>2

\* What a set of places of the list counts.
LEMMA PlacesFinite ==
  ASSUME NEW n \in Nat, NEW K \in SUBSET (1 .. n)
  PROVE  IsFiniteSet(K) /\ Cardinality(K) \in Nat
<1>1. IsFiniteSet(1 .. n)
  <2>1. 1 \in Int /\ n \in Int
    OBVIOUS
  <2> QED BY <2>1, FS_Interval
<1> QED BY <1>1, FS_Subset, FS_CardinalityType

\* The number of places kept up to one more is larger by one, or the same.
LEMMA PlaceStep ==
  ASSUME NEW n \in Nat, NEW K \in SUBSET (1 .. n)
  PROVE  /\ Place(K, 0) = 0 /\ Place(K, n) = Cardinality(K)
         /\ \A i \in Nat : Place(K, i) \in Nat
         /\ \A i \in Nat \ {0} :
               Place(K, i) = IF i \in K THEN Place(K, i - 1) + 1 ELSE Place(K, i - 1)
<1>1. IsFiniteSet(K) /\ \A k \in K : k \in 1 .. n
  BY PlacesFinite
<1>2. Place(K, 0) = 0 /\ Place(K, n) = Cardinality(K)
  <2>1. \A k \in K : ~(k <= 0) /\ k <= n
    BY <1>1
  <2>2. {k \in K : k <= 0} = {} /\ {k \in K : k <= n} = K
    BY <2>1
  <2> QED BY <2>2, FS_EmptySet DEF Place
<1>3. \A i \in Nat : IsFiniteSet({k \in K : k <= i}) /\ Place(K, i) \in Nat
  BY <1>1, FS_Subset, FS_CardinalityType DEF Place
<1>4. ASSUME NEW i \in Nat \ {0}
      PROVE  Place(K, i) = IF i \in K THEN Place(K, i - 1) + 1 ELSE Place(K, i - 1)
  <2> DEFINE A == {k \in K : k <= i - 1}
             B == {k \in K : k <= i}
  <2>1. \A k \in K : k <= i <=> (k <= i - 1 \/ k = i)
    BY <1>1
  <2>a. i \in Nat /\ i - 1 \in Nat /\ ~(i <= i - 1)
    OBVIOUS
  <2>b. i \notin A
    BY <2>a
  <2>2. i \notin A /\ B = IF i \in K THEN A \union {i} ELSE A
    <3>1. i \in K => B = A \union {i}
      BY <2>1
    <3>2. i \notin K => B = A
      BY <2>1
    <3> QED BY <2>b, <3>1, <3>2
  <2>3. IsFiniteSet(A) /\ Place(K, i - 1) = Cardinality(A) /\ Place(K, i) = Cardinality(B)
    BY <1>3, <2>a DEF Place
  <2> HIDE DEF A, B
  <2>4. Cardinality(A \union {i}) = Cardinality(A) + 1
    BY <2>2, <2>3, FS_AddElement
  <2> QED BY <2>2, <2>3, <2>4
<1> QED BY <1>2, <1>3, <1>4

\* There is an entry at every place of what is left.
LEMMA PlaceFound ==
  ASSUME NEW n \in Nat, NEW K \in SUBSET (1 .. n), NEW j \in 1 .. Cardinality(K)
  PROVE  \E i \in K : Place(K, i) = j
<1> DEFINE S == {i \in Nat : Place(K, i) >= j}
<1>1. Cardinality(K) \in Nat /\ j \in Nat /\ j # 0
  <2>1. Cardinality(K) \in Nat
    BY PlacesFinite
  <2> HIDE DEF S
  <2> QED BY <2>1
<1>2. n \in S
  BY <1>1, PlaceStep
<1>3. PICK m \in S : \A i \in S : m <= i
  <2>1. S # {} /\ S \subseteq Nat
    BY <1>2
  <2> HIDE DEF S
  <2> QED BY <2>1, LeastExists
<1>4. m # 0 /\ m - 1 \in Nat
  <2>1. m \in Nat /\ Place(K, m) >= j
    BY <1>3
  <2>2. Place(K, 0) = 0
    BY PlaceStep
  <2> HIDE DEF S
  <2> QED BY <1>1, <2>1, <2>2
<1>5. m - 1 \notin S
  BY <1>3, <1>4
<1>6. Place(K, m - 1) < j /\ Place(K, m - 1) \in Nat
  <2>1. ~(Place(K, m - 1) >= j) /\ Place(K, m - 1) \in Nat
    BY <1>4, <1>5, PlaceStep
  <2> QED BY <1>1, <2>1
<1>7. Place(K, m) = IF m \in K THEN Place(K, m - 1) + 1 ELSE Place(K, m - 1)
  BY <1>4, PlaceStep
<1>8. Place(K, m) >= j
  BY <1>3
<1> QED BY <1>1, <1>6, <1>7, <1>8

\* The order of the places is the order of the list.
LEMMA PlaceOrder ==
  ASSUME NEW n \in Nat, NEW K \in SUBSET (1 .. n), NEW i \in K, NEW k \in K, i < k
  PROVE  Place(K, i) < Place(K, k)
<1> DEFINE A == {x \in K : x <= i}
           B == {x \in K : x <= k}
<1>0. i \in Int /\ k \in Int /\ \A x \in K : x \in Int
  OBVIOUS
<1>1. A \subseteq B /\ k \in B /\ k \notin A
  <2>1. \A x \in K : x <= i => x <= k
    BY <1>0
  <2>2. k <= k /\ ~(k <= i)
    BY <1>0
  <2> QED BY <2>1, <2>2
<1>2. IsFiniteSet(K) /\ IsFiniteSet(B)
  BY PlacesFinite, FS_Subset
<1> HIDE DEF A, B
<1>3. Cardinality(A) <= Cardinality(B) /\ Cardinality(A) # Cardinality(B)
      /\ Cardinality(A) \in Nat /\ Cardinality(B) \in Nat
  BY <1>1, <1>2, FS_Subset, FS_CardinalityType
<1> QED BY <1>3 DEF Place, A, B

\* Unlinking the members of X leaves the others, all of them, in their order.
LEMMA WithoutProperties ==
  ASSUME NEW S, NEW s \in Seq(S), NEW X
  PROVE  /\ Without(s, X) \in Seq(S)
         /\ \A i \in 1 .. Len(s) : s[i] \notin X =>
               \E j \in 1 .. Len(Without(s, X)) : Without(s, X)[j] = s[i]
         /\ \E f \in [1 .. Len(Without(s, X)) -> 1 .. Len(s)] :
               /\ \A j \in 1 .. Len(Without(s, X)) :
                     Without(s, X)[j] = s[f[j]] /\ s[f[j]] \notin X
               /\ \A j, k \in 1 .. Len(Without(s, X)) : j < k => f[j] < f[k]
<1> DEFINE n == Len(s)
           K == {i \in 1 .. Len(s) : s[i] \notin X}
           from(j) == CHOOSE i \in K : Place(K, i) = j
           N == Cardinality(K)
           f == [j \in 1 .. N |-> from(j)]
<1>1. n \in Nat /\ s \in [1 .. n -> S]
  BY LenProperties
<1>2. K \in SUBSET (1 .. n) /\ \A i \in K : s[i] \notin X
  OBVIOUS
<1>3. N \in Nat
  BY <1>1, <1>2, PlacesFinite
<1>4. \A j \in 1 .. N : from(j) \in K /\ Place(K, from(j)) = j
  <2> TAKE j \in 1 .. N
  <2>1. \E i \in K : Place(K, i) = j
    BY <1>1, <1>2, PlaceFound
  <2> QED BY <2>1
<1>5. Without(s, X) = [j \in 1 .. N |-> s[from(j)]]
  BY DEF Without
<1>6. \A i \in K : i \in 1 .. n
  BY <1>2
<1>d. {i \in 1 .. Len(s) : s[i] \notin X} = K
  OBVIOUS
<1> HIDE DEF K, from
<1>7. \A j \in 1 .. N : s[from(j)] \in S
  BY <1>1, <1>4, <1>6
<1>8. Without(s, X) \in Seq(S) /\ Len(Without(s, X)) = N
  <2>1. [j \in 1 .. N |-> s[from(j)]] \in [1 .. N -> S]
    BY <1>7
  <2> HIDE DEF N
  <2>2. Without(s, X) \in [1 .. N -> S]
    BY <2>1, <1>5
  <2> QED BY <1>3, <2>2
<1>9. \A j, k \in 1 .. N : j < k => from(j) < from(k)
  <2> SUFFICES ASSUME NEW j \in 1 .. N, NEW k \in 1 .. N, j < k, ~(from(j) < from(k))
               PROVE  FALSE
    OBVIOUS
  <2>1. from(j) \in K /\ from(k) \in K /\ Place(K, from(j)) = j /\ Place(K, from(k)) = k
    BY <1>4
  <2>2. from(j) \in 1 .. n /\ from(k) \in 1 .. n
    BY <1>2, <2>1
  <2>3. from(j) = from(k) \/ from(k) < from(j)
    BY <1>1, <2>2
  <2>4. CASE from(k) < from(j)
    <3>1. Place(K, from(k)) < Place(K, from(j))
      BY <1>1, <1>2, <2>1, <2>4, PlaceOrder
    <3> QED BY <1>3, <2>1, <3>1
  <2> QED BY <1>3, <2>1, <2>3, <2>4
<1>10. \A i \in K : \E j \in 1 .. N : Without(s, X)[j] = s[i]
  <2> TAKE i \in K
  <2>1. Place(K, i) \in 1 .. N
    <3>1. i \in 1 .. n
      BY <1>2
    <3>2. i \in Nat \ {0} /\ i - 1 \in Nat
      BY <3>1, <1>1
    <3>3. Place(K, i) = Place(K, i - 1) + 1 /\ Place(K, i - 1) \in Nat
      BY <1>1, <1>2, <3>2, PlaceStep
    <3>4. IsFiniteSet(K) /\ {k \in K : k <= i} \in SUBSET K
      BY <1>1, <1>2, PlacesFinite
    <3>5. Place(K, i) <= N
      BY <3>4, FS_Subset DEF Place
    <3> QED BY <1>3, <3>3, <3>5
  <2> DEFINE j == Place(K, i)
  <2>2. from(j) \in K /\ Place(K, from(j)) = j
    BY <1>4, <2>1
  <2>3. from(j) = i
    <3>1. i \in 1 .. n /\ from(j) \in 1 .. n
      BY <1>2, <2>2
    <3>2. ASSUME NEW x \in K, NEW y \in K, Place(K, x) = Place(K, y) PROVE ~(x < y)
      <4>1. x < y => Place(K, x) < Place(K, y)
        BY <1>1, <1>2, PlaceOrder
      <4>2. Place(K, x) \in Nat
        <5>1. x \in Nat
          BY <1>1, <1>2
        <5> QED BY <1>1, <1>2, <5>1, PlaceStep
      <4> QED BY <3>2, <4>1, <4>2
    <3> QED BY <1>1, <2>2, <3>1, <3>2
  <2> QED BY <1>5, <2>1, <2>3
<1>11. f \in [1 .. N -> 1 .. n]
  BY <1>4, <1>6
<1>12. \A j \in 1 .. N : f[j] = from(j) /\ Without(s, X)[j] = s[f[j]] /\ s[f[j]] \notin X
  BY <1>2, <1>4, <1>5
<1>13. \A j, k \in 1 .. N : j < k => f[j] < f[k]
  BY <1>9, <1>12
<1>14. \A i \in 1 .. n : s[i] \notin X => i \in K
  BY DEF K
<1> HIDE DEF f, N, n
<1>15. \E g \in [1 .. N -> 1 .. n] :
          /\ \A j \in 1 .. N : Without(s, X)[j] = s[g[j]] /\ s[g[j]] \notin X
          /\ \A j, k \in 1 .. N : j < k => g[j] < g[k]
  BY <1>11, <1>12, <1>13
<1>16. \A i \in 1 .. n : s[i] \notin X =>
          \E j \in 1 .. N : Without(s, X)[j] = s[i]
  BY <1>10, <1>14
<1> QED BY <1>8, <1>15, <1>16 DEF n

\* The same for the members alone, of a list in which none occurs twice.
LEMMA WithoutMembers ==
  ASSUME NEW S, NEW s \in Seq(S), NEW X,
         \A i, j \in 1 .. Len(s) : s[i] = s[j] => i = j
  PROVE  LET t == Without(s, X)
         IN  /\ t \in Seq(S)
             /\ \A i, j \in 1 .. Len(t) : t[i] = t[j] => i = j
             /\ \A x \in S : (\E j \in 1 .. Len(t) : t[j] = x)
                     <=> x \notin X /\ (\E i \in 1 .. Len(s) : s[i] = x)
<1> DEFINE t == Without(s, X)
<1>1. /\ t \in Seq(S)
      /\ \A i \in 1 .. Len(s) : s[i] \notin X => \E j \in 1 .. Len(t) : t[j] = s[i]
  BY WithoutProperties
<1>2. PICK f \in [1 .. Len(t) -> 1 .. Len(s)] :
         /\ \A j \in 1 .. Len(t) : t[j] = s[f[j]] /\ s[f[j]] \notin X
         /\ \A j, k \in 1 .. Len(t) : j < k => f[j] < f[k]
  BY WithoutProperties
<1>3. Len(t) \in Nat /\ Len(s) \in Nat
  BY <1>1, LenProperties
<1> HIDE DEF t
<1>4. ASSUME NEW i \in 1 .. Len(t), NEW j \in 1 .. Len(t), t[i] = t[j] PROVE i = j
  <2>1. f[i] = f[j]
    BY <1>2, <1>4
  <2>2. ~(i < j) /\ ~(j < i)
    <3>1. f[i] \in 1 .. Len(s) /\ f[j] \in 1 .. Len(s)
      OBVIOUS
    <3>2. f[i] \in Int /\ f[j] \in Int
      BY <1>3, <3>1
    <3>3. (i < j => f[i] < f[j]) /\ (j < i => f[j] < f[i])
      BY <1>2
    <3> QED BY <2>1, <3>2, <3>3
  <2> QED BY <1>3, <2>2
<1>5. ASSUME NEW x \in S
      PROVE  (\E j \in 1 .. Len(t) : t[j] = x)
               <=> x \notin X /\ (\E i \in 1 .. Len(s) : s[i] = x)
  <2>1. ASSUME NEW j \in 1 .. Len(t), t[j] = x
        PROVE  x \notin X /\ (\E i \in 1 .. Len(s) : s[i] = x)
    <3>1. t[j] = s[f[j]] /\ s[f[j]] \notin X /\ f[j] \in 1 .. Len(s)
      BY <1>2
    <3> QED BY <2>1, <3>1
  <2>2. ASSUME NEW i \in 1 .. Len(s), s[i] = x, x \notin X
        PROVE  \E j \in 1 .. Len(t) : t[j] = x
    BY <1>1, <2>2
  <2> QED BY <2>1, <2>2
<1> QED BY <1>1, <1>4, <1>5 DEF t

\* The members of a list, and when each occurs once.
LEMMA MembersOf ==
  ASSUME NEW S, NEW s \in Seq(S)
  PROVE  /\ ToSet(s) \subseteq S
         /\ \A x : x \in ToSet(s) <=> \E i \in 1 .. Len(s) : s[i] = x
         /\ IsInjective(s) <=> \A i, j \in 1 .. Len(s) : s[i] = s[j] => i = j
<1>1. DOMAIN s = 1 .. Len(s) /\ \A i \in 1 .. Len(s) : s[i] \in S
  BY LenProperties, ElementOfSeq
<1>2. ToSet(s) = {s[i] : i \in 1 .. Len(s)}
  BY <1>1 DEF ToSet
<1>3. IsInjective(s) <=> \A i, j \in 1 .. Len(s) : s[i] = s[j] => i = j
  BY <1>1 DEF IsInjective
<1> QED BY <1>1, <1>2, <1>3

\* Lists of no member and of one.
LEMMA SmallLists ==
  /\ ToSet(<<>>) = {} /\ IsInjective(<<>>)
  /\ \A x : ToSet(<<x>>) = {x} /\ IsInjective(<<x>>)
<1>1. \A x : DOMAIN <<x>> = {1} /\ <<x>>[1] = x
  OBVIOUS
<1>2. ToSet(<<>>) = {} /\ IsInjective(<<>>)
  BY DEF ToSet, IsInjective
<1>3. ASSUME NEW x PROVE ToSet(<<x>>) = {x} /\ IsInjective(<<x>>)
  BY <1>1 DEF ToSet, IsInjective
<1> QED BY <1>2, <1>3

\* A list with one more member at its head.
Prepended(x, s) == <<x>> \o s

\* A list that has no member twice, with one more at its head.
LEMMA PrependSet ==
  ASSUME NEW S, NEW s \in Seq(S), NEW x \in S, IsInjective(s), x \notin ToSet(s)
  PROVE  /\ Prepended(x, s) \in Seq(S) /\ IsInjective(Prepended(x, s))
         /\ ToSet(Prepended(x, s)) = ToSet(s) \cup {x}
<1> DEFINE t == <<x>> \o s
<1>1. Len(s) \in Nat /\ <<x>> \in Seq(S) /\ Len(<<x>>) = 1 /\ <<x>>[1] = x
  BY LenProperties
<1>2. t \in Seq(S) /\ Len(t) = Len(s) + 1
      /\ \A i \in 1 .. Len(t) : t[i] = IF i <= 1 THEN <<x>>[i] ELSE s[i - 1]
  <2>1. t \in Seq(S) /\ Len(t) = Len(<<x>>) + Len(s)
        /\ \A i \in 1 .. Len(t) : t[i] = IF i <= Len(<<x>>) THEN <<x>>[i] ELSE s[i - Len(<<x>>)]
    BY <1>1, ConcatProperties
  <2> HIDE DEF t
  <2> QED BY <1>1, <2>1
<1> HIDE DEF t
<1>3. 1 \in 1 .. Len(t) /\ t[1] = x
  BY <1>1, <1>2
<1>4. \A i \in 1 .. Len(t) : i # 1 => i - 1 \in 1 .. Len(s) /\ t[i] = s[i - 1]
  BY <1>1, <1>2
<1>5. \A i \in 1 .. Len(s) : i + 1 \in 1 .. Len(t) /\ t[i + 1] = s[i]
  <2> TAKE i \in 1 .. Len(s)
  <2>1. i + 1 \in 1 .. Len(t) /\ i + 1 # 1 /\ (i + 1) - 1 = i
    BY <1>1, <1>2
  <2> QED BY <1>4, <2>1
<1>a. /\ \A i, j \in 1 .. Len(s) : s[i] = s[j] => i = j
      /\ ~ \E i \in 1 .. Len(s) : s[i] = x
  BY MembersOf
<1>6. ASSUME NEW i \in 1 .. Len(t), NEW j \in 1 .. Len(t), t[i] = t[j] PROVE i = j
  <2>1. CASE i = 1 \/ j = 1
    BY <1>3, <1>4, <1>6, <1>a, <2>1
  <2>2. CASE i # 1 /\ j # 1
    <3>1. i - 1 = j - 1
      BY <1>4, <1>6, <1>a, <2>2
    <3>2. i \in Int /\ j \in Int
      BY <1>1, <1>2
    <3> QED BY <3>1, <3>2
  <2> QED BY <2>1, <2>2
<1>7. ASSUME NEW y \in S
      PROVE  (\E j \in 1 .. Len(t) : t[j] = y) <=> y = x \/ (\E i \in 1 .. Len(s) : s[i] = y)
  <2>1. ASSUME NEW j \in 1 .. Len(t), t[j] = y
        PROVE  y = x \/ (\E i \in 1 .. Len(s) : s[i] = y)
    BY <1>3, <1>4, <2>1
  <2>2. ASSUME y = x \/ (\E i \in 1 .. Len(s) : s[i] = y)
        PROVE  \E j \in 1 .. Len(t) : t[j] = y
    <3>1. CASE y = x
      BY <1>3, <3>1
    <3>2. CASE \E i \in 1 .. Len(s) : s[i] = y
      <4>1. PICK i \in 1 .. Len(s) : s[i] = y
        BY <3>2
      <4>2. i + 1 \in 1 .. Len(t) /\ t[i + 1] = y
        BY <1>5, <4>1
      <4> QED BY <4>2
    <3> QED BY <2>2, <3>1, <3>2
  <2> QED BY <2>1, <2>2
<1>8. /\ ToSet(t) \subseteq S /\ ToSet(s) \subseteq S /\ IsInjective(t)
      /\ \A y : y \in ToSet(t) <=> \E i \in 1 .. Len(t) : t[i] = y
      /\ \A y : y \in ToSet(s) <=> \E i \in 1 .. Len(s) : s[i] = y
  <2>1. \A i, j \in 1 .. Len(t) : t[i] = t[j] => i = j
    BY <1>6
  <2> QED BY <1>2, <2>1, MembersOf
<1>9. \A y \in S : y \in ToSet(t) <=> y \in ToSet(s) \cup {x}
  BY <1>7, <1>8
<1>10. ToSet(t) = ToSet(s) \cup {x}
  BY <1>8, <1>9
<1> QED BY <1>2, <1>8, <1>10 DEF t, Prepended

\* The same, of the sets of members.
LEMMA WithoutSet ==
  ASSUME NEW S, NEW s \in Seq(S), NEW X, IsInjective(s)
  PROVE  /\ Without(s, X) \in Seq(S) /\ IsInjective(Without(s, X))
         /\ ToSet(Without(s, X)) = ToSet(s) \ X
<1> DEFINE t == Without(s, X)
<1>1. \A i, j \in 1 .. Len(s) : s[i] = s[j] => i = j
  BY MembersOf
<1>2. /\ t \in Seq(S)
      /\ \A i, j \in 1 .. Len(t) : t[i] = t[j] => i = j
      /\ \A x \in S : (\E j \in 1 .. Len(t) : t[j] = x)
              <=> x \notin X /\ (\E i \in 1 .. Len(s) : s[i] = x)
  BY <1>1, WithoutMembers
<1> HIDE DEF t
<1>3. /\ ToSet(t) \subseteq S /\ ToSet(s) \subseteq S /\ IsInjective(t)
      /\ \A x : x \in ToSet(t) <=> \E i \in 1 .. Len(t) : t[i] = x
      /\ \A x : x \in ToSet(s) <=> \E i \in 1 .. Len(s) : s[i] = x
  BY <1>2, MembersOf
<1>4. \A x \in S : x \in ToSet(t) <=> x \in ToSet(s) \ X
  BY <1>2, <1>3
<1>5. ToSet(t) = ToSet(s) \ X
  BY <1>3, <1>4
<1> QED BY <1>2, <1>3, <1>5 DEF t

-----------------------------------------------------------------------------
(***************************************************************************)
(* The invariant.  Its first half says who holds what: the values the      *)
(* variables take, the user lists and the content list, what the jobs that *)
(* are left refer to, and which low-level handles are held by whom.        *)
(***************************************************************************)

HandleType == [state : {"new", "live", "gone"}, content : Ids \cup {None}, aborted : BOOLEAN]
ContentType ==
  [status : Statuses, locked : BOOLEAN, users : Seq(Handles),
   object : Objects \cup {None, Own}, ll : Ids \cup {None}, stopped : BOOLEAN]
LLType ==
  [state : {"none", "held", "released"}, object : Objects \cup {None, Own},
   sent : {"none", "open", "headers", "data", "ended"}, aborted : BOOLEAN]
ContentJobs == {"convert", "ready", "done", "error", "spoil"}
Jobs ==
  [do : {"tell"}, handle : Handles, msg : Messages]
  \cup [do : {"leave", "refuse"}, handle : Handles]
  \cup [do : {"cast"}, content : Ids, msg : Messages, next : Handles \cup {None}]
  \cup [do : ContentJobs, content : Ids]

Types ==
  /\ handle \in [Handles -> HandleType]
  /\ context \in [Handles -> Ids \cup {None}]
  /\ content \in [Ids -> ContentType]
  /\ list \in Seq(Ids)
  /\ ll \in [Ids -> LLType]
  /\ downloads \subseteq Ids
  /\ told \in [Handles -> Seq(Messages)]
  /\ work \in Seq(Jobs)

\* A content that was made and not yet destroyed.
Made(status) == status \notin {"none", "destroyed"}
Exists(c) == Made(content[c].status)
Users(c) == content[c].users

Sharing ==
  /\ \A c \in Ids : IsInjective(Users(c))
  /\ \A c \in Ids : \A h \in Handles :
        h \in ToSet(Users(c)) <=> handle[h].content = c
  /\ \A h \in Handles : handle[h].content # None => Exists(handle[h].content)
  /\ IsInjective(list)
  /\ \A c \in Ids : c \in ToSet(list) <=> Exists(c)
  /\ \A c \in Ids : content[c].ll = IF Exists(c) THEN c ELSE None

Stack ==
  \A i \in 1 .. Len(work) :
     /\ work[i].do \in {"leave", "refuse"} => i = Len(work) /\ context[work[i].handle] # None
     /\ work[i].do \in ContentJobs \cup {"cast"} => Exists(work[i].content)

Leaving(h) == \E i \in 1 .. Len(work) : work[i] = Leave(h)
Waiting(l) == \E h \in Handles : l = <<h, "made">> /\ context[h] # None /\ ~Leaving(h)

Owned ==
  \A l \in Ids :
     /\ ll[l].state = "held" <=> Waiting(l) \/ Exists(l) \/ l \in downloads
     /\ Waiting(l) => ~Exists(l) /\ l \notin downloads
     /\ ~(Exists(l) /\ l \in downloads)

Fresh ==
  \A h \in Handles :
     /\ context[h] \in {None, <<h, "made">>}
     /\ handle[h].state = "new" =>
           context[h] = None /\ handle[h].content = None /\ ll[<<h, "made">>].state = "none"
     /\ ~handle[h].aborted => ll[<<h, "cloned">>].state = "none"
     /\ context[h] # None /\ ~Leaving(h) => handle[h].content = None

Base == Types /\ Sharing /\ Stack /\ Owned /\ Fresh

-----------------------------------------------------------------------------
\* What is left to do after the first job is what was left before it.
LEMMA RestOfWork ==
  ASSUME NEW S, NEW w \in Seq(S), w # <<>>, NEW J \in Seq(S), NEW v, v = J \o Tail(w)
  PROVE  /\ v \in Seq(S) /\ Len(w) \in Nat \ {0} /\ Len(J) \in Nat
         /\ Len(v) = Len(J) + (Len(w) - 1)
         /\ \A i \in 1 .. Len(J) : v[i] = J[i]
         /\ \A i \in 1 .. Len(v) : i > Len(J) => v[i] = w[i - Len(J) + 1]
         /\ \A i \in 2 .. Len(w) : v[i + Len(J) - 1] = w[i] /\ i + Len(J) - 1 \in 1 .. Len(v)
         /\ Head(w) = w[1] /\ w[1] \in S
<1> DEFINE t == Tail(w)
<1>1. Len(w) \in Nat \ {0} /\ Len(J) \in Nat
  <2>1. Len(w) \in Nat /\ Len(J) \in Nat
    BY LenProperties
  <2> QED BY <2>1, EmptySeq
<1>2. t \in Seq(S) /\ Len(t) = Len(w) - 1 /\ \A i \in 1 .. Len(t) : t[i] = w[i + 1]
  BY <1>1, HeadTailProperties
<1>3. Head(w) = w[1] /\ w[1] \in S
  BY <1>1, HeadTailProperties
<1> HIDE DEF t
<1>4. v = J \o t
  BY DEF t
<1>5. v \in Seq(S) /\ Len(v) = Len(J) + Len(t)
      /\ \A i \in 1 .. Len(v) : v[i] = IF i <= Len(J) THEN J[i] ELSE t[i - Len(J)]
  <2>1. t \in Seq(S)
    BY <1>2
  <2>2. /\ J \o t \in Seq(S) /\ Len(J \o t) = Len(J) + Len(t)
        /\ \A i \in 1 .. Len(J) + Len(t) : (J \o t)[i] = IF i <= Len(J) THEN J[i] ELSE t[i - Len(J)]
    BY <2>1, ConcatProperties
  <2> QED BY <1>4, <2>2
<1>6. \A i \in 1 .. Len(J) : v[i] = J[i]
  BY <1>1, <1>2, <1>5
<1>7. \A i \in 1 .. Len(v) : i > Len(J) => v[i] = w[i - Len(J) + 1]
  <2> SUFFICES ASSUME NEW i \in 1 .. Len(v), i > Len(J) PROVE v[i] = w[i - Len(J) + 1]
    OBVIOUS
  <2>1. i - Len(J) \in 1 .. Len(t) /\ ~(i <= Len(J))
    BY <1>1, <1>2, <1>5
  <2> QED BY <1>2, <1>5, <2>1
<1>8. \A i \in 2 .. Len(w) : v[i + Len(J) - 1] = w[i] /\ i + Len(J) - 1 \in 1 .. Len(v)
  <2> TAKE i \in 2 .. Len(w)
  <2> DEFINE k == i + Len(J) - 1
  <2>1. k \in 1 .. Len(v) /\ k > Len(J) /\ k - Len(J) + 1 = i
    BY <1>1, <1>2, <1>5
  <2> HIDE DEF k
  <2>2. v[k] = w[i]
    BY <1>7, <2>1
  <2> QED BY <2>1, <2>2 DEF k
<1> QED BY <1>1, <1>2, <1>3, <1>5, <1>6, <1>7, <1>8

\* The identifiers of a handle's contents are different, and none is None.
LEMMA IdFacts ==
  /\ None \notin Ids /\ None \notin Handles
  /\ \A h \in Handles : <<h, "made">> \in Ids /\ <<h, "cloned">> \in Ids
  /\ \A h, g \in Handles : <<h, "made">> # <<g, "cloned">>
  /\ \A h, g \in Handles : <<h, "made">> = <<g, "made">> => h = g
  /\ \A h, g \in Handles : <<h, "cloned">> = <<g, "cloned">> => h = g
<1>1. None \notin Ids /\ None \notin Handles
  BY HLCacheAssumption
<1>2. "made" # "cloned"
  OBVIOUS
<1> QED BY <1>1, <1>2 DEF Ids

\* The jobs, and what they hold.
LEMMA JobTypes ==
  /\ \A h \in Handles, m \in Messages : Tell(h, m) \in Jobs
  /\ \A h \in Handles : Leave(h) \in Jobs /\ Refuse(h) \in Jobs
  /\ \A c \in Ids, m \in Messages, u \in Handles \cup {None} : Cast(c, m, u) \in Jobs
  /\ \A c \in Ids, t \in ContentJobs : Do(t, c) \in Jobs
BY DEF Jobs, Tell, Leave, Refuse, Cast, Do

\* What a job is about, by what it does.
LEMMA JobFields ==
  ASSUME NEW j \in Jobs
  PROVE  /\ j.do = "tell" => j.handle \in Handles /\ j.msg \in Messages
         /\ j.do \in {"leave", "refuse"} => j.handle \in Handles
         /\ j.do = "leave" => j = Leave(j.handle)
         /\ j.do = "cast" => j.content \in Ids /\ j.msg \in Messages
                             /\ j.next \in Handles \cup {None}
         /\ j.do \in ContentJobs => j.content \in Ids
<1>1. CASE j \in [do : {"tell"}, handle : Handles, msg : Messages]
  BY <1>1 DEF ContentJobs
<1>2. CASE j \in [do : {"leave", "refuse"}, handle : Handles]
  <2>1. j = [do |-> j.do, handle |-> j.handle] /\ j.do \in {"leave", "refuse"} /\ j.handle \in Handles
    BY <1>2
  <2> QED BY <2>1 DEF Leave, ContentJobs
<1>3. CASE j \in [do : {"cast"}, content : Ids, msg : Messages, next : Handles \cup {None}]
  BY <1>3 DEF ContentJobs
<1>4. CASE j \in [do : ContentJobs, content : Ids]
  BY <1>4 DEF ContentJobs
<1> QED BY <1>1, <1>2, <1>3, <1>4 DEF Jobs

\* What aborting and releasing a low-level handle change.
LEMMA LLAbortedFacts ==
  ASSUME NEW ls \in [Ids -> LLType], NEW l \in Ids
  PROVE  /\ LLAborted(ls, l) \in [Ids -> LLType]
         /\ \A k \in Ids : LLAborted(ls, l)[k].state = ls[k].state
                        /\ LLAborted(ls, l)[k].sent = ls[k].sent
                        /\ (ls[k].aborted => LLAborted(ls, l)[k].aborted)
                        /\ (k # l => LLAborted(ls, l)[k] = ls[k])
         /\ LLAborted(ls, l)[l].aborted
<1> DEFINE yes == TRUE
           alone == \A k \in Ids \ {l} : ls[k].state # "held" \/ ls[k].object # ls[l].object
           o == IF alone \/ ls[l].sent = "ended" THEN ls[l].object ELSE Own
<1>1. yes \in BOOLEAN /\ yes
  OBVIOUS
<1>2. o \in Objects \cup {None, Own}
  BY DEF LLType
<1>3. LLAborted(ls, l) = [ls EXCEPT ![l] = [@ EXCEPT !.aborted = yes, !.object = o]]
  BY Zenon DEF LLAborted
<1> HIDE DEF yes, o
<1> DEFINE r == [ls[l] EXCEPT !.aborted = yes, !.object = o]
<1>4. r \in LLType /\ r.state = ls[l].state /\ r.sent = ls[l].sent /\ r.aborted = yes
  BY <1>1, <1>2 DEF LLType
<1> HIDE DEF r
<1>5. LLAborted(ls, l) = [ls EXCEPT ![l] = r]
  BY <1>3 DEF r
<1> QED BY <1>1, <1>4, <1>5

\* Releasing a held low-level handle changes it alone.
LEMMA LLReleasedFacts ==
  ASSUME NEW ls \in [Ids -> LLType], NEW l \in Ids, ls[l].state = "held"
  PROVE  /\ LLReleased(ls, l) \in [Ids -> LLType]
         /\ LLReleased(ls, l)[l].state = "released"
         /\ \A k \in Ids : LLReleased(ls, l)[k].sent = ls[k].sent
                        /\ LLReleased(ls, l)[k].aborted = ls[k].aborted
                        /\ (k # l => LLReleased(ls, l)[k] = ls[k])
<1> DEFINE r == [ls[l] EXCEPT !.state = "released"]
<1>1. LLReleased(ls, l) = [ls EXCEPT ![l] = r]
  BY DEF LLReleased
<1>2. r \in LLType /\ r.state = "released" /\ r.sent = ls[l].sent /\ r.aborted = ls[l].aborted
  BY DEF LLType
<1> HIDE DEF r
<1> QED BY <1>1, <1>2

\* A low-level handle that has sent something more, and contents whose lock
\* or status changes.
Sent(ls, l, s) == [ls EXCEPT ![l].sent = s]
Becomes(cs, c, s) == [cs EXCEPT ![c].status = s]
Locked(cs, c) == [cs EXCEPT ![c].locked = TRUE]
Unlocked(cs, c, s) == [cs EXCEPT ![c].locked = FALSE, ![c].status = s]

\* The low-level cache has sent one more event of a handle.
LEMMA SentFacts ==
  ASSUME NEW ls \in [Ids -> LLType], NEW l \in Ids, NEW s \in {"headers", "data", "ended"}
  PROVE  /\ Sent(ls, l, s) \in [Ids -> LLType]
         /\ \A k \in Ids : Sent(ls, l, s)[k].state = ls[k].state
                        /\ Sent(ls, l, s)[k].aborted = ls[k].aborted
                        /\ (k # l => Sent(ls, l, s)[k] = ls[k])
         /\ Sent(ls, l, s)[l].sent = s
<1> DEFINE r == [ls[l] EXCEPT !.sent = s]
<1>1. Sent(ls, l, s) = [ls EXCEPT ![l] = r]
  BY DEF Sent
<1>2. r \in LLType /\ r.state = ls[l].state /\ r.sent = s /\ r.aborted = ls[l].aborted
  BY DEF LLType
<1> HIDE DEF r
<1> QED BY <1>1, <1>2

\* A content with another status.
LEMMA BecomesFacts ==
  ASSUME NEW cs \in [Ids -> ContentType], NEW c \in Ids, NEW s \in Statuses
  PROVE  /\ Becomes(cs, c, s) \in [Ids -> ContentType]
         /\ \A d \in Ids : Becomes(cs, c, s)[d].users = cs[d].users
                        /\ Becomes(cs, c, s)[d].ll = cs[d].ll
                        /\ Becomes(cs, c, s)[d].locked = cs[d].locked
                        /\ (d # c => Becomes(cs, c, s)[d] = cs[d])
         /\ Becomes(cs, c, s)[c].status = s
<1> DEFINE r == [cs[c] EXCEPT !.status = s]
<1>1. Becomes(cs, c, s) = [cs EXCEPT ![c] = r]
  BY DEF Becomes
<1>2. r \in ContentType /\ r.users = cs[c].users /\ r.ll = cs[c].ll /\ r.status = s
      /\ r.locked = cs[c].locked
  BY DEF ContentType
<1> HIDE DEF r
<1> QED BY <1>1, <1>2

\* A content whose conversion has begun.
LEMMA LockedFacts ==
  ASSUME NEW cs \in [Ids -> ContentType], NEW c \in Ids
  PROVE  /\ Locked(cs, c) \in [Ids -> ContentType]
         /\ \A d \in Ids : Locked(cs, c)[d].users = cs[d].users
                        /\ Locked(cs, c)[d].ll = cs[d].ll
                        /\ Locked(cs, c)[d].status = cs[d].status
                        /\ (d # c => Locked(cs, c)[d] = cs[d])
         /\ Locked(cs, c)[c].locked
<1> DEFINE yes == TRUE
           r == [cs[c] EXCEPT !.locked = yes]
<1>1. Locked(cs, c) = [cs EXCEPT ![c] = r]
  BY DEF Locked
<1>2. yes \in BOOLEAN /\ yes
  OBVIOUS
<1> HIDE DEF yes
<1>3. r \in ContentType /\ r.users = cs[c].users /\ r.ll = cs[c].ll /\ r.status = cs[c].status /\ r.locked = yes
  BY <1>2 DEF ContentType
<1> HIDE DEF r
<1> QED BY <1>1, <1>2, <1>3

\* A content whose conversion has ended.
LEMMA UnlockedFacts ==
  ASSUME NEW cs \in [Ids -> ContentType], NEW c \in Ids, NEW s \in Statuses
  PROVE  /\ Unlocked(cs, c, s) \in [Ids -> ContentType]
         /\ \A d \in Ids : Unlocked(cs, c, s)[d].users = cs[d].users
                        /\ Unlocked(cs, c, s)[d].ll = cs[d].ll
                        /\ (d # c => Unlocked(cs, c, s)[d] = cs[d])
         /\ Unlocked(cs, c, s)[c].status = s /\ ~Unlocked(cs, c, s)[c].locked
<1> DEFINE no == FALSE
           r == [cs[c] EXCEPT !.locked = no, !.status = s]
<1>1. Unlocked(cs, c, s) = [cs EXCEPT ![c] = r]
  BY Zenon DEF Unlocked
<1>2. no \in BOOLEAN /\ ~no
  OBVIOUS
<1> HIDE DEF no
<1>3. r \in ContentType /\ r.users = cs[c].users /\ r.ll = cs[c].ll /\ r.status = s /\ r.locked = no
  BY <1>2 DEF ContentType
<1> HIDE DEF r
<1> QED BY <1>1, <1>2, <1>3

\* A job that is done gives way to jobs of a content.
LEMMA WorkStep ==
  ASSUME work \in Seq(Jobs), work # <<>>, Stack, NEW J \in Seq(Jobs), work' = J \o Tail(work),
         work[1].do \notin {"leave", "refuse"},
         \A i \in 1 .. Len(J) : J[i].do \in ContentJobs \cup {"cast"} /\ Made(content'[J[i].content].status),
         \A c \in Ids : Exists(c) => Exists(c)',
         \A h \in Handles : Migrating(h) /\ context[h] # None => context'[h] # None
  PROVE  work' \in Seq(Jobs) /\ Stack' /\ \A h \in Handles : Leaving(h)' <=> Leaving(h)
<1> DEFINE n == Len(J)
<1>1. /\ work' \in Seq(Jobs) /\ Len(work) \in Nat \ {0} /\ n \in Nat
      /\ Len(work') = n + (Len(work) - 1)
      /\ \A i \in 1 .. n : work'[i] = J[i]
      /\ \A i \in 1 .. Len(work') : i > n => work'[i] = work[i - n + 1]
      /\ \A i \in 2 .. Len(work) : work'[i + n - 1] = work[i] /\ i + n - 1 \in 1 .. Len(work')
  BY RestOfWork
<1>d. \A i \in 1 .. n : J[i].do \in ContentJobs \cup {"cast"} /\ Made(content'[J[i].content].status)
  OBVIOUS
<1> HIDE DEF n
<1>2. ASSUME NEW i \in 1 .. Len(work')
      PROVE  /\ work'[i].do \in {"leave", "refuse"} =>
                   i = Len(work') /\ context'[work'[i].handle] # None
             /\ work'[i].do \in ContentJobs \cup {"cast"} => Made(content'[work'[i].content].status)
  <2>1. CASE i \in 1 .. n
    <3>1. work'[i] = J[i] /\ J[i].do \in ContentJobs \cup {"cast"} /\ Made(content'[J[i].content].status)
      BY <1>1, <1>d, <2>1
    <3> QED BY <3>1 DEF ContentJobs
  <2>2. CASE i > n
    <3> DEFINE k == i - n + 1
    <3>1. k \in 1 .. Len(work) /\ work'[i] = work[k] /\ (k = Len(work) => i = Len(work'))
      <4>1. i \in Nat /\ i <= Len(work')
        BY <1>1
      <4>2. k \in 1 .. Len(work) /\ (k = Len(work) => i = Len(work'))
        BY <1>1, <2>2, <4>1
      <4> QED BY <1>1, <2>2, <4>2
    <3> HIDE DEF k
    <3>2. work[k] \in Jobs /\ k \in DOMAIN work /\ work[k] \in ToSet(work)
      <4>1. k \in DOMAIN work
        BY <3>1, LenProperties
      <4> QED BY <4>1, <3>1, ElementOfSeq DEF ToSet
    <3>3. work[k].do \in {"leave", "refuse"} =>
             k = Len(work) /\ context[work[k].handle] # None /\ work[k].handle \in Handles
      BY <3>1, <3>2, JobFields DEF Stack
    <3>4. work[k].do \in {"leave", "refuse"} => context'[work[k].handle] # None
      BY <3>2, <3>3 DEF Migrating
    <3>5. work[k].do \in ContentJobs \cup {"cast"} => Made(content'[work[k].content].status)
      <4>1. work[k].do \in ContentJobs \cup {"cast"} => Exists(work[k].content)
        BY <3>1 DEF Stack
      <4>2. work[k].do \in ContentJobs \cup {"cast"} => work[k].content \in Ids
        BY <3>2, JobFields
      <4> QED BY <4>1, <4>2 DEF Exists
    <3> QED BY <3>1, <3>3, <3>4, <3>5
  <2> QED BY <1>1, <2>1, <2>2
<1>3. ASSUME NEW h \in Handles PROVE Leaving(h)' <=> Leaving(h)
  <2>0. Leave(h).do = "leave"
    BY DEF Leave
  <2>1. ASSUME NEW i \in 1 .. Len(work), work[i] = Leave(h) PROVE Leaving(h)'
    <3>1. i # 1
      BY <2>0, <2>1
    <3>2. i \in 2 .. Len(work)
      BY <1>1, <3>1
    <3> QED BY <1>1, <2>1, <3>2 DEF Leaving
  <2>2. ASSUME NEW i \in 1 .. Len(work'), work'[i] = Leave(h) PROVE Leaving(h)
    <3>1. ~(i \in 1 .. n)
      <4>1. i \in 1 .. n => work'[i].do # "leave"
        BY <1>1, <1>d DEF ContentJobs
      <4> QED BY <2>0, <2>2, <4>1
    <3>2. i > n /\ i - n + 1 \in 1 .. Len(work)
      <4>1. i \in Nat /\ i > n
        BY <1>1, <3>1
      <4> QED BY <1>1, <4>1
    <3> QED BY <1>1, <2>2, <3>2 DEF Leaving
  <2> QED BY <2>1, <2>2 DEF Leaving
<1>4. Stack'
  BY <1>2 DEF Stack, Exists
<1> QED BY <1>1, <1>3, <1>4

\* A step that leaves the ownership alone.
LEMMA Quiet ==
  ASSUME Base, Types',
         \A h \in Handles :
            /\ handle'[h].state = handle[h].state /\ handle'[h].content = handle[h].content
            /\ handle[h].aborted => handle'[h].aborted,
         context' = context, list' = list, downloads' = downloads,
         \A c \in Ids : /\ content'[c].users = content[c].users /\ content'[c].ll = content[c].ll
                        /\ Exists(c)' <=> Exists(c),
         \A l \in Ids : ll'[l].state = ll[l].state,
         Stack', \A h \in Handles : Leaving(h)' <=> Leaving(h)
  PROVE  Base'
<1>1. Sharing'
  <2>1. \A c \in Ids : Users(c)' = Users(c)
    BY DEF Users
  <2>2. \A h \in Handles : handle'[h].content = handle[h].content /\ handle[h].content \in Ids \cup {None}
    BY DEF Base, Types, HandleType
  <2>3. /\ \A c \in Ids : IsInjective(Users(c))
        /\ \A c \in Ids : \A h \in Handles :
              h \in ToSet(Users(c)) <=> handle[h].content = c
        /\ \A h \in Handles : handle[h].content # None => Exists(handle[h].content)
        /\ IsInjective(list)
        /\ \A c \in Ids : c \in ToSet(list) <=> Exists(c)
        /\ \A c \in Ids : content[c].ll = IF Exists(c) THEN c ELSE None
    BY DEF Base, Sharing
  <2>4. \A h \in Handles : handle'[h].content # None => Made(content'[handle'[h].content].status)
    BY <2>2, <2>3 DEF Exists
  <2> QED BY <2>1, <2>2, <2>3, <2>4 DEF Sharing, Exists
<1>2. \A l \in Ids : Waiting(l)' <=> Waiting(l)
  BY DEF Waiting
<1>3. Owned'
  BY <1>2 DEF Base, Owned
<1>4. Fresh'
  BY IdFacts DEF Base, Fresh
<1> QED BY <1>1, <1>3, <1>4 DEF Base

-----------------------------------------------------------------------------
\* Jobs of one content, which are all that a conversion leaves to do.
OfContent(J, c) ==
  /\ J \in Seq(Jobs)
  /\ \A i \in 1 .. Len(J) : J[i].do \in ContentJobs \cup {"cast"} /\ J[i].content = c

\* The jobs that concern one content.
LEMMA ContentSeqs ==
  ASSUME NEW c \in Ids
  PROVE  /\ OfContent(<<>>, c)
         /\ \A t \in ContentJobs : OfContent(<<Do(t, c)>>, c)
         /\ \A t, s \in ContentJobs : OfContent(<<Do(t, c), Do(s, c)>>, c)
         /\ \A m \in Messages, u \in Handles \cup {None} :
               /\ OfContent(<<Cast(c, m, u)>>, c)
               /\ \A t \in ContentJobs : OfContent(<<Cast(c, m, u), Do(t, c)>>, c)
<1> DEFINE Of == {j \in Jobs : j.do \in ContentJobs \cup {"cast"} /\ j.content = c}
<1>1. \A t \in ContentJobs : Do(t, c) \in Of
  <2>1. \A t \in ContentJobs : Do(t, c).do = t /\ Do(t, c).content = c
    BY DEF Do
  <2> QED BY <2>1, JobTypes
<1>2. \A m \in Messages, u \in Handles \cup {None} : Cast(c, m, u) \in Of
  <2>1. \A m \in Messages, u \in Handles \cup {None} :
           Cast(c, m, u).do = "cast" /\ Cast(c, m, u).content = c
    BY DEF Cast
  <2> QED BY <2>1, JobTypes
<1>3. \A j \in Of : j \in Jobs /\ j.do \in ContentJobs \cup {"cast"} /\ j.content = c
  OBVIOUS
<1> HIDE DEF Of
<1>4. OfContent(<<>>, c)
  BY DEF OfContent
<1>5. \A j \in Of : OfContent(<<j>>, c)
  BY <1>3 DEF OfContent
<1>6. \A j, k \in Of : OfContent(<<j, k>>, c)
  <2> SUFFICES ASSUME NEW j \in Of, NEW k \in Of PROVE OfContent(<<j, k>>, c)
    OBVIOUS
  <2>1. \A i \in 1 .. Len(<<j, k>>) : <<j, k>>[i] \in Of
    OBVIOUS
  <2>2. <<j, k>> \in Seq(Jobs)
    BY <1>3
  <2> QED BY <1>3, <2>1, <2>2 DEF OfContent
<1> QED BY <1>1, <1>2, <1>4, <1>5, <1>6

\* The users a broadcast goes to are handles.
LEMMA UserTypes ==
  ASSUME content \in [Ids -> ContentType], NEW c \in Ids
  PROVE  /\ content[c].users \in Seq(Handles)
         /\ FirstUser(c) \in Handles \cup {None}
         /\ \A u : u \in ToSet(content[c].users) => NextUser(content[c].users, u) \in Handles \cup {None}
<1>1. content[c].users \in Seq(Handles)
  BY DEF ContentType
<1> DEFINE s == content[c].users
<1>2. FirstUser(c) \in Handles \cup {None}
  BY <1>1, EmptySeq, HeadTailProperties DEF FirstUser
<1>3. ASSUME NEW u, u \in ToSet(s) PROVE NextUser(s, u) \in Handles \cup {None}
  <2> DEFINE i == CHOOSE n \in 1 .. Len(s) : s[n] = u
  <2>1. \E n \in 1 .. Len(s) : s[n] = u
    <3>1. DOMAIN s = 1 .. Len(s)
      BY <1>1, LenProperties
    <3> QED BY <1>3, <3>1 DEF ToSet
  <2>2. i \in 1 .. Len(s)
    BY <2>1
  <2>3. NextUser(s, u) = IF i = Len(s) THEN None ELSE s[i + 1]
    BY DEF NextUser
  <2>4. Len(s) \in Nat
    BY <1>1, LenProperties
  <2> HIDE DEF i
  <2>5. i # Len(s) => i + 1 \in 1 .. Len(s)
    BY <2>2, <2>4
  <2>6. i # Len(s) => s[i + 1] \in Handles
    BY <1>1, <2>5, ElementOfSeq
  <2> QED BY <2>3, <2>6
<1> QED BY <1>1, <1>2, <1>3

\* What a conversion may leave to do.
LEMMA ConversionJobs ==
  ASSUME content \in [Ids -> ContentType], NEW c \in Ids, NEW J \in Success(c) \cup Failure(c)
  PROVE  OfContent(J, c)
<1>1. {"ready", "done", "error"} \subseteq ContentJobs /\ "ERROR" \in Messages
  BY DEF ContentJobs, Messages
<1>2. J \in {<<Do("ready", c), Do("done", c)>>, <<Do("ready", c)>>,
             <<Broadcast(c, "ERROR"), Do("error", c)>>, <<Do("error", c)>>}
  BY DEF Success, Failure
<1> QED BY <1>1, <1>2, ContentSeqs, UserTypes DEF Broadcast

\* When nothing is left to do, no context is on its way to a content.
LEMMA NothingLeft ==
  work = <<>> => \A h \in Handles : ~Leaving(h) /\ ~Migrating(h)
BY DEF Leaving, Migrating, ToSet

\* An event of a content begins jobs of that content.
LEMMA IdleStep ==
  ASSUME work = <<>>, NEW c \in Ids, OfContent(work', c), Made(content'[c].status)
  PROVE  work' \in Seq(Jobs) /\ Stack' /\ \A h \in Handles : Leaving(h)' <=> Leaving(h)
<1>1. \A i \in 1 .. Len(work') : work'[i].do \in ContentJobs \cup {"cast"} /\ work'[i].content = c
  BY DEF OfContent
<1>2. \A h \in Handles : Leave(h).do = "leave"
  BY DEF Leave
<1>3. Stack'
  BY <1>1 DEF Stack, Exists, ContentJobs
<1>4. \A h \in Handles : ~Leaving(h)'
  BY <1>1, <1>2 DEF Leaving, ContentJobs
<1> QED BY <1>3, <1>4, NothingLeft DEF OfContent

\* A job of a content that is replaced by others of the same content.
LEMMA ContentStep ==
  ASSUME Base, work # <<>>, work[1].do \notin {"leave", "refuse"},
         NEW c \in Ids, NEW J, OfContent(J, c), Made(content'[c].status), work' = J \o Tail(work),
         \A d \in Ids : Exists(d) => Exists(d)', context' = context
  PROVE  work' \in Seq(Jobs) /\ Stack' /\ \A h \in Handles : Leaving(h)' <=> Leaving(h)
<1>1. J \in Seq(Jobs) /\ \A i \in 1 .. Len(J) :
         J[i].do \in ContentJobs \cup {"cast"} /\ Made(content'[J[i].content].status)
  BY DEF OfContent
<1> QED BY <1>1, WorkStep DEF Base, Types

-----------------------------------------------------------------------------
(***************************************************************************)
(* The first half of the invariant is kept.                                *)
(***************************************************************************)

\* A content nothing is known of.
LEMMA NoContentType == NoContent \in ContentType
<1> DEFINE no == FALSE
<1>1. no \in BOOLEAN /\ NoContent = [status |-> "none", locked |-> no, users |-> <<>>,
          object |-> None, ll |-> None, stopped |-> no]
  BY DEF NoContent
<1> HIDE DEF no
<1> QED BY <1>1 DEF ContentType, Statuses

\* In the beginning.
LEMMA InitBase == Init => Base
<1> SUFFICES ASSUME Init PROVE Base
  OBVIOUS
<1> USE DEF Init
<1>1. Types
  <2>1. \A h \in Handles : handle[h] \in HandleType
    BY DEF HandleType
  <2>2. NoContent \in ContentType
    BY NoContentType
  <2>3. NoLL \in LLType
    <3> DEFINE no == FALSE
    <3>1. no \in BOOLEAN /\ NoLL = [state |-> "none", object |-> None, sent |-> "none", aborted |-> no]
      BY DEF NoLL
    <3> HIDE DEF no
    <3> QED BY <3>1 DEF LLType
  <2>4. handle \in [Handles -> HandleType]
    BY <2>1
  <2>5. content \in [Ids -> ContentType] /\ ll \in [Ids -> LLType]
    BY <2>2, <2>3
  <2>6. context \in [Handles -> Ids \cup {None}] /\ list \in Seq(Ids) /\ downloads \subseteq Ids
        /\ told \in [Handles -> Seq(Messages)] /\ work \in Seq(Jobs)
    OBVIOUS
  <2> QED BY <2>4, <2>5, <2>6 DEF Types
<1>2. \A h \in Handles : handle[h].content = None /\ context[h] = None
  OBVIOUS
<1>3. \A c \in Ids : content[c].users = <<>> /\ content[c].status = "none" /\ content[c].ll = None
  BY DEF NoContent
<1>4. \A l \in Ids : ll[l].state = "none"
  BY DEF NoLL
<1>5. Sharing
  BY <1>2, <1>3, IdFacts, SmallLists DEF Sharing, Users, Exists, Made
<1>6. Stack
  BY DEF Stack
<1>7. Owned
  BY <1>2, <1>3, <1>4 DEF Owned, Waiting, Exists, Made
<1>8. Fresh
  BY <1>2, <1>4, IdFacts DEF Fresh
<1> QED BY <1>1, <1>5, <1>6, <1>7, <1>8 DEF Base

\* The events of a content change what it is in and what has arrived, and
\* never who uses it.
LEMMA ContentEventBase ==
  ASSUME Base, NEW c \in Ids,
         ContentEvent(c) \/ ConversionEnds(c) \/ PageEnds(c)
  PROVE  Base'
<1>1. Types /\ Idle /\ work = <<>>
  BY DEF Base, ContentEvent, Data, Complete, Fail, ConversionEnds, PageEnds, Open, Idle
<1>2. Exists(c) /\ (ContentEvent(c) => content[c].ll = c)
  BY DEF Base, Sharing, Exists, Made, ContentEvent, Data, Complete, Fail, Open, ConversionEnds,
         Converting, PageEnds
<1>3. \A m \in Messages : OfContent(<<Broadcast(c, m)>>, c)
         /\ \A t \in ContentJobs : OfContent(<<Broadcast(c, m), Do(t, c)>>, c)
  BY <1>1, ContentSeqs, UserTypes DEF Broadcast, Types
<1>4. {"convert", "spoil", "done"} \subseteq ContentJobs /\ "ERROR" \in Messages
  BY DEF ContentJobs, Messages
<1>5. ASSUME OfContent(work', c), content' \in [Ids -> ContentType], ll' \in [Ids -> LLType],
             handle' = handle, context' = context, list' = list, downloads' = downloads,
             told' = told,
             \A d \in Ids : /\ content'[d].users = content[d].users
                            /\ content'[d].ll = content[d].ll
                            /\ Exists(d)' <=> Exists(d),
             \A l \in Ids : ll'[l].state = ll[l].state
      PROVE  Base'
  <2>1. Made(content'[c].status)
    BY <1>2, <1>5 DEF Exists
  <2>2. work' \in Seq(Jobs) /\ Stack' /\ \A h \in Handles : Leaving(h)' <=> Leaving(h)
    BY <1>1, <1>5, <2>1, IdleStep
  <2>3. Types'
    BY <1>1, <1>5, <2>2 DEF Types
  <2> QED BY <1>5, <2>2, <2>3, Quiet
<1>a. ll \in [Ids -> LLType] /\ content \in [Ids -> ContentType]
  BY <1>1 DEF Types
<1>b. \A s \in {"data", "ended"} :
         /\ Sent(ll, c, s) \in [Ids -> LLType]
         /\ \A l \in Ids : Sent(ll, c, s)[l].state = ll[l].state
  BY <1>a, SentFacts
<1>6. CASE Data(c)
  <2>1. ll' = Sent(ll, c, "data")
    BY <1>2, <1>6 DEF Data, Sent, ContentEvent
  <2>2. ll' \in [Ids -> LLType] /\ \A l \in Ids : ll'[l].state = ll[l].state
    BY <1>b, <2>1
  <2>3. OfContent(work', c)
    BY <1>3, <1>4, <1>6, ContentSeqs DEF Data
  <2> QED BY <1>1, <1>5, <1>6, <2>2, <2>3 DEF Data, Types, Exists
<1>7. CASE Complete(c)
  <2>1. ll' = Sent(ll, c, "ended")
    BY <1>2, <1>7 DEF Complete, Sent, ContentEvent
  <2>2. ll' \in [Ids -> LLType] /\ \A l \in Ids : ll'[l].state = ll[l].state
    BY <1>b, <2>1
  <2>3. OfContent(work', c)
    BY <1>4, <1>7, ContentSeqs DEF Complete
  <2> QED BY <1>1, <1>5, <1>7, <2>2, <2>3 DEF Complete, Types, Exists
<1>8. CASE Fail(c)
  <2>1. ll' = Sent(ll, c, "ended") /\ content' = Becomes(content, c, "ERROR")
    BY <1>2, <1>8 DEF Fail, Sent, Becomes, ContentEvent
  <2>2. ll' \in [Ids -> LLType] /\ \A l \in Ids : ll'[l].state = ll[l].state
    BY <1>b, <2>1
  <2>3. OfContent(work', c)
    BY <1>3, <1>4, <1>8 DEF Fail
  <2>4. content' \in [Ids -> ContentType] /\ content'[c].status = "ERROR"
        /\ \A d \in Ids : content'[d].users = content[d].users /\ content'[d].ll = content[d].ll
                          /\ (d # c => content'[d] = content[d])
    <3>1. "ERROR" \in Statuses
      BY DEF Statuses
    <3>2. /\ Becomes(content, c, "ERROR") \in [Ids -> ContentType]
          /\ Becomes(content, c, "ERROR")[c].status = "ERROR"
          /\ \A d \in Ids : /\ Becomes(content, c, "ERROR")[d].users = content[d].users
                            /\ Becomes(content, c, "ERROR")[d].ll = content[d].ll
                            /\ d # c => Becomes(content, c, "ERROR")[d] = content[d]
      BY <1>a, <3>1, BecomesFacts
    <3> QED BY <2>1, <3>2
  <2>5. \A d \in Ids : Exists(d)' <=> Exists(d)
    BY <1>2, <2>4 DEF Exists, Made
  <2> QED BY <1>5, <1>8, <2>2, <2>3, <2>4, <2>5 DEF Fail
<1>9. CASE ConversionEnds(c) \/ PageEnds(c)
  <2>1. OfContent(work', c)
    BY <1>1, <1>4, <1>9, ContentSeqs, ConversionJobs DEF ConversionEnds, PageEnds, Types
  <2> QED BY <1>1, <1>5, <1>9, <2>1 DEF ConversionEnds, PageEnds, Types, Exists
<1> QED BY <1>6, <1>7, <1>8, <1>9 DEF ContentEvent

\* Nor do the jobs of a content, but for what the callbacks do.
LEMMA ContentJobBase ==
  ASSUME Base, DoConvert \/ DoReady \/ DoDone \/ DoError \/ DoSpoil
  PROVE  Base'
<1> DEFINE j == Head(work)
           c == j.content
<1>1. Types /\ work # <<>> /\ j = work[1] /\ j.do \in ContentJobs /\ 1 \in 1 .. Len(work)
  <2>1. Types /\ work # <<>> /\ work \in Seq(Jobs) /\ j.do \in ContentJobs
    BY DEF Base, Types, DoConvert, DoReady, DoDone, DoError, DoSpoil, Now, ContentJobs
  <2>2. Len(work) \in Nat \ {0}
    BY <2>1, EmptySeq, LenProperties
  <2> QED BY <2>1, <2>2, HeadTailProperties
<1>2. c \in Ids /\ Exists(c) /\ content[c].ll = c
  <2>1. work[1] \in Jobs
    BY <1>1, ElementOfSeq DEF Types
  <2> QED BY <1>1, <2>1, JobFields DEF Base, Stack, Sharing
<1>3. \A m \in Messages : OfContent(<<Broadcast(c, m)>>, c)
  <2>1. ASSUME NEW m \in Messages PROVE OfContent(<<Broadcast(c, m)>>, c)
    <3>1. FirstUser(c) \in Handles \cup {None}
      BY <1>1, <1>2, UserTypes DEF Types
    <3> QED BY <1>2, <3>1, ContentSeqs DEF Broadcast
  <2> QED BY <2>1
<1>d. c = Head(work).content
  OBVIOUS
<1>t. work[1].do \notin {"leave", "refuse"}
  BY <1>1 DEF ContentJobs
<1> HIDE DEF j, c
<1>4. ASSUME NEW J, OfContent(J, c), work' = J \o Tail(work),
             content' \in [Ids -> ContentType], ll' \in [Ids -> LLType],
             handle' = handle, context' = context, list' = list, downloads' = downloads,
             told' = told,
             \A d \in Ids : /\ content'[d].users = content[d].users
                            /\ content'[d].ll = content[d].ll
                            /\ Exists(d)' <=> Exists(d),
             \A l \in Ids : ll'[l].state = ll[l].state
      PROVE  Base'
  <2>1. Made(content'[c].status)
    BY <1>2, <1>4 DEF Exists
  <2>2. work' \in Seq(Jobs) /\ Stack' /\ \A h \in Handles : Leaving(h)' <=> Leaving(h)
    BY <1>1, <1>2, <1>t, <1>4, <2>1, ContentStep
  <2>3. Types'
    BY <1>1, <1>4, <2>2 DEF Types
  <2> QED BY <1>4, <2>2, <2>3, Quiet
<1>5. CASE DoConvert
  <2>1. OfContent(<<>>, c) /\ \A J \in Success(c) \cup Failure(c) : OfContent(J, c)
    BY <1>1, <1>2, ContentSeqs, ConversionJobs DEF Types
  <2>2. PICK J : OfContent(J, c) /\ work' = J \o Tail(work)
    BY <1>5, <1>d, <2>1 DEF DoConvert, Then
  <2>3. content' = content \/ content' = Locked(content, c)
    BY <1>5, <1>d DEF DoConvert, Locked
  <2>4. content' \in [Ids -> ContentType]
        /\ \A d \in Ids : content'[d].users = content[d].users /\ content'[d].ll = content[d].ll
                          /\ content'[d].status = content[d].status
    <3>1. content \in [Ids -> ContentType]
      BY <1>1 DEF Types
    <3>2. CASE content' = content
      BY <3>1, <3>2
    <3>3. CASE content' = Locked(content, c)
      BY <1>2, <3>1, <3>3, LockedFacts
    <3> QED BY <2>3, <3>2, <3>3
  <2>5. \A d \in Ids : Exists(d)' <=> Exists(d)
    BY <2>4 DEF Exists
  <2>6. /\ handle' = handle /\ context' = context /\ list' = list /\ downloads' = downloads
        /\ told' = told /\ ll' = ll /\ ll \in [Ids -> LLType]
    BY <1>1, <1>5 DEF DoConvert, Types
  <2> QED BY <1>4, <2>2, <2>4, <2>5, <2>6
<1>6. CASE DoReady \/ DoDone \/ DoError
  <2>1. \E s \in {"READY", "DONE", "ERROR"} :
           content' \in {Unlocked(content, c, s), Becomes(content, c, s)}
    BY <1>6, <1>d DEF DoReady, DoDone, DoError, Unlocked, Becomes
  <2>2. content' \in [Ids -> ContentType] /\ content'[c].status \in {"READY", "DONE", "ERROR"}
        /\ \A d \in Ids : content'[d].users = content[d].users /\ content'[d].ll = content[d].ll
                          /\ (d # c => content'[d] = content[d])
    <3>1. PICK s \in {"READY", "DONE", "ERROR"} :
             content' \in {Unlocked(content, c, s), Becomes(content, c, s)}
      BY <2>1
    <3>2. s \in Statuses
      BY DEF Statuses
    <3>3. content \in [Ids -> ContentType]
      BY <1>1 DEF Types
    <3>4. CASE content' = Unlocked(content, c, s)
      BY <1>2, <3>2, <3>3, <3>4, UnlockedFacts
    <3>5. CASE content' = Becomes(content, c, s)
      BY <1>2, <3>2, <3>3, <3>5, BecomesFacts
    <3> QED BY <3>1, <3>4, <3>5
  <2>3. \A d \in Ids : Exists(d)' <=> Exists(d)
    BY <1>2, <2>2 DEF Exists, Made
  <2>4. \E J : OfContent(J, c) /\ work' = J \o Tail(work)
    <3>1. "READY" \in Messages /\ "DONE" \in Messages /\ OfContent(<<>>, c)
      BY <1>2, ContentSeqs DEF Messages
    <3> QED BY <1>3, <1>6, <1>d, <3>1 DEF DoReady, DoDone, DoError, Then
  <2> QED BY <1>1, <1>4, <1>6, <2>2, <2>3, <2>4 DEF DoReady, DoDone, DoError, Types
<1>7. CASE DoSpoil
  <2>1. content' = Becomes(content, c, "ERROR") /\ ll' = LLAborted(ll, c)
        /\ work' = <<>> \o Tail(work)
    BY <1>2, <1>7, <1>d DEF DoSpoil, Then, Becomes
  <2>2. content' \in [Ids -> ContentType] /\ content'[c].status = "ERROR"
        /\ \A d \in Ids : content'[d].users = content[d].users /\ content'[d].ll = content[d].ll
                          /\ (d # c => content'[d] = content[d])
    <3>1. "ERROR" \in Statuses
      BY DEF Statuses
    <3>2. content \in [Ids -> ContentType]
      BY <1>1 DEF Types
    <3> QED BY <1>2, <2>1, <3>1, <3>2, BecomesFacts
  <2>3. \A d \in Ids : Exists(d)' <=> Exists(d)
    BY <1>2, <2>2 DEF Exists, Made
  <2>4. ll' \in [Ids -> LLType] /\ \A l \in Ids : ll'[l].state = ll[l].state
    BY <1>1, <1>2, <2>1, LLAbortedFacts DEF Types
  <2>5. OfContent(<<>>, c)
    BY <1>2, ContentSeqs
  <2> QED BY <1>4, <1>7, <2>1, <2>2, <2>3, <2>4, <2>5 DEF DoSpoil
<1> QED BY <1>5, <1>6, <1>7

-----------------------------------------------------------------------------

\* A context that is thrown away gives up its low-level handle.
LEMMA ContextGone ==
  ASSUME Types, Owned, Fresh, NEW h \in Handles, context[h] # None, ~Leaving(h),
         \A g \in Handles : context'[g] = IF g = h THEN None ELSE context[g],
         \A l \in Ids : ll'[l].state = IF l = context[h] THEN "released" ELSE ll[l].state,
         \A c \in Ids : Exists(c)' <=> Exists(c), downloads' = downloads,
         \A g \in Handles : g # h => (Leaving(g)' <=> Leaving(g))
  PROVE  Owned'
<1>1. context[h] = <<h, "made">> /\ <<h, "made">> \in Ids /\ Waiting(<<h, "made">>)
  BY IdFacts DEF Fresh, Waiting
<1>2. \A l \in Ids : Waiting(l)' <=> Waiting(l) /\ l # <<h, "made">>
  BY IdFacts DEF Waiting
<1>3. ~Exists(<<h, "made">>) /\ <<h, "made">> \notin downloads
  BY <1>1 DEF Owned
<1> QED BY <1>1, <1>2, <1>3 DEF Owned

\* The low-level handle of a context that is not being taken anywhere is held.
LEMMA ContextHolds ==
  ASSUME Types, Owned, Fresh, NEW h \in Handles, context[h] # None, ~Leaving(h)
  PROVE  /\ context[h] = <<h, "made">> /\ context[h] \in Ids /\ ll[context[h]].state = "held"
         /\ ~Exists(context[h]) /\ context[h] \notin downloads /\ handle[h].content = None
         /\ LLReleased(LLAborted(ll, context[h]), context[h]) \in [Ids -> LLType]
         /\ \A l \in Ids : /\ LLReleased(LLAborted(ll, context[h]), context[h])[l].state =
                                IF l = context[h] THEN "released" ELSE ll[l].state
                           /\ l # context[h] =>
                                LLReleased(LLAborted(ll, context[h]), context[h])[l] = ll[l]
<1>1. context[h] = <<h, "made">> /\ context[h] \in Ids /\ Waiting(context[h])
      /\ handle[h].content = None
  BY IdFacts DEF Fresh, Waiting
<1>2. ll[context[h]].state = "held" /\ ~Exists(context[h]) /\ context[h] \notin downloads
  BY <1>1 DEF Owned
<1> DEFINE la == LLAborted(ll, context[h])
<1>3. /\ la \in [Ids -> LLType] /\ \A l \in Ids : la[l].state = ll[l].state
      /\ \A l \in Ids : l # context[h] => la[l] = ll[l]
  BY <1>1, LLAbortedFacts DEF Types
<1> HIDE DEF la
<1>4. LLReleased(la, context[h]) \in [Ids -> LLType]
      /\ LLReleased(la, context[h])[context[h]].state = "released"
      /\ \A l \in Ids : l # context[h] => LLReleased(la, context[h])[l] = la[l]
  <2>1. la \in [Ids -> LLType] /\ context[h] \in Ids /\ la[context[h]].state = "held"
    BY <1>1, <1>2, <1>3
  <2> QED BY <2>1, LLReleasedFacts
<1> QED BY <1>1, <1>2, <1>3, <1>4 DEF la

\* A handle's context is not being taken anywhere when it is nascent.
Nascent(h) == handle[h].content = None /\ context[h] # None /\ ~Migrating(h)

\* A context that is about to be freed is migrating.
LEMMA LeavingMigrates ==
  ASSUME work \in Seq(Jobs), NEW h \in Handles, Leaving(h)
  PROVE  Migrating(h)
<1>1. PICK i \in 1 .. Len(work) : work[i] = Leave(h)
  BY DEF Leaving
<1>2. i \in DOMAIN work
  BY LenProperties
<1>3. work[i] \in ToSet(work)
  BY <1>2 DEF ToSet
<1>4. work[i].do = "leave" /\ work[i].handle = h
  BY <1>1 DEF Leave
<1> QED BY <1>3, <1>4 DEF Migrating

\* What releasing handles, of which at most one has a context alone, changes.
LEMMA ReleasedFacts ==
  ASSUME Types, NEW R \in SUBSET Handles, \A g, h \in R : g = h, Released(R)
  PROVE  /\ handle' \in [Handles -> HandleType]
         /\ \A h \in Handles : h \in R => handle'[h].state = "gone" /\ handle'[h].content = None
                                       /\ handle'[h].aborted = handle[h].aborted
         /\ \A h \in Handles : h \notin R => handle'[h] = handle[h]
         /\ content' \in [Ids -> ContentType]
         /\ \A c \in Ids : /\ content'[c].users = Without(content[c].users, R)
                           /\ content'[c].status = content[c].status
                           /\ content'[c].ll = content[c].ll
                           /\ content'[c].locked = content[c].locked
         /\ \/ context' = context /\ ll' = ll
            \/ \E h \in R : /\ Nascent(h)
                            /\ context' = [context EXCEPT ![h] = None]
                            /\ ll' = LLReleased(LLAborted(ll, context[h]), context[h])
<1>1. /\ handle' = [h \in Handles |->
             IF h \in R THEN [handle[h] EXCEPT !.state = "gone", !.content = None] ELSE handle[h]]
      /\ content' = [c \in Ids |-> [content[c] EXCEPT !.users = Without(content[c].users, R)]]
  BY DEF Released
<1>2. ASSUME NEW h \in Handles
      PROVE  LET r == [handle[h] EXCEPT !.state = "gone", !.content = None]
             IN  r \in HandleType /\ r.state = "gone" /\ r.content = None
                 /\ r.aborted = handle[h].aborted
  BY DEF Types, HandleType
<1>3. ASSUME NEW c \in Ids
      PROVE  LET r == [content[c] EXCEPT !.users = Without(content[c].users, R)]
             IN  r \in ContentType /\ r.users = Without(content[c].users, R)
                 /\ r.status = content[c].status /\ r.ll = content[c].ll
                 /\ r.locked = content[c].locked
  <2> DEFINE w == Without(content[c].users, R)
  <2>1. content[c] \in ContentType /\ content[c].users \in Seq(Handles)
    BY DEF Types, ContentType
  <2>2. w \in Seq(Handles)
    BY <2>1, WithoutProperties
  <2> HIDE DEF w
  <2>3. LET r == [content[c] EXCEPT !.users = w]
        IN  r \in ContentType /\ r.users = w /\ r.status = content[c].status
            /\ r.ll = content[c].ll /\ r.locked = content[c].locked
    BY <2>1, <2>2 DEF ContentType
  <2> QED BY <2>3 DEF w
<1> DEFINE hr(h) == [handle[h] EXCEPT !.state = "gone", !.content = None]
           cr(c) == [content[c] EXCEPT !.users = Without(content[c].users, R)]
<1>4. /\ handle' = [h \in Handles |-> IF h \in R THEN hr(h) ELSE handle[h]]
      /\ content' = [c \in Ids |-> cr(c)]
      /\ \A h \in Handles : hr(h) \in HandleType /\ hr(h).state = "gone" /\ hr(h).content = None
                            /\ hr(h).aborted = handle[h].aborted
      /\ \A c \in Ids : cr(c) \in ContentType /\ cr(c).users = Without(content[c].users, R)
                 /\ cr(c).status = content[c].status /\ cr(c).ll = content[c].ll
                 /\ cr(c).locked = content[c].locked
  BY <1>1, <1>2, <1>3
<1> HIDE DEF hr, cr
<1>5. /\ handle' \in [Handles -> HandleType]
      /\ \A h \in Handles : h \in R => handle'[h] = hr(h)
      /\ \A h \in Handles : h \notin R => handle'[h] = handle[h]
      /\ content' \in [Ids -> ContentType] /\ \A c \in Ids : content'[c] = cr(c)
  <2>1. \A h \in Handles : handle[h] \in HandleType
    BY DEF Types
  <2> QED BY <1>4, <2>1
<1>6. \/ context' = context /\ ll' = ll
      \/ \E h \in R : /\ Nascent(h)
                      /\ context' = [context EXCEPT ![h] = None]
                      /\ ll' = LLReleased(LLAborted(ll, context[h]), context[h])
  <2> DEFINE N == {h \in R : handle[h].content = None /\ context[h] # None /\ ~Migrating(h)}
             w == CHOOSE h \in N : TRUE
  <2>1. /\ context' = [h \in Handles |-> IF h \in N THEN None ELSE context[h]]
        /\ ll' = IF N = {} THEN ll ELSE LLReleased(LLAborted(ll, context[w]), context[w])
    BY DEF Released
  <2>2. \A h \in N : h \in R /\ h \in Handles /\ Nascent(h)
    BY DEF Nascent
  <2>3. N # {} => w \in N
    OBVIOUS
  <2>4. context \in [Handles -> Ids \cup {None}]
    BY DEF Types
  <2> HIDE DEF N, w
  <2>5. CASE N = {}
    <3>1. context' = context
      BY <2>1, <2>4, <2>5
    <3> QED BY <2>1, <2>5, <3>1
  <2>6. CASE N # {}
    <3>1. w \in R /\ w \in Handles /\ Nascent(w) /\ \A h \in N : h = w
      BY <2>2, <2>3, <2>6
    <3>2. context' = [context EXCEPT ![w] = None]
      BY <2>1, <2>3, <2>4, <2>6, <3>1
    <3> QED BY <2>1, <2>6, <3>1, <3>2
  <2> QED BY <2>5, <2>6
<1> QED BY <1>4, <1>5, <1>6

\* Sharing, when some handles leave the contents they use.
LEMMA SharingLeft ==
  ASSUME Types, Sharing, NEW R \in SUBSET Handles,
         \A h \in Handles : handle'[h].content = IF h \in R THEN None ELSE handle[h].content,
         \A c \in Ids : /\ content'[c].users = Without(content[c].users, R)
                        /\ content'[c].status = content[c].status
                        /\ content'[c].ll = content[c].ll,
         list' = list
  PROVE  Sharing'
<1>1. \A c \in Ids : Exists(c)' <=> Exists(c)
  BY DEF Exists
<1>2. \A c \in Ids : Users(c) \in Seq(Handles)
        /\ IsInjective(Users(c))
  BY DEF Types, ContentType, Users, Sharing
<1>3. \A c \in Ids :
         /\ IsInjective(Users(c)')
         /\ \A x \in Handles : x \in ToSet(Users(c)')
                 <=> x \notin R /\ x \in ToSet(Users(c))
  <2> TAKE c \in Ids
  <2>1. Users(c)' = Without(Users(c), R)
    BY DEF Users
  <2> QED BY <1>2, <2>1, WithoutSet
<1>4. \A c \in Ids : \A h \in Handles :
         h \in ToSet(Users(c)') <=> handle'[h].content = c
  <2> TAKE c \in Ids
  <2> TAKE h \in Handles
  <2>1. h \in ToSet(Users(c)) <=> handle[h].content = c
    BY DEF Sharing
  <2>2. None # c
    BY IdFacts
  <2> QED BY <1>3, <2>1, <2>2
<1>5. \A h \in Handles : handle'[h].content # None => Made(content'[handle'[h].content].status)
  <2> SUFFICES ASSUME NEW h \in Handles, handle'[h].content # None
               PROVE  Made(content'[handle'[h].content].status)
    OBVIOUS
  <2>1. handle'[h].content = handle[h].content /\ handle[h].content \in Ids
    BY DEF Types, HandleType
  <2>2. Exists(handle[h].content)
    BY <2>1, IdFacts DEF Sharing
  <2> QED BY <2>1, <2>2 DEF Exists
<1>6. /\ IsInjective(list)
      /\ \A c \in Ids : c \in ToSet(list) <=> Exists(c)
      /\ \A c \in Ids : content[c].ll = IF Exists(c) THEN c ELSE None
  BY DEF Sharing
<1>7. \A c \in Ids : content'[c].ll = IF Exists(c)' THEN c ELSE None
  BY <1>1, <1>6
<1> QED BY <1>1, <1>3, <1>4, <1>5, <1>6, <1>7 DEF Sharing, Exists

\* Whatever a callback releases, the first half of the invariant is kept.
LEMMA ReleasedBase ==
  ASSUME Base, NEW R \in SUBSET Handles, \A g, h \in R : g = h, \A h \in R : Live(h), Released(R),
         list' = list, downloads' = downloads, told' \in [Handles -> Seq(Messages)],
         work' \in Seq(Jobs), Stack', \A h \in Handles : Leaving(h)' <=> Leaving(h)
  PROVE  Base'
<1>1. Types /\ Sharing /\ Owned /\ Fresh
  BY DEF Base
<1>2. /\ handle' \in [Handles -> HandleType]
      /\ \A h \in Handles : h \in R => handle'[h].state = "gone" /\ handle'[h].content = None
                                       /\ handle'[h].aborted = handle[h].aborted
      /\ \A h \in Handles : h \notin R => handle'[h] = handle[h]
      /\ content' \in [Ids -> ContentType]
      /\ \A c \in Ids : /\ content'[c].users = Without(content[c].users, R)
                        /\ content'[c].status = content[c].status
                        /\ content'[c].ll = content[c].ll
                        /\ content'[c].locked = content[c].locked
      /\ \/ context' = context /\ ll' = ll
         \/ \E h \in R : /\ Nascent(h)
                         /\ context' = [context EXCEPT ![h] = None]
                         /\ ll' = LLReleased(LLAborted(ll, context[h]), context[h])
  <2> HIDE DEF Base
  <2> QED BY <1>1, ReleasedFacts
<1>3. Sharing'
  <2>1. \A h \in Handles : handle'[h].content = IF h \in R THEN None ELSE handle[h].content
    BY <1>2
  <2> QED BY <1>1, <1>2, <2>1, SharingLeft
<1>4. \A c \in Ids : Exists(c)' <=> Exists(c)
  BY <1>2 DEF Exists
<1>5. \A h \in Handles : handle'[h].state = "new" => handle[h].state = "new" /\ h \notin R
  BY <1>2
<1>6. CASE context' = context /\ ll' = ll
  <2>1. Owned'
    BY <1>1, <1>4, <1>6 DEF Owned, Waiting
  <2>2. Fresh'
    <3>1. \A h \in Handles : handle'[h].content \in {None, handle[h].content}
            /\ (handle'[h].aborted <=> handle[h].aborted)
            /\ (handle'[h].state = "new" => handle[h].state = "new")
      BY <1>2, <1>5
    <3> QED BY <1>1, <1>6, <3>1 DEF Fresh
  <2>3. Types'
    BY <1>1, <1>2, <1>6 DEF Types
  <2> QED BY <1>3, <2>1, <2>2, <2>3 DEF Base
<1>7. CASE \E h \in R : /\ Nascent(h)
                        /\ context' = [context EXCEPT ![h] = None]
                        /\ ll' = LLReleased(LLAborted(ll, context[h]), context[h])
  <2>1. PICK h \in R : /\ Nascent(h)
                       /\ context' = [context EXCEPT ![h] = None]
                       /\ ll' = LLReleased(LLAborted(ll, context[h]), context[h])
    BY <1>7
  <2>2. h \in Handles /\ context[h] # None /\ ~Leaving(h)
    BY <1>1, <2>1, LeavingMigrates DEF Nascent, Types
  <2>3. /\ context[h] = <<h, "made">> /\ ll' \in [Ids -> LLType]
        /\ \A l \in Ids : /\ ll'[l].state = IF l = context[h] THEN "released" ELSE ll[l].state
                          /\ l # context[h] => ll'[l] = ll[l]
    BY <1>1, <2>1, <2>2, ContextHolds
  <2>4. context' \in [Handles -> Ids \cup {None}]
        /\ \A g \in Handles : context'[g] = IF g = h THEN None ELSE context[g]
    BY <1>1, <2>1, <2>2 DEF Types
  <2>5. Owned'
    BY <1>1, <1>4, <2>2, <2>3, <2>4, ContextGone
  <2>6. Fresh'
    <3>1. \A g \in Handles : handle'[g].content \in {None, handle[g].content}
            /\ (handle'[g].aborted <=> handle[g].aborted)
            /\ (handle'[g].state = "new" => handle[g].state = "new")
      BY <1>2, <1>5
    <3>2. \A g \in Handles : ll[<<g, "made">>].state = "none" => <<g, "made">> # context[h]
      <4>1. ll[context[h]].state = "held"
        BY <1>1, <2>2, ContextHolds
      <4> QED BY <4>1
    <3>3. \A g \in Handles : /\ ll[<<g, "made">>].state = "none" => ll'[<<g, "made">>].state = "none"
                             /\ ll[<<g, "cloned">>].state = "none" => ll'[<<g, "cloned">>].state = "none"
      <4>1. \A g \in Handles : <<g, "made">> \in Ids /\ <<g, "cloned">> \in Ids
                              /\ <<g, "cloned">> # context[h]
        BY <2>2, <2>3, IdFacts
      <4>2. \A l \in Ids : l # context[h] => ll'[l].state = ll[l].state
        BY <2>3
      <4> QED BY <3>2, <4>1, <4>2
    <3>4. ASSUME NEW g \in Handles
          PROVE  /\ context'[g] \in {None, <<g, "made">>}
                 /\ handle'[g].state = "new" =>
                       context'[g] = None /\ handle'[g].content = None
                       /\ ll'[<<g, "made">>].state = "none"
                 /\ ~handle'[g].aborted => ll'[<<g, "cloned">>].state = "none"
                 /\ context'[g] # None /\ ~Leaving(g)' => handle'[g].content = None
      <4>1. /\ context[g] \in {None, <<g, "made">>}
            /\ handle[g].state = "new" =>
                  context[g] = None /\ handle[g].content = None
                  /\ ll[<<g, "made">>].state = "none"
            /\ ~handle[g].aborted => ll[<<g, "cloned">>].state = "none"
            /\ context[g] # None /\ ~Leaving(g) => handle[g].content = None
        BY <1>1 DEF Fresh
      <4>2. context'[g] \in {None, context[g]} /\ (Leaving(g)' <=> Leaving(g))
        BY <1>1, <2>4
      <4> QED BY <3>1, <3>3, <4>1, <4>2
    <3> QED BY <3>4 DEF Fresh
  <2>7. Types'
    BY <1>1, <1>2, <2>3, <2>4 DEF Types
  <2> QED BY <1>3, <2>5, <2>6, <2>7 DEF Base
<1> QED BY <1>2, <1>6, <1>7

-----------------------------------------------------------------------------
\* What the client of a handle can do outside a callback.
Aborting(hs, h) == [hs EXCEPT ![h].aborted = TRUE]

\* A handle that is aborted.
LEMMA AbortingFacts ==
  ASSUME NEW hs \in [Handles -> HandleType], NEW h \in Handles
  PROVE  /\ Aborting(hs, h) \in [Handles -> HandleType]
         /\ \A g \in Handles : Aborting(hs, h)[g].state = hs[g].state
                            /\ Aborting(hs, h)[g].content = hs[g].content
                            /\ (g # h => Aborting(hs, h)[g] = hs[g])
         /\ Aborting(hs, h)[h].aborted
<1> DEFINE yes == TRUE
           r == [hs[h] EXCEPT !.aborted = yes]
<1>1. yes \in BOOLEAN /\ yes
  OBVIOUS
<1>2. Aborting(hs, h) = [hs EXCEPT ![h] = r]
  BY DEF Aborting
<1> HIDE DEF yes
<1>3. r \in HandleType /\ r.state = hs[h].state /\ r.content = hs[h].content /\ r.aborted = yes
  BY <1>1 DEF HandleType
<1> HIDE DEF r
<1> QED BY <1>1, <1>2, <1>3

\* A content whose handler is stopped.
LEMMA ContentAbortedFacts ==
  ASSUME NEW cs \in [Ids -> ContentType], NEW c \in Ids
  PROVE  /\ ContentAborted(cs, c) \in [Ids -> ContentType]
         /\ \A d \in Ids : ContentAborted(cs, c)[d].users = cs[d].users
                        /\ ContentAborted(cs, c)[d].ll = cs[d].ll
                        /\ ContentAborted(cs, c)[d].locked = cs[d].locked
                        /\ ContentAborted(cs, c)[d].status = cs[d].status
<1> DEFINE yes == TRUE
           r == [cs[c] EXCEPT !.stopped = yes]
<1>1. yes \in BOOLEAN
  OBVIOUS
<1>2. ContentAborted(cs, c) = cs \/ ContentAborted(cs, c) = [cs EXCEPT ![c] = r]
  BY DEF ContentAborted
<1> HIDE DEF yes
<1>3. r \in ContentType /\ r.users = cs[c].users /\ r.ll = cs[c].ll /\ r.locked = cs[c].locked
      /\ r.status = cs[c].status
  BY <1>1 DEF ContentType
<1> HIDE DEF r
<1> QED BY <1>2, <1>3

\* hlcache_handle_retrieve: the handle and its low-level handle are new.
LEMMA RetrieveBase ==
  ASSUME Base, NEW h \in Handles, NEW o \in Objects, Retrieve(h, o)
  PROVE  Base'
<1> DEFINE l == <<h, "made">>
           n == LLNew(o, "open")
           r == [handle[h] EXCEPT !.state = "live"]
<1>1. /\ Types /\ Sharing /\ Owned /\ Fresh /\ work = <<>> /\ handle[h].state = "new"
      /\ handle' = [handle EXCEPT ![h] = r] /\ context' = [context EXCEPT ![h] = l]
      /\ ll' = [ll EXCEPT ![l] = n]
      /\ content' = content /\ list' = list /\ downloads' = downloads /\ told' = told
      /\ work' = work
  BY DEF Base, Retrieve, Idle
<1>2. r \in HandleType /\ r.state = "live" /\ r.content = handle[h].content
      /\ r.aborted = handle[h].aborted
  BY <1>1 DEF Types, HandleType
<1>3. n \in LLType /\ n.state = "held"
  <2> DEFINE no == FALSE
  <2>1. no \in BOOLEAN /\ n = [state |-> "held", object |-> o, sent |-> "open", aborted |-> no]
    BY DEF LLNew
  <2> HIDE DEF no, n
  <2> QED BY <2>1 DEF LLType
<1>4. l \in Ids /\ \A g \in Handles : <<g, "cloned">> # l /\ (g # h => <<g, "made">> # l)
  BY IdFacts
<1> HIDE DEF r, n
<1>5. \A g \in Handles : g # h => handle'[g] = handle[g] /\ context'[g] = context[g]
  BY <1>1 DEF Types
<1>6. handle'[h] = r /\ context'[h] = l
  BY <1>1 DEF Types
<1>7. ll' \in [Ids -> LLType] /\ ll'[l] = n /\ \A k \in Ids : k # l => ll'[k] = ll[k]
  BY <1>1, <1>3, <1>4 DEF Types
<1>8. Types'
  <2>1. handle' \in [Handles -> HandleType] /\ context' \in [Handles -> Ids \cup {None}]
    BY <1>1, <1>2, <1>4 DEF Types
  <2> QED BY <1>1, <1>7, <2>1 DEF Types
<1>9. Sharing'
  <2>1. \A g \in Handles : handle'[g].content = IF g \in {} THEN None ELSE handle[g].content
    BY <1>2, <1>5, <1>6
  <2> QED BY <1>1, <2>1 DEF Sharing, Users, Exists
<1>10. Stack' /\ \A g \in Handles : ~Leaving(g) /\ ~Leaving(g)'
  BY <1>1 DEF Stack, Leaving
<1>11. context[h] = None /\ ll[l].state = "none" /\ handle[h].content = None
  BY <1>1 DEF Fresh
<1>12. Owned'
  <2>1. ~Exists(l) /\ l \notin downloads
    BY <1>1, <1>4, <1>11 DEF Owned
  <2>2. Waiting(l)'
    BY <1>4, <1>6, <1>10, IdFacts DEF Waiting
  <2>3. \A k \in Ids : k # l => (Waiting(k)' <=> Waiting(k))
    BY <1>1, <1>5, <1>10 DEF Waiting
  <2>4. \A k \in Ids : Exists(k)' <=> Exists(k)
    BY <1>1 DEF Exists
  <2> QED BY <1>1, <1>3, <1>7, <2>1, <2>2, <2>3, <2>4 DEF Owned
<1>13. Fresh'
  <2>1. ASSUME NEW g \in Handles
        PROVE  /\ context'[g] \in {None, <<g, "made">>}
               /\ handle'[g].state = "new" =>
                     context'[g] = None /\ handle'[g].content = None
                     /\ ll'[<<g, "made">>].state = "none"
               /\ ~handle'[g].aborted => ll'[<<g, "cloned">>].state = "none"
               /\ context'[g] # None /\ ~Leaving(g)' => handle'[g].content = None
    <3>1. <<g, "made">> \in Ids /\ <<g, "cloned">> \in Ids
      BY IdFacts
    <3>2. CASE g = h
      BY <1>1, <1>2, <1>4, <1>6, <1>7, <1>11, <3>1, <3>2 DEF Fresh
    <3>3. CASE g # h
      BY <1>1, <1>4, <1>5, <1>7, <1>10, <3>1, <3>3 DEF Fresh
    <3> QED BY <3>2, <3>3
  <2> QED BY <2>1 DEF Fresh
<1> QED BY <1>8, <1>9, <1>10, <1>12, <1>13 DEF Base

\* hlcache_handle_release, from outside of any callback.
LEMMA ReleaseBase ==
  ASSUME Base, NEW h \in Handles, Release(h)
  PROVE  Base'
<1>1. /\ Live(h) /\ Released({h}) /\ list' = list /\ downloads' = downloads
      /\ told' = told /\ work' = work /\ work = <<>>
  BY DEF Release, Idle
<1>2. Stack' /\ \A g \in Handles : Leaving(g)' <=> Leaving(g)
  BY <1>1 DEF Stack, Leaving
<1>3. told' \in [Handles -> Seq(Messages)] /\ work' \in Seq(Jobs)
  BY <1>1 DEF Base, Types
<1>4. {h} \in SUBSET Handles /\ (\A g, k \in {h} : g = k) /\ \A g \in {h} : Live(g)
  BY <1>1
<1> QED BY <1>1, <1>2, <1>3, <1>4, ReleasedBase

\* hlcache_handle_abort of a handle without content: the fetch is let go.
LEMMA AbortContextBase ==
  ASSUME Base, NEW h \in Handles, AbortContext(h)
  PROVE  Base'
<1>1. /\ Types /\ Sharing /\ Owned /\ Fresh /\ work = <<>> /\ context[h] # None
      /\ handle' = Aborting(handle, h) /\ context' = [context EXCEPT ![h] = None]
      /\ ll' = LLReleased(LLAborted(ll, context[h]), context[h])
      /\ content' = content /\ list' = list /\ downloads' = downloads /\ told' = told
      /\ work' = work
  BY DEF Base, AbortContext, Idle, Aborting
<1>2. ~Leaving(h)
  BY <1>1, NothingLeft
<1>3. /\ context[h] = <<h, "made">> /\ ll[context[h]].state = "held"
      /\ ll' \in [Ids -> LLType]
      /\ \A l \in Ids : /\ ll'[l].state = IF l = context[h] THEN "released" ELSE ll[l].state
                        /\ l # context[h] => ll'[l] = ll[l]
  BY <1>1, <1>2, ContextHolds
<1>4. /\ context' \in [Handles -> Ids \cup {None}]
      /\ \A g \in Handles : context'[g] = IF g = h THEN None ELSE context[g]
  BY <1>1 DEF Types
<1>5. /\ handle' \in [Handles -> HandleType]
      /\ \A g \in Handles : handle'[g].state = handle[g].state
                         /\ handle'[g].content = handle[g].content
                         /\ (g # h => handle'[g] = handle[g])
      /\ handle'[h].aborted
  BY <1>1, AbortingFacts DEF Types
<1>6. Types'
  BY <1>1, <1>3, <1>4, <1>5 DEF Types
<1>7. Sharing'
  <2>1. \A g \in Handles : handle'[g].content = handle[g].content
    BY <1>5
  <2> QED BY <1>1, <2>1 DEF Sharing, Users, Exists
<1>8. Stack' /\ \A g \in Handles : Leaving(g)' <=> Leaving(g)
  BY <1>1 DEF Stack, Leaving
<1>9. Owned'
  <2>1. \A c \in Ids : Exists(c)' <=> Exists(c)
    BY <1>1 DEF Exists
  <2> QED BY <1>1, <1>2, <1>3, <1>4, <1>8, <2>1, ContextGone
<1>10. Fresh'
  <2>1. ASSUME NEW g \in Handles
        PROVE  /\ context'[g] \in {None, <<g, "made">>}
               /\ handle'[g].state = "new" =>
                     context'[g] = None /\ handle'[g].content = None
                     /\ ll'[<<g, "made">>].state = "none"
               /\ ~handle'[g].aborted => ll'[<<g, "cloned">>].state = "none"
               /\ context'[g] # None /\ ~Leaving(g)' => handle'[g].content = None
    <3>1. <<g, "made">> \in Ids /\ <<g, "cloned">> \in Ids /\ <<g, "cloned">> # context[h]
      BY <1>3, IdFacts
    <3>2. ll[<<g, "made">>].state = "none" => <<g, "made">> # context[h]
      BY <1>3
    <3>3. /\ context[g] \in {None, <<g, "made">>}
          /\ handle[g].state = "new" =>
                context[g] = None /\ handle[g].content = None /\ ll[<<g, "made">>].state = "none"
          /\ ~handle[g].aborted => ll[<<g, "cloned">>].state = "none"
          /\ context[g] # None /\ ~Leaving(g) => handle[g].content = None
      BY <1>1 DEF Fresh
    <3>4. ~handle'[g].aborted => ~handle[g].aborted
      BY <1>5
    <3> QED BY <1>3, <1>4, <1>5, <1>8, <3>1, <3>2, <3>3, <3>4
  <2> QED BY <2>1 DEF Fresh
<1> QED BY <1>6, <1>7, <1>8, <1>9, <1>10 DEF Base

\* hlcache_handle_abort of the only user of a content.
LEMMA AbortContentBase ==
  ASSUME Base, NEW h \in Handles, AbortContent(h)
  PROVE  Base'
<1> DEFINE c == handle[h].content
<1>1. /\ Types /\ work = <<>> /\ c # None
      /\ handle' = Aborting(handle, h) /\ content' = ContentAborted(content, c)
      /\ ll' = LLAborted(ll, content[c].ll)
      /\ work' \in {<<>>, <<Do("done", c)>>}
      /\ context' = context /\ list' = list /\ downloads' = downloads /\ told' = told
  BY DEF Base, AbortContent, Idle, Aborting
<1>2. c \in Ids /\ Exists(c) /\ content[c].ll = c
  <2>1. c \in Ids
    BY <1>1 DEF Types, HandleType
  <2> QED BY <1>1, <2>1 DEF Base, Sharing
<1> HIDE DEF c
<1>3. /\ handle' \in [Handles -> HandleType]
      /\ \A g \in Handles : /\ handle'[g].state = handle[g].state
                            /\ handle'[g].content = handle[g].content
                            /\ handle[g].aborted => handle'[g].aborted
  BY <1>1, AbortingFacts DEF Types
<1>4. /\ content' \in [Ids -> ContentType]
      /\ \A d \in Ids : content'[d].users = content[d].users /\ content'[d].ll = content[d].ll
                        /\ content'[d].status = content[d].status
  BY <1>1, <1>2, ContentAbortedFacts DEF Types
<1>5. ll' \in [Ids -> LLType] /\ \A l \in Ids : ll'[l].state = ll[l].state
  <2>1. ll \in [Ids -> LLType]
    BY <1>1 DEF Types
  <2>2. LLAborted(ll, c) \in [Ids -> LLType]
        /\ \A l \in Ids : LLAborted(ll, c)[l].state = ll[l].state
    BY <1>2, <2>1, LLAbortedFacts
  <2>3. ll' = LLAborted(ll, c)
    BY <1>1, <1>2
  <2> QED BY <2>2, <2>3
<1>6. work' \in Seq(Jobs) /\ Stack' /\ \A g \in Handles : Leaving(g)' <=> Leaving(g)
  <2>1. OfContent(work', c)
    <3>1. "done" \in ContentJobs
      BY DEF ContentJobs
    <3> QED BY <1>1, <1>2, <3>1, ContentSeqs
  <2>2. Made(content'[c].status)
    BY <1>2, <1>4 DEF Exists
  <2> QED BY <1>1, <1>2, <2>1, <2>2, IdleStep
<1>7. Types'
  BY <1>1, <1>3, <1>4, <1>5, <1>6 DEF Types
<1>8. \A d \in Ids : Exists(d)' <=> Exists(d)
  BY <1>4 DEF Exists
<1> QED BY <1>1, <1>3, <1>4, <1>5, <1>6, <1>7, <1>8, Quiet

\* The download client releases the low-level handle it was given.
LEMMA DownloadEndsBase ==
  ASSUME Base, NEW l \in Ids, DownloadEnds(l)
  PROVE  Base'
<1>1. /\ Types /\ Sharing /\ Owned /\ Fresh /\ work = <<>> /\ l \in downloads
      /\ downloads' = downloads \ {l} /\ ll' = LLReleased(ll, l)
      /\ handle' = handle /\ context' = context /\ content' = content /\ list' = list
      /\ told' = told /\ work' = work
  BY DEF Base, DownloadEnds, Idle
<1>2. ll[l].state = "held" /\ ~Waiting(l) /\ ~Exists(l)
  BY <1>1 DEF Owned
<1>3. /\ ll' \in [Ids -> LLType] /\ ll'[l].state = "released"
      /\ \A k \in Ids : k # l => ll'[k] = ll[k]
  BY <1>1, <1>2, LLReleasedFacts DEF Types
<1>4. Types'
  BY <1>1, <1>3 DEF Types
<1>5. Sharing' /\ Stack' /\ \A g \in Handles : Leaving(g)' <=> Leaving(g)
  BY <1>1 DEF Base, Sharing, Users, Exists, Stack, Leaving
<1>6. Owned'
  <2>1. \A k \in Ids : (Waiting(k)' <=> Waiting(k)) /\ (Exists(k)' <=> Exists(k))
    BY <1>1, <1>5 DEF Waiting, Exists
  <2> QED BY <1>1, <1>2, <1>3, <2>1 DEF Owned
<1>7. Fresh'
  <2>1. \A k \in Ids : ll[k].state = "none" => ll'[k].state = "none"
    BY <1>2, <1>3
  <2> QED BY <1>1, <1>5, <2>1, IdFacts DEF Fresh
<1> QED BY <1>4, <1>5, <1>6, <1>7 DEF Base

\* The abort of a handle that shares its content, which makes a clone.
LEMMA AbortSharedBase ==
  ASSUME Base, NEW h \in Handles, AbortShared(h)
  PROVE  Base'
<1> DEFINE c == handle[h].content
           n == <<h, "cloned">>
           clone == [content[c] EXCEPT !.users = <<h>>, !.ll = n]
           hr == [Aborting(handle, h)[h] EXCEPT !.content = n]
           cr == [content[c] EXCEPT !.users = Without(content[c].users, {h})]
           lc == [ll EXCEPT ![n] = ll[content[c].ll]]
<1>1. /\ Types /\ Sharing /\ Owned /\ Fresh /\ work = <<>>
      /\ c # None /\ ~handle[h].aborted /\ Live(h) /\ content[c].status = "LOADING"
      /\ handle' = [Aborting(handle, h) EXCEPT ![h].content = n]
      /\ content' = [content EXCEPT ![n] = clone, ![c].users = Without(@, {h})]
      /\ list' = <<n>> \o list /\ ll' = LLAborted(lc, n)
      /\ context' = context /\ downloads' = downloads /\ told' = told /\ work' = work
  <2>1. handle \in [Handles -> HandleType]
    BY DEF Base, Types
  <2>2. handle' = [Aborting(handle, h) EXCEPT ![h].content = n]
    BY <2>1, Zenon DEF AbortShared, Aborting
  <2> QED BY <2>2 DEF Base, AbortShared, Idle
<1>2. c \in Ids /\ Exists(c) /\ content[c].ll = c /\ n \in Ids
  <2>1. c \in Ids
    BY <1>1 DEF Types, HandleType
  <2> QED BY <1>1, <2>1, IdFacts DEF Sharing
<1>3. ll[n].state = "none" /\ ~Exists(n) /\ n \notin downloads /\ n # c /\ ~Waiting(n)
  <2>1. ll[n].state = "none"
    BY <1>1 DEF Fresh
  <2> QED BY <1>1, <1>2, <2>1 DEF Owned
<1>4. /\ Aborting(handle, h) \in [Handles -> HandleType]
      /\ \A g \in Handles : Aborting(handle, h)[g].state = handle[g].state
                         /\ Aborting(handle, h)[g].content = handle[g].content
                         /\ (g # h => Aborting(handle, h)[g] = handle[g])
      /\ Aborting(handle, h)[h].aborted
  BY <1>1, AbortingFacts DEF Types
<1>5. hr \in HandleType /\ hr.state = "live" /\ hr.content = n /\ hr.aborted
  <2>1. Aborting(handle, h)[h] \in HandleType /\ Aborting(handle, h)[h].state = "live"
    BY <1>1, <1>4 DEF Live
  <2> DEFINE a == Aborting(handle, h)[h]
  <2>2. a.aborted
    BY <1>4
  <2>3. hr = [a EXCEPT !.content = n]
    OBVIOUS
  <2> HIDE DEF hr, a, n
  <2>4. a \in HandleType /\ a.state = "live"
    BY <2>1 DEF a
  <2>5. hr \in HandleType /\ hr.state = "live" /\ hr.content = n /\ hr.aborted = a.aborted
    BY <1>2, <2>3, <2>4 DEF HandleType
  <2> QED BY <2>2, <2>5
<1>6. content[c] \in ContentType /\ content[c].users \in Seq(Handles)
  BY <1>1, <1>2 DEF Types, ContentType
<1>7. clone \in ContentType /\ clone.users = <<h>> /\ clone.ll = n /\ clone.status = "LOADING"
      /\ clone.locked = content[c].locked
  <2>1. <<h>> \in Seq(Handles)
    OBVIOUS
  <2> DEFINE u == <<h>>
  <2>2. clone = [content[c] EXCEPT !.users = u, !.ll = n]
    OBVIOUS
  <2>3. u \in Seq(Handles) /\ content[c].status = "LOADING"
    BY <1>1, <2>1
  <2> HIDE DEF u, clone, n
  <2>4. clone \in ContentType /\ clone.users = u /\ clone.ll = n /\ clone.status = "LOADING"
        /\ clone.locked = content[c].locked
    BY <1>2, <1>6, <2>2, <2>3 DEF ContentType
  <2> QED BY <2>4 DEF u
<1>8. cr \in ContentType /\ cr.users = Without(content[c].users, {h}) /\ cr.ll = content[c].ll
      /\ cr.status = content[c].status /\ cr.locked = content[c].locked
  <2> DEFINE w == Without(content[c].users, {h})
  <2>1. w \in Seq(Handles)
    BY <1>6, WithoutProperties
  <2>2. cr = [content[c] EXCEPT !.users = w]
    OBVIOUS
  <2> HIDE DEF w, cr
  <2>3. cr \in ContentType /\ cr.users = w /\ cr.ll = content[c].ll
        /\ cr.status = content[c].status /\ cr.locked = content[c].locked
    BY <1>6, <2>1, <2>2 DEF ContentType
  <2> QED BY <2>3 DEF w
<1>9. handle' = [Aborting(handle, h) EXCEPT ![h] = hr]
      /\ content' = [content EXCEPT ![n] = clone, ![c] = cr]
  <2>1. handle' = [Aborting(handle, h) EXCEPT ![h] = hr]
    BY <1>1, <1>4, Zenon
  <2>2. [content EXCEPT ![n] = clone][c] = content[c]
    BY <1>1, <1>2, <1>3 DEF Types
  <2>3. content' = [content EXCEPT ![n] = clone, ![c] = cr]
    BY <1>1, <2>2, Zenon
  <2> QED BY <2>1, <2>3
<1>10. lc \in [Ids -> LLType] /\ lc[n] = ll[c] /\ \A k \in Ids : k # n => lc[k] = ll[k]
  BY <1>1, <1>2 DEF Types
<1>n. \A g \in Handles : /\ <<g, "made">> # n /\ (g # h => <<g, "cloned">> # n)
  BY IdFacts
<1>c. c = handle[h].content
  OBVIOUS
<1>a. ll' = LLAborted(lc, n) /\ list' = <<n>> \o list
  BY <1>1
<1> HIDE DEF hr, clone, cr, lc, n, c
<1>11. /\ handle' \in [Handles -> HandleType] /\ handle'[h] = hr
       /\ \A g \in Handles : g # h => handle'[g] = handle[g]
  BY <1>4, <1>5, <1>9
<1>12. /\ content' \in [Ids -> ContentType] /\ content'[n] = clone /\ content'[c] = cr
       /\ \A d \in Ids : d # n /\ d # c => content'[d] = content[d]
  <2>1. content \in [Ids -> ContentType]
    BY <1>1 DEF Types
  <2> QED BY <1>2, <1>3, <1>7, <1>8, <1>9, <2>1
<1>13. /\ ll' \in [Ids -> LLType] /\ ll'[n].state = "held"
       /\ \A k \in Ids : k # n => ll'[k].state = ll[k].state
  <2>1. ll[c].state = "held"
    BY <1>1, <1>2 DEF Owned
  <2> QED BY <1>a, <1>2, <1>10, <2>1, LLAbortedFacts
<1>14. \A d \in Ids : Exists(d)' <=> Exists(d) \/ d = n
  BY <1>1, <1>2, <1>3, <1>7, <1>8, <1>12 DEF Exists, Made
<1>15. /\ list' \in Seq(Ids)
       /\ IsInjective(list')
       /\ \A x \in Ids : x \in ToSet(list')
               <=> x = n \/ x \in ToSet(list)
  <2>1. /\ list \in Seq(Ids)
        /\ IsInjective(list)
        /\ n \notin ToSet(list)
    BY <1>1, <1>2, <1>3 DEF Types, Sharing
  <2> DEFINE v == Prepended(n, list)
  <2>2. /\ v \in Seq(Ids)
        /\ IsInjective(v)
        /\ \A x \in Ids : x \in ToSet(v)
                <=> x = n \/ x \in ToSet(list)
    <3>1. n \in Ids /\ list \in Seq(Ids)
      BY <1>2, <2>1
    <3>2. IsInjective(list)
      BY <2>1
    <3>3. n \notin ToSet(list)
      BY <2>1
    <3> QED BY <3>1, <3>2, <3>3, PrependSet
  <2>3. list' = v
    BY <1>a DEF Prepended
  <2> HIDE DEF v
  <2> QED BY <2>2, <2>3
<1>16. Types'
  BY <1>1, <1>11, <1>12, <1>13, <1>15 DEF Types
<1>17. Stack' /\ \A g \in Handles : Leaving(g)' <=> Leaving(g)
  BY <1>1 DEF Stack, Leaving
<1>18. Sharing'
  <2>1. ASSUME NEW d \in Ids
        PROVE  /\ IsInjective(content'[d].users)
               /\ \A g \in Handles : g \in ToSet(content'[d].users)
                                       <=> handle'[g].content = d
    <3>0. /\ IsInjective(content[d].users)
          /\ \A g \in Handles : g \in ToSet(content[d].users)
                                  <=> handle[g].content = d
      BY <1>1 DEF Sharing, Users
    <3>1. CASE d = n
      <4>1. content'[d].users = <<h>>
        BY <1>7, <1>12, <3>1
      <4>2. \A g \in Handles : handle'[g].content = d <=> g = h
        <5>1. \A g \in Handles : g # h => handle[g].content # n
          <6>1. \A g \in Handles : handle[g].content # None => Exists(handle[g].content)
            BY <1>1 DEF Sharing
          <6> QED BY <1>2, <1>3, <6>1, IdFacts
        <5> QED BY <1>5, <1>11, <3>1, <5>1
      <4> QED BY <4>1, <4>2, SmallLists
    <3>2. CASE d = c
      <4>1. content'[d].users = Without(content[d].users, {h})
        BY <1>8, <1>12, <3>2
      <4>2. LET t == Without(content[d].users, {h})
            IN  /\ IsInjective(t)
                /\ \A x \in Handles : x \in ToSet(t)
                        <=> x \notin {h} /\ x \in ToSet(content[d].users)
        <5>1. content[d].users \in Seq(Handles)
          BY <1>6, <3>2
        <5>2. IsInjective(content[d].users)
          BY <3>0
        <5> DEFINE R == {h}
        <5> HIDE DEF R
        <5>3. LET t == Without(content[d].users, R)
              IN  /\ IsInjective(t)
                  /\ \A x \in Handles : x \in ToSet(t)
                          <=> x \notin R /\ x \in ToSet(content[d].users)
          BY <5>1, <5>2, WithoutSet
        <5> QED BY <5>3 DEF R
      <4>3. \A g \in Handles : handle'[g].content = d <=> g # h /\ handle[g].content = d
        BY <1>3, <1>5, <1>11, <3>2
      <4> DEFINE v == Without(content[d].users, {h})
      <4>4. /\ IsInjective(v)
            /\ \A x \in Handles : x \in ToSet(v)
                    <=> x \notin {h} /\ x \in ToSet(content[d].users)
        BY <4>2
      <4>5. content'[d].users = v
        BY <4>1
      <4> HIDE DEF v
      <4>6. \A g \in Handles : g \in ToSet(v) <=> handle'[g].content = d
        BY <3>0, <4>3, <4>4
      <4> QED BY <4>4, <4>5, <4>6
    <3>3. CASE d # n /\ d # c
      <4>1. content'[d] = content[d]
        BY <1>12, <3>3
      <4>2. \A g \in Handles : handle'[g].content = d <=> handle[g].content = d
        BY <1>5, <1>11, <1>c, <3>3
      <4> QED BY <3>0, <4>1, <4>2
    <3> QED BY <3>1, <3>2, <3>3
  <2>2. ASSUME NEW g \in Handles, handle'[g].content # None
        PROVE  Made(content'[handle'[g].content].status)
    <3>1. CASE g = h
      <4>1. handle'[g].content = n /\ Exists(n)'
        BY <1>2, <1>5, <1>11, <1>14, <3>1
      <4> QED BY <4>1 DEF Exists
    <3>2. CASE g # h
      <4>1. handle'[g].content = handle[g].content /\ handle[g].content \in Ids
        BY <1>1, <1>11, <2>2, <3>2 DEF Types, HandleType
      <4>2. Exists(handle[g].content)
        BY <1>1, <2>2, <4>1 DEF Sharing
      <4>3. Exists(handle[g].content)'
        BY <1>14, <4>1, <4>2, <3>2, <1>11
      <4> QED BY <4>1, <4>3 DEF Exists
    <3> QED BY <3>1, <3>2
  <2>3. \A d \in Ids : content'[d].ll = IF Exists(d)' THEN d ELSE None
    <3>1. \A d \in Ids : content[d].ll = IF Exists(d) THEN d ELSE None
      BY <1>1 DEF Sharing
    <3> QED BY <1>2, <1>3, <1>7, <1>8, <1>12, <1>14, <3>1
  <2>4. \A d \in Ids : d \in ToSet(list') <=> Exists(d)'
    <3>1. \A d \in Ids : d \in ToSet(list) <=> Exists(d)
      BY <1>1 DEF Sharing
    <3> QED BY <1>14, <1>15, <3>1
  <2> QED BY <1>15, <2>1, <2>2, <2>3, <2>4 DEF Sharing, Users, Exists
<1>19. Owned'
  <2>1. \A k \in Ids : Waiting(k)' <=> Waiting(k)
    BY <1>1, <1>17 DEF Waiting
  <2> QED BY <1>1, <1>2, <1>3, <1>13, <1>14, <2>1 DEF Owned
<1>20. Fresh'
  <2>1. ASSUME NEW g \in Handles
        PROVE  /\ context'[g] \in {None, <<g, "made">>}
               /\ handle'[g].state = "new" =>
                     context'[g] = None /\ handle'[g].content = None
                     /\ ll'[<<g, "made">>].state = "none"
               /\ ~handle'[g].aborted => ll'[<<g, "cloned">>].state = "none"
               /\ context'[g] # None /\ ~Leaving(g)' => handle'[g].content = None
    <3>1. <<g, "made">> \in Ids /\ <<g, "cloned">> \in Ids /\ <<g, "made">> # n
          /\ (g # h => <<g, "cloned">> # n)
      BY <1>n, IdFacts
    <3>2. /\ context[g] \in {None, <<g, "made">>}
          /\ handle[g].state = "new" =>
                context[g] = None /\ handle[g].content = None /\ ll[<<g, "made">>].state = "none"
          /\ ~handle[g].aborted => ll[<<g, "cloned">>].state = "none"
          /\ context[g] # None /\ ~Leaving(g) => handle[g].content = None
      BY <1>1 DEF Fresh
    <3>3. CASE g = h
      <4>1. context[g] = None
        BY <1>1, <1>c, <3>2, <3>3, NothingLeft
      <4>2. handle'[g].state = "live" /\ handle'[g].aborted
        BY <1>5, <1>11, <3>3
      <4> QED BY <1>1, <4>1, <4>2
    <3>4. CASE g # h
      <4>1. handle'[g] = handle[g]
        BY <1>11, <3>4
      <4>2. ll'[<<g, "made">>].state = ll[<<g, "made">>].state
            /\ ll'[<<g, "cloned">>].state = ll[<<g, "cloned">>].state
        BY <1>13, <3>1, <3>4
      <4> QED BY <1>1, <1>17, <3>2, <4>1, <4>2
    <3> QED BY <3>3, <3>4
  <2> QED BY <2>1 DEF Fresh
<1> QED BY <1>16, <1>17, <1>18, <1>19, <1>20 DEF Base

-----------------------------------------------------------------------------
\* The messages of a load that goes well, and how many a status stands for.
Order == <<"LOADING", "READY", "DONE">>
Reach == [LOADING |-> 1, READY |-> 2, DONE |-> 3]

\* What a handle is told to catch up is the beginning of that.
LEMMA CatchUpFacts ==
  ASSUME NEW h \in Handles, NEW status \in {"LOADING", "READY", "DONE"}
  PROVE  /\ Reach[status] \in 1 .. 3
         /\ CatchUp(h, status) \in Seq(Jobs) /\ Len(CatchUp(h, status)) = Reach[status]
         /\ \A i \in 1 .. Reach[status] : CatchUp(h, status)[i] = Tell(h, Order[i])
<1> DEFINE n == Reach[status]
           f == [i \in 1 .. n |-> Tell(h, Order[i])]
<1>1. n \in 1 .. 3 /\ n \in Nat
  BY DEF Reach
<1>2. CatchUp(h, status) = f
  BY DEF CatchUp, Reach, Order
<1>3. \A i \in 1 .. 3 : Order[i] \in Messages
  BY DEF Order, Messages
<1>4. \A i \in 1 .. n : Tell(h, Order[i]) \in Jobs
  BY <1>1, <1>3, JobTypes
<1> HIDE DEF n
<1>5. f \in [1 .. n -> Jobs]
  BY <1>4
<1>6. f \in Seq(Jobs) /\ Len(f) = n
  BY <1>1, <1>5
<1>7. \A i \in 1 .. n : f[i] = Tell(h, Order[i])
  OBVIOUS
<1> QED BY <1>1, <1>2, <1>6, <1>7 DEF n

\* What a context leaves to do: to tell the handle, and then an end.
LEMMA TellsThen ==
  ASSUME NEW h \in Handles, NEW J \in Seq(Jobs),
         \A i \in 1 .. Len(J) : J[i].do = "tell" /\ J[i].handle = h,
         NEW end \in {Leave(h), Refuse(h)}, work' = Append(J, end), context'[h] # None
  PROVE  /\ work' \in Seq(Jobs) /\ Len(J) \in Nat /\ Len(work') = Len(J) + 1
         /\ work'[Len(J) + 1] = end
         /\ \A i \in 1 .. Len(J) : work'[i] = J[i]
         /\ Stack'
         /\ \A g \in Handles : Leaving(g)' <=> g = h /\ end = Leave(h)
<1>1. end \in Jobs /\ end.do \in {"leave", "refuse"} /\ end.handle = h
      /\ (end.do = "leave" <=> end = Leave(h))
  <2>1. /\ Leave(h).do = "leave" /\ Leave(h).handle = h
        /\ Refuse(h).do = "refuse" /\ Refuse(h).handle = h
    BY DEF Leave, Refuse
  <2> QED BY <2>1, JobTypes
<1> DEFINE n == Len(J)
<1>2. n \in Nat /\ work' \in Seq(Jobs) /\ Len(work') = n + 1
      /\ work'[n + 1] = end /\ \A i \in 1 .. n : work'[i] = J[i]
  BY <1>1, LenProperties, AppendProperties
<1>d. \A i \in 1 .. n : J[i].do = "tell" /\ J[i].handle = h
  OBVIOUS
<1> HIDE DEF n
<1>3. \A i \in 1 .. Len(work') : i = n + 1 \/ (i \in 1 .. n /\ work'[i].do = "tell")
  BY <1>2, <1>d
<1>4. Stack'
  <2>1. ASSUME NEW i \in 1 .. Len(work')
        PROVE  /\ work'[i].do \in {"leave", "refuse"} =>
                     i = Len(work') /\ context'[work'[i].handle] # None
               /\ work'[i].do \notin ContentJobs \cup {"cast"}
    BY <1>1, <1>2, <1>3 DEF ContentJobs
  <2> QED BY <2>1 DEF Stack
<1>5. \A g \in Handles : Leaving(g)' <=> g = h /\ end = Leave(h)
  <2>1. \A g \in Handles : Leave(g).do = "leave" /\ Leave(g).handle = g
    BY DEF Leave
  <2>2. ASSUME NEW g \in Handles, NEW i \in 1 .. Len(work'), work'[i] = Leave(g)
        PROVE  g = h /\ end = Leave(h)
    <3>1. i = n + 1
      BY <1>3, <2>1, <2>2
    <3>2. end = Leave(g)
      BY <1>2, <2>2, <3>1
    <3> QED BY <1>1, <2>1, <3>2
  <2>3. n + 1 \in 1 .. Len(work')
    BY <1>2
  <2> QED BY <1>2, <2>2, <2>3 DEF Leaving
<1> QED BY <1>2, <1>4, <1>5 DEF n

\* The content that a context finds is one of the list that has not failed.
LEMMA FoundFacts ==
  ASSUME Types, Sharing, NEW l \in Ids, FoundContent(l) # None
  PROVE  /\ FoundContent(l) \in Ids /\ Exists(FoundContent(l))
         /\ content[FoundContent(l)].status \in {"LOADING", "READY", "DONE"}
         /\ content[FoundContent(l)].users \in Seq(Handles)
<1> DEFINE found == {i \in 1 .. Len(list) : Suitable(list[i], l)}
           least == CHOOSE i \in found : \A k \in found : i <= k
<1>1. found # {} /\ FoundContent(l) = list[least]
  BY DEF FoundContent
<1>2. \E i \in found : \A k \in found : i <= k
  <2>1. found \subseteq Nat
    OBVIOUS
  <2> HIDE DEF found
  <2> QED BY <1>1, <2>1, LeastExists
<1>3. least \in found
  BY <1>2
<1>4. least \in 1 .. Len(list) /\ Suitable(list[least], l)
  BY <1>3
<1> HIDE DEF least, found
<1>5. list[least] \in Ids
  BY <1>4, ElementOfSeq DEF Types
<1>6. Exists(list[least]) /\ content[list[least]].status # "ERROR"
  <2>1. list[least] \in ToSet(list)
    BY <1>4, MembersOf DEF Types
  <2> QED BY <1>4, <1>5, <2>1 DEF Sharing, Suitable
<1>7. content[list[least]] \in ContentType
  BY <1>5 DEF Types
<1> QED BY <1>1, <1>5, <1>6, <1>7 DEF Exists, Made, ContentType, Statuses

\* A context that listens has its handle to itself.
LEMMA ListeningFacts ==
  ASSUME Base, NEW h \in Handles, NEW sent, Listening(h, sent)
  PROVE  /\ Types /\ Sharing /\ Owned /\ Fresh /\ work = <<>>
         /\ \A g \in Handles : ~Leaving(g) /\ ~Migrating(g)
         /\ context[h] = <<h, "made">> /\ context[h] \in Ids /\ context[h] # None
         /\ ll[context[h]].state = "held" /\ ll[context[h]].sent = sent
         /\ ~Exists(context[h]) /\ context[h] \notin downloads
         /\ handle[h].content = None /\ handle[h].state = "live"
<1>1. Types /\ Sharing /\ Owned /\ Fresh /\ work = <<>> /\ context[h] # None
      /\ ll[context[h]].sent = sent /\ handle[h].state = "live"
  BY DEF Base, Listening, Idle, Live
<1>2. \A g \in Handles : ~Leaving(g) /\ ~Migrating(g)
  BY <1>1, NothingLeft
<1> QED BY <1>1, <1>2, ContextHolds

\* The step in which a context waits on, reports a failure or refuses.
LEMMA ListenBase ==
  ASSUME Base, NEW h \in Handles, NEW sent, Listening(h, sent),
         NEW s \in {"headers", "data", "ended"}, ll' = Sent(ll, context[h], s),
         work' \in {<<>>, <<Tell(h, "ERROR")>>, <<Tell(h, "ERROR"), Refuse(h)>>},
         handle' = handle, context' = context, content' = content, list' = list,
         downloads' = downloads, told' = told
  PROVE  Base'
<1>1. /\ Types /\ work = <<>> /\ context[h] \in Ids /\ context[h] # None
      /\ \A g \in Handles : ~Leaving(g)
  BY ListeningFacts
<1>2. ll' \in [Ids -> LLType] /\ \A l \in Ids : ll'[l].state = ll[l].state
  <2>1. ll \in [Ids -> LLType]
    BY <1>1 DEF Types
  <2> QED BY <1>1, <2>1, SentFacts
<1>3. Tell(h, "ERROR") \in Jobs /\ Tell(h, "ERROR").do = "tell" /\ Tell(h, "ERROR").handle = h
      /\ Refuse(h).do = "refuse" /\ Refuse(h) # Leave(h)
      /\ \A g \in Handles : Leave(g).do = "leave"
  <2>1. "ERROR" \in Messages
    BY DEF Messages
  <2> QED BY <2>1, JobTypes DEF Tell, Refuse, Leave
<1> DEFINE t == Tell(h, "ERROR")
<1> HIDE DEF t
<1>4. work' \in Seq(Jobs) /\ Stack' /\ \A g \in Handles : Leaving(g)' <=> Leaving(g)
  <2>1. CASE work' = <<>>
    BY <1>1, <2>1 DEF Stack, Leaving
  <2>2. CASE work' = <<t>>
    BY <1>1, <1>3, <2>2 DEF Stack, Leaving, ContentJobs, t
  <2>3. CASE work' = <<t, Refuse(h)>>
    <3>1. work' = Append(<<t>>, Refuse(h)) /\ <<t>> \in Seq(Jobs) /\ Len(<<t>>) = 1
          /\ \A i \in 1 .. Len(<<t>>) : <<t>>[i].do = "tell" /\ <<t>>[i].handle = h
      BY <1>3, <2>3 DEF t
    <3>2. context'[h] # None
      BY <1>1
    <3> QED BY <1>1, <1>3, <3>1, <3>2, TellsThen
  <2> QED BY <2>1, <2>2, <2>3 DEF t
<1>5. Types'
  BY <1>1, <1>2, <1>4 DEF Types
<1>6. \A c \in Ids : Exists(c)' <=> Exists(c)
  BY DEF Exists
<1> QED BY <1>2, <1>4, <1>5, <1>6, Quiet

\* A context whose handle joins a content, or leaves for a download, gives its
\* low-level handle to a content or to the download, or releases it.
LEMMA JoinBase ==
  ASSUME Base, NEW h \in Handles, NEW sent, Listening(h, sent),
         NEW s \in {"headers", "data"}, Join(h, context[h], s),
         context' = context, told' = told
  PROVE  Base'
<1> DEFINE l == context[h]
           c == FoundContent(l)
           J == CatchUp(h, content[c].status)
           hr == [handle[h] EXCEPT !.content = c]
           u == Prepended(h, content[c].users)
           cr == [content[c] EXCEPT !.users = u]
           la == Sent(ll, l, s)
<1>1. /\ Types /\ Sharing /\ Owned /\ Fresh /\ work = <<>>
      /\ \A g \in Handles : ~Leaving(g) /\ ~Migrating(g)
      /\ l = <<h, "made">> /\ l \in Ids /\ l # None
      /\ ll[l].state = "held" /\ ll[l].sent = sent
      /\ ~Exists(l) /\ l \notin downloads
      /\ handle[h].content = None /\ handle[h].state = "live"
  BY ListeningFacts
<1>2. /\ c # None /\ ll' = LLReleased(la, l)
      /\ handle' = [handle EXCEPT ![h] = hr] /\ content' = [content EXCEPT ![c] = cr]
      /\ work' = J \o <<Leave(h)>> /\ list' = list /\ downloads' = downloads
  BY DEF Join, Sent, Prepended
<1>3. c \in Ids /\ Exists(c) /\ content[c].status \in {"LOADING", "READY", "DONE"}
      /\ content[c].users \in Seq(Handles) /\ c # l
  BY <1>1, <1>2, FoundFacts
<1>4. J \in Seq(Jobs) /\ \A i \in 1 .. Len(J) : J[i].do = "tell" /\ J[i].handle = h
  <2>1. J \in Seq(Jobs) /\ \A i \in 1 .. Len(J) : J[i] = Tell(h, Order[i])
    BY <1>3, CatchUpFacts
  <2>2. \A m : Tell(h, m).do = "tell" /\ Tell(h, m).handle = h
    BY DEF Tell
  <2> HIDE DEF J
  <2> QED BY <2>1, <2>2
<1>5. /\ u \in Seq(Handles)
      /\ IsInjective(u)
      /\ \A x \in Handles : x \in ToSet(u)
             <=> x = h \/ x \in ToSet(content[c].users)
  <2>1. IsInjective(content[c].users)
    BY <1>1, <1>3 DEF Sharing, Users
  <2>2. h \notin ToSet(content[c].users)
    <3>1. Sharing /\ c \in Ids /\ c # None /\ handle[h].content = None
      BY <1>1, <1>2, <1>3
    <3>2. h \in ToSet(Users(c)) <=> handle[h].content = c
      BY <3>1 DEF Sharing
    <3> QED BY <3>1, <3>2 DEF Users
  <2>3. content[c].users \in Seq(Handles)
    BY <1>3
  <2> DEFINE us == content[c].users
             v == Prepended(h, us)
  <2> HIDE DEF us
  <2>4. LET w == Prepended(h, us)
        IN  /\ w \in Seq(Handles)
            /\ IsInjective(w)
            /\ \A x \in Handles : x \in ToSet(w)
                   <=> x = h \/ x \in ToSet(us)
    <3>1. us \in Seq(Handles)
      BY <2>3 DEF us
    <3>2. IsInjective(us)
      BY <2>1 DEF us
    <3>3. h \notin ToSet(us)
      BY <2>2 DEF us
    <3> QED BY <3>1, <3>2, <3>3, PrependSet
  <2> QED BY <2>4 DEF us
<1>6. hr \in HandleType /\ hr.state = "live" /\ hr.content = c /\ hr.aborted = handle[h].aborted
  BY <1>1, <1>3 DEF Types, HandleType
<1> HIDE DEF u
<1>7. cr \in ContentType /\ cr.users = u /\ cr.status = content[c].status /\ cr.ll = content[c].ll
      /\ cr.locked = content[c].locked
  <2>1. content[c] \in ContentType
    BY <1>1, <1>3 DEF Types
  <2> HIDE DEF c
  <2> QED BY <1>5, <2>1 DEF ContentType
<1>8. la \in [Ids -> LLType] /\ \A k \in Ids : la[k].state = ll[k].state
  <2>1. ll \in [Ids -> LLType]
    BY <1>1 DEF Types
  <2>2. s \in {"headers", "data", "ended"} /\ l \in Ids
    BY <1>1
  <2> HIDE DEF l
  <2> QED BY <2>1, <2>2, SentFacts
<1>9. la[l].state = "held"
  BY <1>1, <1>8
<1>l. l = context[h]
  OBVIOUS
<1> HIDE DEF J, hr, cr, la, c, l
<1>10. /\ ll' \in [Ids -> LLType] /\ ll'[l].state = "released"
       /\ \A k \in Ids : k # l => ll'[k].state = ll[k].state
  <2>1. /\ LLReleased(la, l) \in [Ids -> LLType]
        /\ LLReleased(la, l)[l].state = "released"
        /\ \A k \in Ids : k # l => LLReleased(la, l)[k] = la[k]
    BY <1>1, <1>8, <1>9, LLReleasedFacts
  <2> QED BY <1>2, <1>8, <2>1
<1>11. /\ handle' \in [Handles -> HandleType] /\ handle'[h] = hr
       /\ \A g \in Handles : g # h => handle'[g] = handle[g]
  <2>1. handle \in [Handles -> HandleType]
    BY <1>1 DEF Types
  <2> QED BY <1>2, <1>6, <2>1
<1>12. /\ content' \in [Ids -> ContentType] /\ content'[c] = cr
       /\ \A d \in Ids : d # c => content'[d] = content[d]
  <2>1. content \in [Ids -> ContentType]
    BY <1>1 DEF Types
  <2> QED BY <1>2, <1>3, <1>7, <2>1
<1>13. work' = Append(J, Leave(h))
  BY <1>2, <1>4, AppendIsConcat, JobTypes
<1>14. work' \in Seq(Jobs) /\ Stack' /\ \A g \in Handles : Leaving(g)' <=> g = h
  <2>1. context'[h] # None
    BY <1>1, <1>l
  <2>2. Leave(h) \in {Leave(h), Refuse(h)}
    OBVIOUS
  <2> QED BY <1>4, <1>13, <2>1, <2>2, TellsThen
<1>15. Types'
  BY <1>1, <1>2, <1>10, <1>11, <1>12, <1>14 DEF Types
<1>16. \A d \in Ids : Exists(d)' <=> Exists(d)
  BY <1>7, <1>12 DEF Exists
<1>17. Sharing'
  <2>1. ASSUME NEW d \in Ids
        PROVE  /\ IsInjective(content'[d].users)
               /\ \A g \in Handles : g \in ToSet(content'[d].users)
                                       <=> handle'[g].content = d
    <3>0. /\ IsInjective(content[d].users)
          /\ \A g \in Handles : g \in ToSet(content[d].users)
                                  <=> handle[g].content = d
      BY <1>1 DEF Sharing, Users
    <3>1. CASE d = c
      <4>1. content'[d].users = u
        BY <1>7, <1>12, <3>1
      <4>2. \A g \in Handles : handle'[g].content = d <=> g = h \/ handle[g].content = d
        BY <1>6, <1>11, <3>1
      <4> QED BY <1>5, <3>0, <3>1, <4>1, <4>2
    <3>2. CASE d # c
      <4>1. content'[d] = content[d]
        BY <1>12, <3>2
      <4>2. \A g \in Handles : handle'[g].content = d <=> handle[g].content = d
        BY <1>1, <1>6, <1>11, <3>2, IdFacts
      <4> QED BY <3>0, <4>1, <4>2
    <3> QED BY <3>1, <3>2
  <2>2. ASSUME NEW g \in Handles, handle'[g].content # None
        PROVE  Made(content'[handle'[g].content].status)
    <3>1. handle'[g].content \in Ids /\ Exists(handle'[g].content)
      <4>1. CASE g = h
        BY <1>3, <1>6, <1>11, <4>1
      <4>2. CASE g # h
        BY <1>1, <1>11, <2>2, <4>2 DEF Sharing, Types, HandleType
      <4> QED BY <4>1, <4>2
    <3> QED BY <1>16, <3>1 DEF Exists
  <2>3. \A d \in Ids : content'[d].ll = content[d].ll
    BY <1>7, <1>12
  <2>4. /\ IsInjective(list)
        /\ \A d \in Ids : d \in ToSet(list) <=> Exists(d)
        /\ \A d \in Ids : content[d].ll = IF Exists(d) THEN d ELSE None
    BY <1>1 DEF Sharing
  <2>5. \A d \in Ids : content'[d].ll = IF Exists(d)' THEN d ELSE None
    BY <1>16, <2>3, <2>4
  <2>6. \A d \in Ids : d \in ToSet(list') <=> Exists(d)'
    BY <1>2, <1>16, <2>4
  <2> QED BY <1>2, <2>1, <2>2, <2>4, <2>5, <2>6 DEF Sharing, Users, Exists
<1>18. Owned'
  <2>1. \A k \in Ids : Waiting(k)' <=> Waiting(k) /\ k # l
    BY <1>1, <1>14, IdFacts DEF Waiting
  <2> QED BY <1>1, <1>2, <1>10, <1>16, <2>1 DEF Owned
<1>19. Fresh'
  <2>1. ASSUME NEW g \in Handles
        PROVE  /\ context'[g] \in {None, <<g, "made">>}
               /\ handle'[g].state = "new" =>
                     context'[g] = None /\ handle'[g].content = None
                     /\ ll'[<<g, "made">>].state = "none"
               /\ ~handle'[g].aborted => ll'[<<g, "cloned">>].state = "none"
               /\ context'[g] # None /\ ~Leaving(g)' => handle'[g].content = None
    <3>1. <<g, "made">> \in Ids /\ <<g, "cloned">> \in Ids /\ <<g, "cloned">> # l
          /\ (g # h => <<g, "made">> # l)
      BY <1>1, IdFacts
    <3>2. /\ context[g] \in {None, <<g, "made">>}
          /\ handle[g].state = "new" =>
                context[g] = None /\ handle[g].content = None /\ ll[<<g, "made">>].state = "none"
          /\ ~handle[g].aborted => ll[<<g, "cloned">>].state = "none"
          /\ context[g] # None /\ ~Leaving(g) => handle[g].content = None
      BY <1>1 DEF Fresh
    <3>3. CASE g = h
      BY <1>6, <1>10, <1>11, <1>14, <3>1, <3>2, <3>3
    <3>4. CASE g # h
      BY <1>1, <1>10, <1>11, <1>14, <3>1, <3>2, <3>4
    <3> QED BY <3>3, <3>4
  <2> QED BY <2>1 DEF Fresh
<1> QED BY <1>14, <1>15, <1>17, <1>18, <1>19 DEF Base

\* hlcache_migrate_ctx makes a content, which takes the low-level handle.
LEMMA MakeBase ==
  ASSUME Base, NEW h \in Handles, NEW sent, Listening(h, sent), Make(h, context[h]),
         context' = context, told' = told
  PROVE  Base'
<1> DEFINE l == context[h]
           J == CatchUp(h, "LOADING")
           hr == [handle[h] EXCEPT !.content = l]
           u == <<h>>
           o == ll[l].object
           cr == [NoContent EXCEPT !.status = "LOADING", !.users = u, !.object = o, !.ll = l]
<1>1. /\ Types /\ Sharing /\ Owned /\ Fresh /\ work = <<>>
      /\ \A g \in Handles : ~Leaving(g) /\ ~Migrating(g)
      /\ l = <<h, "made">> /\ l \in Ids /\ l # None
      /\ ll[l].state = "held" /\ ll[l].sent = sent
      /\ ~Exists(l) /\ l \notin downloads
      /\ handle[h].content = None /\ handle[h].state = "live"
  BY ListeningFacts
<1>2. /\ ll' = Sent(ll, l, "headers")
      /\ handle' = [handle EXCEPT ![h] = hr] /\ content' = [content EXCEPT ![l] = cr]
      /\ list' = Prepended(l, list)
      /\ work' = J \o <<Leave(h)>> /\ downloads' = downloads
  BY DEF Make, Sent, Prepended
<1>4. J \in Seq(Jobs) /\ \A i \in 1 .. Len(J) : J[i].do = "tell" /\ J[i].handle = h
  <2>1. J \in Seq(Jobs) /\ \A i \in 1 .. Len(J) : J[i] = Tell(h, Order[i])
    BY CatchUpFacts
  <2>2. \A m : Tell(h, m).do = "tell" /\ Tell(h, m).handle = h
    BY DEF Tell
  <2> HIDE DEF J
  <2> QED BY <2>1, <2>2
<1>l. l = context[h]
  OBVIOUS
<1>u. u \in Seq(Handles) /\ u = <<h>> /\ o \in Objects \cup {None, Own}
  <2>1. ll[l] \in LLType
    BY <1>1 DEF Types
  <2> QED BY <2>1 DEF LLType
<1> HIDE DEF J, l, u, o
<1>6. hr \in HandleType /\ hr.state = "live" /\ hr.content = l /\ hr.aborted = handle[h].aborted
  BY <1>1 DEF Types, HandleType
<1>7. cr \in ContentType /\ cr.users = u /\ cr.status = "LOADING" /\ cr.ll = l
  BY <1>1, <1>u, NoContentType DEF ContentType, Statuses
<1> HIDE DEF hr, cr
<1>8. ll' \in [Ids -> LLType] /\ \A k \in Ids : ll'[k].state = ll[k].state
  <2>1. ll \in [Ids -> LLType]
    BY <1>1 DEF Types
  <2>2. "headers" \in {"headers", "data", "ended"} /\ l \in Ids
    BY <1>1
  <2>3. ll' = Sent(ll, l, "headers")
    BY <1>2
  <2> QED BY <2>1, <2>2, <2>3, SentFacts
<1>11. /\ handle' \in [Handles -> HandleType] /\ handle'[h] = hr
       /\ \A g \in Handles : g # h => handle'[g] = handle[g]
  <2>1. handle \in [Handles -> HandleType]
    BY <1>1 DEF Types
  <2> QED BY <1>2, <1>6, <2>1
<1>12. /\ content' \in [Ids -> ContentType] /\ content'[l] = cr
       /\ \A d \in Ids : d # l => content'[d] = content[d]
  <2>1. content \in [Ids -> ContentType]
    BY <1>1 DEF Types
  <2> QED BY <1>1, <1>2, <1>7, <2>1
<1>13. work' = Append(J, Leave(h))
  BY <1>2, <1>4, AppendIsConcat, JobTypes
<1>14. work' \in Seq(Jobs) /\ Stack' /\ \A g \in Handles : Leaving(g)' <=> g = h
  <2>1. context'[h] # None
    BY <1>1, <1>l
  <2>2. Leave(h) \in {Leave(h), Refuse(h)}
    OBVIOUS
  <2> QED BY <1>4, <1>13, <2>1, <2>2, TellsThen
<1>15. /\ list' \in Seq(Ids) /\ IsInjective(list') /\ ToSet(list') = ToSet(list) \cup {l}
  <2>1. list \in Seq(Ids) /\ IsInjective(list) /\ l \notin ToSet(list)
    BY <1>1 DEF Types, Sharing
  <2>2. list' = Prepended(l, list) /\ l \in Ids
    BY <1>1, <1>2
  <2> QED BY <2>1, <2>2, PrependSet
<1>16. Types'
  BY <1>1, <1>2, <1>8, <1>11, <1>12, <1>14, <1>15 DEF Types
<1>17. \A d \in Ids : Exists(d)' <=> Exists(d) \/ d = l
  BY <1>1, <1>7, <1>12 DEF Exists, Made
<1>18. Sharing'
  <2>1. ASSUME NEW d \in Ids
        PROVE  /\ IsInjective(content'[d].users)
               /\ \A g \in Handles : g \in ToSet(content'[d].users) <=> handle'[g].content = d
    <3>0. /\ IsInjective(content[d].users)
          /\ \A g \in Handles : g \in ToSet(content[d].users) <=> handle[g].content = d
      BY <1>1 DEF Sharing, Users
    <3>1. CASE d = l
      <4>1. content'[d].users = <<h>>
        BY <1>7, <1>12, <1>u, <3>1
      <4>2. \A g \in Handles : handle'[g].content = d <=> g = h
        <5>1. \A g \in Handles : handle[g].content # None => Exists(handle[g].content)
          BY <1>1 DEF Sharing
        <5> QED BY <1>1, <1>6, <1>11, <3>1, <5>1
      <4> QED BY <4>1, <4>2, SmallLists
    <3>2. CASE d # l
      <4>1. content'[d] = content[d]
        BY <1>12, <3>2
      <4>2. \A g \in Handles : handle'[g].content = d <=> handle[g].content = d
        BY <1>1, <1>6, <1>11, <3>2, IdFacts
      <4> QED BY <3>0, <4>1, <4>2
    <3> QED BY <3>1, <3>2
  <2>2. ASSUME NEW g \in Handles, handle'[g].content # None
        PROVE  Made(content'[handle'[g].content].status)
    <3>1. handle'[g].content \in Ids
          /\ (Exists(handle'[g].content) \/ handle'[g].content = l)
      <4>1. CASE g = h
        BY <1>1, <1>6, <1>11, <4>1
      <4>2. CASE g # h
        BY <1>1, <1>11, <2>2, <4>2 DEF Sharing, Types, HandleType
      <4> QED BY <4>1, <4>2
    <3> QED BY <1>17, <3>1 DEF Exists
  <2>3. \A d \in Ids : content'[d].ll = IF Exists(d)' THEN d ELSE None
    <3>1. \A d \in Ids : content[d].ll = IF Exists(d) THEN d ELSE None
      BY <1>1 DEF Sharing
    <3> QED BY <1>1, <1>7, <1>12, <1>17, <3>1
  <2>4. \A d \in Ids : d \in ToSet(list') <=> Exists(d)'
    <3>1. \A d \in Ids : d \in ToSet(list) <=> Exists(d)
      BY <1>1 DEF Sharing
    <3> QED BY <1>15, <1>17, <3>1
  <2> QED BY <1>15, <2>1, <2>2, <2>3, <2>4 DEF Sharing, Users, Exists
<1>19. Owned'
  <2>1. \A k \in Ids : Waiting(k)' <=> Waiting(k) /\ k # l
    BY <1>1, <1>14, IdFacts DEF Waiting
  <2> QED BY <1>1, <1>2, <1>8, <1>17, <2>1 DEF Owned
<1>20. Fresh'
  <2>1. ASSUME NEW g \in Handles
        PROVE  /\ context'[g] \in {None, <<g, "made">>}
               /\ handle'[g].state = "new" =>
                     context'[g] = None /\ handle'[g].content = None
                     /\ ll'[<<g, "made">>].state = "none"
               /\ ~handle'[g].aborted => ll'[<<g, "cloned">>].state = "none"
               /\ context'[g] # None /\ ~Leaving(g)' => handle'[g].content = None
    <3>1. <<g, "made">> \in Ids /\ <<g, "cloned">> \in Ids
      BY IdFacts
    <3>2. /\ context[g] \in {None, <<g, "made">>}
          /\ handle[g].state = "new" =>
                context[g] = None /\ handle[g].content = None /\ ll[<<g, "made">>].state = "none"
          /\ ~handle[g].aborted => ll[<<g, "cloned">>].state = "none"
          /\ context[g] # None /\ ~Leaving(g) => handle[g].content = None
      BY <1>1 DEF Fresh
    <3>3. CASE g = h
      BY <1>6, <1>8, <1>11, <1>14, <3>1, <3>2, <3>3
    <3>4. CASE g # h
      BY <1>1, <1>8, <1>11, <1>14, <3>1, <3>2, <3>4
    <3> QED BY <3>3, <3>4
  <2> QED BY <2>1 DEF Fresh
<1> QED BY <1>14, <1>16, <1>18, <1>19, <1>20 DEF Base

\* hlcache_migrate_ctx gives the low-level handle to the download client.
LEMMA DownloadBase ==
  ASSUME Base, NEW h \in Handles, NEW sent, Listening(h, sent), Download(h, context[h]),
         context' = context, told' = told
  PROVE  Base'
<1> DEFINE l == context[h]
           t == Tell(h, "DOWNLOAD")
<1>1. /\ Types /\ Sharing /\ Owned /\ Fresh /\ work = <<>>
      /\ \A g \in Handles : ~Leaving(g) /\ ~Migrating(g)
      /\ l = <<h, "made">> /\ l \in Ids /\ l # None
      /\ ll[l].state = "held" /\ ll[l].sent = sent
      /\ ~Exists(l) /\ l \notin downloads
      /\ handle[h].content = None /\ handle[h].state = "live"
  BY ListeningFacts
<1>2. /\ ll' = Sent(ll, l, "headers") /\ downloads' = downloads \cup {l}
      /\ work' = <<t, Leave(h)>>
      /\ handle' = handle /\ content' = content /\ list' = list
  BY DEF Download, Sent
<1>3. t \in Jobs /\ t.do = "tell" /\ t.handle = h
  <2>1. "DOWNLOAD" \in Messages
    BY DEF Messages
  <2> QED BY <2>1, JobTypes DEF Tell
<1>l. l = context[h]
  OBVIOUS
<1> HIDE DEF l, t
<1>4. work' = Append(<<t>>, Leave(h)) /\ <<t>> \in Seq(Jobs)
      /\ \A i \in 1 .. Len(<<t>>) : <<t>>[i].do = "tell" /\ <<t>>[i].handle = h
  BY <1>2, <1>3
<1>5. work' \in Seq(Jobs) /\ Stack' /\ \A g \in Handles : Leaving(g)' <=> g = h
  <2>1. context'[h] # None
    BY <1>1, <1>l
  <2>2. Leave(h) \in {Leave(h), Refuse(h)}
    OBVIOUS
  <2> QED BY <1>4, <2>1, <2>2, TellsThen
<1>6. ll' \in [Ids -> LLType] /\ \A k \in Ids : ll'[k].state = ll[k].state
  <2>1. ll \in [Ids -> LLType]
    BY <1>1 DEF Types
  <2>2. "headers" \in {"headers", "data", "ended"} /\ l \in Ids
    BY <1>1
  <2>3. ll' = Sent(ll, l, "headers")
    BY <1>2
  <2> QED BY <2>1, <2>2, <2>3, SentFacts
<1>7. Types'
  BY <1>1, <1>2, <1>5, <1>6 DEF Types
<1>8. Sharing'
  BY <1>1, <1>2 DEF Sharing, Users, Exists
<1>9. Owned'
  <2>1. \A k \in Ids : Waiting(k)' <=> Waiting(k) /\ k # l
    BY <1>1, <1>5, IdFacts DEF Waiting
  <2>2. \A k \in Ids : Exists(k)' <=> Exists(k)
    BY <1>2 DEF Exists
  <2> QED BY <1>1, <1>2, <1>6, <2>1, <2>2 DEF Owned
<1>10. Fresh'
  BY <1>1, <1>2, <1>5, <1>6, IdFacts DEF Fresh
<1> QED BY <1>5, <1>7, <1>8, <1>9, <1>10 DEF Base

\* Every event of a context's low-level handle.
LEMMA ContextEventBase ==
  ASSUME Base, NEW h \in Handles, ContextEvent(h)
  PROVE  Base'
<1>1. ASSUME NEW sent, Listening(h, sent), NEW s \in {"headers", "data"},
             Migrate(h, context[h], s), context' = context, told' = told
      PROVE  Base'
  <2>1. CASE Reject(h, context[h], s)
    <3>1. /\ ll' = Sent(ll, context[h], s) /\ s \in {"headers", "data", "ended"}
          /\ work' \in {<<>>, <<Tell(h, "ERROR")>>, <<Tell(h, "ERROR"), Refuse(h)>>}
          /\ handle' = handle /\ content' = content /\ list' = list /\ downloads' = downloads
      BY <2>1 DEF Reject, Sent
    <3> QED BY <1>1, <3>1, ListenBase
  <2> QED BY <1>1, <2>1, JoinBase, MakeBase, DownloadBase DEF Migrate
<1>2. CASE Headers(h)
  <2>1. Listening(h, "open") /\ context' = context /\ told' = told
    BY <1>2 DEF Headers
  <2>2. CASE Migrate(h, context[h], "headers")
    BY <1>1, <2>1, <2>2
  <2>3. CASE ~Migrate(h, context[h], "headers")
    <3>1. /\ ll' = Sent(ll, context[h], "headers")
          /\ work' \in {<<>>, <<Tell(h, "ERROR")>>, <<Tell(h, "ERROR"), Refuse(h)>>}
          /\ handle' = handle /\ content' = content /\ list' = list /\ downloads' = downloads
      BY <1>2, <2>3 DEF Headers, Sent, Listening, Idle
    <3> QED BY <2>1, <3>1, ListenBase
  <2> QED BY <2>2, <2>3
<1>3. CASE Settle(h)
  BY <1>1, <1>3 DEF Settle
<1>4. CASE FetchFails(h)
  <2>1. PICK sent \in {"open", "headers"} : Listening(h, sent)
    BY <1>4 DEF FetchFails
  <2>2. /\ ll' = Sent(ll, context[h], "ended")
        /\ work' \in {<<>>, <<Tell(h, "ERROR")>>, <<Tell(h, "ERROR"), Refuse(h)>>}
        /\ handle' = handle /\ context' = context /\ content' = content /\ list' = list
        /\ downloads' = downloads /\ told' = told
    BY <1>4 DEF FetchFails, Sent
  <2> QED BY <2>1, <2>2, ListenBase
<1> QED BY <1>2, <1>3, <1>4 DEF ContextEvent

-----------------------------------------------------------------------------
\* What a callback may do.
LEMMA ReactionFacts ==
  ASSUME NEW h \in Handles, NEW msg, NEW R \in Reactions(h, msg)
  PROVE  /\ R \in SUBSET Handles
         /\ \A g, k \in R : g = k
         /\ \A g \in R : Live(g) /\ msg \in ReleaseOn /\ (Whose = "any" \/ g = h)
<1>1. CASE R = {}
  BY <1>1
<1>2. CASE R # {}
  <2>1. msg \in ReleaseOn
    BY <1>2 DEF Reactions
  <2>2. PICK u \in {g \in Handles : Live(g) /\ (Whose = "any" \/ g = h)} : R = {u}
    BY <1>2, <2>1 DEF Reactions
  <2> QED BY <2>1, <2>2
<1> QED BY <1>1, <1>2

\* The first job, as the steps that do it find it.
LEMMA FirstJob ==
  ASSUME Types, work # <<>>
  PROVE  /\ Head(work) = work[1] /\ work[1] \in Jobs /\ 1 \in 1 .. Len(work)
         /\ Len(work) \in Nat \ {0} /\ work \in Seq(Jobs)
<1>1. work \in Seq(Jobs)
  BY DEF Types
<1>2. Len(work) \in Nat \ {0}
  BY <1>1, EmptySeq, LenProperties
<1> QED BY <1>1, <1>2, HeadTailProperties

\* A message to a client, whatever it then does, when the jobs that follow it
\* are what they were, after at most some of a content.
LEMMA CalledBase ==
  ASSUME Base, work # <<>>, work[1].do \notin {"leave", "refuse"},
         NEW h \in Handles, NEW msg \in Messages, Called(h, msg),
         NEW c \in Ids, NEW J, OfContent(J, c), J # <<>> => Exists(c), work' = J \o Tail(work)
  PROVE  Base'
<1>1. PICK R \in Reactions(h, msg) : Released(R)
  BY DEF Called
<1>2. /\ told' = [told EXCEPT ![h] = Append(told[h], msg)]
      /\ list' = list /\ downloads' = downloads
  BY DEF Called
<1>3. R \in SUBSET Handles /\ (\A g, k \in R : g = k) /\ \A g \in R : Live(g)
  BY <1>1, ReactionFacts
<1>4. Types /\ told \in [Handles -> Seq(Messages)]
  BY DEF Base, Types
<1>5. told' \in [Handles -> Seq(Messages)]
  <2>1. told[h] \in Seq(Messages)
    BY <1>4
  <2>2. Append(told[h], msg) \in Seq(Messages)
    BY <2>1, AppendProperties
  <2> QED BY <1>2, <1>4, <2>2
<1>6. /\ \A d \in Ids : content'[d].status = content[d].status
      /\ \/ context' = context
         \/ \E g \in R : Nascent(g) /\ context' = [context EXCEPT ![g] = None]
  BY <1>1, <1>3, <1>4, ReleasedFacts
<1>7. work' \in Seq(Jobs) /\ Stack' /\ \A g \in Handles : Leaving(g)' <=> Leaving(g)
  <2>1. \A d \in Ids : Exists(d)' <=> Exists(d)
    BY <1>6 DEF Exists
  <2>2. \A g \in Handles : Migrating(g) /\ context[g] # None => context'[g] # None
    <3>1. context \in [Handles -> Ids \cup {None}]
      BY <1>4 DEF Types
    <3> QED BY <1>3, <1>6, <3>1 DEF Nascent
  <2>3. J \in Seq(Jobs) /\ \A i \in 1 .. Len(J) :
           J[i].do \in ContentJobs \cup {"cast"} /\ Made(content'[J[i].content].status)
    <3>1. CASE J = <<>>
      BY <3>1 DEF OfContent
    <3>2. CASE J # <<>>
      BY <2>1, <3>2 DEF OfContent, Exists
    <3> QED BY <3>1, <3>2
  <2>4. work \in Seq(Jobs) /\ Stack
    BY <1>4 DEF Types, Base
  <2> QED BY <2>1, <2>2, <2>3, <2>4, WorkStep
<1> QED BY <1>1, <1>2, <1>3, <1>5, <1>7, ReleasedBase

\* A message to one handle, sent by the cache itself.
LEMMA TellBase == ASSUME Base, DoTell PROVE Base'
<1> DEFINE j == Head(work)
<1>1. Types /\ work # <<>> /\ j = work[1] /\ work[1] \in Jobs /\ j.do = "tell"
  BY FirstJob DEF Base, DoTell, Now
<1>2. j.handle \in Handles /\ j.msg \in Messages /\ work[1].do \notin {"leave", "refuse"}
  BY <1>1, JobFields
<1>3. Called(j.handle, j.msg) /\ work' = <<>> \o Tail(work)
  BY DEF DoTell, Then
<1>4. <<j.handle, "made">> \in Ids
  BY <1>2, IdFacts
<1> DEFINE c == <<j.handle, "made">>
<1>5. OfContent(<<>>, c)
  BY <1>4, ContentSeqs
<1> HIDE DEF j, c
<1>6. c \in Ids
  BY <1>4 DEF c
<1> QED BY <1>1, <1>2, <1>3, <1>5, <1>6, CalledBase

\* One step of content_broadcast, whatever the user's callback releases.
LEMMA CastBase == ASSUME Base, DoCast PROVE Base'
<1> DEFINE j == Head(work)
           c == j.content
<1>1. Types /\ work # <<>> /\ j = work[1] /\ work[1] \in Jobs /\ j.do = "cast"
      /\ 1 \in 1 .. Len(work)
  BY FirstJob DEF Base, DoCast, Now
<1>2. c \in Ids /\ j.msg \in Messages /\ work[1].do \notin {"leave", "refuse"}
      /\ j.next \in Handles \cup {None} /\ Exists(c)
  BY <1>1, JobFields DEF Base, Stack
<1>3. CASE j.next = None /\ work' = <<>> \o Tail(work)
           /\ UNCHANGED <<handle, context, content, list, ll, downloads, told, running>>
  <2>1. OfContent(<<>>, c) /\ Made(content'[c].status) /\ \A d \in Ids : Exists(d) => Exists(d)'
    BY <1>2, <1>3, ContentSeqs DEF Exists
  <2> HIDE DEF j, c
  <2>2. work' \in Seq(Jobs) /\ Stack' /\ \A h \in Handles : Leaving(h)' <=> Leaving(h)
    BY <1>1, <1>2, <1>3, <2>1, ContentStep
  <2>3. Types'
    BY <1>1, <1>3, <2>2 DEF Types
  <2> QED BY <1>3, <2>2, <2>3, Quiet DEF Exists
<1>4. CASE /\ j.next \in ToSet(content[c].users)
           /\ Called(j.next, j.msg)
           /\ work' = <<[j EXCEPT !.next = NextUser(content[c].users, j.next)]>> \o Tail(work)
  <2> DEFINE u == NextUser(content[c].users, j.next)
             k == [j EXCEPT !.next = u]
  <2>1. u \in Handles \cup {None} /\ j.next \in Handles
    <3>1. content[c].users \in Seq(Handles)
      BY <1>1, <1>2, UserTypes DEF Types
    <3>2. ToSet(content[c].users) \subseteq Handles
      BY <3>1, MembersOf
    <3> QED BY <1>1, <1>2, <1>4, <3>2, UserTypes DEF Types
  <2>2. k = Cast(c, j.msg, u)
    <3>1. j \in [do : {"cast"}, content : Ids, msg : Messages, next : Handles \cup {None}]
      BY <1>1 DEF Jobs, ContentJobs
    <3> HIDE DEF u, j
    <3> QED BY <1>1, <3>1 DEF Cast
  <2>3. OfContent(<<k>>, c)
    BY <1>2, <2>1, <2>2, ContentSeqs
  <2>4. work' = <<k>> \o Tail(work)
    BY <1>4
  <2> HIDE DEF j, c, k, u
  <2> QED BY <1>1, <1>2, <1>4, <2>1, <2>3, <2>4, CalledBase
<1> QED BY <1>3, <1>4 DEF DoCast, Then

\* The end of a migration: the context goes, and its low-level handle has
\* already been given away or is released.
LEMMA LastJob ==
  ASSUME Base, work # <<>>, Head(work).do \in {"leave", "refuse"}, work' = <<>> \o Tail(work)
  PROVE  /\ Types /\ Sharing /\ Owned /\ Fresh /\ work' = <<>>
         /\ Head(work).handle \in Handles /\ context[Head(work).handle] # None
         /\ \A g \in Handles : Leaving(g) <=> Head(work) = Leave(g)
<1>1. Types /\ Head(work) = work[1] /\ work[1] \in Jobs /\ 1 \in 1 .. Len(work)
      /\ Len(work) \in Nat \ {0} /\ work \in Seq(Jobs)
  BY FirstJob DEF Base
<1>2. Len(work) = 1 /\ context[work[1].handle] # None /\ work[1].handle \in Handles
  BY <1>1, JobFields DEF Base, Stack
<1>3. work' = <<>>
  <2>1. Tail(work) \in Seq(Jobs) /\ Len(Tail(work)) = 0
    BY <1>1, <1>2, HeadTailProperties
  <2>2. Tail(work) = <<>>
    BY <2>1, EmptySeq
  <2> QED BY <2>2
<1>4. \A g \in Handles : Leaving(g) <=> work[1] = Leave(g)
  BY <1>1, <1>2 DEF Leaving
<1> QED BY <1>1, <1>2, <1>3, <1>4 DEF Base

\* The end of a migration that went well: the low-level handle has a new owner.
LEMMA LeaveBase == ASSUME Base, DoLeave PROVE Base'
<1> DEFINE h == Head(work).handle
<1>1. /\ Types /\ Sharing /\ Owned /\ Fresh /\ work' = <<>>
      /\ h \in Handles /\ context[h] # None
      /\ \A g \in Handles : Leaving(g) <=> Head(work) = Leave(g)
  BY LastJob DEF DoLeave, Now, Then
<1>2. /\ context' = [context EXCEPT ![h] = None]
      /\ handle' = handle /\ content' = content /\ list' = list /\ ll' = ll
      /\ downloads' = downloads /\ told' = told
  BY DEF DoLeave
<1>3. \A g \in Handles : Leaving(g) <=> g = h
  <2>1. Head(work) = Leave(h)
    <3>1. work # <<>> /\ Head(work).do = "leave"
      BY DEF DoLeave, Now
    <3> QED BY <1>1, <3>1, FirstJob, JobFields
  <2>2. \A g \in Handles : Leave(g).handle = g
    BY DEF Leave
  <2> HIDE DEF h
  <2> QED BY <1>1, <2>1, <2>2
<1> HIDE DEF h
<1>4. /\ context' \in [Handles -> Ids \cup {None}]
      /\ \A g \in Handles : context'[g] = IF g = h THEN None ELSE context[g]
  BY <1>1, <1>2 DEF Types
<1>5. Types'
  BY <1>1, <1>2, <1>4 DEF Types
<1>6. Stack' /\ \A g \in Handles : ~Leaving(g)'
  BY <1>1 DEF Stack, Leaving
<1>7. Sharing'
  BY <1>1, <1>2 DEF Sharing, Users, Exists
<1>8. Owned'
  <2>1. \A k \in Ids : Waiting(k)' <=> Waiting(k)
    BY <1>3, <1>4, <1>6 DEF Waiting
  <2> QED BY <1>1, <1>2, <2>1 DEF Owned, Exists
<1>9. Fresh'
  <2>1. ASSUME NEW g \in Handles
        PROVE  /\ context'[g] \in {None, <<g, "made">>}
               /\ handle'[g].state = "new" =>
                     context'[g] = None /\ handle'[g].content = None
                     /\ ll'[<<g, "made">>].state = "none"
               /\ ~handle'[g].aborted => ll'[<<g, "cloned">>].state = "none"
               /\ context'[g] # None /\ ~Leaving(g)' => handle'[g].content = None
    <3>1. /\ context[g] \in {None, <<g, "made">>}
          /\ handle[g].state = "new" =>
                context[g] = None /\ handle[g].content = None /\ ll[<<g, "made">>].state = "none"
          /\ ~handle[g].aborted => ll[<<g, "cloned">>].state = "none"
          /\ context[g] # None /\ ~Leaving(g) => handle[g].content = None
      BY <1>1 DEF Fresh
    <3>2. context'[g] = (IF g = h THEN None ELSE context[g]) /\ (Leaving(g) <=> g = h)
      BY <1>3, <1>4
    <3>3. handle' = handle /\ ll' = ll
      BY <1>2
    <3> QED BY <3>1, <3>2, <3>3
  <2> QED BY <2>1 DEF Fresh
<1> QED BY <1>5, <1>6, <1>7, <1>8, <1>9 DEF Base

\* The end of a migration that failed: the low-level handle is released.
LEMMA RefuseBase == ASSUME Base, DoRefuse PROVE Base'
<1> DEFINE h == Head(work).handle
<1>1. /\ Types /\ Sharing /\ Owned /\ Fresh /\ work' = <<>>
      /\ h \in Handles /\ context[h] # None
      /\ \A g \in Handles : Leaving(g) <=> Head(work) = Leave(g)
  BY LastJob DEF DoRefuse, Now, Then
<1>2. /\ context' = [context EXCEPT ![h] = None]
      /\ ll' = LLReleased(LLAborted(ll, context[h]), context[h])
      /\ handle' = handle /\ content' = content /\ list' = list
      /\ downloads' = downloads /\ told' = told
  BY DEF DoRefuse
<1>3. \A g \in Handles : ~Leaving(g)
  <2>1. Head(work).do = "refuse" /\ \A g \in Handles : Leave(g).do = "leave"
    BY DEF DoRefuse, Now, Leave
  <2> QED BY <1>1, <2>1
<1> HIDE DEF h
<1>4. /\ context' \in [Handles -> Ids \cup {None}]
      /\ \A g \in Handles : context'[g] = IF g = h THEN None ELSE context[g]
  BY <1>1, <1>2 DEF Types
<1>5. /\ context[h] = <<h, "made">> /\ ll[context[h]].state = "held"
      /\ ll' \in [Ids -> LLType]
      /\ \A l \in Ids : /\ ll'[l].state = IF l = context[h] THEN "released" ELSE ll[l].state
                        /\ l # context[h] => ll'[l] = ll[l]
  BY <1>1, <1>2, <1>3, ContextHolds
<1>6. Types'
  <2>1. /\ handle \in [Handles -> HandleType] /\ content \in [Ids -> ContentType]
        /\ list \in Seq(Ids) /\ downloads \subseteq Ids /\ told \in [Handles -> Seq(Messages)]
    BY <1>1 DEF Types
  <2>2. work' \in Seq(Jobs)
    BY <1>1
  <2> QED BY <1>2, <1>4, <1>5, <2>1, <2>2 DEF Types
<1>7. Stack' /\ \A g \in Handles : ~Leaving(g)'
  BY <1>1 DEF Stack, Leaving
<1>8. Sharing'
  BY <1>1, <1>2 DEF Sharing, Users, Exists
<1>9. Owned'
  <2>1. \A c \in Ids : Exists(c)' <=> Exists(c)
    BY <1>2 DEF Exists
  <2> QED BY <1>1, <1>2, <1>3, <1>4, <1>5, <1>7, <2>1, ContextGone
<1>10. Fresh'
  <2>1. ASSUME NEW g \in Handles
        PROVE  /\ context'[g] \in {None, <<g, "made">>}
               /\ handle'[g].state = "new" =>
                     context'[g] = None /\ handle'[g].content = None
                     /\ ll'[<<g, "made">>].state = "none"
               /\ ~handle'[g].aborted => ll'[<<g, "cloned">>].state = "none"
               /\ context'[g] # None /\ ~Leaving(g)' => handle'[g].content = None
    <3>1. <<g, "made">> \in Ids /\ <<g, "cloned">> \in Ids /\ <<g, "cloned">> # context[h]
      BY <1>1, <1>5, IdFacts
    <3>2. ll[<<g, "made">>].state = "none" => <<g, "made">> # context[h]
      BY <1>5
    <3>3. /\ context[g] \in {None, <<g, "made">>}
          /\ handle[g].state = "new" =>
                context[g] = None /\ handle[g].content = None /\ ll[<<g, "made">>].state = "none"
          /\ ~handle[g].aborted => ll[<<g, "cloned">>].state = "none"
          /\ context[g] # None /\ ~Leaving(g) => handle[g].content = None
      BY <1>1 DEF Fresh
    <3> QED BY <1>2, <1>3, <1>4, <1>5, <3>1, <3>2, <3>3
  <2> QED BY <2>1 DEF Fresh
<1> QED BY <1>6, <1>7, <1>8, <1>9, <1>10 DEF Base

-----------------------------------------------------------------------------
\* Contents without users are destroyed, when ls is the low-level cache.
Dropped(D, ls) ==
  /\ D \subseteq ToSet(list) /\ \A c \in D : Users(c) = <<>>
  /\ ls \in [Ids -> LLType] /\ \A c \in D : ls[c].state = "held"
  /\ Destroyed(D, ls)

\* What destroying contents without users does, once the low-level handles of
\* contexts have gone.
LEMMA DestroyedFacts ==
  ASSUME Types, Sharing, NEW D, NEW ls, Dropped(D, ls)
  PROVE  /\ D \subseteq Ids /\ \A c \in D : Exists(c)
         /\ content' \in [Ids -> ContentType]
         /\ \A c \in Ids : Exists(c)' <=> Exists(c) /\ c \notin D
         /\ \A c \in Ids : Users(c)' = Users(c)
         /\ \A c \in Ids : content'[c].ll = IF c \in D THEN None ELSE content[c].ll
         /\ list' \in Seq(Ids) /\ IsInjective(list') /\ ToSet(list') = ToSet(list) \ D
         /\ ll' \in [Ids -> LLType]
         /\ \A l \in Ids : ll'[l].state = IF l \in D THEN "released" ELSE ls[l].state
<1>0. /\ D \subseteq ToSet(list) /\ \A c \in D : Users(c) = <<>>
      /\ ls \in [Ids -> LLType] /\ \A c \in D : ls[c].state = "held"
      /\ Destroyed(D, ls)
  BY DEF Dropped
<1>1. list \in Seq(Ids) /\ content \in [Ids -> ContentType]
  BY DEF Types
<1>2. D \subseteq Ids /\ \A c \in D : Exists(c)
  <2>1. ToSet(list) \subseteq Ids
    BY <1>1, MembersOf
  <2> QED BY <1>0, <2>1 DEF Sharing
<1> DEFINE gone == [NoContent EXCEPT !.status = "destroyed"]
<1>3. gone \in ContentType /\ gone.status = "destroyed" /\ gone.users = <<>> /\ gone.ll = None
  BY NoContentType, EmptySeq DEF ContentType, NoContent, Statuses
<1>4. content' = [c \in Ids |-> IF c \in D THEN gone ELSE content[c]]
  BY <1>0 DEF Destroyed
<1> HIDE DEF gone
<1>5. /\ content' \in [Ids -> ContentType]
      /\ \A c \in Ids : c \in D => content'[c] = gone
      /\ \A c \in Ids : c \notin D => content'[c] = content[c]
  BY <1>1, <1>3, <1>4
<1>6. \A c \in Ids : Exists(c)' <=> Exists(c) /\ c \notin D
  <2>1. ~Made(gone.status)
    BY <1>3 DEF Made
  <2> QED BY <1>5, <2>1 DEF Exists
<1>7. \A c \in Ids : Users(c)' = Users(c)
  BY <1>0, <1>3, <1>5 DEF Users
<1>8. \A c \in Ids : content'[c].ll = IF c \in D THEN None ELSE content[c].ll
  BY <1>3, <1>5
<1>9. list' \in Seq(Ids) /\ IsInjective(list') /\ ToSet(list') = ToSet(list) \ D
  <2>1. list' = Without(list, D) /\ IsInjective(list)
    BY <1>0 DEF Destroyed, Sharing
  <2> QED BY <1>1, <2>1, WithoutSet
<1>10. \A l \in Ids : (\E c \in D : content[c].ll = l) <=> l \in D
  <2>1. \A c \in D : content[c].ll = c
    BY <1>2 DEF Sharing
  <2> QED BY <2>1
<1>11. ll' = [l \in Ids |-> IF l \in D THEN LLReleased(ls, l)[l] ELSE ls[l]]
  BY <1>0, <1>10 DEF Destroyed
<1>12. \A l \in D : LLReleased(ls, l)[l] \in LLType /\ LLReleased(ls, l)[l].state = "released"
  BY <1>0, <1>2, LLReleasedFacts
<1>13. /\ ll' \in [Ids -> LLType]
       /\ \A l \in Ids : ll'[l].state = IF l \in D THEN "released" ELSE ls[l].state
  BY <1>0, <1>11, <1>12
<1> QED BY <1>2, <1>5, <1>6, <1>7, <1>8, <1>9, <1>13

\* ... and no handle pointed into any of them.
LEMMA SharingCleaned ==
  ASSUME Types, Sharing, NEW D, D \subseteq Ids, \A c \in D : Users(c) = <<>>,
         \A h \in Handles : handle'[h].content = handle[h].content,
         \A c \in Ids : Exists(c)' <=> Exists(c) /\ c \notin D,
         \A c \in Ids : Users(c)' = Users(c),
         \A c \in Ids : content'[c].ll = IF c \in D THEN None ELSE content[c].ll,
         IsInjective(list'), ToSet(list') = ToSet(list) \ D
  PROVE  Sharing'
<1>1. \A h \in Handles : handle[h].content \notin D
  <2>1. ASSUME NEW h \in Handles, handle[h].content \in D
        PROVE  FALSE
    <3>1. h \in ToSet(Users(handle[h].content)) /\ Users(handle[h].content) = <<>>
      BY <2>1 DEF Sharing
    <3>2. ToSet(<<>>) = {}
      BY SmallLists
    <3> QED BY <3>1, <3>2
  <2> QED BY <2>1
<1>2. /\ \A c \in Ids : IsInjective(Users(c)')
      /\ \A c \in Ids : \A h \in Handles : h \in ToSet(Users(c)') <=> handle'[h].content = c
  BY DEF Sharing
<1>3. \A h \in Handles : handle'[h].content # None => Made(content'[handle'[h].content].status)
  <2>1. \A h \in Handles : handle[h].content # None =>
           Exists(handle[h].content) /\ handle[h].content \in Ids
    BY DEF Sharing, Types, HandleType
  <2>2. \A c \in Ids : Exists(c) /\ c \notin D => Made(content'[c].status)
    BY DEF Exists
  <2>3. \A h \in Handles : handle[h].content # None => Made(content'[handle[h].content].status)
    BY <1>1, <2>1, <2>2
  <2> QED BY <2>3
<1>4. /\ \A c \in Ids : c \in ToSet(list') <=> Exists(c)'
      /\ \A c \in Ids : content'[c].ll = IF Exists(c)' THEN c ELSE None
  BY DEF Sharing
<1> QED BY <1>2, <1>3, <1>4 DEF Sharing, Users, Exists

\* hlcache_clean: only contents nobody uses go, each with its handle.
LEMMA CleanBase == ASSUME Base, Clean PROVE Base'
<1> DEFINE D == {c \in ToSet(list) : Unused(c)}
<1>1. /\ Types /\ Sharing /\ Owned /\ Fresh /\ work = <<>> /\ Destroyed(D, ll)
      /\ handle' = handle /\ context' = context /\ downloads' = downloads /\ told' = told
      /\ work' = work
  BY DEF Base, Clean, Idle
<1>2. D \subseteq ToSet(list) /\ \A c \in D : Users(c) = <<>>
  BY DEF Unused, Users
<1> HIDE DEF D
<1>3. D \subseteq Ids /\ \A c \in D : Exists(c)
  <2>1. ToSet(list) \subseteq Ids
    BY <1>1, MembersOf DEF Types
  <2> QED BY <1>1, <1>2, <2>1 DEF Sharing
<1>4. ll \in [Ids -> LLType] /\ \A c \in D : ll[c].state = "held"
  BY <1>1, <1>3 DEF Types, Owned
<1>11. Types /\ Sharing /\ Dropped(D, ll)
  BY <1>1, <1>2, <1>4 DEF Dropped
<1>5. /\ content' \in [Ids -> ContentType]
      /\ \A c \in Ids : Exists(c)' <=> Exists(c) /\ c \notin D
      /\ \A c \in Ids : Users(c)' = Users(c)
      /\ \A c \in Ids : content'[c].ll = IF c \in D THEN None ELSE content[c].ll
      /\ list' \in Seq(Ids) /\ IsInjective(list') /\ ToSet(list') = ToSet(list) \ D
      /\ ll' \in [Ids -> LLType]
      /\ \A l \in Ids : ll'[l].state = IF l \in D THEN "released" ELSE ll[l].state
  BY <1>11, DestroyedFacts
<1>6. Types'
  BY <1>1, <1>5 DEF Types
<1>7. Sharing'
  <2>1. \A h \in Handles : handle'[h].content = handle[h].content
    BY <1>1
  <2> QED BY <1>1, <1>2, <1>3, <1>5, <2>1, SharingCleaned
<1>8. Stack' /\ \A g \in Handles : Leaving(g)' <=> Leaving(g)
  BY <1>1 DEF Stack, Leaving
<1>9. Owned'
  <2>1. \A l \in Ids : Waiting(l)' <=> Waiting(l)
    BY <1>1, <1>8 DEF Waiting
  <2> QED BY <1>1, <1>3, <1>5, <2>1 DEF Owned
<1>10. Fresh'
  <2>1. \A l \in Ids : ll[l].state = "none" => ll'[l].state = "none"
    BY <1>4, <1>5
  <2>2. ASSUME NEW g \in Handles
        PROVE  /\ context'[g] \in {None, <<g, "made">>}
               /\ handle'[g].state = "new" =>
                     context'[g] = None /\ handle'[g].content = None
                     /\ ll'[<<g, "made">>].state = "none"
               /\ ~handle'[g].aborted => ll'[<<g, "cloned">>].state = "none"
               /\ context'[g] # None /\ ~Leaving(g)' => handle'[g].content = None
    BY <1>1, <1>8, <2>1, IdFacts DEF Fresh
  <2> QED BY <2>2 DEF Fresh
<1> QED BY <1>6, <1>7, <1>8, <1>9, <1>10 DEF Base

\* hlcache_finalise: the contexts release what they hold, which no content and
\* no download holds.
LEMMA FinaliseBase == ASSUME Base, Finalise PROVE Base'
<1> DEFINE D == {c \in ToSet(list) : content[c].users = <<>>}
           contexts == {h \in Handles : context[h] # None}
           H == {l \in Ids : \E h \in contexts : context[h] = l}
           ls == [l \in Ids |-> IF \E h \in contexts : context[h] = l
                                THEN LLReleased(ll, l)[l] ELSE ll[l]]
<1>1. /\ Types /\ Sharing /\ Owned /\ Fresh /\ work = <<>> /\ Destroyed(D, ls)
      /\ context' = [h \in Handles |-> None]
      /\ handle' = [h \in Handles |->
            IF h \in contexts THEN [handle[h] EXCEPT !.state = "gone"] ELSE handle[h]]
      /\ downloads' = downloads /\ told' = told /\ work' = work
  BY DEF Base, Finalise, Idle
<1>2. D \subseteq ToSet(list) /\ \A c \in D : Users(c) = <<>>
  BY DEF Users
<1>3. D \subseteq Ids /\ \A c \in D : Exists(c)
  <2>1. ToSet(list) \subseteq Ids
    BY <1>1, MembersOf DEF Types
  <2> QED BY <1>1, <1>2, <2>1 DEF Sharing
<1>4. \A g \in Handles : ~Leaving(g)
  BY <1>1, NothingLeft
<1>5. \A l \in Ids : l \in H <=> Waiting(l)
  <2>1. \A h \in Handles : context[h] \in {None, <<h, "made">>}
    BY <1>1 DEF Fresh
  <2> QED BY <1>4, <2>1 DEF Waiting
<1>6. \A l \in H : l \in Ids /\ ll[l].state = "held" /\ ~Exists(l) /\ l \notin downloads
  BY <1>1, <1>5 DEF Owned
<1>7. ll \in [Ids -> LLType]
  BY <1>1 DEF Types
<1>8. ls = [l \in Ids |-> IF l \in H THEN LLReleased(ll, l)[l] ELSE ll[l]]
  OBVIOUS
<1> HIDE DEF D, H, ls
<1>9. \A l \in H : LLReleased(ll, l)[l] \in LLType /\ LLReleased(ll, l)[l].state = "released"
  BY <1>6, <1>7, LLReleasedFacts
<1>10. /\ ls \in [Ids -> LLType]
       /\ \A l \in Ids : ls[l].state = IF l \in H THEN "released" ELSE ll[l].state
  BY <1>7, <1>8, <1>9
<1>11. \A c \in D : ls[c].state = "held"
  BY <1>1, <1>3, <1>6, <1>10 DEF Owned
<1>12. /\ content' \in [Ids -> ContentType]
       /\ \A c \in Ids : Exists(c)' <=> Exists(c) /\ c \notin D
       /\ \A c \in Ids : Users(c)' = Users(c)
       /\ \A c \in Ids : content'[c].ll = IF c \in D THEN None ELSE content[c].ll
       /\ list' \in Seq(Ids) /\ IsInjective(list') /\ ToSet(list') = ToSet(list) \ D
       /\ ll' \in [Ids -> LLType]
       /\ \A l \in Ids : ll'[l].state = IF l \in D THEN "released" ELSE ls[l].state
  <2>1. Types /\ Sharing /\ Dropped(D, ls)
    BY <1>1, <1>2, <1>10, <1>11 DEF Dropped
  <2> QED BY <2>1, DestroyedFacts
<1>13. /\ handle' \in [Handles -> HandleType]
       /\ \A g \in Handles : /\ handle'[g].content = handle[g].content
                             /\ handle'[g].aborted = handle[g].aborted
                             /\ handle'[g].state \in {"gone", handle[g].state}
  <2>1. handle \in [Handles -> HandleType]
    BY <1>1 DEF Types
  <2>2. \A g \in Handles : LET r == [handle[g] EXCEPT !.state = "gone"]
           IN r \in HandleType /\ r.content = handle[g].content
              /\ r.aborted = handle[g].aborted /\ r.state = "gone"
    BY <2>1 DEF HandleType
  <2> HIDE DEF contexts
  <2> QED BY <1>1, <2>1, <2>2
<1>14. Types'
  <2>1. context' \in [Handles -> Ids \cup {None}]
    BY <1>1
  <2> QED BY <1>1, <1>12, <1>13, <2>1 DEF Types
<1>15. Sharing'
  <2>1. \A h \in Handles : handle'[h].content = handle[h].content
    BY <1>13
  <2> QED BY <1>1, <1>2, <1>3, <1>12, <2>1, SharingCleaned
<1>16. Stack'
  BY <1>1 DEF Stack
<1>17. Owned'
  <2>1. \A l \in Ids : ~Waiting(l)'
    BY <1>1 DEF Waiting
  <2> QED BY <1>1, <1>3, <1>5, <1>6, <1>10, <1>12, <2>1 DEF Owned
<1>18. Fresh'
  <2>1. \A l \in Ids : ll[l].state = "none" => ll'[l].state = "none"
    BY <1>6, <1>10, <1>11, <1>12
  <2>2. ASSUME NEW g \in Handles
        PROVE  /\ context'[g] = None
               /\ handle'[g].state = "new" =>
                     handle'[g].content = None /\ ll'[<<g, "made">>].state = "none"
               /\ ~handle'[g].aborted => ll'[<<g, "cloned">>].state = "none"
    <3>1. /\ handle[g].state = "new" => handle[g].content = None /\ ll[<<g, "made">>].state = "none"
          /\ ~handle[g].aborted => ll[<<g, "cloned">>].state = "none"
      BY <1>1 DEF Fresh
    <3>2. handle'[g].state = "new" => handle[g].state = "new"
      BY <1>13
    <3>3. context'[g] = None
      BY <1>1
    <3> QED BY <1>13, <2>1, <3>1, <3>2, <3>3, IdFacts
  <2> QED BY <2>2 DEF Fresh
<1> QED BY <1>14, <1>15, <1>16, <1>17, <1>18 DEF Base

-----------------------------------------------------------------------------
\* No step of the cache breaks the invariant.
LEMMA StepBase == ASSUME Base, [Next]_vars PROVE Base'
<1>1. CASE Work
  BY <1>1, TellBase, CastBase, LeaveBase, RefuseBase, ContentJobBase DEF Work
<1>2. ASSUME NEW h \in Handles, Client(h)
      PROVE  Base'
  BY <1>2, RetrieveBase, ReleaseBase, AbortContextBase, AbortContentBase, AbortSharedBase
     DEF Client
<1>3. ASSUME NEW h \in Handles, ContextEvent(h)
      PROVE  Base'
  BY <1>3, ContextEventBase
<1>4. ASSUME NEW c \in Ids,
             ContentEvent(c) \/ ConversionEnds(c) \/ PageEnds(c) \/ DownloadEnds(c)
      PROVE  Base'
  BY <1>4, ContentEventBase, DownloadEndsBase
<1>5. CASE Clean
  BY <1>5, CleanBase
<1>6. CASE Finalise
  BY <1>6, FinaliseBase
<1>7. CASE UNCHANGED vars
  <2>1. /\ handle' = handle /\ context' = context /\ content' = content /\ list' = list
        /\ ll' = ll /\ downloads' = downloads /\ told' = told /\ work' = work
    BY <1>7 DEF vars
  <2>2. Types'
    BY <2>1 DEF Base, Types
  <2>3. Stack'
    BY <2>1 DEF Base, Stack, Exists
  <2>4. \A g \in Handles : Leaving(g)' <=> Leaving(g)
    BY <2>1 DEF Leaving
  <2> QED BY <2>1, <2>2, <2>3, <2>4, Quiet DEF Exists
<1> QED BY <1>1, <1>2, <1>3, <1>4, <1>5, <1>6, <1>7 DEF Next

-----------------------------------------------------------------------------
\* The cache's variables keep their types, the user lists and the content list
\* agree with the handles, and what is held is held by one owner: always, for
\* any handles, objects and clients.
THEOREM BaseAlways == Spec => []Base
<1>1. Init => Base
  BY InitBase
<1>2. Base /\ [Next]_vars => Base'
  BY StepBase
<1> QED BY <1>1, <1>2, PTL DEF Spec

\* A handle is counted once in the user list of its content, and in no other.
LEMMA BaseAgrees == ASSUME Base PROVE UsersAgree
<1>1. Types /\ Sharing
  BY DEF Base
<1>2. ASSUME NEW h \in Handles, NEW c \in Ids
      PROVE  Cardinality({i \in DOMAIN content[c].users : content[c].users[i] = h}) =
               IF handle[h].content = c THEN 1 ELSE 0
  <2> DEFINE us == content[c].users
             P == {i \in DOMAIN us : us[i] = h}
  <2>1. us \in Seq(Handles) /\ DOMAIN us = 1 .. Len(us)
    BY <1>1, LenProperties DEF Types, ContentType
  <2>2. IsInjective(us) /\ (h \in ToSet(us) <=> handle[h].content = c)
    BY <1>1 DEF Sharing, Users
  <2> HIDE DEF us
  <2>3. /\ h \in ToSet(us) <=> \E i \in 1 .. Len(us) : us[i] = h
        /\ \A i, j \in 1 .. Len(us) : us[i] = us[j] => i = j
    BY <2>1, <2>2, MembersOf
  <2>4. CASE handle[h].content = c
    <3>1. PICK i \in 1 .. Len(us) : us[i] = h
      BY <2>2, <2>3, <2>4
    <3>2. P = {i}
      BY <2>1, <2>3, <3>1
    <3> HIDE DEF P
    <3>3. Cardinality(P) = 1
      BY <3>2, FS_Singleton
    <3> QED BY <2>4, <3>3 DEF P, us
  <2>5. CASE handle[h].content # c
    <3>1. P = {}
      BY <2>1, <2>2, <2>3, <2>5
    <3> HIDE DEF P
    <3>2. Cardinality(P) = 0
      BY <3>1, FS_EmptySet
    <3> QED BY <2>5, <3>2 DEF P, us
  <2> QED BY <2>4, <2>5
<1>3. \A c \in Ids : (c \in ToSet(list)) <=> (content[c].status \notin {"none", "destroyed"})
  BY <1>1 DEF Sharing, Exists, Made
<1>4. IsInjective(list)
  BY <1>1 DEF Sharing
<1> QED BY <1>2, <1>3, <1>4 DEF UsersAgree

\* However handles join contents, are cloned by an abort, or are released in
\* the middle of a broadcast, and however contents are cleaned up, a handle is
\* in the user list of the content it points to, once, and in no other, and
\* the content list holds the contents that exist, once each.
THEOREM UsersAlwaysAgree == Spec => []UsersAgree
<1>1. Base => UsersAgree
  BY BaseAgrees
<1> QED BY <1>1, BaseAlways, PTL

\* A low-level handle has one owner while it is held, and none otherwise.
LEMMA BaseOwned == ASSUME Base PROVE OwnedOnce
<1>1. Types /\ Sharing /\ Owned /\ Fresh
  BY DEF Base
<1>2. ASSUME NEW l \in Ids
      PROVE  /\ ll[l].state # "twice"
             /\ Cardinality(Owners(l)) = IF ll[l].state = "held" THEN 1 ELSE 0
  <2> DEFINE C == {g \in Handles : context[g] = l /\ Leave(g) \notin ToSet(work)}
             T == {d \in Ids : content[d].ll = l}
             A == {<<"context", h>> : h \in C}
             B == {<<"content", c>> : c \in T}
             E == {<<"download", l>> : k \in downloads \cap {l}}
  <2>1. Owners(l) = A \cup B \cup E
    BY DEF Owners
  <2>2. ll[l].state # "twice"
    BY <1>1 DEF Types, LLType
  <2>3. \A g \in Handles : Leave(g) \in ToSet(work) <=> Leaving(g)
    <3>1. work \in Seq(Jobs)
      BY <1>1 DEF Types
    <3>2. \A x : x \in ToSet(work) <=> \E i \in 1 .. Len(work) : work[i] = x
      BY <3>1, MembersOf
    <3> QED BY <3>2 DEF Leaving
  <2>4. \A g \in Handles : context[g] \in {None, <<g, "made">>}
    BY <1>1 DEF Fresh
  <2>5. (C = {} <=> ~Waiting(l)) /\ \A g, h \in C : g = h
    <3>1. \A g \in Handles : g \in C <=> l = <<g, "made">> /\ context[g] # None /\ ~Leaving(g)
      BY <2>3, <2>4, IdFacts
    <3> QED BY <3>1, IdFacts DEF Waiting
  <2>6. T = IF Exists(l) THEN {l} ELSE {}
    <3>1. \A d \in Ids : content[d].ll = IF Exists(d) THEN d ELSE None
      BY <1>1 DEF Sharing
    <3> QED BY <3>1, IdFacts
  <2>7. E = IF l \in downloads THEN {<<"download", l>>} ELSE {}
    OBVIOUS
  <2>8. /\ ll[l].state = "held" <=> Waiting(l) \/ Exists(l) \/ l \in downloads
        /\ Waiting(l) => ~Exists(l) /\ l \notin downloads
        /\ ~(Exists(l) /\ l \in downloads)
    BY <1>1 DEF Owned
  <2> HIDE DEF C, T, E
  <2>9. CASE Waiting(l)
    <3>1. PICK g \in C : C = {g}
      BY <2>5, <2>9
    <3>2. A = {<<"context", g>>} /\ B = {} /\ E = {}
      BY <2>6, <2>7, <2>8, <2>9, <3>1
    <3>3. Owners(l) = {<<"context", g>>}
      BY <2>1, <3>2
    <3> QED BY <2>2, <2>8, <2>9, <3>3, FS_Singleton
  <2>10. CASE ~Waiting(l) /\ Exists(l)
    <3>1. A = {} /\ B = {<<"content", l>>} /\ E = {}
      BY <2>5, <2>6, <2>7, <2>8, <2>10
    <3>2. Owners(l) = {<<"content", l>>}
      BY <2>1, <3>1
    <3> QED BY <2>2, <2>8, <2>10, <3>2, FS_Singleton
  <2>11. CASE ~Waiting(l) /\ ~Exists(l) /\ l \in downloads
    <3>1. A = {} /\ B = {} /\ E = {<<"download", l>>}
      BY <2>5, <2>6, <2>7, <2>11
    <3>2. Owners(l) = {<<"download", l>>}
      BY <2>1, <3>1
    <3> QED BY <2>2, <2>8, <2>11, <3>2, FS_Singleton
  <2>12. CASE ~Waiting(l) /\ ~Exists(l) /\ l \notin downloads
    <3>1. A = {} /\ B = {} /\ E = {}
      BY <2>5, <2>6, <2>7, <2>12
    <3>2. Owners(l) = {}
      BY <2>1, <3>1
    <3> QED BY <2>2, <2>8, <2>12, <3>2, FS_EmptySet
  <2> QED BY <2>9, <2>10, <2>11, <2>12
<1> QED BY <1>2 DEF OwnedOnce

\* The low-level handle a retrieval or a clone opens is released once by
\* whoever has it: the context, the content it is given to, or the download.
THEOREM OwnedAlwaysOnce == Spec => []OwnedOnce
<1>1. Base => OwnedOnce
  BY BaseOwned
<1> QED BY <1>1, BaseAlways, PTL

-----------------------------------------------------------------------------
(***************************************************************************)
(* The second half of the invariant: what the clients have heard.          *)
(***************************************************************************)

\* What a handle hears: so much of the order, or one of three short ends.
Heard(n) ==
  CASE n = 0 -> <<>> [] n = 1 -> <<"LOADING">> [] n = 2 -> <<"LOADING", "READY">>
    [] OTHER -> <<"LOADING", "READY", "DONE">>
Failed == <<"LOADING", "ERROR">>
Spoken == {Heard(n) : n \in 0 .. 3} \cup {<<"DOWNLOAD">>, <<"ERROR">>, Failed}

\* The clients that the iterators stand: each releases its own handle alone,
\* and not while it is told where its content is.
Careful == Whose = "own" /\ ReleaseOn \cap {"LOADING", "READY"} = {}

\* A user has heard t of a content with this status.
Knows(t, status) ==
  \/ status = "LOADING" /\ t = Heard(1)
  \/ status = "READY" /\ t = Heard(2)
  \/ status = "DONE" /\ t = Heard(3)
  \/ status = "ERROR" /\ (t = Failed \/ (Silent /\ t = Heard(1)))

Status(h) == content[handle[h].content].status
Settled(h) ==
  /\ handle[h].content # None => Knows(told[h], Status(h))
  /\ \/ handle[h].state = "new"
     \/ handle[h].content = None /\ context[h] # None /\ ll[context[h]].sent \in {"open", "headers"}
     => told[h] = <<>>

\* A content is fed by its low-level handle while it loads.
Fed ==
  \A c \in Ids : Exists(c) =>
     /\ ll[c].sent \in {"headers", "data", "ended"}
     /\ ll[c].sent # "ended" =>
           /\ ~content[c].locked
           /\ \/ content[c].status = "LOADING"
              \/ content[c].status = "ERROR" /\ ll[c].sent = "data" /\ ll[c].aborted

\* The assertion that a careless client breaks: the handle to be told is not there.
Stuck ==
  /\ ~Careful /\ work # <<>>
  /\ \/ Head(work).do = "tell" /\ ~Live(Head(work).handle)
     \/ /\ Head(work).do = "cast" /\ Head(work).next # None
        /\ Head(work).next \notin ToSet(Users(Head(work).content))

AtRest == work = <<>> /\ \A h \in Handles : Settled(h)

\* A handle that has joined a content has still to hear r of what it has missed.
Joining(h) ==
  /\ handle[h].content # None /\ Live(h)
  /\ \E n \in 1 .. 3, r \in 0 .. 3 :
        /\ r <= n /\ Status(h) = Order[n] /\ told[h] = Heard(n - r)
        /\ Len(work) = r + 1 /\ work[r + 1] = Leave(h)
        /\ \A i \in 1 .. r : work[i] = Tell(h, Order[n - r + i])

\* One that gets no content is told so, and that is all.
Dismissing(h) ==
  /\ handle[h].content = None
  /\ \/ work \in {<<Leave(h)>>, <<Refuse(h)>>}
     \/ /\ handle[h].state = "live" /\ told[h] = <<>>
        /\ \E msg \in {"ERROR", "DOWNLOAD"} :
              work \in {<<Tell(h, msg), Leave(h)>>, <<Tell(h, msg), Refuse(h)>>}
     \/ /\ handle[h].state = "live" /\ told[h] = <<>>
        /\ work = <<Tell(h, "ERROR")>> /\ ll[context[h]].sent = "ended"

\* The users before u have heard the new, the others not yet.
Halfway(s, u, t, old, new) ==
  \E m \in 1 .. Len(s) + 1 :
     /\ u = IF m = Len(s) + 1 THEN None ELSE s[m]
     /\ \A k \in 1 .. Len(s) : t[s[k]] = IF k < m THEN new ELSE old

Before(msg) == IF msg = "DONE" THEN Heard(2) ELSE Heard(1)
After(msg) == CASE msg = "READY" -> Heard(2) [] msg = "DONE" -> Heard(3) [] OTHER -> Failed

\* A content that fails has these jobs left.
Failing(c, rest) ==
  \/ rest = <<>> /\ content[c].status = "ERROR" /\ ll[c].sent = "ended"
  \/ rest = <<Do("error", c)>> /\ content[c].status = "LOADING" /\ ll[c].sent = "ended"
  \/ rest = <<Do("spoil", c)>> /\ content[c].status = "LOADING" /\ ll[c].sent = "data"

\* And one that tells its users msg.
Telling(c, msg, rest) ==
  \/ /\ msg = "READY" /\ rest \in {<<>>, <<Do("done", c)>>}
     /\ content[c].status = "READY" /\ ll[c].sent = "ended"
  \/ msg = "DONE" /\ rest = <<>> /\ content[c].status = "DONE" /\ ll[c].sent = "ended"
  \/ msg = "ERROR" /\ Failing(c, rest)

\* The jobs of a content of which all users know where it is.
Turning(c) ==
  /\ ll[c].sent = "ended" /\ \A h \in Handles : Settled(h)
  /\ \/ work = <<Do("convert", c)>> /\ content[c].status \in {"LOADING", "ERROR"}
     \/ work \in {<<Do("ready", c)>>, <<Do("ready", c), Do("done", c)>>} /\ content[c].status = "LOADING"
     \/ work = <<Do("done", c)>> /\ content[c].status = "READY"

OthersSettled(c) == \A h \in Handles : handle[h].content # c => Settled(h)

Casting(c) ==
  /\ OthersSettled(c)
  /\ \E msg \in {"READY", "DONE", "ERROR"}, u \in Handles \cup {None}, rest \in Seq(Jobs) :
        /\ work = <<Cast(c, msg, u)>> \o rest /\ Telling(c, msg, rest)
        /\ Halfway(Users(c), u, told, Before(msg), After(msg))

Spoiling(c) ==
  /\ OthersSettled(c)
  /\ work # <<>> /\ Failing(c, work)
  /\ \A h \in Handles : handle[h].content = c => Knows(told[h], "ERROR")

Serving(c) == Exists(c) /\ (Turning(c) \/ Casting(c) \/ Spoiling(c))

Mode ==
  \/ Stuck
  \/ AtRest
  \/ \E h \in Handles : /\ Joining(h) \/ Dismissing(h)
                        /\ \A g \in Handles \ {h} : Settled(g)
  \/ \E c \in Ids : Serving(c)

Talk == Fed /\ (\A h \in Handles : told[h] \in Spoken) /\ Mode

-----------------------------------------------------------------------------
\* Jobs, told apart by what they do.
LEMMA JobKinds ==
  /\ \A h, msg : Tell(h, msg).do = "tell" /\ Tell(h, msg).handle = h /\ Tell(h, msg).msg = msg
  /\ \A h : Leave(h).do = "leave" /\ Leave(h).handle = h
  /\ \A h : Refuse(h).do = "refuse" /\ Refuse(h).handle = h
  /\ \A c, msg, u : /\ Cast(c, msg, u).do = "cast" /\ Cast(c, msg, u).content = c
                    /\ Cast(c, msg, u).msg = msg /\ Cast(c, msg, u).next = u
  /\ \A what, c : Do(what, c).do = what /\ Do(what, c).content = c
BY DEF Tell, Leave, Refuse, Cast, Do

\* Lists of at most three members.
LEMMA ShortLists ==
  ASSUME NEW a, NEW b
  PROVE  /\ <<a>> # <<>> /\ Head(<<a>>) = a /\ Tail(<<a>>) = <<>> /\ Len(<<a>>) = 1 /\ <<a>>[1] = a
         /\ <<a, b>> # <<>> /\ Head(<<a, b>>) = a /\ Tail(<<a, b>>) = <<b>> /\ Len(<<a, b>>) = 2
         /\ <<a, b>>[1] = a /\ <<a, b>>[2] = b
         /\ <<>> \o <<>> = <<>> /\ <<a>> \o <<>> = <<a>> /\ <<>> \o <<a>> = <<a>>
         /\ <<a>> \o <<b>> = <<a, b>> /\ <<a, b>> \o <<>> = <<a, b>>
<1> DEFINE S == {a, b}
           s0 == <<>>
           s1 == <<a>>
           r1 == <<b>>
           s2 == <<a, b>>
<1>1. a \in S /\ b \in S
  OBVIOUS
<1> HIDE DEF S
<1>2. /\ s0 \in Seq(S) /\ Len(s0) = 0
      /\ s1 \in Seq(S) /\ Len(s1) = 1 /\ s1[1] = a /\ s1 # <<>> /\ Head(s1) = a
      /\ r1 \in Seq(S) /\ Len(r1) = 1 /\ r1[1] = b
      /\ s2 \in Seq(S) /\ Len(s2) = 2 /\ s2[1] = a /\ s2[2] = b /\ s2 # <<>> /\ Head(s2) = a
  BY <1>1
<1>3. s0 \o s0 = s0 /\ s1 \o s0 = s1 /\ s0 \o s1 = s1 /\ s2 \o s0 = s2
  BY <1>2, ConcatEmptySeq
<1>d. s0 = <<>>
  OBVIOUS
<1> HIDE DEF s0, s1, r1, s2
<1>4. Tail(s1) = s0
  <2> DEFINE z == Tail(s1)
  <2>1. z \in Seq(S) /\ Len(z) = Len(s1) - 1
    BY <1>2, HeadTailProperties
  <2> HIDE DEF z
  <2>2. \A i \in 1 .. Len(z) : z[i] = s0[i]
    BY <1>2, <2>1
  <2>3. z = s0
    BY <1>2, <2>1, <2>2, SeqEqual
  <2> QED BY <2>3 DEF z
<1>5. Tail(s2) = r1
  <2> DEFINE z == Tail(s2)
  <2>1. z \in Seq(S) /\ Len(z) = Len(s2) - 1 /\ \A i \in 1 .. Len(z) : z[i] = s2[i + 1]
    BY <1>2, HeadTailProperties
  <2> HIDE DEF z
  <2>2. Len(z) = 1 /\ z[1] = b
    BY <1>2, <2>1
  <2>3. \A i \in 1 .. Len(r1) : z[i] = r1[i]
    BY <1>2, <2>2
  <2>4. z = r1
    BY <1>2, <2>1, <2>2, <2>3, SeqEqual
  <2> QED BY <2>4 DEF z
<1>6. s1 \o r1 = s2
  <2>1. /\ s1 \o r1 \in Seq(S) /\ Len(s1 \o r1) = 2
        /\ \A i \in 1 .. 2 : (s1 \o r1)[i] = IF i <= 1 THEN s1[i] ELSE r1[i - 1]
    BY <1>2, ConcatProperties
  <2>2. \A i \in 1 .. Len(s2) : (s1 \o r1)[i] = s2[i]
    <3>1. (s1 \o r1)[1] = a /\ (s1 \o r1)[2] = b
      BY <1>2, <2>1
    <3>2. \A i \in 1 .. Len(s2) : i = 1 \/ i = 2
      BY <1>2
    <3> QED BY <1>2, <3>1, <3>2
  <2> QED BY <1>2, <2>1, <2>2, SeqEqual
<1> QED BY <1>2, <1>3, <1>4, <1>5, <1>6 DEF s0, s1, r1, s2

\* The same, when a member is appended.
LEMMA ShortAppends ==
  ASSUME NEW a, NEW b, NEW c
  PROVE  /\ Append(<<>>, a) = <<a>> /\ Append(<<a>>, b) = <<a, b>>
         /\ Append(<<a, b>>, c) = <<a, b, c>>
<1> DEFINE S == {a, b, c}
           s0 == <<>>
           s1 == <<a>>
           s2 == <<a, b>>
           s3 == <<a, b, c>>
<1>1. a \in S /\ b \in S /\ c \in S
  OBVIOUS
<1> HIDE DEF S
<1>2. /\ s0 \in Seq(S) /\ Len(s0) = 0
      /\ s1 \in Seq(S) /\ Len(s1) = 1 /\ s1[1] = a
      /\ s2 \in Seq(S) /\ Len(s2) = 2 /\ s2[1] = a /\ s2[2] = b
      /\ s3 \in Seq(S) /\ Len(s3) = 3 /\ s3[1] = a /\ s3[2] = b /\ s3[3] = c
  BY <1>1
<1> HIDE DEF s0, s1, s2, s3
<1>3. Append(s0, a) = s1
  <2>1. Append(s0, a) \in Seq(S) /\ Len(Append(s0, a)) = 1 /\ Append(s0, a)[1] = a
    BY <1>1, <1>2, AppendProperties
  <2>2. \A i \in 1 .. Len(s1) : Append(s0, a)[i] = s1[i]
    BY <1>2, <2>1
  <2> QED BY <1>2, <2>1, <2>2, SeqEqual
<1>4. Append(s1, b) = s2
  <2> DEFINE z == Append(s1, b)
  <2>1. z \in Seq(S) /\ Len(z) = 2 /\ z[1] = a /\ z[2] = b
    <3>1. /\ z \in Seq(S) /\ Len(z) = Len(s1) + 1 /\ z[Len(s1) + 1] = b
          /\ \A i \in 1 .. Len(s1) : z[i] = s1[i]
      <4>1. s1 \in Seq(S) /\ b \in S
        BY <1>1, <1>2
      <4> QED BY <4>1, AppendProperties
    <3> HIDE DEF z
    <3> QED BY <1>2, <3>1
  <2> HIDE DEF z
  <2>2. \A i \in 1 .. Len(s2) : z[i] = s2[i]
    <3>1. \A i \in 1 .. Len(s2) : i = 1 \/ i = 2
      BY <1>2
    <3> QED BY <1>2, <2>1, <3>1
  <2>3. z = s2
    BY <1>2, <2>1, <2>2, SeqEqual
  <2> QED BY <2>3 DEF z
<1>5. Append(s2, c) = s3
  <2> DEFINE z == Append(s2, c)
  <2>1. z \in Seq(S) /\ Len(z) = 3 /\ z[1] = a /\ z[2] = b /\ z[3] = c
    <3>1. /\ z \in Seq(S) /\ Len(z) = Len(s2) + 1 /\ z[Len(s2) + 1] = c
          /\ \A i \in 1 .. Len(s2) : z[i] = s2[i]
      <4>1. s2 \in Seq(S) /\ c \in S
        BY <1>1, <1>2
      <4> QED BY <4>1, AppendProperties
    <3> HIDE DEF z
    <3> QED BY <1>2, <3>1
  <2> HIDE DEF z
  <2>2. \A i \in 1 .. Len(s3) : z[i] = s3[i]
    <3>1. \A i \in 1 .. Len(s3) : i = 1 \/ i = 2 \/ i = 3
      BY <1>2
    <3> QED BY <1>2, <2>1, <3>1
  <2>3. z = s3
    BY <1>2, <2>1, <2>2, SeqEqual
  <2> QED BY <2>3 DEF z
<1> QED BY <1>3, <1>4, <1>5 DEF s0, s1, s2, s3

\* The steps of what is heard.
LEMMA HeardFacts ==
  /\ Heard(0) = <<>>
  /\ \A n \in 0 .. 3 : Heard(n) \in Spoken
  /\ Failed \in Spoken /\ <<"DOWNLOAD">> \in Spoken /\ <<"ERROR">> \in Spoken
  /\ \A msg : Append(<<>>, msg) = <<msg>>
  /\ \A k \in 1 .. 3 : Append(Heard(k - 1), Order[k]) = Heard(k)
  /\ \A msg \in {"READY", "DONE", "ERROR"} :
        /\ Append(Before(msg), msg) = After(msg)
        /\ Before(msg) \in Spoken /\ After(msg) \in Spoken
<1> DEFINE h1 == <<"LOADING">>
           h2 == <<"LOADING", "READY">>
           h3 == <<"LOADING", "READY", "DONE">>
           f == <<"LOADING", "ERROR">>
           Added(t, msg) == Append(t, msg)
<1>1. Heard(0) = <<>> /\ Heard(1) = h1 /\ Heard(2) = h2 /\ Heard(3) = h3 /\ Failed = f
  BY DEF Heard, Failed
<1>2. \A n \in 0 .. 3 : Heard(n) \in Spoken
  BY DEF Spoken
<1>3. Failed \in Spoken /\ <<"DOWNLOAD">> \in Spoken /\ <<"ERROR">> \in Spoken
  BY DEF Spoken
<1>4. \A a, b, c : /\ Append(<<>>, a) = <<a>> /\ Append(<<a>>, b) = <<a, b>>
                   /\ Append(<<a, b>>, c) = <<a, b, c>>
  <2> TAKE a, b, c
  <2>1. Append(<<>>, a) = <<a>>
    BY ShortAppends
  <2>2. Append(<<a>>, b) = <<a, b>>
    BY ShortAppends
  <2>3. Append(<<a, b>>, c) = <<a, b, c>>
    BY ShortAppends
  <2> QED BY <2>1, <2>2, <2>3
<1>5. /\ Added(<<>>, "LOADING") = h1 /\ Added(h1, "READY") = h2 /\ Added(h2, "DONE") = h3
      /\ Added(h1, "ERROR") = f
  BY <1>4, Zenon
<1>6. Order[1] = "LOADING" /\ Order[2] = "READY" /\ Order[3] = "DONE"
  BY DEF Order
<1> HIDE DEF h1, h2, h3, f, Added
<1>7. ASSUME NEW k \in 1 .. 3 PROVE Added(Heard(k - 1), Order[k]) = Heard(k)
  <2>1. CASE k = 1
    <3>1. k - 1 = 0
      BY <2>1
    <3> QED BY <2>1, <3>1, <1>1, <1>5, <1>6
  <2>2. CASE k = 2
    <3>1. k - 1 = 1
      BY <2>2
    <3> QED BY <2>2, <3>1, <1>1, <1>5, <1>6
  <2>3. CASE k = 3
    <3>1. k - 1 = 2
      BY <2>3
    <3> QED BY <2>3, <3>1, <1>1, <1>5, <1>6
  <2> QED BY <2>1, <2>2, <2>3
<1>8. ASSUME NEW msg \in {"READY", "DONE", "ERROR"}
      PROVE  /\ Added(Before(msg), msg) = After(msg)
             /\ Before(msg) \in Spoken /\ After(msg) \in Spoken
  <2>1. CASE msg = "READY"
    <3>1. Before(msg) = Heard(1) /\ After(msg) = Heard(2)
      BY <2>1 DEF Before, After
    <3> QED BY <2>1, <3>1, <1>1, <1>2, <1>5
  <2>2. CASE msg = "DONE"
    <3>1. Before(msg) = Heard(2) /\ After(msg) = Heard(3)
      BY <2>2 DEF Before, After
    <3> QED BY <2>2, <3>1, <1>1, <1>2, <1>5
  <2>3. CASE msg = "ERROR"
    <3>1. Before(msg) = Heard(1) /\ After(msg) = Failed
      BY <2>3 DEF Before, After
    <3> QED BY <2>3, <3>1, <1>1, <1>2, <1>3, <1>5
  <2> QED BY <2>1, <2>2, <2>3
<1>9. \A k \in 1 .. 3 : Append(Heard(k - 1), Order[k]) = Heard(k)
  BY <1>7 DEF Added
<1>10. \A msg \in {"READY", "DONE", "ERROR"} :
          /\ Append(Before(msg), msg) = After(msg)
          /\ Before(msg) \in Spoken /\ After(msg) \in Spoken
  BY <1>8 DEF Added
<1>11. \A msg : Append(<<>>, msg) = <<msg>>
  BY <1>4
<1> QED BY <1>1, <1>2, <1>3, <1>9, <1>10, <1>11

\* What a handle has heard tells how far it has come.
LEMMA ToldApart == Heard(1) # Heard(2) /\ Heard(2) # Heard(3) /\ Heard(1) # Failed
<1> DEFINE a == Heard(1)
           b == Heard(2)
           c == Heard(3)
           d == Failed
<1>1. /\ a = <<"LOADING">> /\ b = <<"LOADING", "READY">> /\ c = <<"LOADING", "READY", "DONE">>
      /\ d = <<"LOADING", "ERROR">>
  BY DEF Heard, Failed
<1>2. Len(a) = 1 /\ Len(b) = 2 /\ Len(c) = 3 /\ Len(d) = 2
  BY <1>1
<1> HIDE DEF a, b, c, d
<1>3. a # b /\ b # c /\ a # d
  BY <1>2
<1> QED BY <1>3 DEF a, b, c, d

\* A first job, and those that follow it.
LEMMA FirstOf ==
  ASSUME NEW S, NEW j \in S, NEW rest \in Seq(S)
  PROVE  /\ <<j>> \o rest # <<>> /\ Head(<<j>> \o rest) = j /\ Tail(<<j>> \o rest) = rest
         /\ <<j>> \o rest \in Seq(S)
OBVIOUS

\* The user whose turn it is has not heard the message.
LEMMA HalfwayPlace ==
  ASSUME NEW s \in Seq(Handles), NEW t, NEW old, NEW new, NEW u \in Handles,
         Halfway(s, u, t, old, new)
  PROVE  t[u] = old
<1>1. PICK m \in 1 .. Len(s) + 1 :
         /\ u = IF m = Len(s) + 1 THEN None ELSE s[m]
         /\ \A k \in 1 .. Len(s) : t[s[k]] = IF k < m THEN new ELSE old
  BY DEF Halfway
<1>2. m \in 1 .. Len(s) /\ s[m] = u
  BY <1>1, LenProperties, IdFacts
<1>3. ~(m < m)
  BY <1>2
<1> QED BY <1>1, <1>2, <1>3

\* One more hears what is said.
Hears(u, t, v, new) == v[u] = new /\ \A h \in Handles \ {u} : v[h] = t[h]

\* What remains to be told of a list is from u on; u hears it, and its successor is next.
LEMMA HalfwayNext ==
  ASSUME NEW s \in Seq(Handles), IsInjective(s), NEW t, NEW v, NEW old, NEW new, NEW u \in Handles,
         Halfway(s, u, t, old, new), Hears(u, t, v, new)
  PROVE  Halfway(s, NextUser(s, u), v, old, new)
<1>1. PICK m \in 1 .. Len(s) + 1 :
         /\ u = IF m = Len(s) + 1 THEN None ELSE s[m]
         /\ \A k \in 1 .. Len(s) : t[s[k]] = IF k < m THEN new ELSE old
  BY DEF Halfway
<1>2. Len(s) \in Nat /\ \A i, j \in 1 .. Len(s) : s[i] = s[j] => i = j
  BY MembersOf, LenProperties
<1>3. m \in 1 .. Len(s) /\ s[m] = u
  BY <1>1, <1>2, IdFacts
<1>4. v[u] = new /\ \A h \in Handles \ {u} : v[h] = t[h]
  BY DEF Hears
<1> DEFINE i == CHOOSE n \in 1 .. Len(s) : s[n] = u
<1>6. i = m
  BY <1>2, <1>3
<1>7. NextUser(s, u) = IF m = Len(s) THEN None ELSE s[m + 1]
  <2>1. NextUser(s, u) = IF i = Len(s) THEN None ELSE s[i + 1]
    BY DEF NextUser
  <2> HIDE DEF i
  <2> QED BY <1>6, <2>1
<1> HIDE DEF i
<1>8. ASSUME NEW k \in 1 .. Len(s) PROVE v[s[k]] = IF k < m + 1 THEN new ELSE old
  <2>1. s[k] \in Handles
    BY ElementOfSeq
  <2>2. CASE k = m
    BY <1>2, <1>3, <1>4, <2>2
  <2>3. CASE k # m
    <3>1. s[k] # u
      BY <1>2, <1>3, <2>3
    <3>2. v[s[k]] = t[s[k]]
      BY <1>4, <2>1, <3>1
    <3>3. k < m + 1 <=> k < m
      BY <1>2, <2>3
    <3> QED BY <1>1, <3>2, <3>3
  <2> QED BY <2>2, <2>3
<1>9. m + 1 \in 1 .. Len(s) + 1 /\ (m + 1 = Len(s) + 1 <=> m = Len(s))
  BY <1>2, <1>3
<1> DEFINE n == m + 1
<1>10. /\ n \in 1 .. Len(s) + 1
       /\ NextUser(s, u) = IF n = Len(s) + 1 THEN None ELSE s[n]
       /\ \A k \in 1 .. Len(s) : v[s[k]] = IF k < n THEN new ELSE old
  BY <1>7, <1>8, <1>9
<1> HIDE DEF n
<1> QED BY <1>10 DEF Halfway

\* Unlinking users does not disturb that, as long as the next one stays.
LEMMA HalfwayLeft ==
  ASSUME NEW s \in Seq(Handles), IsInjective(s), NEW X, NEW t, NEW old, NEW new,
         NEW u \in Handles \cup {None}, Halfway(s, u, t, old, new), u \notin X
  PROVE  Halfway(Without(s, X), u, t, old, new)
<1> DEFINE w == Without(s, X)
<1>1. PICK m \in 1 .. Len(s) + 1 :
         /\ u = IF m = Len(s) + 1 THEN None ELSE s[m]
         /\ \A k \in 1 .. Len(s) : t[s[k]] = IF k < m THEN new ELSE old
  BY DEF Halfway
<1>2. w \in Seq(Handles) /\ Len(w) \in Nat /\ Len(s) \in Nat
      /\ \A i \in 1 .. Len(s) : s[i] \notin X => \E j \in 1 .. Len(w) : w[j] = s[i]
  BY WithoutProperties, LenProperties
<1>3. PICK f \in [1 .. Len(w) -> 1 .. Len(s)] :
         /\ \A j \in 1 .. Len(w) : w[j] = s[f[j]] /\ s[f[j]] \notin X
         /\ \A j, k \in 1 .. Len(w) : j < k => f[j] < f[k]
  BY WithoutProperties
<1> HIDE DEF w
<1>4. \A j \in 1 .. Len(w) : f[j] \in 1 .. Len(s) /\ t[w[j]] = IF f[j] < m THEN new ELSE old
  BY <1>1, <1>3
<1>5. CASE m = Len(s) + 1
  <2>1. u = None /\ \A j \in 1 .. Len(w) : t[w[j]] = new
    BY <1>1, <1>2, <1>4, <1>5
  <2> DEFINE n == Len(w) + 1
  <2>2. /\ n \in 1 .. Len(w) + 1 /\ n = Len(w) + 1
        /\ \A j \in 1 .. Len(w) : t[w[j]] = IF j < n THEN new ELSE old
    BY <1>2, <2>1
  <2> HIDE DEF n
  <2> QED BY <2>1, <2>2 DEF Halfway, w
<1>6. CASE m # Len(s) + 1
  <2>1. m \in 1 .. Len(s) /\ u = s[m] /\ u \in Handles /\ u # None
    <3>1. m \in 1 .. Len(s)
      BY <1>2, <1>6
    <3>2. s[m] \in Handles
      BY <3>1, ElementOfSeq
    <3> QED BY <1>1, <1>6, <3>1, <3>2, IdFacts
  <2>2. PICK n \in 1 .. Len(w) : w[n] = s[m]
    BY <1>2, <2>1
  <2>3. f[n] = m
    <3>1. \A i, j \in 1 .. Len(s) : s[i] = s[j] => i = j
      BY MembersOf
    <3> QED BY <1>3, <2>1, <2>2, <3>1
  <2>4. ASSUME NEW k \in 1 .. Len(w) PROVE t[w[k]] = IF k < n THEN new ELSE old
    <3>1. f[k] \in Int /\ k \in Int /\ n \in Int /\ m \in Int
      BY <1>4, <1>2, <2>1
    <3>2. CASE k < n
      <4>1. f[k] < m
        BY <1>3, <2>3, <3>2
      <4> QED BY <1>4, <3>2, <4>1
    <3>3. CASE ~(k < n)
      <4>1. k = n \/ n < k
        BY <3>1, <3>3
      <4>2. ~(f[k] < m)
        <5>1. n < k => m < f[k]
          BY <1>3, <2>3
        <5> QED BY <2>3, <3>1, <4>1, <5>1
      <4> QED BY <1>4, <3>3, <4>2
    <3> QED BY <3>2, <3>3
  <2>5. n \in 1 .. Len(w) + 1 /\ n # Len(w) + 1 /\ u = w[n]
    BY <1>2, <2>1, <2>2
  <2> QED BY <2>4, <2>5 DEF Halfway, w
<1> QED BY <1>5, <1>6

\* When a broadcast begins none has heard the news, and when it ends all have.
LEMMA HalfwayEnds ==
  ASSUME NEW s \in Seq(Handles), NEW t, NEW old, NEW new
  PROVE  /\ (\A h \in ToSet(s) : t[h] = old)
               => Halfway(s, IF s = <<>> THEN None ELSE Head(s), t, old, new)
         /\ Halfway(s, None, t, old, new) => \A h \in ToSet(s) : t[h] = new
         /\ \A u : Halfway(s, u, t, old, new) => \A h \in ToSet(s) : t[h] \in {old, new}
<1>1. Len(s) \in Nat /\ (s = <<>> <=> Len(s) = 0) /\ (s # <<>> => Head(s) = s[1])
  BY LenProperties, EmptySeq, HeadTailProperties
<1>2. \A h \in ToSet(s) : h \in Handles /\ \E k \in 1 .. Len(s) : s[k] = h
  BY MembersOf
<1>3. \A k \in 1 .. Len(s) : s[k] \in Handles /\ s[k] \in ToSet(s)
  BY MembersOf, ElementOfSeq
<1>4. ASSUME \A h \in ToSet(s) : t[h] = old
      PROVE  Halfway(s, IF s = <<>> THEN None ELSE Head(s), t, old, new)
  <2> DEFINE m == 1
             u == IF s = <<>> THEN None ELSE Head(s)
  <2>1. m \in 1 .. Len(s) + 1 /\ u = IF m = Len(s) + 1 THEN None ELSE s[m]
    BY <1>1
  <2>2. \A k \in 1 .. Len(s) : t[s[k]] = IF k < m THEN new ELSE old
    BY <1>1, <1>3, <1>4
  <2> HIDE DEF m
  <2> QED BY <2>1, <2>2 DEF Halfway
<1>5. ASSUME Halfway(s, None, t, old, new) PROVE \A h \in ToSet(s) : t[h] = new
  <2>1. PICK m \in 1 .. Len(s) + 1 :
           /\ None = IF m = Len(s) + 1 THEN None ELSE s[m]
           /\ \A k \in 1 .. Len(s) : t[s[k]] = IF k < m THEN new ELSE old
    BY <1>5 DEF Halfway
  <2>2. m = Len(s) + 1
    <3>1. m # Len(s) + 1 => m \in 1 .. Len(s)
      BY <1>1
    <3> QED BY <1>3, <2>1, <3>1, IdFacts
  <2>3. \A k \in 1 .. Len(s) : t[s[k]] = new
    BY <1>1, <2>1, <2>2
  <2> QED BY <1>2, <2>3
<1>6. ASSUME NEW u, Halfway(s, u, t, old, new) PROVE \A h \in ToSet(s) : t[h] \in {old, new}
  BY <1>2, <1>6 DEF Halfway
<1> QED BY <1>4, <1>5, <1>6

-----------------------------------------------------------------------------
\* What a handle has heard stays right while it stays where it is, or leaves.
LEMMA SettledStays ==
  ASSUME Base, NEW h \in Handles, Settled(h), told'[h] = told[h],
         handle'[h].state \in {handle[h].state, "gone"},
         handle'[h].content \in {None, handle[h].content},
         handle'[h].content # None =>
            content'[handle[h].content].status = content[handle[h].content].status,
         context'[h] \in {None, context[h]},
         ~Leaving(h) \/ handle'[h].content = handle[h].content,
         context'[h] # None => ll'[context[h]].sent = ll[context[h]].sent
  PROVE  Settled(h)'
<1>1. handle'[h].content # None => Knows(told'[h], content'[handle'[h].content].status)
  <2> SUFFICES ASSUME handle'[h].content # None
               PROVE  Knows(told'[h], content'[handle'[h].content].status)
    OBVIOUS
  <2>1. handle'[h].content = handle[h].content
    OBVIOUS
  <2>2. Knows(told[h], content[handle[h].content].status)
    BY <2>1 DEF Settled, Status
  <2> QED BY <2>1, <2>2
<1>2. handle'[h].state = "new" => told'[h] = <<>>
  BY DEF Settled
<1>3. handle'[h].content = None /\ context'[h] # None /\ ll'[context'[h]].sent \in {"open", "headers"}
         => told'[h] = <<>>
  <2> SUFFICES ASSUME handle'[h].content = None, context'[h] # None,
                      ll'[context'[h]].sent \in {"open", "headers"}
               PROVE  told'[h] = <<>>
    OBVIOUS
  <2>1. context[h] # None /\ ll[context[h]].sent \in {"open", "headers"}
    OBVIOUS
  <2>2. handle[h].content = None
    BY <2>1 DEF Base, Fresh
  <2> QED BY <2>1, <2>2 DEF Settled
<1>4. (Settled(h))' <=>
         /\ handle'[h].content # None => Knows(told'[h], content'[handle'[h].content].status)
         /\ \/ handle'[h].state = "new"
            \/ handle'[h].content = None /\ context'[h] # None
               /\ ll'[context'[h]].sent \in {"open", "headers"}
            => told'[h] = <<>>
  BY DEF Settled, Status, Knows
<1> QED BY <1>1, <1>2, <1>3, <1>4

\* Contents are fed as before, if none is made and none of them changes.
LEMMA FedStays ==
  ASSUME Fed,
         \A c \in Ids : Exists(c)' =>
            /\ Exists(c) /\ content'[c].status = content[c].status
            /\ content'[c].locked = content[c].locked
            /\ ll'[c].sent = ll[c].sent /\ (ll[c].aborted => ll'[c].aborted)
  PROVE  Fed'
BY DEF Fed

\* A context that is given up has sent what it has sent.
LEMMA GivenUpFacts ==
  ASSUME Base, NEW h \in Handles, context[h] # None, ~Leaving(h)
  PROVE  \A l \in Ids :
            /\ LLReleased(LLAborted(ll, context[h]), context[h])[l].sent = ll[l].sent
            /\ ll[l].aborted => LLReleased(LLAborted(ll, context[h]), context[h])[l].aborted
<1>1. context[h] \in Ids /\ ll[context[h]].state = "held" /\ ll \in [Ids -> LLType]
  BY ContextHolds DEF Base, Types
<1> DEFINE la == LLAborted(ll, context[h])
<1>2. /\ la \in [Ids -> LLType]
      /\ \A l \in Ids : /\ la[l].state = ll[l].state /\ la[l].sent = ll[l].sent
                        /\ (ll[l].aborted => la[l].aborted)
  BY <1>1, LLAbortedFacts
<1> HIDE DEF la
<1>3. \A l \in Ids : /\ LLReleased(la, context[h])[l].sent = la[l].sent
                     /\ LLReleased(la, context[h])[l].aborted = la[l].aborted
  <2>1. la[context[h]].state = "held"
    BY <1>1, <1>2
  <2> QED BY <1>1, <1>2, <2>1, LLReleasedFacts
<1>4. \A l \in Ids : /\ LLReleased(la, context[h])[l].sent = ll[l].sent
                     /\ ll[l].aborted => LLReleased(la, context[h])[l].aborted
  BY <1>2, <1>3
<1> QED BY <1>4 DEF la

\* What a release leaves alone.
LEMMA ReleasedKeeps ==
  ASSUME Base, NEW R \in SUBSET Handles, \A g, h \in R : g = h, Released(R)
  PROVE  /\ \A c \in Ids : /\ content'[c].status = content[c].status
                           /\ content'[c].locked = content[c].locked
                           /\ content'[c].users = Without(content[c].users, R)
         /\ \A l \in Ids : ll'[l].sent = ll[l].sent /\ (ll[l].aborted => ll'[l].aborted)
         /\ \A h \in Handles : context'[h] \in {None, context[h]}
         /\ \A h \in Handles : h \notin R => handle'[h] = handle[h] /\ context'[h] = context[h]
         /\ \A h \in R : handle'[h].state = "gone" /\ handle'[h].content = None
         /\ Fed => Fed'
<1>1. /\ \A h \in Handles : h \in R => handle'[h].state = "gone" /\ handle'[h].content = None
      /\ \A h \in Handles : h \notin R => handle'[h] = handle[h]
      /\ \A c \in Ids : /\ content'[c].users = Without(content[c].users, R)
                        /\ content'[c].status = content[c].status
                        /\ content'[c].locked = content[c].locked
      /\ \/ context' = context /\ ll' = ll
         \/ \E h \in R : /\ Nascent(h)
                         /\ context' = [context EXCEPT ![h] = None]
                         /\ ll' = LLReleased(LLAborted(ll, context[h]), context[h])
  <2>1. Types
    BY DEF Base
  <2> QED BY <2>1, ReleasedFacts
<1>2. /\ \A l \in Ids : ll'[l].sent = ll[l].sent /\ (ll[l].aborted => ll'[l].aborted)
      /\ \A h \in Handles : context'[h] \in {None, context[h]} /\ (h \notin R => context'[h] = context[h])
  <2>1. CASE context' = context /\ ll' = ll
    BY <2>1
  <2>2. CASE \E h \in R : /\ Nascent(h)
                          /\ context' = [context EXCEPT ![h] = None]
                          /\ ll' = LLReleased(LLAborted(ll, context[h]), context[h])
    <3>1. PICK h \in R : /\ Nascent(h)
                         /\ context' = [context EXCEPT ![h] = None]
                         /\ ll' = LLReleased(LLAborted(ll, context[h]), context[h])
      BY <2>2
    <3>2. h \in Handles /\ context[h] # None /\ ~Leaving(h)
      <4>1. work \in Seq(Jobs)
        BY DEF Base, Types
      <4> QED BY <3>1, <4>1, LeavingMigrates DEF Nascent
    <3>3. \A l \in Ids : ll'[l].sent = ll[l].sent /\ (ll[l].aborted => ll'[l].aborted)
      BY <3>1, <3>2, GivenUpFacts
    <3>4. context \in [Handles -> Ids \cup {None}]
      BY DEF Base, Types
    <3>5. \A g \in Handles : context'[g] = IF g = h THEN None ELSE context[g]
      BY <3>1, <3>2, <3>4
    <3> QED BY <3>1, <3>3, <3>5
  <2> QED BY <1>1, <2>1, <2>2
<1>3. Fed => Fed'
  <2>1. \A c \in Ids : Exists(c)' => Exists(c)
    BY <1>1 DEF Exists
  <2> QED BY <1>1, <1>2, <2>1, FedStays
<1> QED BY <1>1, <1>2, <1>3

\* At rest, a handle that is released, or is aborted, leaves the others settled.
LEMMA AtRestStays ==
  ASSUME AtRest, work' = <<>>, \A h \in Handles : Settled(h) => Settled(h)'
  PROVE  AtRest'
BY DEF AtRest

\* Between two events nothing is half said.
LEMMA IdleRests ==
  ASSUME Talk, work = <<>>
  PROVE  AtRest
<1>1. ~Stuck
  BY DEF Stuck
<1>2. \A h \in Handles : ~Joining(h)
  <2> SUFFICES ASSUME NEW h \in Handles, Joining(h) PROVE FALSE
    OBVIOUS
  <2>1. PICK r \in 0 .. 3 : Len(work) = r + 1
    BY DEF Joining
  <2> QED BY <2>1
<1>3. \A h \in Handles : ~Dismissing(h)
  BY DEF Dismissing
<1>4. \A c \in Ids : ~Serving(c)
  <2> SUFFICES ASSUME NEW c \in Ids, Serving(c) PROVE FALSE
    OBVIOUS
  <2>1. ~Turning(c) /\ ~Spoiling(c)
    BY DEF Turning, Spoiling
  <2>2. PICK msg \in {"READY", "DONE", "ERROR"}, u \in Handles \cup {None}, rest \in Seq(Jobs) :
           work = <<Cast(c, msg, u)>> \o rest /\ Telling(c, msg, rest)
    BY <2>1 DEF Serving, Casting
  <2> DEFINE j == Cast(c, msg, u)
  <2>3. j \in Jobs
    BY JobTypes DEF Messages
  <2> HIDE DEF j
  <2>4. <<j>> \o rest # <<>>
    BY <2>3, FirstOf
  <2> QED BY <2>2, <2>4 DEF j
<1> QED BY <1>1, <1>2, <1>3, <1>4 DEF Talk, Mode

\* The invariant, where nothing is left to do and no message was sent.
LEMMA RestTalks ==
  ASSUME Talk, work = <<>>, Fed', told' = told, AtRest => AtRest'
  PROVE  Talk'
<1>1. AtRest'
  BY IdleRests
<1>2. \A h \in Handles : told'[h] \in Spoken
  BY DEF Talk
<1> QED BY <1>1, <1>2 DEF Talk, Mode, Spoken

\* hlcache_handle_release.
LEMMA ReleaseTalk ==
  ASSUME Base, Talk, NEW h \in Handles, Release(h)
  PROVE  Talk'
<1>1. /\ work = <<>> /\ Released({h}) /\ told' = told /\ work' = work
  BY DEF Release, Idle
<1>2. AtRest => AtRest'
  <2> SUFFICES ASSUME AtRest PROVE AtRest'
    OBVIOUS
  <2>1. ASSUME NEW g \in Handles, Settled(g) PROVE Settled(g)'
    <3>1. /\ handle'[g].state \in {handle[g].state, "gone"}
          /\ handle'[g].content \in {None, handle[g].content}
          /\ handle'[g].content # None =>
                content'[handle[g].content].status = content[handle[g].content].status
          /\ context'[g] \in {None, context[g]}
          /\ context'[g] # None => ll'[context[g]].sent = ll[context[g]].sent
      <4>1. handle[g].content \in Ids \cup {None} /\ context[g] \in Ids \cup {None}
        BY DEF Base, Types, HandleType
      <4> QED BY <1>1, <4>1, ReleasedKeeps
    <3>2. ~Leaving(g)
      BY <1>1, NothingLeft
    <3> QED BY <1>1, <2>1, <3>1, <3>2, SettledStays
  <2> QED BY <1>1, <2>1, AtRestStays
<1>3. Fed'
  BY <1>1, ReleasedKeeps DEF Talk
<1> QED BY <1>1, <1>2, <1>3, RestTalks

\* hlcache_handle_retrieve.
LEMMA RetrieveTalk ==
  ASSUME Base, Talk, NEW h \in Handles, NEW o \in Objects, Retrieve(h, o)
  PROVE  Talk'
<1> DEFINE l == <<h, "made">>
<1>1. /\ work = <<>> /\ told' = told /\ work' = <<>> /\ content' = content
      /\ handle[h].state = "new" /\ AtRest
  BY IdleRests DEF Retrieve, Idle
<1>2. /\ l \in Ids /\ l # None /\ ~Exists(l) /\ handle[h].content = None /\ context[h] = None
      /\ \A g \in Handles : context[g] \in {None, <<g, "made">>}
      /\ \A g \in Handles : <<g, "made">> = l => g = h
  <2>1. l \in Ids /\ l # None /\ \A g \in Handles : <<g, "made">> = l => g = h
    BY IdFacts
  <2>2. /\ handle[h].content = None /\ context[h] = None /\ ll[l].state = "none"
        /\ \A g \in Handles : context[g] \in {None, <<g, "made">>}
    BY <1>1 DEF Base, Fresh
  <2> HIDE DEF l
  <2>3. ~Exists(l)
    BY <2>1, <2>2 DEF Base, Owned
  <2> QED BY <2>1, <2>2, <2>3 DEF l
<1>3. /\ handle' = [handle EXCEPT ![h] = [handle[h] EXCEPT !.state = "live"]]
      /\ context' = [context EXCEPT ![h] = l]
      /\ ll' = [ll EXCEPT ![l] = LLNew(o, "open")]
  BY DEF Retrieve
<1>4. /\ handle \in [Handles -> HandleType] /\ context \in [Handles -> Ids \cup {None}]
      /\ ll \in [Ids -> LLType]
  BY DEF Base, Types
<1> HIDE DEF l
<1>5. /\ \A g \in Handles \ {h} : handle'[g] = handle[g] /\ context'[g] = context[g]
      /\ handle'[h].state = "live" /\ handle'[h].content = None
      /\ \A k \in Ids \ {l} : ll'[k] = ll[k]
  BY <1>2, <1>3, <1>4 DEF HandleType
<1>6. ASSUME NEW g \in Handles, Settled(g) PROVE Settled(g)'
  <2>1. CASE g = h
    <3>1. told'[h] = <<>>
      BY <1>1, <1>6, <2>1 DEF Settled
    <3> QED BY <1>5, <2>1, <3>1 DEF Settled
  <2>2. CASE g # h
    <3>1. ~Leaving(g)
      BY <1>1, NothingLeft
    <3>2. context[g] # None => context[g] \in Ids \ {l}
      BY <1>2, <1>4, <2>2 DEF l
    <3>3. /\ handle'[g] = handle[g] /\ context'[g] = context[g]
          /\ context'[g] # None => ll'[context[g]].sent = ll[context[g]].sent
      BY <1>5, <2>2, <3>2
    <3> QED BY <1>1, <1>6, <3>1, <3>3, SettledStays
  <2> QED BY <2>1, <2>2
<1>7. Fed'
  <2>1. \A c \in Ids : Exists(c)' => Exists(c) /\ c # l
    BY <1>1, <1>2 DEF Exists
  <2> QED BY <1>1, <1>5, <2>1, FedStays DEF Talk
<1> QED BY <1>1, <1>6, <1>7, AtRestStays, RestTalks

\* The invariant, where the jobs of a content begin or go on and no message was sent.
LEMMA ServingTalks ==
  ASSUME Talk, Fed', told' = told, NEW c \in Ids, Serving(c)'
  PROVE  Talk'
<1>1. \A h \in Handles : told'[h] \in Spoken
  BY DEF Talk
<1> QED BY <1>1 DEF Talk, Mode, Spoken

\* hlcache_handle_abort, of a handle that has no content yet.
LEMMA AbortContextTalk ==
  ASSUME Base, Talk, NEW h \in Handles, AbortContext(h)
  PROVE  Talk'
<1>1. /\ work = <<>> /\ told' = told /\ work' = <<>> /\ content' = content /\ context[h] # None
      /\ handle' = Aborting(handle, h) /\ context' = [context EXCEPT ![h] = None]
      /\ ll' = LLReleased(LLAborted(ll, context[h]), context[h])
  BY DEF AbortContext, Idle, Aborting
<1>2. handle \in [Handles -> HandleType] /\ context \in [Handles -> Ids \cup {None}]
  BY DEF Base, Types
<1>3. \A g \in Handles : ~Leaving(g)
  BY <1>1, NothingLeft
<1>4. \A l \in Ids : ll'[l].sent = ll[l].sent /\ (ll[l].aborted => ll'[l].aborted)
  BY <1>1, <1>3, GivenUpFacts
<1>5. \A g \in Handles : /\ handle'[g].state = handle[g].state /\ handle'[g].content = handle[g].content
                         /\ context'[g] \in {None, context[g]}
                         /\ context'[g] # None => context[g] \in Ids
  BY <1>1, <1>2, AbortingFacts
<1>6. ASSUME NEW g \in Handles, Settled(g) PROVE Settled(g)'
  BY <1>1, <1>3, <1>4, <1>5, <1>6, SettledStays
<1>7. Fed'
  <2>1. \A c \in Ids : Exists(c)' => Exists(c)
    BY <1>1 DEF Exists
  <2> QED BY <1>1, <1>4, <2>1, FedStays DEF Talk
<1> QED BY <1>1, <1>6, <1>7, AtRestStays, RestTalks

\* hlcache_handle_abort, of the only user of a content.
LEMMA AbortContentTalk ==
  ASSUME Base, Talk, NEW h \in Handles, AbortContent(h)
  PROVE  Talk'
<1>2. /\ handle \in [Handles -> HandleType] /\ context \in [Handles -> Ids \cup {None}]
      /\ content \in [Ids -> ContentType] /\ ll \in [Ids -> LLType]
  BY DEF Base, Types
<1>0. PICK c \in Ids : c = handle[h].content /\ Exists(c) /\ content[c].ll = c
  <2>1. handle[h].content # None
    BY DEF AbortContent
  <2>2. handle[h].content \in Ids
    BY <1>2, <2>1 DEF HandleType
  <2> QED BY <2>1, <2>2 DEF Base, Sharing
<1>1. /\ work = <<>> /\ told' = told /\ context' = context
      /\ handle' = Aborting(handle, h) /\ content' = ContentAborted(content, c)
      /\ ll' = LLAborted(ll, content[c].ll)
      /\ work' = <<>> \/ (content[c].status = "READY" /\ work' = <<Do("done", c)>>)
  BY <1>0 DEF AbortContent, Idle, Aborting
<1>3. Exists(c) /\ content[c].ll = c
  BY <1>0
<1>4. \A g \in Handles : ~Leaving(g)
  BY <1>1, NothingLeft
<1>5. \A l \in Ids : ll'[l].sent = ll[l].sent /\ (ll[l].aborted => ll'[l].aborted)
  BY <1>1, <1>2, <1>3, LLAbortedFacts
<1>6. \A g \in Handles : /\ handle'[g].state = handle[g].state /\ handle'[g].content = handle[g].content
                         /\ handle[g].content # None => handle[g].content \in Ids
                         /\ context[g] # None => context[g] \in Ids
  BY <1>1, <1>2, AbortingFacts DEF HandleType
<1>7. \A d \in Ids : content'[d].status = content[d].status /\ content'[d].locked = content[d].locked
  BY <1>1, <1>2, <1>3, ContentAbortedFacts
<1>8. ASSUME NEW g \in Handles, Settled(g) PROVE Settled(g)'
  BY <1>1, <1>4, <1>5, <1>6, <1>7, <1>8, SettledStays
<1>9. Fed' /\ Exists(c)'
  <2>1. \A d \in Ids : Exists(d)' <=> Exists(d)
    BY <1>7 DEF Exists
  <2>2. Fed'
    BY <1>3, <1>5, <1>7, <2>1, FedStays DEF Talk
  <2> QED BY <1>3, <2>1, <2>2
<1>10. CASE work' = <<>>
  BY <1>1, <1>8, <1>9, <1>10, AtRestStays, RestTalks
<1>11. CASE content[c].status = "READY" /\ work' = <<Do("done", c)>>
  <2>1. ll[c].sent = "ended"
    BY <1>3, <1>11 DEF Talk, Fed
  <2>2. \A g \in Handles : Settled(g)'
    BY <1>1, <1>8, IdleRests DEF AtRest
  <2>3. content'[c].status = "READY" /\ ll'[c].sent = "ended"
    BY <1>3, <1>5, <1>7, <1>11, <2>1
  <2>4. Serving(c)'
    BY <1>9, <1>11, <2>2, <2>3 DEF Serving, Turning
  <2> QED BY <1>1, <1>3, <1>9, <2>4, ServingTalks
<1> QED BY <1>1, <1>10, <1>11

\* A download that its client lets go.
LEMMA DownloadEndsTalk ==
  ASSUME Base, Talk, NEW l \in Ids, DownloadEnds(l)
  PROVE  Talk'
<1>1. /\ work = <<>> /\ told' = told /\ work' = <<>> /\ content' = content
      /\ handle' = handle /\ context' = context /\ ll' = LLReleased(ll, l) /\ l \in downloads
  BY DEF DownloadEnds, Idle
<1>2. /\ context \in [Handles -> Ids \cup {None}] /\ ll \in [Ids -> LLType] /\ ll[l].state = "held"
  BY <1>1 DEF Base, Types, Owned
<1>3. \A k \in Ids : ll'[k].sent = ll[k].sent /\ (ll[k].aborted => ll'[k].aborted)
  BY <1>1, <1>2, LLReleasedFacts
<1>4. \A g \in Handles : ~Leaving(g)
  BY <1>1, NothingLeft
<1>5. \A g \in Handles : context[g] # None => context[g] \in Ids
  BY <1>2
<1>6. ASSUME NEW g \in Handles, Settled(g) PROVE Settled(g)'
  BY <1>1, <1>3, <1>4, <1>5, <1>6, SettledStays
<1>7. Fed'
  <2>1. \A c \in Ids : Exists(c)' => Exists(c)
    BY <1>1 DEF Exists
  <2> QED BY <1>1, <1>3, <2>1, FedStays DEF Talk
<1> QED BY <1>1, <1>6, <1>7, AtRestStays, RestTalks

\* hlcache_handle_abort, of one of several users: the clone is fed as the content was.
LEMMA AbortSharedTalk ==
  ASSUME Base, Talk, NEW h \in Handles, AbortShared(h)
  PROVE  Talk'
<1>1. /\ handle \in [Handles -> HandleType] /\ context \in [Handles -> Ids \cup {None}]
      /\ content \in [Ids -> ContentType] /\ ll \in [Ids -> LLType]
  BY DEF Base, Types
<1>2. PICK c \in Ids : c = handle[h].content /\ Exists(c) /\ content[c].ll = c
  <2>1. handle[h].content # None
    BY DEF AbortShared
  <2>2. handle[h].content \in Ids
    BY <1>1, <2>1 DEF HandleType
  <2> QED BY <2>1, <2>2 DEF Base, Sharing
<1>3. PICK n \in Ids : n = <<h, "cloned">>
  BY IdFacts
<1> DEFINE clone == [content[c] EXCEPT !.users = <<h>>, !.ll = n]
           cr == [content[c] EXCEPT !.users = Without(@, {h})]
           lc == [ll EXCEPT ![n] = ll[c]]
           hr == [Aborting(handle, h)[h] EXCEPT !.content = n]
<1>4. /\ work = <<>> /\ told' = told /\ context' = context /\ work' = <<>>
      /\ ~handle[h].aborted /\ content[c].status = "LOADING" /\ handle[h].state = "live"
      /\ handle' = [handle EXCEPT ![h].aborted = TRUE, ![h].content = n]
      /\ content' = [content EXCEPT ![n] = clone, ![c].users = Without(@, {h})]
      /\ ll' = LLAborted(lc, n)
  BY <1>2, <1>3 DEF AbortShared, Idle, Live
<1>5. n # c /\ ~Exists(n)
  <2>1. ll[n].state = "none"
    BY <1>3, <1>4 DEF Base, Fresh
  <2> QED BY <1>2, <2>1 DEF Base, Owned
<1>6. /\ handle'[h].state = handle[h].state /\ handle'[h].content = n
      /\ \A g \in Handles : g # h => handle'[g] = handle[g]
  <2>1. handle' = [Aborting(handle, h) EXCEPT ![h].content = n]
    BY <1>1, <1>4, Zenon DEF Aborting
  <2>2. /\ Aborting(handle, h) \in [Handles -> HandleType]
        /\ \A g \in Handles : /\ Aborting(handle, h)[g].state = handle[g].state
                              /\ (g # h => Aborting(handle, h)[g] = handle[g])
    BY <1>1, AbortingFacts
  <2> DEFINE a == Aborting(handle, h)
             r == [a[h] EXCEPT !.content = n]
  <2>3. handle' = [a EXCEPT ![h] = r]
    BY <2>1
  <2>4. a[h] \in HandleType /\ a[h].state = handle[h].state /\ a \in [Handles -> HandleType]
        /\ \A g \in Handles : g # h => a[g] = handle[g]
    BY <2>2
  <2> HIDE DEF a
  <2>5. r.state = handle[h].state /\ r.content = n
    BY <2>4 DEF HandleType
  <2> HIDE DEF r
  <2> QED BY <2>3, <2>4, <2>5
<1>7. clone.status = "LOADING" /\ clone.locked = content[c].locked
  <2> DEFINE u == <<h>>
  <2>1. clone = [content[c] EXCEPT !.users = u, !.ll = n] /\ content[c] \in ContentType
    BY <1>1
  <2> HIDE DEF u, clone
  <2> QED BY <1>4, <2>1 DEF ContentType
<1>8. cr.status = content[c].status /\ cr.locked = content[c].locked
  <2> DEFINE w == Without(content[c].users, {h})
  <2>1. cr = [content[c] EXCEPT !.users = w] /\ content[c] \in ContentType
    BY <1>1
  <2> HIDE DEF w, cr
  <2> QED BY <2>1 DEF ContentType
<1>9. content' = [content EXCEPT ![n] = clone, ![c] = cr]
  <2>1. [content EXCEPT ![n] = clone][c] = content[c]
    BY <1>1, <1>2, <1>5
  <2> QED BY <1>4, <2>1, Zenon
<1>10. lc \in [Ids -> LLType] /\ lc[n] = ll[c] /\ \A k \in Ids : k # n => lc[k] = ll[k]
  BY <1>1, <1>2
<1> HIDE DEF clone, cr, lc
<1>11. /\ content'[n] = clone /\ content'[c] = cr
       /\ \A d \in Ids : d # n /\ d # c => content'[d] = content[d]
  BY <1>1, <1>5, <1>9
<1>12. /\ ll'[n].sent = ll[c].sent /\ ll'[n].aborted
       /\ \A k \in Ids : k # n => ll'[k] = ll[k]
  BY <1>4, <1>10, LLAbortedFacts
<1>13. \A g \in Handles : ~Leaving(g)
  BY <1>4, NothingLeft
<1>14. ASSUME NEW g \in Handles, Settled(g) PROVE Settled(g)'
  <2>1. CASE g = h
    <3>1. Knows(told[h], "LOADING")
      BY <1>2, <1>4, <1>14, <2>1, IdFacts DEF Settled, Status
    <3>2. Knows(told'[h], content'[handle'[h].content].status)
      BY <1>4, <1>6, <1>7, <1>11, <3>1
    <3>3. handle'[h].content # None /\ handle'[h].state # "new"
      BY <1>4, <1>6, IdFacts
    <3> QED BY <2>1, <3>2, <3>3 DEF Settled, Status, Knows
  <2>2. CASE g # h
    <3>1. handle'[g] = handle[g] /\ context'[g] = context[g] /\ told'[g] = told[g]
      BY <1>4, <1>6, <2>2
    <3>2. handle[g].content # None => handle[g].content \in Ids /\ Exists(handle[g].content)
      BY <1>1 DEF HandleType, Base, Sharing
    <3>3. handle[g].content # None =>
             content'[handle[g].content].status = content[handle[g].content].status
      BY <1>5, <1>8, <1>11, <3>2
    <3>4. context[g] # None => context[g] \in Ids /\ context[g] # n
      <4>1. context[g] \in {None, <<g, "made">>}
        BY DEF Base, Fresh
      <4>2. <<g, "made">> \in Ids /\ <<g, "made">> # n
        BY <1>3, IdFacts
      <4> QED BY <4>1, <4>2
    <3>5. context'[g] # None => ll'[context[g]].sent = ll[context[g]].sent
      BY <1>12, <3>1, <3>4
    <3> QED BY <1>13, <1>14, <3>1, <3>3, <3>5, SettledStays
  <2> QED BY <2>1, <2>2
<1>15. Fed'
  <2> SUFFICES ASSUME NEW d \in Ids, Made(content'[d].status)
               PROVE  /\ ll'[d].sent \in {"headers", "data", "ended"}
                      /\ ll'[d].sent # "ended" =>
                           /\ ~content'[d].locked
                           /\ \/ content'[d].status = "LOADING"
                              \/ content'[d].status = "ERROR" /\ ll'[d].sent = "data" /\ ll'[d].aborted
    BY DEF Fed, Exists
  <2>1. /\ ll[c].sent \in {"headers", "data", "ended"}
        /\ ll[c].sent # "ended" => ~content[c].locked
    BY <1>2 DEF Talk, Fed
  <2>2. CASE d = n
    BY <1>7, <1>11, <1>12, <2>1, <2>2
  <2>3. CASE d = c
    BY <1>4, <1>5, <1>8, <1>11, <1>12, <2>1, <2>3
  <2>4. CASE d # n /\ d # c
    <3>1. content'[d] = content[d] /\ ll'[d] = ll[d]
      BY <1>11, <1>12, <2>4
    <3> QED BY <3>1 DEF Talk, Fed, Exists
  <2> QED BY <2>2, <2>3, <2>4
<1> QED BY <1>4, <1>14, <1>15, AtRestStays, RestTalks

\* A client whose context still listens has heard nothing.
LEMMA NothingHeard ==
  ASSUME Base, Talk, NEW h \in Handles, NEW sent \in {"open", "headers"}, Listening(h, sent)
  PROVE  told[h] = <<>> /\ AtRest
<1>1. work = <<>> /\ context[h] # None /\ ll[context[h]].sent = sent /\ handle[h].content = None
  BY ListeningFacts
<1>2. AtRest
  BY <1>1, IdleRests
<1> QED BY <1>1, <1>2 DEF AtRest, Settled

\* The invariant, where a context is taken somewhere.
LEMMA MigratingTalks ==
  ASSUME Base, Talk, NEW h \in Handles, NEW sent \in {"open", "headers"}, Listening(h, sent),
         context' = context, told' = told,
         \A g \in Handles \ {h} : handle'[g] = handle[g],
         \A c \in Ids : Exists(c) => content'[c].status = content[c].status,
         \A k \in Ids : k # context[h] => ll'[k].sent = ll[k].sent,
         Fed', (Joining(h) \/ Dismissing(h))'
  PROVE  Talk'
<1>1. AtRest /\ \A g \in Handles : ~Leaving(g)
  BY NothingHeard, ListeningFacts
<1>2. ASSUME NEW g \in Handles \ {h} PROVE Settled(g)'
  <2>1. context \in [Handles -> Ids \cup {None}] /\ handle \in [Handles -> HandleType]
    BY DEF Base, Types
  <2>2. handle[g].content # None => handle[g].content \in Ids /\ Exists(handle[g].content)
    BY <2>1 DEF HandleType, Base, Sharing
  <2>3. context[g] # None => context[g] \in Ids /\ context[g] # context[h]
    <3>1. context[g] \in {None, <<g, "made">>} /\ context[h] = <<h, "made">>
      BY ListeningFacts DEF Base, Fresh
    <3> QED BY <2>1, <3>1, IdFacts
  <2>4. /\ handle'[g] = handle[g] /\ context'[g] = context[g] /\ told'[g] = told[g]
        /\ Settled(g) /\ ~Leaving(g)
    BY <1>1 DEF AtRest
  <2>5. /\ handle[g].content # None =>
              content'[handle[g].content].status = content[handle[g].content].status
        /\ context'[g] # None => ll'[context[g]].sent = ll[context[g]].sent
    BY <2>2, <2>3, <2>4
  <2> QED BY <2>4, <2>5, SettledStays
<1>3. \A g \in Handles : told'[g] \in Spoken
  BY DEF Talk
<1>4. Mode'
  BY <1>2 DEF Mode
<1> QED BY <1>3, <1>4 DEF Talk, Spoken

\* A handle that joins a content has to hear all of it.
LEMMA JoiningBegins ==
  ASSUME NEW h \in Handles, NEW status \in {"LOADING", "READY", "DONE"},
         work' = CatchUp(h, status) \o <<Leave(h)>>, told'[h] = <<>>,
         handle'[h].content # None, handle'[h].state = "live",
         content'[handle'[h].content].status = status
  PROVE  Joining(h)'
<1>1. PICK n \in 1 .. 3 :
         /\ Len(CatchUp(h, status)) = n /\ CatchUp(h, status) \in Seq(Jobs) /\ Order[n] = status
         /\ \A i \in 1 .. n : CatchUp(h, status)[i] = Tell(h, Order[i])
  <2>1. Order[Reach[status]] = status
    BY DEF Order, Reach
  <2> QED BY <2>1, CatchUpFacts
<1>2. Leave(h) \in Jobs
  BY JobTypes
<1> DEFINE J == CatchUp(h, status)
           e == Leave(h)
<1> HIDE DEF J, e
<1>3. /\ Len(work') = n + 1 /\ work'[n + 1] = e /\ \A i \in 1 .. n : work'[i] = J[i]
  <2>1. work' = J \o <<e>> /\ J \in Seq(Jobs) /\ <<e>> \in Seq(Jobs) /\ Len(<<e>>) = 1 /\ <<e>>[1] = e
    BY <1>1, <1>2 DEF J, e
  <2>2. Len(J) = n /\ n \in Nat
    BY <1>1 DEF J
  <2>3. /\ Len(J \o <<e>>) = n + 1
        /\ \A i \in 1 .. n + 1 : (J \o <<e>>)[i] = IF i <= n THEN J[i] ELSE <<e>>[i - n]
    BY <2>1, <2>2, ConcatProperties
  <2> QED BY <2>1, <2>2, <2>3
<1>4. n - n = 0 /\ Heard(n - n) = <<>> /\ \A i \in 1 .. n : n - n + i = i
  BY HeardFacts
<1> DEFINE r == n
<1>5. /\ r \in 0 .. 3 /\ r <= n /\ told'[h] = Heard(n - r)
      /\ Len(work') = r + 1 /\ work'[r + 1] = Leave(h)
      /\ \A i \in 1 .. r : work'[i] = Tell(h, Order[n - r + i])
  BY <1>1, <1>3, <1>4 DEF J, e
<1> HIDE DEF r
<1>6. content'[handle'[h].content].status = Order[n]
  BY <1>1
<1> QED BY <1>5, <1>6 DEF Joining, Live, Status, Heard, Order, Leave, Tell

\* hlcache_migrate_ctx, to the content of another handle.
LEMMA JoinTalk ==
  ASSUME Base, Talk, NEW h \in Handles, NEW sent \in {"open", "headers"}, Listening(h, sent),
         NEW s \in {"headers", "data"}, Join(h, context[h], s), context' = context, told' = told
  PROVE  Talk'
<1>1. /\ Types /\ Sharing /\ context[h] \in Ids /\ ll[context[h]].state = "held"
      /\ ~Exists(context[h]) /\ handle[h].state = "live" /\ told'[h] = <<>>
  BY ListeningFacts, NothingHeard
<1>2. PICK l \in Ids : l = context[h]
  BY <1>1
<1>3. PICK c \in Ids : /\ c = FoundContent(l) /\ Exists(c)
                       /\ content[c].status \in {"LOADING", "READY", "DONE"}
                       /\ content[c].users \in Seq(Handles)
  <2>1. FoundContent(l) # None
    BY <1>2 DEF Join
  <2> QED BY <1>1, <2>1, FoundFacts
<1> DEFINE hr == [handle[h] EXCEPT !.content = c]
           u == Prepended(h, content[c].users)
           cr == [content[c] EXCEPT !.users = u]
           la == Sent(ll, l, s)
<1>4. /\ ll' = LLReleased(la, l)
      /\ handle' = [handle EXCEPT ![h] = hr] /\ content' = [content EXCEPT ![c] = cr]
      /\ work' = CatchUp(h, content[c].status) \o <<Leave(h)>>
  BY <1>2, <1>3 DEF Join, Sent, Prepended
<1>5. /\ handle \in [Handles -> HandleType] /\ content \in [Ids -> ContentType]
      /\ ll \in [Ids -> LLType]
  BY <1>1 DEF Types
<1>6. hr.content = c /\ hr.state = "live"
  BY <1>1, <1>5 DEF HandleType
<1>7. cr.status = content[c].status /\ cr.locked = content[c].locked
  <2> HIDE DEF u
  <2> QED BY <1>5 DEF ContentType
<1> HIDE DEF hr, cr
<1>8. /\ la \in [Ids -> LLType] /\ la[l].state = "held"
      /\ \A k \in Ids : k # l => la[k] = ll[k]
  BY <1>1, <1>2, <1>5, SentFacts
<1> HIDE DEF la
<1>9. \A k \in Ids : k # l => ll'[k] = ll[k]
  <2>1. \A k \in Ids : k # l => LLReleased(la, l)[k] = la[k]
    BY <1>8, LLReleasedFacts
  <2> QED BY <1>4, <1>8, <2>1
<1>10. /\ \A d \in Ids : content'[d].status = content[d].status /\ content'[d].locked = content[d].locked
       /\ handle'[h] = hr /\ \A g \in Handles \ {h} : handle'[g] = handle[g]
  BY <1>4, <1>5, <1>7
<1>11. Fed'
  <2>1. ASSUME NEW d \in Ids, Exists(d)' PROVE Exists(d) /\ d # l
    BY <1>1, <1>2, <1>10, <2>1 DEF Exists
  <2>2. \A d \in Ids : Exists(d)' =>
           /\ Exists(d) /\ content'[d].status = content[d].status
           /\ content'[d].locked = content[d].locked
           /\ ll'[d].sent = ll[d].sent /\ (ll[d].aborted => ll'[d].aborted)
    BY <1>9, <1>10, <2>1
  <2> QED BY <2>2, FedStays DEF Talk
<1>12. Joining(h)'
  <2>1. handle'[h].content # None /\ handle'[h].state = "live"
        /\ content'[handle'[h].content].status = content[c].status
    BY <1>6, <1>10, IdFacts
  <2> QED BY <1>1, <1>3, <1>4, <2>1, JoiningBegins
<1> QED BY <1>2, <1>9, <1>10, <1>11, <1>12, MigratingTalks

\* hlcache_migrate_ctx, to a content of its own.
LEMMA MakeTalk ==
  ASSUME Base, Talk, NEW h \in Handles, NEW sent \in {"open", "headers"}, Listening(h, sent),
         Make(h, context[h]), context' = context, told' = told
  PROVE  Talk'
<1>1. /\ Types /\ Sharing /\ context[h] \in Ids
      /\ ~Exists(context[h]) /\ handle[h].state = "live" /\ told'[h] = <<>>
  BY ListeningFacts, NothingHeard
<1>2. PICK l \in Ids : l = context[h]
  BY <1>1
<1> DEFINE hr == [handle[h] EXCEPT !.content = l]
           u == <<h>>
           o == ll[l].object
           cr == [NoContent EXCEPT !.status = "LOADING", !.users = u, !.object = o, !.ll = l]
<1>4. /\ ll' = Sent(ll, l, "headers")
      /\ handle' = [handle EXCEPT ![h] = hr] /\ content' = [content EXCEPT ![l] = cr]
      /\ work' = CatchUp(h, "LOADING") \o <<Leave(h)>>
  BY <1>2 DEF Make, Sent
<1>5. /\ handle \in [Handles -> HandleType] /\ content \in [Ids -> ContentType]
      /\ ll \in [Ids -> LLType]
  BY <1>1 DEF Types
<1>6. hr.content = l /\ hr.state = "live"
  BY <1>1, <1>5 DEF HandleType
<1>7. cr.status = "LOADING" /\ ~cr.locked
  <2> HIDE DEF u, o
  <2> QED BY DEF NoContent
<1> HIDE DEF hr, cr
<1>9. ll'[l].sent = "headers" /\ \A k \in Ids : k # l => ll'[k] = ll[k]
  BY <1>4, <1>5, SentFacts
<1>10. /\ content'[l] = cr /\ \A d \in Ids \ {l} : content'[d] = content[d]
       /\ handle'[h] = hr /\ \A g \in Handles \ {h} : handle'[g] = handle[g]
  BY <1>4, <1>5
<1>11. Fed'
  <2> SUFFICES ASSUME NEW d \in Ids, Made(content'[d].status)
               PROVE  /\ ll'[d].sent \in {"headers", "data", "ended"}
                      /\ ll'[d].sent # "ended" =>
                           /\ ~content'[d].locked
                           /\ \/ content'[d].status = "LOADING"
                              \/ content'[d].status = "ERROR" /\ ll'[d].sent = "data" /\ ll'[d].aborted
    BY DEF Fed, Exists
  <2>1. CASE d = l
    BY <1>7, <1>9, <1>10, <2>1
  <2>2. CASE d # l
    <3>1. content'[d] = content[d] /\ ll'[d] = ll[d]
      BY <1>9, <1>10, <2>2
    <3> QED BY <3>1 DEF Talk, Fed, Exists
  <2> QED BY <2>1, <2>2
<1>12. Joining(h)'
  <2>1. handle'[h].content # None /\ handle'[h].state = "live"
        /\ content'[handle'[h].content].status = "LOADING"
    BY <1>6, <1>7, <1>10, IdFacts
  <2> QED BY <1>1, <1>4, <2>1, JoiningBegins
<1>13. \A c \in Ids : Exists(c) => content'[c].status = content[c].status
  BY <1>1, <1>2, <1>10
<1> QED BY <1>2, <1>9, <1>10, <1>11, <1>12, <1>13, MigratingTalks

\* A context that ends without a content.
LEMMA DismissTalk ==
  ASSUME Base, Talk, NEW h \in Handles, NEW sent \in {"open", "headers"}, Listening(h, sent),
         NEW s \in {"headers", "data", "ended"}, ll' = Sent(ll, context[h], s),
         context' = context, told' = told, handle' = handle, content' = content,
         \/ work' \in {<<Tell(h, "ERROR"), Refuse(h)>>, <<Tell(h, "DOWNLOAD"), Leave(h)>>}
         \/ work' = <<Tell(h, "ERROR")>> /\ s = "ended"
  PROVE  Talk'
<1>1. /\ Types /\ context[h] \in Ids /\ ~Exists(context[h])
      /\ handle[h].state = "live" /\ handle[h].content = None /\ told'[h] = <<>>
  BY ListeningFacts, NothingHeard
<1>2. ll'[context[h]].sent = s /\ \A k \in Ids : k # context[h] => ll'[k] = ll[k]
  <2>1. ll \in [Ids -> LLType]
    BY <1>1 DEF Types
  <2> QED BY <1>1, <2>1, SentFacts
<1>3. Fed'
  <2>1. \A d \in Ids : Exists(d)' => Exists(d) /\ d # context[h]
    BY <1>1 DEF Exists
  <2> QED BY <1>2, <2>1, FedStays DEF Talk
<1>4. Dismissing(h)'
  BY <1>1, <1>2 DEF Dismissing, Tell, Leave, Refuse
<1>5. \A k \in Ids : k # context[h] => ll'[k].sent = ll[k].sent
  BY <1>2
<1> QED BY <1>3, <1>4, <1>5, MigratingTalks

\* A context that waits for the data.
LEMMA WaitTalk ==
  ASSUME Base, Talk, NEW h \in Handles, Listening(h, "open"), ll' = Sent(ll, context[h], "headers"),
         context' = context, told' = told, handle' = handle, content' = content, work' = work
  PROVE  Talk'
<1>1. /\ Types /\ context[h] \in Ids /\ ~Exists(context[h]) /\ work = <<>>
      /\ handle[h].content = None /\ told'[h] = <<>> /\ AtRest
      /\ \A g \in Handles : ~Leaving(g)
  BY ListeningFacts, NothingHeard
<1>2. \A k \in Ids : k # context[h] => ll'[k] = ll[k]
  <2>1. ll \in [Ids -> LLType]
    BY <1>1 DEF Types
  <2> QED BY <1>1, <2>1, SentFacts
<1>3. Fed'
  <2>1. \A d \in Ids : Exists(d)' => Exists(d) /\ d # context[h]
    BY <1>1 DEF Exists
  <2> QED BY <1>2, <2>1, FedStays DEF Talk
<1>4. ASSUME NEW g \in Handles, Settled(g) PROVE Settled(g)'
  <2>1. CASE g = h
    BY <1>1, <2>1 DEF Settled
  <2>2. CASE g # h
    <3>1. context[g] # None => context[g] \in Ids /\ context[g] # context[h]
      <4>1. context[g] \in {None, <<g, "made">>} /\ context[h] = <<h, "made">>
        BY ListeningFacts DEF Base, Fresh
      <4>2. context \in [Handles -> Ids \cup {None}]
        BY DEF Base, Types
      <4> QED BY <2>2, <4>1, <4>2, IdFacts
    <3>2. context'[g] # None => ll'[context[g]].sent = ll[context[g]].sent
      BY <1>2, <3>1
    <3> QED BY <1>1, <1>4, <3>2, SettledStays
  <2> QED BY <2>1, <2>2
<1> QED BY <1>1, <1>3, <1>4, AtRestStays, RestTalks

\* hlcache_llcache_callback.
LEMMA ContextEventTalk ==
  ASSUME Base, Talk, NEW h \in Handles, ContextEvent(h)
  PROVE  Talk'
<1>1. ASSUME NEW sent \in {"open", "headers"}, Listening(h, sent), NEW s \in {"headers", "data"},
             Migrate(h, context[h], s), context' = context, told' = told
      PROVE  Talk'
  <2>1. CASE Join(h, context[h], s)
    BY <1>1, <2>1, JoinTalk
  <2>2. CASE Make(h, context[h])
    BY <1>1, <2>2, MakeTalk
  <2>3. CASE Download(h, context[h])
    <3>1. /\ ll' = Sent(ll, context[h], "headers") /\ handle' = handle /\ content' = content
          /\ work' = <<Tell(h, "DOWNLOAD"), Leave(h)>>
      BY <2>3 DEF Download, Sent
    <3> QED BY <1>1, <3>1, DismissTalk
  <2>4. CASE Reject(h, context[h], s)
    <3>1. /\ ll' = Sent(ll, context[h], s) /\ handle' = handle /\ content' = content
          /\ work' = <<Tell(h, "ERROR"), Refuse(h)>> /\ s \in {"headers", "data", "ended"}
      BY <2>4 DEF Reject, Sent
    <3> QED BY <1>1, <3>1, DismissTalk
  <2> QED BY <1>1, <2>1, <2>2, <2>3, <2>4 DEF Migrate
<1>2. CASE Headers(h)
  <2>1. Listening(h, "open") /\ context' = context /\ told' = told
    BY <1>2 DEF Headers
  <2>2. CASE Migrate(h, context[h], "headers")
    BY <1>1, <2>1, <2>2
  <2>3. CASE ~Migrate(h, context[h], "headers")
    <3>1. /\ ll' = Sent(ll, context[h], "headers") /\ work' = work
          /\ handle' = handle /\ content' = content
      BY <1>2, <2>3 DEF Headers, Sent
    <3> QED BY <2>1, <3>1, WaitTalk
  <2> QED BY <2>2, <2>3
<1>3. CASE Settle(h)
  BY <1>1, <1>3 DEF Settle
<1>4. CASE FetchFails(h)
  <2>1. PICK sent \in {"open", "headers"} : Listening(h, sent)
    BY <1>4 DEF FetchFails
  <2>2. /\ ll' = Sent(ll, context[h], "ended") /\ work' = <<Tell(h, "ERROR")>>
        /\ handle' = handle /\ context' = context /\ content' = content /\ told' = told
    BY <1>4 DEF FetchFails, Sent
  <2> QED BY <2>1, <2>2, DismissTalk
<1> QED BY <1>2, <1>3, <1>4 DEF ContextEvent

-----------------------------------------------------------------------------
\* The handles of the other contents, and all if the status stays, hear nothing new.
LEMMA OthersKeep ==
  ASSUME Base, NEW c \in Ids, handle' = handle, context' = context, told' = told,
         \A d \in Ids \ {c} : content'[d].status = content[d].status,
         \A g \in Handles : context[g] # None => ll'[context[g]].sent = ll[context[g]].sent
  PROVE  /\ OthersSettled(c) => OthersSettled(c)'
         /\ content'[c].status = content[c].status => \A g \in Handles : Settled(g) => Settled(g)'
<1>1. ASSUME NEW g \in Handles, Settled(g),
             handle[g].content # c \/ content'[c].status = content[c].status
      PROVE  Settled(g)'
  <2>1. handle[g].content # None => handle[g].content \in Ids
    BY DEF Base, Types, HandleType
  <2>2. /\ handle'[g].content # None =>
              content'[handle[g].content].status = content[handle[g].content].status
        /\ context'[g] # None => ll'[context[g]].sent = ll[context[g]].sent
    BY <1>1, <2>1
  <2> QED BY <1>1, <2>2, SettledStays
<1> QED BY <1>1 DEF OthersSettled

\* At rest all users of a content know where it is.
LEMMA UsersKnow ==
  ASSUME AtRest, NEW c \in Ids
  PROVE  /\ OthersSettled(c)
         /\ \A h \in Handles : handle[h].content = c => Knows(told[h], content[c].status)
BY IdFacts DEF AtRest, OthersSettled, Settled, Status

\* What a broadcast changes for a user does not depend on the state.
LEMMA NewsIsFixed ==
  ASSUME NEW msg
  PROVE  Before(msg)' = Before(msg) /\ After(msg)' = After(msg)
<1>1. Before(msg)' = Before(msg)
  BY DEF Before, Heard
<1>2. After(msg)' = After(msg)
  BY DEF After, Heard, Failed
<1> QED BY <1>1, <1>2

\* A broadcast begins.
LEMMA CastingBegins ==
  ASSUME Base', NEW c \in Ids, NEW msg \in {"READY", "DONE", "ERROR"}, NEW rest \in Seq(Jobs),
         work' = <<Cast(c, msg, FirstUser(c)')>> \o rest, Telling(c, msg, rest)',
         OthersSettled(c)', \A h \in Handles : handle'[h].content = c => told'[h] = Before(msg)
  PROVE  Casting(c)'
<1>1. content'[c].users \in Seq(Handles)
  BY DEF Base, Types, ContentType
<1>2. \A h \in Handles : h \in ToSet(content'[c].users) <=> handle'[h].content = c
  BY DEF Base, Sharing, Users
<1> DEFINE s == content'[c].users
           u == IF s = <<>> THEN None ELSE Head(s)
           t == told'
           old == Before(msg)
           new == After(msg)
<1>3. ToSet(s) \subseteq Handles
  BY <1>1, MembersOf
<1>4. \A h \in ToSet(s) : t[h] = old
  BY <1>2, <1>3
<1>5. FirstUser(c)' = u /\ s \in Seq(Handles)
  BY <1>1 DEF FirstUser
<1> HIDE DEF s, t, old, new
<1>6. Halfway(s, IF s = <<>> THEN None ELSE Head(s), t, old, new)
  BY <1>4, <1>5, HalfwayEnds
<1>7. u \in Handles \cup {None}
  <2>1. s # <<>> => Head(s) \in Handles
    BY <1>5, HeadTailProperties
  <2> QED BY <2>1
<1> HIDE DEF u
<1>8. Halfway(s, u, t, old, new)
  BY <1>6 DEF u
<1>9. /\ work' = <<Cast(c, msg, u)>> \o rest
      /\ Halfway(content'[c].users, u, told', Before(msg), After(msg))
  BY <1>5, <1>8 DEF s, t, old, new
<1>10. Before(msg)' = Before(msg) /\ After(msg)' = After(msg)
  BY NewsIsFixed
<1> QED BY <1>7, <1>9, <1>10 DEF Casting, Users, Halfway, Cast

\* What comes of a conversion.
LEMMA ConversionTalks ==
  ASSUME Base', Talk, Fed', told' = told, NEW c \in Ids, work' \in Success(c) \cup Failure(c),
         content'[c].users = content[c].users, content'[c].status = "LOADING",
         ll'[c].sent = "ended", \A g \in Handles : Settled(g)'
  PROVE  Talk'
<1>1. Exists(c)'
  BY DEF Exists, Made
<1>2. \/ work' \in {<<Do("ready", c), Do("done", c)>>, <<Do("ready", c)>>,
                    <<Broadcast(c, "ERROR"), Do("error", c)>>}
      \/ Silent /\ work' = <<Do("error", c)>>
  BY DEF Success, Failure
<1>3. \A h \in Handles : handle'[h].content = c => told'[h] = Heard(1)
  BY IdFacts DEF Settled, Status, Knows
<1>4. OthersSettled(c)'
  BY DEF OthersSettled
<1>5. CASE work' \in {<<Do("ready", c)>>, <<Do("ready", c), Do("done", c)>>}
  <2>1. Turning(c)'
    BY <1>5 DEF Turning, Do
  <2> QED BY <1>1, <2>1, ServingTalks DEF Serving
<1>6. CASE Silent /\ work' = <<Do("error", c)>>
  <2> DEFINE w == <<Do("error", c)>>
  <2>1. work' = w /\ w # <<>>
    BY <1>6
  <2>2. Failing(c, w)'
    BY DEF Failing, Do
  <2>3. \A h \in Handles : handle'[h].content = c => Knows(told'[h], "ERROR")
    BY <1>3, <1>6 DEF Knows
  <2>4. Spoiling(c)'
    BY <1>4, <2>1, <2>2, <2>3 DEF Spoiling, Failing, Knows
  <2> QED BY <1>1, <2>4, ServingTalks DEF Serving
<1>7. CASE work' = <<Broadcast(c, "ERROR"), Do("error", c)>>
  <2> DEFINE rest == <<Do("error", c)>>
             j == Cast(c, "ERROR", FirstUser(c)')
             e == Do("error", c)
  <2>1. rest \in Seq(Jobs) /\ FirstUser(c)' = FirstUser(c) /\ rest = <<e>>
    BY JobTypes DEF ContentJobs, FirstUser
  <2>3. work' = <<j, e>>
    BY <1>7, <2>1 DEF Broadcast
  <2> HIDE DEF rest, j, e
  <2>4. <<j>> \o <<e>> = <<j, e>>
    BY ShortLists
  <2>5. work' = <<j>> \o rest
    BY <2>1, <2>3, <2>4
  <2>6. Failing(c, rest)'
    BY <2>1 DEF Failing, Do, e
  <2>7. Telling(c, "ERROR", rest)'
    BY <2>6 DEF Telling
  <2>8. Before("ERROR") = Heard(1)
    BY DEF Before
  <2>9. Casting(c)'
    BY <1>3, <1>4, <2>1, <2>5, <2>7, <2>8, CastingBegins DEF j
  <2> QED BY <1>1, <2>9, ServingTalks DEF Serving
<1> QED BY <1>2, <1>5, <1>6, <1>7

\* content_llcache_callback, and the later ends of a conversion and of a page.
LEMMA ContentEventTalk ==
  ASSUME Base, Base', Talk, NEW c \in Ids, ContentEvent(c) \/ ConversionEnds(c) \/ PageEnds(c)
  PROVE  Talk'
<1>1. /\ work = <<>> /\ handle' = handle /\ context' = context /\ told' = told
      /\ AtRest /\ \A g \in Handles : ~Leaving(g)
  BY IdleRests, NothingLeft DEF ContentEvent, Data, Complete, Fail, Open, Idle, ConversionEnds, PageEnds
<1>2. /\ content \in [Ids -> ContentType] /\ ll \in [Ids -> LLType]
  BY DEF Base, Types
<1>3. Exists(c) /\ content[c].ll = c
  BY IdFacts DEF Base, Sharing, Exists, Made, ContentEvent, Data, Complete, Fail, Open, ConversionEnds,
         Converting, PageEnds
<1>4. /\ ll[c].sent \in {"headers", "data", "ended"}
      /\ ll[c].sent # "ended" =>
           /\ ~content[c].locked
           /\ \/ content[c].status = "LOADING"
              \/ content[c].status = "ERROR" /\ ll[c].sent = "data" /\ ll[c].aborted
  BY <1>3 DEF Talk, Fed
<1>5. \A g \in Handles : context[g] # None => context[g] \in Ids /\ context[g] # c
  <2>1. ASSUME NEW g \in Handles, context[g] # None PROVE context[g] \in Ids /\ context[g] # c
    BY <1>1, <1>3, <2>1, ContextHolds DEF Base
  <2> QED BY <2>1
<1>6. OthersSettled(c) /\ \A h \in Handles : handle[h].content = c => Knows(told[h], content[c].status)
  BY <1>1, UsersKnow
<1>7. ASSUME content' = content, \A l \in Ids \ {c} : ll'[l] = ll[l],
             ll'[c].sent = "ended" \/ (ll'[c].sent = "data" /\ ll[c].sent = "headers")
      PROVE  (\A g \in Handles : Settled(g)') /\ Fed'
  <2>1. \A g \in Handles : context[g] # None => ll'[context[g]].sent = ll[context[g]].sent
    BY <1>5, <1>7
  <2>2. \A g \in Handles : Settled(g) => Settled(g)'
    BY <1>1, <1>7, <2>1, OthersKeep
  <2>3. Fed'
    <3> SUFFICES ASSUME NEW d \in Ids, Made(content'[d].status)
                 PROVE  /\ ll'[d].sent \in {"headers", "data", "ended"}
                        /\ ll'[d].sent # "ended" =>
                             /\ ~content'[d].locked
                             /\ \/ content'[d].status = "LOADING"
                                \/ content'[d].status = "ERROR" /\ ll'[d].sent = "data" /\ ll'[d].aborted
      BY DEF Fed, Exists
    <3>1. CASE d = c
      BY <1>4, <1>7, <3>1
    <3>2. CASE d # c
      <4>1. content'[d] = content[d] /\ ll'[d] = ll[d]
        BY <1>7, <3>2
      <4> QED BY <4>1 DEF Talk, Fed, Exists
    <3> QED BY <3>1, <3>2
  <2> QED BY <1>1, <2>2, <2>3 DEF AtRest
<1>8. CASE Data(c)
  <2>1. /\ ll' = Sent(ll, c, "data") /\ content' = content /\ ll[c].sent = "headers"
        /\ work' = <<>> \/ work' = <<Broadcast(c, "ERROR"), Do("spoil", c)>>
    BY <1>3, <1>8 DEF Data, Sent
  <2>2. ll'[c].sent = "data" /\ \A l \in Ids \ {c} : ll'[l] = ll[l]
    BY <1>2, <2>1, SentFacts
  <2>3. Fed' /\ \A g \in Handles : Settled(g)'
    BY <1>7, <2>1, <2>2
  <2>4. CASE work' = <<>>
    <3>1. AtRest'
      BY <2>3, <2>4 DEF AtRest
    <3> QED BY <1>1, <2>3, <3>1, RestTalks
  <2>5. CASE work' = <<Broadcast(c, "ERROR"), Do("spoil", c)>>
    <3>1. content'[c].status = "LOADING"
      BY <1>4, <2>1
    <3> DEFINE rest == <<Do("spoil", c)>>
               j == Cast(c, "ERROR", FirstUser(c)')
               e == Do("spoil", c)
    <3>2. rest \in Seq(Jobs) /\ FirstUser(c)' = FirstUser(c) /\ rest = <<e>>
      BY <2>1, JobTypes DEF ContentJobs, FirstUser
    <3>3. work' = <<j, e>>
      BY <2>5, <3>2 DEF Broadcast
    <3> HIDE DEF rest, j, e
    <3>4. work' = <<j>> \o rest
      BY <3>2, <3>3, ShortLists
    <3>5. Failing(c, rest)'
      BY <2>2, <3>1, <3>2 DEF Failing, Do, e
    <3>6. Telling(c, "ERROR", rest)'
      BY <3>5 DEF Telling
    <3>7. \A h \in Handles : handle'[h].content = c => told'[h] = Before("ERROR")
      BY <1>1, <1>6, <2>1, <3>1 DEF Knows, Before
    <3>8. OthersSettled(c)'
      BY <2>3 DEF OthersSettled
    <3>9. Casting(c)'
      BY <3>2, <3>4, <3>6, <3>7, <3>8, CastingBegins DEF j
    <3>10. Exists(c)'
      BY <3>1 DEF Exists, Made
    <3> QED BY <1>1, <2>3, <3>9, <3>10, ServingTalks DEF Serving
  <2> QED BY <2>1, <2>4, <2>5
<1>9. CASE Complete(c)
  <2>1. /\ ll' = Sent(ll, c, "ended") /\ content' = content /\ ll[c].sent # "ended"
        /\ work' = <<Do("convert", c)>>
    BY <1>3, <1>9 DEF Complete, Sent, Open
  <2>2. ll'[c].sent = "ended" /\ \A l \in Ids \ {c} : ll'[l] = ll[l]
    BY <1>2, <2>1, SentFacts
  <2>3. Fed' /\ \A g \in Handles : Settled(g)'
    BY <1>7, <2>1, <2>2
  <2>4. content'[c].status \in {"LOADING", "ERROR"}
    BY <1>4, <2>1
  <2>5. Turning(c)'
    BY <2>1, <2>2, <2>3, <2>4 DEF Turning, Do
  <2>6. Exists(c)'
    BY <2>4 DEF Exists, Made
  <2> QED BY <1>1, <2>3, <2>5, <2>6, ServingTalks DEF Serving
<1>10. CASE Fail(c)
  <2>1. /\ ll' = Sent(ll, c, "ended") /\ content' = Becomes(content, c, "ERROR")
        /\ ll[c].sent # "ended" /\ ~ll[c].aborted
        /\ work' = <<Broadcast(c, "ERROR")>>
    BY <1>3, <1>10 DEF Fail, Sent, Becomes, Open
  <2>2. ll'[c].sent = "ended" /\ \A l \in Ids \ {c} : ll'[l] = ll[l]
    BY <1>2, <2>1, SentFacts
  <2>3. /\ content'[c].users = content[c].users /\ content'[c].status = "ERROR"
        /\ \A d \in Ids \ {c} : content'[d] = content[d]
    <3>1. "ERROR" \in Statuses
      BY DEF Statuses
    <3> QED BY <1>2, <2>1, <3>1, BecomesFacts
  <2>4. content[c].status = "LOADING"
    BY <1>4, <2>1
  <2>5. Fed'
    <3> SUFFICES ASSUME NEW d \in Ids, Made(content'[d].status)
                 PROVE  /\ ll'[d].sent \in {"headers", "data", "ended"}
                        /\ ll'[d].sent # "ended" =>
                             /\ ~content'[d].locked
                             /\ \/ content'[d].status = "LOADING"
                                \/ content'[d].status = "ERROR" /\ ll'[d].sent = "data" /\ ll'[d].aborted
      BY DEF Fed, Exists
    <3>1. CASE d = c
      BY <2>2, <3>1
    <3>2. CASE d # c
      <4>1. content'[d] = content[d] /\ ll'[d] = ll[d]
        BY <2>2, <2>3, <3>2
      <4> QED BY <4>1 DEF Talk, Fed, Exists
    <3> QED BY <3>1, <3>2
  <2>6. OthersSettled(c)'
    <3>1. \A g \in Handles : context[g] # None => ll'[context[g]].sent = ll[context[g]].sent
      BY <1>5, <2>2
    <3>2. \A d \in Ids \ {c} : content'[d].status = content[d].status
      BY <2>3
    <3> QED BY <1>1, <1>6, <3>1, <3>2, OthersKeep
  <2> DEFINE rest == <<>>
             j == Cast(c, "ERROR", FirstUser(c)')
  <2>7. rest \in Seq(Jobs) /\ FirstUser(c)' = FirstUser(c) /\ rest = <<>>
    BY <2>3 DEF FirstUser
  <2>8. work' = <<j>>
    BY <2>1, <2>7 DEF Broadcast
  <2> HIDE DEF rest, j
  <2>9. work' = <<j>> \o rest
    BY <2>7, <2>8, ShortLists
  <2>10. Failing(c, rest)'
    BY <2>2, <2>3, <2>7 DEF Failing
  <2>11. Telling(c, "ERROR", rest)'
    BY <2>10 DEF Telling
  <2>12. \A h \in Handles : handle'[h].content = c => told'[h] = Before("ERROR")
    BY <1>1, <1>6, <2>4 DEF Knows, Before
  <2>13. Casting(c)'
    BY <2>6, <2>7, <2>9, <2>11, <2>12, CastingBegins DEF j
  <2>14. Exists(c)'
    BY <2>3 DEF Exists, Made
  <2> QED BY <1>1, <2>5, <2>13, <2>14, ServingTalks DEF Serving
<1>11. CASE ConversionEnds(c)
  <2>1. /\ content' = content /\ ll' = ll /\ work' \in Success(c) \cup Failure(c)
        /\ content[c].status = "LOADING" /\ content[c].locked
    BY <1>11 DEF ConversionEnds, Converting
  <2>2. ll'[c].sent = "ended"
    BY <1>4, <2>1
  <2>3. Fed' /\ \A g \in Handles : Settled(g)'
    BY <1>7, <2>1, <2>2
  <2> QED BY <1>1, <2>1, <2>2, <2>3, ConversionTalks
<1>12. CASE PageEnds(c)
  <2>1. /\ content' = content /\ ll' = ll /\ work' = <<Do("done", c)>> /\ content[c].status = "READY"
    BY <1>12 DEF PageEnds
  <2>2. ll'[c].sent = "ended"
    BY <1>4, <2>1
  <2>3. Fed' /\ \A g \in Handles : Settled(g)'
    BY <1>7, <2>1, <2>2
  <2>4. Turning(c)'
    BY <2>1, <2>2, <2>3 DEF Turning, Do
  <2>5. Exists(c)'
    BY <2>1 DEF Exists, Made
  <2> QED BY <1>1, <2>3, <2>4, <2>5, ServingTalks DEF Serving
<1> QED BY <1>8, <1>9, <1>10, <1>11, <1>12 DEF ContentEvent

-----------------------------------------------------------------------------
\* What the first job tells of where the cache is.
LEMMA ModeFacts ==
  ASSUME Base, Talk, work # <<>>, ~Stuck
  PROVE  \/ /\ Head(work).do \in {"tell", "leave", "refuse"}
            /\ \E h \in Handles : /\ Head(work).handle = h /\ (Joining(h) \/ Dismissing(h))
                                  /\ \A g \in Handles \ {h} : Settled(g)
         \/ /\ Head(work).do = "cast"
            /\ \E c \in Ids : Head(work).content = c /\ Exists(c) /\ Casting(c)
         \/ /\ Head(work).do \in ContentJobs
            /\ \E c \in Ids : Head(work).content = c /\ Exists(c) /\ (Turning(c) \/ Spoiling(c))
<1>1. Head(work) = work[1]
  BY FirstJob DEF Base
<1>2. ASSUME NEW h \in Handles, Joining(h)
      PROVE  Head(work).do \in {"tell", "leave", "refuse"} /\ Head(work).handle = h
  <2>1. PICK n \in 1 .. 3, r \in 0 .. 3 :
           /\ work[r + 1] = Leave(h) /\ \A i \in 1 .. r : work[i] = Tell(h, Order[n - r + i])
    BY <1>2 DEF Joining
  <2>2. CASE r = 0
    <3>1. work[1] = Leave(h)
      BY <2>1, <2>2
    <3> QED BY <1>1, <3>1, JobKinds
  <2>3. CASE r # 0
    <3>1. 1 \in 1 .. r
      BY <2>3
    <3>2. work[1] = Tell(h, Order[n - r + 1])
      BY <2>1, <3>1
    <3> QED BY <1>1, <3>2, JobKinds
  <2> QED BY <2>2, <2>3
<1>3. ASSUME NEW h \in Handles, Dismissing(h)
      PROVE  Head(work).do \in {"tell", "leave", "refuse"} /\ Head(work).handle = h
  <2> DEFINE a == Leave(h)
             b == Refuse(h)
  <2>1. /\ a.do = "leave" /\ a.handle = h /\ b.do = "refuse" /\ b.handle = h
        /\ \A msg : Tell(h, msg).do = "tell" /\ Tell(h, msg).handle = h
    BY JobKinds
  <2>2. \/ work = <<a>> \/ work = <<b>>
        \/ \E msg : work = <<Tell(h, msg), a>> \/ work = <<Tell(h, msg), b>> \/ work = <<Tell(h, msg)>>
    BY <1>3 DEF Dismissing
  <2> HIDE DEF a, b
  <2>3. CASE work = <<a>> \/ work = <<b>>
    BY <2>1, <2>3
  <2>4. CASE \E msg : work = <<Tell(h, msg), a>> \/ work = <<Tell(h, msg), b>> \/ work = <<Tell(h, msg)>>
    <3>1. PICK msg : work = <<Tell(h, msg), a>> \/ work = <<Tell(h, msg), b>> \/ work = <<Tell(h, msg)>>
      BY <2>4
    <3>2. Head(work) = Tell(h, msg)
      BY <3>1
    <3> QED BY <2>1, <3>2
  <2> QED BY <2>2, <2>3, <2>4
<1>4. ASSUME NEW c \in Ids, Casting(c) PROVE Head(work).do = "cast" /\ Head(work).content = c
  <2>1. PICK msg \in {"READY", "DONE", "ERROR"}, u \in Handles \cup {None}, rest \in Seq(Jobs) :
           work = <<Cast(c, msg, u)>> \o rest
    BY <1>4 DEF Casting
  <2> DEFINE j == Cast(c, msg, u)
  <2>2. j \in Jobs /\ j.do = "cast" /\ j.content = c
    BY JobTypes, JobKinds DEF Messages
  <2> HIDE DEF j
  <2>3. work = <<j>> \o rest
    BY <2>1 DEF j
  <2>4. Head(work) = j
    BY <2>2, <2>3, FirstOf
  <2> QED BY <2>2, <2>4
<1>5. ASSUME NEW c \in Ids, Turning(c) \/ Spoiling(c)
      PROVE  Head(work).do \in ContentJobs /\ Head(work).content = c
  <2>1. \E a, b \in ContentJobs : work = <<Do(a, c)>> \/ work = <<Do(a, c), Do(b, c)>>
    BY <1>5 DEF Turning, Spoiling, Failing, ContentJobs
  <2>2. PICK a, b \in ContentJobs : work = <<Do(a, c)>> \/ work = <<Do(a, c), Do(b, c)>>
    BY <2>1
  <2>3. Head(work) = Do(a, c)
    BY <2>2
  <2> QED BY <2>3, JobKinds
<1>6. ~AtRest
  BY DEF AtRest
<1> QED BY <1>2, <1>3, <1>4, <1>5, <1>6 DEF Talk, Mode, Serving

\* A user of a content that knows where it is.
LEMMA SettledAt ==
  ASSUME Base', NEW h \in Handles, NEW c \in Ids, handle'[h].content = c,
         Knows(told'[h], content'[c].status)
  PROVE  Settled(h)'
<1>1. c # None /\ handle'[h].state # "new"
  BY IdFacts DEF Base, Fresh
<1> QED BY <1>1 DEF Settled, Status, Knows

\* A broadcast that sets a content's status off.
LEMMA AnnouncementTalks ==
  ASSUME Base, Base', Talk, NEW c \in Ids, NEW msg \in {"READY", "DONE"}, NEW rest \in Seq(Jobs),
         content' \in {Unlocked(content, c, msg), Becomes(content, c, msg)},
         msg = "READY" => content' = Unlocked(content, c, msg),
         ll' = ll, handle' = handle, context' = context, told' = told, ll[c].sent = "ended",
         work' = <<Broadcast(c, msg)>> \o rest, \A g \in Handles : Settled(g),
         \/ msg = "READY" /\ content[c].status = "LOADING" /\ rest \in {<<>>, <<Do("done", c)>>}
         \/ msg = "DONE" /\ content[c].status = "READY" /\ rest = <<>>
  PROVE  Talk'
<1>1. content \in [Ids -> ContentType] /\ msg \in Statuses
  BY DEF Base, Types, Statuses
<1>2. /\ content'[c].users = content[c].users /\ content'[c].status = msg
      /\ \A d \in Ids \ {c} : content'[d] = content[d]
  <2>1. CASE content' = Unlocked(content, c, msg)
    BY <1>1, <2>1, UnlockedFacts
  <2>2. CASE content' = Becomes(content, c, msg)
    BY <1>1, <2>2, BecomesFacts
  <2> QED BY <2>1, <2>2
<1>3. Exists(c)'
  BY <1>2 DEF Exists, Made
<1>4. Fed'
  <2> SUFFICES ASSUME NEW d \in Ids, Made(content'[d].status)
               PROVE  /\ ll'[d].sent \in {"headers", "data", "ended"}
                      /\ ll'[d].sent # "ended" =>
                           /\ ~content'[d].locked
                           /\ \/ content'[d].status = "LOADING"
                              \/ content'[d].status = "ERROR" /\ ll'[d].sent = "data" /\ ll'[d].aborted
    BY DEF Fed, Exists
  <2>1. CASE d = c
    BY <2>1
  <2>2. CASE d # c
    <3>1. content'[d] = content[d] /\ ll'[d] = ll[d]
      BY <1>2, <2>2
    <3> QED BY <3>1 DEF Talk, Fed, Exists
  <2> QED BY <2>1, <2>2
<1>5. OthersSettled(c)'
  <2>1. \A d \in Ids \ {c} : content'[d].status = content[d].status
    BY <1>2
  <2>2. OthersSettled(c)
    BY DEF OthersSettled
  <2> QED BY <2>1, <2>2, OthersKeep
<1>6. \A h \in Handles : handle'[h].content = c => told'[h] = Before(msg)
  <2>1. \A h \in Handles : handle[h].content = c => Knows(told[h], content[c].status)
    BY IdFacts DEF Settled, Status
  <2> QED BY <2>1 DEF Knows, Before
<1>7. Telling(c, msg, rest)'
  BY <1>2 DEF Telling, Do
<1>8. work' = <<Cast(c, msg, FirstUser(c)')>> \o rest
  <2>1. FirstUser(c)' = FirstUser(c)
    BY <1>2 DEF FirstUser
  <2> QED BY <2>1 DEF Broadcast
<1>9. Casting(c)'
  BY <1>5, <1>6, <1>7, <1>8, CastingBegins
<1> QED BY <1>3, <1>4, <1>9, ServingTalks DEF Serving

\* A content that has failed, when all its users have heard of it or never will.
LEMMA FailureTalks ==
  ASSUME Base, Base', Talk, Fed', NEW c \in Ids, work' = <<>>, content'[c].status = "ERROR",
         \A d \in Ids \ {c} : content'[d].status = content[d].status,
         \A l \in Ids : ll'[l].sent = ll[l].sent,
         handle' = handle, context' = context, told' = told,
         OthersSettled(c), \A h \in Handles : handle[h].content = c => Knows(told[h], "ERROR")
  PROVE  Talk'
<1>1. OthersSettled(c)'
  <2>1. \A g \in Handles : context[g] # None => ll'[context[g]].sent = ll[context[g]].sent
    BY DEF Base, Types
  <2> QED BY <2>1, OthersKeep
<1>2. ASSUME NEW h \in Handles PROVE Settled(h)'
  <2>1. CASE handle'[h].content = c
    <3>1. Knows(told'[h], content'[c].status)
      BY <2>1 DEF Knows
    <3> QED BY <2>1, <3>1, SettledAt
  <2>2. CASE handle'[h].content # c
    BY <1>1, <2>2 DEF OthersSettled
  <2> QED BY <2>1, <2>2
<1>3. AtRest'
  BY <1>2 DEF AtRest
<1>4. \A h \in Handles : told'[h] \in Spoken
  BY DEF Talk
<1> QED BY <1>3, <1>4 DEF Talk, Mode, Spoken

\* What a content's first job finds: the others wait for it.
LEMMA ContentJobFacts ==
  ASSUME Base, Talk, work # <<>>, Head(work).do \in ContentJobs
  PROVE  \E c \in Ids :
           /\ Head(work).content = c /\ Exists(c) /\ content[c].ll = c
           /\ \/ work = <<Do(Head(work).do, c)>> /\ Tail(work) = <<>>
              \/ /\ Head(work).do = "ready" /\ work = <<Do("ready", c), Do("done", c)>>
                 /\ Tail(work) = <<Do("done", c)>>
           /\ Head(work).do = "convert" => Turning(c) /\ content[c].status \in {"LOADING", "ERROR"}
           /\ Head(work).do = "ready" => Turning(c) /\ content[c].status = "LOADING"
           /\ Head(work).do = "done" => Turning(c) /\ content[c].status = "READY"
           /\ Head(work).do = "error" =>
                Spoiling(c) /\ content[c].status = "LOADING" /\ ll[c].sent = "ended"
           /\ Head(work).do = "spoil" =>
                Spoiling(c) /\ content[c].status = "LOADING" /\ ll[c].sent = "data"
<1>1. PICK c \in Ids : Head(work).content = c /\ Exists(c) /\ (Turning(c) \/ Spoiling(c))
  <2>1. ~Stuck /\ Head(work).do \notin {"tell", "leave", "refuse", "cast"}
    BY DEF Stuck, ContentJobs
  <2> QED BY <2>1, ModeFacts
<1>2. \A what : Do(what, c).do = what
  BY DEF Do
<1>3. \/ /\ work = <<Do(Head(work).do, c)>> /\ Tail(work) = <<>>
      \/ Head(work).do = "ready" /\ work = <<Do("ready", c), Do("done", c)>> /\ Tail(work) = <<Do("done", c)>>
  <2>1. \/ \E what : work = <<Do(what, c)>>
        \/ work = <<Do("ready", c), Do("done", c)>>
    BY <1>1 DEF Turning, Spoiling, Failing
  <2>2. CASE \E what : work = <<Do(what, c)>>
    <3>1. PICK what : work = <<Do(what, c)>>
      BY <2>2
    <3> DEFINE j == Do(what, c)
    <3>2. j.do = what
      BY <1>2
    <3>3. work = <<j>>
      BY <3>1
    <3> HIDE DEF j
    <3>4. Head(work) = j /\ Tail(work) = <<>>
      BY <3>3, ShortLists
    <3> QED BY <3>2, <3>3, <3>4 DEF j
  <2>3. CASE work = <<Do("ready", c), Do("done", c)>>
    <3> DEFINE a == Do("ready", c)
               b == Do("done", c)
    <3>1. work = <<a, b>> /\ a.do = "ready"
      BY <1>2, <2>3
    <3> HIDE DEF a, b
    <3>2. Head(work) = a /\ Tail(work) = <<b>>
      BY <3>1, ShortLists
    <3> QED BY <3>1, <3>2 DEF a, b
  <2> QED BY <2>1, <2>2, <2>3
<1>4. /\ Head(work).do = "convert" => Turning(c) /\ content[c].status \in {"LOADING", "ERROR"}
      /\ Head(work).do = "ready" => Turning(c) /\ content[c].status = "LOADING"
      /\ Head(work).do = "done" => Turning(c) /\ content[c].status = "READY"
      /\ Head(work).do = "error" => Spoiling(c) /\ content[c].status = "LOADING" /\ ll[c].sent = "ended"
      /\ Head(work).do = "spoil" => Spoiling(c) /\ content[c].status = "LOADING" /\ ll[c].sent = "data"
  BY <1>1, <1>2 DEF Turning, Spoiling, Failing
<1>5. content[c].ll = c
  BY <1>1 DEF Base, Sharing
<1> QED BY <1>1, <1>3, <1>4, <1>5

\* The jobs of a content, but for the broadcasts.
LEMMA ContentJobTalk ==
  ASSUME Base, Base', Talk, DoConvert \/ DoReady \/ DoDone \/ DoError \/ DoSpoil
  PROVE  Talk'
<1>1. /\ work # <<>> /\ handle' = handle /\ context' = context /\ told' = told
      /\ Head(work).do \in ContentJobs /\ Head(work).do \notin {"tell", "cast"}
  BY DEF DoConvert, DoReady, DoDone, DoError, DoSpoil, Now, ContentJobs
<1>2. PICK c \in Ids :
         /\ Head(work).content = c /\ Exists(c) /\ content[c].ll = c
         /\ \/ work = <<Do(Head(work).do, c)>> /\ Tail(work) = <<>>
            \/ /\ Head(work).do = "ready" /\ work = <<Do("ready", c), Do("done", c)>>
               /\ Tail(work) = <<Do("done", c)>>
         /\ Head(work).do = "convert" => Turning(c) /\ content[c].status \in {"LOADING", "ERROR"}
         /\ Head(work).do = "ready" => Turning(c) /\ content[c].status = "LOADING"
         /\ Head(work).do = "done" => Turning(c) /\ content[c].status = "READY"
         /\ Head(work).do = "error" =>
              Spoiling(c) /\ content[c].status = "LOADING" /\ ll[c].sent = "ended"
         /\ Head(work).do = "spoil" =>
              Spoiling(c) /\ content[c].status = "LOADING" /\ ll[c].sent = "data"
  BY <1>1, ContentJobFacts
<1>3. content \in [Ids -> ContentType] /\ ll \in [Ids -> LLType] /\ content[c].ll = c
  BY <1>2 DEF Base, Types
<1>7. Turning(c) => ll[c].sent = "ended" /\ \A h \in Handles : Settled(h)
  BY DEF Turning
<1>8. CASE DoConvert
  <2>1. Head(work).do = "convert" /\ Turning(c) /\ Tail(work) = <<>> /\ ll' = ll
    BY <1>2, <1>8 DEF DoConvert, Now
  <2>2. PICK J : /\ work' = J \o <<>>
                 /\ \/ content' = content /\ J = <<>>
                    \/ /\ content' = Locked(content, c) /\ content[c].status = "LOADING"
                       /\ J \in Success(c) \cup Failure(c) \/ J = <<>>
    BY <1>2, <1>8, <2>1 DEF DoConvert, Then, Locked
  <2>3. work' = J
    <3>1. J \in Seq(Jobs)
      <4>1. <<>> \in Seq(Jobs)
        OBVIOUS
      <4>2. J # <<>> => OfContent(J, c)
        BY <1>3, <2>2, ConversionJobs
      <4> QED BY <4>1, <4>2 DEF OfContent
    <3> QED BY <2>2, <3>1, ConcatEmptySeq
  <2>4. /\ \A d \in Ids : /\ content'[d].users = content[d].users
                          /\ content'[d].status = content[d].status
        /\ \A d \in Ids \ {c} : content'[d] = content[d]
    BY <1>3, <2>2, LockedFacts
  <2>5. Fed'
    <3> SUFFICES ASSUME NEW d \in Ids, Made(content'[d].status)
                 PROVE  /\ ll'[d].sent \in {"headers", "data", "ended"}
                        /\ ll'[d].sent # "ended" =>
                             /\ ~content'[d].locked
                             /\ \/ content'[d].status = "LOADING"
                                \/ content'[d].status = "ERROR" /\ ll'[d].sent = "data" /\ ll'[d].aborted
      BY DEF Fed, Exists
    <3>1. CASE d = c
      BY <1>7, <2>1, <3>1
    <3>2. CASE d # c
      <4>1. content'[d] = content[d] /\ ll'[d] = ll[d]
        BY <2>1, <2>4, <3>2
      <4> QED BY <4>1 DEF Talk, Fed, Exists
    <3> QED BY <3>1, <3>2
  <2>6. \A g \in Handles : Settled(g)'
    <3>1. \A g \in Handles : Settled(g) => Settled(g)'
      BY <1>1, <2>1, <2>4, OthersKeep
    <3> QED BY <1>7, <2>1, <3>1
  <2>7. CASE J = <<>>
    <3>1. AtRest'
      BY <2>3, <2>6, <2>7 DEF AtRest
    <3>2. \A h \in Handles : told'[h] \in Spoken
      BY <1>1 DEF Talk
    <3> QED BY <2>5, <3>1, <3>2 DEF Talk, Mode, Spoken
  <2>8. CASE J # <<>>
    <3>1. work' \in Success(c) \cup Failure(c) /\ content'[c].status = "LOADING"
      BY <2>2, <2>3, <2>4, <2>8
    <3> QED BY <1>1, <1>7, <2>1, <2>4, <2>5, <2>6, <3>1, ConversionTalks
  <2> QED BY <2>7, <2>8
<1>9. CASE DoReady
  <2>1. Head(work).do = "ready" /\ Turning(c) /\ content[c].status = "LOADING" /\ ll' = ll
    BY <1>2, <1>9 DEF DoReady, Now
  <2>2. content' = Unlocked(content, c, "READY") /\ work' = <<Broadcast(c, "READY")>> \o Tail(work)
    BY <1>2, <1>9 DEF DoReady, Then, Unlocked
  <2>3. Tail(work) \in {<<>>, <<Do("done", c)>>} /\ Tail(work) \in Seq(Jobs)
    <3>1. <<>> \in Seq(Jobs)
      OBVIOUS
    <3>2. Do("done", c) \in Jobs
      BY JobTypes DEF ContentJobs
    <3>3. <<Do("done", c)>> \in Seq(Jobs)
      BY <3>2
    <3> QED BY <1>2, <3>1, <3>3
  <2>4. PICK rest \in Seq(Jobs) : rest = Tail(work)
    BY <2>3
  <2> QED BY <1>1, <1>7, <2>1, <2>2, <2>3, <2>4, AnnouncementTalks
<1>10. CASE DoDone
  <2>1. /\ Head(work).do = "done" /\ Turning(c) /\ content[c].status = "READY" /\ ll' = ll
        /\ Tail(work) = <<>>
    BY <1>2, <1>10 DEF DoDone, Now
  <2>2. content' = Becomes(content, c, "DONE") /\ work' = <<Broadcast(c, "DONE")>> \o Tail(work)
    BY <1>2, <1>10 DEF DoDone, Then, Becomes
  <2>3. PICK rest \in Seq(Jobs) : rest = <<>>
    <3>1. <<>> \in Seq(Jobs)
      OBVIOUS
    <3> QED BY <3>1
  <2> QED BY <1>1, <1>7, <2>1, <2>2, <2>3, AnnouncementTalks
<1>11. CASE DoError
  <2>1. /\ Head(work).do = "error" /\ Spoiling(c) /\ ll[c].sent = "ended" /\ ll' = ll
        /\ content' = Unlocked(content, c, "ERROR") /\ work' = <<>>
    BY <1>2, <1>11, ShortLists DEF DoError, Now, Then, Unlocked
  <2>2. /\ content'[c].status = "ERROR" /\ \A d \in Ids \ {c} : content'[d] = content[d]
    BY <1>3, <2>1, UnlockedFacts DEF Statuses
  <2>3. Fed'
    <3> SUFFICES ASSUME NEW d \in Ids, Made(content'[d].status)
                 PROVE  /\ ll'[d].sent \in {"headers", "data", "ended"}
                        /\ ll'[d].sent # "ended" =>
                             /\ ~content'[d].locked
                             /\ \/ content'[d].status = "LOADING"
                                \/ content'[d].status = "ERROR" /\ ll'[d].sent = "data" /\ ll'[d].aborted
      BY DEF Fed, Exists
    <3>1. CASE d = c
      BY <2>1, <3>1
    <3>2. CASE d # c
      <4>1. content'[d] = content[d] /\ ll'[d] = ll[d]
        BY <2>1, <2>2, <3>2
      <4> QED BY <4>1 DEF Talk, Fed, Exists
    <3> QED BY <3>1, <3>2
  <2>4. OthersSettled(c) /\ \A h \in Handles : handle[h].content = c => Knows(told[h], "ERROR")
    BY <2>1 DEF Spoiling
  <2> QED BY <1>1, <2>1, <2>2, <2>3, <2>4, FailureTalks
<1>12. CASE DoSpoil
  <2>1. /\ Head(work).do = "spoil" /\ Spoiling(c) /\ ll[c].sent = "data" /\ ll' = LLAborted(ll, c)
        /\ content' = Becomes(content, c, "ERROR") /\ work' = <<>>
    BY <1>2, <1>3, <1>12, ShortLists DEF DoSpoil, Now, Then, Becomes
  <2>2. /\ content'[c].status = "ERROR" /\ content'[c].locked = content[c].locked
        /\ \A d \in Ids \ {c} : content'[d] = content[d]
    BY <1>3, <2>1, BecomesFacts DEF Statuses
  <2>3. /\ ll'[c].aborted /\ \A l \in Ids : ll'[l].sent = ll[l].sent
        /\ \A l \in Ids \ {c} : ll'[l] = ll[l]
    BY <1>3, <2>1, LLAbortedFacts
  <2>4. Fed'
    <3> SUFFICES ASSUME NEW d \in Ids, Made(content'[d].status)
                 PROVE  /\ ll'[d].sent \in {"headers", "data", "ended"}
                        /\ ll'[d].sent # "ended" =>
                             /\ ~content'[d].locked
                             /\ \/ content'[d].status = "LOADING"
                                \/ content'[d].status = "ERROR" /\ ll'[d].sent = "data" /\ ll'[d].aborted
      BY DEF Fed, Exists
    <3>1. CASE d = c
      <4>1. ~content[c].locked
        BY <1>2, <2>1 DEF Talk, Fed
      <4> QED BY <2>1, <2>2, <2>3, <3>1, <4>1
    <3>2. CASE d # c
      <4>1. content'[d] = content[d] /\ ll'[d] = ll[d]
        BY <2>2, <2>3, <3>2
      <4> QED BY <4>1 DEF Talk, Fed, Exists
    <3> QED BY <3>1, <3>2
  <2>5. OthersSettled(c) /\ \A h \in Handles : handle[h].content = c => Knows(told[h], "ERROR")
    BY <2>1 DEF Spoiling
  <2> QED BY <1>1, <2>1, <2>2, <2>3, <2>4, <2>5, FailureTalks
<1> QED BY <1>8, <1>9, <1>10, <1>11, <1>12

-----------------------------------------------------------------------------
\* What destroying contents without users leaves alone.
LEMMA DestroyedKeeps ==
  ASSUME Types, Sharing, Fed, NEW D, NEW ls, Dropped(D, ls),
         \A l \in Ids : ls[l].sent = ll[l].sent /\ ls[l].aborted = ll[l].aborted
  PROVE  /\ \A l \in Ids : ll'[l].sent = ll[l].sent
         /\ \A h \in Handles : handle[h].content # None =>
               content'[handle[h].content].status = content[handle[h].content].status
         /\ Fed'
<1>1. /\ D \subseteq Ids /\ (\A c \in D : Users(c) = <<>> /\ ls[c].state = "held")
      /\ ls \in [Ids -> LLType] /\ Destroyed(D, ls)
      /\ \A c \in Ids : Exists(c)' <=> Exists(c) /\ c \notin D
  BY DestroyedFacts DEF Dropped
<1>2. \A c \in Ids : c \notin D => content'[c] = content[c]
  BY <1>1 DEF Destroyed
<1>3. \A l \in Ids : ll'[l].sent = ls[l].sent /\ ll'[l].aborted = ls[l].aborted
  <2>1. \A l \in Ids : (\E c \in D : content[c].ll = l) => l \in D
    BY <1>1, IdFacts DEF Sharing
  <2>2. \A l \in D : /\ LLReleased(ls, l)[l].sent = ls[l].sent
                     /\ LLReleased(ls, l)[l].aborted = ls[l].aborted
    BY <1>1, LLReleasedFacts
  <2>3. \A l \in Ids : ll'[l] = IF \E c \in D : content[c].ll = l THEN LLReleased(ls, l)[l] ELSE ls[l]
    BY <1>1 DEF Destroyed
  <2> QED BY <2>1, <2>2, <2>3
<1>4. ASSUME NEW h \in Handles, handle[h].content # None
      PROVE  handle[h].content \in Ids /\ handle[h].content \notin D
  <2>1. handle[h].content \in Ids
    BY <1>4 DEF Types, HandleType
  <2>2. h \in ToSet(Users(handle[h].content))
    BY <2>1 DEF Sharing
  <2> QED BY <1>1, <2>1, <2>2, SmallLists
<1>5. Fed'
  <2>1. \A c \in Ids : Exists(c)' =>
           /\ Exists(c) /\ content'[c].status = content[c].status
           /\ content'[c].locked = content[c].locked
           /\ ll'[c].sent = ll[c].sent /\ (ll[c].aborted => ll'[c].aborted)
    BY <1>1, <1>2, <1>3
  <2> QED BY <2>1, FedStays
<1> QED BY <1>2, <1>3, <1>4, <1>5

\* hlcache_clean.
LEMMA CleanTalk ==
  ASSUME Base, Talk, Clean
  PROVE  Talk'
<1> DEFINE D == {c \in ToSet(list) : Unused(c)}
<1>1. /\ Types /\ Sharing /\ Owned /\ work = <<>> /\ Destroyed(D, ll) /\ work' = <<>>
      /\ handle' = handle /\ context' = context /\ told' = told
  BY DEF Base, Clean, Idle
<1>2. D \subseteq ToSet(list) /\ \A c \in D : Users(c) = <<>>
  BY DEF Unused, Users
<1> HIDE DEF D
<1>3. Dropped(D, ll)
  <2>1. \A c \in D : c \in Ids /\ Exists(c)
    <3>1. ToSet(list) \subseteq Ids
      BY <1>1, MembersOf DEF Types
    <3> QED BY <1>1, <1>2, <3>1 DEF Sharing
  <2> QED BY <1>1, <1>2, <2>1 DEF Dropped, Types, Owned
<1>4. /\ Fed' /\ \A l \in Ids : ll'[l].sent = ll[l].sent
      /\ \A h \in Handles : handle[h].content # None =>
            content'[handle[h].content].status = content[handle[h].content].status
  BY <1>1, <1>3, DestroyedKeeps DEF Talk
<1>5. \A g \in Handles : ~Leaving(g) /\ (context[g] # None => context[g] \in Ids)
  BY <1>1, NothingLeft DEF Types
<1>6. ASSUME NEW g \in Handles, Settled(g) PROVE Settled(g)'
  BY <1>1, <1>4, <1>5, <1>6, SettledStays
<1> QED BY <1>1, <1>4, <1>6, AtRestStays, RestTalks

\* hlcache_finalise.
LEMMA FinaliseTalk ==
  ASSUME Base, Talk, Finalise
  PROVE  Talk'
<1> DEFINE D == {c \in ToSet(list) : content[c].users = <<>>}
           contexts == {h \in Handles : context[h] # None}
           H == {l \in Ids : \E h \in contexts : context[h] = l}
           ls == [l \in Ids |-> IF \E h \in contexts : context[h] = l
                                THEN LLReleased(ll, l)[l] ELSE ll[l]]
<1>1. /\ Types /\ Sharing /\ Owned /\ Fresh /\ work = <<>> /\ Destroyed(D, ls) /\ work' = <<>>
      /\ context' = [h \in Handles |-> None]
      /\ handle' = [h \in Handles |->
            IF h \in contexts THEN [handle[h] EXCEPT !.state = "gone"] ELSE handle[h]]
      /\ told' = told
  BY DEF Base, Finalise, Idle
<1>2. D \subseteq ToSet(list) /\ \A c \in D : Users(c) = <<>>
  BY DEF Users
<1>3. D \subseteq Ids /\ \A c \in D : Exists(c)
  <2>1. ToSet(list) \subseteq Ids
    BY <1>1, MembersOf DEF Types
  <2> QED BY <1>1, <1>2, <2>1 DEF Sharing
<1>4. \A g \in Handles : ~Leaving(g)
  BY <1>1, NothingLeft
<1>5. \A l \in H : l \in Ids /\ ll[l].state = "held" /\ ~Exists(l)
  <2>1. ASSUME NEW h \in Handles, context[h] # None
        PROVE  ll[context[h]].state = "held" /\ ~Exists(context[h])
    BY <1>1, <1>4, <2>1, ContextHolds
  <2> QED BY <2>1
<1>6. ll \in [Ids -> LLType]
  BY <1>1 DEF Types
<1>7. ls = [l \in Ids |-> IF l \in H THEN LLReleased(ll, l)[l] ELSE ll[l]]
  OBVIOUS
<1> HIDE DEF D, H, ls
<1>8. \A l \in H : /\ LLReleased(ll, l)[l] \in LLType
                   /\ LLReleased(ll, l)[l].sent = ll[l].sent
                   /\ LLReleased(ll, l)[l].aborted = ll[l].aborted
  BY <1>5, <1>6, LLReleasedFacts
<1>9. /\ ls \in [Ids -> LLType]
      /\ \A l \in Ids : ls[l].sent = ll[l].sent /\ ls[l].aborted = ll[l].aborted
      /\ \A l \in Ids : l \notin H => ls[l] = ll[l]
  BY <1>6, <1>7, <1>8
<1>10. Dropped(D, ls)
  <2>1. \A c \in D : ls[c].state = "held"
    BY <1>1, <1>3, <1>5, <1>9 DEF Owned
  <2> QED BY <1>1, <1>2, <1>9, <2>1 DEF Dropped
<1>11. /\ Fed'
       /\ \A h \in Handles : handle[h].content # None =>
             content'[handle[h].content].status = content[handle[h].content].status
  BY <1>1, <1>9, <1>10, DestroyedKeeps DEF Talk
<1>12. \A g \in Handles : /\ handle'[g].state \in {handle[g].state, "gone"}
                          /\ handle'[g].content = handle[g].content /\ context'[g] = None
  <2>1. handle \in [Handles -> HandleType]
    BY <1>1 DEF Types
  <2>2. \A g \in Handles : LET r == [handle[g] EXCEPT !.state = "gone"]
           IN r.content = handle[g].content /\ r.state = "gone"
    BY <2>1 DEF HandleType
  <2> HIDE DEF contexts
  <2> QED BY <1>1, <2>1, <2>2
<1>13. ASSUME NEW g \in Handles, Settled(g) PROVE Settled(g)'
  BY <1>1, <1>4, <1>11, <1>12, <1>13, SettledStays
<1> QED BY <1>1, <1>11, <1>13, AtRestStays, RestTalks

-----------------------------------------------------------------------------
\* Only the handle that a context is being taken for is leaving it.
LEMMA OthersStay ==
  ASSUME Base, NEW h \in Handles, Joining(h) \/ Dismissing(h), NEW g \in Handles \ {h}
  PROVE  ~Leaving(g)
<1> SUFFICES ASSUME Leaving(g) PROVE FALSE
  OBVIOUS
<1>1. PICK i \in 1 .. Len(work) : work[i] = Leave(g)
  BY DEF Leaving
<1>2. work[i].do = "leave" /\ work[i].handle = g
  BY <1>1, JobKinds
<1>3. CASE Joining(h)
  <2>1. PICK n \in 1 .. 3, r \in 0 .. 3 :
           /\ Len(work) = r + 1 /\ work[r + 1] = Leave(h)
           /\ \A k \in 1 .. r : work[k] = Tell(h, Order[n - r + k])
    BY <1>3 DEF Joining
  <2>2. CASE i = r + 1
    BY <1>2, <2>1, <2>2, JobKinds
  <2>3. CASE i # r + 1
    <3>1. i \in 1 .. r
      BY <2>1, <2>3
    <3>2. work[i] = Tell(h, Order[n - r + i])
      BY <2>1, <3>1
    <3> QED BY <1>2, <3>2, JobKinds
  <2> QED BY <2>2, <2>3
<1>4. CASE Dismissing(h)
  <2> DEFINE a == Leave(h)
             b == Refuse(h)
  <2>1. /\ a.handle = h /\ b.handle = h /\ \A msg : Tell(h, msg).handle = h
    BY JobKinds
  <2>2. \/ work = <<a>> \/ work = <<b>>
        \/ \E msg : work = <<Tell(h, msg), a>> \/ work = <<Tell(h, msg), b>> \/ work = <<Tell(h, msg)>>
    BY <1>4 DEF Dismissing
  <2> HIDE DEF a, b
  <2>3. CASE work = <<a>> \/ work = <<b>>
    BY <1>2, <2>1, <2>3
  <2>4. CASE \E msg : work = <<Tell(h, msg), a>> \/ work = <<Tell(h, msg), b>> \/ work = <<Tell(h, msg)>>
    <3>1. PICK msg : work = <<Tell(h, msg), a>> \/ work = <<Tell(h, msg), b>> \/ work = <<Tell(h, msg)>>
      BY <2>4
    <3> DEFINE t == Tell(h, msg)
    <3>2. t.handle = h
      BY <2>1
    <3>3. work = <<t, a>> \/ work = <<t, b>> \/ work = <<t>>
      BY <3>1
    <3> HIDE DEF t
    <3> QED BY <1>2, <2>1, <3>2, <3>3
  <2> QED BY <2>2, <2>3, <2>4
<1> QED BY <1>3, <1>4

\* The end of a migration: all is said.
LEMMA EndTalks ==
  ASSUME Base, Base', Talk, NEW h \in Handles, context[h] # None,
         \A g \in Handles \ {h} : Settled(g),
         handle' = handle, content' = content, told' = told, work' = <<>>,
         context' = [context EXCEPT ![h] = None],
         \A l \in Ids : ll'[l].sent = ll[l].sent /\ (ll[l].aborted => ll'[l].aborted),
         handle[h].content # None => Knows(told[h], Status(h))
  PROVE  Talk'
<1>1. context \in [Handles -> Ids \cup {None}] /\ handle \in [Handles -> HandleType]
  BY DEF Base, Types
<1>2. ASSUME NEW g \in Handles \ {h} PROVE Settled(g)'
  <2>1. context'[g] = context[g] /\ (context[g] # None => context[g] \in Ids)
    BY <1>1
  <2> QED BY <2>1, SettledStays
<1>3. Settled(h)'
  <2>1. context'[h] = None
    BY <1>1
  <2>2. handle[h].state # "new"
    BY DEF Base, Fresh
  <2> QED BY <2>1, <2>2 DEF Settled, Status, Knows
<1>4. Fed'
  <2>1. \A c \in Ids : Exists(c)' => Exists(c)
    BY DEF Exists
  <2> QED BY <2>1, FedStays DEF Talk
<1>5. AtRest'
  BY <1>2, <1>3 DEF AtRest
<1>6. \A g \in Handles : told'[g] \in Spoken
  BY DEF Talk
<1> QED BY <1>4, <1>5, <1>6 DEF Talk, Mode, Spoken

\* The end of hlcache_migrate_ctx, well or not.
LEMMA LastTalk ==
  ASSUME Base, Base', Talk, DoLeave \/ DoRefuse
  PROVE  Talk'
<1>1. /\ work # <<>> /\ Head(work).do \in {"leave", "refuse"} /\ work' = <<>> \o Tail(work)
      /\ handle' = handle /\ content' = content /\ told' = told
      /\ context' = [context EXCEPT ![Head(work).handle] = None]
  BY DEF DoLeave, DoRefuse, Now, Then
<1>2. /\ work' = <<>> /\ context[Head(work).handle] # None
      /\ \A g \in Handles : Leaving(g) <=> Head(work) = Leave(g)
  BY <1>1, LastJob
<1>3. PICK h \in Handles : /\ Head(work).handle = h /\ (Joining(h) \/ Dismissing(h))
                           /\ \A g \in Handles \ {h} : Settled(g)
  <2>1. ~Stuck
    BY <1>1 DEF Stuck
  <2> QED BY <1>1, <2>1, ModeFacts DEF ContentJobs
<1>4. handle[h].content # None => Knows(told[h], Status(h))
  <2> SUFFICES ASSUME handle[h].content # None PROVE Knows(told[h], Status(h))
    OBVIOUS
  <2>1. Joining(h)
    BY <1>3 DEF Dismissing
  <2>2. PICK n \in 1 .. 3, r \in 0 .. 3 :
           /\ r <= n /\ Status(h) = Order[n] /\ told[h] = Heard(n - r)
           /\ \A i \in 1 .. r : work[i] = Tell(h, Order[n - r + i])
    BY <2>1 DEF Joining
  <2>3. r = 0
    <3>1. r # 0 => 1 \in 1 .. r
      OBVIOUS
    <3>2. r # 0 => work[1] = Tell(h, Order[n - r + 1])
      BY <2>2, <3>1
    <3>3. Head(work) = work[1]
      BY <1>1, FirstJob DEF Base
    <3> QED BY <1>1, <3>2, <3>3, JobKinds
  <2>4. n - r = n
    BY <2>3
  <2>5. told[h] = Heard(n) /\ Status(h) = Order[n]
    BY <2>2, <2>4
  <2> QED BY <2>5 DEF Knows, Order
<1>5. \A l \in Ids : ll'[l].sent = ll[l].sent /\ (ll[l].aborted => ll'[l].aborted)
  <2>1. CASE DoLeave
    BY <2>1 DEF DoLeave
  <2>2. CASE DoRefuse
    <3>1. Head(work).do = "refuse" /\ ll' = LLReleased(LLAborted(ll, context[h]), context[h])
      BY <1>3, <2>2 DEF DoRefuse, Now
    <3>2. ~Leaving(h)
      BY <1>2, <3>1, JobKinds
    <3> QED BY <1>2, <1>3, <3>1, <3>2, GivenUpFacts
  <2> QED BY <2>1, <2>2
<1>6. context[h] # None /\ context' = [context EXCEPT ![h] = None]
  BY <1>1, <1>2, <1>3
<1> QED BY <1>1, <1>2, <1>3, <1>4, <1>5, <1>6, EndTalks

\* The callback of a handle releases handles that its client has.
Releases(h, msg) ==
  \E R \in SUBSET Handles :
     /\ \A g, k \in R : g = k
     /\ \A g \in R : msg \in ReleaseOn /\ (Whose = "any" \/ g = h)
     /\ \A c \in Ids : Users(c)' = Without(Users(c), R)
     /\ \A g \in Handles \ R : handle'[g] = handle[g]
     /\ \A g \in R : handle'[g].state = "gone" /\ handle'[g].content = None

\* What a callback leaves of what the clients know.
LEMMA CalledKeeps ==
  ASSUME Base, NEW h \in Handles, NEW msg, Called(h, msg)
  PROVE  /\ told'[h] = Append(told[h], msg)
         /\ \A g \in Handles \ {h} : told'[g] = told[g]
         /\ \A g \in Handles \ {h} : Settled(g) /\ ~Leaving(g) => Settled(g)'
         /\ Fed => Fed'
         /\ \A c \in Ids : content'[c].status = content[c].status
         /\ \A l \in Ids : ll'[l].sent = ll[l].sent
         /\ \A g \in Handles : context'[g] \in {None, context[g]}
         /\ Releases(h, msg)
<1>1. PICK R \in Reactions(h, msg) : Released(R)
  BY DEF Called
<1>2. /\ R \in SUBSET Handles /\ (\A g, k \in R : g = k)
      /\ \A g \in R : msg \in ReleaseOn /\ (Whose = "any" \/ g = h)
  BY <1>1, ReactionFacts
<1>3. told' = [told EXCEPT ![h] = Append(told[h], msg)] /\ told \in [Handles -> Seq(Messages)]
  BY DEF Called, Base, Types
<1>4. /\ \A c \in Ids : /\ content'[c].status = content[c].status
                        /\ content'[c].users = Without(content[c].users, R)
      /\ \A l \in Ids : ll'[l].sent = ll[l].sent
      /\ \A g \in Handles : context'[g] \in {None, context[g]}
      /\ \A g \in Handles : g \notin R => handle'[g] = handle[g]
      /\ \A g \in R : handle'[g].state = "gone" /\ handle'[g].content = None
      /\ Fed => Fed'
  BY <1>1, <1>2, ReleasedKeeps
<1>5. told'[h] = Append(told[h], msg) /\ \A g \in Handles \ {h} : told'[g] = told[g]
  BY <1>3
<1>6. ASSUME NEW g \in Handles \ {h}, Settled(g), ~Leaving(g) PROVE Settled(g)'
  <2>1. handle[g].content \in Ids \cup {None} /\ context[g] \in Ids \cup {None}
    BY DEF Base, Types, HandleType
  <2>2. /\ handle'[g].state \in {handle[g].state, "gone"}
        /\ handle'[g].content \in {None, handle[g].content}
    BY <1>4
  <2>3. /\ handle'[g].content # None =>
             content'[handle[g].content].status = content[handle[g].content].status
        /\ context'[g] # None => ll'[context[g]].sent = ll[context[g]].sent
    BY <1>4, <2>1, <2>2
  <2> QED BY <1>4, <1>5, <1>6, <2>2, <2>3, SettledStays
<1>7. \A c \in Ids : Users(c)' = Without(Users(c), R)
  BY <1>4 DEF Users
<1>8. \A g \in Handles \ R : handle'[g] = handle[g]
  BY <1>4
<1>9. Releases(h, msg)
  BY <1>2, <1>4, <1>7, <1>8 DEF Releases
<1> QED BY <1>4, <1>5, <1>6, <1>9

\* A message of the catching up.
LEMMA JoiningTells ==
  ASSUME Base, Talk, NEW h \in Handles, Joining(h), \A g \in Handles \ {h} : Settled(g),
         Now("tell"), Called(h, Head(work).msg), work' = <<>> \o Tail(work)
  PROVE  Talk'
<1>1. PICK n \in 1 .. 3, r \in 0 .. 3 :
         /\ r <= n /\ Status(h) = Order[n] /\ told[h] = Heard(n - r)
         /\ Len(work) = r + 1 /\ work[r + 1] = Leave(h)
         /\ \A i \in 1 .. r : work[i] = Tell(h, Order[n - r + i])
  BY DEF Joining
<1>2. work \in Seq(Jobs) /\ work # <<>> /\ Head(work) = work[1] /\ Head(work).do = "tell"
  BY FirstJob DEF Base, Now
<1>3. r # 0
  BY <1>1, <1>2, JobKinds
<1> DEFINE q == r - 1
           k == n - r + 1
<1>4. /\ q \in 0 .. 2 /\ q < n /\ k \in 1 .. 3 /\ n - q = k /\ k - 1 = n - r /\ r = q + 1
      /\ q # 0 => k \in {1, 2}
  BY <1>1, <1>3
<1>5. Head(work) = Tell(h, Order[k]) /\ Head(work).msg = Order[k]
  <2>1. 1 \in 1 .. r
    BY <1>3
  <2> QED BY <1>1, <1>2, <2>1, JobKinds
<1>6. /\ Len(work') = q + 1 /\ work'[q + 1] = Leave(h)
      /\ \A i \in 1 .. q : work'[i] = Tell(h, Order[n - q + i])
  <2> DEFINE J == <<>>
  <2>1. J \in Seq(Jobs) /\ work' = J \o Tail(work) /\ Len(J) = 0
    OBVIOUS
  <2> HIDE DEF J, q, k
  <2>2. /\ Len(work') = Len(J) + (Len(work) - 1)
        /\ \A i \in 2 .. Len(work) : work'[i + Len(J) - 1] = work[i]
    BY <1>2, <2>1, RestOfWork
  <2>3. Len(work') = q + 1 /\ \A i \in 2 .. q + 2 : work'[i - 1] = work[i]
    <3>1. Len(work) = q + 2 /\ q \in Nat
      BY <1>1, <1>4
    <3>2. \A i \in 2 .. Len(work) : i + Len(J) - 1 = i - 1
      BY <2>1
    <3> QED BY <2>1, <2>2, <3>1, <3>2
  <2>4. work'[q + 1] = Leave(h)
    <3>1. PICK i \in 2 .. q + 2 : i - 1 = q + 1 /\ i = r + 1
      BY <1>4
    <3>2. work'[i - 1] = work[i]
      BY <2>3
    <3> QED BY <1>1, <3>1, <3>2
  <2>5. ASSUME NEW i \in 1 .. q PROVE work'[i] = Tell(h, Order[n - q + i])
    <3>1. /\ i + 1 \in 2 .. q + 2 /\ i + 1 - 1 = i /\ i + 1 \in 1 .. r
          /\ n - r + (i + 1) = n - q + i
      BY <1>4
    <3>2. work'[i + 1 - 1] = work[i + 1] /\ work[i + 1] = Tell(h, Order[n - r + (i + 1)])
      BY <1>1, <2>3, <3>1
    <3> QED BY <3>1, <3>2
  <2> QED BY <2>3, <2>4, <2>5
<1>7. told'[h] = Heard(n - q)
  <2>1. told'[h] = Append(told[h], Order[k])
    BY <1>5, CalledKeeps
  <2>2. Append(Heard(k - 1), Order[k]) = Heard(k)
    BY <1>4, HeardFacts
  <2> HIDE DEF k, q
  <2> QED BY <1>1, <1>4, <2>1, <2>2
<1>8. /\ \A g \in Handles \ {h} : Settled(g)'
      /\ Fed' /\ \A c \in Ids : content'[c].status = content[c].status
  BY OthersStay, CalledKeeps DEF Talk
<1>9. \A g \in Handles : told'[g] \in Spoken
  <2>1. Heard(k) \in Spoken /\ \A g \in Handles \ {h} : told'[g] = told[g]
    BY <1>4, HeardFacts, CalledKeeps
  <2> HIDE DEF k, q
  <2> QED BY <1>4, <1>7, <2>1 DEF Talk
<1>10. PICK R \in SUBSET Handles :
          /\ \A g \in R : Head(work).msg \in ReleaseOn
          /\ \A g \in Handles \ R : handle'[g] = handle[g]
          /\ \A g \in R : handle'[g].state = "gone" /\ handle'[g].content = None
  <2>1. Releases(h, Head(work).msg)
    BY CalledKeeps
  <2> HIDE DEF k, q
  <2> QED BY <2>1 DEF Releases
<1> HIDE DEF q, k
<1>11. CASE h \notin R
  <2>1. handle'[h] = handle[h] /\ handle[h].content # None /\ handle[h].state = "live"
    BY <1>10, <1>11 DEF Joining, Live
  <2>2. content'[handle'[h].content].status = Order[n]
    <3>1. handle[h].content \in Ids
      BY <2>1 DEF Base, Types, HandleType
    <3> QED BY <1>1, <1>8, <2>1, <3>1 DEF Status
  <2>3. q \in 0 .. 3 /\ q <= n
    BY <1>4
  <2>4. Joining(h)'
    BY <1>6, <1>7, <2>1, <2>2, <2>3 DEF Joining, Live, Status, Heard, Order, Leave, Tell
  <2> QED BY <1>8, <1>9, <2>4 DEF Talk, Mode, Spoken
<1>12. CASE h \in R /\ q = 0
  <2> DEFINE e == Leave(h)
  <2>1. work' = <<e>>
    <3>1. work' \in Seq(Jobs)
      <4>1. Tail(work) \in Seq(Jobs)
        BY <1>2, HeadTailProperties
      <4> QED BY <4>1, ConcatEmptySeq
    <3>2. Len(work') = 1 /\ work'[1] = e
      <4>1. q + 1 = 1
        BY <1>12
      <4> QED BY <1>6, <4>1
    <3>3. e \in Jobs
      BY JobTypes
    <3> HIDE DEF e
    <3>4. <<e>> \in Seq(Jobs) /\ Len(<<e>>) = 1 /\ <<e>>[1] = e
      BY <3>3
    <3>5. \A i \in 1 .. Len(work') : work'[i] = <<e>>[i]
      BY <3>2, <3>4
    <3> QED BY <3>1, <3>2, <3>4, <3>5, SeqEqual
  <2>2. handle'[h].content = None
    BY <1>10, <1>12
  <2>3. Dismissing(h)'
    BY <2>1, <2>2 DEF Dismissing, Leave
  <2> QED BY <1>8, <1>9, <2>3 DEF Talk, Mode, Spoken
<1>13. CASE h \in R /\ q # 0
  <2>1. ~Careful
    <3>1. Order[k] \in {"LOADING", "READY"}
      BY <1>4, <1>13 DEF Order
    <3>2. Order[k] \in ReleaseOn
      BY <1>5, <1>10, <1>13
    <3> QED BY <3>1, <3>2 DEF Careful
  <2>2. work' # <<>> /\ Head(work') = Tell(h, Order[n - q + 1])
    <3>1. work' \in Seq(Jobs)
      <4>1. Tail(work) \in Seq(Jobs)
        BY <1>2, HeadTailProperties
      <4> QED BY <4>1, ConcatEmptySeq
    <3>2. Len(work') \in Nat \ {0} /\ 1 \in 1 .. q
      BY <1>4, <1>6, <1>13
    <3>3. work' # <<>>
      BY <3>2, EmptySeq
    <3>4. Head(work') = work'[1]
      BY <3>1, <3>3, HeadTailProperties
    <3> QED BY <1>6, <3>2, <3>3, <3>4
  <2>3. Head(work').do = "tell" /\ Head(work').handle = h /\ handle'[h].state = "gone"
    BY <1>10, <1>13, <2>2, JobKinds
  <2>4. Stuck'
    BY <2>1, <2>2, <2>3 DEF Stuck, Live, Careful
  <2> QED BY <1>8, <1>9, <2>4 DEF Talk, Mode, Spoken
<1> QED BY <1>11, <1>12, <1>13

\* The message to a handle that gets no content.
LEMMA DismissingTells ==
  ASSUME Base, Talk, NEW h \in Handles, Dismissing(h), \A g \in Handles \ {h} : Settled(g),
         Now("tell"), Called(h, Head(work).msg), work' = <<>> \o Tail(work)
  PROVE  Talk'
<1> DEFINE a == Leave(h)
           b == Refuse(h)
<1>1. a.do = "leave" /\ b.do = "refuse" /\ \A msg : Tell(h, msg).do = "tell" /\ Tell(h, msg).msg = msg
  BY JobKinds
<1>2. work # <<>> /\ Head(work).do = "tell"
  BY DEF Now
<1>3. /\ \A g \in Handles \ {h} : Settled(g)'
      /\ \A g \in Handles \ {h} : told'[g] = told[g]
      /\ told'[h] = Append(told[h], Head(work).msg)
      /\ Fed' /\ \A l \in Ids : ll'[l].sent = ll[l].sent
      /\ context'[h] \in {None, context[h]}
  BY OthersStay, CalledKeeps DEF Talk
<1>4. handle'[h].content = None /\ handle'[h].state \in {handle[h].state, "gone"}
  <2>1. PICK R \in SUBSET Handles :
           /\ \A g \in Handles \ R : handle'[g] = handle[g]
           /\ \A g \in R : handle'[g].state = "gone" /\ handle'[g].content = None
    <3>1. Releases(h, Head(work).msg)
      BY CalledKeeps
    <3> QED BY <3>1 DEF Releases
  <2> QED BY <2>1 DEF Dismissing
<1>5. /\ handle[h].state = "live" /\ told[h] = <<>>
      /\ \E msg \in {"ERROR", "DOWNLOAD"} :
            \/ work = <<Tell(h, msg), a>> \/ work = <<Tell(h, msg), b>>
            \/ work = <<Tell(h, msg)>> /\ ll[context[h]].sent = "ended"
  <2>1. work \notin {<<a>>, <<b>>}
    <3> HIDE DEF a, b
    <3>1. Head(<<a>>) = a /\ Head(<<b>>) = b
      BY ShortLists
    <3> QED BY <1>1, <1>2, <3>1
  <2> QED BY <2>1 DEF Dismissing
<1>6. PICK msg \in {"ERROR", "DOWNLOAD"} :
            \/ work = <<Tell(h, msg), a>> \/ work = <<Tell(h, msg), b>>
            \/ work = <<Tell(h, msg)>> /\ ll[context[h]].sent = "ended"
  BY <1>5
<1> DEFINE t == Tell(h, msg)
<1>7. /\ \/ work = <<t, a>> \/ work = <<t, b>>
         \/ work = <<t>> /\ ll[context[h]].sent = "ended"
      /\ t.msg = msg
  BY <1>1, <1>6
<1> HIDE DEF t
<1>8. /\ Head(work) = t
      /\ \/ work' = <<a>> \/ work' = <<b>>
         \/ work' = <<>> /\ ll[context[h]].sent = "ended"
  <2> HIDE DEF a, b
  <2>1. CASE work = <<t, a>> \/ work = <<t, b>>
    <3>1. PICK e \in {a, b} : work = <<t, e>>
      BY <2>1
    <3>2. Head(<<t, e>>) = t /\ Tail(<<t, e>>) = <<e>> /\ <<>> \o <<e>> = <<e>>
      BY ShortLists
    <3> QED BY <3>1, <3>2
  <2>2. CASE work = <<t>> /\ ll[context[h]].sent = "ended"
    <3>1. Head(<<t>>) = t /\ Tail(<<t>>) = <<>> /\ <<>> \o <<>> = <<>>
      BY ShortLists
    <3> QED BY <2>2, <3>1
  <2> QED BY <1>7, <2>1, <2>2
<1>9. told'[h] = <<msg>>
  BY <1>3, <1>5, <1>7, <1>8, HeardFacts
<1>10. \A g \in Handles : told'[g] \in Spoken
  <2>1. <<msg>> \in Spoken
    BY HeardFacts
  <2> QED BY <1>3, <1>9, <2>1 DEF Talk
<1>11. CASE work' = <<a>> \/ work' = <<b>>
  <2>1. Dismissing(h)'
    BY <1>4, <1>11 DEF Dismissing, Leave, Refuse
  <2> QED BY <1>3, <1>10, <2>1 DEF Talk, Mode, Spoken
<1>12. CASE work' = <<>> /\ ll[context[h]].sent = "ended"
  <2>1. context[h] # None => context[h] \in Ids
    BY DEF Base, Types
  <2>2. context'[h] # None => ll'[context'[h]].sent = "ended"
    BY <1>3, <1>12, <2>1
  <2>3. Settled(h)'
    BY <1>4, <1>5, <2>2 DEF Settled
  <2>4. AtRest'
    BY <1>3, <1>12, <2>3 DEF AtRest
  <2> QED BY <1>3, <1>10, <2>4 DEF Talk, Mode, Spoken
<1> QED BY <1>8, <1>11, <1>12

\* A message to one handle.
LEMMA TellTalk == ASSUME Base, Talk, DoTell PROVE Talk'
<1>1. Now("tell") /\ Live(Head(work).handle) /\ work' = <<>> \o Tail(work)
      /\ Called(Head(work).handle, Head(work).msg)
  BY DEF DoTell, Then
<1>2. work # <<>> /\ Head(work).do = "tell" /\ ~Stuck
  BY <1>1 DEF Now, Stuck
<1>3. PICK h \in Handles : /\ Head(work).handle = h /\ (Joining(h) \/ Dismissing(h))
                           /\ \A g \in Handles \ {h} : Settled(g)
  BY <1>2, ModeFacts DEF ContentJobs
<1>4. Called(h, Head(work).msg)
  BY <1>1, <1>3
<1> QED BY <1>1, <1>3, <1>4, JoiningTells, DismissingTells

-----------------------------------------------------------------------------
\* What a broadcast is about to do.
LEMMA CastingNow ==
  ASSUME Types, NEW c \in Ids, Casting(c)
  PROVE  /\ OthersSettled(c) /\ \A g \in Handles : ~Leaving(g)
         /\ \E msg \in {"READY", "DONE", "ERROR"}, u \in Handles \cup {None}, rest \in Seq(Jobs) :
               /\ Head(work) = Cast(c, msg, u) /\ Head(work).msg = msg /\ Head(work).next = u
               /\ Tail(work) = rest /\ Telling(c, msg, rest)
               /\ Halfway(Users(c), u, told, Before(msg), After(msg))
<1>1. PICK msg \in {"READY", "DONE", "ERROR"}, u \in Handles \cup {None}, rest \in Seq(Jobs) :
         /\ work = <<Cast(c, msg, u)>> \o rest /\ Telling(c, msg, rest)
         /\ Halfway(Users(c), u, told, Before(msg), After(msg))
  BY DEF Casting
<1> DEFINE x == Cast(c, msg, u)
<1>2. x \in Jobs /\ x.do = "cast" /\ x.msg = msg /\ x.next = u
  BY <1>1, JobTypes, JobKinds DEF Messages
<1>3. work = <<x>> \o rest
  BY <1>1
<1> HIDE DEF x
<1>4. Head(work) = x /\ Tail(work) = rest
  BY <1>2, <1>3, FirstOf
<1>5. ASSUME NEW g \in Handles PROVE ~Leaving(g)
  <2> DEFINE l == Leave(g)
  <2>1. l.do = "leave"
    BY JobKinds
  <2>2. rest = <<>> \/ \E y : rest = <<y>> /\ y.do # "leave"
    <3>1. \A what : Do(what, c).do = what
      BY JobKinds
    <3> QED BY <1>1, <3>1 DEF Telling, Failing
  <2> HIDE DEF l
  <2>3. CASE rest = <<>>
    <3>1. work = <<x>>
      BY <1>3, <2>3, ShortLists
    <3>2. \A i \in 1 .. Len(work) : work[i] # l
      BY <1>2, <2>1, <3>1
    <3> QED BY <3>2 DEF Leaving, l
  <2>4. CASE \E y : rest = <<y>> /\ y.do # "leave"
    <3>1. PICK y : rest = <<y>> /\ y.do # "leave"
      BY <2>4
    <3>2. <<x>> \o <<y>> = <<x, y>>
      BY ShortLists
    <3>3. work = <<x, y>>
      BY <1>3, <3>1, <3>2
    <3>4. \A i \in 1 .. Len(work) : work[i] # l
      BY <1>2, <2>1, <3>1, <3>3
    <3> QED BY <3>4 DEF Leaving, l
  <2> QED BY <2>2, <2>3, <2>4
<1>6. OthersSettled(c)
  BY DEF Casting
<1>7. Head(work) = Cast(c, msg, u)
  BY <1>4 DEF x
<1> QED BY <1>1, <1>2, <1>4, <1>5, <1>6, <1>7

\* The end of a broadcast.
LEMMA CastEnds ==
  ASSUME Base, Base', Talk, NEW c \in Ids, Exists(c), Casting(c), Head(work).next = None,
         work' = <<>> \o Tail(work), handle' = handle, context' = context, content' = content,
         ll' = ll, told' = told
  PROVE  Talk'
<1>1. PICK msg \in {"READY", "DONE", "ERROR"}, u \in Handles \cup {None}, rest \in Seq(Jobs) :
         /\ Head(work).next = u /\ Tail(work) = rest /\ Telling(c, msg, rest)
         /\ Halfway(Users(c), u, told, Before(msg), After(msg))
  BY CastingNow DEF Base
<1>2. work' = rest
  BY <1>1, ConcatEmptySeq
<1>3. \A h \in Handles : handle[h].content = c => told[h] = After(msg)
  <2>1. Users(c) \in Seq(Handles) /\ \A h \in Handles : handle[h].content = c => h \in ToSet(Users(c))
    BY DEF Base, Types, ContentType, Users, Sharing
  <2>2. Halfway(Users(c), None, told, Before(msg), After(msg))
    BY <1>1
  <2>3. \A h \in ToSet(Users(c)) : told[h] = After(msg)
    <3> DEFINE s == Users(c)
               t == told
               old == Before(msg)
               new == After(msg)
    <3>1. s \in Seq(Handles) /\ Halfway(s, None, t, old, new)
      BY <2>1, <2>2
    <3> HIDE DEF s, t, old, new
    <3>2. \A h \in ToSet(s) : t[h] = new
      BY <3>1, HalfwayEnds
    <3> QED BY <3>2 DEF s, t, new
  <2> QED BY <2>1, <2>3
<1>4. OthersSettled(c)
  BY CastingNow DEF Base
<1>5. OthersSettled(c)'
  BY <1>4 DEF OthersSettled, Settled, Status, Knows
<1>6. Fed'
  BY DEF Talk, Fed, Exists
<1>7. content[c].status = msg => \A h \in Handles : Settled(h)'
  <2> SUFFICES ASSUME content[c].status = msg, NEW h \in Handles PROVE Settled(h)'
    OBVIOUS
  <2>1. CASE handle[h].content = c
    <3>1. Knows(After(msg), msg)
      <4>1. After("READY") = Heard(2) /\ After("DONE") = Heard(3) /\ After("ERROR") = Failed
        BY DEF After
      <4>2. msg = "READY" \/ msg = "DONE" \/ msg = "ERROR"
        BY <1>1
      <4>3. Knows(Heard(2), "READY") /\ Knows(Heard(3), "DONE") /\ Knows(Failed, "ERROR")
        BY DEF Knows
      <4> QED BY <4>1, <4>2, <4>3
    <3>2. Knows(told'[h], content'[c].status)
      BY <1>3, <2>1, <3>1 DEF Knows
    <3> QED BY <2>1, <3>2, SettledAt
  <2>2. CASE handle[h].content # c
    BY <1>5, <2>2 DEF OthersSettled
  <2> QED BY <2>1, <2>2
<1>8. CASE rest = <<>>
  <2>1. content[c].status = msg
    BY <1>1, <1>8 DEF Telling, Failing
  <2>2. AtRest'
    BY <1>2, <1>7, <1>8, <2>1 DEF AtRest
  <2> QED BY <1>6, <2>2 DEF Talk, Mode, Spoken
<1>9. CASE msg = "READY" /\ rest = <<Do("done", c)>>
  <2>1. content[c].status = "READY" /\ ll[c].sent = "ended"
    BY <1>1, <1>9 DEF Telling
  <2>2. Turning(c)'
    BY <1>2, <1>7, <1>9, <2>1 DEF Turning, Do
  <2> QED BY <1>6, <2>2, ServingTalks DEF Serving, Exists
<1>10. CASE msg = "ERROR" /\ rest # <<>>
  <2>1. Failing(c, rest)
    BY <1>1, <1>10 DEF Telling
  <2>2. \A h \in Handles : handle[h].content = c => Knows(told[h], "ERROR")
    <3>1. After("ERROR") = Failed
      BY DEF After
    <3>2. Knows(Failed, "ERROR")
      BY DEF Knows
    <3> QED BY <1>3, <1>10, <3>1, <3>2
  <2>3. Spoiling(c)'
    BY <1>2, <1>5, <1>10, <2>1, <2>2 DEF Spoiling, Failing, Do, Knows
  <2> QED BY <1>6, <2>3, ServingTalks DEF Serving, Exists
<1> QED BY <1>1, <1>8, <1>9, <1>10 DEF Telling

\* A step of a broadcast, whatever the user's callback releases.
LEMMA CastGoes ==
  ASSUME Base, Base', Talk, NEW c \in Ids, Exists(c), Casting(c), Head(work).do = "cast",
         Head(work) \in Jobs,
         Head(work).next \in ToSet(Users(c)), Called(Head(work).next, Head(work).msg),
         work' = <<[Head(work) EXCEPT !.next = NextUser(Users(c), Head(work).next)]>> \o Tail(work)
  PROVE  Talk'
<1>1. PICK msg \in {"READY", "DONE", "ERROR"}, u \in Handles \cup {None}, rest \in Seq(Jobs) :
         /\ Head(work) = Cast(c, msg, u) /\ Head(work).msg = msg /\ Head(work).next = u
         /\ Tail(work) = rest /\ Telling(c, msg, rest)
         /\ Halfway(Users(c), u, told, Before(msg), After(msg))
  BY CastingNow DEF Base
<1>2. OthersSettled(c) /\ \A g \in Handles : ~Leaving(g)
  BY CastingNow DEF Base
<1> DEFINE s == Users(c)
           old == Before(msg)
           new == After(msg)
<1>3. /\ s \in Seq(Handles) /\ ToSet(s) \subseteq Handles /\ IsInjective(s)
      /\ \A h \in Handles : h \in ToSet(s) <=> handle[h].content = c
      /\ Halfway(s, u, told, old, new) /\ u \in ToSet(s)
  <2>1. s \in Seq(Handles)
    BY DEF Base, Types, ContentType, Users
  <2> QED BY <1>1, <2>1, MembersOf DEF Base, Sharing
<1>4. Called(u, msg) /\ u \in Handles
  BY <1>1, <1>3
<1>5. /\ told'[u] = Append(told[u], msg) /\ \A g \in Handles \ {u} : told'[g] = told[g]
      /\ \A g \in Handles \ {u} : Settled(g) => Settled(g)'
      /\ Fed' /\ (\A d \in Ids : content'[d].status = content[d].status)
      /\ \A l \in Ids : ll'[l].sent = ll[l].sent
      /\ \A g \in Handles : context'[g] \in {None, context[g]}
  BY <1>2, <1>4, CalledKeeps DEF Talk
<1>6. PICK R \in SUBSET Handles :
         /\ \A g \in R : msg \in ReleaseOn /\ (Whose = "any" \/ g = u)
         /\ Users(c)' = Without(s, R)
         /\ \A g \in Handles \ R : handle'[g] = handle[g]
         /\ \A g \in R : handle'[g].state = "gone" /\ handle'[g].content = None
  <2>1. Releases(u, msg)
    BY <1>4, CalledKeeps
  <2> QED BY <2>1 DEF Releases
<1>7. new = Append(old, msg) /\ old # new /\ new \in Spoken
  <2>1. Before(msg) # After(msg)
    <3>1. Before("READY") = Heard(1) /\ After("READY") = Heard(2)
      BY DEF Before, After
    <3>2. Before("DONE") = Heard(2) /\ After("DONE") = Heard(3)
      BY DEF Before, After
    <3>3. Before("ERROR") = Heard(1) /\ After("ERROR") = Failed
      BY DEF Before, After
    <3>4. Heard(1) # Heard(2) /\ Heard(2) # Heard(3) /\ Heard(1) # Failed
      BY ToldApart
    <3>5. msg = "READY" \/ msg = "DONE" \/ msg = "ERROR"
      OBVIOUS
    <3> QED BY <3>1, <3>2, <3>3, <3>4, <3>5
  <2> QED BY <2>1, HeardFacts
<1>8. PICK v : v = NextUser(s, u)
  OBVIOUS
<1>9. v \in Handles \cup {None}
  BY <1>3, <1>8, UserTypes DEF Base, Types, Users
<1> HIDE DEF s, old, new
<1>10. told[u] = old
  <2>1. PICK t : t = told
    OBVIOUS
  <2>2. Halfway(s, u, t, old, new)
    BY <1>3, <2>1
  <2>3. t[u] = old
    BY <1>3, <1>4, <2>2, HalfwayPlace
  <2> QED BY <2>1, <2>3
<1>11. told'[u] = new
  BY <1>5, <1>7, <1>10
<1>12. Halfway(s, v, told', old, new)
  <2>1. PICK t, w : t = told /\ w = told'
    OBVIOUS
  <2>2. Hears(u, t, w, new) /\ Halfway(s, u, t, old, new)
    BY <1>3, <1>5, <1>11, <2>1 DEF Hears
  <2>3. s \in Seq(Handles) /\ IsInjective(s) /\ u \in Handles
    BY <1>3, <1>4
  <2>4. Halfway(s, NextUser(s, u), w, old, new)
    BY <2>2, <2>3, HalfwayNext
  <2> QED BY <1>8, <2>1, <2>4
<1>13. work' = <<Cast(c, msg, v)>> \o rest
  <2> DEFINE j == Head(work)
             k == [j EXCEPT !.next = NextUser(Users(c), j.next)]
  <2>1. k = [j EXCEPT !.next = v]
    BY <1>1, <1>8 DEF s
  <2>2. j \in [do : {"cast"}, content : Ids, msg : Messages, next : Handles \cup {None}]
    <3>1. j \in Jobs /\ j.do = "cast"
      OBVIOUS
    <3> HIDE DEF j
    <3> QED BY <3>1 DEF Jobs, ContentJobs
  <2>3. j.content = c /\ j.msg = msg /\ j.do = "cast"
    BY <1>1, JobKinds
  <2>4. work' = <<k>> \o rest
    BY <1>1
  <2> HIDE DEF k, j
  <2>5. k = Cast(c, msg, v)
    BY <2>1, <2>2, <2>3 DEF Cast
  <2> QED BY <2>4, <2>5
<1>14. Cast(c, msg, v) \in Jobs /\ Cast(c, msg, v).do = "cast" /\ Cast(c, msg, v).next = v
       /\ Cast(c, msg, v).content = c
  BY <1>9, JobTypes, JobKinds DEF Messages
<1>15. work' # <<>> /\ Head(work') = Cast(c, msg, v)
  BY <1>13, <1>14, FirstOf
<1>16. \A h \in Handles : told'[h] \in Spoken
  BY <1>5, <1>7, <1>11 DEF Talk
<1>17. OthersSettled(c)'
  <2> SUFFICES ASSUME NEW g \in Handles, handle'[g].content # c PROVE Settled(g)'
    BY DEF OthersSettled
  <2>1. CASE handle[g].content = c
    <3>1. handle'[g].content = None /\ handle'[g].state = "gone"
      BY <1>6, <2>1
    <3>2. context[g] = None
      <4>1. handle[g].content # None
        BY <2>1, IdFacts
      <4> QED BY <1>2, <4>1 DEF Base, Fresh
    <3>3. context'[g] = None
      BY <1>5, <3>2
    <3> QED BY <3>1, <3>3 DEF Settled
  <2>2. CASE handle[g].content # c
    <3>1. g # u
      BY <1>3, <2>2
    <3>2. Settled(g)
      BY <1>2, <2>2 DEF OthersSettled
    <3> QED BY <1>5, <3>1, <3>2
  <2> QED BY <2>1, <2>2
<1>18. Telling(c, msg, rest)'
  BY <1>1, <1>5 DEF Telling, Failing, Do
<1>19. CASE v \notin R
  <2>1. Halfway(Without(s, R), v, told', old, new)
    BY <1>3, <1>9, <1>12, <1>19, HalfwayLeft
  <2>2. Halfway(Users(c)', v, told', Before(msg), After(msg))
    BY <1>6, <2>1 DEF old, new
  <2>3. Casting(c)'
    BY <1>9, <1>13, <1>17, <1>18, <2>2, NewsIsFixed DEF Casting, Halfway, Users, Cast
  <2>4. Exists(c)'
    BY <1>5 DEF Exists
  <2> QED BY <1>5, <1>16, <2>3, <2>4 DEF Talk, Mode, Serving, Spoken
<1>20. CASE v \in R
  <2>1. v \in Handles /\ v # None
    BY <1>6, <1>20, IdFacts
  <2>2. v # u
    <3>1. v \in ToSet(s) /\ told'[v] = old
      <4>1. PICK m \in 1 .. Len(s) + 1 :
              /\ v = IF m = Len(s) + 1 THEN None ELSE s[m]
              /\ \A k \in 1 .. Len(s) : told'[s[k]] = IF k < m THEN new ELSE old
        BY <1>12 DEF Halfway
      <4>2. m \in 1 .. Len(s) /\ v = s[m]
        BY <1>3, <2>1, <4>1
      <4> QED BY <1>3, <4>1, <4>2, MembersOf
    <3> QED BY <1>7, <1>11, <3>1
  <2>3. ~Careful
    BY <1>6, <1>20, <2>2 DEF Careful
  <2>4. v \notin ToSet(content'[c].users)
    <3>1. handle'[v].content # c
      BY <1>6, <1>20, IdFacts
    <3> QED BY <2>1, <3>1 DEF Base, Sharing, Users
  <2>5. Head(work').do = "cast" /\ Head(work').next = v /\ Head(work').content = c
    BY <1>14, <1>15
  <2>6. Stuck'
    BY <1>15, <2>1, <2>3, <2>4, <2>5 DEF Stuck, Careful, Users
  <2> QED BY <1>5, <1>16, <2>6 DEF Talk, Mode, Spoken
<1> QED BY <1>19, <1>20

\* content_broadcast.
LEMMA CastTalk == ASSUME Base, Base', Talk, DoCast PROVE Talk'
<1>1. work # <<>> /\ Head(work).do = "cast" /\ Head(work) \in Jobs
  BY FirstJob DEF Base, DoCast, Now
<1>2. \/ Head(work).next = None
      \/ Head(work).next \in ToSet(Users(Head(work).content))
  BY DEF DoCast, Users
<1>3. ~Stuck
  BY <1>1, <1>2 DEF Stuck
<1>4. PICK c \in Ids : Head(work).content = c /\ Exists(c) /\ Casting(c)
  BY <1>1, <1>3, ModeFacts DEF ContentJobs
<1>5. CASE /\ Head(work).next = None /\ work' = <<>> \o Tail(work)
           /\ handle' = handle /\ context' = context /\ content' = content
           /\ ll' = ll /\ told' = told
  BY <1>4, <1>5, CastEnds
<1>6. CASE /\ Head(work).next \in ToSet(Users(c)) /\ Called(Head(work).next, Head(work).msg)
           /\ work' = <<[Head(work) EXCEPT !.next = NextUser(Users(c), Head(work).next)]>>
                         \o Tail(work)
  BY <1>1, <1>4, <1>6, CastGoes
<1> QED BY <1>4, <1>5, <1>6 DEF DoCast, Then, Users

-----------------------------------------------------------------------------
\* At first nobody has heard anything, and nothing can be heard.
LEMMA InitTalk == Init => Talk
<1> SUFFICES ASSUME Init PROVE Talk
  OBVIOUS
<1>1. /\ \A h \in Handles : /\ handle[h].state = "new" /\ handle[h].content = None
                            /\ context[h] = None /\ told[h] = <<>>
      /\ \A c \in Ids : ~Exists(c)
      /\ work = <<>>
  BY DEF Init, Exists, Made, NoContent
<1>2. AtRest
  BY <1>1 DEF AtRest, Settled
<1>3. <<>> \in Spoken
  BY HeardFacts
<1> QED BY <1>1, <1>2, <1>3 DEF Talk, Mode, Fed

\* Every step keeps what is known of the messages.
LEMMA StepTalk == ASSUME Base, Talk, [Next]_vars PROVE Talk'
<1>1. Base'
  BY StepBase
<1>2. CASE UNCHANGED vars
  <2>1. Fed' /\ (Mode => Mode')
    <3>1. Fed'
      BY <1>2 DEF Talk, Fed, Exists, vars
    <3>2. \A h \in Handles : Settled(h)' <=> Settled(h)
      BY <1>2 DEF vars, Settled, Status, Knows
    <3>3. AtRest => AtRest'
      BY <1>2, <3>2 DEF vars, AtRest
    <3>4. Stuck => Stuck'
      BY <1>2 DEF vars, Stuck, Live, Careful, Users
    <3>5. \A h \in Handles : /\ Joining(h) => Joining(h)'
                             /\ Dismissing(h) => Dismissing(h)'
      BY <1>2 DEF vars, Joining, Dismissing, Live, Status, Heard, Order, Leave, Refuse, Tell
    <3>6. \A c \in Ids : Serving(c) => Serving(c)'
      <4> TAKE c \in Ids
      <4>1. Exists(c)' <=> Exists(c)
        BY <1>2 DEF vars, Exists
      <4>2. Turning(c) => Turning(c)'
        BY <1>2, <3>2 DEF vars, Turning, Do
      <4>3. OthersSettled(c) => OthersSettled(c)'
        BY <1>2, <3>2 DEF vars, OthersSettled
      <4>4. Casting(c) => Casting(c)'
        <5> SUFFICES ASSUME Casting(c) PROVE Casting(c)'
          OBVIOUS
        <5>1. PICK msg \in {"READY", "DONE", "ERROR"}, u \in Handles \cup {None},
                   rest \in Seq(Jobs) :
                 /\ work = <<Cast(c, msg, u)>> \o rest /\ Telling(c, msg, rest)
                 /\ Halfway(Users(c), u, told, Before(msg), After(msg))
          BY DEF Casting
        <5>2. OthersSettled(c)'
          BY <4>3 DEF Casting
        <5>3. Telling(c, msg, rest)'
          BY <1>2, <5>1 DEF vars, Telling, Failing, Do
        <5>4. Halfway(Users(c), u, told, Before(msg), After(msg))'
          BY <1>2, <5>1 DEF vars, Halfway, Users, Before, After, Heard, Failed
        <5>5. (work = <<Cast(c, msg, u)>> \o rest)'
          BY <1>2, <5>1 DEF vars, Cast
        <5>6. Before(msg)' = Before(msg) /\ After(msg)' = After(msg)
          BY NewsIsFixed
        <5> QED BY <5>2, <5>3, <5>4, <5>5, <5>6 DEF Casting, Halfway, Users, Cast
      <4>5. Spoiling(c) => Spoiling(c)'
        BY <1>2, <4>3 DEF vars, Spoiling, Failing, Do, Heard, Failed
      <4> QED BY <4>1, <4>2, <4>4, <4>5 DEF Serving
    <3> QED BY <3>1, <3>2, <3>3, <3>4, <3>5, <3>6 DEF Mode
  <2>2. \A h \in Handles : told'[h] \in Spoken
    BY <1>2 DEF Talk, vars
  <2> QED BY <2>1, <2>2 DEF Talk, Spoken
<1>3. CASE Work
  BY <1>1, <1>3, TellTalk, CastTalk, LastTalk, ContentJobTalk DEF Work
<1>4. CASE \E h \in Handles : Client(h) \/ ContextEvent(h)
  BY <1>1, <1>4, RetrieveTalk, ReleaseTalk, AbortContextTalk, AbortContentTalk, AbortSharedTalk,
     ContextEventTalk DEF Client
<1>5. CASE \E c \in Ids : ContentEvent(c) \/ ConversionEnds(c) \/ PageEnds(c) \/ DownloadEnds(c)
  BY <1>1, <1>5, ContentEventTalk, DownloadEndsTalk
<1>6. CASE Clean \/ Finalise
  BY <1>6, CleanTalk, FinaliseTalk
<1> QED BY <1>2, <1>3, <1>4, <1>5, <1>6 DEF Next

\* The whole invariant: who owns what, and who has heard what.
THEOREM TalkAlways == Spec => [](Base /\ Talk)
<1>1. Init => Base /\ Talk
  BY InitBase, InitTalk
<1>2. Base /\ Talk /\ [Next]_vars => (Base /\ Talk)'
  BY StepBase, StepTalk
<1> QED BY <1>1, <1>2, PTL DEF Spec

\* Whoever joins, leaves, aborts or fails, and whenever: a client hears LOADING,
\* READY and DONE in that order, or up to ERROR, or of a download, and nothing more
\* (content_broadcast, hlcache_migrate_ctx, content__add_user and the catching up of
\* hlcache.c:303).
THEOREM MessagesAlwaysInOrder == Spec => []MessageOrder
<1>1. Talk => MessageOrder
  <2> DEFINE o == <<"LOADING", "READY", "DONE">>
  <2>1. \A n \in 0 .. 3 : Heard(n) = SubSeq(o, 1, n)
    <3>1. ASSUME NEW n \in 0 .. 3
          PROVE  /\ Heard(n) \in Seq(Messages) /\ Len(Heard(n)) = n
                 /\ \A i \in 1 .. n : Heard(n)[i] = o[i]
      <4>1. n = 0 \/ n = 1 \/ n = 2 \/ n = 3
        OBVIOUS
      <4>2. Heard(0) = <<>> /\ Heard(1) = <<"LOADING">> /\ Heard(2) = <<"LOADING", "READY">>
            /\ Heard(3) = <<"LOADING", "READY", "DONE">>
        BY DEF Heard
      <4>3. CASE n = 0
        <5>1. Heard(n) = <<>>
          BY <4>2, <4>3
        <5>2. <<>> \in Seq(Messages) /\ Len(<<>>) = 0
          OBVIOUS
        <5>3. \A i \in 1 .. n : FALSE
          BY <4>3
        <5> HIDE DEF o
        <5>4. Heard(n) \in Seq(Messages) /\ Len(Heard(n)) = n
          BY <4>3, <5>1, <5>2
        <5> QED BY <5>3, <5>4
      <4>4. CASE n = 1
        <5> DEFINE s == <<"LOADING">>
        <5>1. s \in Seq(Messages) /\ Len(s) = 1 /\ s[1] = o[1]
          BY DEF Messages
        <5>2. Heard(n) = s /\ \A i \in 1 .. n : i = 1
          BY <4>2, <4>4
        <5> HIDE DEF s, o
        <5> QED BY <4>4, <5>1, <5>2
      <4>5. CASE n = 2
        <5> DEFINE s == <<"LOADING", "READY">>
        <5>1. s \in Seq(Messages) /\ Len(s) = 2 /\ s[1] = o[1] /\ s[2] = o[2]
          BY DEF Messages
        <5>2. Heard(n) = s /\ \A i \in 1 .. n : i = 1 \/ i = 2
          BY <4>2, <4>5
        <5> HIDE DEF s, o
        <5> QED BY <4>5, <5>1, <5>2
      <4>6. CASE n = 3
        <5>1. o \in Seq(Messages) /\ Len(o) = 3 /\ Heard(n) = o
          BY <4>2, <4>6 DEF Messages
        <5> HIDE DEF o
        <5> QED BY <4>6, <5>1
      <4> QED BY <4>1, <4>3, <4>4, <4>5, <4>6
    <3>2. o \in Seq(Messages) /\ Len(o) = 3
      BY DEF Messages
    <3> HIDE DEF o
    <3>3. ASSUME NEW n \in 0 .. 3
          PROVE  /\ SubSeq(o, 1, n) \in Seq(Messages) /\ Len(SubSeq(o, 1, n)) = n
                 /\ \A i \in 1 .. n : SubSeq(o, 1, n)[i] = o[i]
      <4>1. 1 \in Int /\ n \in Int /\ \A i \in 1 .. n : o[i] \in Messages
        BY <3>2
      <4>2. /\ SubSeq(o, 1, n) \in Seq(Messages)
            /\ Len(SubSeq(o, 1, n)) = IF 1 <= n THEN n - 1 + 1 ELSE 0
            /\ \A i \in 1 .. n - 1 + 1 : SubSeq(o, 1, n)[i] = o[1 + i - 1]
        BY <4>1, SubSeqProperties
      <4>3. /\ (IF 1 <= n THEN n - 1 + 1 ELSE 0) = n /\ n - 1 + 1 = n
            /\ \A i \in 1 .. n : 1 + i - 1 = i
        OBVIOUS
      <4> QED BY <4>2, <4>3
    <3>4. ASSUME NEW n \in 0 .. 3 PROVE Heard(n) = SubSeq(o, 1, n)
      <4> DEFINE s == Heard(n)
                 t == SubSeq(o, 1, n)
      <4>1. /\ s \in Seq(Messages) /\ t \in Seq(Messages) /\ Len(s) = n /\ Len(t) = n
            /\ \A i \in 1 .. n : s[i] = t[i]
        BY <3>1, <3>3
      <4> HIDE DEF s, t
      <4>2. s = t
        BY <4>1, SeqEqual
      <4> QED BY <4>2 DEF s, t
    <3> QED BY <3>4
  <2> HIDE DEF o
  <2>2. Talk => \A h \in Handles :
           \/ \E n \in 0 .. 3 : told[h] = SubSeq(o, 1, n)
           \/ told[h] \in {<<"DOWNLOAD">>, <<"ERROR">>, Failed}
    BY <2>1 DEF Talk, Spoken
  <2> QED BY <2>2 DEF MessageOrder, o, Failed
<1> QED BY <1>1, TalkAlways, PTL

\* What a migration is about to tell is told to a handle that is there, and the next
\* user of a broadcast is still a user, when each client releases none but its own
\* handle and not in the callbacks that say where its content is: what hlcache.c:303
\* and content.c:760 take for granted of their callers.
THEOREM IteratorsAlwaysValid == Careful /\ Spec => []IteratorsValid
<1>1. Base /\ Talk /\ Careful => IteratorsValid
  <2> SUFFICES ASSUME Base, Talk, Careful, work # <<>>
               PROVE  /\ Head(work).do = "tell" => Live(Head(work).handle)
                      /\ Head(work).do = "cast" /\ Head(work).next # None =>
                            Head(work).next \in ToSet(content[Head(work).content].users)
    BY DEF IteratorsValid
  <2>1. ~Stuck
    BY DEF Stuck
  <2>2. ASSUME Head(work).do = "tell" PROVE Live(Head(work).handle)
    <3>1. PICK h \in Handles : Head(work).handle = h /\ (Joining(h) \/ Dismissing(h))
      BY <2>1, <2>2, ModeFacts DEF ContentJobs
    <3>2. Joining(h) => Live(h)
      BY DEF Joining
    <3>3. Dismissing(h) => Live(h)
      <4> DEFINE a == Leave(h)
                 b == Refuse(h)
      <4>1. a.do = "leave" /\ b.do = "refuse"
        BY JobKinds
      <4>2. work \notin {<<a>>, <<b>>}
        <5> HIDE DEF a, b
        <5>1. Head(<<a>>) = a /\ Head(<<b>>) = b
          BY ShortLists
        <5> QED BY <2>2, <4>1, <5>1
      <4> QED BY <4>2 DEF Dismissing, Live
    <3> QED BY <3>1, <3>2, <3>3
  <2>3. ASSUME Head(work).do = "cast", Head(work).next # None
        PROVE  Head(work).next \in ToSet(content[Head(work).content].users)
    <3>1. PICK c \in Ids : Head(work).content = c /\ Casting(c)
      BY <2>1, <2>3, ModeFacts DEF ContentJobs
    <3>2. PICK u, old, new : /\ u \in Handles /\ Head(work).next = u
                                /\ Halfway(Users(c), u, told, old, new)
      BY <2>3, <3>1, CastingNow DEF Base
    <3>3. Users(c) \in Seq(Handles)
      BY DEF Base, Types, ContentType, Users
    <3>4. u # None
      BY <2>3, <3>2
    <3> DEFINE s == Users(c)
    <3>5. \E m \in 1 .. Len(s) + 1 : u = IF m = Len(s) + 1 THEN None ELSE s[m]
      BY <3>2 DEF Halfway
    <3>6. s \in Seq(Handles)
      BY <3>3
    <3> HIDE DEF s
    <3>7. \E m \in 1 .. Len(s) : s[m] = u
      BY <3>4, <3>5, <3>6
    <3>8. u \in ToSet(s)
      BY <3>6, <3>7, MembersOf
    <3> QED BY <3>1, <3>2, <3>8 DEF s, Users
  <2> QED BY <2>2, <2>3
<1>2. SUFFICES ASSUME Careful PROVE Spec => []IteratorsValid
  OBVIOUS
<1>3. Base /\ Talk => IteratorsValid
  BY <1>1, <1>2
<1> QED BY <1>3, TalkAlways, PTL

\* When handlers that fail say so, no user of a content that is done or has failed is left
\* waiting for a message: content.c:64, which says so of a conversion that fails, for every
\* way a load can end and whoever joins, leaves or aborts meanwhile.
THEOREM UsersAlwaysTold == ~Silent /\ Spec => []UsersToldOfEnd
<1>1. ~Silent /\ Base /\ Talk => UsersToldOfEnd
  <2> SUFFICES ASSUME ~Silent, Base, Talk, work = <<>>, NEW c \in Ids, NEW h \in ToSet(Users(c)),
                      content[c].status \in {"DONE", "ERROR"}
               PROVE  Last(told[h]) = content[c].status
    BY DEF UsersToldOfEnd, Users
  <2>1. h \in Handles /\ handle[h].content = c
    <3>1. Users(c) \in Seq(Handles)
      BY DEF Base, Types, ContentType, Users
    <3>2. h \in Handles
      BY <3>1, MembersOf
    <3> QED BY <3>2 DEF Base, Sharing
  <2>2. Settled(h)
    BY <2>1, IdleRests DEF AtRest
  <2>3. Knows(told[h], content[c].status)
    BY <2>1, <2>2, IdFacts DEF Settled, Status
  <2>4. CASE content[c].status = "DONE"
    <3>1. told[h] = Heard(3)
      BY <2>3, <2>4 DEF Knows
    <3>2. Heard(3) = <<"LOADING", "READY", "DONE">>
      BY DEF Heard
    <3>3. Last(<<"LOADING", "READY", "DONE">>) = "DONE"
      BY DEF Last
    <3> QED BY <2>4, <3>1, <3>2, <3>3
  <2>5. CASE content[c].status = "ERROR"
    <3>1. told[h] = Failed
      BY <2>3, <2>5 DEF Knows
    <3>2. Last(Failed) = "ERROR"
      BY DEF Failed, Last
    <3> QED BY <2>5, <3>1, <3>2
  <2> QED BY <2>4, <2>5
<1>2. SUFFICES ASSUME ~Silent PROVE Spec => []UsersToldOfEnd
  OBVIOUS
<1>3. Base /\ Talk => UsersToldOfEnd
  BY <1>1, <1>2
<1> QED BY <1>3, TalkAlways, PTL

-----------------------------------------------------------------------------
\* The assertions: a content is locked only while it loads, and when it is made ready.
Locks ==
  /\ \A c \in Ids : content[c].locked => content[c].status = "LOADING"
  /\ \A i \in 1 .. Len(work) :
        work[i].do = "ready" => i = 1 /\ content[work[i].content].locked

\* Jobs among which no content is made ready.
Unready(w) == \A i \in 1 .. Len(w) : w[i].do # "ready"

LEMMA ShortUnready ==
  ASSUME NEW a, NEW b, a.do # "ready", b.do # "ready"
  PROVE  Unready(<<>>) /\ Unready(<<a>>) /\ Unready(<<a, b>>)
<1>1. Unready(<<>>)
  BY DEF Unready
<1>2. Unready(<<a>>)
  BY DEF Unready
<1>3. Unready(<<a, b>>)
  BY DEF Unready
<1> QED BY <1>1, <1>2, <1>3

\* The jobs of migrations and broadcasts.
LEMMA TellingUnready ==
  /\ \A h, msg : /\ Unready(<<Tell(h, msg)>>)
                 /\ Unready(<<Tell(h, msg), Leave(h)>>) /\ Unready(<<Tell(h, msg), Refuse(h)>>)
  /\ \A c, msg, u : Unready(<<Cast(c, msg, u)>>)
  /\ \A c, msg, u, what : what # "ready" =>
        Unready(<<Do(what, c)>>) /\ Unready(<<Cast(c, msg, u), Do(what, c)>>)
<1>1. /\ \A h, msg : Tell(h, msg).do # "ready"
      /\ \A h : Leave(h).do # "ready" /\ Refuse(h).do # "ready"
      /\ \A c, msg, u : Cast(c, msg, u).do # "ready"
      /\ \A what, c : Do(what, c).do = what
  BY JobKinds
<1>2. ASSUME NEW h, NEW msg
      PROVE  /\ Unready(<<Tell(h, msg)>>)
             /\ Unready(<<Tell(h, msg), Leave(h)>>) /\ Unready(<<Tell(h, msg), Refuse(h)>>)
  BY <1>1, ShortUnready
<1>3. ASSUME NEW c, NEW msg, NEW u, NEW what, what # "ready"
      PROVE  Unready(<<Do(what, c)>>) /\ Unready(<<Cast(c, msg, u), Do(what, c)>>)
  BY <1>1, <1>3, ShortUnready
<1>4. \A c, msg, u : Unready(<<Cast(c, msg, u)>>)
  BY <1>1, ShortUnready
<1> QED BY <1>2, <1>3, <1>4

\* Nothing is locked, and nothing is to be made ready.
LEMMA LocksStay ==
  ASSUME Locks, Unready(work'),
         \A d \in Ids : \/ ~content'[d].locked \/ content'[d].status = "LOADING"
                        \/ /\ content'[d].locked = content[d].locked
                           /\ content'[d].status = content[d].status
  PROVE  Locks'
BY DEF Locks, Unready

\* A job is done, and leaves jobs among which is none that makes a content ready.
LEMMA LocksGoOn ==
  ASSUME Locks, Types, work # <<>>, NEW J \in Seq(Jobs), work' = J \o Tail(work), Unready(J),
         \A d \in Ids : \/ ~content'[d].locked \/ content'[d].status = "LOADING"
                        \/ /\ content'[d].locked = content[d].locked
                           /\ content'[d].status = content[d].status
  PROVE  Locks'
<1>1. /\ Len(work) \in Nat \ {0} /\ Len(J) \in Nat /\ Len(work') = Len(J) + (Len(work) - 1)
      /\ \A i \in 1 .. Len(J) : work'[i] = J[i]
      /\ \A i \in 1 .. Len(work') : i > Len(J) => work'[i] = work[i - Len(J) + 1]
  BY RestOfWork DEF Types
<1>2. ASSUME NEW i \in 1 .. Len(work') PROVE work'[i].do # "ready"
  <2>1. CASE i \in 1 .. Len(J)
    BY <1>1, <2>1 DEF Unready
  <2>2. CASE i > Len(J)
    <3>1. PICK k \in 2 .. Len(work) : k = i - Len(J) + 1
      BY <1>1, <2>2
    <3>2. work'[i] = work[k] /\ k \in 1 .. Len(work) /\ k # 1
      BY <1>1, <2>2, <3>1
    <3> QED BY <3>2 DEF Locks
  <2> QED BY <1>1, <2>1, <2>2
<1>3. Unready(work')
  BY <1>2 DEF Unready
<1> QED BY <1>3, LocksStay

\* What comes of a conversion of a locked content.
LEMMA ConversionLocks ==
  ASSUME Locks, NEW c \in Ids, content'[c].locked, content'[c].status = "LOADING",
         \A d \in Ids \ {c} : content'[d] = content[d],
         work' \in Success(c) \cup Failure(c)
  PROVE  Locks'
<1>1. work' \in {<<Do("ready", c), Do("done", c)>>, <<Do("ready", c)>>,
                 <<Broadcast(c, "ERROR"), Do("error", c)>>, <<Do("error", c)>>}
  BY DEF Success, Failure
<1>2. \A d \in Ids : content'[d].locked => content'[d].status = "LOADING"
  BY DEF Locks
<1>3. CASE work' \in {<<Broadcast(c, "ERROR"), Do("error", c)>>, <<Do("error", c)>>}
  <2>1. Unready(work')
    BY <1>3, TellingUnready DEF Broadcast
  <2> QED BY <1>2, <2>1, LocksStay
<1>4. CASE work' \in {<<Do("ready", c), Do("done", c)>>, <<Do("ready", c)>>}
  <2> DEFINE a == Do("ready", c)
             b == Do("done", c)
  <2>1. a.content = c /\ b.do = "done"
    BY JobKinds
  <2>2. work' = <<a, b>> \/ work' = <<a>>
    BY <1>4
  <2> HIDE DEF a, b
  <2>3. \A i \in 1 .. Len(work') : work'[i].do = "ready" => i = 1 /\ content'[work'[i].content].locked
    BY <2>1, <2>2
  <2> QED BY <1>2, <2>3 DEF Locks
<1> QED BY <1>1, <1>3, <1>4

-----------------------------------------------------------------------------
\* A content whose flag and status are what they were.
SameLock(c) == content'[c].locked = content[c].locked /\ content'[c].status = content[c].status

\* What clients call locks nothing.
LEMMA ClientLocks ==
  ASSUME Base, Talk, Locks, NEW h \in Handles, Client(h)
  PROVE  Locks'
<1>1. Unready(<<>>) /\ \A c \in Ids : Unready(<<Do("done", c)>>)
  <2>1. Unready(<<>>)
    BY DEF Unready
  <2>2. \A c \in Ids : Unready(<<Do("done", c)>>)
    BY TellingUnready
  <2> QED BY <2>1, <2>2
<1>2. CASE \E o \in Objects : Retrieve(h, o)
  <2>1. content' = content /\ work' = <<>>
    BY <1>2 DEF Retrieve, Idle
  <2> QED BY <1>1, <2>1, LocksStay
<1>3. CASE Release(h)
  <2>1. Released({h}) /\ work' = <<>>
    BY <1>3 DEF Release, Idle
  <2>2. {h} \in SUBSET Handles /\ \A g, k \in {h} : g = k
    OBVIOUS
  <2>3. \A c \in Ids : SameLock(c)
    BY <2>1, <2>2, ReleasedKeeps DEF SameLock
  <2> QED BY <1>1, <2>1, <2>3, LocksStay DEF SameLock
<1>4. CASE AbortContext(h)
  <2>1. content' = content /\ work' = <<>>
    BY <1>4 DEF AbortContext, Idle
  <2> QED BY <1>1, <2>1, LocksStay
<1>5. CASE AbortContent(h)
  <2>1. PICK c \in Ids : c = handle[h].content
    <3>1. handle[h].content # None /\ handle[h] \in HandleType
      BY <1>5 DEF AbortContent, Base, Types
    <3> QED BY <3>1 DEF HandleType
  <2>2. content' = ContentAborted(content, c) /\ work' \in {<<>>, <<Do("done", c)>>}
    BY <1>5, <2>1 DEF AbortContent
  <2>3. \A d \in Ids : SameLock(d)
    BY <2>1, <2>2, ContentAbortedFacts DEF SameLock, Base, Types
  <2>4. Unready(work')
    BY <1>1, <2>2
  <2> QED BY <2>3, <2>4, LocksStay DEF SameLock
<1>6. CASE AbortShared(h)
  <2>1. PICK c \in Ids : c = handle[h].content
    <3>1. handle[h].content # None /\ handle[h] \in HandleType
      BY <1>6 DEF AbortShared, Base, Types
    <3> QED BY <3>1 DEF HandleType
  <2>2. PICK n \in Ids : n = <<h, "cloned">>
    BY IdFacts
  <2> DEFINE w == Without(content[c].users, {h})
             u == <<h>>
             clone == [content[c] EXCEPT !.users = u, !.ll = n]
             cr == [content[c] EXCEPT !.users = w]
  <2>3. /\ content' = [content EXCEPT ![n] = clone, ![c].users = Without(@, {h})]
        /\ content[c].status = "LOADING" /\ work' = <<>> /\ content \in [Ids -> ContentType]
    BY <1>6, <2>1, <2>2 DEF AbortShared, Idle, Base, Types
  <2>4. /\ clone.status = "LOADING" /\ clone.locked = content[c].locked
        /\ cr.status = "LOADING" /\ cr.locked = content[c].locked
    <3>1. content[c] \in ContentType /\ content[c].status = "LOADING"
      BY <2>3
    <3> HIDE DEF u, w
    <3> QED BY <3>1 DEF ContentType
  <2>5. \A d \in Ids : d \notin {c, n} => content'[d] = content[d]
    BY <2>3
  <2>6. n # c
    <3>1. ll[n].state = "none"
      BY <1>6, <2>2 DEF AbortShared, Base, Fresh
    <3>2. Exists(c)
      BY <2>3 DEF Exists, Made
    <3> QED BY <3>1, <3>2 DEF Base, Owned
  <2>7. content'[n].status = "LOADING" /\ content'[c].status = "LOADING"
    <3>1. content'[n] = clone /\ content'[c] = cr
      BY <2>3, <2>6
    <3> QED BY <2>4, <3>1
  <2> QED BY <1>1, <2>3, <2>5, <2>7, LocksStay
<1> QED BY <1>2, <1>3, <1>4, <1>5, <1>6 DEF Client

\* Nor does what happens to a context.
LEMMA ContextLocks ==
  ASSUME Base, Talk, Locks, NEW h \in Handles, ContextEvent(h)
  PROVE  Locks'
<1>1. ASSUME NEW sent \in {"open", "headers"}, Listening(h, sent), NEW s \in {"headers", "data"},
             Migrate(h, context[h], s)
      PROVE  Locks'
  <2>1. /\ Types /\ Sharing /\ context[h] \in Ids /\ content \in [Ids -> ContentType]
    BY <1>1, ListeningFacts DEF Types
  <2>2. PICK l \in Ids : l = context[h]
    BY <2>1
  <2>3. ASSUME NEW status \in {"LOADING", "READY", "DONE"},
               work' = CatchUp(h, status) \o <<Leave(h)>>
        PROVE  Unready(work')
    <3> DEFINE J == CatchUp(h, status)
               e == Leave(h)
    <3>1. e.do = "leave" /\ e \in Jobs /\ \A i \in 1 .. 3 : Tell(h, Order[i]).do = "tell"
      BY JobKinds, JobTypes
    <3>2. J \in Seq(Jobs) /\ Len(J) \in 1 .. 3 /\ \A i \in 1 .. Len(J) : J[i].do = "tell"
      <4>1. /\ J \in Seq(Jobs) /\ Len(J) = Reach[status] /\ Reach[status] \in 1 .. 3
            /\ \A i \in 1 .. Reach[status] : J[i] = Tell(h, Order[i])
        BY CatchUpFacts
      <4> HIDE DEF J
      <4>2. PICK n \in 1 .. 3 : n = Reach[status]
        BY <4>1
      <4>3. \A i \in 1 .. n : i \in 1 .. 3 /\ J[i] = Tell(h, Order[i])
        BY <4>1, <4>2
      <4>4. \A i \in 1 .. n : J[i].do = "tell"
        BY <3>1, <4>3
      <4> QED BY <4>1, <4>2, <4>4
    <3>3. work' = J \o <<e>>
      BY <2>3
    <3> HIDE DEF J, e
    <3>4. <<e>> \in Seq(Jobs) /\ Len(<<e>>) = 1 /\ <<e>>[1] = e
      BY <3>1
    <3>5. /\ Len(work') = Len(J) + 1
          /\ \A i \in 1 .. Len(J) + 1 : work'[i] = IF i <= Len(J) THEN J[i] ELSE <<e>>[i - Len(J)]
      BY <3>2, <3>3, <3>4, ConcatProperties
    <3>6. ASSUME NEW i \in 1 .. Len(work') PROVE work'[i].do # "ready"
      <4>1. CASE i <= Len(J)
        BY <3>2, <3>5, <4>1
      <4>2. CASE ~(i <= Len(J))
        <5>1. i - Len(J) = 1
          BY <3>2, <3>5, <4>2
        <5> QED BY <3>1, <3>4, <3>5, <4>2, <5>1
      <4> QED BY <4>1, <4>2
    <3> QED BY <3>6 DEF Unready
  <2>4. CASE Join(h, l, s)
    <3>1. PICK c \in Ids : c = FoundContent(l) /\ content[c].status \in {"LOADING", "READY", "DONE"}
      <4>1. FoundContent(l) # None
        BY <2>4 DEF Join
      <4> QED BY <2>1, <4>1, FoundFacts
    <3> DEFINE u == Prepended(h, content[c].users)
               cr == [content[c] EXCEPT !.users = u]
    <3>2. /\ content' = [content EXCEPT ![c] = cr]
          /\ work' = CatchUp(h, content[c].status) \o <<Leave(h)>>
      BY <2>4, <3>1 DEF Join, Prepended
    <3>3. cr.status = content[c].status /\ cr.locked = content[c].locked
      <4> HIDE DEF u
      <4> QED BY <2>1 DEF ContentType
    <3> HIDE DEF cr
    <3>4. \A d \in Ids : SameLock(d)
      BY <2>1, <3>2, <3>3 DEF SameLock
    <3>5. Unready(work')
      BY <2>3, <3>1, <3>2
    <3> QED BY <3>4, <3>5, LocksStay DEF SameLock
  <2>5. CASE Make(h, l)
    <3> DEFINE u == <<h>>
               o == ll[l].object
               cr == [NoContent EXCEPT !.status = "LOADING", !.users = u, !.object = o, !.ll = l]
    <3>1. /\ content' = [content EXCEPT ![l] = cr]
          /\ work' = CatchUp(h, "LOADING") \o <<Leave(h)>>
      BY <2>5 DEF Make
    <3>2. ~cr.locked
      <4> HIDE DEF u, o
      <4> QED BY DEF NoContent
    <3> HIDE DEF cr
    <3>3. \A d \in Ids : ~content'[d].locked \/ SameLock(d)
      BY <2>1, <3>1, <3>2 DEF SameLock
    <3>4. Unready(work')
      BY <2>3, <3>1
    <3> QED BY <3>3, <3>4, LocksStay DEF SameLock
  <2>6. CASE Download(h, l) \/ Reject(h, l, s)
    <3>1. content' = content /\ work' \in {<<Tell(h, "DOWNLOAD"), Leave(h)>>, <<Tell(h, "ERROR"), Refuse(h)>>}
      BY <2>6 DEF Download, Reject
    <3>2. Unready(work')
      BY <3>1, TellingUnready
    <3> QED BY <3>1, <3>2, LocksStay
  <2> QED BY <1>1, <2>2, <2>4, <2>5, <2>6 DEF Migrate
<1>2. CASE Headers(h)
  <2>1. Listening(h, "open")
    BY <1>2 DEF Headers
  <2>2. CASE Migrate(h, context[h], "headers")
    BY <1>1, <2>1, <2>2
  <2>3. CASE ~Migrate(h, context[h], "headers")
    <3>1. content' = content /\ work' = <<>>
      BY <1>2, <2>1, <2>3 DEF Headers, Listening, Idle
    <3> QED BY <3>1, ShortUnready, LocksStay DEF Unready
  <2> QED BY <2>2, <2>3
<1>3. CASE Settle(h)
  BY <1>1, <1>3 DEF Settle
<1>4. CASE FetchFails(h)
  <2>1. content' = content /\ work' = <<Tell(h, "ERROR")>>
    BY <1>4 DEF FetchFails
  <2>2. Unready(work')
    BY <2>1, TellingUnready
  <2> QED BY <2>1, <2>2, LocksStay
<1> QED BY <1>2, <1>3, <1>4 DEF ContextEvent

\* What the low-level handle of a content brings, and the ends of conversions.
LEMMA ContentLocks ==
  ASSUME Base, Talk, Locks, NEW c \in Ids, ContentEvent(c) \/ ConversionEnds(c) \/ PageEnds(c)
  PROVE  Locks'
<1>1. content \in [Ids -> ContentType]
  BY DEF Base, Types
<1>2. Exists(c) /\ content[c].ll = c
  BY IdFacts DEF Base, Sharing, Exists, Made, ContentEvent, Data, Complete, Fail, Open, ConversionEnds,
         Converting, PageEnds
<1>3. Unready(<<>>)
  BY DEF Unready
<1>4. CASE Data(c)
  <2>1. content' = content /\ work' \in {<<>>, <<Broadcast(c, "ERROR"), Do("spoil", c)>>}
    BY <1>4 DEF Data
  <2>2. Unready(<<Broadcast(c, "ERROR"), Do("spoil", c)>>)
    BY TellingUnready DEF Broadcast
  <2> QED BY <1>3, <2>1, <2>2, LocksStay
<1>5. CASE Complete(c)
  <2>1. content' = content /\ work' = <<Do("convert", c)>>
    BY <1>5 DEF Complete
  <2>2. Unready(<<Do("convert", c)>>)
    BY TellingUnready
  <2> QED BY <2>1, <2>2, LocksStay
<1>6. CASE Fail(c)
  <2>1. content' = Becomes(content, c, "ERROR") /\ ll[c].sent # "ended" /\ work' = <<Broadcast(c, "ERROR")>>
    BY <1>2, <1>6 DEF Fail, Becomes, Open
  <2>2. ~content[c].locked
    BY <1>2, <2>1 DEF Talk, Fed
  <2>3. content'[c].locked = content[c].locked /\ \A d \in Ids \ {c} : content'[d] = content[d]
    <3>1. "ERROR" \in Statuses
      BY DEF Statuses
    <3> QED BY <1>1, <2>1, <3>1, BecomesFacts
  <2>4. Unready(<<Broadcast(c, "ERROR")>>)
    BY TellingUnready DEF Broadcast
  <2> QED BY <2>1, <2>2, <2>3, <2>4, LocksStay
<1>7. CASE ConversionEnds(c)
  <2>1. /\ content' = content /\ work' \in Success(c) \cup Failure(c)
        /\ content[c].status = "LOADING" /\ content[c].locked
    BY <1>7 DEF ConversionEnds, Converting
  <2> QED BY <2>1, ConversionLocks
<1>8. CASE PageEnds(c)
  <2>1. content' = content /\ work' = <<Do("done", c)>>
    BY <1>8 DEF PageEnds
  <2>2. Unready(<<Do("done", c)>>)
    BY TellingUnready
  <2> QED BY <2>1, <2>2, LocksStay
<1> QED BY <1>4, <1>5, <1>6, <1>7, <1>8 DEF ContentEvent

\* Contents that are destroyed are not locked.
LEMMA DestroyedLocks ==
  ASSUME Locks, work' = <<>>, NEW D, NEW ls, Destroyed(D, ls)
  PROVE  Locks'
<1>1. ASSUME NEW c \in Ids PROVE ~content'[c].locked \/ content'[c] = content[c]
  <2>1. content'[c] = [NoContent EXCEPT !.status = "destroyed"] \/ content'[c] = content[c]
    BY DEF Destroyed
  <2> QED BY <2>1 DEF NoContent
<1>2. Unready(<<>>)
  BY DEF Unready
<1> QED BY <1>1, <1>2, LocksStay

\* Housekeeping.
LEMMA HouseLocks ==
  ASSUME Locks, Clean \/ Finalise \/ \E l \in Ids : DownloadEnds(l)
  PROVE  Locks'
<1>1. CASE Clean
  <2>1. work' = <<>> /\ \E D : Destroyed(D, ll)
    BY <1>1 DEF Clean, Idle
  <2> QED BY <2>1, DestroyedLocks
<1>2. CASE Finalise
  <2>1. work' = <<>> /\ \E D, ls : Destroyed(D, ls)
    BY <1>2 DEF Finalise, Idle
  <2> QED BY <2>1, DestroyedLocks
<1>3. CASE \E l \in Ids : DownloadEnds(l)
  <2>1. content' = content /\ work' = <<>>
    BY <1>3 DEF DownloadEnds, Idle
  <2>2. Unready(<<>>)
    BY DEF Unready
  <2> QED BY <2>1, <2>2, LocksStay
<1> QED BY <1>1, <1>2, <1>3

\* The jobs of a content, but for the broadcasts.
LEMMA ContentJobLocks ==
  ASSUME Base, Talk, Locks, DoConvert \/ DoReady \/ DoDone \/ DoError \/ DoSpoil
  PROVE  Locks'
<1>1. /\ work # <<>> /\ Head(work).do \in ContentJobs /\ Types
      /\ content \in [Ids -> ContentType] /\ 1 \in 1 .. Len(work) /\ Head(work) = work[1]
  <2>1. work # <<>> /\ Head(work).do \in ContentJobs
    BY DEF DoConvert, DoReady, DoDone, DoError, DoSpoil, Now, ContentJobs
  <2> QED BY <2>1, FirstJob DEF Base, Types
<1>2. PICK c \in Ids :
         /\ Head(work).content = c /\ Exists(c) /\ content[c].ll = c
         /\ \/ work = <<Do(Head(work).do, c)>> /\ Tail(work) = <<>>
            \/ /\ Head(work).do = "ready" /\ work = <<Do("ready", c), Do("done", c)>>
               /\ Tail(work) = <<Do("done", c)>>
         /\ Head(work).do = "done" => content[c].status = "READY"
         /\ Head(work).do = "spoil" => ll[c].sent = "data"
  BY <1>1, ContentJobFacts
<1>3. Unready(<<>>)
  BY DEF Unready
<1>4. CASE DoConvert
  <2>1. Head(work).do = "convert" /\ Tail(work) = <<>>
    BY <1>2, <1>4 DEF DoConvert, Now
  <2>2. PICK J : /\ work' = J \o <<>>
                 /\ \/ content' = content /\ J = <<>>
                    \/ /\ content' = Locked(content, c) /\ content[c].status = "LOADING"
                       /\ J \in Success(c) \cup Failure(c) \/ J = <<>>
    BY <1>2, <1>4, <2>1 DEF DoConvert, Then, Locked
  <2>3. work' = J
    <3>1. J \in Seq(Jobs)
      <4>1. <<>> \in Seq(Jobs)
        OBVIOUS
      <4>2. J # <<>> => OfContent(J, c)
        BY <1>1, <2>2, ConversionJobs
      <4> QED BY <4>1, <4>2 DEF OfContent
    <3> QED BY <2>2, <3>1, ConcatEmptySeq
  <2>4. CASE content' = content /\ J = <<>>
    BY <1>3, <2>3, <2>4, LocksStay
  <2>5. CASE /\ content' = Locked(content, c) /\ content[c].status = "LOADING"
             /\ J \in Success(c) \cup Failure(c) \/ J = <<>>
    <3>1. /\ content'[c].locked /\ content'[c].status = "LOADING"
          /\ \A d \in Ids \ {c} : content'[d] = content[d]
      BY <1>1, <2>5, LockedFacts
    <3>2. CASE J = <<>>
      BY <1>3, <2>3, <3>1, <3>2, LocksStay
    <3>3. CASE J \in Success(c) \cup Failure(c)
      BY <2>3, <3>1, <3>3, ConversionLocks
    <3> QED BY <2>5, <3>2, <3>3
  <2> QED BY <2>2, <2>4, <2>5
<1>5. CASE DoReady
  <2>1. content' = Unlocked(content, c, "READY") /\ work' = <<Broadcast(c, "READY")>> \o Tail(work)
    BY <1>2, <1>5 DEF DoReady, Then, Unlocked
  <2>2. ~content'[c].locked /\ \A d \in Ids \ {c} : content'[d] = content[d]
    <3>1. "READY" \in Statuses
      BY DEF Statuses
    <3> QED BY <1>1, <2>1, <3>1, UnlockedFacts
  <2> DEFINE j == Broadcast(c, "READY")
             e == Do("done", c)
  <2>3. Unready(<<j>>) /\ Unready(<<j, e>>)
    BY TellingUnready DEF Broadcast
  <2>4. Tail(work) = <<>> \/ Tail(work) = <<e>>
    BY <1>2
  <2>5. work' = <<j>> \o Tail(work)
    BY <2>1
  <2> HIDE DEF j, e
  <2>6. work' = <<j>> \/ work' = <<j, e>>
    BY <2>4, <2>5, ShortLists
  <2> QED BY <2>2, <2>3, <2>6, LocksStay
<1>6. CASE DoDone
  <2>1. /\ content' = Becomes(content, c, "DONE") /\ work' = <<Broadcast(c, "DONE")>> \o Tail(work)
        /\ content[c].status = "READY" /\ Tail(work) = <<>>
    BY <1>2, <1>6 DEF DoDone, Then, Becomes, Now
  <2>2. ~content'[c].locked /\ \A d \in Ids \ {c} : content'[d] = content[d]
    <3>1. "DONE" \in Statuses /\ ~content[c].locked
      BY <2>1 DEF Statuses, Locks
    <3> QED BY <1>1, <2>1, <3>1, BecomesFacts
  <2> DEFINE j == Broadcast(c, "DONE")
  <2>3. Unready(<<j>>)
    BY TellingUnready DEF Broadcast
  <2>4. work' = <<j>> \o <<>>
    BY <2>1
  <2> HIDE DEF j
  <2>5. work' = <<j>>
    BY <2>4, ShortLists
  <2> QED BY <2>2, <2>3, <2>5, LocksStay
<1>7. CASE DoError
  <2>1. content' = Unlocked(content, c, "ERROR") /\ work' = <<>>
    BY <1>2, <1>7, ShortLists DEF DoError, Now, Then, Unlocked
  <2>2. ~content'[c].locked /\ \A d \in Ids \ {c} : content'[d] = content[d]
    <3>1. "ERROR" \in Statuses
      BY DEF Statuses
    <3> QED BY <1>1, <2>1, <3>1, UnlockedFacts
  <2> QED BY <1>3, <2>1, <2>2, LocksStay
<1>8. CASE DoSpoil
  <2>1. content' = Becomes(content, c, "ERROR") /\ work' = <<>> /\ ll[c].sent = "data"
    BY <1>2, <1>8, ShortLists DEF DoSpoil, Now, Then, Becomes
  <2>2. ~content'[c].locked /\ \A d \in Ids \ {c} : content'[d] = content[d]
    <3>1. "ERROR" \in Statuses /\ ~content[c].locked
      BY <1>2, <2>1 DEF Statuses, Talk, Fed
    <3> QED BY <1>1, <2>1, <3>1, BecomesFacts
  <2> QED BY <1>3, <2>1, <2>2, LocksStay
<1> QED BY <1>4, <1>5, <1>6, <1>7, <1>8

\* What is left to execute.
LEMMA WorkLocks ==
  ASSUME Base, Talk, Locks, Work
  PROVE  Locks'
<1>1. /\ Types /\ content \in [Ids -> ContentType] /\ work # <<>>
  BY DEF Base, Types, Work, DoTell, DoCast, DoLeave, DoRefuse, DoConvert, DoReady, DoDone, DoError,
         DoSpoil, Now
<1>2. <<>> \in Seq(Jobs)
  OBVIOUS
<1>3. Unready(<<>>)
  BY DEF Unready
<1>4. ASSUME NEW h \in Handles, NEW msg, Called(h, msg) PROVE \A c \in Ids : SameLock(c)
  <2>1. PICK R \in Reactions(h, msg) : Released(R)
    BY <1>4 DEF Called
  <2>2. R \in SUBSET Handles /\ \A g, k \in R : g = k
    BY <2>1, ReactionFacts
  <2> QED BY <2>1, <2>2, ReleasedKeeps DEF SameLock
<1>5. CASE DoTell
  <2>1. work' = <<>> \o Tail(work) /\ Called(Head(work).handle, Head(work).msg)
        /\ Head(work).do = "tell"
    BY <1>5 DEF DoTell, Then, Now
  <2>2. Head(work).handle \in Handles
    BY <1>1, <2>1, FirstJob, JobFields
  <2>3. \A c \in Ids : SameLock(c)
    BY <1>4, <2>1, <2>2
  <2> QED BY <1>1, <1>2, <1>3, <2>1, <2>3, LocksGoOn DEF SameLock
<1>6. CASE DoCast
  <2> DEFINE j == Head(work)
             u == NextUser(content[j.content].users, j.next)
             k == [j EXCEPT !.next = u]
  <2>1. \/ content' = content /\ work' = <<>> \o Tail(work)
        \/ /\ j.next \in ToSet(content[j.content].users)
           /\ Called(j.next, j.msg) /\ work' = <<k>> \o Tail(work)
    BY <1>6 DEF DoCast, Then
  <2>2. CASE content' = content /\ work' = <<>> \o Tail(work)
    BY <1>1, <1>2, <1>3, <2>2, LocksGoOn
  <2>3. CASE /\ j.next \in ToSet(content[j.content].users)
             /\ Called(j.next, j.msg) /\ work' = <<k>> \o Tail(work)
    <3>1. j = work[1] /\ work[1] \in Jobs /\ j.do = "cast"
      BY <1>1, <1>6, FirstJob DEF DoCast, Now
    <3>2. j \in [do : {"cast"}, content : Ids, msg : Messages, next : Handles \cup {None}]
      BY <3>1 DEF Jobs, ContentJobs
    <3>3. u \in Handles \cup {None} /\ j.next \in Handles
      <4>1. content[j.content].users \in Seq(Handles)
        BY <1>1, <3>2, UserTypes
      <4>2. ToSet(content[j.content].users) \subseteq Handles
        BY <4>1, MembersOf
      <4> QED BY <1>1, <2>3, <3>2, <4>2, UserTypes
    <3>4. \A c \in Ids : SameLock(c)
      BY <1>4, <2>3, <3>3
    <3>5. work' = <<k>> \o Tail(work)
      BY <2>3
    <3> HIDE DEF j, u
    <3>6. k \in Jobs /\ k.do # "ready"
      BY <3>2, <3>3 DEF Jobs
    <3> HIDE DEF k
    <3>7. <<k>> \in Seq(Jobs)
      BY <3>6
    <3>8. Unready(<<k>>)
      BY <3>6, ShortUnready
    <3> QED BY <1>1, <3>4, <3>5, <3>7, <3>8, LocksGoOn DEF SameLock
  <2> QED BY <2>1, <2>2, <2>3
<1>7. CASE DoLeave \/ DoRefuse
  <2>1. content' = content /\ work' = <<>> \o Tail(work)
    BY <1>7 DEF DoLeave, DoRefuse, Then
  <2> QED BY <1>1, <1>2, <1>3, <2>1, LocksGoOn
<1>8. CASE DoConvert \/ DoReady \/ DoDone \/ DoError \/ DoSpoil
  BY <1>8, ContentJobLocks
<1> QED BY <1>5, <1>6, <1>7, <1>8 DEF Work

LEMMA InitLocks == Init => Locks
<1> SUFFICES ASSUME Init PROVE Locks
  OBVIOUS
<1>1. \A c \in Ids : ~content[c].locked
  BY DEF Init, NoContent
<1>2. work = <<>>
  BY DEF Init
<1> QED BY <1>1, <1>2 DEF Locks

\* Every step keeps contents locked only while they load.
LEMMA StepLocks == ASSUME Base, Talk, Locks, [Next]_vars PROVE Locks'
<1>1. CASE UNCHANGED vars
  BY <1>1 DEF Locks, vars
<1>2. CASE Work
  BY <1>2, WorkLocks
<1>3. CASE \E h \in Handles : Client(h) \/ ContextEvent(h)
  BY <1>3, ClientLocks, ContextLocks
<1>4. CASE \E c \in Ids : ContentEvent(c) \/ ConversionEnds(c) \/ PageEnds(c) \/ DownloadEnds(c)
  BY <1>4, ContentLocks, HouseLocks
<1>5. CASE Clean \/ Finalise
  BY <1>5, HouseLocks
<1> QED BY <1>1, <1>2, <1>3, <1>4, <1>5 DEF Next

\* The assertions of content_set_ready, content_convert and content_destroy
\* (content.c:289, 70 and 361) hold in every history of a cache and its clients, with
\* aborts, clones and late failures.
THEOREM AssertionsHold == Spec => []Asserted
<1>1. Base /\ Talk /\ Locks => Asserted
  <2> SUFFICES ASSUME Base, Talk, Locks PROVE Asserted
    OBVIOUS
  <2>1. ASSUME work # <<>>
        PROVE  /\ Head(work).do = "ready" => content[Head(work).content].locked
               /\ Head(work).do = "convert" => content[Head(work).content].status \in {"LOADING", "ERROR"}
    <3>1. Head(work) = work[1] /\ 1 \in 1 .. Len(work)
      BY <2>1, FirstJob DEF Base
    <3>2. Head(work).do = "ready" => content[Head(work).content].locked
      BY <3>1 DEF Locks
    <3>3. ASSUME Head(work).do = "convert"
          PROVE  content[Head(work).content].status \in {"LOADING", "ERROR"}
      <4>1. Head(work).do \in ContentJobs
        BY <3>3 DEF ContentJobs
      <4> QED BY <2>1, <3>3, <4>1, ContentJobFacts
    <3> QED BY <3>2, <3>3
  <2>2. ASSUME NEW c \in ToSet(list), Unused(c) PROVE ~content[c].locked
    <3>1. c \in Ids
      <4>1. ToSet(list) \subseteq Ids
        BY MembersOf DEF Base, Types
      <4> QED BY <4>1
    <3> QED BY <2>2, <3>1 DEF Unused, Locks
  <2> QED BY <2>1, <2>2 DEF Asserted
<1>2. Init => Base /\ Talk /\ Locks
  BY InitBase, InitTalk, InitLocks
<1>3. Base /\ Talk /\ Locks /\ [Next]_vars => (Base /\ Talk /\ Locks)'
  BY StepBase, StepTalk, StepLocks
<1> QED BY <1>1, <1>2, <1>3, PTL DEF Spec

=============================================================================
