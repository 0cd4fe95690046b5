---------------------------- MODULE LLCacheProofs ----------------------------
(***************************************************************************)
(* Theorems about LLCache.                                                 *)
(***************************************************************************)
EXTENDS LLCache, FiniteSetTheorems, TLAPS

-----------------------------------------------------------------------------
\* Induction over the natural numbers, for a set instead of a formula.
LEMMA Counting ==
    ASSUME NEW S \in SUBSET Nat, 0 \in S, \A n \in S : n + 1 \in S
    PROVE  S = Nat
<1>. DEFINE T == Nat \ S
<1>. SUFFICES ASSUME T # {} PROVE FALSE
    OBVIOUS
<1>1. \E x \in T : \A y \in T : ~(<<y, x>> \in OpToRel(<, Nat))
    BY NatLessThanWellFounded, WFMin
<1>2. PICK x \in T : \A y \in T : ~(y < x)
    BY <1>1 DEF OpToRel
<1>3. x \in Nat /\ x # 0 /\ x \notin S
    OBVIOUS
<1>4. x - 1 \in Nat /\ x - 1 < x
    BY <1>3
<1>5. x - 1 \in S
    BY <1>2, <1>4
<1>6. (x - 1) + 1 = x
    BY <1>3
<1>. QED
    BY <1>3, <1>5, <1>6

\* The places of a finite set of numbers are ranked from 1 to its cardinality,
LEMMA Ranked ==
    ASSUME NEW n \in Nat, NEW K \in SUBSET (1 .. n)
    PROVE  \A j \in 1 .. Cardinality(K) : \E i \in K : Rank(K, i) = j
<1>. DEFINE Up(m) == K \cap (1 .. m)
            P == {m \in Nat : \A j \in 1 .. Cardinality(Up(m)) : \E i \in Up(m) : Rank(K, i) = j}
<1>0. IsFiniteSet(1 .. n)
    BY FS_Interval
<1>1. ASSUME NEW m \in Nat PROVE IsFiniteSet(Up(m)) /\ Cardinality(Up(m)) \in Nat
    <2>1. Up(m) \in SUBSET (1 .. n)
        OBVIOUS
    <2>2. IsFiniteSet(Up(m))
        BY <1>0, <2>1, FS_Subset
    <2>. QED
        BY <2>2, FS_CardinalityType
<1>2. 0 \in P
  <2>1. Up(0) = {}
    OBVIOUS
  <2>2. Cardinality(Up(0)) = 0
    BY <2>1, FS_EmptySet
  <2>. QED
    BY <2>2
<1>3. ASSUME NEW m \in P PROVE m + 1 \in P
  <2>1. m \in Nat /\ m + 1 \in Nat
    OBVIOUS
  <2>2. CASE m + 1 \in K
    <3>1. Up(m + 1) = Up(m) \union {m + 1} /\ m + 1 \notin Up(m)
        BY <2>1, <2>2
    <3>2. Cardinality(Up(m + 1)) = Cardinality(Up(m)) + 1
        <4>1. IsFiniteSet(Up(m))
            BY <1>1, <2>1
        <4>. HIDE DEF Up
        <4>2. Cardinality(Up(m) \union {m + 1}) = Cardinality(Up(m)) + 1
            BY <4>1, <3>1, FS_AddElement
        <4>. QED
            BY <4>2, <3>1
    <3>3. Rank(K, m + 1) = Cardinality(Up(m)) + 1
        BY <3>2 DEF Rank
    <3>4. ASSUME NEW j \in 1 .. Cardinality(Up(m + 1))
          PROVE  \E i \in Up(m + 1) : Rank(K, i) = j
        <4>1. j \in 1 .. Cardinality(Up(m)) \/ j = Cardinality(Up(m)) + 1
            <5>. DEFINE c == Cardinality(Up(m))
            <5>1. c \in Nat /\ j \in 1 .. (c + 1)
                BY <1>1, <2>1, <3>2
            <5>. HIDE DEF c
            <5>2. j \in 1 .. c \/ j = c + 1
                BY <5>1
            <5>. QED
                BY <5>2 DEF c
        <4>2. CASE j \in 1 .. Cardinality(Up(m))
            <5>1. PICK i \in Up(m) : Rank(K, i) = j
                BY <4>2
            <5>. QED
                BY <5>1, <3>1
        <4>3. CASE j = Cardinality(Up(m)) + 1
            BY <4>3, <3>1, <3>3
        <4>. QED
            BY <4>1, <4>2, <4>3
    <3>. QED
        BY <2>1, <3>4
  <2>3. CASE m + 1 \notin K
    <3>1. Up(m + 1) = Up(m)
        BY <2>1, <2>3
    <3>. QED
        BY <2>1, <3>1
  <2>. QED
    BY <2>2, <2>3
<1>4. P = Nat
    <2>1. P \in SUBSET Nat
        OBVIOUS
    <2>. HIDE DEF P
    <2>. QED
        BY <1>2, <1>3, <2>1, Counting
<1>5. Up(n) = K
    OBVIOUS
<1>. QED
    BY <1>4, <1>5

\* no two of them alike.
LEMMA RankedOnce ==
    ASSUME NEW n \in Nat, NEW K \in SUBSET (1 .. n)
    PROVE  \A i \in K : /\ Rank(K, i) \in 1 .. Cardinality(K)
                        /\ \A k \in K : Rank(K, i) = Rank(K, k) => i = k
<1>0. IsFiniteSet(1 .. n)
    BY FS_Interval
<1>1. IsFiniteSet(K)
    BY <1>0, FS_Subset
<1>2. ASSUME NEW i \in K PROVE Rank(K, i) \in 1 .. Cardinality(K)
    <2>. DEFINE U == K \cap (1 .. i)
    <2>1. U \subseteq K /\ i \in U
        OBVIOUS
    <2>2. IsFiniteSet(U) /\ Cardinality(U) <= Cardinality(K)
        BY <1>1, <2>1, FS_Subset
    <2>3. Cardinality(U) \in Nat /\ Cardinality(K) \in Nat /\ Cardinality(U) # 0
        BY <1>1, <2>1, <2>2, FS_CardinalityType, FS_EmptySet
    <2>. HIDE DEF U
    <2>4. Rank(K, i) = Cardinality(U)
        BY DEF Rank, U
    <2>. QED
        BY <2>2, <2>3, <2>4
<1>3. ASSUME NEW i \in K, NEW k \in K, i < k PROVE Rank(K, i) # Rank(K, k)
    <2>. DEFINE U == K \cap (1 .. i)
                V == K \cap (1 .. k)
    <2>1. U \subseteq V /\ U # V
        <3>1. k \in V /\ k \notin U
            BY <1>3
        <3>2. U \subseteq V
            BY <1>3
        <3>. QED
            BY <3>1, <3>2
    <2>2. V \subseteq K
        OBVIOUS
    <2>. HIDE DEF U, V
    <2>3. IsFiniteSet(V)
        BY <1>1, <2>2, FS_Subset
    <2>4. Cardinality(U) # Cardinality(V)
        BY <2>1, <2>3, FS_Subset
    <2>. QED
        BY <2>4 DEF Rank, U, V
<1>. QED
  <2>1. ASSUME NEW i \in K, NEW k \in K, Rank(K, i) = Rank(K, k) PROVE i = k
    <3>1. i < k \/ k < i \/ i = k
        OBVIOUS
    <3>. QED
        BY <3>1, <1>3, <2>1
  <2>. QED
    BY <1>2, <2>1

\* What is left of a list when some of its elements are taken out.
LEMMA Remaining ==
    ASSUME NEW T, NEW s \in Seq(T), NEW S
    PROVE  /\ TakenOut(s, S) \in Seq(T)
           /\ Elements(TakenOut(s, S)) = Elements(s) \ S
           /\ OnceIn(s) => OnceIn(TakenOut(s, S))
<1>. DEFINE K == Kept(s, S)
            at(j) == CHOOSE i \in K : Rank(K, i) = j
            t == TakenOut(s, S)
<1>1. Len(s) \in Nat /\ DOMAIN s = 1 .. Len(s)
    OBVIOUS
<1>2. K \in SUBSET (1 .. Len(s)) /\ IsFiniteSet(K) /\ Cardinality(K) \in Nat
    <2>1. K \in SUBSET (1 .. Len(s))
        BY <1>1 DEF Kept
    <2>2. IsFiniteSet(1 .. Len(s))
        BY <1>1, FS_Interval
    <2>3. IsFiniteSet(K)
        BY <2>1, <2>2, FS_Subset
    <2>. QED
        BY <2>1, <2>3, FS_CardinalityType
<1>3. \A i \in K : i \in DOMAIN s /\ s[i] \notin S
    BY DEF Kept
<1>4. t = [j \in 1 .. Cardinality(K) |-> s[at(j)]]
    BY DEF TakenOut
<1>. HIDE DEF K, t
<1>5. \A j \in 1 .. Cardinality(K) : at(j) \in K /\ Rank(K, at(j)) = j
    <2>1. \A j \in 1 .. Cardinality(K) : \E i \in K : Rank(K, i) = j
        BY <1>1, <1>2, Ranked
    <2>. QED
        BY <2>1
<1>6. \A i \in K : Rank(K, i) \in 1 .. Cardinality(K) /\ at(Rank(K, i)) = i
    <2>1. \A i \in K : /\ Rank(K, i) \in 1 .. Cardinality(K)
                       /\ \A k \in K : Rank(K, i) = Rank(K, k) => i = k
        BY <1>1, <1>2, RankedOnce
    <2>. QED
        BY <2>1, <1>5
<1>. HIDE DEF at
<1>7. t \in Seq(T) /\ DOMAIN t = 1 .. Cardinality(K) /\ Len(t) = Cardinality(K)
  <2>. DEFINE n == Cardinality(K)
  <2>1. \A j \in 1 .. n : s[at(j)] \in T
    BY <1>1, <1>3, <1>5
  <2>2. n \in Nat
    BY <1>2
  <2>. HIDE DEF n
  <2>3. t = [j \in 1 .. n |-> s[at(j)]]
    BY <1>4 DEF n
  <2>4. t \in [1 .. n -> T]
    BY <2>1, <2>3
  <2>5. t \in Seq(T) /\ DOMAIN t = 1 .. n /\ Len(t) = n
    BY <2>2, <2>4
  <2>. QED
    BY <2>5 DEF n
<1>8. \A j \in DOMAIN t : t[j] = s[at(j)] /\ at(j) \in K
    BY <1>4, <1>5, <1>7
<1>9. Elements(t) = Elements(s) \ S
    <2>1. ASSUME NEW x \in Elements(t) PROVE x \in Elements(s) \ S
        <3>1. PICK j \in DOMAIN t : x = t[j]
            BY <2>1 DEF Elements
        <3>2. x = s[at(j)] /\ at(j) \in DOMAIN s /\ s[at(j)] \notin S
            BY <3>1, <1>8, <1>3
        <3>. QED
            BY <3>2 DEF Elements
    <2>2. ASSUME NEW x \in Elements(s) \ S PROVE x \in Elements(t)
        <3>1. PICK i \in DOMAIN s : x = s[i]
            BY <2>2 DEF Elements
        <3>2. i \in K
            BY <3>1, <2>2 DEF K, Kept
        <3>3. Rank(K, i) \in DOMAIN t /\ t[Rank(K, i)] = x
            BY <3>1, <3>2, <1>6, <1>7, <1>8
        <3>. QED
            BY <3>3 DEF Elements
    <2>. QED
        BY <2>1, <2>2
<1>10. ASSUME OnceIn(s) PROVE OnceIn(t)
    <2>1. ASSUME NEW j \in DOMAIN t, NEW k \in DOMAIN t, t[j] = t[k] PROVE j = k
        <3>1. at(j) = at(k)
            BY <1>10, <2>1, <1>8, <1>3 DEF OnceIn
        <3>. QED
            BY <3>1, <1>5, <1>7
    <2>. QED
        BY <2>1 DEF OnceIn
<1>. QED
    BY <1>7, <1>9, <1>10 DEF t

\* Cut removes one element and keeps the rest, once each.
LEMMA Cutting ==
    ASSUME NEW T, NEW s \in Seq(T), NEW x
    PROVE  /\ Cut(s, x) \in Seq(T)
           /\ Elements(Cut(s, x)) = Elements(s) \ {x}
           /\ OnceIn(s) => OnceIn(Cut(s, x))
BY Remaining DEF Cut

\* The other operations on lists.
LEMMA Pushing ==
    ASSUME NEW T, NEW s \in Seq(T), NEW x \in T
    PROVE  /\ Push(x, s) \in Seq(T)
           /\ Elements(Push(x, s)) = Elements(s) \union {x}
           /\ OnceIn(s) /\ x \notin Elements(s) => OnceIn(Push(x, s))
<1>. DEFINE p == Push(x, s)
<1>1. p \in Seq(T) /\ Len(p) = Len(s) + 1 /\ Len(s) \in Nat
    BY DEF Push
<1>2. DOMAIN s = 1 .. Len(s) /\ DOMAIN p = 1 .. Len(s) + 1
    BY <1>1
<1>3. p[1] = x /\ \A i \in 1 .. Len(s) : p[i + 1] = s[i]
    BY <1>1 DEF Push
<1>. HIDE DEF p
<1>4. \A i \in DOMAIN p : i = 1 \/ (i - 1 \in DOMAIN s /\ p[i] = s[i - 1])
    BY <1>1, <1>2, <1>3
<1>5. Elements(p) = Elements(s) \union {x}
  <2>1. ASSUME NEW e \in Elements(p) PROVE e \in Elements(s) \union {x}
    <3>1. PICK i \in DOMAIN p : e = p[i]
        BY <2>1 DEF Elements
    <3>. QED
        BY <3>1, <1>3, <1>4 DEF Elements
  <2>2. ASSUME NEW e \in Elements(s) PROVE e \in Elements(p)
    <3>1. PICK i \in DOMAIN s : e = s[i]
        BY <2>2 DEF Elements
    <3>2. i + 1 \in DOMAIN p /\ p[i + 1] = e
        BY <1>1, <1>2, <1>3, <3>1
    <3>. QED
        BY <3>2 DEF Elements
  <2>3. x \in Elements(p)
    <3>1. 1 \in DOMAIN p
        BY <1>1, <1>2
    <3>. QED
        BY <3>1, <1>3 DEF Elements
  <2>. QED
    BY <2>1, <2>2, <2>3
<1>6. ASSUME OnceIn(s), x \notin Elements(s) PROVE OnceIn(p)
  <2>1. \A i \in DOMAIN p : i = 1 \/ p[i] # x
    BY <1>4, <1>6 DEF Elements
  <2>2. ASSUME NEW i \in DOMAIN p, NEW j \in DOMAIN p, p[i] = p[j] PROVE i = j
    <3>1. i \in Nat /\ j \in Nat
        BY <1>1, <1>2
    <3>2. CASE i = 1 \/ j = 1
        BY <1>3, <2>1, <2>2, <3>2
    <3>3. CASE i # 1 /\ j # 1
        <4>1. i - 1 \in DOMAIN s /\ j - 1 \in DOMAIN s /\ s[i - 1] = s[j - 1]
            BY <1>4, <2>2, <3>3
        <4>2. i - 1 = j - 1
            BY <1>6, <4>1 DEF OnceIn
        <4>. QED
            BY <3>1, <4>2
    <3>. QED
        BY <3>2, <3>3
  <2>. QED
    BY <2>2 DEF OnceIn
<1>. QED
    BY <1>1, <1>5, <1>6 DEF p

\* An element that is taken out and put in front.
LEMMA ToFront ==
    ASSUME NEW T, NEW s \in Seq(T), NEW x \in T, OnceIn(s)
    PROVE  /\ Push(x, Cut(s, x)) \in Seq(T) /\ OnceIn(Push(x, Cut(s, x)))
           /\ Elements(Push(x, Cut(s, x))) = Elements(s) \union {x}
<1>. DEFINE t == Cut(s, x)
<1>1. t \in Seq(T) /\ OnceIn(t) /\ Elements(t) = Elements(s) \ {x}
    BY Cutting
<1>. HIDE DEF t
<1>2. x \notin Elements(t)
    BY <1>1
<1>3. /\ Push(x, t) \in Seq(T) /\ OnceIn(Push(x, t))
      /\ Elements(Push(x, t)) = Elements(t) \union {x}
    BY <1>1, <1>2, Pushing
<1>. QED
    BY <1>1, <1>3 DEF t

\* Two lists with nothing in common, one behind the other.
LEMMA Joined ==
    ASSUME NEW T, NEW s \in Seq(T), NEW t \in Seq(T)
    PROVE  /\ s \o t \in Seq(T)
           /\ Elements(s \o t) = Elements(s) \union Elements(t)
           /\ OnceIn(s \o t) <=> /\ OnceIn(s) /\ OnceIn(t)
                                 /\ Elements(s) \cap Elements(t) = {}
<1>. DEFINE p == s \o t
<1>1. p \in Seq(T) /\ Len(p) = Len(s) + Len(t) /\ Len(s) \in Nat /\ Len(t) \in Nat
    OBVIOUS
<1>2. DOMAIN s = 1 .. Len(s) /\ DOMAIN t = 1 .. Len(t) /\ DOMAIN p = 1 .. Len(s) + Len(t)
    BY <1>1
<1>3. /\ \A i \in DOMAIN s : i \in DOMAIN p /\ p[i] = s[i]
      /\ \A i \in DOMAIN t : i + Len(s) \in DOMAIN p /\ p[i + Len(s)] = t[i]
    BY <1>1, <1>2
<1>. HIDE DEF p
<1>4. \A i \in DOMAIN p : i \in DOMAIN s \/ i - Len(s) \in DOMAIN t
    BY <1>1, <1>2
<1>5. \A i \in DOMAIN p : \/ i \in DOMAIN s /\ p[i] = s[i]
                          \/ i - Len(s) \in DOMAIN t /\ p[i] = t[i - Len(s)] /\ i \notin DOMAIN s
    <2>1. ASSUME NEW i \in DOMAIN p, i \notin DOMAIN s PROVE i - Len(s) \in DOMAIN t /\ p[i] = t[i - Len(s)]
        <3>1. i - Len(s) \in DOMAIN t /\ (i - Len(s)) + Len(s) = i
            BY <2>1, <1>1, <1>2
        <3>. QED
            BY <3>1, <1>3
    <2>. QED
        BY <2>1, <1>3
<1>6. Elements(p) = Elements(s) \union Elements(t)
    BY <1>3, <1>5 DEF Elements
<1>7. ASSUME OnceIn(p) PROVE OnceIn(s) /\ OnceIn(t) /\ Elements(s) \cap Elements(t) = {}
    <2>1. OnceIn(s)
        BY <1>7, <1>3 DEF OnceIn
    <2>2. OnceIn(t)
        BY <1>7, <1>1, <1>2, <1>3 DEF OnceIn
    <2>3. ASSUME NEW i \in DOMAIN s, NEW j \in DOMAIN t PROVE s[i] # t[j]
        <3>1. i # j + Len(s)
            BY <1>1, <1>2
        <3>. QED
            BY <3>1, <1>7, <1>3 DEF OnceIn
    <2>. QED
        BY <2>1, <2>2, <2>3 DEF Elements
<1>8. ASSUME OnceIn(s), OnceIn(t), Elements(s) \cap Elements(t) = {} PROVE OnceIn(p)
    <2>1. \A i \in DOMAIN s : s[i] \in Elements(s)
        BY DEF Elements
    <2>2. \A i \in DOMAIN t : t[i] \in Elements(t)
        BY DEF Elements
    <2>3. ASSUME NEW i \in DOMAIN p, NEW j \in DOMAIN p, p[i] = p[j] PROVE i = j
        <3>1. CASE i \in DOMAIN s /\ j \in DOMAIN s
            BY <3>1, <1>8, <2>3, <1>3 DEF OnceIn
        <3>2. CASE i \notin DOMAIN s /\ j \notin DOMAIN s
            <4>1. i - Len(s) = j - Len(s)
                BY <3>2, <1>5, <1>8, <2>3 DEF OnceIn
            <4>. QED
                BY <4>1, <1>1, <1>2
        <3>3. CASE ~(i \in DOMAIN s <=> j \in DOMAIN s)
            BY <3>3, <1>5, <1>8, <2>1, <2>2, <2>3
        <3>. QED
            BY <3>1, <3>2, <3>3
    <2>. QED
        BY <2>3 DEF OnceIn
<1>. QED
    BY <1>1, <1>6, <1>7, <1>8 DEF p

\* A list read backwards has the same elements, once each.
LEMMA Reversed ==
    ASSUME NEW T, NEW s \in Seq(T)
    PROVE  /\ Backwards(s) \in Seq(T)
           /\ Elements(Backwards(s)) = Elements(s)
           /\ OnceIn(s) => OnceIn(Backwards(s))
<1>. DEFINE n == Len(s)
            b == Backwards(s)
<1>1. n \in Nat /\ DOMAIN s = 1 .. n /\ \A i \in 1 .. n : s[i] \in T
    OBVIOUS
<1>. HIDE DEF n
<1>2. b = [i \in 1 .. n |-> s[n + 1 - i]]
    BY <1>1 DEF Backwards, n
<1>. HIDE DEF b
<1>3. \A i \in 1 .. n : n + 1 - i \in 1 .. n /\ n + 1 - (n + 1 - i) = i
    BY <1>1
<1>4. b \in [1 .. n -> T]
    BY <1>1, <1>2, <1>3
<1>5. b \in Seq(T) /\ DOMAIN b = 1 .. n
    BY <1>1, <1>4
<1>6. Elements(b) = Elements(s)
    <2>1. \A i \in 1 .. n : b[i] = s[n + 1 - i] /\ s[i] = b[n + 1 - i]
        BY <1>2, <1>3
    <2>2. \A i \in DOMAIN b : b[i] \in Elements(s)
        BY <1>1, <1>3, <1>5, <2>1 DEF Elements
    <2>3. \A i \in DOMAIN s : s[i] \in Elements(b)
        BY <1>1, <1>3, <1>5, <2>1 DEF Elements
    <2>. QED
        BY <2>2, <2>3 DEF Elements
<1>7. ASSUME OnceIn(s) PROVE OnceIn(b)
    <2>1. ASSUME NEW i \in 1 .. n, NEW j \in 1 .. n, b[i] = b[j] PROVE i = j
        <3>0. /\ n + 1 - i \in DOMAIN s /\ n + 1 - j \in DOMAIN s
              /\ s[n + 1 - i] = s[n + 1 - j]
            BY <1>1, <1>2, <1>3, <2>1
        <3>1. n + 1 - i = n + 1 - j
            BY <1>7, <3>0 DEF OnceIn
        <3>. QED
            BY <3>1, <1>1
    <2>. QED
        BY <2>1, <1>5 DEF OnceIn
<1>. QED
    BY <1>5, <1>6, <1>7 DEF b

\* One element in the place of another.
Swap(s, a, b) == [i \in DOMAIN s |-> IF s[i] = a THEN b ELSE s[i]]

\* A list in which a new element takes the place of an old one.
LEMMA Swapping ==
    ASSUME NEW T, NEW s \in Seq(T), NEW a, NEW b \in T, b \notin Elements(s)
    PROVE  /\ Swap(s, a, b) \in Seq(T)
           /\ Elements(Swap(s, a, b)) \subseteq (Elements(s) \ {a}) \union {b}
           /\ Elements(s) \ {a} \subseteq Elements(Swap(s, a, b))
           /\ a \in Elements(s) => b \in Elements(Swap(s, a, b))
           /\ a \notin Elements(s) => Swap(s, a, b) = s
           /\ OnceIn(s) => OnceIn(Swap(s, a, b))
<1>. DEFINE n == Len(s)
            w == Swap(s, a, b)
<1>1. n \in Nat /\ DOMAIN s = 1 .. n /\ \A i \in 1 .. n : s[i] \in T
    OBVIOUS
<1>. HIDE DEF n
<1>2. w = [i \in 1 .. n |-> IF s[i] = a THEN b ELSE s[i]]
    BY <1>1 DEF Swap
<1>. HIDE DEF w
<1>3. w \in [1 .. n -> T]
    BY <1>1, <1>2
<1>4. w \in Seq(T) /\ DOMAIN w = 1 .. n
    BY <1>1, <1>3
<1>5. \A i \in 1 .. n : w[i] = IF s[i] = a THEN b ELSE s[i]
    BY <1>2
<1>6. \A i \in 1 .. n : s[i] # b
    BY <1>1 DEF Elements
<1>7. /\ Elements(w) \subseteq (Elements(s) \ {a}) \union {b}
      /\ Elements(s) \ {a} \subseteq Elements(w)
      /\ a \in Elements(s) => b \in Elements(w)
    BY <1>1, <1>4, <1>5 DEF Elements
<1>8. a \notin Elements(s) => w = s
    <2>1. s = [i \in 1 .. n |-> s[i]]
        BY <1>1
    <2>2. ASSUME a \notin Elements(s) PROVE \A i \in 1 .. n : s[i] # a
        BY <1>1, <2>2 DEF Elements
    <2>. QED
        BY <1>2, <2>1, <2>2
<1>9. OnceIn(s) => OnceIn(w)
    BY <1>1, <1>4, <1>5, <1>6 DEF OnceIn
<1>. QED
    BY <1>4, <1>7, <1>8, <1>9 DEF w

\* The first element of a list, and the one after an element.
LEMMA Stepping ==
    ASSUME NEW T, NEW s \in Seq(T), None \notin T
    PROVE  /\ s = <<>> <=> Elements(s) = {}
           /\ IF s = <<>> THEN First(s) = None ELSE First(s) \in Elements(s)
           /\ Elements(s) \subseteq T
           /\ OnceIn(s) => \A x \in T : /\ After(s, x) # None => After(s, x) \in Elements(s)
                                        /\ After(s, x) # x
<1>1. Len(s) \in Nat /\ DOMAIN s = 1 .. Len(s) /\ (s = <<>> <=> Len(s) = 0)
    OBVIOUS
<1>2. s = <<>> <=> Elements(s) = {}
  <2>1. s # <<>> => 1 \in DOMAIN s
    BY <1>1
  <2>2. s = <<>> => DOMAIN s = {}
    BY <1>1
  <2>. QED
    BY <2>1, <2>2 DEF Elements
<1>3. IF s = <<>> THEN First(s) = None ELSE First(s) \in Elements(s)
    BY <1>1 DEF First, Elements
<1>4. Elements(s) \subseteq T
    BY <1>1 DEF Elements
<1>5. ASSUME NEW x \in T, OnceIn(s)
      PROVE  /\ After(s, x) # None => After(s, x) \in Elements(s)
             /\ After(s, x) # x
  <2>1. CASE \E i \in DOMAIN s : s[i] = x /\ i < Len(s)
    <3>. DEFINE k == CHOOSE i \in DOMAIN s : s[i] = x
    <3>1. k \in DOMAIN s /\ s[k] = x
        BY <2>1
    <3>. HIDE DEF k
    <3>2. After(s, x) = s[k + 1]
        BY <2>1 DEF After, k
    <3>3. PICK i \in DOMAIN s : s[i] = x /\ i < Len(s)
        BY <2>1
    <3>4. k = i
        BY <3>1, <3>3, <1>5 DEF OnceIn
    <3>5. k + 1 \in DOMAIN s /\ k + 1 # k
        BY <3>4, <3>3, <1>1
    <3>6. After(s, x) # x
        BY <3>1, <3>2, <3>5, <1>5 DEF OnceIn
    <3>7. After(s, x) \in Elements(s)
        BY <3>2, <3>5 DEF Elements
    <3>. QED
        BY <3>6, <3>7
  <2>2. CASE ~\E i \in DOMAIN s : s[i] = x /\ i < Len(s)
    <3>1. After(s, x) = None
        BY <2>2 DEF After
    <3>. QED
        BY <3>1, <1>5
  <2>. QED
    BY <2>1, <2>2
<1>. QED
    BY <1>2, <1>3, <1>4, <1>5

-----------------------------------------------------------------------------
\* The inductive invariant, in parts that each speak of a few variables.

\* Objects: one that is free is blank, each pointer to a candidate is counted, and
\* no chain of redirects is longer than the limit allows.
Pointing(ob, c) == {p \in Objects : ob[p].candidate = c}

ObjectsHold(ob) ==
    /\ ob \in [Objects -> Object]
    /\ \A o \in Objects :
          /\ ob[o].url = None => ob[o] = Blank
          /\ ob[o].candidate # o
          /\ ob[o].candidate_count >= Cardinality(Pointing(ob, o))
          /\ ob[o].redirect_count <= RedirectLimit + 1

\* The lists of objects.
ListsHold(ob, ca, un, re) ==
    /\ ca \in Seq(Objects) /\ un \in Seq(Objects) /\ re \in Seq(Objects)
    /\ OnceIn(ca) /\ OnceIn(un) /\ OnceIn(re)
    /\ Elements(ca) \cap Elements(un) = {}
    /\ Elements(ca) \union Elements(un) = {o \in Objects : ob[o].url # None}
    /\ Elements(re) \subseteq Elements(ca)

\* The lists of users.
UsersHold(ob, us, ur, h) ==
    /\ us \in [Objects -> Seq(Users \union {Husk})]
    /\ ur \in [Users -> User]
    /\ h \subseteq Users
    /\ \A o \in Objects :
          /\ OnceIn(us[o])
          /\ Elements(us[o]) \ {Husk} = {u \in Users : ur[u].object = o}
          /\ us[o] # <<>> => ob[o].url # None
    /\ \A u \in Users : ur[u].object # None <=> u \in h \/ ur[u].queued

\* The loop that runs, and what of it may be seen in the lists: no record is queued
\* and no husk is left but those of the user that is being called.
Loop(r) ==
    /\ r \in Run
    /\ r.in = "idle" => r = Idle
    /\ r.in # "idle" => r.at \in Objects
    /\ r.in = "end" => r.who = None /\ r.ev = "none"
    /\ r.in = "event" => /\ r.ev = "none" <=> r.who = None
                         /\ r.ev # "none" => r.ev = r.what
                         /\ r.what \in {"GOT_CERTS", "ERROR", "PROGRESS", "REDIRECT"}
    /\ r.in = "notify" /\ r.ev # "none" =>
          r.who # None /\ r.ev \in {"GOT_CERTS", "HAD_HEADERS", "HAD_DATA", "DONE"}
    /\ r.who = Husk => r.ev # "none"

RunHolds(ob, us, ur, h, r) ==
    /\ Loop(r)
    /\ r.in \in {"notify", "event"} => ob[r.at].url # None
    /\ r.who # None => r.who \in Elements(us[r.at])
    /\ \A o \in Objects : Husk \in Elements(us[o]) => r.at = o /\ r.who = Husk
    /\ \A u \in Users : ur[u].queued => r.who = u /\ r.ev # "none" /\ u \notin h
    /\ r.in = "event" /\ r.what = "REDIRECT" =>
          /\ ob[r.at].state = COMPLETE /\ ~ob[r.at].life
          /\ ob[r.at].redirect_count <= RedirectLimit

IInv ==
    /\ ObjectsHold(obj)
    /\ ListsHold(obj, cached, uncached, recent)
    /\ UsersHold(obj, users, usr, held)
    /\ RunHolds(obj, users, usr, held, run)
    /\ all_caught_up \in BOOLEAN

\* NULL and the husk are no objects, handles or URLs.
LEMMA Names ==
    /\ None \notin Objects /\ None \notin Users /\ None \notin Urls /\ None # Husk
    /\ None # Nowhere /\ Husk \notin Users /\ None \notin Users \union {Husk}
BY NamesAssumption

\* What the invariant says of the properties that the runs check.
LEMMA InvariantIsEnough ==
    ASSUME IInv
    PROVE  TypeOK /\ ListsAgree /\ IteratorsValid /\ CandidatesCounted
<1>1. TypeOK
    BY DEF IInv, ObjectsHold, ListsHold, UsersHold, RunHolds, Loop, TypeOK
<1>2. ListsAgree
    <2>1. OnceIn(cached \o uncached)
        BY Joined DEF IInv, ListsHold
    <2>. QED
        BY <2>1 DEF IInv, ListsHold, UsersHold, ListsAgree, Allocated
<1>3. IteratorsValid
    BY DEF IInv, RunHolds, IteratorsValid, Allocated
<1>4. CandidatesCounted
    <2>1. SUFFICES ASSUME NEW p \in Objects, obj[p].candidate # None
                   PROVE  /\ Allocated(obj[p].candidate)
                          /\ obj[obj[p].candidate].candidate_count
                                >= Cardinality(Revalidating(obj[p].candidate))
        BY DEF CandidatesCounted
    <2>. DEFINE c == obj[p].candidate
                R == Pointing(obj, c)
    <2>2. obj \in [Objects -> Object] /\ c \in Objects
        BY <2>1 DEF IInv, ObjectsHold, Object
    <2>3. R = Revalidating(c)
        BY DEF Revalidating, Pointing
    <2>4. R \subseteq Objects /\ p \in R
        BY DEF Pointing
    <2>5. IsFiniteSet(R) /\ R # {}
        BY <2>4, FiniteAssumption, FS_Subset
    <2>6. Cardinality(R) \in Nat /\ Cardinality(R) # 0
        BY <2>5, FS_CardinalityType, FS_EmptySet
    <2>7. obj[c].candidate_count >= Cardinality(R) /\ (obj[c].url = None => obj[c] = Blank)
        BY <2>2 DEF IInv, ObjectsHold
    <2>. HIDE DEF c, R
    <2>8. obj[c].url # None
        BY <2>2, <2>6, <2>7 DEF Blank
    <2>. QED
        BY <2>3, <2>7, <2>8 DEF Allocated, c
<1>. QED
    BY <1>1, <1>2, <1>3, <1>4

-----------------------------------------------------------------------------
\* Changes of the objects.

\* The objects that point to one as their candidate can be counted.
LEMMA PointingFinite ==
    ASSUME NEW ob, NEW c
    PROVE  IsFiniteSet(Pointing(ob, c)) /\ Cardinality(Pointing(ob, c)) \in Nat
<1>1. Pointing(ob, c) \in SUBSET Objects
    BY DEF Pointing
<1>. QED
    BY <1>1, FiniteAssumption, FS_Subset, FS_CardinalityType

\* A freed object has the type of an object.
LEMMA BlankObject == Blank \in Object
<1>1. Cardinality(Objects) \in Nat
    BY FiniteAssumption, FS_CardinalityType
<1>. QED
    BY <1>1, BoundsAssumption DEF Blank, Object, INIT, COMPLETE

\* A change that leaves the URLs, the candidates and the free objects alone.
Keeps(ob, nb) ==
    /\ nb \in [Objects -> Object]
    /\ \A p \in Objects :
          /\ nb[p].url = ob[p].url
          /\ nb[p].candidate = ob[p].candidate
          /\ nb[p].candidate_count = ob[p].candidate_count
          /\ nb[p].redirect_count = ob[p].redirect_count
          /\ ob[p].url = None => nb[p] = ob[p]

\* An edit that keeps what the invariant says of objects.
LEMMA Editing ==
    ASSUME NEW ob, NEW nb, ObjectsHold(ob), Keeps(ob, nb)
    PROVE  ObjectsHold(nb)
<1>1. \A c \in Objects : Pointing(nb, c) = Pointing(ob, c)
    BY DEF Keeps, Pointing
<1>. QED
    BY <1>1 DEF Keeps, ObjectsHold

\* The candidates and their counts change, and nothing else of any object.
Relinked(ob, nb) ==
    \A p \in Objects :
        nb[p] = [ob[p] EXCEPT !.candidate = nb[p].candidate, !.candidate_count = nb[p].candidate_count]

\* A candidate that is released is counted down once.
LEMMA Releasing ==
    ASSUME NEW ob, NEW o \in Objects, ObjectsHold(ob)
    PROVE  /\ ObjectsHold(ReleaseCandidate(ob, o))
           /\ ReleaseCandidate(ob, o)[o].candidate = None
           /\ Relinked(ob, ReleaseCandidate(ob, o))
           /\ \A p \in Objects : ob[p].url = None => ReleaseCandidate(ob, o)[p] = ob[p]
<1>. DEFINE c == ob[o].candidate
            nb == ReleaseCandidate(ob, o)
<1>0. /\ ob \in [Objects -> Object]
      /\ c \in Objects \union {None} /\ c # o
      /\ \A p \in Objects : /\ ob[p].candidate_count \in 0 .. MaxCount
                            /\ ob[p].candidate \in Objects \union {None}
    BY DEF ObjectsHold, Object
<1>1. CASE c = None
    <2>1. nb = ob
        BY <1>1 DEF ReleaseCandidate
    <2>2. \A p \in Objects :
             ob[p] = [ob[p] EXCEPT !.candidate = ob[p].candidate, !.candidate_count = ob[p].candidate_count]
        BY <1>0 DEF Object
    <2>3. Relinked(ob, ob)
        BY <2>2 DEF Relinked
    <2>. QED
        BY <1>1, <2>1, <2>3
<1>2. CASE c # None
    <2>1. c \in Objects
        BY <1>0, <1>2
    <2>. DEFINE P == Pointing(ob, c)
    <2>2. o \in P /\ IsFiniteSet(P) /\ Cardinality(P) \in Nat
        BY PointingFinite DEF Pointing
    <2>3. Cardinality(P) # 0
        BY <2>2, FS_EmptySet
    <2>4. ob[c].candidate_count >= Cardinality(P) /\ (ob[c].url = None => ob[c] = Blank)
        BY <2>1 DEF ObjectsHold
    <2>5. ob[c].candidate_count >= 1 /\ ob[c].url # None
        BY <1>0, <2>1, <2>2, <2>3, <2>4 DEF Blank
    <2>6. /\ nb[c] = [ob[c] EXCEPT !.candidate_count = @ - 1]
          /\ nb[o] = [ob[o] EXCEPT !.candidate = None]
          /\ \A p \in Objects \ {c, o} : nb[p] = ob[p]
        BY <1>0, <1>2, <2>1 DEF ReleaseCandidate
    <2>7. nb \in [Objects -> Object]
        <3>1. nb = [ob EXCEPT ![c].candidate_count = @ - 1, ![o].candidate = None]
            BY <1>2 DEF ReleaseCandidate
        <3>2. \A p \in Objects : nb[p] \in Object
            <4>1. nb[c] \in Object
                BY <1>0, <2>1, <2>5, <2>6, BoundsAssumption DEF Object
            <4>2. nb[o] \in Object
                BY <1>0, <2>6 DEF Object
            <4>. QED
                BY <1>0, <4>1, <4>2, <2>6
        <3>3. nb = [p \in Objects |-> nb[p]]
            BY <1>0, <3>1
        <3>. HIDE DEF nb
        <3>. QED
            BY <3>2, <3>3
    <2>. HIDE DEF nb, c
    <2>8. ASSUME NEW p \in Objects
          PROVE  /\ nb[p] = [ob[p] EXCEPT !.candidate = nb[p].candidate,
                                          !.candidate_count = nb[p].candidate_count]
                 /\ nb[p].url = ob[p].url /\ nb[p].redirect_count = ob[p].redirect_count
                 /\ nb[p].candidate = IF p = o THEN None ELSE ob[p].candidate
                 /\ nb[p].candidate_count = IF p = c THEN ob[p].candidate_count - 1
                                            ELSE ob[p].candidate_count
      <3>1. ob[p] \in Object
        BY <1>0
      <3>2. CASE p = c
        BY <3>1, <3>2, <1>0, <2>6 DEF Object
      <3>3. CASE p = o
        BY <3>1, <3>3, <1>0, <2>6 DEF Object
      <3>4. CASE p \notin {c, o}
        BY <3>1, <3>4, <2>6 DEF Object
      <3>. QED
        BY <3>2, <3>3, <3>4
    <2>9. \A p \in Objects : ob[p].url = None => nb[p] = ob[p]
        <3>1. ob[o].url # None
            BY <1>2 DEF ObjectsHold, Blank, c
        <3>. QED
            BY <2>5, <2>6, <3>1
    <2>10. Pointing(nb, c) = P \ {o} /\ Cardinality(P \ {o}) = Cardinality(P) - 1
        <3>1. Pointing(nb, c) = P \ {o}
            BY <2>1, <2>8, Names DEF Pointing
        <3>. HIDE DEF P
        <3>. QED
            BY <3>1, <2>2, FS_RemoveElement
    <2>11. \A d \in Objects \ {c} : Pointing(nb, d) = Pointing(ob, d)
      <3>1. ob[o].candidate = c
        BY DEF c
      <3>2. ASSUME NEW d \in Objects \ {c}, NEW p \in Objects
            PROVE  nb[p].candidate = d <=> ob[p].candidate = d
        <4>1. nb[p].candidate = IF p = o THEN None ELSE ob[p].candidate
            BY <2>8
        <4>. QED
            BY <3>1, <4>1, Names
      <3>. QED
        BY <3>2 DEF Pointing
    <2>12. ASSUME NEW d \in Objects
           PROVE  /\ nb[d].url = None => nb[d] = Blank
                  /\ nb[d].candidate # d
                  /\ nb[d].candidate_count >= Cardinality(Pointing(nb, d))
                  /\ nb[d].redirect_count <= RedirectLimit + 1
        <3>1. nb[d].candidate_count >= Cardinality(Pointing(nb, d))
            <4>1. CASE d = c
                <5>1. /\ nb[c].candidate_count = ob[c].candidate_count - 1
                      /\ Cardinality(Pointing(nb, c)) = Cardinality(P) - 1
                    BY <2>1, <2>8, <2>10
                <5>2. ob[c].candidate_count \in Nat
                    BY <1>0, <2>1
                <5>3. ob[c].candidate_count >= Cardinality(P) /\ Cardinality(P) \in Nat
                    BY <2>2, <2>4
                <5>. HIDE DEF P
                <5>. QED
                    BY <4>1, <5>1, <5>2, <5>3
            <4>2. CASE d # c
                BY <4>2, <2>8, <2>11 DEF ObjectsHold
            <4>. QED
                BY <4>1, <4>2
        <3>2. nb[d].candidate # d
            <4>1. nb[d].candidate = IF d = o THEN None ELSE ob[d].candidate
                BY <2>8
            <4>. QED
                BY <4>1, Names DEF ObjectsHold
        <3>3. nb[d].url = ob[d].url /\ nb[d].redirect_count = ob[d].redirect_count
            BY <2>8
        <3>. QED
            BY <3>1, <3>2, <3>3, <2>9 DEF ObjectsHold
    <2>13. nb[o].candidate = None
        BY <2>8
    <2>. HIDE DEF P, c
    <2>14. ObjectsHold(nb)
        BY <2>7, <2>12 DEF ObjectsHold
    <2>15. Relinked(ob, nb)
        BY <2>8 DEF Relinked
    <2>. QED
        BY <2>9, <2>13, <2>14, <2>15 DEF nb
<1>. QED
    BY <1>1, <1>2

\* An object comes into being: with no candidate, or with one that counts it.
LEMMA Making ==
    ASSUME NEW ob, ObjectsHold(ob), NEW d \in Objects, ob[d].url = None,
           NEW r \in Object, r.url # None, r.candidate = None, r.candidate_count = 0,
           r.redirect_count <= RedirectLimit + 1
    PROVE  ObjectsHold([ob EXCEPT ![d] = r])
<1>. DEFINE nb == [ob EXCEPT ![d] = r]
<1>1. /\ nb \in [Objects -> Object] /\ nb[d] = r
      /\ \A p \in Objects \ {d} : nb[p] = ob[p]
    BY DEF ObjectsHold
<1>2. ob[d].candidate = None
    BY DEF ObjectsHold, Blank
<1>. HIDE DEF nb
<1>3. ASSUME NEW c \in Objects PROVE Pointing(nb, c) = Pointing(ob, c)
    BY <1>1, <1>2, Names DEF Pointing
<1>4. ASSUME NEW c \in Objects
      PROVE  /\ nb[c].url = None => nb[c] = Blank
             /\ nb[c].candidate # c
             /\ nb[c].candidate_count >= Cardinality(Pointing(nb, c))
             /\ nb[c].redirect_count <= RedirectLimit + 1
  <2>1. CASE c = d
    <3>1. ob[d].candidate_count = 0 /\ ob[d].candidate_count >= Cardinality(Pointing(ob, d))
        BY DEF ObjectsHold, Blank
    <3>. QED
        BY <2>1, <3>1, <1>1, <1>3, Names
  <2>2. CASE c # d
    BY <2>2, <1>1, <1>3 DEF ObjectsHold
  <2>. QED
    BY <2>1, <2>2
<1>5. ObjectsHold(nb)
    BY <1>1, <1>4 DEF ObjectsHold
<1>. QED
    BY <1>5 DEF nb

\* A new object that asks the server whether another is still good.
LEMMA MakingWithCandidate ==
    ASSUME NEW ob, ObjectsHold(ob), NEW d \in Objects, ob[d].url = None,
           NEW c \in Objects, ob[c].url # None, ob[c].candidate_count < MaxCount,
           NEW r \in Object, r.url # None, r.candidate = c, r.candidate_count = 0,
           r.redirect_count <= RedirectLimit + 1
    PROVE  ObjectsHold([ob EXCEPT ![c].candidate_count = @ + 1, ![d] = r])
<1>. DEFINE nb == [ob EXCEPT ![c].candidate_count = @ + 1, ![d] = r]
<1>0. ob \in [Objects -> Object] /\ ob[c].candidate_count \in 0 .. MaxCount
    BY DEF ObjectsHold, Object
<1>1. /\ nb[d] = r /\ c # d
      /\ nb[c] = [ob[c] EXCEPT !.candidate_count = @ + 1]
      /\ \A p \in Objects \ {c, d} : nb[p] = ob[p]
    BY <1>0
<1>2. nb \in [Objects -> Object]
    <2>1. nb[c] \in Object
        BY <1>0, <1>1, BoundsAssumption DEF Object
    <2>2. \A p \in Objects : nb[p] \in Object
        BY <1>0, <1>1, <2>1
    <2>3. nb = [p \in Objects |-> nb[p]]
        BY <1>0
    <2>. HIDE DEF nb
    <2>. QED
        BY <2>2, <2>3
<1>3. ob[d].candidate = None
    BY DEF ObjectsHold, Blank
<1>. HIDE DEF nb
<1>4. ASSUME NEW p \in Objects \ {d}
      PROVE  /\ nb[p].url = ob[p].url /\ nb[p].candidate = ob[p].candidate
             /\ nb[p].redirect_count = ob[p].redirect_count
             /\ p # c => nb[p] = ob[p]
  <2>1. ob[p] \in Object
    BY <1>0
  <2>. QED
    BY <1>1, <2>1 DEF Object
<1>5. nb[c].candidate_count = ob[c].candidate_count + 1
    BY <1>0, <1>1 DEF Object
<1>6. Pointing(nb, c) = Pointing(ob, c) \union {d} /\ d \notin Pointing(ob, c)
    BY <1>1, <1>3, <1>4, Names DEF Pointing
<1>7. ASSUME NEW e \in Objects \ {c} PROVE Pointing(nb, e) = Pointing(ob, e)
    BY <1>1, <1>3, <1>4, Names DEF Pointing
<1>8. Cardinality(Pointing(nb, c)) = Cardinality(Pointing(ob, c)) + 1
    <2>. DEFINE P == Pointing(ob, c)
    <2>1. IsFiniteSet(P)
        BY PointingFinite
    <2>2. Pointing(nb, c) = P \union {d} /\ d \notin P
        BY <1>6
    <2>. HIDE DEF P
    <2>3. Cardinality(P \union {d}) = Cardinality(P) + 1
        BY <2>1, <2>2, FS_AddElement
    <2>. QED
        BY <2>2, <2>3 DEF P
<1>9. nb[c].candidate_count >= Cardinality(Pointing(nb, c))
    <2>1. Cardinality(Pointing(ob, c)) \in Nat
        BY PointingFinite
    <2>2. ob[c].candidate_count >= Cardinality(Pointing(ob, c))
        BY DEF ObjectsHold
    <2>. QED
        BY <1>0, <1>5, <1>8, <2>1, <2>2
<1>10. ASSUME NEW e \in Objects
       PROVE  /\ nb[e].url = None => nb[e] = Blank
              /\ nb[e].candidate # e
              /\ nb[e].candidate_count >= Cardinality(Pointing(nb, e))
              /\ nb[e].redirect_count <= RedirectLimit + 1
  <2>1. CASE e = d
    <3>1. ob[d].candidate_count = 0 /\ ob[d].candidate_count >= Cardinality(Pointing(ob, d))
        BY DEF ObjectsHold, Blank
    <3>. QED
        BY <2>1, <3>1, <1>1, <1>7
  <2>2. CASE e = c
    BY <2>2, <1>1, <1>4, <1>9 DEF ObjectsHold
  <2>3. CASE e \notin {c, d}
    BY <2>3, <1>4, <1>7 DEF ObjectsHold
  <2>. QED
    BY <2>1, <2>2, <2>3
<1>11. ObjectsHold(nb)
    BY <1>2, <1>10 DEF ObjectsHold
<1>. QED
    BY <1>11 DEF nb

\* Objects that serve as candidates are not destroyed, whoever points to them.
LEMMA Destroying ==
    ASSUME NEW ob, ObjectsHold(ob), NEW S \in SUBSET Objects,
           \A o \in S : ob[o].candidate_count = 0
    PROVE  ObjectsHold(Destroyed(ob, S))
<1>. DEFINE nb == Destroyed(ob, S)
<1>1. ob \in [Objects -> Object]
    BY DEF ObjectsHold
<1>2. /\ nb \in [Objects -> Object]
      /\ \A o \in Objects : nb[o] = IF o \in S THEN Blank ELSE ob[o]
    BY <1>1, BlankObject DEF Destroyed
<1>. HIDE DEF nb
<1>3. ASSUME NEW c \in Objects PROVE Pointing(nb, c) \in SUBSET Pointing(ob, c)
    BY <1>2, Names DEF Pointing, Blank
<1>4. ASSUME NEW c \in Objects PROVE nb[c].candidate_count >= Cardinality(Pointing(nb, c))
    <2>. DEFINE P == Pointing(ob, c)
                Q == Pointing(nb, c)
    <2>1. /\ IsFiniteSet(P) /\ Cardinality(P) \in Nat /\ Cardinality(Q) \in Nat
          /\ Q \in SUBSET P
          /\ ob[c].candidate_count >= Cardinality(P) /\ ob[c].candidate_count \in Nat
        BY <1>1, <1>3, PointingFinite DEF ObjectsHold, Object
    <2>2. nb[c].candidate_count = ob[c].candidate_count
        BY <1>2 DEF Blank
    <2>. HIDE DEF P, Q
    <2>3. Cardinality(Q) <= Cardinality(P)
        BY <2>1, FS_Subset
    <2>4. ob[c].candidate_count >= Cardinality(Q)
        BY <2>1, <2>3
    <2>. QED
        BY <2>2, <2>4 DEF Q
<1>5. ASSUME NEW c \in Objects
      PROVE  /\ nb[c].url = None => nb[c] = Blank
             /\ nb[c].candidate # c
             /\ nb[c].redirect_count <= RedirectLimit + 1
  <2>1. CASE c \in S
    BY <2>1, <1>2, Names, BoundsAssumption DEF Blank
  <2>2. CASE c \notin S
    BY <2>2, <1>2 DEF ObjectsHold
  <2>. QED
    BY <2>1, <2>2
<1>6. ObjectsHold(nb)
    BY <1>2, <1>4, <1>5 DEF ObjectsHold
<1>. QED
    BY <1>6 DEF nb

-----------------------------------------------------------------------------
\* Changes of the lists of objects.

SameAllocated(ob, nb) == \A p \in Objects : nb[p].url = None <=> ob[p].url = None

\* The lists of objects agree with any edit that allocates and frees nothing.
LEMMA ListsStay ==
    ASSUME NEW ob, NEW nb, NEW ca, NEW un, NEW re, NEW rn,
           ListsHold(ob, ca, un, re), SameAllocated(ob, nb),
           rn \in Seq(Objects), OnceIn(rn), Elements(rn) \subseteq Elements(ca)
    PROVE  ListsHold(nb, ca, un, rn)
BY DEF ListsHold, SameAllocated

\* What becomes of `recent' when an object loses its request time or gets one.
LEMMA RecentStays ==
    ASSUME NEW ob, NEW nb, NEW ca, NEW un, NEW re, NEW o \in Objects,
           ListsHold(ob, ca, un, re), SameAllocated(ob, nb)
    PROVE  /\ ListsHold(nb, ca, un, re)
           /\ ListsHold(nb, ca, un, Cut(re, o))
           /\ o \in Elements(ca) => ListsHold(nb, ca, un, Push(o, Cut(re, o)))
<1>. DEFINE s == Cut(re, o)
<1>1. re \in Seq(Objects) /\ OnceIn(re) /\ Elements(re) \subseteq Elements(ca)
    BY DEF ListsHold
<1>2. s \in Seq(Objects) /\ Elements(s) = Elements(re) \ {o} /\ OnceIn(s)
    BY <1>1, Cutting
<1>. HIDE DEF s
<1>3. /\ Push(o, s) \in Seq(Objects) /\ OnceIn(Push(o, s))
      /\ Elements(Push(o, s)) = (Elements(re) \ {o}) \union {o}
    BY <1>2, Pushing
<1>4. ListsHold(nb, ca, un, re)
    BY <1>1, ListsStay
<1>5. ListsHold(nb, ca, un, s)
    BY <1>1, <1>2, ListsStay
<1>6. ASSUME o \in Elements(ca) PROVE ListsHold(nb, ca, un, Push(o, s))
    BY <1>1, <1>3, <1>6, ListsStay
<1>. QED
    BY <1>4, <1>5, <1>6 DEF s

\* A new object enters one of the lists.
LEMMA ListsGrow ==
    ASSUME NEW ob, NEW nb, NEW ca, NEW un, NEW re, NEW d \in Objects,
           ListsHold(ob, ca, un, re), ob[d].url = None, nb[d].url # None,
           \A p \in Objects \ {d} : nb[p].url = None <=> ob[p].url = None
    PROVE  /\ ListsHold(nb, ca, Push(d, un), re)
           /\ ListsHold(nb, Push(d, ca), un, Push(d, re))
<1>1. /\ ca \in Seq(Objects) /\ un \in Seq(Objects) /\ re \in Seq(Objects)
      /\ OnceIn(ca) /\ OnceIn(un) /\ OnceIn(re)
      /\ Elements(ca) \cap Elements(un) = {}
      /\ Elements(ca) \union Elements(un) = {o \in Objects : ob[o].url # None}
      /\ Elements(re) \subseteq Elements(ca)
    BY DEF ListsHold
<1>2. d \notin Elements(ca) /\ d \notin Elements(un) /\ d \notin Elements(re)
    BY <1>1
<1>3. {o \in Objects : nb[o].url # None} = {o \in Objects : ob[o].url # None} \union {d}
    OBVIOUS
<1>4. /\ Push(d, un) \in Seq(Objects) /\ OnceIn(Push(d, un))
      /\ Elements(Push(d, un)) = Elements(un) \union {d}
    BY <1>1, <1>2, Pushing
<1>5. /\ Push(d, ca) \in Seq(Objects) /\ OnceIn(Push(d, ca))
      /\ Elements(Push(d, ca)) = Elements(ca) \union {d}
    BY <1>1, <1>2, Pushing
<1>6. /\ Push(d, re) \in Seq(Objects) /\ OnceIn(Push(d, re))
      /\ Elements(Push(d, re)) = Elements(re) \union {d}
    BY <1>1, <1>2, Pushing
<1>7. ListsHold(nb, ca, Push(d, un), re)
    BY <1>1, <1>2, <1>3, <1>4 DEF ListsHold
<1>8. ListsHold(nb, Push(d, ca), un, Push(d, re))
    BY <1>1, <1>2, <1>3, <1>5, <1>6 DEF ListsHold
<1>. QED
    BY <1>7, <1>8

\* An object moves from the cached to the uncached ones.
LEMMA ListsMove ==
    ASSUME NEW ob, NEW nb, NEW ca, NEW un, NEW re, NEW o \in Objects,
           ListsHold(ob, ca, un, re), SameAllocated(ob, nb)
    PROVE  ListsHold(nb, Cut(ca, o), IF o \in Elements(ca) THEN Push(o, un) ELSE un, Cut(re, o))
<1>1. /\ ca \in Seq(Objects) /\ un \in Seq(Objects) /\ re \in Seq(Objects)
      /\ OnceIn(ca) /\ OnceIn(un) /\ OnceIn(re)
      /\ Elements(ca) \cap Elements(un) = {}
      /\ Elements(ca) \union Elements(un) = {p \in Objects : nb[p].url # None}
      /\ Elements(re) \subseteq Elements(ca)
    BY DEF ListsHold, SameAllocated
<1>2. Cut(ca, o) \in Seq(Objects) /\ Elements(Cut(ca, o)) = Elements(ca) \ {o} /\ OnceIn(Cut(ca, o))
    BY <1>1, Cutting
<1>3. Cut(re, o) \in Seq(Objects) /\ Elements(Cut(re, o)) = Elements(re) \ {o} /\ OnceIn(Cut(re, o))
    BY <1>1, Cutting
<1>4. CASE o \in Elements(ca)
    <2>1. /\ Push(o, un) \in Seq(Objects) /\ Elements(Push(o, un)) = Elements(un) \union {o}
          /\ OnceIn(Push(o, un))
        BY <1>1, <1>4, Pushing
    <2>. QED
        BY <1>1, <1>2, <1>3, <1>4, <2>1 DEF ListsHold
<1>5. CASE o \notin Elements(ca)
    BY <1>1, <1>2, <1>3, <1>5 DEF ListsHold
<1>. QED
    BY <1>4, <1>5

\* Freed objects leave their lists.
LEMMA ListsShrink ==
    ASSUME NEW ob, NEW nb, NEW ca, NEW un, NEW re, NEW S \in SUBSET Objects,
           ListsHold(ob, ca, un, re),
           \A p \in Objects : nb[p].url = None <=> p \in S \/ ob[p].url = None
    PROVE  ListsHold(nb, TakenOut(ca, S), TakenOut(un, S), TakenOut(re, S))
<1>1. /\ ca \in Seq(Objects) /\ un \in Seq(Objects) /\ re \in Seq(Objects)
      /\ OnceIn(ca) /\ OnceIn(un) /\ OnceIn(re)
      /\ Elements(ca) \cap Elements(un) = {}
      /\ Elements(ca) \union Elements(un) = {o \in Objects : ob[o].url # None}
      /\ Elements(re) \subseteq Elements(ca)
    BY DEF ListsHold
<1>2. /\ TakenOut(ca, S) \in Seq(Objects) /\ OnceIn(TakenOut(ca, S))
      /\ Elements(TakenOut(ca, S)) = Elements(ca) \ S
    BY <1>1, Remaining
<1>3. /\ TakenOut(un, S) \in Seq(Objects) /\ OnceIn(TakenOut(un, S))
      /\ Elements(TakenOut(un, S)) = Elements(un) \ S
    BY <1>1, Remaining
<1>4. /\ TakenOut(re, S) \in Seq(Objects) /\ OnceIn(TakenOut(re, S))
      /\ Elements(TakenOut(re, S)) = Elements(re) \ S
    BY <1>1, Remaining
<1>5. {o \in Objects : nb[o].url # None} = {o \in Objects : ob[o].url # None} \ S
    OBVIOUS
<1>. QED
    BY <1>1, <1>2, <1>3, <1>4, <1>5 DEF ListsHold

-----------------------------------------------------------------------------
\* Changes of the lists of users.

\* A user is on the list of its object.
LEMMA UserListed ==
    ASSUME NEW ob, NEW us, NEW ur, NEW h, UsersHold(ob, us, ur, h),
           NEW u \in Users, NEW o \in Objects, ur[u].object = o
    PROVE  u \in Elements(us[o]) /\ us[o] # <<>> /\ ob[o].url # None
<1>1. Elements(us[o]) \ {Husk} = {v \in Users : ur[v].object = o}
    BY DEF UsersHold
<1>2. u \in Elements(us[o])
    BY <1>1
<1>3. us[o] # <<>>
    BY <1>2 DEF Elements
<1>4. us[o] # <<>> => ob[o].url # None
    BY DEF UsersHold
<1>. QED
    BY <1>2, <1>3, <1>4

\* What the invariant says of the list of one object, and of a handle.
LEMMA UsersOf ==
    ASSUME NEW ob, NEW us, NEW ur, NEW h, UsersHold(ob, us, ur, h), NEW o \in Objects
    PROVE  /\ us[o] \in Seq(Users \union {Husk}) /\ OnceIn(us[o])
           /\ Elements(us[o]) \subseteq Users \union {Husk}
           /\ \A u \in Users : u \in Elements(us[o]) <=> ur[u].object = o
           /\ us[o] = <<>> <=> Elements(us[o]) = {}
           /\ us[o] # <<>> => ob[o].url # None
<1>1. us[o] \in Seq(Users \union {Husk}) /\ OnceIn(us[o])
    BY DEF UsersHold
<1>2. Elements(us[o]) \ {Husk} = {u \in Users : ur[u].object = o}
    BY DEF UsersHold
<1>3. us[o] = <<>> <=> Elements(us[o]) = {}
    BY <1>1, Names, Stepping
<1>4. us[o] # <<>> => ob[o].url # None
    BY DEF UsersHold
<1>. QED
    BY <1>1, <1>2, <1>3, <1>4, Names

\* No object is freed.
Lasting(ob, nb) == \A p \in Objects : ob[p].url # None => nb[p].url # None

\* The lists of users agree with any edit that frees no object.
LEMMA UsersStay ==
    ASSUME NEW ob, NEW nb, NEW us, NEW ur, NEW un, NEW h, UsersHold(ob, us, ur, h),
           Lasting(ob, nb),
           un \in [Users -> User],
           \A u \in Users : un[u].object = ur[u].object /\ un[u].queued = ur[u].queued
    PROVE  UsersHold(nb, us, un, h)
<1>1. ASSUME NEW o \in Objects
      PROVE  {u \in Users : un[u].object = o} = {u \in Users : ur[u].object = o}
    OBVIOUS
<1>2. /\ us \in [Objects -> Seq(Users \union {Husk})] /\ h \subseteq Users
      /\ \A o \in Objects : /\ OnceIn(us[o])
                            /\ Elements(us[o]) \ {Husk} = {u \in Users : ur[u].object = o}
                            /\ us[o] # <<>> => ob[o].url # None
      /\ \A u \in Users : ur[u].object # None <=> u \in h \/ ur[u].queued
    BY DEF UsersHold
<1>3. ASSUME NEW o \in Objects
      PROVE  /\ OnceIn(us[o])
             /\ Elements(us[o]) \ {Husk} = {u \in Users : un[u].object = o}
             /\ us[o] # <<>> => nb[o].url # None
    BY <1>1, <1>2 DEF Lasting
<1>4. ASSUME NEW u \in Users PROVE un[u].object # None <=> u \in h \/ un[u].queued
    BY <1>2
<1>. QED
    BY <1>2, <1>3, <1>4 DEF UsersHold

Joining(us, u, d) == [us EXCEPT ![d] = Push(u, @)]
With(ur, u, r) == [ur EXCEPT ![u] = r]

\* The elements of a list that a user has joined.
LEMMA JoinedUsers ==
    ASSUME NEW us \in [Objects -> Seq(Users \union {Husk})], NEW u \in Users, NEW d \in Objects
    PROVE  \A p \in Objects : Elements(Joining(us, u, d)[p]) =
              IF p = d THEN Elements(us[p]) \union {u} ELSE Elements(us[p])
<1>1. us[d] \in Seq(Users \union {Husk})
    OBVIOUS
<1>2. Elements(Push(u, us[d])) = Elements(us[d]) \union {u}
    BY <1>1, Pushing
<1>3. /\ Joining(us, u, d)[d] = Push(u, us[d])
      /\ \A p \in Objects \ {d} : Joining(us, u, d)[p] = us[p]
    BY DEF Joining
<1>. QED
    BY <1>2, <1>3

\* A new user joins the list of an object.
LEMMA UsersJoin ==
    ASSUME NEW ob, NEW nb, NEW us, NEW ur, NEW h, UsersHold(ob, us, ur, h),
           Lasting(ob, nb),
           NEW u \in Users, u \notin h, ur[u].object = None,
           NEW d \in Objects, nb[d].url # None,
           NEW r \in User, r.object = d, r.queued = FALSE
    PROVE  /\ UsersHold(nb, Joining(us, u, d), With(ur, u, r), h \union {u})
           /\ \A p \in Objects : Elements(Joining(us, u, d)[p]) =
                 IF p = d THEN Elements(us[p]) \union {u} ELSE Elements(us[p])
<1>. DEFINE nu == Joining(us, u, d)
            nr == With(ur, u, r)
<1>1. us \in [Objects -> Seq(Users \union {Husk})] /\ ur \in [Users -> User] /\ h \subseteq Users
    BY DEF UsersHold
<1>2. us[d] \in Seq(Users \union {Husk}) /\ OnceIn(us[d]) /\ u \notin Elements(us[d])
    BY UsersOf, Names
<1>3. /\ Push(u, us[d]) \in Seq(Users \union {Husk}) /\ OnceIn(Push(u, us[d]))
      /\ Elements(Push(u, us[d])) = Elements(us[d]) \union {u}
    BY <1>2, Pushing
<1>4. /\ nu \in [Objects -> Seq(Users \union {Husk})]
      /\ nu[d] = Push(u, us[d]) /\ \A p \in Objects \ {d} : nu[p] = us[p]
    BY <1>1, <1>3 DEF Joining
<1>5. /\ nr \in [Users -> User]
      /\ nr[u] = r /\ \A v \in Users \ {u} : nr[v] = ur[v]
    BY <1>1 DEF With
<1>. HIDE DEF nu, nr
<1>6. ASSUME NEW p \in Objects
      PROVE  Elements(nu[p]) = IF p = d THEN Elements(us[p]) \union {u} ELSE Elements(us[p])
    BY <1>3, <1>4
<1>7. ASSUME NEW p \in Objects
      PROVE  /\ OnceIn(nu[p])
             /\ Elements(nu[p]) \ {Husk} = {v \in Users : nr[v].object = p}
             /\ nu[p] # <<>> => nb[p].url # None
  <2>1. OnceIn(nu[p])
    BY <1>3, <1>4 DEF UsersHold
  <2>2. Elements(us[p]) \ {Husk} = {v \in Users : ur[v].object = p}
    BY DEF UsersHold
  <2>3. Elements(nu[p]) \ {Husk} = {v \in Users : nr[v].object = p}
    <3>0. \A v \in Users : nr[v].object = p <=> (IF v = u THEN p = d ELSE ur[v].object = p)
        BY <1>5
    <3>1. CASE p = d
        <4>1. {v \in Users : nr[v].object = p} = {v \in Users : ur[v].object = p} \union {u}
            BY <3>0, <3>1
        <4>. QED
            BY <3>1, <4>1, <2>2, <1>6, Names
    <3>2. CASE p # d
        <4>1. {v \in Users : nr[v].object = p} = {v \in Users : ur[v].object = p}
            BY <3>0, <3>2, Names
        <4>. QED
            BY <3>2, <4>1, <2>2, <1>6
    <3>. QED
        BY <3>1, <3>2
  <2>4. nu[p] # <<>> => nb[p].url # None
    BY <1>4 DEF UsersHold, Lasting
  <2>. QED
    BY <2>1, <2>3, <2>4
<1>8. ASSUME NEW v \in Users PROVE nr[v].object # None <=> v \in h \union {u} \/ nr[v].queued
  <2>1. CASE v = u
    BY <2>1, <1>5, Names
  <2>2. CASE v # u
    BY <2>2, <1>5 DEF UsersHold
  <2>. QED
    BY <2>1, <2>2
<1>9. UsersHold(nb, nu, nr, h \union {u})
    BY <1>1, <1>4, <1>5, <1>7, <1>8 DEF UsersHold
<1>. QED
    BY <1>6, <1>9 DEF nu, nr

Leaving(us, x, d) == [us EXCEPT ![d] = Cut(@, x)]

\* x is on no list of nu it was on, all others are where they were.
LeftBy(us, nu, x, d) ==
    \A p \in Objects : Elements(nu[p]) = IF p = d THEN Elements(us[p]) \ {x} ELSE Elements(us[p])

\* A user leaves the list of its object.
LEMMA UsersLeave ==
    ASSUME NEW ob, NEW us, NEW ur, NEW h, UsersHold(ob, us, ur, h),
           NEW u \in Users, NEW d \in Objects, ur[u].object = d
    PROVE  /\ UsersHold(ob, Leaving(us, u, d), With(ur, u, NoUser), h \ {u})
           /\ LeftBy(us, Leaving(us, u, d), u, d)
<1>. DEFINE nu == Leaving(us, u, d)
            nr == With(ur, u, NoUser)
<1>0. NoUser \in User /\ NoUser.object = None /\ NoUser.queued = FALSE
    BY BoundsAssumption DEF NoUser, User, INIT, COMPLETE
<1>1. us \in [Objects -> Seq(Users \union {Husk})] /\ ur \in [Users -> User] /\ h \subseteq Users
    BY DEF UsersHold
<1>2. us[d] \in Seq(Users \union {Husk}) /\ OnceIn(us[d])
    BY UsersOf
<1>3. /\ Cut(us[d], u) \in Seq(Users \union {Husk}) /\ OnceIn(Cut(us[d], u))
      /\ Elements(Cut(us[d], u)) = Elements(us[d]) \ {u}
    BY <1>2, Cutting
<1>4. /\ nu \in [Objects -> Seq(Users \union {Husk})]
      /\ nu[d] = Cut(us[d], u) /\ \A p \in Objects \ {d} : nu[p] = us[p]
    BY <1>1, <1>3 DEF Leaving
<1>5. /\ nr \in [Users -> User]
      /\ nr[u] = NoUser /\ \A v \in Users \ {u} : nr[v] = ur[v]
    BY <1>0, <1>1 DEF With
<1>. HIDE DEF nu, nr
<1>6. ASSUME NEW p \in Objects
      PROVE  Elements(nu[p]) = IF p = d THEN Elements(us[p]) \ {u} ELSE Elements(us[p])
    BY <1>3, <1>4
<1>7. ASSUME NEW p \in Objects
      PROVE  /\ OnceIn(nu[p])
             /\ Elements(nu[p]) \ {Husk} = {v \in Users : nr[v].object = p}
             /\ nu[p] # <<>> => ob[p].url # None
  <2>1. OnceIn(nu[p])
    BY <1>3, <1>4 DEF UsersHold
  <2>2. Elements(us[p]) \ {Husk} = {v \in Users : ur[v].object = p}
    BY DEF UsersHold
  <2>3. Elements(nu[p]) \ {Husk} = {v \in Users : nr[v].object = p}
    <3>1. p # None /\ u # Husk
        BY Names
    <3>2. \A v \in Users : nr[v].object = p <=> ur[v].object = p /\ v # u
        <4>1. \A v \in Users \ {u} : nr[v].object = ur[v].object
            BY <1>5
        <4>2. nr[u].object # p
            BY <1>0, <1>5, <3>1
        <4>. QED
            BY <4>1, <4>2
    <3>3. {v \in Users : nr[v].object = p} = {v \in Users : ur[v].object = p} \ {u}
        BY <3>2
    <3>4. CASE p = d
        <4>1. Elements(nu[p]) = Elements(us[p]) \ {u}
            BY <3>4, <1>6
        <4>. QED
            BY <2>2, <3>1, <3>3, <4>1
    <3>5. CASE p # d
        <4>1. Elements(nu[p]) = Elements(us[p])
            BY <3>5, <1>6
        <4>2. u \notin {v \in Users : ur[v].object = p}
            BY <3>5
        <4>. QED
            BY <2>2, <3>3, <4>1, <4>2
    <3>. QED
        BY <3>4, <3>5
  <2>4. nu[p] # <<>> => ob[p].url # None
    <3>1. us[d] # <<>>
        BY UserListed
    <3>. QED
        BY <3>1, <1>4 DEF UsersHold
  <2>. QED
    BY <2>1, <2>3, <2>4
<1>8. ASSUME NEW v \in Users PROVE nr[v].object # None <=> v \in h \ {u} \/ nr[v].queued
  <2>1. CASE v = u
    BY <2>1, <1>0, <1>5
  <2>2. CASE v # u
    BY <2>2, <1>5 DEF UsersHold
  <2>. QED
    BY <2>1, <2>2
<1>9. UsersHold(ob, nu, nr, h \ {u})
    BY <1>1, <1>4, <1>5, <1>7, <1>8 DEF UsersHold
<1>10. LeftBy(us, nu, u, d)
    BY <1>6 DEF LeftBy
<1>. QED
    BY <1>9, <1>10 DEF nu, nr

\* A husk leaves the list it was left in.
LEMMA HuskLeaves ==
    ASSUME NEW ob, NEW us, NEW ur, NEW h, UsersHold(ob, us, ur, h),
           NEW d \in Objects, Husk \in Elements(us[d])
    PROVE  /\ UsersHold(ob, Leaving(us, Husk, d), ur, h)
           /\ LeftBy(us, Leaving(us, Husk, d), Husk, d)
<1>. DEFINE nu == Leaving(us, Husk, d)
<1>1. us \in [Objects -> Seq(Users \union {Husk})]
    BY DEF UsersHold
<1>2. us[d] \in Seq(Users \union {Husk}) /\ OnceIn(us[d])
    BY UsersOf
<1>3. /\ Cut(us[d], Husk) \in Seq(Users \union {Husk}) /\ OnceIn(Cut(us[d], Husk))
      /\ Elements(Cut(us[d], Husk)) = Elements(us[d]) \ {Husk}
    BY <1>2, Cutting
<1>4. /\ nu \in [Objects -> Seq(Users \union {Husk})]
      /\ nu[d] = Cut(us[d], Husk) /\ \A p \in Objects \ {d} : nu[p] = us[p]
    BY <1>1, <1>3 DEF Leaving
<1>. HIDE DEF nu
<1>5. ASSUME NEW p \in Objects
      PROVE  Elements(nu[p]) = IF p = d THEN Elements(us[p]) \ {Husk} ELSE Elements(us[p])
    BY <1>3, <1>4
<1>6. us[d] # <<>>
    BY UsersOf
<1>7. ASSUME NEW p \in Objects
      PROVE  /\ OnceIn(nu[p])
             /\ Elements(nu[p]) \ {Husk} = {v \in Users : ur[v].object = p}
             /\ nu[p] # <<>> => ob[p].url # None
  <2>1. Elements(us[p]) \ {Husk} = {v \in Users : ur[v].object = p} /\ OnceIn(us[p])
    BY DEF UsersHold
  <2>2. us[p] # <<>> => ob[p].url # None
    BY DEF UsersHold
  <2>3. Elements(nu[p]) \ {Husk} = Elements(us[p]) \ {Husk}
    BY <1>5
  <2>. QED
    BY <2>1, <2>2, <2>3, <1>3, <1>4, <1>6
<1>8. UsersHold(ob, nu, ur, h)
    BY <1>1, <1>4, <1>7 DEF UsersHold
<1>9. LeftBy(us, nu, Husk, d)
    BY <1>5 DEF LeftBy
<1>. QED
    BY <1>8, <1>9 DEF nu

\* All users of one object go to another.
Moved(us, from, to) == [us EXCEPT ![from] = <<>>, ![to] = Backwards(us[from]) \o @]
Following(us, ur, from, to) ==
    [u \in Users |-> IF u \in Elements(us[from]) THEN [ur[u] EXCEPT !.object = to] ELSE ur[u]]

\* All users of an object move to another.
LEMMA UsersMove ==
    ASSUME NEW ob, NEW nb, NEW us, NEW ur, NEW h, UsersHold(ob, us, ur, h),
           NEW from \in Objects, NEW to \in Objects, from # to,
           nb[to].url # None, Lasting(ob, nb),
           \A p \in Objects : Husk \notin Elements(us[p])
    PROVE  /\ UsersHold(nb, Moved(us, from, to), Following(us, ur, from, to), h)
           /\ \A p \in Objects : Husk \notin Elements(Moved(us, from, to)[p])
           /\ \A u \in Users : Following(us, ur, from, to)[u].queued = ur[u].queued
<1>. DEFINE nu == Moved(us, from, to)
            nr == Following(us, ur, from, to)
            b == Backwards(us[from])
<1>1. us \in [Objects -> Seq(Users \union {Husk})] /\ ur \in [Users -> User] /\ h \subseteq Users
    BY DEF UsersHold
<1>2. \A p \in Objects : /\ us[p] \in Seq(Users \union {Husk}) /\ OnceIn(us[p])
                         /\ Elements(us[p]) = {u \in Users : ur[u].object = p}
                         /\ us[p] # <<>> => ob[p].url # None
    BY DEF UsersHold
<1>3. b \in Seq(Users \union {Husk}) /\ Elements(b) = Elements(us[from]) /\ OnceIn(b)
    BY <1>2, Reversed
<1>. HIDE DEF b
<1>4. Elements(b) \cap Elements(us[to]) = {}
    <2>1. Elements(us[from]) = {u \in Users : ur[u].object = from}
        BY <1>2
    <2>2. Elements(us[to]) = {u \in Users : ur[u].object = to}
        BY <1>2
    <2>. QED
        BY <1>3, <2>1, <2>2
<1>5. /\ b \o us[to] \in Seq(Users \union {Husk}) /\ OnceIn(b \o us[to])
      /\ Elements(b \o us[to]) = Elements(us[from]) \union Elements(us[to])
    BY <1>2, <1>3, <1>4, Joined
<1>6. /\ nu \in [Objects -> Seq(Users \union {Husk})]
      /\ nu[from] = <<>> /\ nu[to] = b \o us[to]
      /\ \A p \in Objects \ {from, to} : nu[p] = us[p]
    <2>. DEFINE e == b \o us[to]
    <2>1. e \in Seq(Users \union {Husk}) /\ <<>> \in Seq(Users \union {Husk})
        BY <1>5
    <2>2. nu = [us EXCEPT ![from] = <<>>, ![to] = e]
        BY <1>1 DEF Moved, b
    <2>. HIDE DEF e, nu
    <2>3. /\ nu \in [Objects -> Seq(Users \union {Husk})]
          /\ nu[from] = <<>> /\ nu[to] = e
          /\ \A p \in Objects \ {from, to} : nu[p] = us[p]
        BY <1>1, <2>1, <2>2
    <2>. QED
        BY <2>3 DEF e
<1>7. ASSUME NEW u \in Users
      PROVE  /\ nr[u] \in User /\ nr[u].queued = ur[u].queued
             /\ nr[u].object = IF ur[u].object = from THEN to ELSE ur[u].object
    <2>1. ur[u] \in User /\ (u \in Elements(us[from]) <=> ur[u].object = from)
        BY <1>1, <1>2
    <2>. QED
        BY <2>1 DEF Following, User
<1>8. nr \in [Users -> User]
    BY <1>7 DEF Following
<1>. HIDE DEF nu, nr
<1>9. <<>> \in Seq(Users \union {Husk}) /\ OnceIn(<<>>) /\ Elements(<<>>) = {}
    BY DEF OnceIn, Elements
<1>10. ASSUME NEW p \in Objects
       PROVE  /\ OnceIn(nu[p])
              /\ Elements(nu[p]) = {v \in Users : nr[v].object = p}
              /\ nu[p] # <<>> => nb[p].url # None
  <2>1. \A v \in Users : nr[v].object = IF ur[v].object = from THEN to ELSE ur[v].object
    BY <1>7
  <2>2. CASE p = from
    <3>1. {v \in Users : nr[v].object = p} = {}
        BY <2>1, <2>2
    <3>. QED
        BY <2>2, <3>1, <1>6, <1>9
  <2>3. CASE p = to
    <3>1. {v \in Users : nr[v].object = p} = Elements(us[from]) \union Elements(us[to])
        BY <2>1, <2>3, <1>2
    <3>. QED
        BY <2>3, <3>1, <1>5, <1>6
  <2>4. CASE p \notin {from, to}
    <3>1. {v \in Users : nr[v].object = p} = {v \in Users : ur[v].object = p}
        BY <2>1, <2>4
    <3>. QED
        BY <2>4, <3>1, <1>2, <1>6 DEF Lasting
  <2>. QED
    BY <2>2, <2>3, <2>4
<1>11. \A p \in Objects : Husk \notin Elements(nu[p])
    BY <1>10, Names
<1>12. ASSUME NEW v \in Users PROVE nr[v].object # None <=> v \in h \/ nr[v].queued
    BY <1>7, Names DEF UsersHold
<1>13. UsersHold(nb, nu, nr, h)
    BY <1>1, <1>6, <1>8, <1>10, <1>11, <1>12 DEF UsersHold
<1>. QED
    BY <1>7, <1>11, <1>13 DEF nu, nr

\* One user goes to an object of its own.
Parting(us, o, rest, d, u) == [us EXCEPT ![o] = rest, ![d] = <<u>>]
Parted(ur, u, d) == [ur EXCEPT ![u].object = d, ![u].told = TRUE]

\* A user leaves for a snapshot; in its place there is nothing, or a husk.
LEMMA UsersPart ==
    ASSUME NEW ob, NEW nb, NEW us, NEW ur, NEW h, UsersHold(ob, us, ur, h),
           NEW o \in Objects, NEW d \in Objects, ob[d].url = None, nb[d].url # None,
           Lasting(ob, nb),
           NEW u \in Users, ur[u].object = o,
           NEW rest \in Seq(Users \union {Husk}), OnceIn(rest),
           Elements(rest) \ {Husk} = Elements(us[o]) \ {Husk, u}
    PROVE  /\ o # d
           /\ UsersHold(nb, Parting(us, o, rest, d, u), Parted(ur, u, d), h)
           /\ \A v \in Users : Parted(ur, u, d)[v].queued = ur[v].queued
<1>. DEFINE nu == Parting(us, o, rest, d, u)
            nr == Parted(ur, u, d)
<1>1. us \in [Objects -> Seq(Users \union {Husk})] /\ ur \in [Users -> User] /\ h \subseteq Users
    BY DEF UsersHold
<1>2. us[d] = <<>> /\ Elements(us[d]) = {} /\ o # d /\ us[o] # <<>>
    <2>1. us[d] = <<>>
        BY DEF UsersHold
    <2>2. Elements(us[d]) = {}
        BY <2>1, UsersOf
    <2>3. u \in Elements(us[o])
        BY UsersOf
    <2>. QED
        BY <2>1, <2>2, <2>3, UsersOf
<1>3. <<u>> \in Seq(Users \union {Husk}) /\ OnceIn(<<u>>) /\ Elements(<<u>>) = {u}
    BY DEF OnceIn, Elements
<1>4. /\ nu \in [Objects -> Seq(Users \union {Husk})]
      /\ nu[o] = rest /\ nu[d] = <<u>> /\ \A p \in Objects \ {o, d} : nu[p] = us[p]
    BY <1>1, <1>2, <1>3 DEF Parting
<1>5. /\ nr[u].object = d /\ nr[u].queued = ur[u].queued /\ nr[u] \in User
      /\ \A v \in Users \ {u} : nr[v] = ur[v]
    <2>1. ur[u] \in User
        BY <1>1
    <2>. QED
        BY <1>1, <2>1 DEF User, Parted
<1>6. nr \in [Users -> User]
    <2>1. \A v \in Users : nr[v] \in User
        BY <1>1, <1>5
    <2>2. nr = [v \in Users |-> nr[v]]
        BY <1>1 DEF Parted
    <2>. HIDE DEF nr
    <2>. QED
        BY <2>1, <2>2
<1>. HIDE DEF nu, nr
<1>7. ASSUME NEW p \in Objects
      PROVE  /\ OnceIn(nu[p])
             /\ Elements(nu[p]) \ {Husk} = {v \in Users : nr[v].object = p}
             /\ nu[p] # <<>> => nb[p].url # None
  <2>0. /\ Elements(us[p]) \ {Husk} = {v \in Users : ur[v].object = p} /\ OnceIn(us[p])
        /\ us[p] # <<>> => ob[p].url # None
    BY DEF UsersHold
  <2>1. \A v \in Users : nr[v].object = IF v = u THEN d ELSE ur[v].object
    BY <1>5
  <2>2. CASE p = o
    <3>1. {v \in Users : nr[v].object = p} = {v \in Users : ur[v].object = p} \ {u}
        BY <2>1, <2>2, <1>2
    <3>2. Elements(nu[p]) \ {Husk} = (Elements(us[p]) \ {Husk}) \ {u}
        BY <2>2, <1>4
    <3>. QED
        BY <2>0, <2>2, <3>1, <3>2, <1>2, <1>4 DEF Lasting
  <2>3. CASE p = d
    <3>1. {v \in Users : nr[v].object = p} = {u}
        <4>1. \A v \in Users : ur[v].object # d
            BY <2>0, <2>3, <1>2
        <4>. QED
            BY <2>1, <2>3, <4>1
    <3>. QED
        BY <2>3, <3>1, <1>3, <1>4, Names
  <2>4. CASE p \notin {o, d}
    <3>1. {v \in Users : nr[v].object = p} = {v \in Users : ur[v].object = p}
        BY <2>1, <2>4
    <3>. QED
        BY <2>0, <2>4, <3>1, <1>4 DEF Lasting
  <2>. QED
    BY <2>2, <2>3, <2>4
<1>8. ASSUME NEW v \in Users PROVE nr[v].object # None <=> v \in h \/ nr[v].queued
  <2>1. nr[v].queued = ur[v].queued
    BY <1>5
  <2>2. ur[v].object # None <=> v \in h \/ ur[v].queued
    BY DEF UsersHold
  <2>3. CASE v = u
    <3>1. d # None /\ o # None
        BY Names
    <3>2. nr[v].object # None /\ ur[v].object # None
        BY <2>3, <3>1, <1>5
    <3>. QED
        BY <2>1, <2>2, <3>2
  <2>4. CASE v # u
    <3>1. nr[v].object = ur[v].object
        BY <2>4, <1>5
    <3>. QED
        BY <2>1, <2>2, <3>1
  <2>. QED
    BY <2>3, <2>4
<1>9. UsersHold(nb, nu, nr, h)
    BY <1>1, <1>4, <1>6, <1>7, <1>8 DEF UsersHold
<1>10. \A v \in Users : nr[v].queued = ur[v].queued
    BY <1>5
<1>. QED
    BY <1>2, <1>9, <1>10 DEF nu, nr

-----------------------------------------------------------------------------
\* Changes of the loop.

\* Between the events nothing is queued and no husk is left.
Quiet(us, ur) ==
    /\ \A p \in Objects : Husk \notin Elements(us[p])
    /\ \A u \in Users : ~ur[u].queued

\* Between two events nothing is queued and no husk is left.
LEMMA QuietBetween ==
    ASSUME NEW ob, NEW us, NEW ur, NEW h, NEW r, RunHolds(ob, us, ur, h, r), r.ev = "none"
    PROVE  Quiet(us, ur)
BY DEF RunHolds, Loop, Quiet

Ending(o, error) == [Idle EXCEPT !.in = "end", !.at = o, !.err = error]
Sending(us, o, event, target) ==
    [Idle EXCEPT !.in = "event", !.at = o, !.who = First(us[o]), !.what = event,
                 !.ev = IF us[o] = <<>> THEN "none" ELSE event, !.target = target]

\* The idle state of the loops has their type.
LEMMA IdleRuns == Idle \in Run
BY BoundsAssumption DEF Idle, Run, INIT, COMPLETE, Event

\* With nothing queued, the loops may be idle.
LEMMA Idling ==
    ASSUME NEW ob, NEW us, NEW ur, NEW h, Quiet(us, ur)
    PROVE  RunHolds(ob, us, ur, h, Idle)
<1>1. /\ Idle.in = "idle" /\ Idle.who = None /\ Idle.ev = "none" /\ Idle \in Run
    BY IdleRuns DEF Idle
<1>. QED
    BY <1>1, Names DEF RunHolds, Loop, Quiet

\* With nothing queued, a callback may end.
LEMMA Ended ==
    ASSUME NEW ob, NEW us, NEW ur, NEW h, Quiet(us, ur), NEW o \in Objects,
           NEW error \in {"OK"} \union Results \union {"ERROR", "NOMEM"}
    PROVE  RunHolds(ob, us, ur, h, Ending(o, error))
<1>. DEFINE r == Ending(o, error)
<1>1. r.in = "end" /\ r.who = None /\ r.ev = "none" /\ r.at = o
    BY DEF Ending, Idle
<1>2. r \in Run
    BY IdleRuns DEF Ending, Run
<1>. HIDE DEF r
<1>3. RunHolds(ob, us, ur, h, r)
    BY <1>1, <1>2, Names DEF RunHolds, Loop, Quiet
<1>. QED
    BY <1>3 DEF r

\* With nothing queued, an event may be sent to the users of an object.
LEMMA Sent ==
    ASSUME NEW ob, NEW us, NEW ur, NEW h, UsersHold(ob, us, ur, h), Quiet(us, ur),
           NEW o \in Objects, ob[o].url # None,
           NEW event \in {"GOT_CERTS", "ERROR", "PROGRESS", "REDIRECT"},
           NEW target \in Urls \union {Nowhere, None},
           event = "REDIRECT" => /\ ob[o].state = COMPLETE /\ ~ob[o].life
                                 /\ ob[o].redirect_count <= RedirectLimit
    PROVE  RunHolds(ob, us, ur, h, Sending(us, o, event, target))
<1>. DEFINE r == Sending(us, o, event, target)
            w == First(us[o])
<1>1. /\ us[o] \in Seq(Users \union {Husk})
      /\ Elements(us[o]) \subseteq Users /\ (us[o] = <<>> <=> Elements(us[o]) = {})
    BY UsersOf DEF Quiet
<1>2. /\ us[o] = <<>> => w = None
      /\ us[o] # <<>> => w \in Elements(us[o]) /\ w \in Users
    BY <1>1, Names, Stepping
<1>. HIDE DEF w
<1>3. /\ r.in = "event" /\ r.at = o /\ r.what = event /\ r.who = w
      /\ r.ev = (IF us[o] = <<>> THEN "none" ELSE event)
    BY DEF Sending, Idle, w
<1>4. r \in Run
    <2>1. w \in Users \union {Husk, None}
        BY <1>2
    <2>. DEFINE e == IF us[o] = <<>> THEN "none" ELSE event
    <2>2. e \in Event /\ event \in Event
        BY DEF Event
    <2>3. r = [Idle EXCEPT !.in = "event", !.at = o, !.who = w, !.what = event,
                           !.ev = e, !.target = target]
        BY DEF Sending, w
    <2>. HIDE DEF e, r
    <2>. QED
        BY <2>1, <2>2, <2>3, IdleRuns DEF Run
<1>. HIDE DEF r
<1>5. r.ev = "none" <=> r.who = None
    BY <1>2, <1>3, Names
<1>6. RunHolds(ob, us, ur, h, r)
    BY <1>2, <1>3, <1>4, <1>5, Names DEF RunHolds, Loop, Quiet
<1>. QED
    BY <1>6 DEF r

-----------------------------------------------------------------------------
\* A step that changes objects but neither their users nor the lists they are in.
LEMMA ObjectStep ==
    ASSUME IInv, ObjectsHold(obj'), SameAllocated(obj, obj'), NEW o \in Objects,
           UNCHANGED <<users, usr, held, cached, uncached>>, all_caught_up' \in BOOLEAN,
           \/ recent' = recent
           \/ recent' = Cut(recent, o)
           \/ o \in Elements(cached) /\ recent' = Push(o, Cut(recent, o)),
           RunHolds(obj', users', usr', held', run')
    PROVE  IInv'
<1>1. ListsHold(obj', cached, uncached, recent')
    BY RecentStays DEF IInv
<1>2. UsersHold(obj', users, usr, held)
    BY DEF IInv, UsersHold, SameAllocated
<1>. QED
    BY <1>1, <1>2 DEF IInv

\* A change of the fields of one object that the lists and the counts ignore.
LEMMA KeepsAt ==
    ASSUME NEW ob, NEW nb, NEW o \in Objects, ob \in [Objects -> Object], ob[o].url # None,
           nb = [p \in Objects |-> nb[p]], \A p \in Objects \ {o} : nb[p] = ob[p],
           nb[o] \in Object,
           nb[o].url = ob[o].url, nb[o].candidate = ob[o].candidate,
           nb[o].candidate_count = ob[o].candidate_count,
           nb[o].redirect_count = ob[o].redirect_count
    PROVE  Keeps(ob, nb)
<1>1. \A p \in Objects : nb[p] \in Object
    OBVIOUS
<1>2. nb \in [Objects -> Object]
    BY <1>1
<1>. QED
    BY <1>2 DEF Keeps

\* What keeps an object's key fields keeps it allocated, or free.
LEMMA KeepsAllocated ==
    ASSUME NEW ob, NEW nb, Keeps(ob, nb)
    PROVE  SameAllocated(ob, nb)
BY DEF Keeps, SameAllocated

-----------------------------------------------------------------------------
\* The messages of a fetch.

\* The fields that the lists and the counts rest on.
SameKey(r, s) ==
    /\ r \in Object
    /\ r.url = s.url /\ r.candidate = s.candidate
    /\ r.candidate_count = s.candidate_count /\ r.redirect_count = s.redirect_count

Over(r) == [Invalid(r) EXCEPT !.fetch = "none", !.state = COMPLETE]

\* The edits of an object's record keep its key fields.
LEMMA RecordEdits ==
    ASSUME NEW r \in Object
    PROVE  /\ SameKey(Invalid(r), r)
           /\ SameKey(Over(r), r)
           /\ Over(r).state = COMPLETE /\ Over(r).life = FALSE
           /\ \A started \in BOOLEAN : SameKey(Refetched(r, started), r)
<1>1. SameKey(Invalid(r), r)
    BY DEF SameKey, Invalid, Object
<1>2. SameKey(Over(r), r) /\ Over(r).state = COMPLETE /\ Over(r).life = FALSE
  <2>. DEFINE i == Invalid(r)
  <2>1. i \in Object /\ i.life = FALSE
    BY <1>1 DEF SameKey, Invalid, Object
  <2>2. Over(r) = [i EXCEPT !.fetch = "none", !.state = COMPLETE]
    BY DEF Over
  <2>. HIDE DEF i
  <2>3. COMPLETE \in INIT .. COMPLETE
    BY DEF INIT, COMPLETE
  <2>4. SameKey(Over(r), i) /\ Over(r).state = COMPLETE /\ Over(r).life = FALSE
    BY <2>1, <2>2, <2>3 DEF SameKey, Object
  <2>. QED
    BY <1>1, <2>4 DEF SameKey, i
<1>3. ASSUME NEW started \in BOOLEAN PROVE SameKey(Refetched(r, started), r)
  <2>. DEFINE i == Invalid(r)
  <2>1. i \in Object /\ i.body \in {"none", "part", "mixed", "whole"} /\ r.validator \in BOOLEAN
    BY <1>1 DEF SameKey, Object
  <2>. HIDE DEF i
  <2>. DEFINE f == IF started THEN "running" ELSE i.fetch
              b == IF i.body = "part" THEN "mixed" ELSE i.body
              v == r.validator
  <2>2. Refetched(r, started) = [i EXCEPT !.state = INIT, !.fetch = f, !.conditional = v, !.body = b]
    BY DEF Refetched, i
  <2>3. INIT \in INIT .. COMPLETE
    BY DEF INIT, COMPLETE
  <2>4. /\ f \in {"none", "running", "over"} /\ v \in BOOLEAN
        /\ b \in {"none", "part", "mixed", "whole"}
    BY <2>1 DEF Object
  <2>. HIDE DEF f, b, v
  <2>5. Refetched(r, started) \in Object
    <3>. DEFINE j == [i EXCEPT !.state = INIT, !.fetch = f]
    <3>1. j \in Object
      BY <2>1, <2>3, <2>4 DEF Object
    <3>2. Refetched(r, started) = [j EXCEPT !.conditional = v, !.body = b]
      BY <2>1, <2>2 DEF Object
    <3>. HIDE DEF j
    <3>. QED
      BY <2>4, <3>1, <3>2 DEF Object
  <2>6. /\ Refetched(r, started).url = i.url
        /\ Refetched(r, started).candidate = i.candidate
        /\ Refetched(r, started).candidate_count = i.candidate_count
        /\ Refetched(r, started).redirect_count = i.redirect_count
    BY <2>1, <2>2 DEF Object
  <2>. HIDE DEF Refetched
  <2>. QED
    BY <1>1, <2>5, <2>6 DEF SameKey, i
<1>. QED
    BY <1>1, <1>2, <1>3

\* An edit of one object that keeps its key fields.
LEMMA EditAt ==
    ASSUME NEW ob, ObjectsHold(ob), NEW o \in Objects, ob[o].url # None, NEW r, SameKey(r, ob[o])
    PROVE  /\ ObjectsHold([ob EXCEPT ![o] = r])
           /\ SameAllocated(ob, [ob EXCEPT ![o] = r])
<1>. DEFINE nb == [ob EXCEPT ![o] = r]
<1>1. ob \in [Objects -> Object]
    BY DEF ObjectsHold
<1>2. /\ nb = [p \in Objects |-> nb[p]] /\ nb[o] = r
      /\ \A p \in Objects \ {o} : nb[p] = ob[p]
    BY <1>1
<1>. HIDE DEF nb
<1>3. Keeps(ob, nb)
    BY <1>1, <1>2, KeepsAt DEF SameKey
<1>4. ObjectsHold(nb) /\ SameAllocated(ob, nb)
    BY <1>3, Editing, KeepsAllocated
<1>. QED
    BY <1>4 DEF nb

\* The state in which a message of a fetch arrives.
LEMMA Arriving ==
    ASSUME IInv, run.in = "idle"
    PROVE  /\ run = Idle /\ run.ev = "none" /\ run.who = None
           /\ Quiet(users, usr) /\ ObjectsHold(obj) /\ UsersHold(obj, users, usr, held)
           /\ obj \in [Objects -> Object] /\ all_caught_up \in BOOLEAN
           /\ \A o \in Objects : obj[o].fetch # "none" => obj[o].url # None
<1>1. run = Idle
    BY DEF IInv, RunHolds, Loop
<1>2. run.ev = "none" /\ run.who = None
    BY <1>1 DEF Idle
<1>3. Quiet(users, usr)
    BY <1>2, QuietBetween DEF IInv
<1>. QED
    BY <1>1, <1>2, <1>3 DEF IInv, ObjectsHold, Blank

\* A message that is dealt with at once.
LEMMA MessageEnds ==
    ASSUME IInv, run.in = "idle", ObjectsHold(obj'), SameAllocated(obj, obj'),
           NEW o \in Objects, NEW error \in {"OK"} \union Results \union {"ERROR", "NOMEM"},
           EndWith(o, error),
           UNCHANGED <<users, usr, held, cached, uncached, all_caught_up>>,
           \/ recent' = recent
           \/ recent' = Cut(recent, o)
           \/ o \in Elements(cached) /\ recent' = Push(o, Cut(recent, o))
    PROVE  IInv'
<1>1. Quiet(users, usr) /\ all_caught_up \in BOOLEAN
    BY Arriving
<1>2. RunHolds(obj', users, usr, held, Ending(o, error))
    BY <1>1, Ended
<1>3. run' = Ending(o, error)
    BY DEF EndWith, Ending
<1>. QED
    BY <1>1, <1>2, <1>3, ObjectStep

\* A message that the users are told of.
LEMMA MessageSent ==
    ASSUME IInv, run.in = "idle", ObjectsHold(obj'), SameAllocated(obj, obj'),
           NEW o \in Objects, obj[o].url # None,
           NEW event \in {"GOT_CERTS", "ERROR", "PROGRESS", "REDIRECT"},
           NEW target \in Urls \union {Nowhere, None}, Send(o, event, target),
           event = "REDIRECT" => /\ obj'[o].state = COMPLETE /\ ~obj'[o].life
                                 /\ obj'[o].redirect_count <= RedirectLimit,
           UNCHANGED <<users, usr, held, cached, uncached, all_caught_up>>,
           recent' = recent \/ recent' = Cut(recent, o)
    PROVE  IInv'
<1>1. Quiet(users, usr) /\ UsersHold(obj, users, usr, held) /\ all_caught_up \in BOOLEAN
    BY Arriving
<1>2. UsersHold(obj', users, usr, held) /\ obj'[o].url # None
    BY <1>1 DEF UsersHold, SameAllocated
<1>3. RunHolds(obj', users, usr, held, Sending(users, o, event, target))
    BY <1>1, <1>2, Sent
<1>4. run' = Sending(users, o, event, target)
    BY DEF Send, Sending
<1>. QED
    BY <1>1, <1>3, <1>4, ObjectStep

\* The end of an object keeps the invariant.
LEMMA GivesUp ==
    ASSUME IInv, run.in = "idle", NEW o \in Objects, obj[o].url # None,
           NEW ob, ObjectsHold(ob), SameAllocated(obj, ob), GiveUp(o, ob)
    PROVE  IInv'
<1>. DEFINE rb == ReleaseCandidate(ob, o)
<1>1. ObjectsHold(rb) /\ SameAllocated(ob, rb)
  <2>1. ObjectsHold(rb)
    BY Releasing
  <2>2. Relinked(ob, rb)
    BY Releasing
  <2>3. ASSUME NEW p \in Objects PROVE rb[p].url = ob[p].url
    <3>1. ob[p] \in Object
        BY DEF ObjectsHold
    <3>. HIDE DEF rb
    <3>. QED
        BY <3>1, <2>2 DEF Object, Relinked
  <2>. QED
    BY <2>1, <2>3 DEF SameAllocated
<1>2. obj' = [rb EXCEPT ![o] = Over(@)]
    BY DEF GiveUp, Over
<1>3. rb[o] \in Object /\ rb[o].url # None /\ rb \in [Objects -> Object]
    BY <1>1 DEF ObjectsHold, SameAllocated
<1>. HIDE DEF rb
<1>4. SameKey(Over(rb[o]), rb[o])
    BY <1>3, RecordEdits
<1>5. obj' = [rb EXCEPT ![o] = Over(rb[o])]
    BY <1>2
<1>6. ObjectsHold(obj') /\ SameAllocated(rb, obj')
    BY <1>1, <1>3, <1>4, <1>5, EditAt
<1>7. SameAllocated(obj, obj')
    BY <1>1, <1>6 DEF SameAllocated
<1>8. /\ Send(o, "ERROR", None) /\ recent' = Cut(recent, o)
      /\ UNCHANGED <<users, usr, held, cached, uncached, all_caught_up>>
    BY DEF GiveUp
<1>. QED
    BY <1>6, <1>7, <1>8, MessageSent

\* A retry keeps the invariant, whether or not its fetch starts.
LEMMA TriesAgain ==
    ASSUME IInv, run.in = "idle", NEW o \in Objects, obj[o].url # None,
           NEW ob, ObjectsHold(ob), SameAllocated(obj, ob), TryAgain(o, ob)
    PROVE  IInv'
<1>1. PICK started \in BOOLEAN :
         /\ obj' = [ob EXCEPT ![o] = Refetched(@, started)]
         /\ EndWith(o, IF started THEN "OK" ELSE "ERROR")
    BY DEF TryAgain
<1>2. ob[o] \in Object /\ ob[o].url # None
    BY DEF ObjectsHold, SameAllocated
<1>3. SameKey(Refetched(ob[o], started), ob[o])
    BY <1>2, RecordEdits
<1>4. obj' = [ob EXCEPT ![o] = Refetched(ob[o], started)]
    BY <1>1
<1>5. ObjectsHold(obj') /\ SameAllocated(ob, obj')
    BY <1>2, <1>3, <1>4, EditAt
<1>6. SameAllocated(obj, obj')
    BY <1>5 DEF SameAllocated
<1>7. /\ recent' = Latest(o)
      /\ UNCHANGED <<users, usr, held, cached, uncached, all_caught_up>>
    BY DEF TryAgain
<1>8. \/ recent' = recent
      \/ o \in Elements(cached) /\ recent' = Push(o, Cut(recent, o))
    BY <1>7 DEF Latest
<1>9. (IF started THEN "OK" ELSE "ERROR") \in {"OK"} \union Results \union {"ERROR", "NOMEM"}
    OBVIOUS
<1>. QED
    BY <1>1, <1>5, <1>6, <1>7, <1>8, <1>9, MessageEnds

\* llcache_fetch_callback, message by message: FETCH_HEADER.
LEMMA HeaderHolds ==
    ASSUME IInv, NEW o \in Objects, FetchHeader(o) PROVE IInv'
<1>1. run.in = "idle" /\ obj[o].fetch = "running"
    BY DEF FetchHeader, Message
<1>2. obj[o] \in Object /\ obj[o].url # None
    BY <1>1, Arriving
<1>3. PICK kind \in Headers :
          obj' = [obj EXCEPT ![o] =
                    CASE kind = "status" -> [Invalid(@) EXCEPT !.state = HEADERS]
                      [] kind = "lifetime" -> [@ EXCEPT !.state = HEADERS, !.life = TRUE]
                      [] kind = "no-cache" -> [@ EXCEPT !.state = HEADERS,
                                                        !.no_cache = "ALWAYS"]
                      [] kind = "validator" -> [@ EXCEPT !.state = HEADERS, !.validator = TRUE]]
    BY DEF FetchHeader
<1>. DEFINE r == CASE kind = "status" -> [Invalid(obj[o]) EXCEPT !.state = HEADERS]
                   [] kind = "lifetime" -> [obj[o] EXCEPT !.state = HEADERS, !.life = TRUE]
                   [] kind = "no-cache" -> [obj[o] EXCEPT !.state = HEADERS,
                                                          !.no_cache = "ALWAYS"]
                   [] kind = "validator" -> [obj[o] EXCEPT !.state = HEADERS, !.validator = TRUE]
<1>4. obj' = [obj EXCEPT ![o] = r]
    BY <1>3
<1>5. SameKey(r, obj[o])
  <2>0. HEADERS \in INIT .. COMPLETE
    BY DEF INIT, HEADERS, COMPLETE
  <2>1. CASE kind = "status"
    <3>1. SameKey(Invalid(obj[o]), obj[o])
        BY <1>2, RecordEdits
    <3>. DEFINE i == Invalid(obj[o])
    <3>2. r = [i EXCEPT !.state = HEADERS]
        BY <2>1
    <3>. HIDE DEF i, r
    <3>3. SameKey(r, i)
        <4>1. i \in Object
            BY <3>1 DEF SameKey, i
        <4>. QED
            BY <2>0, <3>2, <4>1 DEF SameKey, Object
    <3>. QED
        BY <3>1, <3>3 DEF SameKey, i
  <2>2. CASE kind = "lifetime"
    <3>1. r = [obj[o] EXCEPT !.state = HEADERS, !.life = TRUE]
        BY <2>2
    <3>. HIDE DEF r
    <3>. QED
        BY <1>2, <2>0, <3>1 DEF SameKey, Object
  <2>3. CASE kind = "no-cache"
    <3>1. r = [obj[o] EXCEPT !.state = HEADERS, !.no_cache = "ALWAYS"]
        BY <2>3
    <3>. HIDE DEF r
    <3>. QED
        BY <1>2, <2>0, <3>1 DEF SameKey, Object
  <2>4. CASE kind = "validator"
    <3>1. r = [obj[o] EXCEPT !.state = HEADERS, !.validator = TRUE]
        BY <2>4
    <3>. HIDE DEF r
    <3>. QED
        BY <1>2, <2>0, <3>1 DEF SameKey, Object
  <2>. QED
    BY <2>1, <2>2, <2>3, <2>4, KindsAssumption
<1>. HIDE DEF r
<1>6. ObjectsHold(obj') /\ SameAllocated(obj, obj')
    BY <1>1, <1>2, <1>4, <1>5, Arriving, EditAt
<1>7. \E error \in {"OK", "NOMEM"} : EndWith(o, error)
    BY DEF FetchHeader, AllocationFails
<1>. QED
    BY <1>1, <1>6, <1>7, MessageEnds DEF FetchHeader, lists

\* Releasing a candidate, and then an edit of the object itself.
LEMMA ReleasedKey ==
    ASSUME NEW ob, NEW o \in Objects, ObjectsHold(ob), ob[o].url # None
    PROVE  /\ ReleaseCandidate(ob, o)[o] \in Object
           /\ ReleaseCandidate(ob, o)[o].url # None
           /\ ReleaseCandidate(ob, o)[o].redirect_count = ob[o].redirect_count
           /\ ReleaseCandidate(ob, o)[o].fetch = ob[o].fetch
           /\ ReleaseCandidate(ob, o)[o].state = ob[o].state
           /\ ReleaseCandidate(ob, o)[o].source_len = ob[o].source_len
           /\ ReleaseCandidate(ob, o)[o].body = ob[o].body
           /\ ReleaseCandidate(ob, o)[o].candidate = None
           /\ ObjectsHold(ReleaseCandidate(ob, o))
           /\ SameAllocated(ob, ReleaseCandidate(ob, o))
<1>. DEFINE rb == ReleaseCandidate(ob, o)
<1>1. ObjectsHold(rb) /\ rb[o].candidate = None
    BY Releasing
<1>2. Relinked(ob, rb)
    BY Releasing
<1>. HIDE DEF rb
<1>3. ASSUME NEW p \in Objects
      PROVE  /\ rb[p].url = ob[p].url /\ rb[p].redirect_count = ob[p].redirect_count
             /\ rb[p].fetch = ob[p].fetch /\ rb[p].state = ob[p].state
             /\ rb[p].source_len = ob[p].source_len /\ rb[p].body = ob[p].body
  <2>1. ob[p] \in Object
    BY DEF ObjectsHold
  <2>. QED
    BY <2>1, <1>2 DEF Object, Relinked
<1>4. rb[o] \in Object
    BY <1>1 DEF ObjectsHold
<1>5. SameAllocated(ob, rb)
    BY <1>3 DEF SameAllocated
<1>. QED
    BY <1>1, <1>3, <1>4, <1>5 DEF rb

\* FETCH_DATA.
LEMMA DataHolds ==
    ASSUME IInv, NEW o \in Objects, FetchData(o) PROVE IInv'
<1>1. /\ run.in = "idle" /\ obj[o].fetch = "running" /\ obj[o].source_len < MaxLen
      /\ UNCHANGED <<users, usr, held, cached, uncached, all_caught_up>>
    BY DEF FetchData, Message
<1>2. obj[o] \in Object /\ obj[o].url # None /\ ObjectsHold(obj)
    BY <1>1, Arriving
<1>. DEFINE next(r) == [r EXCEPT !.state = DATA, !.body = IF @ = "none" THEN "part" ELSE @]
            rb == IF obj[o].state # DATA THEN ReleaseCandidate(obj, o) ELSE obj
<1>3. /\ ObjectsHold(rb) /\ SameAllocated(obj, rb) /\ rb[o] \in Object /\ rb[o].url # None
      /\ rb[o].source_len = obj[o].source_len
    BY <1>2, ReleasedKey DEF SameAllocated
<1>4. PICK cacheable \in BOOLEAN, grown \in {0, 1} :
          /\ obj' = [rb EXCEPT ![o] = [next(IF cacheable THEN rb[o] ELSE Invalid(rb[o]))
                                        EXCEPT !.source_len = @ + grown]]
          /\ EndWith(o, "OK") \/ AllocationFails(o)
          /\ recent' = IF cacheable THEN recent ELSE Cut(recent, o)
    BY DEF FetchData
<1>. HIDE DEF rb
<1>. DEFINE i == IF cacheable THEN rb[o] ELSE Invalid(rb[o])
            b == IF i.body = "none" THEN "part" ELSE i.body
            n == i.source_len + grown
            r == [i EXCEPT !.state = DATA, !.body = b, !.source_len = n]
<1>5. obj' = [rb EXCEPT ![o] = r]
  <2>1. rb \in [Objects -> Object]
    BY <1>3 DEF ObjectsHold
  <2>. HIDE DEF next
  <2>2. obj' = [rb EXCEPT ![o] = [next(i) EXCEPT !.source_len = @ + grown]]
    BY <1>4
  <2>3. i \in Object
    BY <1>3, RecordEdits DEF SameKey
  <2>. HIDE DEF i
  <2>4. [next(i) EXCEPT !.source_len = @ + grown] = r
    BY <2>3 DEF Object, next
  <2>. QED
    BY <2>2, <2>4
<1>6. SameKey(i, rb[o]) /\ i.source_len = rb[o].source_len
  <2>1. CASE cacheable
    BY <2>1, <1>3 DEF SameKey
  <2>2. CASE ~cacheable
    <3>1. SameKey(Invalid(rb[o]), rb[o])
        BY <1>3, RecordEdits
    <3>2. Invalid(rb[o]).source_len = rb[o].source_len
        BY <1>3 DEF Invalid, Object
    <3>. QED
        BY <2>2, <3>1, <3>2
  <2>. QED
    BY <2>1, <2>2
<1>. HIDE DEF i
<1>7. SameKey(r, i)
  <2>1. i \in Object
    BY <1>6 DEF SameKey
  <2>2. n \in 0 .. MaxLen
    <3>1. i.source_len \in 0 .. MaxLen /\ i.source_len < MaxLen
        BY <1>1, <1>3, <1>6, <2>1 DEF Object
    <3>. QED
        BY <3>1, BoundsAssumption
  <2>3. b \in {"none", "part", "mixed", "whole"} /\ DATA \in INIT .. COMPLETE
    BY <2>1 DEF Object, INIT, DATA, COMPLETE
  <2>. HIDE DEF n, b
  <2>. QED
    BY <2>1, <2>2, <2>3 DEF SameKey, Object
<1>8. SameKey(r, rb[o])
    BY <1>6, <1>7 DEF SameKey
<1>. HIDE DEF r
<1>9. ObjectsHold(obj') /\ SameAllocated(rb, obj')
    BY <1>3, <1>5, <1>8, EditAt
<1>10. SameAllocated(obj, obj')
    BY <1>3, <1>9 DEF SameAllocated
<1>11. \E error \in {"OK", "NOMEM"} : EndWith(o, error)
    BY <1>4 DEF AllocationFails
<1>12. recent' = recent \/ recent' = Cut(recent, o)
    BY <1>4
<1>. QED
    BY <1>1, <1>9, <1>10, <1>11, <1>12, MessageEnds

\* FETCH_FINISHED.
LEMMA FinishedHolds ==
    ASSUME IInv, NEW o \in Objects, FetchFinished(o) PROVE IInv'
<1>1. /\ run.in = "idle" /\ obj[o].fetch = "running" /\ EndWith(o, "OK")
      /\ UNCHANGED <<users, usr, held, cached, uncached, recent, all_caught_up>>
    BY DEF FetchFinished, Message, lists
<1>2. obj[o] \in Object /\ obj[o].url # None /\ ObjectsHold(obj) /\ obj \in [Objects -> Object]
    BY <1>1, Arriving
<1>. DEFINE b == IF obj[o].body = "mixed" THEN obj[o].body ELSE "whole"
            r == [obj[o] EXCEPT !.state = COMPLETE, !.fetch = "none", !.body = b]
<1>3. b \in {"none", "part", "mixed", "whole"} /\ COMPLETE \in INIT .. COMPLETE
    BY <1>2 DEF Object, INIT, COMPLETE
<1>4. obj' = [obj EXCEPT ![o].state = COMPLETE, ![o].fetch = "none", ![o].body = b]
    BY <1>2 DEF FetchFinished, Object
<1>. HIDE DEF b
<1>5. obj' = [obj EXCEPT ![o] = r]
    BY <1>2, <1>4 DEF Object
<1>6. SameKey(r, obj[o])
    BY <1>2, <1>3 DEF SameKey, Object
<1>. HIDE DEF r
<1>7. ObjectsHold(obj') /\ SameAllocated(obj, obj')
    BY <1>2, <1>5, <1>6, EditAt
<1>. QED
    BY <1>1, <1>7, MessageEnds

\* FETCH_ERROR and FETCH_CERT_ERR.
LEMMA ErrorHolds ==
    ASSUME IInv, NEW o \in Objects, FetchError(o) PROVE IInv'
<1>1. run.in = "idle" /\ obj[o].fetch = "running" /\ GiveUp(o, obj)
    BY DEF FetchError, Message
<1>2. ObjectsHold(obj) /\ obj[o].url # None /\ SameAllocated(obj, obj)
    BY <1>1, Arriving DEF SameAllocated
<1>. QED
    BY <1>1, <1>2, GivesUp

\* FETCH_TIMEDOUT.
LEMMA TimedoutHolds ==
    ASSUME IInv, NEW o \in Objects, FetchTimedout(o) PROVE IInv'
<1>1. run.in = "idle" /\ obj[o].fetch = "running"
    BY DEF FetchTimedout, Message
<1>2. /\ obj[o] \in Object /\ ObjectsHold(obj) /\ obj[o].url # None /\ SameAllocated(obj, obj)
      /\ obj \in [Objects -> Object]
    BY <1>1, Arriving DEF SameAllocated
<1>3. CASE obj[o].retries > 1 /\
           TryAgain(o, [obj EXCEPT ![o].retries = @ - 1, ![o].fetch = "over"])
  <2>. DEFINE n == obj[o].retries - 1
              r == [obj[o] EXCEPT !.retries = n, !.fetch = "over"]
              ob == [obj EXCEPT ![o].retries = @ - 1, ![o].fetch = "over"]
  <2>1. ob = [obj EXCEPT ![o] = r]
    BY <1>2 DEF Object
  <2>2. n \in 0 .. FetchAttempts
    BY <1>2, <1>3, BoundsAssumption DEF Object
  <2>. HIDE DEF n, ob
  <2>3. SameKey(r, obj[o])
    BY <1>2, <2>2 DEF SameKey, Object
  <2>. HIDE DEF r
  <2>4. ObjectsHold(ob) /\ SameAllocated(obj, ob)
    BY <1>2, <2>1, <2>3, EditAt
  <2>5. TryAgain(o, ob)
    BY <1>3 DEF ob
  <2>. QED
    BY <1>1, <1>2, <2>4, <2>5, TriesAgain
<1>4. CASE GiveUp(o, obj)
    BY <1>1, <1>2, <1>4, GivesUp
<1>. QED
    BY <1>3, <1>4 DEF FetchTimedout

\* FETCH_AUTH.
LEMMA AuthHolds ==
    ASSUME IInv, NEW o \in Objects, FetchAuth(o) PROVE IInv'
<1>1. run.in = "idle" /\ obj[o].fetch = "running"
    BY DEF FetchAuth, Message
<1>2. obj[o] \in Object /\ ObjectsHold(obj) /\ obj[o].url # None /\ obj \in [Objects -> Object]
    BY <1>1, Arriving
<1>3. CASE GiveUp(o, [obj EXCEPT ![o].tried_auth = FALSE])
  <2>. DEFINE r == [obj[o] EXCEPT !.tried_auth = FALSE]
              ob == [obj EXCEPT ![o].tried_auth = FALSE]
  <2>1. ob = [obj EXCEPT ![o] = r]
    BY <1>2
  <2>2. SameKey(r, obj[o])
    BY <1>2 DEF SameKey, Object
  <2>. HIDE DEF r
  <2>3. ObjectsHold(ob) /\ SameAllocated(obj, ob)
    BY <1>2, <2>1, <2>2, EditAt
  <2>. QED
    BY <1>1, <1>2, <1>3, <2>3, GivesUp
<1>4. CASE TryAgain(o, [ReleaseCandidate(obj, o) EXCEPT
                         ![o] = [Invalid(@) EXCEPT !.tried_auth = TRUE, !.fetch = "none"]])
  <2>. DEFINE rb == ReleaseCandidate(obj, o)
              i == Invalid(rb[o])
              r == [i EXCEPT !.tried_auth = TRUE, !.fetch = "none"]
              ob == [rb EXCEPT ![o] = [Invalid(@) EXCEPT !.tried_auth = TRUE, !.fetch = "none"]]
  <2>1. /\ rb[o] \in Object /\ rb[o].url # None /\ ObjectsHold(rb) /\ SameAllocated(obj, rb)
        /\ rb \in [Objects -> Object]
    BY <1>2, ReleasedKey DEF ObjectsHold
  <2>2. TryAgain(o, ob)
    BY <1>4
  <2>. HIDE DEF rb
  <2>3. ob = [rb EXCEPT ![o] = r]
    BY <2>1
  <2>. HIDE DEF i
  <2>4. SameKey(r, rb[o])
    <3>1. SameKey(i, rb[o])
        BY <2>1, RecordEdits DEF i
    <3>. QED
        BY <3>1 DEF SameKey, Object
  <2>. HIDE DEF r, ob
  <2>5. ObjectsHold(ob) /\ SameAllocated(rb, ob)
    BY <2>1, <2>3, <2>4, EditAt
  <2>6. SameAllocated(obj, ob)
    BY <2>1, <2>5 DEF SameAllocated
  <2>. QED
    BY <1>1, <1>2, <2>2, <2>5, <2>6, TriesAgain
<1>. QED
    BY <1>3, <1>4 DEF FetchAuth

\* FETCH_SSL_ERR.
LEMMA SslErrorHolds ==
    ASSUME IInv, NEW o \in Objects, FetchSslError(o) PROVE IInv'
<1>1. run.in = "idle" /\ obj[o].fetch = "running"
    BY DEF FetchSslError, Message
<1>2. /\ obj[o] \in Object /\ ObjectsHold(obj) /\ obj[o].url # None /\ SameAllocated(obj, obj)
      /\ obj \in [Objects -> Object]
    BY <1>1, Arriving DEF SameAllocated
<1>3. CASE GiveUp(o, obj)
    BY <1>1, <1>2, <1>3, GivesUp
<1>4. CASE TryAgain(o, [ReleaseCandidate(obj, o) EXCEPT
                         ![o] = [Invalid(@) EXCEPT !.tried_tls = TRUE, !.fetch = "none"]])
  <2>. DEFINE rb == ReleaseCandidate(obj, o)
              i == Invalid(rb[o])
              r == [i EXCEPT !.tried_tls = TRUE, !.fetch = "none"]
              ob == [rb EXCEPT ![o] = [Invalid(@) EXCEPT !.tried_tls = TRUE, !.fetch = "none"]]
  <2>1. /\ rb[o] \in Object /\ rb[o].url # None /\ ObjectsHold(rb) /\ SameAllocated(obj, rb)
        /\ rb \in [Objects -> Object]
    BY <1>2, ReleasedKey DEF ObjectsHold
  <2>2. TryAgain(o, ob)
    BY <1>4
  <2>. HIDE DEF rb
  <2>3. ob = [rb EXCEPT ![o] = r]
    BY <2>1
  <2>. HIDE DEF i
  <2>4. SameKey(r, rb[o])
    <3>1. SameKey(i, rb[o])
        BY <2>1, RecordEdits DEF i
    <3>. QED
        BY <3>1 DEF SameKey, Object
  <2>. HIDE DEF r, ob
  <2>5. ObjectsHold(ob) /\ SameAllocated(rb, ob)
    BY <2>1, <2>3, <2>4, EditAt
  <2>6. SameAllocated(obj, ob)
    BY <2>1, <2>5 DEF SameAllocated
  <2>. QED
    BY <1>1, <1>2, <2>2, <2>5, <2>6, TriesAgain
<1>. QED
    BY <1>3, <1>4 DEF FetchSslError

\* FETCH_PROGRESS.
LEMMA ProgressHolds ==
    ASSUME IInv, NEW o \in Objects, FetchProgress(o) PROVE IInv'
<1>1. /\ run.in = "idle" /\ obj[o].fetch = "running" /\ Send(o, "PROGRESS", None)
      /\ UNCHANGED <<obj, users, usr, held, cached, uncached, recent, all_caught_up>>
    BY DEF FetchProgress, Message, lists
<1>2. ObjectsHold(obj') /\ SameAllocated(obj, obj') /\ obj[o].url # None
    BY <1>1, Arriving DEF SameAllocated
<1>. QED
    BY <1>1, <1>2, MessageSent

\* FETCH_CERTS.
LEMMA CertsHolds ==
    ASSUME IInv, NEW o \in Objects, FetchCerts(o) PROVE IInv'
<1>1. /\ run.in = "idle" /\ obj[o].fetch = "running" /\ Send(o, "GOT_CERTS", None)
      /\ obj' = [obj EXCEPT ![o].chain = TRUE]
      /\ UNCHANGED <<users, usr, held, cached, uncached, recent, all_caught_up>>
    BY DEF FetchCerts, Message, lists
<1>2. obj[o] \in Object /\ ObjectsHold(obj) /\ obj[o].url # None
    BY <1>1, Arriving
<1>. DEFINE r == [obj[o] EXCEPT !.chain = TRUE]
<1>3. obj' = [obj EXCEPT ![o] = r]
    BY <1>1
<1>4. SameKey(r, obj[o])
    BY <1>2 DEF SameKey, Object
<1>. HIDE DEF r
<1>5. ObjectsHold(obj') /\ SameAllocated(obj, obj')
    BY <1>2, <1>3, <1>4, EditAt
<1>. QED
    BY <1>1, <1>2, <1>5, MessageSent

\* FETCH_REDIRECT: the users of the object are told first, of one that is over.
LEMMA RedirectHolds ==
    ASSUME IInv, NEW o \in Objects, FetchRedirect(o) PROVE IInv'
<1>1. /\ run.in = "idle" /\ obj[o].fetch = "running"
      /\ obj' = [ReleaseCandidate(obj, o) EXCEPT ![o] = Over(@)]
      /\ UNCHANGED <<users, usr, held, cached, uncached, all_caught_up>>
      /\ recent' = Cut(recent, o)
    BY DEF FetchRedirect, Message, Over
<1>2. ObjectsHold(obj) /\ obj[o].url # None /\ obj[o] \in Object
    BY <1>1, Arriving
<1>. DEFINE rb == ReleaseCandidate(obj, o)
            r == Over(rb[o])
<1>3. /\ rb[o] \in Object /\ rb[o].url # None /\ ObjectsHold(rb) /\ SameAllocated(obj, rb)
      /\ rb[o].redirect_count = obj[o].redirect_count
    BY <1>2, ReleasedKey
<1>. HIDE DEF rb
<1>4. SameKey(r, rb[o]) /\ r.state = COMPLETE /\ r.life = FALSE
    BY <1>3, RecordEdits
<1>5. obj' = [rb EXCEPT ![o] = r] /\ obj'[o] = r
    BY <1>1, <1>3 DEF rb, ObjectsHold
<1>. HIDE DEF r
<1>6. ObjectsHold(obj') /\ SameAllocated(rb, obj')
    BY <1>3, <1>4, <1>5, EditAt
<1>7. SameAllocated(obj, obj')
    BY <1>3, <1>6 DEF SameAllocated
<1>8. PICK target \in Targets :
          IF obj[o].redirect_count > RedirectLimit
          THEN Send(o, "ERROR", None) ELSE Send(o, "REDIRECT", target)
    BY DEF FetchRedirect
<1>9. CASE obj[o].redirect_count > RedirectLimit
    BY <1>9, <1>1, <1>2, <1>6, <1>7, <1>8, MessageSent
<1>10. CASE ~(obj[o].redirect_count > RedirectLimit)
  <2>1. obj'[o].redirect_count <= RedirectLimit
    <3>1. obj[o].redirect_count \in Nat
        <4>1. Cardinality(Objects) \in Nat
            BY FiniteAssumption, FS_CardinalityType
        <4>. QED
            BY <1>2, <4>1, BoundsAssumption DEF Object
    <3>2. obj[o].redirect_count <= RedirectLimit
        BY <1>10, <3>1, BoundsAssumption
    <3>. QED
        BY <3>2, <1>3, <1>4, <1>5 DEF SameKey
  <2>2. obj'[o].state = COMPLETE /\ ~obj'[o].life
    BY <1>4, <1>5
  <2>3. target \in Urls \union {Nowhere, None}
    BY NamesAssumption
  <2>4. Send(o, "REDIRECT", target)
    BY <1>8, <1>10
  <2>. QED
    BY <2>1, <2>2, <2>3, <2>4, <1>1, <1>2, <1>6, <1>7, MessageSent
<1>. QED
    BY <1>9, <1>10

\* `recent' when a candidate takes over the request time of the object that asked.
LEMMA InPlace ==
    ASSUME NEW o \in Objects, NEW c \in Objects, o # c, c \in Elements(cached),
           recent \in Seq(Objects), OnceIn(recent), Elements(recent) \subseteq Elements(cached)
    PROVE  /\ InPlaceOf(o, c) \in Seq(Objects) /\ OnceIn(InPlaceOf(o, c))
           /\ Elements(InPlaceOf(o, c)) \subseteq Elements(cached)
<1>. DEFINE rest == Cut(recent, c)
<1>1. rest \in Seq(Objects) /\ OnceIn(rest) /\ Elements(rest) = Elements(recent) \ {c}
    BY Cutting
<1>. HIDE DEF rest
<1>2. /\ Swap(rest, o, c) \in Seq(Objects) /\ OnceIn(Swap(rest, o, c))
      /\ Elements(Swap(rest, o, c)) \subseteq Elements(cached)
    <2>1. c \notin Elements(rest)
        BY <1>1
    <2>2. /\ Swap(rest, o, c) \in Seq(Objects) /\ OnceIn(Swap(rest, o, c))
          /\ Elements(Swap(rest, o, c)) \subseteq (Elements(rest) \ {o}) \union {c}
        BY <1>1, <2>1, Swapping
    <2>. QED
        BY <1>1, <2>2
<1>3. /\ Push(c, rest) \in Seq(Objects) /\ OnceIn(Push(c, rest))
      /\ Elements(Push(c, rest)) \subseteq Elements(cached)
    <2>1. /\ Push(c, rest) \in Seq(Objects) /\ OnceIn(Push(c, rest))
          /\ Elements(Push(c, rest)) = Elements(recent) \union {c}
        BY ToFront DEF rest
    <2>. QED
        BY <2>1
<1>4. InPlaceOf(o, c) = IF o \in Elements(recent) THEN Swap(rest, o, c) ELSE Push(c, rest)
    BY DEF InPlaceOf, Swap, rest
<1>. QED
    BY <1>2, <1>3, <1>4

\* A candidate exists, and is another object.
LEMMA CandidateAllocated ==
    ASSUME IInv, NEW o \in Objects, obj[o].candidate # None
    PROVE  /\ obj[o].candidate \in Objects /\ obj[o].candidate # o
           /\ obj[obj[o].candidate].url # None
<1>1. obj[o].candidate \in Objects /\ obj[o].candidate # o
    BY DEF IInv, ObjectsHold, Object
<1>2. CandidatesCounted
    BY InvariantIsEnough
<1>. QED
    BY <1>1, <1>2 DEF CandidatesCounted, Allocated

\* FETCH_NOTMODIFIED: the candidate takes over the users.
LEMMA NotModifiedHolds ==
    ASSUME IInv, NEW o \in Objects, FetchNotModified(o) PROVE IInv'
<1>. DEFINE c == obj[o].candidate
            n == LET m == IF obj[o].no_cache # "FRESH" THEN obj[o].no_cache ELSE obj[c].no_cache
                 IN  IF m = "ONCE" THEN "FRESH" ELSE m
            v == obj[c].validator \/ obj[o].validator
            k == obj[c].candidate_count - 1
            done(r) == [Invalid(r) EXCEPT !.fetch = "none", !.state = COMPLETE, !.candidate = None]
<1>1. /\ run.in = "idle" /\ obj[o].fetch = "running"
      /\ UNCHANGED <<held, cached, uncached, all_caught_up>>
    BY DEF FetchNotModified, Message
<1>2. /\ obj[o] \in Object /\ ObjectsHold(obj) /\ obj[o].url # None /\ obj \in [Objects -> Object]
      /\ Quiet(users, usr) /\ UsersHold(obj, users, usr, held) /\ all_caught_up \in BOOLEAN
    BY <1>1, Arriving
<1>3. ASSUME NEW r \in Object
      PROVE  /\ done(r) \in Object /\ done(r).url = r.url /\ done(r).candidate = None
             /\ done(r).candidate_count = r.candidate_count
             /\ done(r).redirect_count = r.redirect_count
  <2>1. Over(r) \in Object /\ SameKey(Over(r), r)
    BY RecordEdits DEF SameKey
  <2>2. done(r) = [Over(r) EXCEPT !.candidate = None]
    BY DEF Over
  <2>. HIDE DEF done
  <2>. QED
    BY <2>1, <2>2 DEF SameKey, Object
<1>4. CASE /\ c = None
           /\ obj' = [obj EXCEPT ![o] = [Invalid(@) EXCEPT !.fetch = "none", !.state = COMPLETE,
                                                           !.candidate = None]]
           /\ recent' = Cut(recent, o)
           /\ EndWith(o, "OK")
           /\ UNCHANGED <<users, usr>>
  <2>1. obj' = [obj EXCEPT ![o] = done(obj[o])]
    BY <1>4
  <2>2. SameKey(done(obj[o]), obj[o])
    BY <1>2, <1>3, <1>4 DEF SameKey
  <2>. HIDE DEF done
  <2>3. ObjectsHold(obj') /\ SameAllocated(obj, obj')
    BY <1>2, <2>1, <2>2, EditAt
  <2>. QED
    BY <1>1, <1>4, <2>3, MessageEnds
<1>5. ASSUME NEW life \in BOOLEAN,
             c # None, MoveUsers(o, c), EndWith(c, "OK"),
             obj' = [[obj EXCEPT ![c] = [obj[c] EXCEPT !.candidate_count = k, !.life = life,
                                                       !.validator = v, !.no_cache = n]]
                        EXCEPT ![o] = done(@)],
             recent' = IF c \in Elements(cached) THEN InPlaceOf(o, c) ELSE Cut(recent, o)
      PROVE  IInv'
  <2>. DEFINE rb == ReleaseCandidate(obj, o)
              r == [obj[c] EXCEPT !.candidate_count = k, !.life = life, !.validator = v, !.no_cache = n]
  <2>1. c \in Objects /\ c # o /\ obj[c].url # None /\ obj[c] \in Object
    BY <1>2, <1>5, CandidateAllocated
  <2>2. /\ rb = [obj EXCEPT ![c].candidate_count = k, ![o].candidate = None]
        /\ ObjectsHold(rb) /\ rb \in [Objects -> Object]
    BY <1>2, <1>5, Releasing DEF ReleaseCandidate, ObjectsHold
  <2>3. rb[c] = [obj[c] EXCEPT !.candidate_count = k] /\ rb[o] = [obj[o] EXCEPT !.candidate = None]
        /\ \A p \in Objects \ {c, o} : rb[p] = obj[p]
    BY <1>2, <2>1, <2>2
  <2>4. v \in BOOLEAN /\ n \in {"FRESH", "ALWAYS", "ONCE"}
    BY <1>2, <2>1 DEF Object
  <2>5. k \in 0 .. MaxCount
    <3>1. rb[c].candidate_count = k
        BY <2>1, <2>3 DEF Object
    <3>2. rb[c] \in Object
        BY <2>1, <2>2
    <3>. HIDE DEF rb, k
    <3>. QED
        BY <3>1, <3>2 DEF Object
  <2>6. /\ obj' = [obj EXCEPT ![c] = r, ![o] = done(obj[o])]
        /\ obj' = [p \in Objects |-> obj'[p]]
        /\ obj'[c] = r /\ obj'[o] = done(obj[o]) /\ \A p \in Objects \ {c, o} : obj'[p] = obj[p]
    <3>1. obj' = [[obj EXCEPT ![c] = r] EXCEPT ![o] = done(@)]
        BY <1>5
    <3>. HIDE DEF r, done, c
    <3>. QED
        BY <1>2, <2>1, <3>1
  <2>. HIDE DEF rb, k, v, n
  <2>7. r \in Object /\ r.url = obj[c].url /\ r.candidate = obj[c].candidate
        /\ r.candidate_count = k /\ r.redirect_count = obj[c].redirect_count
    BY <2>1, <2>4, <2>5 DEF Object
  <2>8. rb[c].url = obj[c].url /\ rb[c].candidate = obj[c].candidate
        /\ rb[c].candidate_count = k /\ rb[c].redirect_count = obj[c].redirect_count
    BY <2>1, <2>3 DEF Object
  <2>9. rb[o].url = obj[o].url /\ rb[o].candidate = None
        /\ rb[o].candidate_count = obj[o].candidate_count
        /\ rb[o].redirect_count = obj[o].redirect_count
    BY <1>2, <2>3 DEF Object
  <2>10. /\ done(obj[o]) \in Object /\ done(obj[o]).url = obj[o].url
         /\ done(obj[o]).candidate = None
         /\ done(obj[o]).candidate_count = obj[o].candidate_count
         /\ done(obj[o]).redirect_count = obj[o].redirect_count
    BY <1>2, <1>3
  <2>. HIDE DEF r, done, c
  <2>11. Keeps(rb, obj')
    <3>1. \A p \in Objects : obj'[p] \in Object
        BY <1>2, <2>6, <2>7, <2>10
    <3>2. obj' \in [Objects -> Object]
        BY <2>6, <3>1
    <3>3. ASSUME NEW p \in Objects
          PROVE  /\ obj'[p].url = rb[p].url
                 /\ obj'[p].candidate = rb[p].candidate
                 /\ obj'[p].candidate_count = rb[p].candidate_count
                 /\ obj'[p].redirect_count = rb[p].redirect_count
                 /\ rb[p].url = None => obj'[p] = rb[p]
        <4>1. CASE p = c
            BY <4>1, <2>1, <2>6, <2>7, <2>8
        <4>2. CASE p = o
            BY <4>2, <1>2, <2>6, <2>9, <2>10
        <4>3. CASE p \notin {c, o}
            BY <4>3, <2>3, <2>6
        <4>. QED
            BY <4>1, <4>2, <4>3
    <3>. QED
        BY <3>2, <3>3 DEF Keeps
  <2>12. ObjectsHold(obj')
    BY <2>2, <2>11, Editing
  <2>13. SameAllocated(obj, obj')
    <3>1. \A p \in Objects : obj'[p].url = obj[p].url
        BY <2>6, <2>7, <2>10
    <3>. QED
        BY <3>1 DEF SameAllocated
  <2>14. users' = Moved(users, o, c) /\ usr' = Following(users, usr, o, c)
    BY <1>5 DEF MoveUsers, Moved, Following
  <2>15. /\ UsersHold(obj', users', usr', held)
         /\ \A p \in Objects : Husk \notin Elements(users'[p])
         /\ \A u \in Users : usr'[u].queued = usr[u].queued
    BY <1>2, <2>1, <2>13, <2>14, UsersMove DEF Quiet, SameAllocated, Lasting
  <2>16. Quiet(users', usr')
    BY <1>2, <2>15 DEF Quiet
  <2>17. RunHolds(obj', users', usr', held, run')
    <3>1. RunHolds(obj', users', usr', held, Ending(c, "OK"))
        BY <2>1, <2>16, Ended
    <3>2. run' = Ending(c, "OK")
        BY <1>5 DEF EndWith, Ending
    <3>. QED
        BY <3>1, <3>2
  <2>18. ListsHold(obj', cached, uncached, recent')
    <3>1. ListsHold(obj, cached, uncached, recent)
        BY DEF IInv
    <3>2. CASE c \in Elements(cached)
        <4>1. /\ recent' \in Seq(Objects) /\ OnceIn(recent')
              /\ Elements(recent') \subseteq Elements(cached)
            BY <1>5, <2>1, <3>1, <3>2, InPlace DEF ListsHold
        <4>. QED
            BY <3>1, <4>1, <2>13, ListsStay
    <3>3. CASE c \notin Elements(cached)
        BY <1>5, <2>13, <3>1, <3>3, RecentStays
    <3>. QED
        BY <3>2, <3>3
  <2>. QED
    BY <1>1, <1>2, <2>12, <2>15, <2>17, <2>18 DEF IInv
<1>6. \/ /\ c = None
         /\ obj' = [obj EXCEPT ![o] = [Invalid(@) EXCEPT !.fetch = "none", !.state = COMPLETE,
                                                         !.candidate = None]]
         /\ recent' = Cut(recent, o)
         /\ EndWith(o, "OK")
         /\ UNCHANGED <<users, usr>>
      \/ \E life \in BOOLEAN :
            /\ c # None /\ MoveUsers(o, c) /\ EndWith(c, "OK")
            /\ obj' = [[obj EXCEPT ![c] = [obj[c] EXCEPT !.candidate_count = k, !.life = life,
                                                         !.validator = v, !.no_cache = n]]
                          EXCEPT ![o] = done(@)]
            /\ recent' = IF c \in Elements(cached) THEN InPlaceOf(o, c) ELSE Cut(recent, o)
    BY DEF FetchNotModified
<1>. QED
    BY <1>4, <1>5, <1>6

-----------------------------------------------------------------------------
\* The calls of clients.

\* What a step that leaves the loop alone owes to it.
LEMMA RunStays ==
    ASSUME NEW ob, NEW nb, NEW us, NEW nu, NEW ur, NEW nr, NEW h, NEW nh, NEW r,
           RunHolds(ob, us, ur, h, r),
           r.at \in Objects => (ob[r.at].url # None => nb[r.at].url # None),
           r.who # None => r.who \in Elements(nu[r.at]),
           \A p \in Objects : Husk \in Elements(nu[p]) => r.at = p /\ r.who = Husk,
           \A u \in Users : nr[u].queued => r.who = u /\ r.ev # "none" /\ u \notin nh,
           r.at \in Objects /\ ob[r.at].state = COMPLETE /\ ~ob[r.at].life =>
              /\ nb[r.at].state = COMPLETE /\ ~nb[r.at].life
              /\ nb[r.at].redirect_count = ob[r.at].redirect_count
    PROVE  RunHolds(nb, nu, nr, nh, r)
BY DEF RunHolds, Loop

\* The state in which a client calls.
LEMMA Calling ==
    ASSUME IInv, NEW call, Can(call)
    PROVE  /\ ObjectsHold(obj) /\ ListsHold(obj, cached, uncached, recent)
           /\ UsersHold(obj, users, usr, held) /\ RunHolds(obj, users, usr, held, run)
           /\ all_caught_up \in BOOLEAN
           /\ obj \in [Objects -> Object] /\ usr \in [Users -> User]
           /\ run.who # None => run.ev # "none" /\ run.at \in Objects
<1>1. run.in = "idle" => run.who = None
    BY DEF IInv, RunHolds, Loop, Idle
<1>2. run.in # "idle" => run.at \in Objects /\ run.ev # "none"
    BY DEF IInv, RunHolds, Loop, Can, ClientRuns
<1>. QED
    BY <1>1, <1>2 DEF IInv, ObjectsHold, UsersHold

\* A handle that a client holds.
LEMMA Holding ==
    ASSUME IInv, NEW u \in held
    PROVE  /\ u \in Users /\ usr[u] \in User
           /\ usr[u].object \in Objects /\ obj[usr[u].object].url # None
           /\ u \in Elements(users[usr[u].object])
<1>1. u \in Users /\ usr[u] \in User /\ usr[u].object # None
    BY DEF IInv, UsersHold
<1>2. usr[u].object \in Objects
    BY <1>1 DEF User
<1>. DEFINE d == usr[u].object
<1>3. UsersHold(obj, users, usr, held)
    BY DEF IInv
<1>4. u \in Elements(users[d]) /\ obj[d].url # None
  <2>1. d \in Objects /\ usr[u].object = d
    BY <1>2
  <2>. HIDE DEF d
  <2>. QED
    BY <1>1, <1>3, <2>1, UserListed
<1>. QED
    BY <1>1, <1>2, <1>4

\* llcache_handle_release, at once or queued.
LEMMA ReleaseHolds ==
    ASSUME IInv, NEW u \in Users, HandleRelease(u) PROVE IInv'
<1>1. /\ u \in held /\ held' = held \ {u} /\ Can("release")
      /\ UNCHANGED <<obj, cached, uncached, recent, all_caught_up, run>>
    BY DEF HandleRelease, lists
<1>. DEFINE d == usr[u].object
<1>2. /\ usr[u] \in User /\ d \in Objects /\ usr \in [Users -> User]
      /\ UsersHold(obj, users, usr, held) /\ RunHolds(obj, users, usr, held, run)
      /\ run.who # None => run.ev # "none" /\ run.at \in Objects
    BY <1>1, Holding, Calling
<1>3. CASE IsTarget(u)
  <2>1. usr' = [usr EXCEPT ![u].queued = TRUE] /\ UNCHANGED users
    BY <1>3 DEF HandleRelease
  <2>2. /\ usr'[u].object = d /\ usr'[u].queued = TRUE /\ usr'[u] \in User
        /\ \A v \in Users \ {u} : usr'[v] = usr[v]
    BY <1>2, <2>1 DEF User
  <2>3. usr' \in [Users -> User]
    <3>1. \A v \in Users : usr'[v] \in User
        BY <1>2, <2>2
    <3>2. usr' = [v \in Users |-> usr'[v]]
        BY <1>2, <2>1
    <3>. QED
        BY <3>1, <3>2
  <2>4. \A v \in Users : usr'[v].object = usr[v].object
    BY <2>2
  <2>5. UsersHold(obj, users, usr', held \ {u})
    <3>1. ASSUME NEW o \in Objects
          PROVE  {v \in Users : usr'[v].object = o} = {v \in Users : usr[v].object = o}
        BY <2>4
    <3>2. ASSUME NEW v \in Users PROVE usr'[v].object # None <=> v \in held \ {u} \/ usr'[v].queued
        <4>1. usr[v].object # None <=> v \in held \/ usr[v].queued
            BY <1>2 DEF UsersHold
        <4>. QED
            BY <4>1, <1>1, <2>2
    <3>. QED
        BY <1>2, <2>3, <3>1, <3>2 DEF UsersHold
  <2>6. RunHolds(obj, users, usr', held \ {u}, run)
    <3>1. run.who = u /\ run.ev # "none"
        BY <1>3 DEF IsTarget
    <3>2. \A v \in Users : usr'[v].queued => run.who = v /\ run.ev # "none" /\ v \notin held \ {u}
        BY <3>1, <2>2, <1>2 DEF RunHolds
    <3>. QED
        BY <1>2, <3>2, RunStays DEF RunHolds
  <2>. QED
    BY <1>1, <2>1, <2>5, <2>6 DEF IInv
<1>4. CASE ~IsTarget(u)
  <2>1. users' = Leaving(users, u, d) /\ usr' = [usr EXCEPT ![u] = NoUser]
    BY <1>4 DEF HandleRelease, Leaving
  <2>2. /\ UsersHold(obj, users', usr', held \ {u})
        /\ \A p \in Objects : Elements(users'[p]) =
              IF p = d THEN Elements(users[p]) \ {u} ELSE Elements(users[p])
    <3>0. usr[u].object = d
        OBVIOUS
    <3>. HIDE DEF d
    <3>1. /\ UsersHold(obj, Leaving(users, u, d), With(usr, u, NoUser), held \ {u})
          /\ LeftBy(users, Leaving(users, u, d), u, d)
        <4>1. UsersHold(obj, users, usr, held) /\ d \in Objects
            BY <1>2
        <4>. QED
            BY <3>0, <4>1, UsersLeave
    <3>2. UsersHold(obj, users', usr', held \ {u}) /\ LeftBy(users, users', u, d)
        BY <2>1, <3>1 DEF With
    <3>. QED
        BY <3>2 DEF LeftBy
  <2>3. run.who # u
    BY <1>2, <1>4, Names DEF IsTarget
  <2>4. ASSUME NEW v \in Users, usr'[v].queued
        PROVE  run.who = v /\ run.ev # "none" /\ v \notin held \ {u}
    <3>1. NoUser.queued = FALSE
        BY DEF NoUser
    <3>2. usr[v].queued
        BY <1>2, <2>1, <2>4, <3>1
    <3>. QED
        BY <3>2, <1>2 DEF RunHolds
  <2>5. \A p \in Objects : Husk \in Elements(users'[p]) => run.at = p /\ run.who = Husk
    BY <1>2, <2>2 DEF RunHolds
  <2>6. run.who # None => run.who \in Elements(users'[run.at])
    BY <1>2, <2>2, <2>3 DEF RunHolds
  <2>7. RunHolds(obj, users', usr', held \ {u}, run)
    BY <1>2, <2>4, <2>5, <2>6, RunStays
  <2>. QED
    BY <1>1, <2>2, <2>7 DEF IInv
<1>. QED
    BY <1>3, <1>4

\* llcache_handle_clone.
LEMMA CloneHolds ==
    ASSUME IInv, NEW u \in Users, NEW new \in Users, HandleClone(u, new) PROVE IInv'
<1>. DEFINE d == usr[u].object
            s == usr[u].state
            t == usr[u].told
            r == [NoUser EXCEPT !.object = d, !.state = s, !.told = t]
<1>1. /\ u \in held /\ new \notin held /\ usr[new].object = None /\ Can("clone")
      /\ held' = held \union {new}
      /\ users' = Joining(users, new, d) /\ usr' = [usr EXCEPT ![new] = r]
      /\ UNCHANGED <<obj, cached, uncached, recent, all_caught_up, run>>
    BY DEF HandleClone, Unused, Joining, lists
<1>2. /\ usr[u] \in User /\ d \in Objects /\ obj[d].url # None /\ usr \in [Users -> User]
      /\ UsersHold(obj, users, usr, held) /\ RunHolds(obj, users, usr, held, run)
      /\ run.who # None => run.ev # "none" /\ run.at \in Objects
    BY <1>1, Holding, Calling
<1>3. s \in INIT .. COMPLETE /\ t \in BOOLEAN
    BY <1>2 DEF User
<1>4. NoUser \in User /\ NoUser.queued = FALSE
    BY BoundsAssumption DEF NoUser, User, INIT, COMPLETE
<1>. HIDE DEF s, t, d
<1>5. r \in User /\ r.object = d /\ r.queued = FALSE
    BY <1>2, <1>3, <1>4 DEF User
<1>. HIDE DEF r
<1>6. /\ UsersHold(obj, users', usr', held')
      /\ \A p \in Objects : Elements(users'[p]) =
            IF p = d THEN Elements(users[p]) \union {new} ELSE Elements(users[p])
  <2>0. Lasting(obj, obj)
    BY DEF Lasting
  <2>1. /\ UsersHold(obj, Joining(users, new, d), With(usr, new, r), held \union {new})
        /\ \A p \in Objects : Elements(Joining(users, new, d)[p]) =
              IF p = d THEN Elements(users[p]) \union {new} ELSE Elements(users[p])
    <3>1. /\ UsersHold(obj, users, usr, held) /\ d \in Objects /\ obj[d].url # None
          /\ new \notin held /\ usr[new].object = None
        BY <1>1, <1>2
    <3>. QED
        <4>1. UsersHold(obj, Joining(users, new, d), With(usr, new, r), held \union {new})
            BY <1>5, <2>0, <3>1, UsersJoin
        <4>2. \A p \in Objects : Elements(Joining(users, new, d)[p]) =
                IF p = d THEN Elements(users[p]) \union {new} ELSE Elements(users[p])
            BY <3>1, JoinedUsers DEF UsersHold
        <4>. QED
            BY <4>1, <4>2
  <2>. QED
    BY <1>1, <2>1 DEF With
<1>7. ASSUME NEW v \in Users, usr'[v].queued
      PROVE  run.who = v /\ run.ev # "none" /\ v \notin held'
    <2>1. v # new /\ usr[v].queued
        BY <1>1, <1>2, <1>5, <1>7
    <2>. QED
        BY <2>1, <1>1, <1>2 DEF RunHolds
<1>8. \A p \in Objects : Husk \in Elements(users'[p]) => run.at = p /\ run.who = Husk
    BY <1>2, <1>6, Names DEF RunHolds
<1>9. run.who # None => run.who \in Elements(users'[run.at])
    BY <1>2, <1>6 DEF RunHolds
<1>10. RunHolds(obj, users', usr', held', run)
    BY <1>2, <1>7, <1>8, <1>9, RunStays
<1>. QED
    BY <1>1, <1>6, <1>10 DEF IInv

\* A call that changes nothing but the object of a handle, and perhaps its list.
LEMMA CallEdits ==
    ASSUME IInv, NEW o \in Objects, obj[o].url # None, NEW r, SameKey(r, obj[o]),
           obj[o].state = COMPLETE /\ ~obj[o].life => r.state = COMPLETE /\ ~r.life,
           obj' = [obj EXCEPT ![o] = r],
           UNCHANGED <<users, held, all_caught_up, run>>,
           usr' \in [Users -> User],
           \A v \in Users : usr'[v].object = usr[v].object /\ usr'[v].queued = usr[v].queued,
           ListsHold(obj', cached', uncached', recent')
    PROVE  IInv'
<1>1. /\ ObjectsHold(obj) /\ UsersHold(obj, users, usr, held) /\ obj \in [Objects -> Object]
      /\ RunHolds(obj, users, usr, held, run) /\ all_caught_up \in BOOLEAN
    BY DEF IInv, ObjectsHold
<1>2. ObjectsHold(obj') /\ SameAllocated(obj, obj')
    BY <1>1, EditAt
<1>3. UsersHold(obj', users, usr', held)
  <2>1. Lasting(obj, obj')
    BY <1>2 DEF Lasting, SameAllocated
  <2>. QED
    BY <1>1, <2>1, UsersStay
<1>4. RunHolds(obj', users, usr', held, run)
  <2>1. obj'[o] = r /\ \A p \in Objects \ {o} : obj'[p] = obj[p]
    BY <1>1
  <2>2. ASSUME run.at \in Objects, obj[run.at].state = COMPLETE, ~obj[run.at].life
        PROVE  /\ obj'[run.at].state = COMPLETE /\ ~obj'[run.at].life
               /\ obj'[run.at].redirect_count = obj[run.at].redirect_count
    <3>1. CASE run.at = o
        BY <2>1, <2>2, <3>1 DEF SameKey
    <3>2. CASE run.at # o
        BY <2>1, <2>2, <3>2
    <3>. QED
        BY <3>1, <3>2
  <2>3. run.at \in Objects => (obj[run.at].url # None => obj'[run.at].url # None)
    BY <1>2 DEF SameAllocated
  <2>4. /\ run.who # None => run.who \in Elements(users[run.at])
        /\ \A p \in Objects : Husk \in Elements(users[p]) => run.at = p /\ run.who = Husk
        /\ \A v \in Users : usr'[v].queued => run.who = v /\ run.ev # "none" /\ v \notin held
    BY <1>1 DEF RunHolds
  <2>. QED
    BY <1>1, <2>2, <2>3, <2>4, RunStays
<1>. QED
    BY <1>1, <1>2, <1>3, <1>4 DEF IInv

\* llcache_handle_abort by the only user.
LEMMA AbortAloneHolds ==
    ASSUME IInv, NEW u \in Users, AbortAlone(u) PROVE IInv'
<1>. DEFINE o == usr[u].object
            r == Over(obj[o])
<1>1. /\ u \in held
      /\ obj' = [obj EXCEPT ![o] = r]
      /\ recent' = Cut(recent, o)
      /\ usr' = [usr EXCEPT ![u].told = TRUE]
      /\ UNCHANGED <<users, held, cached, uncached, all_caught_up, run>>
    BY DEF AbortAlone, Over
<1>2. o \in Objects /\ obj[o].url # None /\ obj[o] \in Object /\ usr \in [Users -> User]
      /\ ObjectsHold(obj)
    BY <1>1, Holding DEF IInv, ObjectsHold, UsersHold
<1>3. SameKey(r, obj[o]) /\ r.state = COMPLETE /\ ~r.life
    BY <1>2, RecordEdits
<1>4. usr' \in [Users -> User]
      /\ \A v \in Users : usr'[v].object = usr[v].object /\ usr'[v].queued = usr[v].queued
    BY <1>1, <1>2 DEF User
<1>. HIDE DEF o, r
<1>5. SameAllocated(obj, obj')
    BY <1>1, <1>2, <1>3, EditAt
<1>6. ListsHold(obj', cached, uncached, recent')
    BY <1>1, <1>2, <1>5, RecentStays DEF IInv
<1>. QED
    BY <1>1, <1>2, <1>3, <1>4, <1>6, CallEdits

\* llcache_handle_force_stream.
LEMMA ForceStreamHolds ==
    ASSUME IInv, NEW u \in Users, HandleForceStream(u) PROVE IInv'
<1>. DEFINE o == usr[u].object
            r == [obj[o] EXCEPT !.stream = TRUE]
<1>1. /\ u \in held
      /\ obj' = [obj EXCEPT ![o].stream = TRUE]
      /\ cached' = Cut(cached, o) /\ recent' = Cut(recent, o)
      /\ uncached' = IF o \in Elements(cached) THEN Push(o, uncached) ELSE uncached
      /\ UNCHANGED <<users, usr, held, all_caught_up, run>>
    BY DEF HandleForceStream
<1>2. o \in Objects /\ obj[o].url # None /\ obj[o] \in Object /\ usr \in [Users -> User]
      /\ ObjectsHold(obj) /\ obj \in [Objects -> Object]
    BY <1>1, Holding DEF IInv, ObjectsHold, UsersHold
<1>. HIDE DEF o
<1>3. obj' = [obj EXCEPT ![o] = r]
    BY <1>1, <1>2
<1>4. SameKey(r, obj[o]) /\ r.state = obj[o].state /\ r.life = obj[o].life
    BY <1>2 DEF SameKey, Object
<1>. HIDE DEF r
<1>5. SameAllocated(obj, obj')
    BY <1>2, <1>3, <1>4, EditAt
<1>6. ListsHold(obj', cached', uncached', recent')
    BY <1>1, <1>2, <1>5, ListsMove DEF IInv
<1>. QED
    BY <1>1, <1>2, <1>3, <1>4, <1>6, CallEdits

\* llcache_handle_invalidate_cache_data.
LEMMA InvalidateHolds ==
    ASSUME IInv, NEW u \in Users, HandleInvalidate(u) PROVE IInv'
<1>. DEFINE o == usr[u].object
            r == [obj[o] EXCEPT !.no_cache = "ONCE"]
<1>1. /\ u \in held
      /\ obj' = [obj EXCEPT ![o].no_cache = "ONCE"]
      /\ UNCHANGED <<users, usr, held, cached, uncached, recent, all_caught_up, run>>
    BY DEF HandleInvalidate, lists
<1>2. o \in Objects /\ obj[o].url # None /\ obj[o] \in Object /\ usr \in [Users -> User]
      /\ ObjectsHold(obj) /\ obj \in [Objects -> Object]
    BY <1>1, Holding DEF IInv, ObjectsHold, UsersHold
<1>. HIDE DEF o
<1>3. obj' = [obj EXCEPT ![o] = r]
    BY <1>1, <1>2
<1>4. SameKey(r, obj[o]) /\ r.state = obj[o].state /\ r.life = obj[o].life
    BY <1>2 DEF SameKey, Object
<1>. HIDE DEF r
<1>5. SameAllocated(obj, obj')
    BY <1>2, <1>3, <1>4, EditAt
<1>6. ListsHold(obj', cached, uncached, recent)
    BY <1>2, <1>5, RecentStays DEF IInv
<1>. QED
    BY <1>1, <1>2, <1>3, <1>4, <1>6, CallEdits

\* The list that a shared object keeps when one of its handles moves to a snapshot.
LEMMA AbortRest ==
    ASSUME IInv, NEW u \in Users, NEW o \in Objects, usr[u].object = o, u \in held,
           NEW rest, rest = IF IsTarget(u) THEN Swap(users[o], u, Husk) ELSE Cut(users[o], u)
    PROVE  /\ rest \in Seq(Users \union {Husk}) /\ OnceIn(rest)
           /\ Elements(rest) \ {Husk} = Elements(users[o]) \ {Husk, u}
           /\ IsTarget(u) => Husk \in Elements(rest)
           /\ ~IsTarget(u) => Elements(rest) = Elements(users[o]) \ {u}
<1>1. UsersHold(obj, users, usr, held) /\ RunHolds(obj, users, usr, held, run)
    BY DEF IInv
<1>2. users[o] \in Seq(Users \union {Husk}) /\ OnceIn(users[o]) /\ u \in Elements(users[o])
    BY <1>1, UsersOf
<1>3. CASE IsTarget(u)
  <2>1. Husk \notin Elements(users[o])
    BY <1>1, <1>3, Names DEF RunHolds, IsTarget
  <2>2. /\ rest \in Seq(Users \union {Husk}) /\ OnceIn(rest) /\ Husk \in Elements(rest)
        /\ Elements(rest) \subseteq (Elements(users[o]) \ {u}) \union {Husk}
        /\ Elements(users[o]) \ {u} \subseteq Elements(rest)
    BY <1>2, <1>3, <2>1, Swapping
  <2>. QED
    BY <1>3, <2>1, <2>2
<1>4. CASE ~IsTarget(u)
  <2>1. /\ rest \in Seq(Users \union {Husk}) /\ OnceIn(rest)
        /\ Elements(rest) = Elements(users[o]) \ {u}
    BY <1>2, <1>4, Cutting
  <2>. QED
    BY <1>4, <2>1
<1>. QED
    BY <1>3, <1>4

\* llcache_handle_abort by one of several users, perhaps the one that is being called.
LEMMA AbortSharedHolds ==
    ASSUME IInv, NEW u \in Users, NEW new \in Objects, AbortShared(u, new) PROVE IInv'
<1>. DEFINE o == usr[u].object
            rest == IF IsTarget(u) THEN Swap(users[o], u, Husk) ELSE Cut(users[o], u)
            r == Snapshot(obj[o])
<1>1. /\ u \in held /\ obj[new].url = None /\ Can("abort")
      /\ obj' = [obj EXCEPT ![new] = r]
      /\ uncached' = Push(new, uncached)
      /\ users' = Parting(users, o, rest, new, u)
      /\ usr' = Parted(usr, u, new)
      /\ run' = IF IsTarget(u) THEN [run EXCEPT !.who = Husk] ELSE run
      /\ UNCHANGED <<held, cached, recent, all_caught_up>>
    BY DEF AbortShared, Free, Parting, Parted, Swap
<1>2. /\ o \in Objects /\ obj[o].url # None /\ obj[o] \in Object /\ usr \in [Users -> User]
      /\ ObjectsHold(obj) /\ obj \in [Objects -> Object]
    BY <1>1, Holding DEF IInv, ObjectsHold, UsersHold
<1>3. /\ UsersHold(obj, users, usr, held) /\ RunHolds(obj, users, usr, held, run)
      /\ ListsHold(obj, cached, uncached, recent)
      /\ run.who # None => run.ev # "none" /\ run.at \in Objects
    BY <1>1, Calling
<1>4. r \in Object /\ r.url # None /\ r.candidate = None /\ r.candidate_count = 0
      /\ r.redirect_count <= RedirectLimit + 1
  <2>. DEFINE ur == obj[o].url
              n == obj[o].source_len
              ch == obj[o].chain
              b == obj[o].body
  <2>1. /\ ur \in Urls \union {None} /\ ur # None /\ n \in 0 .. MaxLen
        /\ ch \in BOOLEAN /\ b \in {"none", "part", "mixed", "whole"}
    BY <1>2 DEF Object
  <2>2. r = [Blank EXCEPT !.url = ur, !.source_len = n, !.chain = ch, !.state = COMPLETE, !.body = b]
    BY DEF Snapshot
  <2>3. Blank.candidate = None /\ Blank.candidate_count = 0 /\ Blank.redirect_count = 0
    BY DEF Blank
  <2>4. COMPLETE \in INIT .. COMPLETE
    BY DEF INIT, COMPLETE
  <2>. HIDE DEF ur, n, ch, b, r
  <2>5. r \in Object
    BY <2>1, <2>2, <2>4, BlankObject DEF Object
  <2>6. r.url = ur /\ r.candidate = None /\ r.candidate_count = 0 /\ r.redirect_count = 0
    BY <2>2 DEF Blank
  <2>. QED
    BY <2>1, <2>5, <2>6, BoundsAssumption
<1>5. rest = IF IsTarget(u) THEN Swap(users[o], u, Husk) ELSE Cut(users[o], u)
    OBVIOUS
<1>. HIDE DEF r, rest
<1>6. ObjectsHold(obj') /\ obj'[new] = r /\ \A p \in Objects \ {new} : obj'[p] = obj[p]
    BY <1>1, <1>2, <1>4, Making
<1>7. ListsHold(obj', cached, uncached', recent)
    BY <1>1, <1>3, <1>4, <1>6, ListsGrow
<1>8. Lasting(obj, obj')
    BY <1>1, <1>4, <1>6 DEF Lasting
<1>9. usr[u].object = o
    OBVIOUS
<1>. HIDE DEF o
<1>10. /\ rest \in Seq(Users \union {Husk}) /\ OnceIn(rest)
       /\ Elements(rest) \ {Husk} = Elements(users[o]) \ {Husk, u}
       /\ IsTarget(u) => Husk \in Elements(rest)
       /\ ~IsTarget(u) => Elements(rest) = Elements(users[o]) \ {u}
    BY <1>1, <1>2, <1>5, <1>9, AbortRest
<1>11. /\ o # new /\ UsersHold(obj', users', usr', held)
       /\ \A v \in Users : usr'[v].queued = usr[v].queued
  <2>1. obj'[new].url # None
    BY <1>4, <1>6
  <2>2. /\ o # new /\ UsersHold(obj', Parting(users, o, rest, new, u), Parted(usr, u, new), held)
        /\ \A v \in Users : Parted(usr, u, new)[v].queued = usr[v].queued
    <3>1. UsersHold(obj, users, usr, held) /\ o \in Objects /\ obj[new].url = None
        BY <1>1, <1>2, <1>3
    <3>. QED
        BY <3>1, <2>1, <1>8, <1>9, <1>10, UsersPart
  <2>. QED
    BY <1>1, <2>2
<1>12. /\ users'[o] = rest /\ users'[new] = <<u>> /\ Elements(users'[new]) = {u}
       /\ \A p \in Objects \ {o, new} : users'[p] = users[p]
  <2>1. users \in [Objects -> Seq(Users \union {Husk})]
    BY <1>3 DEF UsersHold
  <2>2. users'[o] = rest /\ users'[new] = <<u>> /\ \A p \in Objects \ {o, new} : users'[p] = users[p]
    BY <1>1, <1>2, <1>11, <2>1 DEF Parting
  <2>3. Elements(<<u>>) = {u}
    BY DEF Elements
  <2>. QED
    BY <2>2, <2>3
<1>13. /\ run.at \in Objects =>
             (obj[run.at].url # None => obj'[run.at].url # None /\ run.at # new)
       /\ run.at \in Objects /\ obj[run.at].url # None => obj'[run.at] = obj[run.at]
    BY <1>1, <1>6
<1>14. RunHolds(obj', users', usr', held, run')
  <2>1. CASE IsTarget(u)
    <3>1. run.who = u /\ run.ev # "none" /\ run.at = o
        <4>1. run.who = u /\ run.ev # "none"
            BY <2>1 DEF IsTarget
        <4>2. u \in Elements(users[run.at]) /\ run.at \in Objects
            BY <4>1, <1>3, Names DEF RunHolds
        <4>3. usr[u].object = run.at
            BY <4>2, <1>3, UsersOf
        <4>. QED
            BY <4>1, <4>3, <1>9
    <3>2. run' = [run EXCEPT !.who = Husk] /\ run \in Run
        BY <1>1, <1>3, <2>1 DEF RunHolds, Loop
    <3>3. /\ run' \in Run /\ run'.who = Husk
          /\ run'.in = run.in /\ run'.ev = run.ev /\ run'.at = run.at /\ run'.what = run.what
        BY <3>2 DEF Run
    <3>4. Loop(run')
        <4>1. Loop(run)
            BY <1>3 DEF RunHolds
        <4>2. run.in # "idle"
            BY <4>1, <3>1 DEF Loop, Idle
        <4>. QED
            BY <4>1, <4>2, <3>1, <3>3, Names DEF Loop
    <3>5. Husk \in Elements(users'[run'.at])
        BY <1>10, <1>12, <2>1, <3>1, <3>3
    <3>6. ASSUME NEW p \in Objects, Husk \in Elements(users'[p]) PROVE run'.at = p /\ run'.who = Husk
        <4>1. p # new
            BY <3>6, <1>12, Names
        <4>2. p = o \/ Husk \in Elements(users[p])
            BY <4>1, <3>6, <1>12
        <4>3. Husk \notin Elements(users[p])
            BY <1>3, <3>1, Names DEF RunHolds
        <4>. QED
            BY <4>2, <4>3, <3>1, <3>3
    <3>7. \A v \in Users : ~usr'[v].queued
        BY <1>1, <1>3, <1>11, <3>1 DEF RunHolds
    <3>8. run.in \in {"notify", "event"} => obj'[run.at].url # None
        BY <1>3, <1>6, <1>11, <3>1, <1>2
    <3>9. run.in = "event" /\ run.what = "REDIRECT" =>
             /\ obj'[run.at].state = COMPLETE /\ ~obj'[run.at].life
             /\ obj'[run.at].redirect_count <= RedirectLimit
        BY <1>2, <1>3, <1>13, <3>1 DEF RunHolds
    <3>. QED
        BY <3>3, <3>4, <3>5, <3>6, <3>7, <3>8, <3>9 DEF RunHolds
  <2>2. CASE ~IsTarget(u)
    <3>1. run' = run /\ run.who # u
        BY <1>1, <1>3, <2>2, Names DEF IsTarget
    <3>2. ASSUME run.who # None PROVE run.who \in Elements(users'[run.at])
        <4>1. run.who \in Elements(users[run.at]) /\ run.at \in Objects
            BY <1>3, <3>2 DEF RunHolds
        <4>2. run.at # new
            <5>1. users[run.at] # <<>>
                BY <4>1, <1>3, UsersOf
            <5>2. obj[run.at].url # None
                BY <5>1, <4>1, <1>3 DEF UsersHold
            <5>. QED
                BY <5>2, <1>1
        <4>3. run.at = o => run.who \in Elements(rest)
            BY <4>1, <1>10, <2>2, <3>1
        <4>. QED
            BY <4>1, <4>2, <4>3, <1>12
    <3>3. ASSUME NEW p \in Objects, Husk \in Elements(users'[p]) PROVE run.at = p /\ run.who = Husk
        <4>1. p # new
            BY <3>3, <1>12, Names
        <4>2. Husk \in Elements(users[p])
            BY <4>1, <3>3, <1>10, <1>12, <2>2
        <4>. QED
            BY <4>2, <1>3 DEF RunHolds
    <3>4. \A v \in Users : usr'[v].queued => run.who = v /\ run.ev # "none" /\ v \notin held
        BY <1>3, <1>11 DEF RunHolds
    <3>5. /\ run.in \in {"notify", "event"} => obj'[run.at].url # None
          /\ run.in = "event" /\ run.what = "REDIRECT" =>
                /\ obj'[run.at].state = COMPLETE /\ ~obj'[run.at].life
                /\ obj'[run.at].redirect_count <= RedirectLimit
        BY <1>3, <1>13 DEF RunHolds, Loop
    <3>. QED
        BY <1>3, <3>1, <3>2, <3>3, <3>4, <3>5 DEF RunHolds
  <2>. QED
    BY <2>1, <2>2
<1>. QED
    BY <1>1, <1>3, <1>6, <1>7, <1>11, <1>14 DEF IInv

\* The object that is found for a URL.
LEMMA NewestFound ==
    ASSUME ListsHold(obj, cached, uncached, recent), NEW url
    PROVE  \/ Newest(url) = None
           \/ /\ Newest(url) \in Objects /\ Newest(url) \in Elements(cached)
              /\ obj[Newest(url)].url = url
<1>. DEFINE S == {o \in Objects : obj[o].url # url}
            a == TakenOut(recent, S)
            b == TakenOut(cached, S)
<1>1. /\ a \in Seq(Objects) /\ Elements(a) = Elements(recent) \ S
      /\ b \in Seq(Objects) /\ Elements(b) = Elements(cached) \ S
      /\ Elements(recent) \subseteq Elements(cached)
  <2>1. recent \in Seq(Objects) /\ cached \in Seq(Objects) /\ Elements(recent) \subseteq Elements(cached)
    BY DEF ListsHold
  <2>. HIDE DEF S
  <2>. QED
    BY <2>1, Remaining
<1>2. Newest(url) = IF a # <<>> THEN First(a) ELSE First(b)
    BY DEF Newest
<1>. HIDE DEF a, b
<1>3. /\ IF a = <<>> THEN First(a) = None ELSE First(a) \in Elements(a)
      /\ IF b = <<>> THEN First(b) = None ELSE First(b) \in Elements(b)
      /\ Elements(a) \subseteq Objects /\ Elements(b) \subseteq Objects
    BY <1>1, Names, Stepping
<1>4. Newest(url) = None \/ Newest(url) \in Elements(a) \/ Newest(url) \in Elements(b)
    BY <1>2, <1>3
<1>. QED
    BY <1>1, <1>3, <1>4

\* A new object.
LEMMA FetchedObject ==
    ASSUME NEW url \in Urls, NEW force \in BOOLEAN, NEW stream \in BOOLEAN,
           NEW count \in 0 .. RedirectLimit + 1
    PROVE  /\ Fetched(url, force, stream, count) \in Object
           /\ Fetched(url, force, stream, count).url = url
           /\ Fetched(url, force, stream, count).candidate = None
           /\ Fetched(url, force, stream, count).candidate_count = 0
           /\ Fetched(url, force, stream, count).redirect_count = count
           /\ Fetched(url, force, stream, count).fetch = "running"
           /\ Fetched(url, force, stream, count).state = INIT
<1>. DEFINE r == Fetched(url, force, stream, count)
<1>1. r = [Blank EXCEPT !.url = url, !.fetch = "running", !.force = force, !.stream = stream,
                        !.redirect_count = count, !.retries = FetchAttempts]
    BY DEF Fetched
<1>2. FetchAttempts \in 0 .. FetchAttempts
    BY BoundsAssumption
<1>3. count \in 0 .. RedirectLimit + 1 + Cardinality(Objects)
  <2>1. Cardinality(Objects) \in Nat
    BY FiniteAssumption, FS_CardinalityType
  <2>. QED
    BY <2>1, BoundsAssumption
<1>. HIDE DEF r
<1>4. r \in Object
    BY <1>1, <1>2, <1>3, BlankObject DEF Object
<1>5. /\ r.url = url /\ r.candidate = None /\ r.candidate_count = 0
      /\ r.redirect_count = count /\ r.fetch = "running" /\ r.state = INIT
    BY <1>1 DEF Blank
<1>. QED
    BY <1>4, <1>5 DEF r

\* What a retrieval finds or makes, and what it leaves of the rest.
LEMMA Retrieving ==
    ASSUME ObjectsHold(obj), ListsHold(obj, cached, uncached, recent),
           NEW url \in Urls, NEW force \in BOOLEAN, NEW stream \in BOOLEAN,
           NEW count \in 0 .. RedirectLimit + 1, NEW dest \in Objects,
           ObjectRetrieve(url, force, stream, count, dest)
    PROVE  /\ ObjectsHold(obj') /\ ListsHold(obj', cached', uncached', recent')
           /\ obj'[dest].url # None
           /\ obj[dest].url = None =>
                 obj'[dest].fetch = "running" /\ obj'[dest].state = INIT
           /\ obj[dest].url # None => IsFresh(dest)
           /\ \A p \in Objects : p # dest \/ obj[p].url # None =>
                 /\ obj'[p].url = obj[p].url
                 /\ obj'[p].state = obj[p].state /\ obj'[p].life = obj[p].life
                 /\ obj'[p].fetch = obj[p].fetch
                 /\ obj'[p].redirect_count = obj[p].redirect_count
<1>0. obj \in [Objects -> Object]
    BY DEF ObjectsHold
<1>00. ASSUME NEW f \in BOOLEAN
       PROVE  /\ Fetched(url, f, stream, count) \in Object
              /\ Fetched(url, f, stream, count).url = url
              /\ Fetched(url, f, stream, count).candidate = None
              /\ Fetched(url, f, stream, count).candidate_count = 0
              /\ Fetched(url, f, stream, count).redirect_count = count
              /\ Fetched(url, f, stream, count).fetch = "running"
              /\ Fetched(url, f, stream, count).state = INIT
    BY FetchedObject
<1>1. CASE RetrieveUncached(url, stream, count, dest)
  <2>. DEFINE r == Fetched(url, TRUE, stream, count)
  <2>1. /\ obj[dest].url = None
        /\ obj' = [obj EXCEPT ![dest] = r]
        /\ uncached' = Push(dest, uncached) /\ UNCHANGED <<cached, recent>>
    BY <1>1 DEF RetrieveUncached, Free
  <2>2. r \in Object /\ r.url # None /\ r.candidate = None /\ r.candidate_count = 0
        /\ r.redirect_count <= RedirectLimit + 1
        /\ r.fetch = "running" /\ r.state = INIT
    <3>1. r \in Object /\ r.url = url /\ r.candidate = None /\ r.candidate_count = 0
          /\ r.redirect_count = count /\ r.fetch = "running" /\ r.state = INIT
        BY <1>00
    <3>. HIDE DEF r
    <3>. QED
        BY <3>1, Names, BoundsAssumption
  <2>. HIDE DEF r
  <2>3. ObjectsHold(obj') /\ obj'[dest] = r /\ \A p \in Objects \ {dest} : obj'[p] = obj[p]
    BY <1>0, <2>1, <2>2, Making
  <2>4. ListsHold(obj', cached, uncached', recent)
    BY <2>1, <2>2, <2>3, ListsGrow
  <2>. QED
    BY <2>1, <2>2, <2>3, <2>4
<1>2. CASE RetrieveFresh(url, dest)
  <2>1. Newest(url) = dest /\ IsFresh(dest) /\ UNCHANGED <<obj, cached, uncached, recent>>
    BY <1>2 DEF RetrieveFresh
  <2>2. obj[dest].url = url
    BY <2>1, NewestFound, Names
  <2>. QED
    BY <2>1, <2>2, Names
<1>3. CASE RetrieveNew(url, stream, count, dest)
  <2>. DEFINE r == Fetched(url, FALSE, stream, count)
              c == Newest(url)
              v == obj[c].validator
              q == [r EXCEPT !.candidate = c, !.conditional = v]
  <2>1. /\ obj[dest].url = None
        /\ cached' = Push(dest, cached) /\ recent' = Push(dest, recent) /\ UNCHANGED uncached
    BY <1>3 DEF RetrieveNew, Free
  <2>2. r \in Object /\ r.url = url /\ r.candidate = None /\ r.candidate_count = 0
        /\ r.redirect_count = count /\ count <= RedirectLimit + 1
        /\ r.fetch = "running" /\ r.state = INIT /\ url # None
    <3>1. r \in Object /\ r.url = url /\ r.candidate = None /\ r.candidate_count = 0
          /\ r.redirect_count = count /\ r.fetch = "running" /\ r.state = INIT
        BY <1>00
    <3>. HIDE DEF r
    <3>. QED
        BY <3>1, Names, BoundsAssumption
  <2>3. \/ c = None /\ obj' = [obj EXCEPT ![dest] = r]
        \/ /\ c # None /\ obj[c].candidate_count < MaxCount
           /\ obj' = [obj EXCEPT ![c].candidate_count = @ + 1, ![dest] = q]
    BY <1>3 DEF RetrieveNew
  <2>. HIDE DEF r
  <2>4. CASE c = None /\ obj' = [obj EXCEPT ![dest] = r]
    <3>1. ObjectsHold(obj') /\ obj'[dest] = r /\ \A p \in Objects \ {dest} : obj'[p] = obj[p]
        BY <1>0, <2>1, <2>2, <2>4, Making
    <3>2. ListsHold(obj', cached', uncached, recent')
        BY <2>1, <2>2, <3>1, ListsGrow
    <3>. QED
        BY <2>1, <2>2, <3>1, <3>2
  <2>5. CASE /\ c # None /\ obj[c].candidate_count < MaxCount
             /\ obj' = [obj EXCEPT ![c].candidate_count = @ + 1, ![dest] = q]
    <3>1. c \in Objects /\ obj[c].url # None /\ obj[c] \in Object /\ c # dest
        BY <1>0, <2>1, <2>2, <2>5, NewestFound
    <3>2. v \in BOOLEAN
        BY <3>1 DEF Object
    <3>. HIDE DEF v, c
    <3>3. q \in Object /\ q.url = url /\ q.candidate = c /\ q.candidate_count = 0
          /\ q.redirect_count = count /\ q.fetch = "running" /\ q.state = INIT
        <4>1. q = [r EXCEPT !.candidate = c, !.conditional = v]
            OBVIOUS
        <4>. HIDE DEF q
        <4>2. r \in Object
            BY <2>2
        <4>3. q \in Object /\ q.candidate = c
            BY <3>1, <3>2, <4>1, <4>2 DEF Object
        <4>4. /\ q.url = r.url /\ q.candidate_count = r.candidate_count
              /\ q.redirect_count = r.redirect_count /\ q.fetch = r.fetch /\ q.state = r.state
            BY <4>1, <4>2 DEF Object
        <4>. QED
            BY <2>2, <4>3, <4>4
    <3>. HIDE DEF q
    <3>4. ObjectsHold(obj')
      <4>1. ObjectsHold([obj EXCEPT ![c].candidate_count = @ + 1, ![dest] = q])
        BY <2>1, <2>2, <2>5, <3>1, <3>3, MakingWithCandidate
      <4>. QED
        BY <2>5, <4>1
    <3>5. /\ obj'[dest] = q /\ obj'[c] = [obj[c] EXCEPT !.candidate_count = @ + 1]
          /\ \A p \in Objects \ {dest, c} : obj'[p] = obj[p]
        BY <1>0, <2>5, <3>1
    <3>6. /\ obj'[c].url = obj[c].url /\ obj'[c].state = obj[c].state /\ obj'[c].life = obj[c].life
          /\ obj'[c].fetch = obj[c].fetch /\ obj'[c].redirect_count = obj[c].redirect_count
        BY <3>1, <3>5 DEF Object
    <3>7. ASSUME NEW p \in Objects \ {dest}
          PROVE  /\ obj'[p].url = obj[p].url
                 /\ obj'[p].state = obj[p].state /\ obj'[p].life = obj[p].life
                 /\ obj'[p].fetch = obj[p].fetch
                 /\ obj'[p].redirect_count = obj[p].redirect_count
        BY <3>5, <3>6
    <3>8. ListsHold(obj', cached', uncached, recent')
        BY <2>1, <2>2, <3>3, <3>5, <3>7, ListsGrow
    <3>. QED
        BY <2>1, <2>2, <3>3, <3>4, <3>5, <3>7, <3>8
  <2>. QED
    BY <2>3, <2>4, <2>5
<1>. QED
    BY <1>1, <1>2, <1>3 DEF ObjectRetrieve

\* llcache_handle_retrieve.
LEMMA RetrieveHolds ==
    ASSUME IInv, NEW u \in Users, NEW url \in Urls, NEW force \in BOOLEAN, NEW stream \in BOOLEAN,
           HandleRetrieve(u, url, force, stream)
    PROVE  IInv'
<1>1. PICK dest \in Objects :
          /\ ObjectRetrieve(url, force, stream, 0, dest)
          /\ users' = [users EXCEPT ![dest] = Push(u, @)]
          /\ usr' = [usr EXCEPT ![u] = [NoUser EXCEPT !.object = dest]]
    BY DEF HandleRetrieve
<1>2. /\ u \notin held /\ usr[u].object = None /\ held' = held \union {u}
      /\ all_caught_up' = FALSE /\ run' = run
      /\ \E call : Can(call)
    BY DEF HandleRetrieve, Unused, NotCaughtUp
<1>3. /\ ObjectsHold(obj) /\ ListsHold(obj, cached, uncached, recent)
      /\ UsersHold(obj, users, usr, held) /\ RunHolds(obj, users, usr, held, run)
      /\ run.who # None => run.at \in Objects
    BY <1>2, Calling
<1>4. 0 \in 0 .. RedirectLimit + 1
    BY BoundsAssumption
<1>5. /\ ObjectsHold(obj') /\ ListsHold(obj', cached', uncached', recent')
      /\ obj'[dest].url # None
      /\ \A p \in Objects : p # dest \/ obj[p].url # None =>
            /\ obj'[p].url = obj[p].url
            /\ obj'[p].state = obj[p].state /\ obj'[p].life = obj[p].life
            /\ obj'[p].redirect_count = obj[p].redirect_count
    BY <1>1, <1>3, <1>4, Retrieving
<1>6. Lasting(obj, obj')
    BY <1>5 DEF Lasting
<1>. DEFINE r == [NoUser EXCEPT !.object = dest]
<1>7. r \in User /\ r.object = dest /\ r.queued = FALSE
  <2>1. NoUser \in User /\ NoUser.queued = FALSE
    BY BoundsAssumption DEF NoUser, User, INIT, COMPLETE
  <2>. QED
    BY <2>1 DEF User
<1>8. users' = Joining(users, u, dest) /\ usr' = With(usr, u, r)
    BY <1>1 DEF Joining, With
<1>. HIDE DEF r
<1>9. UsersHold(obj', users', usr', held')
  <2>1. UsersHold(obj', Joining(users, u, dest), With(usr, u, r), held \union {u})
    BY <1>2, <1>3, <1>5, <1>6, <1>7, UsersJoin
  <2>. QED
    BY <1>2, <1>8, <2>1
<1>10. \A p \in Objects : Elements(users'[p]) =
          IF p = dest THEN Elements(users[p]) \union {u} ELSE Elements(users[p])
  <2>1. users \in [Objects -> Seq(Users \union {Husk})]
    BY <1>3 DEF UsersHold
  <2>2. \A p \in Objects : Elements(Joining(users, u, dest)[p]) =
           IF p = dest THEN Elements(users[p]) \union {u} ELSE Elements(users[p])
    BY <2>1, JoinedUsers
  <2>. QED
    BY <1>8, <2>2
<1>11. RunHolds(obj', users', usr', held', run)
  <2>1. ASSUME NEW v \in Users, usr'[v].queued
        PROVE  run.who = v /\ run.ev # "none" /\ v \notin held'
    <3>1. usr \in [Users -> User]
        BY <1>3 DEF UsersHold
    <3>2. v # u /\ usr[v].queued
        BY <1>7, <1>8, <2>1, <3>1 DEF With
    <3>. QED
        BY <1>2, <1>3, <3>2 DEF RunHolds
  <2>2. \A p \in Objects : Husk \in Elements(users'[p]) => run.at = p /\ run.who = Husk
    BY <1>3, <1>10, Names DEF RunHolds
  <2>3. run.who # None => run.who \in Elements(users'[run.at])
    BY <1>3, <1>10 DEF RunHolds
  <2>4. ASSUME run.at \in Objects, obj[run.at].state = COMPLETE
        PROVE  obj[run.at].url # None
    BY <1>3, <2>4 DEF ObjectsHold, Blank, INIT, COMPLETE
  <2>5. run.at \in Objects /\ obj[run.at].state = COMPLETE /\ ~obj[run.at].life =>
              /\ obj'[run.at].state = COMPLETE /\ ~obj'[run.at].life
              /\ obj'[run.at].redirect_count = obj[run.at].redirect_count
    BY <2>4, <1>5
  <2>6. run.at \in Objects => (obj[run.at].url # None => obj'[run.at].url # None)
    BY <1>6 DEF Lasting
  <2>. QED
    BY <1>3, <2>1, <2>2, <2>3, <2>5, <2>6, RunStays
<1>. QED
    BY <1>2, <1>5, <1>9, <1>11 DEF IInv

-----------------------------------------------------------------------------
\* Time, and the discarding of objects.

\* The end of a lifetime.
LEMMA ExpireHolds ==
    ASSUME IInv, NEW o \in Objects, Expire(o) PROVE IInv'
<1>. DEFINE r == [obj[o] EXCEPT !.life = FALSE]
<1>1. /\ obj[o].life
      /\ obj' = [obj EXCEPT ![o].life = FALSE]
      /\ UNCHANGED <<users, usr, held, cached, uncached, recent, all_caught_up, run>>
    BY DEF Expire, lists
<1>2. /\ obj[o] \in Object /\ usr \in [Users -> User]
      /\ ObjectsHold(obj) /\ obj \in [Objects -> Object]
    BY DEF IInv, ObjectsHold, UsersHold
<1>3. obj[o].url # None
    BY <1>1, <1>2 DEF ObjectsHold, Blank
<1>4. obj' = [obj EXCEPT ![o] = r]
    BY <1>1, <1>2
<1>5. SameKey(r, obj[o]) /\ r.state = obj[o].state /\ r.life = FALSE
    BY <1>2 DEF SameKey, Object
<1>. HIDE DEF r
<1>6. SameAllocated(obj, obj')
    BY <1>2, <1>3, <1>4, <1>5, EditAt
<1>7. ListsHold(obj', cached, uncached, recent)
    BY <1>2, <1>6, RecentStays DEF IInv
<1>. QED
    BY <1>1, <1>2, <1>3, <1>4, <1>5, <1>7, CallEdits

\* Nothing that is in use is discarded.
LEMMA ExcessUnused ==
    ASSUME ListsHold(obj, cached, uncached, recent), NEW n \in 0 .. Len(Spare)
    PROVE  /\ Excess(n) \in SUBSET Objects
           /\ \A o \in Excess(n) : users[o] = <<>> /\ obj[o].candidate_count = 0
                                   /\ obj[o].fetch = "none"
<1>. DEFINE S == {o \in Objects : InUse(o) \/ ~HasLifetime(o)}
<1>1. Spare \in Seq(Objects) /\ Elements(Spare) = Elements(cached) \ S
  <2>1. cached \in Seq(Objects)
    BY DEF ListsHold
  <2>. HIDE DEF S
  <2>2. Spare = TakenOut(cached, S)
    BY DEF Spare, S
  <2>. QED
    BY <2>1, <2>2, Remaining
<1>2. Elements(cached) \subseteq Objects
    BY DEF ListsHold
<1>3. ASSUME NEW i \in 1 .. n PROVE Spare[i] \in Objects /\ ~InUse(Spare[i])
  <2>1. Len(Spare) \in Nat /\ DOMAIN Spare = 1 .. Len(Spare)
    BY <1>1
  <2>2. i \in DOMAIN Spare
    BY <2>1
  <2>3. Spare[i] \in Elements(Spare)
    BY <2>2 DEF Elements
  <2>4. Spare[i] \in Objects \ S
    BY <1>1, <1>2, <2>3
  <2>. QED
    BY <2>4
<1>4. \A o \in Stale : o \in Objects /\ ~InUse(o)
    BY DEF Stale
<1>5. ASSUME NEW o \in Excess(n) PROVE o \in Objects /\ ~InUse(o)
    BY <1>3, <1>4 DEF Excess
<1>. QED
    BY <1>5 DEF InUse

\* Discarding unused objects that are nobody's candidate.
LEMMA Discarding ==
    ASSUME NEW ob, NEW re, ObjectsHold(ob), ListsHold(ob, cached, uncached, re),
           UsersHold(ob, users, usr, held),
           NEW S \in SUBSET Objects, \A o \in S : users[o] = <<>> /\ ob[o].candidate_count = 0
    PROVE  /\ ObjectsHold(Destroyed(ob, S))
           /\ ListsHold(Destroyed(ob, S), TakenOut(cached, S), TakenOut(uncached, S), TakenOut(re, S))
           /\ UsersHold(Destroyed(ob, S), users, usr, held)
<1>. DEFINE nb == Destroyed(ob, S)
<1>1. ObjectsHold(nb)
    BY Destroying
<1>2. \A p \in Objects : nb[p] = IF p \in S THEN Blank ELSE ob[p]
    BY DEF Destroyed
<1>3. Blank.url = None
    BY DEF Blank
<1>. HIDE DEF nb
<1>4. \A p \in Objects : nb[p].url = None <=> p \in S \/ ob[p].url = None
    BY <1>2, <1>3
<1>5. ListsHold(nb, TakenOut(cached, S), TakenOut(uncached, S), TakenOut(re, S))
    BY <1>4, ListsShrink
<1>6. UsersHold(nb, users, usr, held)
  <2>1. \A p \in Objects : users[p] # <<>> => nb[p].url # None
    BY <1>4 DEF UsersHold
  <2>. QED
    BY <2>1 DEF UsersHold
<1>. QED
    BY <1>1, <1>5, <1>6 DEF nb

\* llcache_clean.
LEMMA CleanHolds ==
    ASSUME IInv, Clean PROVE IInv'
<1>1. PICK n \in 0 .. Len(Spare) : obj' = Destroyed(obj, Excess(n)) /\ RemoveFromLists(Excess(n))
    BY DEF Clean
<1>2. run.in = "idle" /\ UNCHANGED <<users, usr, held, all_caught_up, run>>
    BY DEF Clean
<1>3. /\ run = Idle /\ Quiet(users, usr) /\ ObjectsHold(obj)
      /\ UsersHold(obj, users, usr, held) /\ all_caught_up \in BOOLEAN
    BY <1>2, Arriving
<1>4. ListsHold(obj, cached, uncached, recent)
    BY DEF IInv
<1>. DEFINE S == Excess(n)
<1>5. /\ S \in SUBSET Objects
      /\ \A o \in S : users[o] = <<>> /\ obj[o].candidate_count = 0
    BY <1>4, ExcessUnused
<1>6. /\ obj' = Destroyed(obj, S)
      /\ cached' = TakenOut(cached, S) /\ uncached' = TakenOut(uncached, S)
      /\ recent' = TakenOut(recent, S)
    BY <1>1 DEF RemoveFromLists
<1>. HIDE DEF S
<1>7. /\ ObjectsHold(obj') /\ ListsHold(obj', cached', uncached', recent')
      /\ UsersHold(obj', users, usr, held)
    BY <1>3, <1>4, <1>5, <1>6, Discarding
<1>8. RunHolds(obj', users, usr, held, Idle)
    BY <1>3, Idling
<1>. QED
    BY <1>2, <1>3, <1>7, <1>8 DEF IInv

\* The end of llcache_fetch_callback, with the purge an allocation failure causes.
LEMMA EndCallbackHolds ==
    ASSUME IInv, EndCallback PROVE IInv'
<1>. DEFINE o == run.at
            S == IF run.err = "NOMEM" THEN Excess(Len(Spare)) ELSE {}
            stops == run.err # "OK" /\ obj[o].fetch # "none" /\ o \notin S
            ob == IF stops THEN [obj EXCEPT ![o] = Over(obj[o])] ELSE obj
            re == IF stops THEN Cut(recent, o) ELSE recent
<1>1. /\ run.in = "end" /\ all_caught_up' = FALSE /\ run' = Idle
      /\ UNCHANGED <<users, usr, held>>
    BY DEF EndCallback, NotCaughtUp
<1>2. /\ obj' = Destroyed(ob, S)
      /\ cached' = TakenOut(cached, S) /\ uncached' = TakenOut(uncached, S)
      /\ recent' = TakenOut(re, S)
    BY DEF EndCallback, Over
<1>3. /\ ObjectsHold(obj) /\ ListsHold(obj, cached, uncached, recent)
      /\ UsersHold(obj, users, usr, held) /\ obj \in [Objects -> Object]
      /\ o \in Objects /\ run.ev = "none"
    BY <1>1 DEF IInv, ObjectsHold, RunHolds, Loop
<1>4. Quiet(users, usr)
    BY <1>3, QuietBetween DEF IInv
<1>5. /\ S \in SUBSET Objects
      /\ \A p \in S : users[p] = <<>> /\ obj[p].candidate_count = 0
  <2>1. Spare \in Seq(Objects)
    BY <1>3, Remaining DEF ListsHold, Spare
  <2>2. Len(Spare) \in 0 .. Len(Spare)
    BY <2>1
  <2>. QED
    BY <1>3, <2>2, ExcessUnused
<1>. HIDE DEF S
<1>6. /\ ObjectsHold(ob) /\ SameAllocated(obj, ob)
      /\ \A p \in Objects : ob[p].candidate_count = obj[p].candidate_count
      /\ ListsHold(ob, cached, uncached, re)
  <2>1. CASE stops
    <3>1. obj[o] \in Object /\ obj[o].url # None
        BY <1>3, <2>1 DEF ObjectsHold, Blank
    <3>2. SameKey(Over(obj[o]), obj[o])
        BY <3>1, RecordEdits
    <3>. DEFINE r == Over(obj[o])
    <3>3. ob = [obj EXCEPT ![o] = r] /\ re = Cut(recent, o)
        BY <2>1
    <3>. HIDE DEF r, ob, re, stops
    <3>4. ObjectsHold(ob) /\ SameAllocated(obj, ob)
        BY <1>3, <3>1, <3>2, <3>3, EditAt DEF r
    <3>5. \A p \in Objects : ob[p].candidate_count = obj[p].candidate_count
        BY <1>3, <3>2, <3>3 DEF SameKey, r
    <3>6. ListsHold(ob, cached, uncached, re)
        BY <1>3, <3>3, <3>4, RecentStays
    <3>. QED
        BY <3>4, <3>5, <3>6
  <2>2. CASE ~stops
    BY <2>2, <1>3 DEF SameAllocated
  <2>. QED
    BY <2>1, <2>2
<1>. HIDE DEF ob, re
<1>7. UsersHold(ob, users, usr, held)
    BY <1>3, <1>6 DEF UsersHold, SameAllocated
<1>8. /\ ObjectsHold(obj') /\ ListsHold(obj', cached', uncached', recent')
      /\ UsersHold(obj', users, usr, held)
    BY <1>2, <1>5, <1>6, <1>7, Discarding
<1>9. RunHolds(obj', users, usr, held, Idle)
    BY <1>4, Idling
<1>. QED
    BY <1>1, <1>8, <1>9 DEF IInv

-----------------------------------------------------------------------------
\* The end of an event.

\* The user that is being called.
LEMMA Called ==
    ASSUME IInv, run.in \in {"event", "notify"}, run.ev # "none"
    PROVE  /\ run.at \in Objects /\ obj[run.at].url # None /\ run.who \in Users \union {Husk}
           /\ run.who \in Elements(users[run.at])
           /\ run.who \in Users => usr[run.who].object = run.at
           /\ UsersHold(obj, users, usr, held) /\ ObjectsHold(obj)
           /\ ListsHold(obj, cached, uncached, recent) /\ all_caught_up \in BOOLEAN
           /\ run \in Run
<1>1. RunHolds(obj, users, usr, held, run) /\ Loop(run) /\ run \in Run
    BY DEF IInv, RunHolds, Loop
<1>2. run.at \in Objects /\ run.who # None
    BY <1>1 DEF Loop
<1>3. run.who \in Users \union {Husk}
    BY <1>1, <1>2 DEF Run
<1>4. obj[run.at].url # None /\ run.who \in Elements(users[run.at])
    BY <1>1, <1>2 DEF RunHolds
<1>5. UsersHold(obj, users, usr, held)
    BY DEF IInv
<1>6. run.who \in Users => usr[run.who].object = run.at
    BY <1>2, <1>4, <1>5, UsersOf
<1>. QED
    BY <1>1, <1>2, <1>3, <1>4, <1>5, <1>6 DEF IInv

\* A record that was queued, or left as a husk, goes.
LEMMA Leaves ==
    ASSUME IInv, run.in \in {"event", "notify"}, run.ev # "none",
           Gone(run.who), Deleted(run.who)
    PROVE  /\ UsersHold(obj, users', usr', held) /\ Quiet(users', usr')
           /\ Elements(users'[run.at]) = Elements(users[run.at]) \ {run.who}
<1>. DEFINE o == run.at
            w == run.who
<1>1. /\ o \in Objects /\ w \in Users \union {Husk} /\ w \in Elements(users[o])
      /\ w \in Users => usr[w].object = o
      /\ UsersHold(obj, users, usr, held)
    BY Called
<1>2. RunHolds(obj, users, usr, held, run)
    BY DEF IInv
<1>3. users' = Leaving(users, w, o) /\ usr' = IF w = Husk THEN usr ELSE With(usr, w, NoUser)
    BY DEF Deleted, Leaving, With
<1>4. /\ \A p \in Objects : Husk \in Elements(users[p]) => o = p /\ w = Husk
      /\ \A u \in Users : usr[u].queued => w = u /\ u \notin held
    BY <1>2 DEF RunHolds
<1>5. w \in Users => usr[w].queued
    BY Names DEF Gone
<1>. HIDE DEF o, w
<1>6. CASE w = Husk
  <2>1. /\ UsersHold(obj, Leaving(users, Husk, o), usr, held)
        /\ LeftBy(users, Leaving(users, Husk, o), Husk, o)
    <3>1. UsersHold(obj, users, usr, held) /\ o \in Objects /\ Husk \in Elements(users[o])
        BY <1>1, <1>6
    <3>. QED
        BY <3>1, HuskLeaves
  <2>2. /\ UsersHold(obj, users', usr', held)
        /\ \A p \in Objects : Elements(users'[p]) =
              IF p = o THEN Elements(users[p]) \ {Husk} ELSE Elements(users[p])
    <3>1. UsersHold(obj, users', usr', held) /\ LeftBy(users, users', Husk, o)
        BY <1>3, <1>6, <2>1
    <3>. QED
        BY <3>1 DEF LeftBy
  <2>3. Quiet(users', usr')
    <3>1. \A p \in Objects : Husk \notin Elements(users'[p])
        BY <1>4, <2>2
    <3>2. \A u \in Users : ~usr'[u].queued
        BY <1>3, <1>4, <1>6, Names
    <3>. QED
        BY <3>1, <3>2 DEF Quiet
  <2>. QED
    BY <1>1, <1>6, <2>2, <2>3 DEF o, w
<1>7. CASE w # Husk
  <2>1. w \in Users /\ usr[w].object = o /\ w \notin held
    BY <1>1, <1>4, <1>5, <1>7
  <2>2. held \ {w} = held
    BY <2>1
  <2>3. /\ UsersHold(obj, Leaving(users, w, o), With(usr, w, NoUser), held \ {w})
        /\ LeftBy(users, Leaving(users, w, o), w, o)
    <3>1. UsersHold(obj, users, usr, held) /\ o \in Objects
        BY <1>1
    <3>. QED
        BY <2>1, <3>1, UsersLeave
  <2>4. /\ UsersHold(obj, users', usr', held)
        /\ \A p \in Objects : Elements(users'[p]) =
              IF p = o THEN Elements(users[p]) \ {w} ELSE Elements(users[p])
    <3>1. UsersHold(obj, users', usr', held) /\ LeftBy(users, users', w, o)
        BY <1>3, <1>7, <2>2, <2>3
    <3>. QED
        BY <3>1 DEF LeftBy
  <2>5. Quiet(users', usr')
    <3>1. \A p \in Objects : Husk \notin Elements(users'[p])
        BY <1>4, <1>7, <2>4
    <3>2. ASSUME NEW u \in Users PROVE ~usr'[u].queued
        <4>1. usr \in [Users -> User] /\ NoUser.queued = FALSE
            BY <1>1 DEF UsersHold, NoUser
        <4>2. usr'[u] = IF u = w THEN NoUser ELSE usr[u]
            BY <1>3, <1>7, <4>1 DEF With
        <4>. QED
            BY <4>1, <4>2, <1>4
    <3>. QED
        BY <3>1, <3>2 DEF Quiet
  <2>. QED
    BY <1>1, <2>4, <2>5 DEF o, w
<1>. QED
    BY <1>6, <1>7

\* A user that is not gone stays, and nothing is queued.
LEMMA StaysOn ==
    ASSUME IInv, run.in \in {"event", "notify"}, run.ev # "none",
           ~Gone(run.who), UNCHANGED users, usr' \in [Users -> User],
           \A u \in Users : usr'[u].object = usr[u].object /\ usr'[u].queued = usr[u].queued
    PROVE  UsersHold(obj, users', usr', held) /\ Quiet(users', usr')
<1>1. UsersHold(obj, users, usr, held) /\ RunHolds(obj, users, usr, held, run)
    BY DEF IInv
<1>2. Lasting(obj, obj)
    BY DEF Lasting
<1>3. UsersHold(obj, users', usr', held)
    BY <1>1, <1>2, UsersStay
<1>4. run.who # Husk /\ (run.who \in Users => ~usr[run.who].queued)
    BY DEF Gone
<1>5. Quiet(users', usr')
    BY <1>1, <1>4 DEF RunHolds, Quiet
<1>. QED
    BY <1>3, <1>5

\* The next user of the list.
LEMMA UserAfter ==
    ASSUME UsersHold(obj, users, usr, held), NEW o \in Objects, NEW w \in Users \union {Husk}
    PROVE  \/ After(users[o], w) = None
           \/ After(users[o], w) \in Elements(users[o]) \ {w}
<1>1. users[o] \in Seq(Users \union {Husk}) /\ OnceIn(users[o])
    BY UsersOf
<1>2. None \notin Users \union {Husk}
    BY Names
<1>. DEFINE T == Users \union {Husk}
            s == users[o]
<1>3. s \in Seq(T) /\ OnceIn(s) /\ None \notin T /\ w \in T
    BY <1>1, <1>2
<1>. HIDE DEF T, s
<1>4. After(s, w) # None => After(s, w) \in Elements(s) /\ After(s, w) # w
    BY <1>3, Stepping
<1>. QED
    BY <1>4 DEF s

\* The record of a user whose event is over goes, or nothing is queued.
LEMMA Returned ==
    ASSUME IInv, NEW result \in Results, EventReturns(result)
    PROVE  /\ UsersHold(obj, users', usr', held) /\ Quiet(users', usr')
           /\ Elements(users[run.at]) \ {run.who} \subseteq Elements(users'[run.at])
<1>. DEFINE w == run.who
<1>1. run.in = "event" /\ run.ev # "none"
    BY DEF EventReturns
<1>2. CASE Gone(w)
  <2>1. Deleted(w)
    BY <1>2 DEF EventReturns
  <2>. QED
    BY <1>1, <1>2, <2>1, Leaves
<1>3. CASE ~Gone(w)
  <2>1. /\ UNCHANGED users
        /\ usr' = IF run.what = "ERROR" THEN [usr EXCEPT ![w].told = TRUE] ELSE usr
    BY <1>3 DEF EventReturns
  <2>2. usr \in [Users -> User]
    BY DEF IInv, UsersHold
  <2>3. /\ usr' \in [Users -> User]
        /\ \A u \in Users : usr'[u].object = usr[u].object /\ usr'[u].queued = usr[u].queued
    BY <2>1, <2>2 DEF User
  <2>. QED
    BY <1>1, <1>3, <2>1, <2>3, StaysOn
<1>. QED
    BY <1>2, <1>3

\* The callback of a user returns to llcache_send_event_to_users.
LEMMA EventReturnsHolds ==
    ASSUME IInv, NEW result \in Results, EventReturns(result) PROVE IInv'
<1>. DEFINE o == run.at
            w == run.who
            next == After(users[o], w)
            e == IF next = None THEN "none" ELSE run.what
<1>1. /\ run.in = "event" /\ run.ev # "none"
      /\ UNCHANGED <<obj, held, cached, uncached, recent, all_caught_up>>
    BY DEF EventReturns, lists
<1>2. /\ o \in Objects /\ obj[o].url # None /\ w \in Users \union {Husk}
      /\ UsersHold(obj, users, usr, held) /\ ObjectsHold(obj)
      /\ ListsHold(obj, cached, uncached, recent) /\ all_caught_up \in BOOLEAN
      /\ run \in Run
    BY <1>1, Called
<1>3. /\ UsersHold(obj, users', usr', held) /\ Quiet(users', usr')
      /\ Elements(users[o]) \ {w} \subseteq Elements(users'[o])
    BY Returned
<1>4. CASE result # "OK"
  <2>1. run' = Ending(o, result)
    BY <1>4 DEF EventReturns, EndWith, Ending
  <2>2. RunHolds(obj, users', usr', held, Ending(o, result))
    BY <1>2, <1>3, Ended
  <2>. QED
    BY <1>1, <1>2, <1>3, <2>1, <2>2 DEF IInv
<1>5. CASE result = "OK"
  <2>1. run' = [run EXCEPT !.who = next, !.ev = e]
    BY <1>5 DEF EventReturns
  <2>2. next = None \/ next \in Elements(users[o]) \ {w}
    BY <1>2, UserAfter
  <2>3. next = None \/ next \in Elements(users'[o])
    BY <1>3, <2>2
  <2>4. next = None \/ next \in Users
    <3>1. Elements(users'[o]) \subseteq Users \union {Husk}
        BY <1>2, <1>3, UsersOf
    <3>2. Husk \notin Elements(users'[o])
        BY <1>2, <1>3 DEF Quiet
    <3>. QED
        BY <2>3, <3>1, <3>2
  <2>5. RunHolds(obj, users, usr, held, run) /\ Loop(run)
    BY DEF IInv, RunHolds
  <2>6. e \in Event /\ (e = "none" <=> next = None) /\ (e # "none" => e = run.what)
    <3>1. run.what \in {"GOT_CERTS", "ERROR", "PROGRESS", "REDIRECT"}
        BY <1>1, <2>5 DEF Loop
    <3>. HIDE DEF next
    <3>. QED
        BY <3>1 DEF Event
  <2>. HIDE DEF next, e
  <2>7. /\ run' \in Run /\ run'.who = next /\ run'.ev = e
        /\ run'.in = "event" /\ run'.at = o /\ run'.what = run.what
    BY <1>1, <1>2, <2>1, <2>4, <2>6 DEF Run
  <2>8. Loop(run')
    BY <1>1, <1>2, <2>4, <2>5, <2>6, <2>7, Names DEF Loop
  <2>9. RunHolds(obj, users', usr', held, run')
    BY <1>1, <1>2, <1>3, <2>3, <2>5, <2>7, <2>8 DEF RunHolds, Quiet
  <2>. QED
    BY <1>1, <1>2, <1>3, <2>9 DEF IInv
<1>. QED
    BY <1>4, <1>5

\* The ends of an event loop that leave everything else alone.
LEMMA LoopEnds ==
    ASSUME IInv, run.in = "event", run.who = None,
           NEW error \in {"OK"} \union Results \union {"ERROR", "NOMEM"},
           EndWith(run.at, error),
           UNCHANGED <<obj, users, usr, held, cached, uncached, recent, all_caught_up>>
    PROVE  IInv'
<1>1. RunHolds(obj, users, usr, held, run) /\ run.ev = "none" /\ run.at \in Objects
    BY DEF IInv, RunHolds, Loop
<1>2. Quiet(users, usr)
    BY <1>1, QuietBetween
<1>3. RunHolds(obj, users, usr, held, Ending(run.at, error))
    BY <1>1, <1>2, Ended
<1>4. run' = Ending(run.at, error)
    BY DEF EndWith, Ending
<1>. QED
    BY <1>3, <1>4 DEF IInv

\* The loop has reached the end of the list, and no redirect is to be followed.
LEMMA LoopEndsHold ==
    ASSUME IInv, EventSent \/ RedirectIgnored \/ RedirectFails PROVE IInv'
<1>1. /\ run.in = "event" /\ run.who = None
      /\ EndWith(run.at, "OK") \/ EndWith(run.at, "ERROR")
      /\ UNCHANGED <<obj, users, usr, held, cached, uncached, recent, all_caught_up>>
    BY DEF EventSent, RedirectIgnored, RedirectFails, lists
<1>. QED
    BY <1>1, LoopEnds

\* The rest of llcache_fetch_redirect: the target takes over the users.
LEMMA RedirectFollowedHolds ==
    ASSUME IInv, RedirectFollowed PROVE IInv'
<1>. DEFINE o == run.at
            n == obj[o].redirect_count + 1
<1>1. /\ run.in = "event" /\ run.who = None /\ run.what = "REDIRECT" /\ run.target \in Urls
      /\ UNCHANGED <<held, all_caught_up>>
    BY DEF RedirectFollowed
<1>2. /\ ObjectsHold(obj) /\ ListsHold(obj, cached, uncached, recent)
      /\ UsersHold(obj, users, usr, held) /\ RunHolds(obj, users, usr, held, run)
      /\ all_caught_up \in BOOLEAN
    BY DEF IInv
<1>3. /\ run.ev = "none" /\ o \in Objects /\ obj[o].url # None
      /\ obj[o].state = COMPLETE /\ ~obj[o].life /\ obj[o].redirect_count <= RedirectLimit
    BY <1>1, <1>2 DEF RunHolds, Loop
<1>4. Quiet(users, usr)
    BY <1>2, <1>3, QuietBetween
<1>5. obj[o].force \in BOOLEAN /\ obj[o].stream \in BOOLEAN /\ n \in 0 .. RedirectLimit + 1
  <2>1. obj[o] \in Object
    BY <1>2, <1>3 DEF ObjectsHold
  <2>2. Cardinality(Objects) \in Nat
    BY FiniteAssumption, FS_CardinalityType
  <2>3. obj[o].redirect_count \in Nat
    BY <2>1, <2>2, BoundsAssumption DEF Object
  <2>. QED
    BY <1>3, <2>1, <2>3, BoundsAssumption DEF Object
<1>6. PICK dest \in Objects :
          /\ ObjectRetrieve(run.target, obj[o].force, obj[o].stream, n, dest)
          /\ MoveUsers(o, dest)
          /\ EndWith(dest, "OK")
    BY DEF RedirectFollowed
<1>. HIDE DEF n, o
<1>7. /\ ObjectsHold(obj') /\ ListsHold(obj', cached', uncached', recent')
      /\ obj'[dest].url # None
      /\ obj[dest].url # None => IsFresh(dest)
      /\ \A p \in Objects : p # dest \/ obj[p].url # None => obj'[p].url = obj[p].url
  <2>. DEFINE f == obj[o].force
              s == obj[o].stream
              t == run.target
  <2>1. f \in BOOLEAN /\ s \in BOOLEAN /\ t \in Urls /\ ObjectRetrieve(t, f, s, n, dest)
    BY <1>1, <1>5, <1>6
  <2>. HIDE DEF f, s, t
  <2>. QED
    BY <1>2, <1>5, <2>1, Retrieving
<1>8. dest # o
    BY <1>3, <1>7 DEF IsFresh
<1>9. Lasting(obj, obj')
    BY <1>7 DEF Lasting
<1>10. users' = Moved(users, o, dest) /\ usr' = Following(users, usr, o, dest)
    BY <1>6 DEF MoveUsers, Moved, Following
<1>11. /\ UsersHold(obj', users', usr', held)
       /\ \A p \in Objects : Husk \notin Elements(users'[p])
       /\ \A u \in Users : usr'[u].queued = usr[u].queued
  <2>1. /\ UsersHold(obj', Moved(users, o, dest), Following(users, usr, o, dest), held)
        /\ \A p \in Objects : Husk \notin Elements(Moved(users, o, dest)[p])
        /\ \A u \in Users : Following(users, usr, o, dest)[u].queued = usr[u].queued
    <3>1. \A p \in Objects : Husk \notin Elements(users[p])
        BY <1>4 DEF Quiet
    <3>2. UsersHold(obj, users, usr, held) /\ o \in Objects /\ o # dest /\ obj'[dest].url # None
        BY <1>2, <1>3, <1>7, <1>8
    <3>. QED
        BY <1>9, <3>1, <3>2, UsersMove
  <2>. QED
    BY <1>10, <2>1
<1>12. Quiet(users', usr')
    BY <1>4, <1>11 DEF Quiet
<1>13. RunHolds(obj', users', usr', held, Ending(dest, "OK"))
    BY <1>12, Ended
<1>14. run' = Ending(dest, "OK")
    BY <1>6 DEF EndWith, Ending
<1>. QED
    BY <1>1, <1>2, <1>7, <1>11, <1>13, <1>14 DEF IInv

-----------------------------------------------------------------------------
\* Catching up.

\* A loop that notifies users, between two calls or in one.
LEMMA Notified ==
    ASSUME NEW us, NEW ur, NEW h, NEW ob, Quiet(us, ur), NEW r \in Run,
           r.in = "notify", r.at \in Objects, ob[r.at].url # None,
           r.who # None => r.who \in Elements(us[r.at]),
           r.ev # "none" => /\ r.who # None
                            /\ r.ev \in {"GOT_CERTS", "HAD_HEADERS", "HAD_DATA", "DONE"}
    PROVE  RunHolds(ob, us, ur, h, r)
<1>1. r.who # Husk
    BY Names DEF Quiet
<1>. QED
    BY <1>1 DEF RunHolds, Loop, Quiet

\* llcache_object_notify_users begins with the first user of an object.
LEMMA VisitOne ==
    ASSUME UsersHold(obj, users, usr, held), ObjectsHold(obj), Quiet(users, usr),
           NEW o \in Objects, obj[o].url # None, NEW phase \in {"none", "cached", "uncached"}
    PROVE  RunHolds(obj, users, usr, held,
                    [Idle EXCEPT !.in = "notify", !.phase = phase, !.at = o, !.who = First(users[o]),
                                 !.seen = obj[o].state])
<1>. DEFINE w == First(users[o])
            s == obj[o].state
            r == [Idle EXCEPT !.in = "notify", !.phase = phase, !.at = o, !.who = w, !.seen = s]
<1>1. /\ users[o] \in Seq(Users \union {Husk}) /\ Elements(users[o]) \subseteq Users
    BY UsersOf DEF Quiet
<1>2. w = None \/ (w \in Elements(users[o]) /\ w \in Users)
    BY <1>1, Names, Stepping
<1>3. s \in INIT .. COMPLETE
    BY DEF ObjectsHold, Object
<1>. HIDE DEF w, s
<1>4. r \in Run
    BY <1>2, <1>3, IdleRuns DEF Run
<1>5. r.in = "notify" /\ r.at = o /\ r.who = w /\ r.ev = "none"
    BY DEF Idle
<1>. HIDE DEF r
<1>6. RunHolds(obj, users, usr, held, r)
    BY <1>2, <1>4, <1>5, Notified
<1>. QED
    BY <1>6 DEF r, w, s

\* The catch up goes on to an object, to the other list, or ends.
LEMMA Visiting ==
    ASSUME UsersHold(obj, users, usr, held), ObjectsHold(obj), Quiet(users, usr),
           ListsHold(obj, cached, uncached, recent),
           NEW o \in Objects \union {None}, o # None => obj[o].url # None,
           NEW phase \in {"none", "cached", "uncached"}
    PROVE  RunHolds(obj, users, usr, held, Visit(phase, o))
<1>1. CASE o # None
  <2>1. o \in Objects /\ obj[o].url # None
    BY <1>1
  <2>. QED
    BY <1>1, <2>1, VisitOne DEF Visit
<1>2. CASE o = None /\ phase = "cached" /\ uncached # <<>>
  <2>. DEFINE head == First(uncached)
  <2>1. head \in Objects /\ obj[head].url # None
    <3>1. uncached \in Seq(Objects) /\ Elements(uncached) \subseteq {p \in Objects : obj[p].url # None}
        BY DEF ListsHold
    <3>2. head \in Elements(uncached)
        BY <1>2, <3>1, Names, Stepping
    <3>. QED
        BY <3>1, <3>2
  <2>. HIDE DEF head
  <2>2. "uncached" \in {"none", "cached", "uncached"}
    OBVIOUS
  <2>3. RunHolds(obj, users, usr, held,
                 [Idle EXCEPT !.in = "notify", !.phase = "uncached", !.at = head,
                              !.who = First(users[head]), !.seen = obj[head].state])
    BY <2>1, <2>2, VisitOne
  <2>4. Visit(phase, o) = [Idle EXCEPT !.in = "notify", !.phase = "uncached", !.at = head,
                                       !.who = First(users[head]), !.seen = obj[head].state]
    BY <1>2 DEF Visit, head
  <2>. QED
    BY <2>3, <2>4
<1>3. CASE o = None /\ ~(phase = "cached" /\ uncached # <<>>)
  <2>1. Visit(phase, o) = Idle
    BY <1>3 DEF Visit
  <2>. QED
    BY <2>1, Idling
<1>. QED
    BY <1>1, <1>2, <1>3

\* The first object of a list, and the one after another.
LEMMA NextInList ==
    ASSUME ListsHold(obj, cached, uncached, recent), NEW s \in {cached, uncached}
    PROVE  /\ First(s) \in Objects \union {None}
           /\ First(s) # None => obj[First(s)].url # None
           /\ \A o \in Objects : /\ After(s, o) \in Objects \union {None}
                                 /\ After(s, o) # None => obj[After(s, o)].url # None
<1>1. /\ s \in Seq(Objects) /\ OnceIn(s)
      /\ Elements(s) \subseteq {o \in Objects : obj[o].url # None}
    BY DEF ListsHold
<1>2. /\ IF s = <<>> THEN First(s) = None ELSE First(s) \in Elements(s)
      /\ \A o \in Objects : After(s, o) # None => After(s, o) \in Elements(s)
    BY <1>1, Names, Stepping
<1>. QED
    BY <1>1, <1>2, Names

\* llcache_catch_up_all_users begins.
LEMMA CatchUpHolds ==
    ASSUME IInv, CatchUp PROVE IInv'
<1>1. /\ run.in = "idle" /\ all_caught_up' = TRUE /\ run' = Visit("cached", First(cached))
      /\ UNCHANGED <<obj, users, usr, held, cached, uncached, recent>>
    BY DEF CatchUp, lists
<1>2. Quiet(users, usr)
    BY <1>1, Arriving
<1>3. /\ ObjectsHold(obj) /\ ListsHold(obj, cached, uncached, recent)
      /\ UsersHold(obj, users, usr, held)
    BY DEF IInv
<1>4. First(cached) \in Objects \union {None} /\ (First(cached) # None => obj[First(cached)].url # None)
    BY <1>3, NextInList
<1>5. RunHolds(obj, users, usr, held, Visit("cached", First(cached)))
    BY <1>2, <1>3, <1>4, Visiting
<1>. QED
    BY <1>1, <1>3, <1>5 DEF IInv

\* The state in which the loop looks at a user, or for the next object.
LEMMA Looking ==
    ASSUME IInv, run.in = "notify", run.ev = "none"
    PROVE  /\ Quiet(users, usr) /\ ObjectsHold(obj) /\ ListsHold(obj, cached, uncached, recent)
           /\ UsersHold(obj, users, usr, held) /\ all_caught_up \in BOOLEAN
           /\ run.at \in Objects /\ obj[run.at].url # None /\ obj[run.at] \in Object
           /\ run.who # None => run.who \in Elements(users[run.at])
           /\ run \in Run /\ usr \in [Users -> User] /\ obj \in [Objects -> Object]
<1>1. RunHolds(obj, users, usr, held, run)
    BY DEF IInv
<1>2. Quiet(users, usr)
    BY <1>1, QuietBetween
<1>3. /\ run.at \in Objects /\ obj[run.at].url # None /\ run \in Run
      /\ run.who # None => run.who \in Elements(users[run.at])
    BY <1>1 DEF RunHolds, Loop
<1>. QED
    BY <1>2, <1>3 DEF IInv, ObjectsHold, UsersHold

\* It goes on to the next object.
LEMMA NextObjectHolds ==
    ASSUME IInv, NextObject PROVE IInv'
<1>. DEFINE next == IF run.at \in Elements(cached) THEN After(cached, run.at)
                    ELSE After(uncached, run.at)
<1>1. /\ run.in = "notify" /\ run.who = None /\ run' = Visit(run.phase, next)
      /\ UNCHANGED <<obj, users, usr, held, cached, uncached, recent, all_caught_up>>
    BY DEF NextObject, lists
<1>2. run.ev = "none"
    BY <1>1 DEF IInv, RunHolds, Loop
<1>3. /\ Quiet(users, usr) /\ ObjectsHold(obj) /\ ListsHold(obj, cached, uncached, recent)
      /\ UsersHold(obj, users, usr, held) /\ all_caught_up \in BOOLEAN /\ run.at \in Objects
    BY <1>1, <1>2, Looking
<1>4. next \in Objects \union {None} /\ (next # None => obj[next].url # None)
    BY <1>3, NextInList
<1>5. run.phase \in {"none", "cached", "uncached"}
    BY <1>1 DEF IInv, RunHolds, Loop, Run
<1>. HIDE DEF next
<1>6. RunHolds(obj, users, usr, held, Visit(run.phase, next))
    BY <1>3, <1>4, <1>5, Visiting
<1>. QED
    BY <1>1, <1>3, <1>6 DEF IInv

\* A step of the loop at one user.
LEMMA UserStep ==
    ASSUME IInv, run.in = "notify", run.ev = "none", ObjectsHold(obj'), SameAllocated(obj, obj'),
           usr' \in [Users -> User],
           \A v \in Users : usr'[v].object = usr[v].object /\ usr'[v].queued = usr[v].queued,
           UNCHANGED <<users, held, cached, uncached, recent, all_caught_up>>,
           run' \in Run, run'.in = "notify", run'.at = run.at,
           run'.who # None => run'.who \in Elements(users[run.at]),
           run'.ev # "none" => /\ run'.who # None
                               /\ run'.ev \in {"GOT_CERTS", "HAD_HEADERS", "HAD_DATA", "DONE"}
    PROVE  IInv'
<1>1. /\ Quiet(users, usr) /\ ListsHold(obj, cached, uncached, recent)
      /\ UsersHold(obj, users, usr, held) /\ all_caught_up \in BOOLEAN
      /\ run.at \in Objects /\ obj[run.at].url # None
    BY Looking
<1>2. Lasting(obj, obj') /\ obj'[run.at].url # None
    BY <1>1 DEF Lasting, SameAllocated
<1>3. UsersHold(obj', users, usr', held)
    BY <1>1, <1>2, UsersStay
<1>4. ListsHold(obj', cached, uncached, recent)
    BY <1>1, RecentStays
<1>5. Quiet(users, usr')
    BY <1>1 DEF Quiet
<1>6. RunHolds(obj', users, usr', held, run')
    BY <1>1, <1>2, <1>5, Notified
<1>. QED
    BY <1>1, <1>3, <1>4, <1>6 DEF IInv

\* The next user is another user of the same list, or there is none.
LEMMA NextUserHolds ==
    ASSUME UsersHold(obj, users, usr, held), ObjectsHold(obj), NEW us,
           NEW r \in Run, r.in = "notify", r.at \in Objects, r.who \in Users \union {Husk},
           us = users[r.at], Elements(us) \subseteq Users \union {Husk}
    PROVE  /\ NextUser(us, r).in = "notify" /\ NextUser(us, r).at = r.at
           /\ NextUser(us, r).ev = "none"
           /\ NextUser(us, r).who # None => NextUser(us, r).who \in Elements(us) \ {r.who}
           /\ NextUser(us, r) \in Run
<1>. DEFINE w == After(us, r.who)
            s == obj[r.at].state
            n == NextUser(us, r)
<1>1. w = None \/ w \in Elements(us) \ {r.who}
    BY UserAfter
<1>2. s \in INIT .. COMPLETE
    BY DEF ObjectsHold, Object
<1>3. n = [r EXCEPT !.who = w, !.seen = s, !.ev = "none", !.orig = 0]
    BY DEF NextUser
<1>. HIDE DEF w, s, n
<1>4. 0 \in 0 .. MaxLen /\ "none" \in Event /\ w \in Users \union {Husk, None}
    BY <1>1, BoundsAssumption DEF Event
<1>5. n \in Run /\ n.in = "notify" /\ n.at = r.at /\ n.ev = "none" /\ n.who = w
    BY <1>2, <1>3, <1>4 DEF Run
<1>. QED
    BY <1>1, <1>5 DEF n

\* The events that bring one user up to date.
LEMMA NotifyUserHolds ==
    ASSUME IInv, NEW u \in Users, NotifyUser(u) PROVE IInv'
<1>1. /\ run.in = "notify" /\ run.ev = "none" /\ run.who = u
      /\ UNCHANGED <<users, held, cached, uncached, recent, all_caught_up>>
    BY DEF NotifyUser, NotifyCerts, NotifyHeaders, NotifyData, NotifyDone, NotifyNothing, Notifying,
           lists
<1>2. /\ Quiet(users, usr) /\ ObjectsHold(obj) /\ UsersHold(obj, users, usr, held)
      /\ run.at \in Objects /\ obj[run.at].url # None /\ obj[run.at] \in Object
      /\ u \in Elements(users[run.at])
      /\ run \in Run /\ usr \in [Users -> User] /\ obj \in [Objects -> Object]
    BY <1>1, Looking, Names
<1>3. SameAllocated(obj, obj)
    BY DEF SameAllocated
<1>4. /\ HEADERS \in INIT .. COMPLETE /\ DATA \in INIT .. COMPLETE
      /\ COMPLETE \in INIT .. COMPLETE /\ 0 \in 0 .. MaxLen
    BY BoundsAssumption DEF INIT, HEADERS, DATA, COMPLETE
<1>5. ASSUME NEW s \in INIT .. COMPLETE, usr' = [usr EXCEPT ![u].state = s]
      PROVE  /\ usr' \in [Users -> User]
             /\ \A v \in Users : usr'[v].object = usr[v].object /\ usr'[v].queued = usr[v].queued
    BY <1>2, <1>5 DEF User
<1>6. ASSUME NEW e \in {"none", "GOT_CERTS", "HAD_HEADERS", "DONE"}, run' = [run EXCEPT !.ev = e]
      PROVE  run' \in Run /\ run'.in = "notify" /\ run'.at = run.at /\ run'.who = u /\ run'.ev = e
    BY <1>1, <1>2, <1>6 DEF Run, Event
<1>7. CASE NotifyCerts(u)
  <2>. DEFINE e == IF obj[run.at].chain THEN "GOT_CERTS" ELSE "none"
  <2>1. /\ usr' = [usr EXCEPT ![u].state = HEADERS] /\ run' = [run EXCEPT !.ev = e]
        /\ obj' = obj
    BY <1>7 DEF NotifyCerts
  <2>2. e \in {"none", "GOT_CERTS"}
    OBVIOUS
  <2>. HIDE DEF e
  <2>3. run' \in Run /\ run'.in = "notify" /\ run'.at = run.at /\ run'.who = u /\ run'.ev = e
    BY <1>6, <2>1, <2>2
  <2>4. /\ usr' \in [Users -> User]
        /\ \A v \in Users : usr'[v].object = usr[v].object /\ usr'[v].queued = usr[v].queued
    BY <1>4, <1>5, <2>1
  <2>. QED
    BY <1>1, <1>2, <1>3, <2>1, <2>2, <2>3, <2>4, Names, UserStep
<1>8. CASE NotifyHeaders(u)
  <2>1. /\ usr' = [usr EXCEPT ![u].state = DATA] /\ run' = [run EXCEPT !.ev = "HAD_HEADERS"]
        /\ obj' = obj
    BY <1>8 DEF NotifyHeaders
  <2>. QED
    BY <1>1, <1>2, <1>3, <1>4, <1>5, <1>6, <2>1, Names, UserStep
<1>9. CASE NotifyDone(u)
  <2>1. /\ usr' = [usr EXCEPT ![u].state = COMPLETE] /\ run' = [run EXCEPT !.ev = "DONE"]
        /\ obj' = obj
    BY <1>9 DEF NotifyDone
  <2>. QED
    BY <1>1, <1>2, <1>3, <1>4, <1>5, <1>6, <2>1, Names, UserStep
<1>10. CASE NotifyNothing(u)
  <2>1. run' = NextUser(users[run.at], run) /\ obj' = obj /\ usr' = usr
    BY <1>10 DEF NotifyNothing
  <2>2. Elements(users[run.at]) \subseteq Users \union {Husk}
    BY <1>2, UsersOf
  <2>3. /\ run' \in Run /\ run'.in = "notify" /\ run'.at = run.at /\ run'.ev = "none"
        /\ run'.who # None => run'.who \in Elements(users[run.at])
    BY <1>1, <1>2, <2>1, <2>2, NextUserHolds
  <2>. QED
    BY <1>1, <1>2, <1>3, <2>1, <2>3, UserStep
<1>11. CASE NotifyData(u)
  <2>. DEFINE o == run.at
  <2>1. \E n \in 0 .. MaxLen, b \in 0 .. MaxLen :
           /\ obj' = obj \/ obj' = [obj EXCEPT ![o].source_len = 0]
           /\ usr' = [usr EXCEPT ![u].bytes = b]
           /\ run' = [run EXCEPT !.ev = "HAD_DATA", !.orig = n]
    <3>1. usr[u].bytes \in 0 .. MaxLen /\ obj[o].source_len \in 0 .. MaxLen
        BY <1>2 DEF User, Object
    <3>. QED
        BY <1>4, <1>11, <3>1 DEF NotifyData
  <2>2. PICK n \in 0 .. MaxLen, b \in 0 .. MaxLen :
           /\ obj' = obj \/ obj' = [obj EXCEPT ![o].source_len = 0]
           /\ usr' = [usr EXCEPT ![u].bytes = b]
           /\ run' = [run EXCEPT !.ev = "HAD_DATA", !.orig = n]
    BY <2>1
  <2>3. /\ usr' \in [Users -> User]
        /\ \A v \in Users : usr'[v].object = usr[v].object /\ usr'[v].queued = usr[v].queued
    BY <1>2, <2>2 DEF User
  <2>4. run' \in Run /\ run'.in = "notify" /\ run'.at = run.at /\ run'.who = u /\ run'.ev = "HAD_DATA"
    BY <1>1, <1>2, <2>2 DEF Run, Event
  <2>5. ObjectsHold(obj') /\ SameAllocated(obj, obj')
    <3>1. CASE obj' = obj
        BY <1>2, <1>3, <3>1
    <3>2. CASE obj' = [obj EXCEPT ![o].source_len = 0]
        <4>. DEFINE r == [obj[o] EXCEPT !.source_len = 0]
        <4>1. obj' = [obj EXCEPT ![o] = r]
            BY <3>2
        <4>2. SameKey(r, obj[o])
            BY <1>2, <1>4 DEF SameKey, Object
        <4>. HIDE DEF r
        <4>. QED
            BY <1>2, <4>1, <4>2, EditAt
    <3>. QED
        BY <2>2, <3>1, <3>2
  <2>. QED
    BY <1>1, <1>2, <2>3, <2>4, <2>5, Names, UserStep
<1>. QED
    BY <1>7, <1>8, <1>9, <1>10, <1>11 DEF NotifyUser

\* The callback of a user returns to llcache_object_notify_users.
LEMMA NotifyReturnsHolds ==
    ASSUME IInv, NEW result \in Results, NotifyReturns(result) PROVE IInv'
<1>. DEFINE o == run.at
            u == run.who
            next == NextUser(users[o], run)
            leave == [run EXCEPT !.who = None, !.ev = "none", !.orig = 0, !.seen = INIT]
            stay == [run EXCEPT !.ev = "none", !.orig = 0]
<1>1. /\ run.in = "notify" /\ run.ev # "none"
      /\ UNCHANGED <<obj, held, cached, uncached, recent>>
    BY DEF NotifyReturns, lists
<1>2. /\ o \in Objects /\ obj[o].url # None /\ u \in Users \union {Husk}
      /\ u \in Elements(users[o])
      /\ UsersHold(obj, users, usr, held) /\ ObjectsHold(obj)
      /\ ListsHold(obj, cached, uncached, recent) /\ all_caught_up \in BOOLEAN
      /\ run \in Run
    BY <1>1, Called
<1>3. Elements(users[o]) \subseteq Users \union {Husk}
    BY <1>2, UsersOf
<1>4. /\ next \in Run /\ next.in = "notify" /\ next.at = o /\ next.ev = "none"
      /\ next.who # None => next.who \in Elements(users[o]) \ {u}
    BY <1>1, <1>2, <1>3, NextUserHolds
<1>5. 0 \in 0 .. MaxLen /\ "none" \in Event /\ INIT \in INIT .. COMPLETE
    BY BoundsAssumption DEF Event, INIT, COMPLETE
<1>6. leave \in Run /\ leave.in = "notify" /\ leave.at = o /\ leave.ev = "none" /\ leave.who = None
    BY <1>1, <1>2, <1>5 DEF Run
<1>7. stay \in Run /\ stay.in = "notify" /\ stay.at = o /\ stay.ev = "none" /\ stay.who = u
    BY <1>1, <1>2, <1>5 DEF Run
<1>8. usr \in [Users -> User]
    BY <1>2 DEF UsersHold
<1>. HIDE DEF next, leave, stay
<1>9. ASSUME UsersHold(obj, users', usr', held), Quiet(users', usr'), all_caught_up' \in BOOLEAN,
             NEW r, run' = r,
             r \in Run, r.in = "notify", r.at = o, r.ev = "none",
             r.who # None => r.who \in Elements(users'[o])
      PROVE  IInv'
  <2>1. RunHolds(obj, users', usr', held, r)
    BY <1>2, <1>9, Notified
  <2>. QED
    BY <1>1, <1>2, <1>9, <2>1 DEF IInv
<1>10. CASE /\ Gone(u) /\ Deleted(u)
            /\ run' = IF result = "OK" THEN next ELSE leave
            /\ UNCHANGED all_caught_up
  <2>1. /\ UsersHold(obj, users', usr', held) /\ Quiet(users', usr')
        /\ Elements(users'[o]) = Elements(users[o]) \ {u}
    BY <1>1, <1>10, Leaves
  <2>2. run' = next \/ run' = leave
    BY <1>10
  <2>. QED
    BY <1>2, <1>4, <1>6, <1>9, <1>10, <2>1, <2>2
<1>11. CASE /\ ~Gone(u) /\ run' = stay /\ UNCHANGED <<users, usr, all_caught_up>>
  <2>1. UsersHold(obj, users', usr', held) /\ Quiet(users', usr')
    BY <1>1, <1>8, <1>11, StaysOn
  <2>. QED
    BY <1>2, <1>7, <1>9, <1>11, <2>1
<1>12. CASE /\ ~Gone(u) /\ usr' = Replayed(u, run) /\ run' = next /\ NotCaughtUp
            /\ UNCHANGED users
  <2>1. u \in Users
    BY <1>2, <1>12 DEF Gone
  <2>2. run.orig \in 0 .. MaxLen
    BY <1>2 DEF Run
  <2>3. run.ev \in {"GOT_CERTS", "HAD_HEADERS", "HAD_DATA", "DONE"}
    BY <1>1 DEF IInv, RunHolds, Loop
  <2>4. HEADERS \in INIT .. COMPLETE /\ DATA \in INIT .. COMPLETE
    BY DEF INIT, HEADERS, DATA, COMPLETE
  <2>5. \/ usr' = [usr EXCEPT ![u].state = HEADERS]
        \/ usr' = [usr EXCEPT ![u].bytes = run.orig]
        \/ usr' = [usr EXCEPT ![u].state = DATA]
    BY <1>12, <2>3 DEF Replayed
  <2>6. /\ usr' \in [Users -> User]
        /\ \A v \in Users : usr'[v].object = usr[v].object /\ usr'[v].queued = usr[v].queued
    <3>. DEFINE n == run.orig
    <3>1. CASE usr' = [usr EXCEPT ![u].state = HEADERS]
        BY <1>8, <2>1, <2>4, <3>1 DEF User
    <3>2. CASE usr' = [usr EXCEPT ![u].state = DATA]
        BY <1>8, <2>1, <2>4, <3>2 DEF User
    <3>3. CASE usr' = [usr EXCEPT ![u].bytes = n]
        <4>1. n \in 0 .. MaxLen
            BY <2>2
        <4>. HIDE DEF n, u
        <4>. QED
            BY <1>8, <2>1, <3>3, <4>1 DEF User
    <3>. QED
        BY <2>5, <3>1, <3>2, <3>3
  <2>7. UsersHold(obj, users', usr', held) /\ Quiet(users', usr')
    BY <1>1, <1>12, <2>6, StaysOn
  <2>8. all_caught_up' \in BOOLEAN
    BY <1>12 DEF NotCaughtUp
  <2>. QED
    BY <1>2, <1>4, <1>9, <1>12, <2>7, <2>8
<1>13. CASE /\ ~Gone(u) /\ run' = leave /\ UNCHANGED <<users, usr, all_caught_up>>
  <2>1. UsersHold(obj, users', usr', held) /\ Quiet(users', usr')
    BY <1>1, <1>8, <1>13, StaysOn
  <2>. QED
    BY <1>2, <1>6, <1>9, <1>13, <2>1
<1>. QED
    BY <1>10, <1>11, <1>12, <1>13 DEF NotifyReturns, next, leave, stay

-----------------------------------------------------------------------------
\* The invariant holds in every state.
LEMMA InitHolds ==
    ASSUME Init PROVE IInv
<1>1. ObjectsHold(obj)
  <2>1. obj \in [Objects -> Object] /\ \A o \in Objects : obj[o] = Blank
    BY BlankObject DEF Init
  <2>2. /\ Blank.candidate = None /\ Blank.candidate_count = 0 /\ Blank.redirect_count = 0
    BY DEF Blank
  <2>3. ASSUME NEW o \in Objects PROVE Cardinality(Pointing(obj, o)) = 0
    <3>1. Pointing(obj, o) = {}
        BY <2>1, <2>2, Names DEF Pointing
    <3>. QED
        BY <3>1, FS_EmptySet
  <2>4. \A o \in Objects : /\ obj[o].candidate # o
                           /\ obj[o].candidate_count >= Cardinality(Pointing(obj, o))
                           /\ obj[o].redirect_count <= RedirectLimit + 1
    BY <2>1, <2>2, <2>3, Names, BoundsAssumption
  <2>. QED
    BY <2>1, <2>4 DEF ObjectsHold
<1>2. <<>> \in Seq(Objects) /\ OnceIn(<<>>) /\ Elements(<<>>) = {}
    BY DEF OnceIn, Elements
<1>3. Blank.url = None
    BY DEF Blank
<1>4. ListsHold(obj, cached, uncached, recent)
    BY <1>2, <1>3 DEF Init, ListsHold
<1>5. NoUser \in User /\ NoUser.object = None /\ NoUser.queued = FALSE
    BY BoundsAssumption DEF NoUser, User, INIT, COMPLETE
<1>6. <<>> \in Seq(Users \union {Husk})
    OBVIOUS
<1>7. UsersHold(obj, users, usr, held)
  <2>1. /\ \A o \in Objects : users[o] = <<>>
        /\ \A u \in Users : usr[u] = NoUser
        /\ users \in [Objects -> Seq(Users \union {Husk})] /\ usr \in [Users -> User] /\ held = {}
    BY <1>5, <1>6 DEF Init
  <2>2. \A o \in Objects : {u \in Users : usr[u].object = o} = {}
    BY <2>1, <1>5, Names
  <2>. QED
    BY <1>2, <1>5, <2>1, <2>2 DEF UsersHold
<1>8. Quiet(users, usr)
    BY <1>2, <1>5 DEF Init, Quiet
<1>9. RunHolds(obj, users, usr, held, run)
    BY <1>8, Idling DEF Init
<1>. QED
    BY <1>1, <1>4, <1>7, <1>9 DEF Init, IInv

\* A step that changes nothing.
LEMMA StutterHolds ==
    ASSUME IInv, UNCHANGED vars PROVE IInv'
BY DEF vars, IInv

\* Every step of the cache keeps the invariant.
LEMMA StepHolds ==
    ASSUME IInv, [Next]_vars PROVE IInv'
<1>1. ASSUME NEW u \in Users, ClientCall(u) PROVE IInv'
    BY <1>1, RetrieveHolds, ReleaseHolds, CloneHolds, AbortAloneHolds, AbortSharedHolds,
       ForceStreamHolds, InvalidateHolds DEF ClientCall
<1>2. ASSUME NEW o \in Objects, FetchMessage(o) PROVE IInv'
    BY <1>2, HeaderHolds, DataHolds, FinishedHolds, ErrorHolds, TimedoutHolds, AuthHolds,
       SslErrorHolds, ProgressHolds, CertsHolds, RedirectHolds, NotModifiedHolds DEF FetchMessage
<1>3. ASSUME EventStep PROVE IInv'
    BY <1>3, EventReturnsHolds, LoopEndsHold, RedirectFollowedHolds, EndCallbackHolds DEF EventStep
<1>4. ASSUME NotifyStep PROVE IInv'
    BY <1>4, NotifyUserHolds, NotifyReturnsHolds, NextObjectHolds DEF NotifyStep
<1>. QED
    BY <1>1, <1>2, <1>3, <1>4, ExpireHolds, CatchUpHolds, CleanHolds, StutterHolds DEF Next

\* Every reachable state satisfies the inductive invariant: objects with their
\* candidate counts, the lists of objects, the lists of users and the loops that run agree.
THEOREM InvariantHolds == Spec => []IInv
<1>1. Init => IInv
    BY InitHolds
<1>2. IInv /\ [Next]_vars => IInv'
    BY StepHolds
<1>. QED
    BY <1>1, <1>2, PTL DEF Spec

\* Every reachable state has the types of the declarations: no candidate count goes
\* below zero or above its bound, no redirect count out of range.
THEOREM TypesCorrect == Spec => []TypeOK
<1>1. IInv => TypeOK
    BY InvariantIsEnough
<1>. QED
    BY <1>1, InvariantHolds, PTL

\* Every object is in exactly one of llcache->cached_objects and uncached_objects, once,
\* and every handle in the user list of the object it names and in no other, for any number
\* of objects, handles and URLs: llcache_fetch_notmodified and llcache_fetch_redirect lose
\* no user, llcache_handle_abort leaves none in two lists, llcache_clean frees none's object.
THEOREM ListsAlwaysAgree == Spec => []ListsAgree
<1>1. IInv => ListsAgree
    BY InvariantIsEnough
<1>. QED
    BY <1>1, InvariantHolds, PTL

\* Whatever clients call inside an event, llcache_send_event_to_users and
\* llcache_object_notify_users go on from an object that still exists and a record that is
\* still in its list: a record that is being called is queued, or left as a husk, not freed.
THEOREM IteratorsAlwaysValid == Spec => []IteratorsValid
<1>1. IInv => IteratorsValid
    BY InvariantIsEnough
<1>. QED
    BY <1>1, InvariantHolds, PTL

\* Every object that is some other's candidate exists, and its candidate_count is at least
\* the number of objects that point to it: neither llcache_clean nor a purge frees it.
THEOREM CandidatesAlwaysCounted == Spec => []CandidatesCounted
<1>1. IInv => CandidatesCounted
    BY InvariantIsEnough
<1>. QED
    BY <1>1, InvariantHolds, PTL

-----------------------------------------------------------------------------
\* An object is incomplete exactly while its fetch runs, as long as a fetch that is
\* tried again always starts.
RetriesStart == NoMemory => Messages \cap {"TIMEDOUT", "AUTH", "SSL_ERR"} = {}

Matches(r) == r.fetch # "over" /\ (r.fetch = "running" <=> r.state # COMPLETE)
Standing(ob, nb, p) ==
    ob[p].url # None /\ nb[p].fetch = ob[p].fetch /\ nb[p].state = ob[p].state

\* Each object of the next state matches its fetch, or stands as it did.
LEMMA MatchesKept ==
    ASSUME FetchIffIncomplete,
           \A p \in Objects : obj'[p].url # None => Matches(obj'[p]) \/ Standing(obj, obj', p)
    PROVE  FetchIffIncomplete'
BY DEF FetchIffIncomplete, Matches, Standing, Allocated

\* So it is when one object is edited so that it matches.
LEMMA EditMatches ==
    ASSUME FetchIffIncomplete, NEW ob \in [Objects -> Object], NEW o \in Objects,
           \A p \in Objects \ {o} : ob[p].url # None => Standing(obj, ob, p),
           NEW r, obj' = [ob EXCEPT ![o] = r], Matches(r)
    PROVE  FetchIffIncomplete'
<1>1. obj'[o] = r /\ \A p \in Objects \ {o} : obj'[p] = ob[p]
    OBVIOUS
<1>2. \A p \in Objects \ {o} : obj'[p].url # None => Standing(obj, obj', p)
    BY <1>1 DEF Standing
<1>. QED
    BY <1>1, <1>2, MatchesKept

\* An object that is over, and one whose fetch was started again, match.
LEMMA RecordMatches ==
    ASSUME NEW r \in Object
    PROVE  /\ Matches(Over(r)) /\ Matches(Refetched(r, TRUE))
           /\ Invalid(r) \in Object /\ Invalid(r).fetch = r.fetch /\ Invalid(r).state = r.state
<1>. DEFINE i == Invalid(r)
            v == r.validator
            b == IF i.body = "part" THEN "mixed" ELSE i.body
<1>1. i \in Object /\ i.fetch = r.fetch /\ i.state = r.state
    BY DEF Invalid, Object
<1>2. Over(r) = [i EXCEPT !.fetch = "none", !.state = COMPLETE]
    BY DEF Over
<1>3. Refetched(r, TRUE) = [i EXCEPT !.state = INIT, !.fetch = "running", !.conditional = v, !.body = b]
    BY DEF Refetched
<1>. HIDE DEF i, v, b
<1>4. Over(r).fetch = "none" /\ Over(r).state = COMPLETE
    BY <1>1, <1>2 DEF Object
<1>5. Refetched(r, TRUE).fetch = "running" /\ Refetched(r, TRUE).state = INIT
    BY <1>1, <1>3 DEF Object
<1>6. INIT # COMPLETE
    BY DEF INIT, COMPLETE
<1>. QED
    BY <1>1, <1>4, <1>5, <1>6 DEF Matches, i

\* The release of a candidate changes no fetch and no state.
LEMMA ReleasedStands ==
    ASSUME NEW ob, NEW o \in Objects, ObjectsHold(ob)
    PROVE  /\ ReleaseCandidate(ob, o) \in [Objects -> Object]
           /\ \A p \in Objects : /\ ReleaseCandidate(ob, o)[p].url = ob[p].url
                                 /\ ReleaseCandidate(ob, o)[p].fetch = ob[p].fetch
                                 /\ ReleaseCandidate(ob, o)[p].state = ob[p].state
<1>. DEFINE rb == ReleaseCandidate(ob, o)
<1>1. ObjectsHold(rb)
    BY Releasing
<1>2. Relinked(ob, rb)
    BY Releasing
<1>. HIDE DEF rb
<1>3. ASSUME NEW p \in Objects
      PROVE  rb[p].url = ob[p].url /\ rb[p].fetch = ob[p].fetch /\ rb[p].state = ob[p].state
  <2>1. ob[p] \in Object
    BY DEF ObjectsHold
  <2>. QED
    BY <2>1, <1>2 DEF Object, Relinked
<1>4. rb \in [Objects -> Object]
    BY <1>1 DEF ObjectsHold
<1>. QED
    BY <1>3, <1>4 DEF rb

\* Objects that are the same in these fields but for one.
SameBut(ob, o) == /\ ob \in [Objects -> Object]
                  /\ \A p \in Objects \ {o} : ob[p].url # None => Standing(obj, ob, p)

\* An object that is given up has no fetch, and is complete.
LEMMA GiveUpMatches ==
    ASSUME FetchIffIncomplete, NEW o \in Objects, NEW ob, ObjectsHold(ob), SameBut(ob, o),
           GiveUp(o, ob)
    PROVE  FetchIffIncomplete'
<1>. DEFINE rb == ReleaseCandidate(ob, o)
            r == Over(rb[o])
<1>1. /\ rb \in [Objects -> Object]
      /\ \A p \in Objects : rb[p].url = ob[p].url /\ rb[p].fetch = ob[p].fetch
                            /\ rb[p].state = ob[p].state
    BY ReleasedStands
<1>2. obj' = [rb EXCEPT ![o] = r]
    BY <1>1 DEF GiveUp, Over
<1>. HIDE DEF rb
<1>3. \A p \in Objects \ {o} : rb[p].url # None => Standing(obj, rb, p)
    BY <1>1 DEF SameBut, Standing
<1>4. Matches(r)
    BY <1>1, RecordMatches
<1>. HIDE DEF r
<1>. QED
    BY <1>1, <1>2, <1>3, <1>4, EditMatches

\* An object that is tried again has a fetch, and is not complete.
LEMMA TryAgainMatches ==
    ASSUME FetchIffIncomplete, NEW o \in Objects, NEW ob, SameBut(ob, o), TryAgain(o, ob), ~NoMemory
    PROVE  FetchIffIncomplete'
<1>. DEFINE r == Refetched(ob[o], TRUE)
<1>1. obj' = [ob EXCEPT ![o] = r]
    BY DEF TryAgain
<1>2. ob[o] \in Object
    BY DEF SameBut
<1>3. Matches(r)
    BY <1>2, RecordMatches
<1>. HIDE DEF r
<1>. QED
    BY <1>1, <1>3, EditMatches DEF SameBut

\* The messages that end in a retry, or in the end of the object.
LEMMA EndsMatch ==
    ASSUME IInv, RetriesStart, FetchIffIncomplete, NEW o \in Objects,
           FetchError(o) \/ FetchTimedout(o) \/ FetchAuth(o) \/ FetchSslError(o)
    PROVE  FetchIffIncomplete'
<1>1. ObjectsHold(obj) /\ obj \in [Objects -> Object] /\ obj[o] \in Object
    BY DEF IInv, ObjectsHold
<1>2. \A p \in Objects : obj[p].url # None => Standing(obj, obj, p)
    BY DEF Standing
<1>3. CASE GiveUp(o, obj)
    BY <1>1, <1>2, <1>3, GiveUpMatches DEF SameBut
<1>4. obj[o].url # None
  <2>1. run.in = "idle" /\ obj[o].fetch = "running"
    BY DEF FetchError, FetchTimedout, FetchAuth, FetchSslError, Message
  <2>. QED
    BY <2>1, Arriving
<1>5. CASE FetchAuth(o) /\ GiveUp(o, [obj EXCEPT ![o].tried_auth = FALSE])
  <2>. DEFINE r == [obj[o] EXCEPT !.tried_auth = FALSE]
              ob == [obj EXCEPT ![o].tried_auth = FALSE]
  <2>1. ob = [obj EXCEPT ![o] = r]
    BY <1>1
  <2>2. SameKey(r, obj[o])
    BY <1>1 DEF SameKey, Object
  <2>. HIDE DEF r
  <2>3. ObjectsHold(ob)
    BY <1>1, <1>4, <2>1, <2>2, EditAt
  <2>4. SameBut(ob, o)
    <3>1. \A p \in Objects \ {o} : ob[p] = obj[p]
        BY <1>1, <2>1
    <3>. HIDE DEF ob
    <3>. QED
        BY <1>2, <2>3, <3>1 DEF SameBut, Standing, ObjectsHold
  <2>. HIDE DEF ob
  <2>. QED
    BY <1>5, <2>3, <2>4, GiveUpMatches DEF ob
<1>6. CASE Messages \cap {"TIMEDOUT", "AUTH", "SSL_ERR"} # {} /\ \E ob : SameBut(ob, o) /\ TryAgain(o, ob)
    BY <1>6, TryAgainMatches DEF RetriesStart
<1>. DEFINE rb == ReleaseCandidate(obj, o)
<1>7. /\ rb \in [Objects -> Object]
      /\ \A p \in Objects : rb[p].url = obj[p].url /\ rb[p].fetch = obj[p].fetch
                            /\ rb[p].state = obj[p].state
    BY <1>1, ReleasedStands
<1>8. ASSUME NEW ob, NEW base \in [Objects -> Object], NEW r \in Object, ob = [base EXCEPT ![o] = r],
             base = obj \/ base = rb
      PROVE  SameBut(ob, o)
  <2>1. \A p \in Objects : base[p].url = obj[p].url /\ base[p].fetch = obj[p].fetch
                           /\ base[p].state = obj[p].state
    BY <1>7, <1>8
  <2>. HIDE DEF rb
  <2>2. ob \in [Objects -> Object] /\ \A p \in Objects \ {o} : ob[p] = base[p]
    BY <1>8
  <2>. QED
    BY <2>1, <2>2 DEF SameBut, Standing
<1>. HIDE DEF rb
<1>9. SameBut([obj EXCEPT ![o].retries = @ - 1, ![o].fetch = "over"], o)
      \/ obj[o].retries <= 1
  <2>. DEFINE n == obj[o].retries - 1
              r == [obj[o] EXCEPT !.retries = n, !.fetch = "over"]
              ob == [obj EXCEPT ![o].retries = @ - 1, ![o].fetch = "over"]
  <2>1. ob = [obj EXCEPT ![o] = r]
    BY <1>1 DEF Object
  <2>2. obj[o].retries > 1 => n \in 0 .. FetchAttempts
    BY <1>1, BoundsAssumption DEF Object
  <2>3. obj[o].retries > 1 \/ obj[o].retries <= 1
    BY <1>1, BoundsAssumption DEF Object
  <2>. HIDE DEF n, ob
  <2>4. obj[o].retries > 1 => r \in Object
    BY <1>1, <2>2 DEF Object
  <2>. HIDE DEF r
  <2>. QED
    BY <1>1, <1>8, <2>1, <2>3, <2>4 DEF ob
<1>10. /\ SameBut([rb EXCEPT ![o] = [Invalid(@) EXCEPT !.tried_auth = TRUE, !.fetch = "none"]], o)
       /\ SameBut([rb EXCEPT ![o] = [Invalid(@) EXCEPT !.tried_tls = TRUE, !.fetch = "none"]], o)
  <2>. DEFINE q == Invalid(rb[o])
              r == [q EXCEPT !.tried_auth = TRUE, !.fetch = "none"]
              s == [q EXCEPT !.tried_tls = TRUE, !.fetch = "none"]
  <2>1. /\ [rb EXCEPT ![o] = [Invalid(@) EXCEPT !.tried_auth = TRUE, !.fetch = "none"]]
              = [rb EXCEPT ![o] = r]
        /\ [rb EXCEPT ![o] = [Invalid(@) EXCEPT !.tried_tls = TRUE, !.fetch = "none"]]
              = [rb EXCEPT ![o] = s]
    BY <1>7
  <2>2. q \in Object
    BY <1>7, RecordMatches
  <2>. HIDE DEF q
  <2>3. r \in Object
    BY <2>2 DEF Object
  <2>4. s \in Object
    BY <2>2 DEF Object
  <2>. HIDE DEF r, s
  <2>. QED
    BY <1>7, <1>8, <2>1, <2>3, <2>4
<1>11. CASE FetchTimedout(o)
  <2>. DEFINE ob == [obj EXCEPT ![o].retries = @ - 1, ![o].fetch = "over"]
  <2>1. Messages \cap {"TIMEDOUT", "AUTH", "SSL_ERR"} # {}
    BY <1>11 DEF FetchTimedout, Message
  <2>2. obj[o].retries > 1 => ~(obj[o].retries <= 1)
    BY <1>1, BoundsAssumption DEF Object
  <2>3. GiveUp(o, obj) \/ (obj[o].retries > 1 /\ TryAgain(o, ob))
    BY <1>11 DEF FetchTimedout
  <2>4. obj[o].retries > 1 => SameBut(ob, o)
    BY <1>9, <2>2
  <2>. HIDE DEF ob
  <2>. QED
    BY <1>3, <1>6, <2>1, <2>3, <2>4
<1>12. CASE FetchAuth(o)
  <2>1. "AUTH" \in Messages
    BY <1>12 DEF FetchAuth, Message
  <2>. QED
    BY <1>5, <1>6, <1>10, <1>12, <2>1 DEF FetchAuth, rb
<1>13. CASE FetchSslError(o)
  <2>1. "SSL_ERR" \in Messages
    BY <1>13 DEF FetchSslError, Message
  <2>. QED
    BY <1>3, <1>6, <1>10, <1>13, <2>1 DEF FetchSslError, rb
<1>14. CASE FetchError(o)
    BY <1>3, <1>14 DEF FetchError
<1>. QED
    BY <1>11, <1>12, <1>13, <1>14

\* An edit of one object that leaves its fetch and its state alone.
LEMMA SameMatches ==
    ASSUME FetchIffIncomplete, obj \in [Objects -> Object], NEW o \in Objects, obj[o].url # None,
           NEW r, r.fetch = obj[o].fetch, r.state = obj[o].state, obj' = [obj EXCEPT ![o] = r]
    PROVE  FetchIffIncomplete'
<1>1. Matches(r)
    BY DEF FetchIffIncomplete, Matches, Allocated
<1>2. \A p \in Objects : obj[p].url # None => Standing(obj, obj, p)
    BY DEF Standing
<1>. QED
    BY <1>1, <1>2, EditMatches

\* A header leaves the fetch running and the object incomplete.
LEMMA HeaderMatches ==
    ASSUME IInv, FetchIffIncomplete, NEW o \in Objects, FetchHeader(o)
    PROVE  FetchIffIncomplete'
<1>1. run.in = "idle" /\ obj[o].fetch = "running"
    BY DEF FetchHeader, Message
<1>2. obj[o] \in Object /\ obj \in [Objects -> Object]
    BY <1>1, Arriving
<1>. DEFINE q == obj[o]
            i == Invalid(q)
<1>3. i \in Object /\ i.fetch = "running" /\ q \in Object /\ q.fetch = "running"
    BY <1>1, <1>2, RecordMatches
<1>4. \E r : obj' = [obj EXCEPT ![o] = r] /\ r.fetch = "running" /\ r.state = HEADERS
  <2>1. PICK kind \in Headers :
          obj' = [obj EXCEPT ![o] =
                    CASE kind = "status" -> [i EXCEPT !.state = HEADERS]
                      [] kind = "lifetime" -> [q EXCEPT !.state = HEADERS, !.life = TRUE]
                      [] kind = "no-cache" -> [q EXCEPT !.state = HEADERS, !.no_cache = "ALWAYS"]
                      [] kind = "validator" -> [q EXCEPT !.state = HEADERS, !.validator = TRUE]]
    BY DEF FetchHeader
  <2>2. kind \in {"status", "lifetime", "no-cache", "validator"}
    BY KindsAssumption
  <2>. HIDE DEF q, i
  <2>3. CASE kind = "status"
    <3>. DEFINE r == [i EXCEPT !.state = HEADERS]
    <3>1. obj' = [obj EXCEPT ![o] = r]
        BY <2>1, <2>3
    <3>2. r.fetch = "running" /\ r.state = HEADERS
        BY <1>3 DEF Object
    <3>. HIDE DEF r
    <3>. QED
        BY <3>1, <3>2
  <2>4. CASE kind = "lifetime"
    <3>. DEFINE r == [q EXCEPT !.state = HEADERS, !.life = TRUE]
    <3>1. obj' = [obj EXCEPT ![o] = r]
        BY <2>1, <2>4
    <3>2. r.fetch = "running" /\ r.state = HEADERS
        BY <1>3 DEF Object
    <3>. HIDE DEF r
    <3>. QED
        BY <3>1, <3>2
  <2>5. CASE kind = "no-cache"
    <3>. DEFINE r == [q EXCEPT !.state = HEADERS, !.no_cache = "ALWAYS"]
    <3>1. obj' = [obj EXCEPT ![o] = r]
        BY <2>1, <2>5
    <3>2. r.fetch = "running" /\ r.state = HEADERS
        BY <1>3 DEF Object
    <3>. HIDE DEF r
    <3>. QED
        BY <3>1, <3>2
  <2>6. CASE kind = "validator"
    <3>. DEFINE r == [q EXCEPT !.state = HEADERS, !.validator = TRUE]
    <3>1. obj' = [obj EXCEPT ![o] = r]
        BY <2>1, <2>6
    <3>2. r.fetch = "running" /\ r.state = HEADERS
        BY <1>3 DEF Object
    <3>. HIDE DEF r
    <3>. QED
        BY <3>1, <3>2
  <2>. QED
    BY <2>2, <2>3, <2>4, <2>5, <2>6
<1>5. \A p \in Objects : obj[p].url # None => Standing(obj, obj, p)
    BY DEF Standing
<1>6. HEADERS # COMPLETE
    BY DEF HEADERS, COMPLETE
<1>. QED
    BY <1>2, <1>4, <1>5, <1>6, EditMatches DEF Matches

\* So does data.
LEMMA DataMatches ==
    ASSUME IInv, FetchIffIncomplete, NEW o \in Objects, FetchData(o)
    PROVE  FetchIffIncomplete'
<1>1. run.in = "idle" /\ obj[o].fetch = "running"
    BY DEF FetchData, Message
<1>2. obj[o] \in Object /\ ObjectsHold(obj) /\ obj \in [Objects -> Object]
    BY <1>1, Arriving
<1>. DEFINE next(r) == [r EXCEPT !.state = DATA, !.body = IF @ = "none" THEN "part" ELSE @]
            rb == IF obj[o].state # DATA THEN ReleaseCandidate(obj, o) ELSE obj
<1>3. /\ rb \in [Objects -> Object]
      /\ \A p \in Objects : rb[p].url = obj[p].url /\ rb[p].fetch = obj[p].fetch
                            /\ rb[p].state = obj[p].state
    BY <1>2, ReleasedStands
<1>4. PICK cacheable \in BOOLEAN, grown \in {0, 1} :
          obj' = [rb EXCEPT ![o] = [next(IF cacheable THEN rb[o] ELSE Invalid(rb[o]))
                                        EXCEPT !.source_len = @ + grown]]
    BY DEF FetchData
<1>. HIDE DEF rb
<1>. DEFINE i == IF cacheable THEN rb[o] ELSE Invalid(rb[o])
<1>5. i \in Object /\ i.fetch = "running"
  <2>1. rb[o] \in Object /\ rb[o].fetch = "running"
    BY <1>1, <1>3
  <2>2. Invalid(rb[o]) \in Object /\ Invalid(rb[o]).fetch = "running"
    BY <2>1, RecordMatches
  <2>. QED
    BY <2>1, <2>2
<1>. DEFINE r == [next(i) EXCEPT !.source_len = @ + grown]
<1>6. obj' = [rb EXCEPT ![o] = r]
  <2>. HIDE DEF next
  <2>. QED
    BY <1>4
<1>7. r.fetch = "running" /\ r.state = DATA
  <2>. HIDE DEF i
  <2>. QED
    BY <1>5 DEF Object
<1>. HIDE DEF r, i, next
<1>8. Matches(r)
    BY <1>7 DEF Matches, DATA, COMPLETE
<1>9. \A p \in Objects \ {o} : rb[p].url # None => Standing(obj, rb, p)
    BY <1>3 DEF Standing
<1>. QED
    BY <1>3, <1>6, <1>8, <1>9, EditMatches

\* An object that was not modified is over; the candidate stands as it did.
LEMMA NotModifiedMatches ==
    ASSUME IInv, FetchIffIncomplete, NEW o \in Objects, FetchNotModified(o)
    PROVE  FetchIffIncomplete'
<1>. DEFINE c == obj[o].candidate
            done(r) == [Invalid(r) EXCEPT !.fetch = "none", !.state = COMPLETE, !.candidate = None]
            d == done(obj[o])
<1>1. run.in = "idle" /\ obj[o].fetch = "running"
    BY DEF FetchNotModified, Message
<1>2. obj[o] \in Object /\ ObjectsHold(obj) /\ obj \in [Objects -> Object]
    BY <1>1, Arriving
<1>3. Matches(d)
  <2>. DEFINE i == Invalid(obj[o])
  <2>1. i \in Object
    BY <1>2, RecordMatches
  <2>2. d = [i EXCEPT !.fetch = "none", !.state = COMPLETE, !.candidate = None]
    OBVIOUS
  <2>. HIDE DEF i, d
  <2>. QED
    BY <2>1, <2>2 DEF Matches, Object
<1>4. \A p \in Objects : obj[p].url # None => Standing(obj, obj, p)
    BY DEF Standing
<1>5. CASE obj' = [obj EXCEPT ![o] = d]
  <2>. HIDE DEF d
  <2>. QED
    BY <1>2, <1>3, <1>4, <1>5, EditMatches
<1>6. CASE c # None /\ \E r : /\ obj' = [[obj EXCEPT ![c] = r] EXCEPT ![o] = done(@)]
                              /\ r.fetch = obj[c].fetch /\ r.state = obj[c].state
  <2>1. c \in Objects /\ c # o /\ obj[c].url # None
    BY <1>2, <1>6, CandidateAllocated
  <2>2. PICK r : /\ obj' = [[obj EXCEPT ![c] = r] EXCEPT ![o] = done(@)]
                 /\ r.fetch = obj[c].fetch /\ r.state = obj[c].state
    BY <1>6
  <2>. HIDE DEF c, done
  <2>3. obj'[o] = d /\ obj'[c] = r /\ \A p \in Objects \ {o, c} : obj'[p] = obj[p]
    BY <1>2, <2>1, <2>2
  <2>. HIDE DEF d
  <2>4. ASSUME NEW p \in Objects, obj'[p].url # None
        PROVE  Matches(obj'[p]) \/ Standing(obj, obj', p)
    <3>1. CASE p = o
        BY <1>3, <2>3, <3>1
    <3>2. CASE p = c
        BY <2>1, <2>2, <2>3, <3>2 DEF Standing
    <3>3. CASE p \notin {o, c}
        BY <2>3, <2>4, <3>3 DEF Standing
    <3>. QED
        BY <3>1, <3>2, <3>3
  <2>. QED
    BY <2>4, MatchesKept
<1>7. obj' = [obj EXCEPT ![o] = d]
      \/ (c # None /\ \E r : /\ obj' = [[obj EXCEPT ![c] = r] EXCEPT ![o] = done(@)]
                             /\ r.fetch = obj[c].fetch /\ r.state = obj[c].state)
  <2>. DEFINE n == LET m == IF obj[o].no_cache # "FRESH" THEN obj[o].no_cache ELSE obj[c].no_cache
                   IN  IF m = "ONCE" THEN "FRESH" ELSE m
              v == obj[c].validator \/ obj[o].validator
              k == obj[c].candidate_count - 1
              q == obj[c]
  <2>1. CASE c # None
    <3>1. PICK life \in BOOLEAN :
             obj' = [[obj EXCEPT ![c] = [q EXCEPT !.candidate_count = k, !.life = life,
                                                  !.validator = v, !.no_cache = n]]
                        EXCEPT ![o] = done(@)]
        BY <2>1, <1>2 DEF FetchNotModified
    <3>2. q \in Object
        BY <1>2, <2>1, CandidateAllocated
    <3>. DEFINE r == [q EXCEPT !.candidate_count = k, !.life = life, !.validator = v, !.no_cache = n]
    <3>. HIDE DEF n, v, k, q, c, done
    <3>3. r.fetch = q.fetch /\ r.state = q.state
        BY <3>2 DEF Object
    <3>4. obj' = [[obj EXCEPT ![c] = r] EXCEPT ![o] = done(@)]
        BY <3>1
    <3>. HIDE DEF r
    <3>. QED
        BY <2>1, <3>3, <3>4 DEF q
  <2>2. CASE c = None
    BY <2>2 DEF FetchNotModified
  <2>. QED
    BY <2>1, <2>2
<1>. QED
    BY <1>5, <1>6, <1>7

\* Every message of a fetch.
LEMMA MessageMatches ==
    ASSUME IInv, RetriesStart, FetchIffIncomplete, NEW o \in Objects, FetchMessage(o)
    PROVE  FetchIffIncomplete'
<1>1. run.in = "idle" /\ obj[o].fetch = "running"
    BY DEF FetchMessage, FetchHeader, FetchData, FetchFinished, FetchError, FetchTimedout, FetchAuth,
           FetchSslError, FetchProgress, FetchCerts, FetchRedirect, FetchNotModified, Message
<1>2. /\ obj[o] \in Object /\ ObjectsHold(obj) /\ obj \in [Objects -> Object]
      /\ obj[o].url # None
    BY <1>1, Arriving
<1>3. \A p \in Objects : obj[p].url # None => Standing(obj, obj, p)
    BY DEF Standing
<1>4. CASE FetchFinished(o)
  <2>. DEFINE b == IF obj[o].body = "mixed" THEN obj[o].body ELSE "whole"
              r == [obj[o] EXCEPT !.state = COMPLETE, !.fetch = "none", !.body = b]
  <2>1. obj' = [obj EXCEPT ![o].state = COMPLETE, ![o].fetch = "none", ![o].body = b]
    BY <1>2, <1>4 DEF FetchFinished, Object
  <2>. HIDE DEF b
  <2>2. obj' = [obj EXCEPT ![o] = r]
    BY <1>2, <2>1 DEF Object
  <2>3. Matches(r)
    BY <1>2 DEF Matches, Object
  <2>. HIDE DEF r
  <2>. QED
    BY <1>2, <1>3, <2>2, <2>3, EditMatches
<1>5. CASE FetchCerts(o)
  <2>. DEFINE r == [obj[o] EXCEPT !.chain = TRUE]
  <2>1. obj' = [obj EXCEPT ![o] = r]
    BY <1>2, <1>5 DEF FetchCerts
  <2>2. r.fetch = obj[o].fetch /\ r.state = obj[o].state
    BY <1>2 DEF Object
  <2>. HIDE DEF r
  <2>. QED
    BY <1>2, <2>1, <2>2, SameMatches
<1>6. CASE FetchProgress(o)
    BY <1>3, <1>6, MatchesKept DEF FetchProgress, Standing
<1>7. CASE FetchRedirect(o)
  <2>. DEFINE rb == ReleaseCandidate(obj, o)
              r == Over(rb[o])
  <2>1. /\ rb \in [Objects -> Object]
        /\ \A p \in Objects : rb[p].url = obj[p].url /\ rb[p].fetch = obj[p].fetch
                              /\ rb[p].state = obj[p].state
    BY <1>2, ReleasedStands
  <2>2. obj' = [rb EXCEPT ![o] = r]
    BY <1>7 DEF FetchRedirect, Over
  <2>. HIDE DEF rb
  <2>3. Matches(r)
    BY <2>1, RecordMatches
  <2>4. \A p \in Objects \ {o} : rb[p].url # None => Standing(obj, rb, p)
    BY <2>1 DEF Standing
  <2>. HIDE DEF r
  <2>. QED
    BY <2>1, <2>2, <2>3, <2>4, EditMatches
<1>. QED
    BY <1>4, <1>5, <1>6, <1>7, HeaderMatches, DataMatches, NotModifiedMatches, EndsMatch
    DEF FetchMessage

\* What a retrieval finds stands as it is; what it makes starts its fetch.
LEMMA RetrievedMatches ==
    ASSUME IInv, FetchIffIncomplete,
           NEW url \in Urls, NEW force \in BOOLEAN, NEW stream \in BOOLEAN,
           NEW count \in 0 .. RedirectLimit + 1, NEW dest \in Objects,
           ObjectRetrieve(url, force, stream, count, dest)
    PROVE  FetchIffIncomplete'
<1>1. /\ obj[dest].url = None => obj'[dest].fetch = "running" /\ obj'[dest].state = INIT
      /\ \A p \in Objects : p # dest \/ obj[p].url # None =>
            /\ obj'[p].url = obj[p].url /\ obj'[p].state = obj[p].state
            /\ obj'[p].fetch = obj[p].fetch
    BY Retrieving DEF IInv
<1>2. INIT # COMPLETE
    BY DEF INIT, COMPLETE
<1>3. ASSUME NEW p \in Objects, obj'[p].url # None
      PROVE  Matches(obj'[p]) \/ Standing(obj, obj', p)
  <2>1. CASE p = dest /\ obj[dest].url = None
    BY <1>1, <1>2, <2>1 DEF Matches
  <2>2. CASE p # dest \/ obj[p].url # None
    BY <1>1, <1>3, <2>2 DEF Standing
  <2>. QED
    BY <2>1, <2>2
<1>. QED
    BY <1>3, MatchesKept

\* Every call of a client.
LEMMA CallMatches ==
    ASSUME IInv, FetchIffIncomplete, NEW u \in Users, ClientCall(u)
    PROVE  FetchIffIncomplete'
<1>. DEFINE o == usr[u].object
<1>1. obj \in [Objects -> Object]
    BY DEF IInv, ObjectsHold
<1>2. \A p \in Objects : obj[p].url # None => Standing(obj, obj, p)
    BY DEF Standing
<1>3. u \in held => o \in Objects /\ obj[o].url # None /\ obj[o] \in Object
    BY <1>1, Holding
<1>4. CASE \E url \in Urls, force, stream \in BOOLEAN : HandleRetrieve(u, url, force, stream)
  <2>1. PICK url \in Urls, force \in BOOLEAN, stream \in BOOLEAN : HandleRetrieve(u, url, force, stream)
    BY <1>4
  <2>2. PICK dest \in Objects : ObjectRetrieve(url, force, stream, 0, dest)
    BY <2>1 DEF HandleRetrieve
  <2>3. 0 \in 0 .. RedirectLimit + 1
    BY BoundsAssumption
  <2>. QED
    BY <2>2, <2>3, RetrievedMatches
<1>5. CASE HandleRelease(u) \/ \E new \in Users : HandleClone(u, new)
  <2>1. obj' = obj
    BY <1>5 DEF HandleRelease, HandleClone
  <2>. QED
    BY <1>2, <2>1, MatchesKept
<1>6. CASE AbortAlone(u)
  <2>. DEFINE r == Over(obj[o])
  <2>1. obj' = [obj EXCEPT ![o] = r] /\ u \in held
    BY <1>6 DEF AbortAlone, Over
  <2>2. Matches(r)
    BY <1>3, <2>1, RecordMatches
  <2>. HIDE DEF r
  <2>. QED
    BY <1>1, <1>2, <1>3, <2>1, <2>2, EditMatches
<1>7. CASE \E new \in Objects : AbortShared(u, new)
  <2>. DEFINE r == Snapshot(obj[o])
  <2>1. PICK new \in Objects : obj' = [obj EXCEPT ![new] = r]
    BY <1>7 DEF AbortShared
  <2>2. Matches(r)
    BY DEF Matches, Snapshot, Blank
  <2>. HIDE DEF r
  <2>. QED
    BY <1>1, <1>2, <2>1, <2>2, EditMatches
<1>8. CASE HandleForceStream(u)
  <2>. DEFINE r == [obj[o] EXCEPT !.stream = TRUE]
  <2>1. obj' = [obj EXCEPT ![o].stream = TRUE] /\ u \in held
    BY <1>8 DEF HandleForceStream
  <2>. HIDE DEF o
  <2>2. obj' = [obj EXCEPT ![o] = r]
    BY <1>1, <2>1
  <2>3. r.fetch = obj[o].fetch /\ r.state = obj[o].state
    BY <1>3, <2>1 DEF Object
  <2>. HIDE DEF r
  <2>. QED
    BY <1>1, <1>3, <2>1, <2>2, <2>3, SameMatches
<1>9. CASE HandleInvalidate(u)
  <2>. DEFINE r == [obj[o] EXCEPT !.no_cache = "ONCE"]
  <2>1. obj' = [obj EXCEPT ![o].no_cache = "ONCE"] /\ u \in held
    BY <1>9 DEF HandleInvalidate
  <2>. HIDE DEF o
  <2>2. obj' = [obj EXCEPT ![o] = r]
    BY <1>1, <2>1
  <2>3. r.fetch = obj[o].fetch /\ r.state = obj[o].state
    BY <1>3, <2>1 DEF Object
  <2>. HIDE DEF r
  <2>. QED
    BY <1>1, <1>3, <2>1, <2>2, <2>3, SameMatches
<1>. QED
    BY <1>4, <1>5, <1>6, <1>7, <1>8, <1>9 DEF ClientCall

\* The end of a lifetime.
LEMMA ExpireMatches ==
    ASSUME IInv, FetchIffIncomplete, NEW o \in Objects, Expire(o) PROVE FetchIffIncomplete'
<1>. DEFINE r == [obj[o] EXCEPT !.life = FALSE]
<1>1. obj \in [Objects -> Object] /\ obj[o] \in Object /\ obj[o].life
      /\ obj' = [obj EXCEPT ![o].life = FALSE]
    BY DEF IInv, ObjectsHold, Expire
<1>2. obj[o].url # None
    BY <1>1 DEF IInv, ObjectsHold, Blank
<1>3. obj' = [obj EXCEPT ![o] = r]
    BY <1>1
<1>4. r.fetch = obj[o].fetch /\ r.state = obj[o].state
    BY <1>1 DEF Object
<1>. HIDE DEF r
<1>. QED
    BY <1>1, <1>2, <1>3, <1>4, SameMatches

\* What is discarded need not match anything.
LEMMA DestroyedMatches ==
    ASSUME FetchIffIncomplete, NEW ob, NEW S, obj' = Destroyed(ob, S),
           \A p \in Objects : ob[p].url # None => Matches(ob[p]) \/ Standing(obj, ob, p)
    PROVE  FetchIffIncomplete'
<1>1. \A p \in Objects : obj'[p] = IF p \in S THEN Blank ELSE ob[p]
    BY DEF Destroyed
<1>2. Blank.url = None
    BY DEF Blank
<1>3. \A p \in Objects : obj'[p].url # None => Matches(obj'[p]) \/ Standing(obj, obj', p)
    BY <1>1, <1>2 DEF Standing
<1>. QED
    BY <1>3, MatchesKept

\* llcache_clean.
LEMMA CleanMatches ==
    ASSUME FetchIffIncomplete, Clean PROVE FetchIffIncomplete'
<1>1. \E S : obj' = Destroyed(obj, S)
    BY DEF Clean
<1>2. \A p \in Objects : obj[p].url # None => Standing(obj, obj, p)
    BY DEF Standing
<1>. QED
    BY <1>1, <1>2, DestroyedMatches

\* The end of llcache_fetch_callback.
LEMMA EndCallbackMatches ==
    ASSUME IInv, FetchIffIncomplete, EndCallback PROVE FetchIffIncomplete'
<1>. DEFINE o == run.at
            S == IF run.err = "NOMEM" THEN Excess(Len(Spare)) ELSE {}
            stops == run.err # "OK" /\ obj[o].fetch # "none" /\ o \notin S
            r == Over(obj[o])
            ob == IF stops THEN [obj EXCEPT ![o] = r] ELSE obj
<1>1. obj' = Destroyed(ob, S) /\ run.in = "end"
    BY DEF EndCallback, Over
<1>2. o \in Objects /\ obj \in [Objects -> Object] /\ obj[o] \in Object
    BY <1>1 DEF IInv, ObjectsHold, RunHolds, Loop
<1>3. Matches(r)
    BY <1>2, RecordMatches
<1>. HIDE DEF S, stops, r, o
<1>4. \A p \in Objects : ob[p].url # None => Matches(ob[p]) \/ Standing(obj, ob, p)
    BY <1>2, <1>3 DEF Standing
<1>. HIDE DEF ob
<1>. QED
    BY <1>1, <1>4, DestroyedMatches

\* The steps of llcache_send_event_to_users.
LEMMA EventMatches ==
    ASSUME IInv, FetchIffIncomplete, EventStep PROVE FetchIffIncomplete'
<1>1. \A p \in Objects : obj[p].url # None => Standing(obj, obj, p)
    BY DEF Standing
<1>2. CASE obj' = obj
    BY <1>1, <1>2, MatchesKept
<1>3. CASE RedirectFollowed
  <2>. DEFINE o == run.at
              n == obj[o].redirect_count + 1
              f == obj[o].force
              s == obj[o].stream
  <2>1. PICK dest \in Objects : ObjectRetrieve(run.target, f, s, n, dest)
    BY <1>3 DEF RedirectFollowed
  <2>2. /\ run.in = "event" /\ run.who = None /\ run.what = "REDIRECT" /\ run.target \in Urls
    BY <1>3 DEF RedirectFollowed
  <2>3. o \in Objects /\ obj[o] \in Object /\ obj[o].redirect_count <= RedirectLimit
    BY <2>2 DEF IInv, ObjectsHold, RunHolds, Loop
  <2>4. Cardinality(Objects) \in Nat
    BY FiniteAssumption, FS_CardinalityType
  <2>5. obj[o].redirect_count \in Nat
    BY <2>3, <2>4, BoundsAssumption DEF Object
  <2>6. f \in BOOLEAN /\ s \in BOOLEAN /\ n \in 0 .. RedirectLimit + 1
    BY <2>3, <2>5, BoundsAssumption DEF Object
  <2>. HIDE DEF f, s, n
  <2>. QED
    BY <2>1, <2>2, <2>6, RetrievedMatches
<1>4. CASE EndCallback
    BY <1>4, EndCallbackMatches
<1>. QED
    BY <1>2, <1>3, <1>4 DEF EventStep, EventReturns, EventSent, RedirectIgnored, RedirectFails

\* The steps of llcache_catch_up_all_users.
LEMMA NotifyMatches ==
    ASSUME IInv, FetchIffIncomplete, NotifyStep \/ CatchUp PROVE FetchIffIncomplete'
<1>1. \A p \in Objects : obj[p].url # None => Standing(obj, obj, p)
    BY DEF Standing
<1>2. CASE obj' = obj
    BY <1>1, <1>2, MatchesKept
<1>. DEFINE o == run.at
            r == [obj[o] EXCEPT !.source_len = 0]
<1>3. CASE run.in = "notify" /\ obj' = [obj EXCEPT ![o].source_len = 0]
  <2>1. o \in Objects /\ obj[o] \in Object /\ obj[o].url # None /\ obj \in [Objects -> Object]
    BY <1>3 DEF IInv, ObjectsHold, RunHolds, Loop
  <2>. HIDE DEF o
  <2>2. obj' = [obj EXCEPT ![o] = r]
    BY <1>3, <2>1
  <2>3. r.fetch = obj[o].fetch /\ r.state = obj[o].state
    BY <2>1 DEF Object
  <2>. HIDE DEF r
  <2>. QED
    BY <2>1, <2>2, <2>3, SameMatches
<1>. QED
    BY <1>2, <1>3 DEF NotifyStep, NotifyUser, NotifyCerts, NotifyHeaders, NotifyData, NotifyDone,
       NotifyNothing, Notifying, NotifyReturns, NextObject, CatchUp

\* Every step.
LEMMA StepMatches ==
    ASSUME IInv, RetriesStart, FetchIffIncomplete, [Next]_vars PROVE FetchIffIncomplete'
<1>1. CASE UNCHANGED vars
    BY <1>1 DEF vars, FetchIffIncomplete, Allocated
<1>. QED
    BY <1>1, CallMatches, MessageMatches, ExpireMatches, EventMatches, NotifyMatches, CleanMatches
    DEF Next

\* As long as a fetch that is tried again always starts, an object is incomplete exactly
\* while its fetch runs, and no pointer to a fetch that is over is kept: nobody waits for
\* an object that nothing will complete, and no new user is sent to one.
THEOREM FetchesMatchStates == RetriesStart /\ Spec => []FetchIffIncomplete
<1>1. Init => FetchIffIncomplete
    BY DEF Init, FetchIffIncomplete, Allocated, Blank
<1>2. IInv /\ RetriesStart /\ FetchIffIncomplete /\ [Next]_vars => FetchIffIncomplete'
    BY StepMatches
<1>3. SUFFICES ASSUME RetriesStart PROVE Spec => []FetchIffIncomplete
    OBVIOUS
<1>4. IInv /\ FetchIffIncomplete /\ [Next]_vars => FetchIffIncomplete'
    BY <1>2, <1>3
<1>. QED
    BY <1>1, <1>4, InvariantHolds, PTL DEF Spec


-----------------------------------------------------------------------------
\* A client is called only for a handle it holds.

\* With nothing queued, the user that is being called is held.
LEMMA QuietCall ==
    ASSUME NEW ob, NEW us, NEW ur, NEW h, NEW r, UsersHold(ob, us, ur, h),
           RunHolds(ob, us, ur, h, r), Quiet(us, ur), r.ev # "none", r.who # Husk
    PROVE  r.who \in h
<1>1. r.at \in Objects /\ r.who \in Users /\ r.who \in Elements(us[r.at])
  <2>1. r.in \in {"event", "notify"}
    BY DEF RunHolds, Loop, Idle, Run
  <2>2. r.at \in Objects /\ r.who # None /\ r.who \in Elements(us[r.at])
    BY <2>1 DEF RunHolds, Loop
  <2>3. r.who \in Users
    BY <2>2 DEF RunHolds, Loop, Run
  <2>. QED
    BY <2>2, <2>3
<1>2. ur[r.who].object = r.at
    BY <1>1, UsersOf
<1>. QED
    BY <1>1, <1>2, Names DEF UsersHold, Quiet

\* When a call of a client begins, nothing is queued.
LEMMA NewCall ==
    ASSUME IInv, [Next]_vars, run'.ev # "none", run.ev = "none" \/ run.who # run'.who,
           run'.who # Husk
    PROVE  \A v \in Users : ~usr'[v].queued
<1>1. run' # run
    OBVIOUS
<1>2. ASSUME NEW u \in Users, ClientCall(u) PROVE FALSE
  <2>1. run' = run \/ run' = [run EXCEPT !.who = Husk]
    BY <1>2 DEF ClientCall, HandleRetrieve, HandleRelease, HandleClone, AbortAlone, AbortShared,
       HandleForceStream, HandleInvalidate
  <2>2. run \in Run
    BY DEF IInv, RunHolds, Loop
  <2>. QED
    BY <1>1, <2>1, <2>2 DEF Run
<1>3. ASSUME NEW x, NEW error, EndWith(x, error) PROVE FALSE
    BY <1>3 DEF EndWith, Idle
<1>4. CASE \E o \in Objects : FetchMessage(o)
  <2>1. PICK o \in Objects : FetchMessage(o)
    BY <1>4
  <2>2. run.in = "idle"
    BY <2>1 DEF FetchMessage, FetchHeader, FetchData, FetchFinished, FetchError, FetchTimedout,
       FetchAuth, FetchSslError, FetchProgress, FetchCerts, FetchRedirect, FetchNotModified, Message
  <2>3. usr' = usr \/ \E x, error : EndWith(x, error)
    BY <2>1 DEF FetchMessage, FetchHeader, FetchData, FetchFinished, FetchError, FetchTimedout,
       FetchAuth, FetchSslError, FetchProgress, FetchCerts, FetchRedirect, FetchNotModified,
       GiveUp, TryAgain
  <2>4. Quiet(users, usr)
    BY <2>2, Arriving
  <2>. QED
    BY <1>3, <2>3, <2>4 DEF Quiet
<1>5. CASE EventStep
  <2>1. CASE \E result \in Results : EventReturns(result)
    BY <2>1, Returned DEF Quiet
  <2>2. CASE \E x, error : EndWith(x, error)
    BY <1>3, <2>2
  <2>3. CASE EndCallback
    BY <2>3 DEF EndCallback, Idle
  <2>. QED
    BY <1>5, <2>1, <2>2, <2>3 DEF EventStep, EventSent, RedirectFollowed, RedirectIgnored, RedirectFails
<1>6. \A phase, o : Visit(phase, o).ev = "none"
    BY DEF Visit, Idle
<1>7. run \in Run
    BY DEF IInv, RunHolds, Loop
<1>8. \A us : NextUser(us, run).ev = "none"
    BY <1>7 DEF NextUser, Run
<1>9. CASE CatchUp \/ NextObject
    BY <1>6, <1>9 DEF CatchUp, NextObject
<1>10. CASE \E u \in Users : NotifyUser(u)
  <2>1. PICK u \in Users : NotifyUser(u)
    BY <1>10
  <2>2. run.in = "notify" /\ run.ev = "none"
    BY <2>1 DEF NotifyUser, NotifyCerts, NotifyHeaders, NotifyData, NotifyDone, NotifyNothing,
       Notifying
  <2>3. Quiet(users, usr) /\ usr \in [Users -> User]
    BY <2>2, Looking
  <2>4. \/ run'.ev = "none"
        \/ \E x : usr' = [usr EXCEPT ![u].state = x]
        \/ \E x : usr' = [usr EXCEPT ![u].bytes = x]
    BY <1>8, <2>1 DEF NotifyUser, NotifyCerts, NotifyHeaders, NotifyData, NotifyDone, NotifyNothing
  <2>5. \A v \in Users : usr'[v].queued = usr[v].queued
    BY <2>3, <2>4 DEF User
  <2>. QED
    BY <2>3, <2>5 DEF Quiet
<1>11. CASE \E result \in Results : NotifyReturns(result)
  <2>1. \/ run' = NextUser(users[run.at], run)
        \/ run' = [run EXCEPT !.ev = "none", !.orig = 0]
        \/ run' = [run EXCEPT !.who = None, !.ev = "none", !.orig = 0, !.seen = INIT]
    BY <1>11 DEF NotifyReturns
  <2>2. run'.ev = "none"
    BY <1>7, <1>8, <2>1 DEF Run
  <2>. QED
    BY <2>2
<1>12. CASE Clean \/ (\E o \in Objects : Expire(o)) \/ UNCHANGED vars
    BY <1>1, <1>12 DEF Clean, Expire, vars
<1>. QED
    BY <1>2, <1>4, <1>5, <1>9, <1>10, <1>11, <1>12 DEF Next, NotifyStep

\* The handle of a call that begins is held.
LEMMA CallsAreHeld ==
    ASSUME IInv, IInv', [Next]_vars, run'.ev # "none", run.ev = "none" \/ run.who # run'.who,
           run'.who # Husk
    PROVE  run'.who \in held'
<1>1. \A v \in Users : ~usr'[v].queued
    BY NewCall
<1>2. \A p \in Objects : Husk \notin Elements(users'[p])
    BY DEF IInv, RunHolds
<1>3. Quiet(users', usr')
    BY <1>1, <1>2 DEF Quiet
<1>4. UsersHold(obj', users', usr', held') /\ RunHolds(obj', users', usr', held', run')
    BY DEF IInv
<1>. QED
    BY <1>3, <1>4, QuietCall

\* llcache_send_event_to_users and llcache_object_notify_users never begin a call for a
\* handle that its client has released: inside a call a release is only queued, and the
\* record is out of the list before the loop goes on.
THEOREM OnlyHeldAreCalled == Spec => CalledWhileHeld
<1>. DEFINE A == run'.ev # "none" /\ (run.ev = "none" \/ run.who # run'.who) /\ run'.who # Husk
                    => run'.who \in held'
<1>1. IInv /\ IInv' /\ [Next]_vars => A
    BY CallsAreHeld
<1>2. IInv /\ [Next]_vars => IInv'
    BY StepHolds
<1>3. IInv /\ [Next]_vars => [A]_vars
    BY <1>1, <1>2
<1>. QED
    BY <1>3, InvariantHolds, PTL DEF Spec, CalledWhileHeld

-----------------------------------------------------------------------------
\* No wake-up is lost: while llcache_catch_up_all_users runs and nothing is scheduled,
\* each user that lags behind its object is still to be visited.

\* x is in the list, at w or behind it.
FromOn(s, w, x) == \E i, j \in DOMAIN s : s[i] = w /\ s[j] = x /\ i <= j

\* Taking others out keeps the order.
LEMMA OrderKept ==
    ASSUME NEW T, NEW s \in Seq(T), NEW y, NEW w, NEW x, FromOn(s, w, x), w # y, x # y
    PROVE  FromOn(Cut(s, y), w, x)
<1>. DEFINE K == Kept(s, {y})
            t == Cut(s, y)
<1>1. Len(s) \in Nat /\ DOMAIN s = 1 .. Len(s)
    OBVIOUS
<1>2. PICK i \in DOMAIN s, j \in DOMAIN s : s[i] = w /\ s[j] = x /\ i <= j
    BY DEF FromOn
<1>3. K \in SUBSET (1 .. Len(s)) /\ i \in K /\ j \in K
    BY <1>1, <1>2 DEF Kept
<1>4. t = [k \in 1 .. Cardinality(K) |-> s[CHOOSE h \in K : Rank(K, h) = k]]
    BY DEF Cut, TakenOut
<1>. HIDE DEF K, t
<1>5. \A h \in K : /\ Rank(K, h) \in 1 .. Cardinality(K)
                   /\ \A k \in K : Rank(K, h) = Rank(K, k) => h = k
    BY <1>1, <1>3, RankedOnce
<1>6. ASSUME NEW h \in K PROVE Rank(K, h) \in DOMAIN t /\ t[Rank(K, h)] = s[h]
    <2>1. (CHOOSE k \in K : Rank(K, k) = Rank(K, h)) = h
        BY <1>5
    <2>. QED
        BY <2>1, <1>4, <1>5
<1>7. Rank(K, i) <= Rank(K, j)
    <2>1. IsFiniteSet(1 .. Len(s))
        BY <1>1, FS_Interval
    <2>2. IsFiniteSet(K \cap (1 .. j)) /\ K \cap (1 .. i) \subseteq K \cap (1 .. j)
        <3>1. K \cap (1 .. i) \subseteq K \cap (1 .. j)
            BY <1>1, <1>2, <1>3
        <3>2. IsFiniteSet(K)
            BY <1>3, <2>1, FS_Subset
        <3>. QED
            BY <3>1, <3>2, FS_Subset
    <2>. QED
        BY <2>2, FS_Subset DEF Rank
<1>. QED
    BY <1>2, <1>3, <1>6, <1>7 DEF FromOn, t

\* Nor does an element in front change it.
LEMMA OrderPushed ==
    ASSUME NEW T, NEW s \in Seq(T), NEW y \in T, NEW w, NEW x, FromOn(s, w, x)
    PROVE  FromOn(Push(y, s), w, x)
<1>. DEFINE p == Push(y, s)
<1>1. PICK i \in DOMAIN s, j \in DOMAIN s : s[i] = w /\ s[j] = x /\ i <= j
    BY DEF FromOn
<1>2. p \in Seq(T) /\ Len(p) = Len(s) + 1 /\ Len(s) \in Nat
    BY DEF Push
<1>3. \A k \in 1 .. Len(s) : k + 1 \in DOMAIN p /\ p[k + 1] = s[k]
    BY <1>2 DEF Push
<1>. HIDE DEF p
<1>4. i \in 1 .. Len(s) /\ j \in 1 .. Len(s)
    BY <1>1
<1>5. i + 1 <= j + 1
    BY <1>1, <1>4
<1>. QED
    BY <1>1, <1>3, <1>4, <1>5 DEF FromOn, p

\* Nor does another element in the place of w, for what is behind it.
LEMMA OrderSwapped ==
    ASSUME NEW T, NEW s \in Seq(T), NEW a, NEW b, NEW x, FromOn(s, a, x), x # a
    PROVE  FromOn(Swap(s, a, b), b, x)
BY DEF FromOn, Swap

\* The first comes before all, and what is behind w, but not w itself, is behind the next.
LEMMA OrderSteps ==
    ASSUME NEW T, NEW s \in Seq(T), None \notin T, OnceIn(s), NEW x \in Elements(s)
    PROVE  /\ First(s) # None /\ FromOn(s, First(s), x) /\ FromOn(s, x, x)
           /\ \A w \in T : FromOn(s, w, x) /\ w # x =>
                              After(s, w) # None /\ FromOn(s, After(s, w), x)
<1>1. Len(s) \in Nat /\ DOMAIN s = 1 .. Len(s) /\ \A i \in DOMAIN s : s[i] \in T
    OBVIOUS
<1>2. PICK k \in DOMAIN s : s[k] = x
    BY DEF Elements
<1>3. s # <<>> /\ 1 \in DOMAIN s /\ 1 <= k /\ k <= k
    BY <1>1, <1>2
<1>4. First(s) = s[1] /\ First(s) # None
    BY <1>1, <1>3 DEF First
<1>5. ASSUME NEW w \in T, FromOn(s, w, x), w # x
      PROVE  After(s, w) # None /\ FromOn(s, After(s, w), x)
    <2>1. PICK i \in DOMAIN s, j \in DOMAIN s : s[i] = w /\ s[j] = x /\ i <= j
        BY <1>5 DEF FromOn
    <2>2. i # j /\ i < Len(s) /\ i + 1 \in DOMAIN s /\ i + 1 <= j
        BY <1>1, <1>5, <2>1
    <2>3. (CHOOSE h \in DOMAIN s : s[h] = w) = i
        BY <2>1 DEF OnceIn
    <2>4. After(s, w) = s[i + 1]
        BY <2>1, <2>2, <2>3 DEF After
    <2>. QED
        BY <1>1, <2>1, <2>2, <2>4 DEF FromOn
<1>. QED
    BY <1>2, <1>3, <1>4, <1>5 DEF FromOn

\* What the clients of a run do not do: a clone is put in front of the loop, a stream moves
\* its object to the other list, an error ends the loop at an object, and so does the
\* release or the abort of a handle whose callback asks for its event again.
NoGaps ==
    /\ Calls \cap {"clone", "force_stream"} = {}
    /\ Results \subseteq {"OK", "NEED_DATA"}
    /\ "NEED_DATA" \in Results => Calls \cap {"release", "abort"} = {}

\* A user that needs no visit.
Clear(u) == usr[u].told \/ ~Behind(u)

\* The objects that the loops still come to, and the users.
Ahead(o) ==
    \/ o # run.at /\ (FromOn(cached, run.at, o) \/ FromOn(uncached, run.at, o))
    \/ run.phase = "cached" /\ o \in Elements(uncached)
Coming(u) == usr[u].object = run.at /\ run.who # None /\ FromOn(users[run.at], run.who, u)
ToCome(u) == Coming(u) \/ Ahead(usr[u].object)

\* The loop is in the list of its phase.
InPhase == \/ run.phase = "cached" /\ run.at \in Elements(cached)
           \/ run.phase = "uncached" /\ run.at \in Elements(uncached)
\* What the loop has read of the object is still so, or there is nobody left to tell.
SeenIsCurrent ==
    run.who # None => \/ run.seen = obj[run.at].state
                      \/ \A u \in held : usr[u].object = run.at => usr[u].told
\* A callback that may ask for its event again finds its user in place.
NoneGone == "NEED_DATA" \in Results => run.who # Husk /\ \A u \in Users : ~usr[u].queued

\* The invariant.
Reaches ==
    /\ run.in = "idle" /\ all_caught_up => \A u \in held : Clear(u)
    /\ run.in = "notify" =>
          /\ InPhase
          /\ all_caught_up => SeenIsCurrent /\ \A u \in held : Clear(u) \/ ToCome(u)
          /\ NoneGone

\* It says nothing of the loops that end in a catch up.
LEMMA Elsewhere ==
    ASSUME run'.in \in {"event", "end"} \/ (run' = Idle /\ all_caught_up' = FALSE)
    PROVE  Reaches'
BY DEF Reaches, Idle

\* The messages of a fetch and what follows them leave the loops, or end in a catch up.
LEMMA EventElsewhere ==
    ASSUME IInv, \/ \E o \in Objects : FetchMessage(o)
                 \/ EventStep
    PROVE  run'.in \in {"event", "end"} \/ (run' = Idle /\ all_caught_up' = FALSE)
<1>. DEFINE Away == run'.in \in {"event", "end"} \/ (run' = Idle /\ all_caught_up' = FALSE)
<1>1. ASSUME NEW o, NEW error, EndWith(o, error) PROVE Away
    BY <1>1 DEF EndWith, Idle
<1>2. ASSUME NEW o, NEW event, NEW target, Send(o, event, target) PROVE Away
    BY <1>2 DEF Send, Idle
<1>. HIDE DEF Away
<1>3. ASSUME NEW o \in Objects, FetchMessage(o) PROVE Away
    <2>1. ASSUME NEW ob, GiveUp(o, ob) PROVE Away
        BY <1>2, <2>1 DEF GiveUp
    <2>2. ASSUME NEW ob, TryAgain(o, ob) PROVE Away
        BY <1>1, <2>2 DEF TryAgain
    <2>3. CASE FetchHeader(o)
        BY <1>1, <2>3 DEF FetchHeader, AllocationFails
    <2>4. CASE FetchData(o)
        BY <1>1, <2>4 DEF FetchData, AllocationFails
    <2>5. CASE FetchFinished(o)
        BY <1>1, <2>5 DEF FetchFinished
    <2>6. CASE FetchError(o) \/ FetchTimedout(o)
        BY <2>1, <2>2, <2>6 DEF FetchError, FetchTimedout
    <2>7. CASE FetchAuth(o) \/ FetchSslError(o)
        BY <2>1, <2>2, <2>7 DEF FetchAuth, FetchSslError
    <2>8. CASE FetchProgress(o) \/ FetchCerts(o) \/ FetchRedirect(o)
        <3>1. \E event, target : Send(o, event, target)
            <4>1. CASE FetchProgress(o)
                BY <4>1 DEF FetchProgress
            <4>2. CASE FetchCerts(o)
                BY <4>2 DEF FetchCerts
            <4>3. CASE FetchRedirect(o)
                BY <4>3 DEF FetchRedirect
            <4>. QED
                BY <2>8, <4>1, <4>2, <4>3
        <3>. QED
            BY <1>2, <3>1
    <2>9. CASE FetchNotModified(o)
        BY <1>1, <2>9 DEF FetchNotModified
    <2>. QED
        BY <1>3, <2>3, <2>4, <2>5, <2>6, <2>7, <2>8, <2>9 DEF FetchMessage
<1>4. ASSUME NEW result, EventReturns(result) PROVE Away
    <2>1. run \in Run /\ run.in = "event"
        BY <1>4 DEF EventReturns, IInv, RunHolds, Loop
    <2>2. CASE result # "OK"
        BY <1>1, <1>4, <2>2 DEF EventReturns
    <2>3. CASE result = "OK"
        <3>. DEFINE next == After(users[run.at], run.who)
                    e == IF next = None THEN "none" ELSE run.what
        <3>1. run' = [run EXCEPT !.who = next, !.ev = e]
            BY <1>4, <2>3 DEF EventReturns
        <3>. HIDE DEF next, e
        <3>2. run'.in = "event"
            BY <2>1, <3>1 DEF Run
        <3>. QED
            BY <3>2 DEF Away
    <2>. QED
        BY <2>2, <2>3
<1>5. CASE EventSent \/ RedirectFollowed \/ RedirectIgnored \/ RedirectFails
    <2>1. \E o, error : EndWith(o, error)
        <3>1. CASE RedirectFollowed
            BY <3>1 DEF RedirectFollowed
        <3>2. CASE EventSent \/ RedirectIgnored \/ RedirectFails
            BY <3>2 DEF EventSent, RedirectIgnored, RedirectFails
        <3>. QED
            BY <1>5, <3>1, <3>2
    <2>. QED
        BY <1>1, <2>1 DEF Away
<1>6. CASE EndCallback
    BY <1>6 DEF EndCallback, NotCaughtUp, Away
<1>. QED
    BY <1>3, <1>4, <1>5, <1>6 DEF EventStep, Away

\* So nothing is asked of them.
LEMMA EventReaches ==
    ASSUME IInv, \/ \E o \in Objects : FetchMessage(o)
                 \/ EventStep
    PROVE  Reaches'
BY EventElsewhere, Elsewhere

\* Steps in which the loops stay where they are.
LEMMA Staying ==
    ASSUME IInv, Reaches, run' = run \/ (run.who # None /\ run'.who # None
                                         /\ run'.in = run.in /\ run'.at = run.at /\ run'.phase = run.phase
                                         /\ run'.seen = run.seen),
           all_caught_up' \in {FALSE, all_caught_up},
           Elements(cached) \subseteq Elements(cached'),
           Elements(uncached) \subseteq Elements(uncached'),
           all_caught_up' = TRUE =>
              /\ cached' = cached
              /\ \A w, x : FromOn(uncached, w, x) => FromOn(uncached', w, x)
              /\ run.at \in Objects => \/ obj'[run.at].state = obj[run.at].state
                                       \/ \A u \in held' : usr'[u].object = run.at => usr'[u].told
              /\ \A u \in held' :
                    \/ usr'[u].told
                    \/ /\ u \in held /\ usr'[u] = usr[u]
                       /\ obj'[usr[u].object].state = obj[usr[u].object].state
                       /\ obj'[usr[u].object].source_len = obj[usr[u].object].source_len
                       /\ Coming(u) => FromOn(users'[run.at], run'.who, u),
           run.in = "notify" => NoneGone'
    PROVE  Reaches'
<1>1. run'.in = run.in /\ run'.at = run.at /\ run'.phase = run.phase /\ run'.seen = run.seen
      /\ (run'.who # None <=> run.who # None)
    OBVIOUS
<1>2. InPhase => InPhase'
    BY <1>1 DEF InPhase
<1>3. ASSUME all_caught_up' = TRUE, NEW u \in held', u \in held, Clear(u) PROVE Clear(u)'
    BY <1>3 DEF Clear, Behind
<1>4. ASSUME all_caught_up' = TRUE, NEW u \in held', u \in held, ToCome(u) PROVE Clear(u)' \/ ToCome(u)'
    <2>1. CASE usr'[u].told
        BY <2>1 DEF Clear
    <2>2. CASE ~usr'[u].told
        <3>1. usr'[u] = usr[u] /\ (Coming(u) => FromOn(users'[run.at], run'.who, u))
            BY <1>4, <2>2
        <3>2. Coming(u) => Coming(u)'
            BY <1>1, <3>1 DEF Coming
        <3>3. Ahead(usr[u].object) => Ahead(usr[u].object)'
            BY <1>1, <1>4, <3>1 DEF Ahead
        <3>. QED
            BY <1>4, <3>2, <3>3 DEF ToCome
    <2>. QED
        BY <2>1, <2>2
<1>5. ASSUME all_caught_up' = TRUE, NEW u \in held', u \notin held PROVE Clear(u)'
    BY <1>5 DEF Clear
<1>6. ASSUME run.in = "notify", all_caught_up' = TRUE, SeenIsCurrent PROVE SeenIsCurrent'
    <2>1. run.at \in Objects
        BY <1>6 DEF IInv, RunHolds, Loop
    <2>2. CASE \A u \in held' : usr'[u].object = run.at => usr'[u].told
        BY <1>1, <2>2 DEF SeenIsCurrent
    <2>3. CASE obj'[run.at].state = obj[run.at].state
        <3>1. CASE run.seen = obj[run.at].state
            BY <1>1, <2>3, <3>1 DEF SeenIsCurrent
        <3>2. CASE \A u \in held : usr[u].object = run.at => usr[u].told
            <4>1. ASSUME NEW u \in held', usr'[u].object = run.at PROVE usr'[u].told
                BY <1>6, <4>1, <3>2
            <4>. QED
                BY <1>1, <4>1 DEF SeenIsCurrent
        <3>3. CASE run.who = None
            BY <1>1, <3>3 DEF SeenIsCurrent
        <3>. QED
            BY <1>6, <3>1, <3>2, <3>3 DEF SeenIsCurrent
    <2>. QED
        BY <1>6, <2>1, <2>2, <2>3
<1>7. all_caught_up' = TRUE => all_caught_up
    OBVIOUS
<1>8. all_caught_up' \in BOOLEAN
    BY DEF IInv
<1>. QED
    BY <1>1, <1>2, <1>3, <1>4, <1>5, <1>6, <1>7, <1>8 DEF Reaches

\* A new handle asks for a catch up of its own.
LEMMA RetrieveReaches ==
    ASSUME IInv, Reaches, NEW u \in Users, NEW url \in Urls, NEW force \in BOOLEAN,
           NEW stream \in BOOLEAN, HandleRetrieve(u, url, force, stream)
    PROVE  Reaches'
<1>1. PICK dest \in Objects :
          /\ ObjectRetrieve(url, force, stream, 0, dest)
          /\ usr' = [usr EXCEPT ![u] = [NoUser EXCEPT !.object = dest]]
    BY DEF HandleRetrieve
<1>2. all_caught_up' = FALSE /\ run' = run
    BY DEF HandleRetrieve, NotCaughtUp
<1>3. /\ cached' = cached \/ cached' = Push(dest, cached)
      /\ uncached' = uncached \/ uncached' = Push(dest, uncached)
    BY <1>1 DEF ObjectRetrieve, RetrieveUncached, RetrieveFresh, RetrieveNew
<1>4. cached \in Seq(Objects) /\ uncached \in Seq(Objects) /\ usr \in [Users -> User]
    BY DEF IInv, ListsHold, UsersHold
<1>5. Elements(cached) \subseteq Elements(cached') /\ Elements(uncached) \subseteq Elements(uncached')
    BY <1>3, <1>4, Pushing
<1>6. run.in = "notify" => NoneGone'
    <2>1. [NoUser EXCEPT !.object = dest].queued = FALSE
        BY DEF NoUser
    <2>2. \A v \in Users : usr'[v].queued => usr[v].queued
        BY <1>1, <1>4, <2>1
    <2>. QED
        BY <1>2, <2>2 DEF Reaches, NoneGone
<1>. QED
    BY <1>2, <1>5, <1>6, Staying

\* The users that stay when one is released stay as they are, in their order.
LEMMA ReleaseLeaves ==
    ASSUME IInv, NEW u \in Users, HandleRelease(u)
    PROVE  \A v \in held' : /\ v \in held /\ usr'[v] = usr[v]
                            /\ Coming(v) => FromOn(users'[run.at], run'.who, v)
<1>1. /\ u \in held /\ held' = held \ {u} /\ Can("release")
      /\ UNCHANGED <<obj, cached, uncached, recent, all_caught_up, run>>
    BY DEF HandleRelease, lists
<1>. DEFINE d == usr[u].object
<1>3. /\ d \in Objects /\ usr \in [Users -> User] /\ users[d] \in Seq(Users \union {Husk})
      /\ users \in [Objects -> Seq(Users \union {Husk})]
      /\ run.who # None => run.ev # "none" /\ run.at \in Objects
      /\ held \subseteq Users
    BY <1>1, Holding, Calling DEF UsersHold
<1>4. ASSUME NEW v \in held'
      PROVE  /\ v \in held /\ usr'[v] = usr[v]
             /\ Coming(v) => FromOn(users'[run.at], run'.who, v)
    <2>1. v \in held /\ v # u /\ v \in Users
        BY <1>1, <1>3
    <2>2. usr'[v] = usr[v]
        BY <1>3, <2>1 DEF HandleRelease
    <2>3. ASSUME Coming(v) PROVE FromOn(users'[run.at], run.who, v)
        <3>1. run.at \in Objects /\ run.ev # "none" /\ FromOn(users[run.at], run.who, v)
            BY <1>3, <2>3 DEF Coming
        <3>2. CASE users' = users
            BY <3>1, <3>2
        <3>3. CASE users' = [users EXCEPT ![d] = Cut(@, u)] /\ ~IsTarget(u)
            <4>1. run.who # u
                BY <3>1, <3>3 DEF IsTarget
            <4>2. CASE run.at = d
                <5>1. users'[run.at] = Cut(users[d], u)
                    BY <1>3, <3>3, <4>2
                <5>. QED
                    BY <1>3, <2>1, <3>1, <4>1, <4>2, <5>1, OrderKept
            <4>3. CASE run.at # d
                BY <1>3, <3>1, <3>3, <4>3
            <4>. QED
                BY <4>2, <4>3
        <3>. QED
            BY <3>2, <3>3 DEF HandleRelease
    <2>. QED
        BY <1>1, <2>1, <2>2, <2>3
<1>. QED
    BY <1>4

\* llcache_handle_release.
LEMMA ReleaseReaches ==
    ASSUME IInv, NoGaps, Reaches, NEW u \in Users, HandleRelease(u) PROVE Reaches'
<1>1. Can("release") /\ UNCHANGED <<obj, cached, uncached, recent, all_caught_up, run>>
    BY DEF HandleRelease, lists
<1>2. NoneGone'
    BY <1>1 DEF Can, NoGaps, NoneGone
<1>3. all_caught_up' \in {FALSE, all_caught_up}
    BY <1>1
<1>. QED
    BY <1>1, <1>2, <1>3, ReleaseLeaves, Staying

\* llcache_handle_abort by the only user.
LEMMA AbortAloneReaches ==
    ASSUME IInv, NoGaps, Reaches, NEW u \in Users, AbortAlone(u) PROVE Reaches'
<1>. DEFINE o == usr[u].object
            r == Over(obj[o])
<1>1. /\ u \in held /\ Can("abort")
      /\ obj' = [obj EXCEPT ![o] = r]
      /\ usr' = [usr EXCEPT ![u].told = TRUE]
      /\ users[o] = <<u>>
      /\ UNCHANGED <<users, held, cached, uncached, all_caught_up, run>>
    BY DEF AbortAlone, Over
<1>2. /\ o \in Objects /\ usr \in [Users -> User] /\ obj \in [Objects -> Object]
      /\ held \subseteq Users
    BY <1>1, Holding DEF IInv, ObjectsHold, UsersHold
<1>3. NoneGone'
    BY <1>1 DEF Can, NoGaps, NoneGone
<1>4. ASSUME NEW v \in held, v # u PROVE usr[v].object # o /\ usr[v].object \in Objects
    <2>1. v \in Elements(users[usr[v].object]) /\ usr[v].object \in Objects
        BY Holding
    <2>2. Elements(<<u>>) = {u}
        BY DEF Elements
    <2>. QED
        BY <1>1, <1>4, <2>1, <2>2
<1>5. usr'[u].told /\ \A v \in Users : v # u => usr'[v] = usr[v]
    BY <1>1, <1>2 DEF User
<1>6. \A p \in Objects : p # o => obj'[p] = obj[p]
    BY <1>1, <1>2
<1>. HIDE DEF o, r
<1>7. ASSUME NEW v \in held'
      PROVE  \/ usr'[v].told
             \/ /\ v \in held /\ usr'[v] = usr[v]
                /\ obj'[usr[v].object].state = obj[usr[v].object].state
                /\ obj'[usr[v].object].source_len = obj[usr[v].object].source_len
                /\ Coming(v) => FromOn(users'[run.at], run'.who, v)
    <2>1. CASE v = u
        BY <1>5, <2>1
    <2>2. CASE v # u
        <3>1. v \in held /\ v \in Users /\ usr[v].object # o /\ usr[v].object \in Objects
            BY <1>1, <1>2, <1>4, <2>2
        <3>. QED
            BY <1>1, <1>5, <1>6, <2>2, <3>1 DEF Coming
    <2>. QED
        BY <2>1, <2>2
<1>8. run.at \in Objects => \/ obj'[run.at].state = obj[run.at].state
                            \/ \A v \in held' : usr'[v].object = run.at => usr'[v].told
    <2>1. CASE run.at # o
        BY <1>6, <2>1
    <2>2. CASE run.at = o
        <3>1. ASSUME NEW v \in held', usr'[v].object = run.at PROVE usr'[v].told
            BY <1>1, <1>2, <1>4, <1>5, <2>2, <3>1
        <3>. QED
            BY <3>1
    <2>. QED
        BY <2>1, <2>2
<1>9. all_caught_up' \in {FALSE, all_caught_up}
    BY <1>1
<1>. QED
    BY <1>1, <1>3, <1>7, <1>8, <1>9, Staying

\* So do those that stay when one of several moves to a snapshot.
LEMMA AbortSharedLeaves ==
    ASSUME IInv, NEW u \in Users, NEW new \in Objects, AbortShared(u, new)
    PROVE  /\ obj[new].url = None /\ obj' = [obj EXCEPT ![new] = Snapshot(obj[usr[u].object])]
           /\ usr'[u].told
           /\ \A v \in held' : \/ v = u
                               \/ /\ v \in held /\ usr'[v] = usr[v] /\ usr[v].object \in Objects \ {new}
                                  /\ Coming(v) => FromOn(users'[run.at], run'.who, v)
           /\ run' = run \/ (run.who # None /\ run' = [run EXCEPT !.who = Husk])
<1>. DEFINE o == usr[u].object
            rest == IF IsTarget(u) THEN Swap(users[o], u, Husk) ELSE Cut(users[o], u)
            r == Snapshot(obj[o])
<1>1. /\ u \in held /\ obj[new].url = None /\ Can("abort")
      /\ obj' = [obj EXCEPT ![new] = r]
      /\ uncached' = Push(new, uncached)
      /\ users' = Parting(users, o, rest, new, u)
      /\ usr' = Parted(usr, u, new)
      /\ run' = IF IsTarget(u) THEN [run EXCEPT !.who = Husk] ELSE run
      /\ UNCHANGED <<held, cached, recent, all_caught_up>>
    BY DEF AbortShared, Free, Parting, Parted, Swap
<1>2. /\ o \in Objects /\ usr \in [Users -> User] /\ obj \in [Objects -> Object]
      /\ held \subseteq Users /\ users \in [Objects -> Seq(Users \union {Husk})]
      /\ uncached \in Seq(Objects) /\ obj[o].url # None
    BY <1>1, Holding DEF IInv, ObjectsHold, UsersHold, ListsHold
<1>3. run \in Run /\ (run.who # None => run.ev # "none" /\ run.at \in Objects /\ obj[run.at].url # None)
    <2>1. run \in Run /\ RunHolds(obj, users, usr, held, run) /\ (run.in = "end" => run.ev = "none")
        BY DEF IInv, RunHolds, Loop
    <2>2. run.who # None => run.ev # "none" /\ run.at \in Objects /\ run.in # "idle"
        BY <1>1, Calling, <2>1 DEF Loop, RunHolds, Idle
    <2>3. run.in \in {"idle", "notify", "event", "end"}
        BY <2>1 DEF Run
    <2>. QED
        BY <2>1, <2>2, <2>3 DEF RunHolds
<1>5. usr'[u].told /\ \A v \in Users : v # u => usr'[v] = usr[v]
    BY <1>1, <1>2 DEF User, Parted
<1>6. \A p \in Objects : p # new => obj'[p] = obj[p]
    BY <1>1, <1>2
<1>7. /\ o # new /\ users'[o] = rest
      /\ \A p \in Objects : p # new /\ p # o => users'[p] = users[p]
    BY <1>1, <1>2 DEF Parting
<1>. HIDE DEF r
<1>8. ASSUME NEW v \in held', v # u, Coming(v) PROVE FromOn(users'[run.at], run'.who, v)
    <2>1. /\ run.at \in Objects /\ run.at # new /\ run.ev # "none" /\ run.who # None
          /\ FromOn(users[run.at], run.who, v)
        BY <1>1, <1>3, <1>8 DEF Coming
    <2>2. CASE IsTarget(u)
        <3>1. run.who = u /\ run'.who = Husk
            BY <1>1, <1>3, <2>2 DEF IsTarget, Run
        <3>2. run.at = o
            <4>1. usr[u].object = run.at
                BY <1>3, <2>1, <3>1, UsersOf DEF IInv, RunHolds
            <4>. QED
                BY <4>1
        <3>3. FromOn(Swap(users[o], u, Husk), Husk, v)
            <4>1. users[o] \in Seq(Users \union {Husk}) /\ FromOn(users[o], u, v)
                BY <1>2, <2>1, <3>1, <3>2
            <4>. QED
                BY <1>8, <4>1, OrderSwapped
        <3>. QED
            BY <1>7, <2>2, <3>1, <3>2, <3>3
    <2>3. CASE ~IsTarget(u)
        <3>1. run.who # u /\ run' = run
            BY <1>1, <2>1, <2>3 DEF IsTarget
        <3>2. CASE run.at = o
            <4>1. users[o] \in Seq(Users \union {Husk}) /\ FromOn(users[o], run.who, v)
                BY <1>2, <2>1, <3>2
            <4>2. FromOn(Cut(users[o], u), run.who, v)
                BY <1>8, <3>1, <4>1, OrderKept
            <4>. QED
                BY <1>7, <2>3, <3>1, <3>2, <4>2
        <3>3. CASE run.at # o
            BY <1>7, <2>1, <3>1, <3>3
        <3>. QED
            BY <3>2, <3>3
    <2>. QED
        BY <2>2, <2>3
<1>9. ASSUME NEW v \in held', v # u
      PROVE  /\ v \in held /\ usr'[v] = usr[v] /\ usr[v].object \in Objects \ {new}
             /\ Coming(v) => FromOn(users'[run.at], run'.who, v)
    <2>1. v \in held /\ v \in Users
        BY <1>1, <1>2
    <2>2. usr[v].object \in Objects /\ usr[v].object # new
        BY <1>1, <2>1, Holding
    <2>. QED
        BY <1>5, <1>8, <1>9, <2>1, <2>2
<1>10. run' = run \/ (run.who # None /\ run' = [run EXCEPT !.who = Husk])
    BY <1>1, Names DEF IsTarget
<1>. QED
    BY <1>1, <1>5, <1>9, <1>10 DEF r

\* llcache_handle_abort by one of several.
LEMMA AbortSharedReaches ==
    ASSUME IInv, NoGaps, Reaches, NEW u \in Users, NEW new \in Objects, AbortShared(u, new)
    PROVE  Reaches'
<1>1. /\ u \in held /\ Can("abort") /\ uncached' = Push(new, uncached)
      /\ UNCHANGED <<held, cached, recent, all_caught_up>>
    BY DEF AbortShared
<1>2. /\ obj \in [Objects -> Object] /\ uncached \in Seq(Objects) /\ run \in Run
    BY DEF IInv, ObjectsHold, ListsHold, RunHolds, Loop
<1>3. /\ obj[new].url = None /\ \A p \in Objects \ {new} : obj'[p] = obj[p]
      /\ usr'[u].told
      /\ \A v \in held' : \/ v = u
                          \/ /\ v \in held /\ usr'[v] = usr[v] /\ usr[v].object \in Objects \ {new}
                             /\ Coming(v) => FromOn(users'[run.at], run'.who, v)
      /\ run' = run \/ (run.who # None /\ run' = [run EXCEPT !.who = Husk])
    BY <1>2, AbortSharedLeaves
<1>4. NoneGone'
    BY <1>1 DEF Can, NoGaps, NoneGone
<1>5. run' = run \/ (run.who # None /\ run'.who # None /\ run'.in = run.in /\ run'.at = run.at
                     /\ run'.phase = run.phase /\ run'.seen = run.seen)
    BY <1>2, <1>3, Names DEF Run
<1>6. ASSUME NEW v \in held'
      PROVE  \/ usr'[v].told
             \/ /\ v \in held /\ usr'[v] = usr[v]
                /\ obj'[usr[v].object] = obj[usr[v].object]
                /\ Coming(v) => FromOn(users'[run.at], run'.who, v)
    BY <1>3
<1>7. CASE run.in = "notify"
    <2>1. run.at \in Objects /\ obj'[run.at] = obj[run.at]
        BY <1>3, <1>7 DEF IInv, RunHolds, Loop
    <2>2. /\ Elements(uncached) \subseteq Elements(uncached')
          /\ \A w, x : FromOn(uncached, w, x) => FromOn(uncached', w, x)
        BY <1>1, <1>2, Pushing, OrderPushed
    <2>3. all_caught_up' \in {FALSE, all_caught_up}
        BY <1>1
    <2>. QED
        BY <1>1, <1>4, <1>5, <1>6, <2>1, <2>2, <2>3, Staying
<1>8. CASE run.in # "notify"
    <2>1. run'.in = run.in
        BY <1>5
    <2>2. ASSUME run.in = "idle", all_caught_up, NEW v \in held PROVE Clear(v)'
        <3>1. Clear(v) /\ v \in held'
            BY <1>1, <2>2 DEF Reaches
        <3>. QED
            BY <1>6, <3>1 DEF Clear, Behind
    <2>. QED
        BY <1>1, <1>8, <2>1, <2>2 DEF Reaches
<1>. QED
    BY <1>7, <1>8

\* llcache_handle_invalidate_cache_data.
LEMMA InvalidateReaches ==
    ASSUME IInv, NoGaps, Reaches, NEW u \in Users, HandleInvalidate(u) PROVE Reaches'
<1>. DEFINE o == usr[u].object
<1>1. /\ u \in held
      /\ obj' = [obj EXCEPT ![o].no_cache = "ONCE"]
      /\ UNCHANGED <<users, usr, held, cached, uncached, recent, all_caught_up, run>>
    BY DEF HandleInvalidate, lists
<1>2. o \in Objects /\ obj \in [Objects -> Object] /\ held \subseteq Users
    BY <1>1, Holding DEF IInv, ObjectsHold, UsersHold
<1>. HIDE DEF o
<1>3. \A p \in Objects : obj'[p].state = obj[p].state /\ obj'[p].source_len = obj[p].source_len
    BY <1>1, <1>2 DEF Object
<1>4. run.in = "notify" => NoneGone'
    BY <1>1 DEF Reaches, NoneGone
<1>5. \A v \in held : usr[v].object \in Objects
    BY Holding
<1>6. all_caught_up' \in {FALSE, all_caught_up}
    BY <1>1
<1>7. \A v \in held : Coming(v) => FromOn(users'[run.at], run'.who, v)
    BY <1>1 DEF Coming
<1>. QED
    BY <1>1, <1>3, <1>4, <1>5, <1>6, <1>7, Staying

\* Every call of a client.
LEMMA CallReaches ==
    ASSUME IInv, NoGaps, Reaches, NEW u \in Users, ClientCall(u) PROVE Reaches'
<1>1. ASSUME NEW call \in {"clone", "force_stream"}, Can(call) PROVE FALSE
    BY <1>1 DEF Can, NoGaps
<1>2. ASSUME NEW new \in Users, HandleClone(u, new) PROVE FALSE
    BY <1>1, <1>2 DEF HandleClone
<1>3. CASE HandleForceStream(u)
    BY <1>1, <1>3 DEF HandleForceStream
<1>. QED
    BY <1>2, <1>3, RetrieveReaches, ReleaseReaches, AbortAloneReaches, AbortSharedReaches,
       InvalidateReaches DEF ClientCall

\* Time, and the discarding of unused objects.
LEMMA IdleReaches ==
    ASSUME IInv, Reaches, (\E o \in Objects : Expire(o)) \/ Clean PROVE Reaches'
<1>1. run.in = "idle" /\ UNCHANGED <<usr, held, all_caught_up, run>>
    BY DEF Expire, Clean
<1>2. obj \in [Objects -> Object] /\ ListsHold(obj, cached, uncached, recent)
    BY DEF IInv, ObjectsHold
<1>3. ASSUME NEW u \in held
      PROVE  /\ obj'[usr[u].object].state = obj[usr[u].object].state
             /\ obj'[usr[u].object].source_len = obj[usr[u].object].source_len
    <2>1. usr[u].object \in Objects /\ u \in Elements(users[usr[u].object])
        BY Holding
    <2>2. CASE \E o \in Objects : Expire(o)
        <3>1. PICK o \in Objects : obj' = [obj EXCEPT ![o].life = FALSE]
            BY <2>2 DEF Expire
        <3>. QED
            BY <1>2, <2>1, <3>1 DEF Object
    <2>3. CASE Clean
        <3>1. PICK n \in 0 .. Len(Spare) : obj' = Destroyed(obj, Excess(n))
            BY <2>3 DEF Clean
        <3>2. \A o \in Excess(n) : users[o] = <<>>
            BY <1>2, ExcessUnused
        <3>3. usr[u].object \notin Excess(n)
            BY <2>1, <3>2 DEF Elements
        <3>. QED
            BY <2>1, <3>1, <3>3 DEF Destroyed
    <2>. QED
        BY <2>2, <2>3
<1>4. ASSUME NEW u \in held, Clear(u) PROVE Clear(u)'
    BY <1>1, <1>3, <1>4 DEF Clear, Behind
<1>. QED
    BY <1>1, <1>4 DEF Reaches

\* The catch up goes on: to an object of the list it is in, to the other list, or to its end.
LEMMA VisitReaches ==
    ASSUME IInv, Quiet(users, usr), NEW phase \in {"cached", "uncached"}, NEW s, NEW o,
           s = (IF phase = "cached" THEN cached ELSE uncached),
           o # None => o \in Elements(s),
           run' = Visit(phase, o),
           UNCHANGED <<obj, users, usr, held, cached, uncached>>,
           all_caught_up' => \A u \in held :
              \/ Clear(u)
              \/ o # None /\ FromOn(s, o, usr[u].object)
              \/ phase = "cached" /\ usr[u].object \in Elements(uncached)
    PROVE  Reaches'
<1>1. /\ ListsHold(obj, cached, uncached, recent) /\ UsersHold(obj, users, usr, held)
      /\ cached \in Seq(Objects) /\ uncached \in Seq(Objects) /\ OnceIn(cached) /\ OnceIn(uncached)
      /\ Elements(cached) \subseteq Objects /\ Elements(uncached) \subseteq Objects
    BY DEF IInv, ListsHold
<1>2. \A u \in held : Clear(u) => Clear(u)'
    BY DEF Clear, Behind
<1>3. ASSUME NEW ph \in {"cached", "uncached"}, NEW p \in Objects,
             p \in Elements(IF ph = "cached" THEN cached ELSE uncached),
             run' = [Idle EXCEPT !.in = "notify", !.phase = ph, !.at = p, !.who = First(users[p]),
                                 !.seen = obj[p].state],
             all_caught_up' => \A u \in held :
                \/ Clear(u)
                \/ FromOn(IF ph = "cached" THEN cached ELSE uncached, p, usr[u].object)
                \/ ph = "cached" /\ usr[u].object \in Elements(uncached)
      PROVE  Reaches'
    <2>1. /\ run'.in = "notify" /\ run'.phase = ph /\ run'.at = p /\ run'.who = First(users[p])
          /\ run'.seen = obj[p].state
        BY <1>3 DEF Idle
    <2>2. InPhase'
        BY <1>3, <2>1 DEF InPhase
    <2>3. SeenIsCurrent'
        BY <2>1 DEF SeenIsCurrent
    <2>4. users[p] \in Seq(Users \union {Husk}) /\ OnceIn(users[p])
          /\ Elements(users[p]) \subseteq Users /\ None \notin Users \union {Husk} /\ Husk \notin Users
        BY <1>1, Names, UsersOf DEF Quiet
    <2>5. NoneGone'
        <3>1. run'.who # Husk
            BY <2>1, <2>4, Stepping, Names
        <3>. QED
            BY <3>1 DEF Quiet, NoneGone
    <2>6. ASSUME all_caught_up', NEW u \in held, ~Clear(u) PROVE ToCome(u)'
        <3>1. usr[u].object \in Objects /\ u \in Elements(users[usr[u].object])
            BY Holding
        <3>2. CASE usr[u].object = p
            <4>1. First(users[p]) # None /\ FromOn(users[p], First(users[p]), u)
                BY <2>4, <3>1, <3>2, OrderSteps
            <4>. QED
                BY <2>1, <3>2, <4>1 DEF ToCome, Coming
        <3>3. CASE usr[u].object # p
            BY <1>3, <2>1, <2>6, <3>3 DEF ToCome, Ahead
        <3>. QED
            BY <3>2, <3>3
    <2>. QED
        BY <1>2, <2>1, <2>2, <2>3, <2>5, <2>6 DEF Reaches
<1>4. CASE o # None
    <2>1. run' = [Idle EXCEPT !.in = "notify", !.phase = phase, !.at = o, !.who = First(users[o]),
                              !.seen = obj[o].state]
        BY <1>4 DEF Visit
    <2>. QED
        BY <1>1, <1>3, <1>4, <2>1
<1>5. CASE o = None /\ phase = "cached" /\ uncached # <<>>
    <2>. DEFINE head == First(uncached)
    <2>1. head \in Elements(uncached) /\ head \in Objects
        BY <1>1, <1>5, Names, Stepping
    <2>2. run' = [Idle EXCEPT !.in = "notify", !.phase = "uncached", !.at = head,
                              !.who = First(users[head]), !.seen = obj[head].state]
        BY <1>5 DEF Visit
    <2>3. ASSUME all_caught_up', NEW u \in held, ~Clear(u) PROVE FromOn(uncached, head, usr[u].object)
        <3>1. usr[u].object \in Elements(uncached)
            BY <1>5, <2>3
        <3>. QED
            BY <1>1, <3>1, Names, OrderSteps
    <2>. HIDE DEF head
    <2>. QED
        BY <1>3, <2>1, <2>2, <2>3
<1>6. CASE o = None /\ ~(phase = "cached" /\ uncached # <<>>)
    <2>1. run' = Idle
        BY <1>6 DEF Visit
    <2>2. all_caught_up' => \A u \in held : Clear(u)
        BY <1>6 DEF Elements
    <2>. QED
        BY <1>2, <2>1, <2>2 DEF Reaches, Idle
<1>. QED
    BY <1>4, <1>5, <1>6

\* The catch up begins.
LEMMA CatchUpReaches ==
    ASSUME IInv, Reaches, CatchUp PROVE Reaches'
<1>1. /\ run.in = "idle" /\ run' = Visit("cached", First(cached))
      /\ UNCHANGED <<obj, users, usr, held, cached, uncached, recent>>
    BY DEF CatchUp, lists
<1>2. Quiet(users, usr)
    BY <1>1, Arriving
<1>3. /\ cached \in Seq(Objects) /\ uncached \in Seq(Objects) /\ OnceIn(cached)
      /\ Elements(cached) \union Elements(uncached) = {o \in Objects : obj[o].url # None}
    BY DEF IInv, ListsHold
<1>4. First(cached) # None => First(cached) \in Elements(cached)
    BY <1>3, Names, Stepping
<1>5. ASSUME NEW u \in held
      PROVE  \/ First(cached) # None /\ FromOn(cached, First(cached), usr[u].object)
             \/ usr[u].object \in Elements(uncached)
    <2>1. usr[u].object \in Elements(cached) \union Elements(uncached)
        BY <1>3, Holding
    <2>. QED
        BY <1>3, <2>1, Names, OrderSteps
<1>. QED
    BY <1>1, <1>2, <1>4, <1>5, VisitReaches

\* It goes on when the users of an object are through.
LEMMA NextObjectReaches ==
    ASSUME IInv, Reaches, NextObject PROVE Reaches'
<1>. DEFINE s == IF run.phase = "cached" THEN cached ELSE uncached
            o == After(s, run.at)
<1>1. /\ run.in = "notify" /\ run.who = None
      /\ UNCHANGED <<obj, users, usr, held, cached, uncached, recent, all_caught_up>>
    BY DEF NextObject, lists
<1>2. run.ev = "none"
    BY <1>1 DEF IInv, RunHolds, Loop
<1>3. Quiet(users, usr) /\ run.at \in Objects /\ all_caught_up \in BOOLEAN
    BY <1>1, <1>2, Looking
<1>4. /\ cached \in Seq(Objects) /\ uncached \in Seq(Objects) /\ OnceIn(cached) /\ OnceIn(uncached)
      /\ Elements(cached) \cap Elements(uncached) = {}
      /\ Elements(cached) \subseteq Objects /\ Elements(uncached) \subseteq Objects
    BY DEF IInv, ListsHold
<1>5. InPhase
    BY <1>1 DEF Reaches
<1>6. run.phase \in {"cached", "uncached"} /\ run.at \in Elements(s) /\ s \in Seq(Objects) /\ OnceIn(s)
    BY <1>4, <1>5 DEF InPhase
<1>7. run' = Visit(run.phase, o)
    BY <1>4, <1>5 DEF NextObject, InPhase
<1>. HIDE DEF s
<1>8. o # None => o \in Elements(s)
    BY <1>3, <1>6, Names, Stepping
<1>9. ASSUME all_caught_up', NEW u \in held
      PROVE  \/ Clear(u)
             \/ o # None /\ FromOn(s, o, usr[u].object)
             \/ run.phase = "cached" /\ usr[u].object \in Elements(uncached)
    <2>1. Clear(u) \/ Ahead(usr[u].object)
        BY <1>1, <1>3, <1>9 DEF Reaches, ToCome, Coming
    <2>. DEFINE p == usr[u].object
    <2>2. CASE p # run.at /\ (FromOn(cached, run.at, p) \/ FromOn(uncached, run.at, p))
        <3>1. FromOn(s, run.at, p)
            <4>1. FromOn(cached, run.at, p) => run.at \in Elements(cached)
                BY DEF FromOn, Elements
            <4>2. FromOn(uncached, run.at, p) => run.at \in Elements(uncached)
                BY DEF FromOn, Elements
            <4>. QED
                BY <1>4, <1>5, <2>2, <4>1, <4>2 DEF InPhase, s
        <3>2. p \in Elements(s)
            BY <3>1 DEF FromOn, Elements
        <3>. QED
            BY <1>3, <1>6, <2>2, <3>1, <3>2, Names, OrderSteps
    <2>. QED
        BY <2>1, <2>2 DEF Ahead
<1>. HIDE DEF o
<1>. QED
    BY <1>1, <1>3, <1>6, <1>7, <1>8, <1>9, VisitReaches DEF s

\* The events that bring one user up to date.
LEMMA TellingReaches ==
    ASSUME IInv, Reaches, NEW u \in Users,
           NotifyCerts(u) \/ NotifyHeaders(u) \/ NotifyData(u) \/ NotifyDone(u)
    PROVE  Reaches'
<1>1. /\ run.in = "notify" /\ run.ev = "none" /\ run.who = u
      /\ UNCHANGED <<users, held, cached, uncached, recent, all_caught_up>>
    BY DEF NotifyCerts, NotifyHeaders, NotifyData, NotifyDone, Notifying, lists
<1>2. /\ Quiet(users, usr) /\ UsersHold(obj, users, usr, held) /\ run.at \in Objects
      /\ u \in Elements(users[run.at]) /\ run \in Run /\ usr \in [Users -> User]
      /\ obj \in [Objects -> Object] /\ all_caught_up \in BOOLEAN
    BY <1>1, Looking, Names
<1>3. usr[u].object = run.at /\ held \subseteq Users
    <2>1. \A v \in Users : v \in Elements(users[run.at]) <=> usr[v].object = run.at
        BY <1>2, UsersOf
    <2>. QED
        BY <1>2, <2>1 DEF UsersHold
<1>4. /\ run'.in = "notify" /\ run'.at = run.at /\ run'.who = u /\ run'.phase = run.phase
      /\ run'.seen = run.seen
    <2>1. \/ \E e : run' = [run EXCEPT !.ev = e]
          \/ \E e, n : run' = [run EXCEPT !.ev = e, !.orig = n]
        <3>1. CASE NotifyCerts(u)
            BY <3>1 DEF NotifyCerts
        <3>2. CASE NotifyHeaders(u)
            BY <3>2 DEF NotifyHeaders
        <3>3. CASE NotifyDone(u)
            BY <3>3 DEF NotifyDone
        <3>4. CASE NotifyData(u)
            BY <3>4 DEF NotifyData
        <3>. QED
            BY <3>1, <3>2, <3>3, <3>4
    <2>. QED
        BY <1>1, <1>2, <2>1 DEF Run
<1>5. /\ \A v \in Users : v # u => usr'[v] = usr[v]
      /\ usr'[u].object = usr[u].object /\ usr'[u].told = usr[u].told /\ usr'[u].queued = usr[u].queued
    <2>1. \/ \E n : usr' = [usr EXCEPT ![u].state = n]
          \/ \E n : usr' = [usr EXCEPT ![u].bytes = n]
        <3>1. CASE NotifyCerts(u)
            BY <3>1 DEF NotifyCerts
        <3>2. CASE NotifyHeaders(u)
            BY <3>2 DEF NotifyHeaders
        <3>3. CASE NotifyDone(u)
            BY <3>3 DEF NotifyDone
        <3>4. CASE NotifyData(u)
            BY <3>4 DEF NotifyData
        <3>. QED
            BY <3>1, <3>2, <3>3, <3>4
    <2>. QED
        BY <1>2, <2>1 DEF User
<1>6. \A p \in Objects : /\ obj'[p].state = obj[p].state
                         /\ obj'[p].source_len \in {0, obj[p].source_len}
    <2>1. obj' = obj \/ obj' = [obj EXCEPT ![run.at].source_len = 0]
        BY DEF NotifyCerts, NotifyHeaders, NotifyData, NotifyDone
    <2>. QED
        BY <1>2, <2>1 DEF Object
<1>7. InPhase'
    BY <1>1, <1>4 DEF Reaches, InPhase
<1>8. NoneGone'
    BY <1>2, <1>4, <1>5, Names DEF NoneGone, Quiet
<1>9. ASSUME all_caught_up PROVE SeenIsCurrent'
    <2>1. SeenIsCurrent
        BY <1>1, <1>9 DEF Reaches
    <2>2. \A v \in held : usr'[v].told = usr[v].told /\ usr'[v].object = usr[v].object
        BY <1>3, <1>5
    <2>. QED
        BY <1>1, <1>2, <1>4, <1>6, <2>1, <2>2 DEF SeenIsCurrent
<1>10. ASSUME all_caught_up, NEW v \in held PROVE Clear(v)' \/ ToCome(v)'
    <2>1. CASE v = u
        <3>1. users[run.at] \in Seq(Users \union {Husk}) /\ OnceIn(users[run.at])
            BY <1>2, UsersOf
        <3>2. FromOn(users[run.at], u, u)
            BY <1>2, <3>1, Names, OrderSteps
        <3>. QED
            BY <1>1, <1>3, <1>4, <1>5, <2>1, <3>2, Names DEF ToCome, Coming
    <2>2. CASE v # u
        <3>1. usr'[v] = usr[v] /\ usr[v] \in User /\ usr[v].object \in Objects
            BY <1>2, <1>3, <1>5, <2>2, Holding
        <3>2. Clear(v) \/ ToCome(v)
            BY <1>1, <1>10 DEF Reaches
        <3>3. ~(usr[v].bytes < 0)
            BY <3>1, BoundsAssumption DEF User
        <3>4. Clear(v) => Clear(v)'
            BY <1>6, <3>1, <3>3 DEF Clear, Behind
        <3>5. ToCome(v) => ToCome(v)'
            BY <1>1, <1>4, <3>1 DEF ToCome, Coming, Ahead
        <3>. QED
            BY <3>2, <3>4, <3>5
    <2>. QED
        BY <2>1, <2>2
<1>. QED
    BY <1>1, <1>2, <1>4, <1>7, <1>8, <1>9, <1>10 DEF Reaches

\* The loop goes on to the next user when there is nothing more to tell this one.
LEMMA NothingReaches ==
    ASSUME IInv, Reaches, NEW u \in Users, NotifyNothing(u) PROVE Reaches'
<1>1. /\ run.in = "notify" /\ run.ev = "none" /\ run.who = u /\ run' = NextUser(users[run.at], run)
      /\ ~(usr[u].state = INIT /\ run.seen > INIT)
      /\ ~OwesHeaders(u) /\ ~OwesData(u) /\ ~OwesDone(u)
      /\ UNCHANGED <<obj, users, usr, held, cached, uncached, recent, all_caught_up>>
    BY DEF NotifyNothing, Notifying, lists
<1>2. /\ Quiet(users, usr) /\ UsersHold(obj, users, usr, held) /\ run.at \in Objects
      /\ u \in Elements(users[run.at]) /\ run \in Run /\ usr \in [Users -> User]
      /\ obj \in [Objects -> Object] /\ all_caught_up \in BOOLEAN
    BY <1>1, Looking, Names
<1>3. /\ usr[u].object = run.at /\ held \subseteq Users
      /\ users[run.at] \in Seq(Users \union {Husk}) /\ OnceIn(users[run.at])
      /\ Elements(users[run.at]) \subseteq Users
    BY <1>2, UsersOf DEF UsersHold, Quiet
<1>. DEFINE w == After(users[run.at], u)
            n == obj[run.at].state
<1>4. /\ run'.in = "notify" /\ run'.at = run.at /\ run'.who = w /\ run'.phase = run.phase
      /\ run'.seen = n
    BY <1>1, <1>2 DEF NextUser, Run
<1>5. w = None \/ w \in Users
    BY <1>3, Names, Stepping
<1>. HIDE DEF w, n
<1>6. InPhase' /\ SeenIsCurrent'
    BY <1>1, <1>4 DEF Reaches, InPhase, SeenIsCurrent, n
<1>7. NoneGone'
    BY <1>1, <1>2, <1>4, <1>5, Names DEF NoneGone, Quiet
<1>8. ASSUME all_caught_up, u \in held PROVE Clear(u)
    <2>1. run.seen = obj[run.at].state \/ usr[u].told
        BY <1>1, <1>3, <1>8, Names DEF Reaches, SeenIsCurrent
    <2>2. ASSUME run.seen = obj[run.at].state PROVE ~Behind(u)
        <3>1. /\ usr[u].state \in 0 .. 3 /\ obj[run.at].state \in 0 .. 3
              /\ usr[u].bytes \in Nat /\ obj[run.at].source_len \in Nat
            BY <1>2, BoundsAssumption DEF User, Object, INIT, COMPLETE
        <3>. QED
            BY <1>1, <1>3, <2>2, <3>1 DEF Behind, OwesHeaders, OwesData, OwesDone,
                                          INIT, HEADERS, DATA, COMPLETE
    <2>. QED
        BY <2>1, <2>2 DEF Clear
<1>9. ASSUME all_caught_up, NEW v \in held PROVE Clear(v)' \/ ToCome(v)'
    <2>1. Clear(v) => Clear(v)'
        BY <1>1 DEF Clear, Behind
    <2>2. ASSUME v # u, Coming(v) PROVE ToCome(v)'
        <3>1. FromOn(users[run.at], u, v) /\ v \in Elements(users[run.at])
            BY <1>1, <2>2 DEF Coming, FromOn, Elements
        <3>2. w # None /\ FromOn(users[run.at], w, v)
            BY <1>3, <2>2, <3>1, Names, OrderSteps DEF w
        <3>. QED
            BY <1>1, <1>4, <2>2, <3>2 DEF ToCome, Coming
    <2>3. Ahead(usr[v].object) => ToCome(v)'
        BY <1>1, <1>4 DEF ToCome, Ahead
    <2>. QED
        BY <1>1, <1>8, <1>9, <2>1, <2>2, <2>3 DEF Reaches, ToCome
<1>. QED
    BY <1>1, <1>2, <1>4, <1>6, <1>7, <1>9 DEF Reaches

\* The callback returns.
LEMMA ReturnReaches ==
    ASSUME IInv, NoGaps, Reaches, NEW result \in Results, NotifyReturns(result) PROVE Reaches'
<1>. DEFINE u == run.who
            w == After(users[run.at], u)
            n == obj[run.at].state
<1>1. /\ run.in = "notify" /\ run.ev # "none"
      /\ UNCHANGED <<obj, held, cached, uncached, recent>>
    BY DEF NotifyReturns, lists
<1>2. /\ run.at \in Objects /\ u \in Users \union {Husk} /\ u \in Elements(users[run.at])
      /\ u \in Users => usr[u].object = run.at
      /\ UsersHold(obj, users, usr, held) /\ all_caught_up \in BOOLEAN /\ run \in Run
    BY <1>1, Called
<1>3. /\ users[run.at] \in Seq(Users \union {Husk}) /\ OnceIn(users[run.at])
      /\ users \in [Objects -> Seq(Users \union {Husk})] /\ usr \in [Users -> User]
      /\ held \subseteq Users /\ u # None /\ None \notin Users \union {Husk}
    BY <1>2, Names, UsersOf DEF UsersHold
<1>4. result \in {"OK", "NEED_DATA"}
    BY DEF NoGaps
<1>5. CASE Gone(u)
    <2>1. result = "OK"
        <3>1. "NEED_DATA" \notin Results
            BY <1>1, <1>5 DEF Reaches, NoneGone, Gone
        <3>. QED
            BY <1>4, <3>1
    <2>2. /\ Deleted(u) /\ run' = NextUser(users[run.at], run) /\ all_caught_up' = all_caught_up
        BY <1>5, <2>1 DEF NotifyReturns
    <2>3. /\ run'.in = "notify" /\ run'.at = run.at /\ run'.who = w /\ run'.phase = run.phase
          /\ run'.seen = n
        BY <1>1, <1>2, <2>2 DEF NextUser, Run
    <2>4. \A v \in held : v # u
        <3>1. ASSUME NEW v \in held, v = u PROVE FALSE
            <4>1. v \in Users /\ v # Husk
                BY <1>3, Names
            <4>2. usr[v].queued
                BY <1>5, <3>1, <4>1 DEF Gone
            <4>. QED
                BY <4>1, <4>2 DEF IInv, RunHolds
        <3>. QED
            BY <3>1
    <2>5. \A v \in held : usr'[v] = usr[v]
        BY <1>3, <2>2, <2>4 DEF Deleted
    <2>6. users'[run.at] = Cut(users[run.at], u)
        BY <1>2, <1>3, <2>2 DEF Deleted
    <2>7. InPhase' /\ SeenIsCurrent'
        BY <1>1, <2>3 DEF Reaches, InPhase, SeenIsCurrent
    <2>8. NoneGone'
        BY <1>1, <1>5 DEF Reaches, NoneGone, Gone
    <2>. HIDE DEF u
    <2>9. ASSUME all_caught_up, NEW v \in held PROVE Clear(v)' \/ ToCome(v)'
        <3>1. Clear(v) => Clear(v)'
            BY <1>1, <2>5 DEF Clear, Behind
        <3>2. ASSUME Coming(v) PROVE ToCome(v)'
            <4>1. FromOn(users[run.at], u, v) /\ v \in Elements(users[run.at])
                BY <3>2 DEF Coming, FromOn, Elements, u
            <4>2. w # None /\ FromOn(users[run.at], w, v)
                BY <1>2, <1>3, <2>4, <4>1, OrderSteps
            <4>3. w # u
                BY <1>2, <1>3, <4>2, Stepping
            <4>. HIDE DEF w
            <4>4. FromOn(users'[run.at], w, v)
                BY <1>3, <2>4, <2>6, <4>2, <4>3, OrderKept
            <4>. QED
                BY <2>3, <2>5, <3>2, <4>2, <4>4 DEF ToCome, Coming
        <3>3. Ahead(usr[v].object) => ToCome(v)'
            BY <1>1, <2>3, <2>5 DEF ToCome, Ahead
        <3>. QED
            BY <1>1, <2>9, <3>1, <3>2, <3>3 DEF Reaches, ToCome
    <2>. QED
        BY <1>1, <1>2, <2>2, <2>3, <2>7, <2>8, <2>9 DEF Reaches
<1>6. CASE ~Gone(u) /\ result = "OK"
    <2>1. /\ run' = [run EXCEPT !.ev = "none", !.orig = 0]
          /\ UNCHANGED <<users, usr, all_caught_up>>
        BY <1>6 DEF NotifyReturns
    <2>2. /\ run'.in = "notify" /\ run'.at = run.at /\ run'.who = u /\ run'.phase = run.phase
          /\ run'.seen = run.seen
        BY <1>1, <1>2, <2>1 DEF Run
    <2>3. NoneGone'
        BY <1>1, <2>1, <2>2 DEF Reaches, NoneGone
    <2>4. all_caught_up' \in {FALSE, all_caught_up}
        BY <2>1
    <2>5. \A v \in held : Coming(v) => FromOn(users'[run.at], run'.who, v)
        BY <2>1, <2>2 DEF Coming
    <2>. HIDE DEF u
    <2>. QED
        BY <1>1, <1>3, <2>1, <2>2, <2>3, <2>4, <2>5, Staying DEF u
<1>7. CASE ~Gone(u) /\ result = "NEED_DATA"
    <2>1. /\ run' = NextUser(users[run.at], run) /\ all_caught_up' = FALSE
          /\ usr' = Replayed(u, run)
        BY <1>7 DEF NotifyReturns, NotCaughtUp
    <2>2. /\ run'.in = "notify" /\ run'.at = run.at /\ run'.who = w /\ run'.phase = run.phase
        BY <1>1, <1>2, <2>1 DEF NextUser, Run
    <2>3. InPhase'
        BY <1>1, <2>2 DEF Reaches, InPhase
    <2>4. \A v \in Users : usr'[v].queued = usr[v].queued
        <3>1. run.ev \in {"GOT_CERTS", "HAD_HEADERS", "HAD_DATA", "DONE"}
            BY <1>1 DEF IInv, RunHolds, Loop
        <3>2. \/ \E k : usr' = [usr EXCEPT ![u].state = k]
              \/ \E k : usr' = [usr EXCEPT ![u].bytes = k]
            BY <2>1, <3>1 DEF Replayed
        <3>. HIDE DEF u
        <3>3. ASSUME NEW k, usr' = [usr EXCEPT ![u].state = k], NEW v \in Users
              PROVE  usr'[v].queued = usr[v].queued
            BY <1>3, <3>3 DEF User
        <3>4. ASSUME NEW k, usr' = [usr EXCEPT ![u].bytes = k], NEW v \in Users
              PROVE  usr'[v].queued = usr[v].queued
            BY <1>3, <3>4 DEF User
        <3>. QED
            BY <3>2, <3>3, <3>4
    <2>5. w # Husk
        <3>1. NoneGone /\ "NEED_DATA" \in Results
            BY <1>1, <1>7 DEF Reaches
        <3>2. Husk \notin Elements(users[run.at])
            BY <1>2, <3>1 DEF IInv, RunHolds, NoneGone
        <3>. QED
            BY <1>2, <1>3, <3>2, Names, Stepping
    <2>6. NoneGone'
        BY <1>1, <2>2, <2>4, <2>5 DEF Reaches, NoneGone
    <2>. QED
        BY <2>1, <2>2, <2>3, <2>6 DEF Reaches
<1>. QED
    BY <1>4, <1>5, <1>6, <1>7

\* Every step keeps it.
LEMMA StepReaches ==
    ASSUME IInv, NoGaps, Reaches, [Next]_vars PROVE Reaches'
<1>1. CASE UNCHANGED vars
    BY <1>1 DEF vars, lists, Reaches, InPhase, SeenIsCurrent, NoneGone, Clear, Behind, ToCome, Coming,
                Ahead
<1>2. ASSUME NEW u \in Users, NotifyUser(u) PROVE Reaches'
    BY <1>2, TellingReaches, NothingReaches DEF NotifyUser
<1>. QED
    BY <1>1, <1>2, CallReaches, EventReaches, IdleReaches, CatchUpReaches, NextObjectReaches,
       ReturnReaches DEF Next, NotifyStep

\* When the loops are idle it says that nobody lags behind.
LEMMA ReachesIsEnough == Reaches => CaughtUp
BY DEF Reaches, CaughtUp, Clear

\* No wake-up is lost: when llcache_catch_up_all_users is not scheduled, no user lags behind
\* its object, whatever the messages of the fetches and the calls of the clients were, as
\* long as none of them leaves a gap.
THEOREM NoWakeUpIsLost == NoGaps /\ Spec => []CaughtUp
<1>. SUFFICES ASSUME NoGaps PROVE Spec => []CaughtUp
    OBVIOUS
<1>1. Init => Reaches
    BY DEF Init, Reaches, Idle
<1>2. IInv /\ Reaches /\ [Next]_vars => Reaches'
    BY StepReaches
<1>. QED
    BY <1>1, <1>2, InvariantHolds, ReachesIsEnough, PTL DEF Spec

-----------------------------------------------------------------------------
\* What the messages make of the records.

\* A record that differs in what it says of its candidate's count at most.
Alike(r, s) ==
    /\ r.url = s.url /\ r.state = s.state /\ r.fetch = s.fetch
    /\ r.source_len = s.source_len /\ r.chain = s.chain /\ r.stream = s.stream
    /\ r.life = s.life /\ r.validator = s.validator /\ r.no_cache = s.no_cache
    /\ r.conditional = s.conditional /\ r.body = s.body

\* The edits of a record.
LEMMA InvalidRecord ==
    ASSUME NEW r \in Object
    PROVE  /\ Invalid(r) \in Object /\ Invalid(r).url = r.url
           /\ Invalid(r).state = r.state /\ Invalid(r).fetch = r.fetch
           /\ Invalid(r).source_len = r.source_len /\ Invalid(r).chain = r.chain
           /\ Invalid(r).stream = r.stream /\ Invalid(r).candidate = r.candidate
           /\ Invalid(r).conditional = r.conditional /\ Invalid(r).body = r.body
           /\ Invalid(r).life = FALSE /\ Invalid(r).validator = FALSE /\ Invalid(r).no_cache = "FRESH"
BY DEF Invalid, Object

\* An object that is over.
LEMMA OverRecord ==
    ASSUME NEW r \in Object
    PROVE  /\ Over(r) \in Object /\ Over(r).state = COMPLETE /\ Over(r).fetch = "none"
           /\ Over(r).source_len = r.source_len /\ Over(r).chain = r.chain
           /\ Over(r).stream = r.stream /\ Over(r).candidate = r.candidate
           /\ Over(r).body = r.body
           /\ Over(r).life = FALSE /\ Over(r).validator = FALSE /\ Over(r).no_cache = "FRESH"
<1>. DEFINE i == Invalid(r)
<1>1. Over(r) = [i EXCEPT !.fetch = "none", !.state = COMPLETE]
    BY DEF Over
<1>2. i \in Object /\ i.source_len = r.source_len /\ i.chain = r.chain
      /\ i.stream = r.stream /\ i.candidate = r.candidate /\ i.body = r.body
      /\ i.life = FALSE /\ i.validator = FALSE /\ i.no_cache = "FRESH"
    BY InvalidRecord
<1>. HIDE DEF i
<1>3. COMPLETE \in INIT .. COMPLETE
    BY DEF INIT, COMPLETE
<1>4. Over(r) \in Object
    BY <1>1, <1>2, <1>3 DEF Object
<1>5. Over(r).state = COMPLETE /\ Over(r).fetch = "none"
    BY <1>1, <1>2 DEF Object
<1>6. /\ Over(r).source_len = i.source_len /\ Over(r).chain = i.chain
      /\ Over(r).stream = i.stream /\ Over(r).candidate = i.candidate
      /\ Over(r).body = i.body
      /\ Over(r).life = i.life /\ Over(r).validator = i.validator /\ Over(r).no_cache = i.no_cache
    BY <1>1, <1>2 DEF Object
<1>. QED
    BY <1>2, <1>4, <1>5, <1>6

\* An object that is fetched again.
LEMMA RefetchedRecord ==
    ASSUME NEW r \in Object, NEW started \in BOOLEAN
    PROVE  /\ Refetched(r, started).state = INIT /\ Refetched(r, started).chain = r.chain
           /\ Refetched(r, started).candidate = r.candidate
           /\ Refetched(r, started).conditional = r.validator
           /\ Refetched(r, started).body = (IF r.body = "part" THEN "mixed" ELSE r.body)
           /\ Refetched(r, started).life = FALSE /\ Refetched(r, started).validator = FALSE
           /\ Refetched(r, started).no_cache = "FRESH"
<1>. DEFINE i == Invalid(r)
            f == IF started THEN "running" ELSE i.fetch
            b == IF i.body = "part" THEN "mixed" ELSE i.body
            v == r.validator
<1>1. Refetched(r, started) = [i EXCEPT !.state = INIT, !.fetch = f, !.conditional = v, !.body = b]
    BY DEF Refetched
<1>2. i \in Object /\ i.chain = r.chain /\ i.candidate = r.candidate /\ i.body = r.body
      /\ i.life = FALSE /\ i.validator = FALSE /\ i.no_cache = "FRESH"
    BY InvalidRecord
<1>. HIDE DEF i, f, v
<1>. QED
    BY <1>1, <1>2 DEF Object, v

\* The release of a candidate changes the count of one other record.
LEMMA ReleasedAlike ==
    ASSUME NEW ob, NEW o \in Objects, ObjectsHold(ob)
    PROVE  /\ ReleaseCandidate(ob, o) \in [Objects -> Object]
           /\ \A p \in Objects : /\ Alike(ReleaseCandidate(ob, o)[p], ob[p])
                                 /\ p # o => ReleaseCandidate(ob, o)[p].candidate = ob[p].candidate
           /\ ReleaseCandidate(ob, o)[o].candidate = None
<1>. DEFINE rb == ReleaseCandidate(ob, o)
            c == ob[o].candidate
<1>1. ObjectsHold(rb) /\ Relinked(ob, rb) /\ rb[o].candidate = None
    BY Releasing
<1>2. ob \in [Objects -> Object] /\ rb \in [Objects -> Object] /\ c \in Objects \union {None} /\ c # o
    BY <1>1 DEF ObjectsHold, Object
<1>3. ASSUME NEW p \in Objects, p # o PROVE rb[p].candidate = ob[p].candidate
  <2>1. CASE c = None
    BY <2>1 DEF ReleaseCandidate
  <2>2. CASE c # None
    <3>. DEFINE n == ob[c].candidate_count - 1
    <3>1. rb = [ob EXCEPT ![c].candidate_count = n, ![o].candidate = None]
        BY <1>2, <2>2 DEF ReleaseCandidate
    <3>. HIDE DEF n, c, rb
    <3>. QED
        BY <1>2, <1>3, <2>2, <3>1 DEF Object
  <2>. QED
    BY <2>1, <2>2
<1>. HIDE DEF rb
<1>4. ASSUME NEW p \in Objects PROVE Alike(rb[p], ob[p])
  <2>1. ob[p] \in Object
    BY <1>2
  <2>. QED
    BY <1>1, <2>1 DEF Alike, Relinked, Object
<1>. QED
    BY <1>1, <1>2, <1>3, <1>4 DEF rb

\* The end of a fetch that is not a success: the object is over, its candidate released.
LEMMA EndedRecords ==
    ASSUME NEW o \in Objects, NEW ob, ObjectsHold(ob),
           obj' = [ReleaseCandidate(ob, o) EXCEPT ![o] = Over(@)]
    PROVE  /\ obj'[o].state = COMPLETE /\ obj'[o].chain = ob[o].chain /\ obj'[o].body = ob[o].body
           /\ ~obj'[o].life /\ ~obj'[o].validator /\ obj'[o].no_cache = "FRESH"
           /\ \A p \in Objects \ {o} : Alike(obj'[p], ob[p]) /\ obj'[p].candidate = ob[p].candidate
<1>. DEFINE rb == ReleaseCandidate(ob, o)
            r == Over(rb[o])
<1>1. /\ rb \in [Objects -> Object]
      /\ \A p \in Objects : Alike(rb[p], ob[p]) /\ (p # o => rb[p].candidate = ob[p].candidate)
    BY ReleasedAlike
<1>2. obj' = [rb EXCEPT ![o] = r]
    BY <1>1
<1>. HIDE DEF rb
<1>3. r.state = COMPLETE /\ r.chain = rb[o].chain /\ r.body = rb[o].body
      /\ r.life = FALSE /\ r.validator = FALSE /\ r.no_cache = "FRESH"
    BY <1>1, OverRecord
<1>. HIDE DEF r
<1>. QED
    BY <1>1, <1>2, <1>3 DEF Alike

\* GiveUp ends so.
LEMMA GiveUpRecords ==
    ASSUME NEW o \in Objects, NEW ob, ObjectsHold(ob), GiveUp(o, ob)
    PROVE  /\ obj'[o].state = COMPLETE /\ obj'[o].chain = ob[o].chain /\ obj'[o].body = ob[o].body
           /\ ~obj'[o].life /\ ~obj'[o].validator /\ obj'[o].no_cache = "FRESH"
           /\ \A p \in Objects \ {o} : Alike(obj'[p], ob[p]) /\ obj'[p].candidate = ob[p].candidate
<1>1. obj' = [ReleaseCandidate(ob, o) EXCEPT ![o] = Over(@)]
    BY DEF GiveUp, Over
<1>. QED
    BY <1>1, EndedRecords

\* So does the redirect.
LEMMA RedirectRecords ==
    ASSUME IInv, NEW o \in Objects, FetchRedirect(o)
    PROVE  /\ obj'[o].state = COMPLETE /\ obj'[o].chain = obj[o].chain /\ obj'[o].body = obj[o].body
           /\ ~obj'[o].life /\ ~obj'[o].validator /\ obj'[o].no_cache = "FRESH"
           /\ \A p \in Objects \ {o} : Alike(obj'[p], obj[p]) /\ obj'[p].candidate = obj[p].candidate
<1>1. obj' = [ReleaseCandidate(obj, o) EXCEPT ![o] = Over(@)]
    BY DEF FetchRedirect, Over
<1>. QED
    BY <1>1, EndedRecords DEF IInv

\* TryAgain.
LEMMA TryAgainRecords ==
    ASSUME NEW o \in Objects, NEW ob \in [Objects -> Object], TryAgain(o, ob)
    PROVE  /\ obj'[o].state = INIT /\ obj'[o].chain = ob[o].chain
           /\ obj'[o].body = (IF ob[o].body = "part" THEN "mixed" ELSE ob[o].body)
           /\ obj'[o].conditional = ob[o].validator
           /\ ~obj'[o].life /\ ~obj'[o].validator /\ obj'[o].no_cache = "FRESH"
           /\ \A p \in Objects \ {o} : obj'[p] = ob[p]
<1>1. PICK started \in BOOLEAN : obj' = [ob EXCEPT ![o] = Refetched(@, started)]
    BY DEF TryAgain
<1>. DEFINE r == Refetched(ob[o], started)
<1>2. r.state = INIT /\ r.chain = ob[o].chain
      /\ r.body = (IF ob[o].body = "part" THEN "mixed" ELSE ob[o].body)
      /\ r.conditional = ob[o].validator
      /\ r.life = FALSE /\ r.validator = FALSE /\ r.no_cache = "FRESH"
    BY RefetchedRecord
<1>. HIDE DEF r
<1>3. obj'[o] = r /\ \A p \in Objects \ {o} : obj'[p] = ob[p]
    BY <1>1 DEF r
<1>. QED
    BY <1>2, <1>3

\* FETCH_HEADER.
LEMMA HeaderRecords ==
    ASSUME IInv, NEW o \in Objects, FetchHeader(o)
    PROVE  /\ obj'[o].state = HEADERS /\ obj'[o].chain = obj[o].chain /\ obj'[o].body = obj[o].body
           /\ obj'[o].conditional = obj[o].conditional /\ obj'[o].candidate = obj[o].candidate
           /\ obj'[o].no_cache \in {"FRESH", obj[o].no_cache} \/ "no-cache" \in Headers
           /\ \A p \in Objects \ {o} : obj'[p] = obj[p]
<1>1. obj[o] \in Object /\ obj \in [Objects -> Object]
    BY DEF IInv, ObjectsHold
<1>. DEFINE q == obj[o]
            i == Invalid(q)
<1>2. /\ i \in Object /\ i.chain = q.chain /\ i.body = q.body /\ i.conditional = q.conditional
      /\ i.candidate = q.candidate /\ i.no_cache = "FRESH" /\ q \in Object
    BY <1>1, InvalidRecord
<1>. DEFINE Fits(r) == /\ r.state = HEADERS /\ r.chain = q.chain /\ r.body = q.body
                       /\ r.conditional = q.conditional /\ r.candidate = q.candidate
                       /\ r.no_cache \in {"FRESH", q.no_cache} \/ "no-cache" \in Headers
<1>3. PICK kind \in Headers :
          obj' = [obj EXCEPT ![o] =
                    CASE kind = "status" -> [i EXCEPT !.state = HEADERS]
                      [] kind = "lifetime" -> [q EXCEPT !.state = HEADERS, !.life = TRUE]
                      [] kind = "no-cache" -> [q EXCEPT !.state = HEADERS, !.no_cache = "ALWAYS"]
                      [] kind = "validator" -> [q EXCEPT !.state = HEADERS, !.validator = TRUE]]
    BY DEF FetchHeader
<1>4. kind \in {"status", "lifetime", "no-cache", "validator"}
    BY KindsAssumption
<1>. HIDE DEF q, i
<1>5. Fits([i EXCEPT !.state = HEADERS]) /\ Fits([q EXCEPT !.state = HEADERS, !.life = TRUE])
      /\ Fits([q EXCEPT !.state = HEADERS, !.validator = TRUE])
    BY <1>2 DEF Object
<1>6. kind = "no-cache" => Fits([q EXCEPT !.state = HEADERS, !.no_cache = "ALWAYS"])
    BY <1>2, <1>3 DEF Object
<1>. HIDE DEF Fits
<1>7. \E r : Fits(r) /\ obj' = [obj EXCEPT ![o] = r]
    BY <1>3, <1>4, <1>5, <1>6
<1>. QED
    BY <1>1, <1>7 DEF Fits, q

\* FETCH_DATA.
LEMMA DataRecords ==
    ASSUME IInv, NEW o \in Objects, FetchData(o)
    PROVE  /\ obj'[o].state = DATA /\ obj'[o].chain = obj[o].chain
           /\ obj'[o].body = (IF obj[o].body = "none" THEN "part" ELSE obj[o].body)
           /\ obj'[o].no_cache \in {"FRESH", obj[o].no_cache}
           /\ \A p \in Objects \ {o} : Alike(obj'[p], obj[p]) /\ obj'[p].candidate = obj[p].candidate
<1>1. obj[o] \in Object /\ ObjectsHold(obj) /\ obj \in [Objects -> Object]
    BY DEF IInv, ObjectsHold
<1>. DEFINE next(r) == [r EXCEPT !.state = DATA, !.body = IF @ = "none" THEN "part" ELSE @]
            rb == IF obj[o].state # DATA THEN ReleaseCandidate(obj, o) ELSE obj
<1>2. /\ rb \in [Objects -> Object]
      /\ \A p \in Objects : Alike(rb[p], obj[p]) /\ (p # o => rb[p].candidate = obj[p].candidate)
    BY <1>1, ReleasedAlike DEF Alike
<1>3. PICK cacheable \in BOOLEAN, grown \in {0, 1} :
          obj' = [rb EXCEPT ![o] = [next(IF cacheable THEN rb[o] ELSE Invalid(rb[o]))
                                        EXCEPT !.source_len = @ + grown]]
    BY DEF FetchData
<1>. HIDE DEF rb
<1>. DEFINE i == IF cacheable THEN rb[o] ELSE Invalid(rb[o])
<1>4. i \in Object /\ i.chain = obj[o].chain /\ i.body = obj[o].body
      /\ i.no_cache \in {"FRESH", obj[o].no_cache}
  <2>1. rb[o] \in Object /\ rb[o].chain = obj[o].chain /\ rb[o].body = obj[o].body
        /\ rb[o].no_cache = obj[o].no_cache
    BY <1>2 DEF Alike
  <2>2. /\ Invalid(rb[o]) \in Object /\ Invalid(rb[o]).chain = rb[o].chain
        /\ Invalid(rb[o]).body = rb[o].body /\ Invalid(rb[o]).no_cache = "FRESH"
    BY <2>1, InvalidRecord
  <2>. QED
    BY <2>1, <2>2
<1>. DEFINE r == [next(i) EXCEPT !.source_len = @ + grown]
<1>5. obj' = [rb EXCEPT ![o] = r]
  <2>. HIDE DEF next
  <2>. QED
    BY <1>3
<1>6. r.state = DATA /\ r.chain = i.chain /\ r.body = (IF i.body = "none" THEN "part" ELSE i.body)
      /\ r.no_cache = i.no_cache
  <2>. HIDE DEF i
  <2>. QED
    BY <1>4 DEF Object
<1>. HIDE DEF r, i, next
<1>7. obj'[o] = r /\ \A p \in Objects \ {o} : obj'[p] = rb[p]
    BY <1>2, <1>5
<1>. QED
    BY <1>2, <1>4, <1>6, <1>7

\* FETCH_FINISHED.
LEMMA FinishedRecords ==
    ASSUME IInv, NEW o \in Objects, FetchFinished(o)
    PROVE  /\ obj'[o].state = COMPLETE /\ obj'[o].chain = obj[o].chain
           /\ obj'[o].body = (IF obj[o].body = "mixed" THEN "mixed" ELSE "whole")
           /\ \A p \in Objects \ {o} : obj'[p] = obj[p]
<1>1. obj[o] \in Object /\ obj \in [Objects -> Object]
    BY DEF IInv, ObjectsHold
<1>2. obj' = [obj EXCEPT ![o].state = COMPLETE, ![o].fetch = "none",
                         ![o].body = IF @ = "mixed" THEN @ ELSE "whole"]
    BY DEF FetchFinished
<1>. DEFINE b == IF obj[o].body = "mixed" THEN "mixed" ELSE "whole"
            r == [obj[o] EXCEPT !.state = COMPLETE, !.fetch = "none", !.body = b]
<1>3. obj' = [obj EXCEPT ![o] = r]
    BY <1>1, <1>2 DEF Object
<1>. HIDE DEF b
<1>4. r.state = COMPLETE /\ r.chain = obj[o].chain /\ r.body = b
    BY <1>1 DEF Object
<1>. HIDE DEF r
<1>. QED
    BY <1>1, <1>3, <1>4 DEF b

\* FETCH_NOTMODIFIED.
LEMMA NotModifiedRecords ==
    ASSUME IInv, NEW o \in Objects, FetchNotModified(o)
    PROVE  /\ obj'[o].state = COMPLETE /\ obj'[o].chain = obj[o].chain /\ obj'[o].body = obj[o].body
           /\ ~obj'[o].life /\ ~obj'[o].validator /\ obj'[o].no_cache = "FRESH"
           /\ \A p \in Objects \ {o} :
                 \/ obj'[p] = obj[p]
                 \/ /\ p = obj[o].candidate
                    /\ obj'[p].state = obj[p].state /\ obj'[p].chain = obj[p].chain
                    /\ obj'[p].body = obj[p].body /\ obj'[p].conditional = obj[p].conditional
                    /\ obj'[p].candidate = obj[p].candidate
<1>. DEFINE c == obj[o].candidate
            done(r) == [Invalid(r) EXCEPT !.fetch = "none", !.state = COMPLETE, !.candidate = None]
            d == done(obj[o])
<1>2. obj[o] \in Object /\ obj \in [Objects -> Object]
    BY DEF IInv, ObjectsHold
<1>3. /\ d.state = COMPLETE /\ d.chain = obj[o].chain /\ d.body = obj[o].body
      /\ d.life = FALSE /\ d.validator = FALSE /\ d.no_cache = "FRESH"
  <2>. DEFINE i == Invalid(obj[o])
  <2>1. i \in Object /\ i.chain = obj[o].chain /\ i.body = obj[o].body
        /\ i.life = FALSE /\ i.validator = FALSE /\ i.no_cache = "FRESH"
    BY <1>2, InvalidRecord
  <2>2. d = [i EXCEPT !.fetch = "none", !.state = COMPLETE, !.candidate = None]
    OBVIOUS
  <2>. HIDE DEF i, d
  <2>. QED
    BY <2>1, <2>2 DEF Object
<1>5. CASE c = None
  <2>1. obj' = [obj EXCEPT ![o] = d]
    BY <1>5 DEF FetchNotModified
  <2>. HIDE DEF d
  <2>. QED
    BY <1>2, <1>3, <2>1
<1>6. CASE c # None
  <2>. DEFINE n == LET m == IF obj[o].no_cache # "FRESH" THEN obj[o].no_cache ELSE obj[c].no_cache
                   IN  IF m = "ONCE" THEN "FRESH" ELSE m
              v == obj[c].validator \/ obj[o].validator
              k == obj[c].candidate_count - 1
              q == obj[c]
  <2>1. c \in Objects /\ c # o /\ q \in Object
    BY <1>2, <1>6, CandidateAllocated DEF IInv
  <2>2. PICK life \in BOOLEAN :
           obj' = [[obj EXCEPT ![c] = [q EXCEPT !.candidate_count = k, !.life = life,
                                                !.validator = v, !.no_cache = n]]
                      EXCEPT ![o] = done(@)]
    BY <1>2, <1>6 DEF FetchNotModified
  <2>. DEFINE r == [q EXCEPT !.candidate_count = k, !.life = life, !.validator = v, !.no_cache = n]
  <2>. HIDE DEF n, v, k, q, c, done
  <2>3. /\ r.state = q.state /\ r.chain = q.chain /\ r.body = q.body
        /\ r.conditional = q.conditional /\ r.candidate = q.candidate
    BY <2>1 DEF Object
  <2>4. obj' = [[obj EXCEPT ![c] = r] EXCEPT ![o] = done(@)]
    BY <2>2
  <2>. HIDE DEF r
  <2>5. obj'[o] = d /\ obj'[c] = r /\ \A p \in Objects \ {o, c} : obj'[p] = obj[p]
    BY <1>2, <2>1, <2>4
  <2>. HIDE DEF d
  <2>. QED
    BY <1>3, <2>1, <2>3, <2>5 DEF q, c
<1>. QED
    BY <1>5, <1>6

\* A retrieval.
LEMMA RetrievedRecords ==
    ASSUME IInv, NEW url \in Urls, NEW force \in BOOLEAN, NEW stream \in BOOLEAN,
           NEW count \in 0 .. RedirectLimit + 1, NEW dest \in Objects,
           ObjectRetrieve(url, force, stream, count, dest)
    PROVE  \A p \in Objects :
              \/ Alike(obj'[p], obj[p]) /\ obj'[p].candidate = obj[p].candidate
              \/ /\ p = dest /\ obj[dest].url = None
                 /\ obj'[p].state = INIT /\ ~obj'[p].chain /\ obj'[p].body = "none"
                 /\ ~obj'[p].life /\ ~obj'[p].validator /\ obj'[p].no_cache = "FRESH"
                 /\ obj'[p].conditional =>
                       /\ obj'[p].candidate \in Objects \ {dest}
                       /\ obj[obj'[p].candidate].validator /\ ~IsFresh(obj'[p].candidate)
<1>1. obj \in [Objects -> Object] /\ ListsHold(obj, cached, uncached, recent)
    BY DEF IInv, ObjectsHold
<1>2. ASSUME NEW f \in BOOLEAN
      PROVE  LET r == Fetched(url, f, stream, count)
             IN  /\ r \in Object /\ r.state = INIT /\ r.chain = FALSE /\ r.body = "none" /\ r.life = FALSE
                 /\ r.validator = FALSE /\ r.no_cache = "FRESH" /\ r.conditional = FALSE
  <2>1. Fetched(url, f, stream, count) \in Object
    BY FetchedObject
  <2>. QED
    BY <2>1 DEF Fetched, Blank
<1>3. ASSUME NEW p \in Objects, obj'[p] = obj[p]
      PROVE  Alike(obj'[p], obj[p]) /\ obj'[p].candidate = obj[p].candidate
    BY <1>3 DEF Alike
<1>4. ASSUME NEW f \in BOOLEAN, obj[dest].url = None,
             obj' = [obj EXCEPT ![dest] = Fetched(url, f, stream, count)], NEW p \in Objects
      PROVE  \/ Alike(obj'[p], obj[p]) /\ obj'[p].candidate = obj[p].candidate
             \/ /\ p = dest
                /\ obj'[p].state = INIT /\ ~obj'[p].chain /\ obj'[p].body = "none"
                /\ ~obj'[p].life /\ ~obj'[p].validator /\ obj'[p].no_cache = "FRESH" /\ ~obj'[p].conditional
  <2>. DEFINE r == Fetched(url, f, stream, count)
  <2>1. r.state = INIT /\ r.chain = FALSE /\ r.body = "none" /\ r.life = FALSE
        /\ r.validator = FALSE /\ r.no_cache = "FRESH" /\ r.conditional = FALSE
    BY <1>2
  <2>2. obj'[dest] = r /\ \A x \in Objects \ {dest} : obj'[x] = obj[x]
    BY <1>1, <1>4
  <2>. HIDE DEF r
  <2>. QED
    BY <1>3, <2>1, <2>2
<1>5. CASE RetrieveUncached(url, stream, count, dest)
    BY <1>4, <1>5 DEF RetrieveUncached, Free
<1>6. CASE RetrieveFresh(url, dest)
    BY <1>3, <1>6 DEF RetrieveFresh
<1>7. CASE RetrieveNew(url, stream, count, dest)
  <2>. DEFINE r == Fetched(url, FALSE, stream, count)
              c == Newest(url)
              v == obj[c].validator
              k == obj[c].candidate_count + 1
              q == [r EXCEPT !.candidate = c, !.conditional = v]
  <2>1. obj[dest].url = None
    BY <1>7 DEF RetrieveNew, Free
  <2>2. CASE c = None
    <3>1. obj' = [obj EXCEPT ![dest] = r]
        BY <1>7, <2>2 DEF RetrieveNew
    <3>. QED
        BY <1>4, <2>1, <3>1
  <2>3. CASE c # None
    <3>1. obj' = [obj EXCEPT ![c].candidate_count = k, ![dest] = q] /\ ~IsFresh(c)
        BY <1>7, <2>3 DEF RetrieveNew
    <3>2. c \in Objects /\ obj[c] \in Object /\ c # dest
        BY <1>1, <2>1, <2>3, NewestFound, Names
    <3>3. /\ r \in Object /\ r.state = INIT /\ r.chain = FALSE /\ r.body = "none" /\ r.life = FALSE
          /\ r.validator = FALSE /\ r.no_cache = "FRESH"
        BY <1>2
    <3>4. v = obj[c].validator
        OBVIOUS
    <3>. HIDE DEF r, c, v, k
    <3>5. /\ q.state = INIT /\ q.chain = FALSE /\ q.body = "none" /\ q.life = FALSE
          /\ q.validator = FALSE /\ q.no_cache = "FRESH" /\ q.conditional = v /\ q.candidate = c
        BY <3>3 DEF Object
    <3>. HIDE DEF q
    <3>6. /\ obj'[dest] = q /\ obj'[c] = [obj[c] EXCEPT !.candidate_count = k]
          /\ \A p \in Objects \ {dest, c} : obj'[p] = obj[p]
        BY <1>1, <3>1, <3>2
    <3>7. Alike(obj'[c], obj[c]) /\ obj'[c].candidate = obj[c].candidate
        BY <3>2, <3>6 DEF Alike, Object
    <3>8. ~IsFresh(q.candidate) /\ obj[q.candidate].validator = q.conditional /\ q.candidate \in Objects \ {dest}
        BY <3>1, <3>2, <3>4, <3>5
    <3>9. ASSUME NEW p \in Objects \ {dest, c}
          PROVE  Alike(obj'[p], obj[p]) /\ obj'[p].candidate = obj[p].candidate
        BY <1>3, <3>6
    <3>10. \A p \in Objects \ {dest} : Alike(obj'[p], obj[p]) /\ obj'[p].candidate = obj[p].candidate
        BY <3>7, <3>9
    <3>11. /\ obj'[dest].state = INIT /\ ~obj'[dest].chain /\ obj'[dest].body = "none"
           /\ ~obj'[dest].life /\ ~obj'[dest].validator /\ obj'[dest].no_cache = "FRESH"
           /\ obj'[dest].conditional =>
                 /\ obj'[dest].candidate \in Objects \ {dest}
                 /\ obj[obj'[dest].candidate].validator /\ ~IsFresh(obj'[dest].candidate)
        BY <3>5, <3>6, <3>8
    <3>. QED
        BY <2>1, <3>10, <3>11
  <2>. QED
    BY <2>2, <2>3
<1>. QED
    BY <1>5, <1>6, <1>7 DEF ObjectRetrieve

\* Objects that differ from those of before in no way that counts here, but for the retries
\* and the fetch of one.
Likewise(ob, o) ==
    /\ ob \in [Objects -> Object]
    /\ ob[o].chain = obj[o].chain /\ ob[o].body = obj[o].body
    /\ \A p \in Objects \ {o} : Alike(ob[p], obj[p]) /\ ob[p].candidate = obj[p].candidate

\* FETCH_ERROR, FETCH_CERT_ERR, FETCH_TIMEDOUT, FETCH_AUTH and FETCH_SSL_ERR: the object ends
\* or it is tried again.
LEMMA EndsRecords ==
    ASSUME IInv, NEW o \in Objects,
           FetchError(o) \/ FetchTimedout(o) \/ FetchAuth(o) \/ FetchSslError(o)
    PROVE  /\ obj'[o].chain = obj[o].chain
           /\ ~obj'[o].life /\ ~obj'[o].validator /\ obj'[o].no_cache = "FRESH"
           /\ \A p \in Objects \ {o} : Alike(obj'[p], obj[p]) /\ obj'[p].candidate = obj[p].candidate
           /\ \/ obj'[o].state = COMPLETE /\ obj'[o].body = obj[o].body /\ Send(o, "ERROR", None)
              \/ /\ obj'[o].state = INIT
                 /\ obj'[o].body = (IF obj[o].body = "part" THEN "mixed" ELSE obj[o].body)
                 /\ NoMemory \/ EndWith(o, "OK")
                 /\ \/ "TIMEDOUT" \in Messages /\ obj[o].retries > 1
                    \/ NoBodyYet(o) /\ ~obj'[o].conditional
<1>. DEFINE Kept1 == /\ obj'[o].chain = obj[o].chain
                     /\ ~obj'[o].life /\ ~obj'[o].validator /\ obj'[o].no_cache = "FRESH"
                     /\ \A p \in Objects \ {o} : /\ Alike(obj'[p], obj[p])
                                                 /\ obj'[p].candidate = obj[p].candidate
<1>1. ObjectsHold(obj) /\ obj \in [Objects -> Object] /\ obj[o] \in Object
    BY DEF IInv, ObjectsHold
<1>2. ASSUME NEW ob, ObjectsHold(ob), Likewise(ob, o), GiveUp(o, ob)
      PROVE  Kept1 /\ obj'[o].state = COMPLETE /\ obj'[o].body = obj[o].body /\ Send(o, "ERROR", None)
  <2>1. Send(o, "ERROR", None)
    BY <1>2 DEF GiveUp
  <2>. QED
    BY <1>2, <2>1, GiveUpRecords DEF Likewise, Alike
<1>3. ASSUME NEW ob, Likewise(ob, o), TryAgain(o, ob)
      PROVE  /\ Kept1 /\ obj'[o].state = INIT
             /\ obj'[o].body = (IF obj[o].body = "part" THEN "mixed" ELSE obj[o].body)
             /\ NoMemory \/ EndWith(o, "OK")
             /\ obj'[o].conditional = ob[o].validator
  <2>1. NoMemory \/ EndWith(o, "OK")
    BY <1>3 DEF TryAgain
  <2>. QED
    BY <1>3, <2>1, TryAgainRecords DEF Likewise
<1>4. CASE GiveUp(o, obj)
  <2>1. Likewise(obj, o)
    BY <1>1 DEF Likewise, Alike
  <2>. QED
    BY <1>1, <1>2, <1>4, <2>1
<1>5. ASSUME NEW r \in Object, r.chain = obj[o].chain, r.body = obj[o].body
      PROVE  Likewise([obj EXCEPT ![o] = r], o)
    BY <1>1, <1>5 DEF Likewise, Alike
<1>6. CASE FetchAuth(o) /\ GiveUp(o, [obj EXCEPT ![o].tried_auth = FALSE])
  <2>. DEFINE r == [obj[o] EXCEPT !.tried_auth = FALSE]
              ob == [obj EXCEPT ![o].tried_auth = FALSE]
  <2>1. ob = [obj EXCEPT ![o] = r]
    BY <1>1
  <2>2. SameKey(r, obj[o]) /\ r.chain = obj[o].chain /\ r.body = obj[o].body /\ r \in Object
    BY <1>1 DEF SameKey, Object
  <2>. HIDE DEF r
  <2>3. obj[o].url # None
    <3>1. run.in = "idle" /\ obj[o].fetch = "running"
        BY <1>6 DEF FetchAuth, Message
    <3>. QED
        BY <3>1, Arriving
  <2>4. ObjectsHold(ob) /\ Likewise(ob, o)
    BY <1>1, <1>5, <2>1, <2>2, <2>3, EditAt
  <2>. HIDE DEF ob
  <2>. QED
    BY <1>2, <1>6, <2>4 DEF ob
<1>7. CASE obj[o].retries > 1 /\ TryAgain(o, [obj EXCEPT ![o].retries = @ - 1, ![o].fetch = "over"])
           /\ "TIMEDOUT" \in Messages
  <2>. DEFINE n == obj[o].retries - 1
              r == [obj[o] EXCEPT !.retries = n, !.fetch = "over"]
              ob == [obj EXCEPT ![o].retries = @ - 1, ![o].fetch = "over"]
  <2>1. ob = [obj EXCEPT ![o] = r]
    BY <1>1 DEF Object
  <2>2. n \in 0 .. FetchAttempts
    BY <1>1, <1>7, BoundsAssumption DEF Object
  <2>. HIDE DEF n, ob
  <2>3. r \in Object /\ r.chain = obj[o].chain /\ r.body = obj[o].body
    BY <1>1, <2>2 DEF Object
  <2>. HIDE DEF r
  <2>4. Likewise(ob, o)
    BY <1>5, <2>1, <2>3
  <2>. QED
    BY <1>3, <1>7, <2>4 DEF ob
<1>. DEFINE rb == ReleaseCandidate(obj, o)
<1>8. /\ rb \in [Objects -> Object]
      /\ \A p \in Objects : Alike(rb[p], obj[p]) /\ (p # o => rb[p].candidate = obj[p].candidate)
    BY <1>1, ReleasedAlike
<1>. HIDE DEF rb
<1>9. ASSUME NEW r \in Object, r.chain = rb[o].chain, r.body = rb[o].body, ~r.validator,
             TryAgain(o, [rb EXCEPT ![o] = r]), NoBodyYet(o)
      PROVE  /\ Kept1 /\ obj'[o].state = INIT
             /\ obj'[o].body = (IF obj[o].body = "part" THEN "mixed" ELSE obj[o].body)
             /\ NoMemory \/ EndWith(o, "OK")
             /\ NoBodyYet(o) /\ ~obj'[o].conditional
  <2>. DEFINE ob == [rb EXCEPT ![o] = r]
  <2>1. Likewise(ob, o) /\ ~ob[o].validator
    BY <1>8, <1>9 DEF Likewise, Alike
  <2>. HIDE DEF ob
  <2>. QED
    BY <1>3, <1>9, <2>1 DEF ob
<1>. DEFINE q == Invalid(rb[o])
<1>10. q \in Object /\ q.chain = rb[o].chain /\ q.body = rb[o].body /\ q.validator = FALSE
    BY <1>8, InvalidRecord
<1>11. CASE NoBodyYet(o) /\ TryAgain(o, [rb EXCEPT ![o] = [q EXCEPT !.tried_auth = TRUE, !.fetch = "none"]])
  <2>. HIDE DEF q
  <2>. DEFINE r == [q EXCEPT !.tried_auth = TRUE, !.fetch = "none"]
  <2>1. r \in Object /\ r.chain = rb[o].chain /\ r.body = rb[o].body /\ ~r.validator
    BY <1>10 DEF Object
  <2>2. TryAgain(o, [rb EXCEPT ![o] = r])
    BY <1>11
  <2>. HIDE DEF r
  <2>. QED
    BY <1>9, <1>11, <2>1, <2>2
<1>12. CASE NoBodyYet(o) /\ TryAgain(o, [rb EXCEPT ![o] = [q EXCEPT !.tried_tls = TRUE, !.fetch = "none"]])
  <2>. HIDE DEF q
  <2>. DEFINE r == [q EXCEPT !.tried_tls = TRUE, !.fetch = "none"]
  <2>1. r \in Object /\ r.chain = rb[o].chain /\ r.body = rb[o].body /\ ~r.validator
    BY <1>10 DEF Object
  <2>2. TryAgain(o, [rb EXCEPT ![o] = r])
    BY <1>12
  <2>. HIDE DEF r
  <2>. QED
    BY <1>9, <1>12, <2>1, <2>2
<1>13. \/ GiveUp(o, obj)
       \/ FetchAuth(o) /\ GiveUp(o, [obj EXCEPT ![o].tried_auth = FALSE])
       \/ /\ obj[o].retries > 1 /\ TryAgain(o, [obj EXCEPT ![o].retries = @ - 1, ![o].fetch = "over"])
          /\ "TIMEDOUT" \in Messages
       \/ NoBodyYet(o) /\ TryAgain(o, [rb EXCEPT ![o] = [q EXCEPT !.tried_auth = TRUE, !.fetch = "none"]])
       \/ NoBodyYet(o) /\ TryAgain(o, [rb EXCEPT ![o] = [q EXCEPT !.tried_tls = TRUE, !.fetch = "none"]])
  <2>1. CASE FetchError(o)
    BY <2>1 DEF FetchError
  <2>2. CASE FetchTimedout(o)
    BY <2>2 DEF FetchTimedout, Message
  <2>3. CASE FetchAuth(o)
    <3>1. \/ GiveUp(o, [obj EXCEPT ![o].tried_auth = FALSE])
          \/ TryAgain(o, [rb EXCEPT ![o] = [Invalid(@) EXCEPT !.tried_auth = TRUE, !.fetch = "none"]])
        BY <2>3 DEF FetchAuth, rb
    <3>2. [rb EXCEPT ![o] = [Invalid(@) EXCEPT !.tried_auth = TRUE, !.fetch = "none"]]
             = [rb EXCEPT ![o] = [q EXCEPT !.tried_auth = TRUE, !.fetch = "none"]]
        BY <1>8
    <3>3. NoBodyYet(o)
        BY <2>3 DEF FetchAuth
    <3>. HIDE DEF q
    <3>. QED
        BY <2>3, <3>1, <3>2, <3>3
  <2>4. CASE FetchSslError(o)
    <3>1. \/ GiveUp(o, obj)
          \/ TryAgain(o, [rb EXCEPT ![o] = [Invalid(@) EXCEPT !.tried_tls = TRUE, !.fetch = "none"]])
        BY <2>4 DEF FetchSslError, rb
    <3>2. [rb EXCEPT ![o] = [Invalid(@) EXCEPT !.tried_tls = TRUE, !.fetch = "none"]]
             = [rb EXCEPT ![o] = [q EXCEPT !.tried_tls = TRUE, !.fetch = "none"]]
        BY <1>8
    <3>3. NoBodyYet(o)
        BY <2>4 DEF FetchSslError
    <3>. HIDE DEF q
    <3>. QED
        BY <3>1, <3>2, <3>3
  <2>. QED
    BY <2>1, <2>2, <2>3, <2>4
<1>. HIDE DEF q
<1>. QED
    BY <1>4, <1>6, <1>7, <1>11, <1>12, <1>13, <1>3

-----------------------------------------------------------------------------
\* What the calls of a client make of the records.

\* A record that says the same of the answer and of its validity, though its object may be a
\* stream now, or, when no fetch of it runs, be marked to be revalidated.
Touched(r, s) ==
    /\ r.state = s.state /\ r.source_len = s.source_len /\ r.chain = s.chain
    /\ s.stream => r.stream
    /\ r.life = s.life /\ r.validator = s.validator
    /\ r.no_cache = s.no_cache \/ (s.url # None /\ s.fetch = "none")
    /\ r.conditional = s.conditional /\ r.candidate = s.candidate /\ r.body = s.body

\* A record of an object that has ended and cannot be revalidated.
Closed(r, s) ==
    /\ r.state = COMPLETE /\ r.source_len = s.source_len /\ r.chain = s.chain
    /\ ~r.life /\ ~r.validator /\ r.no_cache = "FRESH" /\ r.body = s.body

\* A record of an object that has been asked for, of a server that may say it is not modified if
\* the candidate has a validator.
Begun(r, p) ==
    /\ r.state = INIT /\ ~r.chain /\ r.body = "none"
    /\ ~r.life /\ ~r.validator /\ r.no_cache = "FRESH"
    /\ r.conditional => /\ r.candidate \in Objects \ {p}
                        /\ obj[r.candidate].validator /\ ~IsFresh(r.candidate)

\* Alike records are touched at most.
LEMMA AlikeTouched ==
    ASSUME NEW r, NEW s, Alike(r, s), r.candidate = s.candidate PROVE Touched(r, s)
BY DEF Alike, Touched

\* A call changes the record of the handle's object, or makes one.
LEMMA CallRecords ==
    ASSUME IInv, NEW u \in Users, ClientCall(u), NEW p \in Objects
    PROVE  \/ Touched(obj'[p], obj[p])
           \/ obj[p].url = None /\ Begun(obj'[p], p)
           \/ /\ p = usr[u].object /\ AbortAlone(u)
              /\ Closed(obj'[p], obj[p]) /\ obj'[p].stream = obj[p].stream
           \/ /\ obj[p].url = None /\ u \in held
              /\ Closed(obj'[p], obj[usr[u].object]) /\ ~obj'[p].conditional
<1>. DEFINE o == usr[u].object
<1>1. obj \in [Objects -> Object] /\ obj[p] \in Object
    BY DEF IInv, ObjectsHold
<1>2. u \in held => o \in Objects /\ obj[o] \in Object
    BY <1>1, Holding
<1>3. CASE obj'[p] = obj[p]
    BY <1>3 DEF Touched
<1>4. CASE \E url \in Urls, force, stream \in BOOLEAN : HandleRetrieve(u, url, force, stream)
  <2>1. PICK url \in Urls, force \in BOOLEAN, stream \in BOOLEAN : HandleRetrieve(u, url, force, stream)
    BY <1>4
  <2>2. PICK dest \in Objects : ObjectRetrieve(url, force, stream, 0, dest)
    BY <2>1 DEF HandleRetrieve
  <2>3. 0 \in 0 .. RedirectLimit + 1
    BY BoundsAssumption
  <2>4. \/ Alike(obj'[p], obj[p]) /\ obj'[p].candidate = obj[p].candidate
        \/ p = dest /\ obj[dest].url = None /\ Begun(obj'[p], p)
    BY <2>2, <2>3, RetrievedRecords DEF Begun
  <2>. QED
    BY <2>4, AlikeTouched
<1>5. CASE HandleRelease(u) \/ \E new \in Users : HandleClone(u, new)
    BY <1>3, <1>5 DEF HandleRelease, HandleClone
<1>6. CASE AbortAlone(u)
  <2>1. obj' = [obj EXCEPT ![o] = Over(@)] /\ u \in held
    BY <1>6 DEF AbortAlone, Over
  <2>2. CASE p = o
    <3>1. obj'[p] = Over(obj[p])
        BY <1>1, <2>1, <2>2
    <3>2. Closed(Over(obj[p]), obj[p]) /\ Over(obj[p]).stream = obj[p].stream
        BY <1>1, OverRecord DEF Closed
    <3>. QED
        BY <1>6, <2>2, <3>1, <3>2
  <2>3. CASE p # o
    <3>1. obj'[p] = obj[p]
        BY <1>1, <2>1, <2>3
    <3>. QED
        BY <1>3, <3>1
  <2>. QED
    BY <2>2, <2>3
<1>7. CASE \E new \in Objects : AbortShared(u, new)
  <2>1. PICK new \in Objects : AbortShared(u, new)
    BY <1>7
  <2>2. obj[new].url = None /\ obj' = [obj EXCEPT ![new] = Snapshot(obj[o])] /\ u \in held
    BY <2>1 DEF AbortShared, Free
  <2>3. CASE p = new
    <3>1. obj'[p] = Snapshot(obj[o])
        BY <1>1, <2>2, <2>3
    <3>2. Closed(Snapshot(obj[o]), obj[o]) /\ Snapshot(obj[o]).conditional = FALSE
        BY DEF Closed, Snapshot, Blank
    <3>. QED
        BY <2>2, <2>3, <3>1, <3>2
  <2>4. CASE p # new
    BY <1>1, <1>3, <2>2, <2>4
  <2>. QED
    BY <2>3, <2>4
<1>8. CASE HandleForceStream(u)
  <2>1. obj' = [obj EXCEPT ![o].stream = TRUE]
    BY <1>8 DEF HandleForceStream
  <2>. HIDE DEF o
  <2>. QED
    BY <1>1, <2>1 DEF Touched, Object
<1>9. CASE HandleInvalidate(u)
  <2>1. obj' = [obj EXCEPT ![o].no_cache = "ONCE"] /\ obj[o].fetch = "none" /\ obj[o].url # None
    BY <1>9, Holding DEF HandleInvalidate
  <2>. HIDE DEF o
  <2>. QED
    BY <1>1, <2>1 DEF Touched, Object
<1>. QED
    BY <1>4, <1>5, <1>6, <1>7, <1>8, <1>9 DEF ClientCall

-----------------------------------------------------------------------------
\* Replays: what a callback is asked to give again is there to be given.

\* No object has a certificate chain.
NoChains == \A o \in Objects : ~obj[o].chain

\* The invariant.
Replays ==
    /\ NoChains
    /\ run.in = "notify" =>
          /\ run.ev # "GOT_CERTS"
          /\ run.ev = "HAD_DATA" /\ ~obj[run.at].stream => run.orig < obj[run.at].source_len

\* A redirect that is followed is a retrieval.
LEMMA FollowedRetrieves ==
    ASSUME IInv, NEW dest \in Objects,
           run.in = "event", run.what = "REDIRECT", run.target \in Urls,
           ObjectRetrieve(run.target, obj[run.at].force, obj[run.at].stream,
                          obj[run.at].redirect_count + 1, dest)
    PROVE  \A p \in Objects :
              \/ Alike(obj'[p], obj[p]) /\ obj'[p].candidate = obj[p].candidate
              \/ p = dest /\ obj[dest].url = None /\ Begun(obj'[p], p)
<1>1. /\ obj[run.at] \in Object /\ obj[run.at].redirect_count <= RedirectLimit
    BY DEF IInv, ObjectsHold, RunHolds, Loop
<1>2. /\ obj[run.at].force \in BOOLEAN /\ obj[run.at].stream \in BOOLEAN
      /\ obj[run.at].redirect_count \in Nat
    BY <1>1, FiniteAssumption, FS_CardinalityType, BoundsAssumption DEF Object
<1>3. obj[run.at].redirect_count + 1 \in 0 .. RedirectLimit + 1
    BY <1>1, <1>2, BoundsAssumption
<1>. QED
    BY <1>2, <1>3, RetrievedRecords DEF Begun

\* Without FETCH_CERTS there is no chain.
LEMMA ChainsKept ==
    ASSUME IInv, "CERTS" \notin Messages, NoChains, [Next]_vars PROVE NoChains'
<1>1. obj \in [Objects -> Object]
    BY DEF IInv, ObjectsHold
<1>2. CASE UNCHANGED obj
    BY <1>2 DEF NoChains
<1>3. ASSUME NEW o \in Objects, FetchMessage(o) PROVE NoChains'
  <2>1. \A p \in Objects : obj'[p].chain = obj[p].chain \/ UNCHANGED obj
    <3>1. CASE FetchHeader(o)
        BY <3>1, HeaderRecords
    <3>2. CASE FetchData(o)
        BY <3>2, DataRecords DEF Alike
    <3>3. CASE FetchFinished(o)
        BY <3>3, FinishedRecords
    <3>4. CASE FetchError(o) \/ FetchTimedout(o) \/ FetchAuth(o) \/ FetchSslError(o)
        BY <3>4, EndsRecords DEF Alike
    <3>5. CASE FetchProgress(o)
        BY <3>5 DEF FetchProgress
    <3>6. CASE FetchCerts(o)
        BY <3>6 DEF FetchCerts, Message
    <3>7. CASE FetchRedirect(o)
        BY <3>7, RedirectRecords DEF Alike
    <3>8. CASE FetchNotModified(o)
        BY <3>8, NotModifiedRecords
    <3>. QED
        BY <1>3, <3>1, <3>2, <3>3, <3>4, <3>5, <3>6, <3>7, <3>8 DEF FetchMessage
  <2>. QED
    BY <1>2, <2>1 DEF NoChains
<1>4. ASSUME NEW u \in Users, ClientCall(u) PROVE NoChains'
  <2>1. ASSUME NEW p \in Objects PROVE ~obj'[p].chain
    <3>1. u \in held => usr[u].object \in Objects
        BY Holding
    <3>. QED
        BY <1>4, <3>1, CallRecords DEF Touched, Begun, Closed, NoChains
  <2>. QED
    BY <2>1 DEF NoChains
<1>5. ASSUME NEW nb, nb \in [Objects -> Object], \A p \in Objects : nb[p].chain = obj[p].chain,
             NEW S \in SUBSET Objects, obj' = Destroyed(nb, S)
      PROVE  NoChains'
    BY <1>5 DEF NoChains, Destroyed, Blank
<1>6. CASE EventStep
  <2>1. CASE RedirectFollowed
    <3>1. PICK dest \in Objects :
             ObjectRetrieve(run.target, obj[run.at].force, obj[run.at].stream,
                            obj[run.at].redirect_count + 1, dest)
        BY <2>1 DEF RedirectFollowed
    <3>2. run.in = "event" /\ run.what = "REDIRECT" /\ run.target \in Urls
        BY <2>1 DEF RedirectFollowed
    <3>. QED
        BY <3>1, <3>2, FollowedRetrieves DEF Alike, Begun, NoChains
  <2>2. CASE EndCallback
    <3>. DEFINE o == run.at
                ended == [obj EXCEPT ![o] = Over(@)]
    <3>1. \E nb \in {obj, ended}, S \in SUBSET Objects : obj' = Destroyed(nb, S)
        <4>1. Excess(Len(Spare)) \in SUBSET Objects
            <5>1. Len(Spare) \in Nat
                BY DEF IInv, ListsHold
            <5>. QED
                BY <5>1, ExcessUnused DEF IInv
        <4>. QED
            BY <2>2, <4>1 DEF EndCallback, Over
    <3>2. run.in = "end"
        BY <2>2 DEF EndCallback
    <3>3. o \in Objects
        BY <3>2 DEF IInv, RunHolds, Loop
    <3>4. Over(obj[o]) \in Object /\ Over(obj[o]).chain = obj[o].chain
        BY <1>1, <3>3, OverRecord
    <3>. HIDE DEF o
    <3>5. ended \in [Objects -> Object] /\ \A p \in Objects : ended[p].chain = obj[p].chain
        BY <1>1, <3>3, <3>4
    <3>. HIDE DEF ended
    <3>. QED
        BY <1>1, <1>5, <3>1, <3>5
  <2>3. CASE EventSent \/ RedirectIgnored \/ RedirectFails \/ \E result \in Results : EventReturns(result)
    BY <1>2, <2>3 DEF EventSent, RedirectIgnored, RedirectFails, EventReturns
  <2>. QED
    BY <1>6, <2>1, <2>2, <2>3 DEF EventStep
<1>7. ASSUME NEW o \in Objects, Expire(o) PROVE NoChains'
  <2>1. obj' = [obj EXCEPT ![o].life = FALSE]
    BY <1>7 DEF Expire
  <2>2. \A p \in Objects : obj'[p].chain = obj[p].chain
    BY <1>1, <2>1 DEF Object
  <2>. QED
    BY <2>2 DEF NoChains
<1>8. CASE Clean
  <2>1. PICK n \in 0 .. Len(Spare) : obj' = Destroyed(obj, Excess(n))
    BY <1>8 DEF Clean
  <2>2. Excess(n) \in SUBSET Objects
    BY <2>1, ExcessUnused DEF IInv
  <2>. QED
    BY <1>1, <1>5, <2>1, <2>2
<1>9. CASE NotifyStep
  <2>1. obj' = obj \/ obj' = [obj EXCEPT ![run.at].source_len = 0]
    BY <1>9 DEF NotifyStep, NotifyUser, NotifyCerts, NotifyHeaders, NotifyData, NotifyDone, NotifyNothing,
                NotifyReturns, NextObject
  <2>2. \A p \in Objects : obj'[p].chain = obj[p].chain
    BY <1>1, <2>1 DEF Object
  <2>. QED
    BY <2>2 DEF NoChains
<1>10. CASE CatchUp \/ UNCHANGED vars
    BY <1>2, <1>10 DEF CatchUp, vars
<1>. QED
    BY <1>3, <1>4, <1>6, <1>7, <1>8, <1>9, <1>10 DEF Next

\* A call leaves the data of the object whose event the client handles, and the loop where it is.
LEMMA CallReplays ==
    ASSUME IInv, Replays, NoChains', NEW u \in Users, ClientCall(u) PROVE Replays'
<1>1. run \in Run
    BY DEF IInv, RunHolds, Loop
<1>2. run'.in = run.in /\ run'.ev = run.ev /\ run'.at = run.at /\ run'.orig = run.orig
  <2>1. run' = run \/ run' = [run EXCEPT !.who = Husk]
    BY DEF ClientCall, HandleRetrieve, HandleRelease, HandleClone, AbortAlone, AbortShared,
           HandleForceStream, HandleInvalidate
  <2>. QED
    BY <1>1, <2>1 DEF Run
<1>3. ASSUME run.in = "notify"
      PROVE  /\ obj'[run.at].source_len = obj[run.at].source_len
             /\ obj[run.at].stream => obj'[run.at].stream
  <2>1. run.at \in Objects /\ obj[run.at].url # None
    BY <1>3 DEF IInv, RunHolds, Loop
  <2>. QED
    BY <2>1, CallRecords DEF Touched, Closed
<1>. QED
    BY <1>2, <1>3 DEF Replays

\* Every step keeps it.
LEMMA StepReplays ==
    ASSUME IInv, "CERTS" \notin Messages, Replays, [Next]_vars PROVE Replays'
<1>1. NoChains'
    BY ChainsKept DEF Replays
<1>2. CASE run'.in # "notify"
    BY <1>1, <1>2 DEF Replays
<1>3. CASE run'.ev = "none"
    BY <1>1, <1>3 DEF Replays
<1>4. run \in Run
    BY DEF IInv, RunHolds, Loop
<1>5. ASSUME NEW u \in Users, ClientCall(u) PROVE Replays'
    BY <1>1, <1>5, CallReplays
<1>6. CASE (\E o \in Objects : FetchMessage(o)) \/ EventStep
  <2>1. run'.in \in {"event", "end"} \/ run' = Idle
    BY <1>6, EventElsewhere
  <2>2. run'.in # "notify"
    BY <2>1 DEF Idle
  <2>. QED
    BY <1>2, <2>2
<1>7. CASE (\E o \in Objects : Expire(o)) \/ Clean
  <2>1. run.in = "idle" /\ run' = run
    BY <1>7 DEF Expire, Clean
  <2>. QED
    BY <1>2, <2>1
<1>8. CASE CatchUp \/ NextObject
  <2>1. \E phase, o : run' = Visit(phase, o)
    BY <1>8 DEF CatchUp, NextObject
  <2>2. run'.ev = "none"
    BY <2>1 DEF Visit, Idle
  <2>. QED
    BY <1>3, <2>2
<1>9. ASSUME NEW u \in Users, NotifyUser(u) PROVE Replays'
  <2>1. /\ run.in = "notify" /\ run.at \in Objects /\ usr[u] \in User /\ obj[run.at] \in Object
    BY <1>9 DEF NotifyUser, NotifyCerts, NotifyHeaders, NotifyData, NotifyDone, NotifyNothing, Notifying,
                IInv, RunHolds, Loop, UsersHold, ObjectsHold
  <2>2. CASE NotifyCerts(u)
    <3>1. run' = [run EXCEPT !.ev = "none"]
        BY <2>1, <2>2 DEF NotifyCerts, Replays, NoChains
    <3>. QED
        BY <1>3, <1>4, <3>1 DEF Run
  <2>3. CASE NotifyHeaders(u) \/ NotifyDone(u)
    <3>1. run'.ev \in {"HAD_HEADERS", "DONE"}
        BY <1>4, <2>3 DEF NotifyHeaders, NotifyDone, Run
    <3>. QED
        BY <1>1, <3>1 DEF Replays
  <2>4. CASE NotifyData(u)
    <3>1. CASE /\ obj[run.at].stream
               /\ obj' = [obj EXCEPT ![run.at].source_len = 0]
               /\ run' = [run EXCEPT !.ev = "HAD_DATA", !.orig = 0]
        <4>1. run'.ev = "HAD_DATA" /\ run'.at = run.at
            BY <1>4, <3>1 DEF Run
        <4>2. obj'[run.at].stream
            BY <2>1, <3>1 DEF Object, IInv, ObjectsHold
        <4>. QED
            BY <1>1, <4>1, <4>2 DEF Replays
    <3>2. CASE run' = [run EXCEPT !.ev = "HAD_DATA", !.orig = usr[u].bytes] /\ UNCHANGED obj
        <4>1. run'.ev = "HAD_DATA" /\ run'.at = run.at /\ run'.orig = usr[u].bytes
            BY <1>4, <3>2 DEF Run
        <4>2. usr[u].bytes < obj[run.at].source_len
            BY <2>1, <2>4, BoundsAssumption DEF NotifyData, OwesData, User, Object
        <4>. QED
            BY <1>1, <3>2, <4>1, <4>2 DEF Replays
    <3>. QED
        BY <2>4, <3>1, <3>2 DEF NotifyData
  <2>5. CASE NotifyNothing(u)
    <3>1. run' = NextUser(users[run.at], run)
        BY <2>5 DEF NotifyNothing
    <3>. QED
        BY <1>3, <1>4, <3>1 DEF NextUser, Run
  <2>. QED
    BY <1>9, <2>2, <2>3, <2>4, <2>5 DEF NotifyUser
<1>10. ASSUME NEW result \in Results, NotifyReturns(result) PROVE Replays'
  <2>1. run'.ev = "none"
    <3>1. \/ run' = NextUser(users[run.at], run)
          \/ run' = [run EXCEPT !.ev = "none", !.orig = 0]
          \/ run' = [run EXCEPT !.who = None, !.ev = "none", !.orig = 0, !.seen = INIT]
        BY <1>10 DEF NotifyReturns
    <3>. QED
        BY <1>4, <3>1 DEF NextUser, Run
  <2>. QED
    BY <1>3, <2>1
<1>11. CASE UNCHANGED vars
    BY <1>11 DEF Replays, NoChains, vars
<1>. QED
    BY <1>5, <1>6, <1>7, <1>8, <1>9, <1>10, <1>11 DEF Next, NotifyStep

\* When the callback of a handle that is still held asks for its event, the handle is put back to it.
LEMMA ReplaysIsEnough ==
    ASSUME IInv, Replays, NotifyReturns("NEED_DATA"), run.who \in held
    PROVE  CASE run.ev = "GOT_CERTS" -> usr'[run.who].state = INIT
             [] run.ev = "HAD_HEADERS" -> usr'[run.who].state = HEADERS
             [] run.ev = "HAD_DATA" /\ ~obj[run.at].stream ->
                   usr'[run.who].bytes < obj[run.at].source_len
             [] run.ev = "DONE" -> usr'[run.who].state = DATA
             [] OTHER -> TRUE
<1>. DEFINE u == run.who
<1>1. run.in = "notify" /\ run.ev # "none"
    BY DEF NotifyReturns
<1>2. /\ u \in Users /\ u # Husk /\ ~usr[u].queued /\ usr \in [Users -> User]
    BY Names DEF IInv, UsersHold, RunHolds
<1>3. usr' = Replayed(u, run)
    BY <1>2 DEF NotifyReturns, Gone
<1>4. run.ev \in {"HAD_HEADERS", "HAD_DATA", "DONE"}
    BY <1>1 DEF Replays, IInv, RunHolds, Loop
<1>. HIDE DEF u
<1>5. CASE run.ev = "HAD_HEADERS"
    BY <1>2, <1>3, <1>5 DEF Replayed, User, u
<1>6. CASE run.ev = "DONE"
    BY <1>2, <1>3, <1>6 DEF Replayed, User, u
<1>7. CASE run.ev = "HAD_DATA"
  <2>1. usr'[u].bytes = run.orig
    BY <1>2, <1>3, <1>7 DEF Replayed, User
  <2>. QED
    BY <1>1, <1>7, <2>1 DEF Replays, u
<1>. QED
    BY <1>4, <1>5, <1>6, <1>7

\* A callback that returns NEED_DATA is given the same event again, unless the event is GOT_CERTS
\* (finding LLCerts), whatever the client does to this handle or to others before it returns.
THEOREM ReplaysAreKept == "CERTS" \notin Messages /\ Spec => ReplayKept
<1>. SUFFICES ASSUME "CERTS" \notin Messages PROVE Spec => ReplayKept
    OBVIOUS
<1>. DEFINE A == NotifyReturns("NEED_DATA") /\ run.who \in held =>
                    LET u == run.who
                    IN  CASE run.ev = "GOT_CERTS" -> usr'[u].state = INIT
                          [] run.ev = "HAD_HEADERS" -> usr'[u].state = HEADERS
                          [] run.ev = "HAD_DATA" /\ ~obj[run.at].stream ->
                                usr'[u].bytes < obj[run.at].source_len
                          [] run.ev = "DONE" -> usr'[u].state = DATA
                          [] OTHER -> TRUE
<1>1. Init => Replays
    BY DEF Init, Replays, NoChains, Idle, Blank
<1>2. IInv /\ Replays /\ [Next]_vars => Replays'
    BY StepReplays
<1>3. IInv /\ Replays => A
    BY ReplaysIsEnough
<1>4. IInv /\ Replays /\ [Next]_vars => [A]_vars
    BY <1>3
<1>. QED
    BY <1>1, <1>2, <1>4, InvariantHolds, PTL DEF Spec, ReplayKept

-----------------------------------------------------------------------------
\* DONE means the whole of one answer.

\* What the clients and servers of a run do not do: allocations do not fail and callbacks return
\* OK, for an error ends a fetch of which the users are not told; nobody makes a clone, which would
\* miss an error that is being sent; every redirect can be followed (finding LLNowhere); a fetch
\* that times out is not tried again (LLTimeout); and, where objects are revalidated, no answer is
\* marked no-cache, so that an object with a fetch is never revalidated itself (LLChain), and a
\* server says `not modified' only when asked.
WholeAnswers ==
    /\ ~NoMemory /\ Results \subseteq {"OK"}
    /\ "clone" \notin Calls
    /\ Nowhere \notin Targets
    /\ "TIMEDOUT" \in Messages => FetchAttempts = 1
    /\ "NOTMODIFIED" \in Messages => "no-cache" \notin Headers /\ "UNASKED" \notin Messages

Revalidates == "NOTMODIFIED" \in Messages

\* What a record says of its body.  An object that ended without the whole of an answer
\* is neither fresh nor asked for again with its validator.
Sound(r) ==
    /\ r.body # "mixed"
    /\ r.body = "whole" => r.state = COMPLETE
    /\ r.state = COMPLETE /\ r.body # "whole" => ~r.life /\ ~r.validator
    /\ Revalidates /\ r.no_cache # "FRESH" => r.state = COMPLETE

\* An object that may be answered with `not modified' has a candidate to be used instead, and that
\* is the whole of an answer.
Waits(r) == Revalidates /\ r.conditional /\ r.state # COMPLETE /\ r.body # "part"
Asks(ob, r) == Waits(r) => r.candidate # None /\ ob[r.candidate].body = "whole"

RecordsSound == \A o \in Objects : Sound(obj[o]) /\ Asks(obj, obj[o])

\* A record in the next state that waits has waited before, for the same candidate, or has a good one.
Fares(p) ==
    /\ Sound(obj'[p])
    /\ Waits(obj'[p]) =>
          \/ Waits(obj[p]) /\ obj'[p].candidate = obj[p].candidate
          \/ obj'[p].candidate \in Objects /\ obj'[obj'[p].candidate].body = "whole"

\* A candidate stays the whole of an answer.
Lasts(c) == obj[c].body = "whole" /\ Pointing(obj, c) # {} => obj'[c].body = "whole"

\* Then all records say what they should.
LEMMA FaresWell ==
    ASSUME IInv, RecordsSound, \A p \in Objects : Fares(p), \A p \in Objects : Lasts(p)
    PROVE  RecordsSound'
<1>1. ASSUME NEW p \in Objects, Waits(obj[p]), obj'[p].candidate = obj[p].candidate
      PROVE  obj'[p].candidate # None /\ obj'[obj'[p].candidate].body = "whole"
  <2>. DEFINE c == obj[p].candidate
  <2>1. c # None /\ obj[c].body = "whole"
    BY <1>1 DEF RecordsSound, Asks
  <2>2. c \in Objects /\ p \in Pointing(obj, c)
    BY <2>1, CandidateAllocated DEF Pointing
  <2>. QED
    BY <1>1, <2>1, <2>2 DEF Lasts
<1>2. ASSUME NEW p \in Objects PROVE Sound(obj'[p]) /\ Asks(obj', obj'[p])
    BY <1>1, Names DEF Fares, Asks
<1>. QED
    BY <1>2 DEF RecordsSound

\* A record that says the same, or less of its lifetime.
SameAnswer(r, s) ==
    /\ r.state = s.state /\ r.body = s.body
    /\ r.life => s.life
    /\ r.validator = s.validator /\ r.no_cache = s.no_cache
    /\ r.conditional = s.conditional /\ r.candidate = s.candidate

\* It fares well.
LEMMA SameFares ==
    ASSUME RecordsSound, NEW p \in Objects, SameAnswer(obj'[p], obj[p]) PROVE Fares(p) /\ Lasts(p)
<1>1. Sound(obj[p])
    BY DEF RecordsSound
<1>2. Sound(obj'[p]) /\ (Waits(obj'[p]) => Waits(obj[p]))
    BY <1>1 DEF SameAnswer, Sound, Waits
<1>. QED
    BY <1>2 DEF Fares, Lasts, SameAnswer

\* An object that ends keeps its body.
LEMMA EndedFares ==
    ASSUME RecordsSound, NEW p \in Objects, obj'[p].state = COMPLETE, obj'[p].body = obj[p].body,
           ~obj'[p].life, ~obj'[p].validator
    PROVE  Fares(p) /\ Lasts(p)
<1>1. Sound(obj[p])
    BY DEF RecordsSound
<1>2. Sound(obj'[p]) /\ ~Waits(obj'[p])
    BY <1>1 DEF Sound, Waits
<1>. QED
    BY <1>2 DEF Fares, Lasts

\* An object that begins has a good candidate, if any.
LEMMA BegunFares ==
    ASSUME IInv, RecordsSound, NEW p \in Objects, obj[p].url = None, Begun(obj'[p], p),
           \A q \in Objects : obj[q].url # None => obj'[q].body = obj[q].body
    PROVE  Fares(p) /\ Lasts(p)
<1>1. obj[p] = Blank
    BY DEF IInv, ObjectsHold
<1>2. Sound(obj'[p])
    BY DEF Begun, Sound, INIT, COMPLETE
<1>3. ASSUME Waits(obj'[p])
      PROVE  obj'[p].candidate \in Objects /\ obj'[obj'[p].candidate].body = "whole"
  <2>. DEFINE c == obj'[p].candidate
  <2>1. c \in Objects \ {p} /\ obj[c].validator /\ ~IsFresh(c)
    BY <1>3 DEF Waits, Begun
  <2>2. Sound(obj[c]) /\ Revalidates
    BY <1>3, <2>1 DEF RecordsSound, Waits
  <2>3. obj[c].state = COMPLETE
    BY <2>1, <2>2 DEF IsFresh, Sound
  <2>4. obj[c].body = "whole"
    BY <2>1, <2>2, <2>3 DEF Sound
  <2>5. obj[c].url # None
    BY <2>1 DEF IInv, ObjectsHold, Blank
  <2>. QED
    BY <2>1, <2>4, <2>5
<1>4. Lasts(p)
    BY <1>1 DEF Lasts, Blank
<1>. QED
    BY <1>2, <1>3, <1>4 DEF Fares

\* The messages of a fetch.
LEMMA MessageSound ==
    ASSUME IInv, FetchIffIncomplete, WholeAnswers, RecordsSound, NEW o \in Objects, FetchMessage(o)
    PROVE  RecordsSound'
<1>1. run.in = "idle" /\ obj[o].fetch = "running"
    BY DEF FetchMessage, FetchHeader, FetchData, FetchFinished, FetchError, FetchTimedout, FetchAuth,
           FetchSslError, FetchProgress, FetchCerts, FetchRedirect, FetchNotModified, Message
<1>2. obj[o] \in Object /\ obj \in [Objects -> Object] /\ obj[o].url # None
    BY <1>1, Arriving
<1>3. obj[o].state # COMPLETE /\ Sound(obj[o]) /\ Asks(obj, obj[o])
    BY <1>1, <1>2 DEF FetchIffIncomplete, Allocated, RecordsSound
<1>4. /\ obj[o].body \in {"none", "part"}
      /\ Revalidates => obj[o].no_cache = "FRESH"
    BY <1>2, <1>3 DEF Sound, Object
<1>5. Lasts(o)
    BY <1>4 DEF Lasts
<1>6. ASSUME NEW p \in Objects,
             obj'[p] = obj[p] \/ (Alike(obj'[p], obj[p]) /\ obj'[p].candidate = obj[p].candidate)
      PROVE  Fares(p) /\ Lasts(p)
    BY <1>6, SameFares DEF Alike, SameAnswer
<1>7. CASE /\ Fares(o)
           /\ \A p \in Objects \ {o} :
                 \/ obj'[p] = obj[p]
                 \/ Alike(obj'[p], obj[p]) /\ obj'[p].candidate = obj[p].candidate
    BY <1>5, <1>6, <1>7, FaresWell
<1>8. CASE FetchHeader(o)
  <2>1. /\ obj'[o].state = HEADERS /\ obj'[o].body = obj[o].body
        /\ obj'[o].conditional = obj[o].conditional /\ obj'[o].candidate = obj[o].candidate
        /\ obj'[o].no_cache \in {"FRESH", obj[o].no_cache} \/ "no-cache" \in Headers
        /\ \A p \in Objects \ {o} : obj'[p] = obj[p]
    BY <1>8, HeaderRecords
  <2>2. Fares(o)
    BY <1>3, <1>4, <2>1 DEF Fares, Sound, Waits, WholeAnswers, Revalidates, HEADERS, COMPLETE
  <2>. QED
    BY <1>7, <2>1, <2>2
<1>9. CASE FetchData(o)
  <2>1. /\ obj'[o].state = DATA /\ obj'[o].body = (IF obj[o].body = "none" THEN "part" ELSE obj[o].body)
        /\ obj'[o].no_cache \in {"FRESH", obj[o].no_cache}
        /\ \A p \in Objects \ {o} : Alike(obj'[p], obj[p]) /\ obj'[p].candidate = obj[p].candidate
    BY <1>9, DataRecords
  <2>2. Fares(o)
    BY <1>4, <2>1 DEF Fares, Sound, Waits, DATA, COMPLETE
  <2>. QED
    BY <1>7, <2>1, <2>2
<1>10. CASE FetchFinished(o)
  <2>1. /\ obj'[o].state = COMPLETE /\ obj'[o].body = "whole"
        /\ \A p \in Objects \ {o} : obj'[p] = obj[p]
    BY <1>4, <1>10, FinishedRecords
  <2>2. Fares(o)
    BY <2>1 DEF Fares, Sound, Waits
  <2>. QED
    BY <1>7, <2>1, <2>2
<1>11. CASE FetchError(o) \/ FetchTimedout(o) \/ FetchAuth(o) \/ FetchSslError(o)
  <2>1. /\ ~obj'[o].life /\ ~obj'[o].validator /\ obj'[o].no_cache = "FRESH"
        /\ \A p \in Objects \ {o} : Alike(obj'[p], obj[p]) /\ obj'[p].candidate = obj[p].candidate
        /\ \/ obj'[o].state = COMPLETE /\ obj'[o].body = obj[o].body
           \/ /\ obj'[o].state = INIT
              /\ obj'[o].body = (IF obj[o].body = "part" THEN "mixed" ELSE obj[o].body)
              /\ \/ "TIMEDOUT" \in Messages /\ obj[o].retries > 1
                 \/ NoBodyYet(o) /\ ~obj'[o].conditional
    BY <1>11, EndsRecords
  <2>2. "TIMEDOUT" \in Messages => ~(obj[o].retries > 1)
    BY <1>2 DEF WholeAnswers, Object
  <2>3. Fares(o)
    <3>1. CASE obj'[o].state = COMPLETE /\ obj'[o].body = obj[o].body
        BY <2>1, <3>1, EndedFares
    <3>2. CASE /\ obj'[o].state = INIT
               /\ obj'[o].body = (IF obj[o].body = "part" THEN "mixed" ELSE obj[o].body)
               /\ NoBodyYet(o) /\ ~obj'[o].conditional
        BY <1>4, <2>1, <3>2 DEF NoBodyYet, Fares, Sound, Waits, INIT, COMPLETE
    <3>. QED
        BY <2>1, <2>2, <3>1, <3>2
  <2>. QED
    BY <1>7, <2>1, <2>3
<1>12. CASE FetchProgress(o)
  <2>1. obj' = obj
    BY <1>12 DEF FetchProgress
  <2>. QED
    BY <1>6, <2>1, FaresWell
<1>13. CASE FetchCerts(o)
  <2>1. obj' = [obj EXCEPT ![o].chain = TRUE]
    BY <1>13 DEF FetchCerts
  <2>2. \A p \in Objects : SameAnswer(obj'[p], obj[p])
    BY <1>2, <2>1 DEF SameAnswer, Object
  <2>. QED
    BY <2>2, SameFares, FaresWell
<1>14. CASE FetchRedirect(o)
  <2>1. /\ obj'[o].state = COMPLETE /\ obj'[o].body = obj[o].body /\ ~obj'[o].life /\ ~obj'[o].validator
        /\ \A p \in Objects \ {o} : Alike(obj'[p], obj[p]) /\ obj'[p].candidate = obj[p].candidate
    BY <1>14, RedirectRecords
  <2>. QED
    BY <1>7, <2>1, EndedFares
<1>15. CASE FetchNotModified(o)
  <2>. DEFINE c == obj[o].candidate
  <2>1. Waits(obj[o])
    BY <1>3, <1>15 DEF FetchNotModified, Message, NoBodyYet, Waits, Revalidates, WholeAnswers
  <2>2. c # None /\ obj[c].body = "whole"
    BY <1>3, <2>1 DEF Asks
  <2>3. c \in Objects
    BY <2>2, CandidateAllocated
  <2>4. /\ obj'[o].state = COMPLETE /\ obj'[o].body = obj[o].body /\ ~obj'[o].life /\ ~obj'[o].validator
        /\ \A p \in Objects \ {o} :
              \/ obj'[p] = obj[p]
              \/ /\ p = obj[o].candidate
                 /\ obj'[p].state = obj[p].state /\ obj'[p].body = obj[p].body
    BY <1>15, NotModifiedRecords
  <2>5. ASSUME NEW p \in Objects \ {o}, p = c, obj'[p].state = obj[p].state, obj'[p].body = obj[p].body
        PROVE  Fares(p) /\ Lasts(p)
    BY <2>2, <2>5 DEF Fares, Lasts, Sound, Waits, RecordsSound
  <2>6. Fares(o)
    BY <2>4, EndedFares
  <2>. QED
    BY <1>5, <1>6, <2>4, <2>5, <2>6, FaresWell
<1>. QED
    BY <1>8, <1>9, <1>10, <1>11, <1>12, <1>13, <1>14, <1>15 DEF FetchMessage

\* The calls of a client.
LEMMA CallSound ==
    ASSUME IInv, FetchIffIncomplete, RecordsSound, NEW u \in Users, ClientCall(u)
    PROVE  RecordsSound'
<1>1. \A q \in Objects : obj[q].url # None => obj'[q].body = obj[q].body
    BY CallRecords DEF Touched, Closed
<1>2. ASSUME NEW p \in Objects PROVE Fares(p) /\ Lasts(p)
  <2>1. Sound(obj[p]) /\ obj[p].fetch \in {"none", "running", "over"}
        /\ (obj[p].url = None => obj[p] = Blank)
    BY DEF RecordsSound, IInv, ObjectsHold, Object
  <2>2. CASE Touched(obj'[p], obj[p])
    <3>1. obj'[p].no_cache # obj[p].no_cache => obj[p].state = COMPLETE
        BY <2>1, <2>2 DEF Touched, FetchIffIncomplete, Allocated
    <3>2. Sound(obj'[p]) /\ (Waits(obj'[p]) => Waits(obj[p]))
        BY <2>1, <2>2, <3>1 DEF Touched, Sound, Waits
    <3>. QED
        BY <2>2, <3>2 DEF Fares, Lasts, Touched
  <2>3. CASE obj[p].url = None /\ Begun(obj'[p], p)
    BY <1>1, <2>3, BegunFares
  <2>4. CASE Closed(obj'[p], obj[p])
    BY <2>4, EndedFares DEF Closed
  <2>5. CASE /\ obj[p].url = None /\ u \in held
             /\ Closed(obj'[p], obj[usr[u].object]) /\ ~obj'[p].conditional
    <3>1. Sound(obj[usr[u].object])
        BY <2>5, Holding DEF RecordsSound
    <3>2. Sound(obj'[p]) /\ ~Waits(obj'[p])
        BY <2>5, <3>1 DEF Closed, Sound, Waits
    <3>. QED
        BY <2>1, <2>5, <3>2 DEF Fares, Lasts, Blank
  <2>. QED
    BY <2>2, <2>3, <2>4, <2>5, CallRecords
<1>. QED
    BY <1>2, FaresWell

\* Time and cleaning: what is discarded is nobody's candidate.
LEMMA IdleSound ==
    ASSUME IInv, RecordsSound, (\E o \in Objects : Expire(o)) \/ Clean PROVE RecordsSound'
<1>1. obj \in [Objects -> Object]
    BY DEF IInv, ObjectsHold
<1>2. CASE \E o \in Objects : Expire(o)
  <2>1. PICK o \in Objects : obj' = [obj EXCEPT ![o].life = FALSE]
    BY <1>2 DEF Expire
  <2>2. \A p \in Objects : SameAnswer(obj'[p], obj[p])
    BY <1>1, <2>1 DEF SameAnswer, Object
  <2>. QED
    BY <2>2, SameFares, FaresWell
<1>3. CASE Clean
  <2>1. PICK n \in 0 .. Len(Spare) : obj' = Destroyed(obj, Excess(n))
    BY <1>3 DEF Clean
  <2>2. \A p \in Excess(n) : obj[p].candidate_count = 0
    BY ExcessUnused DEF IInv
  <2>3. ASSUME NEW p \in Objects PROVE Fares(p) /\ Lasts(p)
    <3>1. CASE p \notin Excess(n)
        <4>1. obj'[p] = obj[p]
            BY <2>1, <3>1 DEF Destroyed
        <4>. QED
            BY <4>1, SameFares DEF SameAnswer
    <3>2. CASE p \in Excess(n)
        <4>1. obj'[p] = Blank
            BY <2>1, <3>2 DEF Destroyed
        <4>2. Pointing(obj, p) = {}
            <5>1. obj[p].candidate_count >= Cardinality(Pointing(obj, p))
                BY DEF IInv, ObjectsHold
            <5>2. Cardinality(Pointing(obj, p)) = 0
                BY <2>2, <3>2, <5>1, PointingFinite
            <5>. QED
                BY <5>2, PointingFinite, FS_EmptySet
        <4>3. Sound(Blank) /\ ~Waits(Blank)
            BY DEF Sound, Waits, Blank, INIT, COMPLETE
        <4>. QED
            BY <4>1, <4>2, <4>3 DEF Fares, Lasts
    <3>. QED
        BY <3>1, <3>2
  <2>. QED
    BY <2>3, FaresWell
<1>. QED
    BY <1>2, <1>3

\* The end of a callback without an error leaves the objects as they are.
LEMMA CallbackEnds ==
    ASSUME IInv, run.err = "OK", EndCallback
    PROVE  UNCHANGED obj /\ run' = Idle /\ UNCHANGED <<users, usr, held>>
<1>1. obj' = Destroyed(obj, {})
    BY DEF EndCallback
<1>2. obj \in [Objects -> Object]
    BY DEF IInv, ObjectsHold
<1>3. obj' = obj
    BY <1>1, <1>2 DEF Destroyed
<1>. QED
    BY <1>3 DEF EndCallback

\* The loops, but for the redirect that is followed.
LEMMA LoopRecords ==
    ASSUME IInv, run.in = "end" => run.err = "OK",
           (EventStep /\ ~RedirectFollowed) \/ CatchUp \/ NotifyStep
    PROVE  \A p \in Objects : SameAnswer(obj'[p], obj[p])
<1>1. obj \in [Objects -> Object] /\ (run.in = "notify" => run.at \in Objects)
    BY DEF IInv, ObjectsHold, RunHolds, Loop
<1>2. CASE obj' = obj
    BY <1>2 DEF SameAnswer
<1>3. CASE EndCallback
  <2>1. run.in = "end"
    BY <1>3 DEF EndCallback
  <2>. QED
    BY <1>2, <1>3, <2>1, CallbackEnds
<1>4. CASE obj' = [obj EXCEPT ![run.at].source_len = 0] /\ run.in = "notify"
    BY <1>1, <1>4 DEF SameAnswer, Object
<1>5. CASE CatchUp \/ NotifyStep
    BY <1>2, <1>4, <1>5 DEF CatchUp, NotifyStep, NotifyUser, NotifyCerts, NotifyHeaders, NotifyData,
           NotifyDone, NotifyNothing, Notifying, NotifyReturns, NextObject
<1>6. CASE EventStep /\ ~RedirectFollowed
    BY <1>2, <1>3, <1>6 DEF EventStep, EventReturns, EventSent, RedirectIgnored, RedirectFails
<1>. QED
    BY <1>5, <1>6

\* Every step.
LEMMA StepSound ==
    ASSUME IInv, FetchIffIncomplete, WholeAnswers, RecordsSound, run.in = "end" => run.err = "OK",
           [Next]_vars
    PROVE  RecordsSound'
<1>1. ASSUME NEW o \in Objects, FetchMessage(o) PROVE RecordsSound'
    BY <1>1, MessageSound
<1>2. ASSUME NEW u \in Users, ClientCall(u) PROVE RecordsSound'
    BY <1>2, CallSound
<1>3. CASE (\E o \in Objects : Expire(o)) \/ Clean
    BY <1>3, IdleSound
<1>4. CASE (EventStep /\ ~RedirectFollowed) \/ CatchUp \/ NotifyStep
    BY <1>4, LoopRecords, SameFares, FaresWell
<1>5. CASE RedirectFollowed
  <2>1. PICK dest \in Objects :
           ObjectRetrieve(run.target, obj[run.at].force, obj[run.at].stream,
                          obj[run.at].redirect_count + 1, dest)
    BY <1>5 DEF RedirectFollowed
  <2>2. run.in = "event" /\ run.what = "REDIRECT" /\ run.target \in Urls
    BY <1>5 DEF RedirectFollowed
  <2>3. \A p \in Objects :
           \/ Alike(obj'[p], obj[p]) /\ obj'[p].candidate = obj[p].candidate
           \/ p = dest /\ obj[dest].url = None /\ Begun(obj'[p], p)
    BY <2>1, <2>2, FollowedRetrieves
  <2>4. \A q \in Objects : obj[q].url # None => obj'[q].body = obj[q].body
    BY <2>3 DEF Alike
  <2>5. ASSUME NEW p \in Objects PROVE Fares(p) /\ Lasts(p)
    <3>1. CASE Alike(obj'[p], obj[p]) /\ obj'[p].candidate = obj[p].candidate
        BY <3>1, SameFares DEF Alike, SameAnswer
    <3>2. CASE obj[p].url = None /\ Begun(obj'[p], p)
        BY <2>4, <3>2, BegunFares
    <3>. QED
        BY <2>3, <3>1, <3>2
  <2>. QED
    BY <2>5, FaresWell
<1>6. CASE UNCHANGED vars
  <2>1. \A p \in Objects : SameAnswer(obj'[p], obj[p])
    BY <1>6 DEF vars, SameAnswer
  <2>. QED
    BY <2>1, SameFares, FaresWell
<1>. QED
    BY <1>1, <1>2, <1>3, <1>4, <1>5, <1>6 DEF Next

-----------------------------------------------------------------------------
\* The users: whom an object does not have the whole of an answer for is being told so.

\* An object that ended without the whole of an answer.
Lacks(o) == obj[o].state = COMPLETE /\ obj[o].body # "whole"

\* The event that tells a user so, or that moves it to the target of a redirect, is on its way.
Owed(u) ==
    /\ run.in = "event"
    /\ \/ run.what = "REDIRECT" /\ usr[u].object = run.at
       \/ run.what = "ERROR" /\ Coming(u)

Served == \A u \in held : usr[u].told \/ ~Lacks(usr[u].object) \/ Owed(u)

\* No error is on the stack, and a redirect of which the users are told will be followed.
NoErrors ==
    /\ run.in = "end" => run.err = "OK"
    /\ run.in = "event" /\ run.what = "REDIRECT" => run.target # Nowhere

\* A user is told DONE of an object that is.
SeenComplete ==
    run.in = "notify" /\ (run.seen = COMPLETE \/ run.ev = "DONE") => obj[run.at].state = COMPLETE

Answers == RecordsSound /\ Served /\ NoErrors /\ SeenComplete

SameEnd(r, s) == r.state = s.state /\ r.body = s.body

\* Without an event on the stack nobody is short of an answer, nor is anybody when what they have stays.
LEMMA NobodyLacks ==
    ASSUME Served, run.in # "event" \/ (run.who = None /\ run.what # "REDIRECT"),
           \A v \in held' : /\ v \in held /\ usr'[v].object = usr[v].object
                            /\ usr[v].told => usr'[v].told
                            /\ SameEnd(obj'[usr[v].object], obj[usr[v].object])
    PROVE  Served'
<1>1. ASSUME NEW v \in held' PROVE usr'[v].told \/ ~Lacks(usr[v].object)
    BY DEF Served, Owed, Coming
<1>. QED
    BY <1>1 DEF Served, Lacks, SameEnd

\* A message for an object.
LEMMA MessageServes ==
    ASSUME IInv, Served, run.in = "idle", NEW o \in Objects, UNCHANGED <<users, usr, held>>,
           \A p \in Objects \ {o} : SameEnd(obj'[p], obj[p]),
           \/ SameEnd(obj'[o], obj[o])
           \/ obj'[o].state # COMPLETE \/ obj'[o].body = "whole"
           \/ Send(o, "ERROR", None)
           \/ \E target \in Targets : Send(o, "REDIRECT", target)
    PROVE  Served'
<1>1. ASSUME NEW v \in held' PROVE usr'[v].told \/ ~Lacks(usr[v].object)' \/ Owed(v)'
  <2>. DEFINE p == usr[v].object
  <2>1. v \in held /\ usr'[v] = usr[v] /\ p \in Objects /\ v \in Elements(users[p])
    BY Holding
  <2>2. CASE SameEnd(obj'[p], obj[p])
    BY <2>1, <2>2 DEF Served, Owed, Lacks, SameEnd
  <2>3. CASE p = o /\ (obj'[o].state # COMPLETE \/ obj'[o].body = "whole")
    BY <2>1, <2>3 DEF Lacks
  <2>4. CASE p = o /\ Send(o, "ERROR", None)
    <3>1. users[o] \in Seq(Users \union {Husk}) /\ OnceIn(users[o]) /\ None \notin Users \union {Husk}
        BY UsersOf, Names DEF IInv
    <3>2. First(users[o]) # None /\ FromOn(users[o], First(users[o]), v)
        BY <2>1, <2>4, <3>1, OrderSteps
    <3>3. run'.in = "event" /\ run'.what = "ERROR" /\ run'.at = o /\ run'.who = First(users[o])
        BY <2>4 DEF Send, Idle
    <3>. QED
        BY <2>1, <2>4, <3>2, <3>3 DEF Owed, Coming
  <2>5. CASE p = o /\ \E target \in Targets : Send(o, "REDIRECT", target)
    <3>1. run'.in = "event" /\ run'.what = "REDIRECT" /\ run'.at = o
        BY <2>5 DEF Send, Idle
    <3>. QED
        BY <2>1, <2>5, <3>1 DEF Owed
  <2>. QED
    BY <2>1, <2>2, <2>3, <2>4, <2>5
<1>. QED
    BY <1>1 DEF Served

\* The users of an object that is not modified get one that is the whole of an answer.
LEMMA NotModifiedServes ==
    ASSUME IInv, FetchIffIncomplete, WholeAnswers, RecordsSound, Served,
           NEW o \in Objects, FetchNotModified(o)
    PROVE  Served'
<1>. DEFINE c == obj[o].candidate
<1>1. run.in = "idle" /\ obj[o].fetch = "running" /\ held' = held
    BY DEF FetchNotModified, Message
<1>2. obj[o].url # None
    BY <1>1, Arriving
<1>3. Waits(obj[o])
    BY <1>1, <1>2 DEF FetchNotModified, Message, NoBodyYet, Waits, Revalidates, WholeAnswers,
                      FetchIffIncomplete, Allocated
<1>4. c # None /\ c \in Objects /\ c # o /\ obj[c].body = "whole"
    BY <1>3, CandidateAllocated DEF RecordsSound, Asks
<1>5. MoveUsers(o, c)
    BY <1>4 DEF FetchNotModified
<1>6. \A p \in Objects \ {o} : SameEnd(obj'[p], obj[p])
    BY NotModifiedRecords DEF SameEnd
<1>. HIDE DEF c
<1>7. ASSUME NEW v \in held PROVE usr'[v].told \/ ~Lacks(usr[v].object)'
  <2>1. /\ v \in Users /\ usr[v] \in User /\ usr[v].object \in Objects
        /\ v \in Elements(users[usr[v].object])
    BY Holding
  <2>2. CASE v \in Elements(users[o])
    <3>1. usr'[v].object = c
        BY <1>5, <2>1, <2>2 DEF MoveUsers, User
    <3>. QED
        BY <1>4, <1>6, <3>1 DEF Lacks, SameEnd
  <2>3. CASE v \notin Elements(users[o])
    <3>1. usr'[v] = usr[v] /\ usr[v].object # o
        BY <1>5, <2>1, <2>3 DEF MoveUsers
    <3>. QED
        BY <1>1, <1>6, <2>1, <3>1 DEF Served, Owed, Lacks, SameEnd
  <2>. QED
    BY <2>2, <2>3
<1>. QED
    BY <1>1, <1>7 DEF Served

\* Every message.
LEMMA MessagesServe ==
    ASSUME IInv, FetchIffIncomplete, WholeAnswers, RecordsSound, Served,
           NEW o \in Objects, FetchMessage(o)
    PROVE  Served'
<1>1. run.in = "idle" /\ obj[o].fetch = "running"
    BY DEF FetchMessage, FetchHeader, FetchData, FetchFinished, FetchError, FetchTimedout, FetchAuth,
           FetchSslError, FetchProgress, FetchCerts, FetchRedirect, FetchNotModified, Message
<1>2. /\ obj \in [Objects -> Object] /\ obj[o].body # "mixed"
    BY DEF IInv, ObjectsHold, RecordsSound, Sound
<1>3. CASE FetchNotModified(o)
    BY <1>3, NotModifiedServes
<1>. DEFINE Others == \A p \in Objects \ {o} : SameEnd(obj'[p], obj[p])
<1>4. CASE FetchHeader(o)
  <2>1. Others /\ obj'[o].state # COMPLETE
    BY <1>4, HeaderRecords DEF SameEnd, HEADERS, COMPLETE
  <2>. QED
    BY <1>1, <1>4, <2>1, MessageServes DEF FetchHeader
<1>5. CASE FetchData(o)
  <2>1. Others /\ obj'[o].state # COMPLETE
    BY <1>5, DataRecords DEF SameEnd, Alike, DATA, COMPLETE
  <2>. QED
    BY <1>1, <1>5, <2>1, MessageServes DEF FetchData
<1>6. CASE FetchFinished(o)
  <2>1. Others /\ obj'[o].body = "whole"
    BY <1>2, <1>6, FinishedRecords DEF SameEnd
  <2>. QED
    BY <1>1, <1>6, <2>1, MessageServes DEF FetchFinished
<1>7. CASE FetchError(o) \/ FetchTimedout(o) \/ FetchAuth(o) \/ FetchSslError(o)
  <2>1. Others /\ (obj'[o].state # COMPLETE \/ Send(o, "ERROR", None))
    BY <1>7, EndsRecords DEF SameEnd, Alike, INIT, COMPLETE
  <2>2. UNCHANGED <<users, usr, held>>
    BY <1>7 DEF FetchError, FetchTimedout, FetchAuth, FetchSslError, GiveUp, TryAgain
  <2>. QED
    BY <1>1, <2>1, <2>2, MessageServes
<1>8. CASE FetchRedirect(o)
  <2>1. Others
    BY <1>8, RedirectRecords DEF SameEnd, Alike
  <2>. QED
    BY <1>1, <1>8, <2>1, MessageServes DEF FetchRedirect
<1>9. CASE FetchProgress(o)
    BY <1>1, <1>9, MessageServes DEF FetchProgress, SameEnd
<1>10. CASE FetchCerts(o)
  <2>1. \A p \in Objects : SameEnd(obj'[p], obj[p])
    BY <1>2, <1>10 DEF FetchCerts, SameEnd, Object
  <2>. QED
    BY <1>1, <1>10, <2>1, MessageServes DEF FetchCerts
<1>. QED
    BY <1>3, <1>4, <1>5, <1>6, <1>7, <1>8, <1>9, <1>10 DEF FetchMessage

\* A user that stays as it is, with an object that does.
LEMMA StaysServed ==
    ASSUME Served, NEW v \in held, usr'[v] = usr[v],
           SameEnd(obj'[usr[v].object], obj[usr[v].object]),
           run' = run \/ (run.who # None /\ run'.who # None /\ run'.in = run.in /\ run'.at = run.at
                          /\ run'.what = run.what),
           Coming(v) => FromOn(users'[run.at], run'.who, v)
    PROVE  usr'[v].told \/ ~Lacks(usr[v].object)' \/ Owed(v)'
BY DEF Served, Lacks, SameEnd, Owed, Coming

\* What is retrieved is the whole of an answer, or has yet to be.
LEMMA RetrievedServes ==
    ASSUME IInv, RecordsSound, NEW url \in Urls, NEW force \in BOOLEAN, NEW stream \in BOOLEAN,
           NEW count \in 0 .. RedirectLimit + 1, NEW dest \in Objects,
           ObjectRetrieve(url, force, stream, count, dest)
    PROVE  /\ obj'[dest].state # COMPLETE \/ obj'[dest].body = "whole"
           /\ \A p \in Objects : obj[p].url # None => SameEnd(obj'[p], obj[p])
<1>1. \A p \in Objects :
         \/ Alike(obj'[p], obj[p])
         \/ obj[p].url = None /\ obj'[p].state = INIT
    BY RetrievedRecords
<1>2. CASE RetrieveFresh(url, dest)
  <2>1. obj' = obj /\ IsFresh(dest) /\ Sound(obj[dest])
    BY <1>2 DEF RetrieveFresh, RecordsSound
  <2>. QED
    BY <1>1, <2>1 DEF IsFresh, Sound, SameEnd, Alike
<1>3. CASE obj[dest].url = None
  <2>1. obj[dest] = Blank
    BY <1>3 DEF IInv, ObjectsHold
  <2>. QED
    BY <1>1, <2>1 DEF Alike, SameEnd, Blank, INIT, COMPLETE
<1>. QED
    BY <1>2, <1>3 DEF ObjectRetrieve, RetrieveUncached, RetrieveNew, Free

\* llcache_handle_retrieve.
LEMMA RetrieveServes ==
    ASSUME IInv, RecordsSound, Served, NEW u \in Users, NEW url \in Urls, NEW force \in BOOLEAN,
           NEW stream \in BOOLEAN, HandleRetrieve(u, url, force, stream)
    PROVE  Served'
<1>1. PICK dest \in Objects :
          /\ ObjectRetrieve(url, force, stream, 0, dest)
          /\ users' = [users EXCEPT ![dest] = Push(u, @)]
          /\ usr' = [usr EXCEPT ![u] = [NoUser EXCEPT !.object = dest]]
    BY DEF HandleRetrieve
<1>2. held' = held \union {u} /\ run' = run /\ u \notin held
    BY DEF HandleRetrieve, Unused
<1>3. 0 \in 0 .. RedirectLimit + 1
    BY BoundsAssumption
<1>4. /\ obj'[dest].state # COMPLETE \/ obj'[dest].body = "whole"
      /\ \A p \in Objects : obj[p].url # None => SameEnd(obj'[p], obj[p])
    BY <1>1, <1>3, RetrievedServes
<1>5. usr \in [Users -> User] /\ held \subseteq Users /\ users \in [Objects -> Seq(Users \union {Husk})]
    BY DEF IInv, UsersHold
<1>6. usr'[u].object = dest
    BY <1>1, <1>5 DEF NoUser
<1>7. ASSUME NEW v \in held PROVE usr'[v].told \/ ~Lacks(usr[v].object)' \/ Owed(v)'
  <2>1. usr'[v] = usr[v] /\ usr[v].object \in Objects /\ obj[usr[v].object].url # None
    BY <1>1, <1>2, <1>5, Holding
  <2>2. ASSUME Coming(v) PROVE FromOn(users'[run.at], run.who, v)
    <3>1. run.at \in Objects /\ FromOn(users[run.at], run.who, v)
        BY <2>1, <2>2 DEF Coming
    <3>2. users'[run.at] = IF run.at = dest THEN Push(u, users[run.at]) ELSE users[run.at]
        BY <1>1, <1>5, <3>1
    <3>3. FromOn(Push(u, users[run.at]), run.who, v)
        BY <1>5, <3>1, OrderPushed
    <3>. QED
        BY <3>1, <3>2, <3>3
  <2>. QED
    BY <1>2, <1>4, <2>1, <2>2, StaysServed
<1>8. ~Lacks(usr[u].object)'
    BY <1>4, <1>6 DEF Lacks
<1>. QED
    BY <1>2, <1>7, <1>8 DEF Served

\* llcache_handle_abort.
LEMMA AbortServes ==
    ASSUME IInv, Served, NEW u \in Users, AbortAlone(u) \/ \E new \in Objects : AbortShared(u, new)
    PROVE  Served'
<1>1. obj \in [Objects -> Object] /\ usr \in [Users -> User] /\ held \subseteq Users /\ run \in Run
    BY DEF IInv, ObjectsHold, UsersHold, RunHolds, Loop
<1>2. u \in held /\ held' = held
    BY DEF AbortAlone, AbortShared
<1>. DEFINE o == usr[u].object
<1>3. CASE AbortAlone(u)
  <2>1. /\ obj' = [obj EXCEPT ![o] = Over(@)] /\ usr' = [usr EXCEPT ![u].told = TRUE]
        /\ users[o] = <<u>> /\ users' = users /\ run' = run
    BY <1>3 DEF AbortAlone, Over
  <2>2. ASSUME NEW v \in held, v # u PROVE usr'[v].told \/ ~Lacks(usr[v].object)' \/ Owed(v)'
    <3>1. usr'[v] = usr[v] /\ usr[v].object \in Objects /\ v \in Elements(users[usr[v].object])
        BY <1>1, <2>1, <2>2, Holding
    <3>2. usr[v].object # o
        BY <2>1, <2>2, <3>1 DEF Elements
    <3>3. SameEnd(obj'[usr[v].object], obj[usr[v].object])
        BY <1>1, <2>1, <3>1, <3>2 DEF SameEnd
    <3>. QED
        BY <2>1, <3>1, <3>3, StaysServed DEF Coming
  <2>3. usr'[u].told
    BY <1>1, <2>1 DEF User
  <2>. QED
    BY <1>2, <2>2, <2>3 DEF Served
<1>4. CASE \E new \in Objects : AbortShared(u, new)
  <2>1. PICK new \in Objects : AbortShared(u, new)
    BY <1>4
  <2>2. /\ obj' = [obj EXCEPT ![new] = Snapshot(obj[o])]
        /\ usr'[u].told
        /\ \A v \in held' : \/ v = u
                            \/ /\ v \in held /\ usr'[v] = usr[v] /\ usr[v].object \in Objects \ {new}
                               /\ Coming(v) => FromOn(users'[run.at], run'.who, v)
        /\ run' = run \/ (run.who # None /\ run' = [run EXCEPT !.who = Husk])
    BY <2>1, AbortSharedLeaves
  <2>3. run' = run \/ (run.who # None /\ run'.who # None /\ run'.in = run.in /\ run'.at = run.at
                       /\ run'.what = run.what)
    BY <1>1, <2>2, Names DEF Run
  <2>4. ASSUME NEW v \in held, v # u PROVE usr'[v].told \/ ~Lacks(usr[v].object)' \/ Owed(v)'
    <3>1. SameEnd(obj'[usr[v].object], obj[usr[v].object])
        BY <1>1, <1>2, <2>2, <2>4 DEF SameEnd
    <3>. QED
        BY <1>2, <2>2, <2>3, <2>4, <3>1, StaysServed
  <2>. QED
    BY <1>2, <2>2, <2>4 DEF Served
<1>. QED
    BY <1>3, <1>4

\* The calls of a client.
LEMMA CallsServe ==
    ASSUME IInv, WholeAnswers, RecordsSound, Served, NEW u \in Users, ClientCall(u)
    PROVE  Served'
<1>1. obj \in [Objects -> Object]
    BY DEF IInv, ObjectsHold
<1>2. CASE \E url \in Urls, force, stream \in BOOLEAN : HandleRetrieve(u, url, force, stream)
    BY <1>2, RetrieveServes
<1>3. CASE HandleRelease(u)
  <2>1. obj' = obj /\ run' = run
    BY <1>3 DEF HandleRelease
  <2>2. ASSUME NEW v \in held' PROVE usr'[v].told \/ ~Lacks(usr[v].object)' \/ Owed(v)'
    <3>1. v \in held /\ usr'[v] = usr[v] /\ (Coming(v) => FromOn(users'[run.at], run'.who, v))
        BY <1>3, ReleaseLeaves
    <3>. QED
        BY <2>1, <3>1, StaysServed DEF SameEnd
  <2>. QED
    BY <2>2 DEF Served
<1>4. CASE \E new \in Users : HandleClone(u, new)
    BY <1>4 DEF HandleClone, Can, WholeAnswers
<1>5. CASE AbortAlone(u) \/ \E new \in Objects : AbortShared(u, new)
    BY <1>5, AbortServes
<1>6. CASE HandleForceStream(u) \/ HandleInvalidate(u)
  <2>1. UNCHANGED <<users, usr, held, run>>
    BY <1>6 DEF HandleForceStream, HandleInvalidate
  <2>2. \A p \in Objects : SameEnd(obj'[p], obj[p])
    BY <1>1, <1>6 DEF HandleForceStream, HandleInvalidate, SameEnd, Object
  <2>3. ASSUME NEW v \in held' PROVE usr'[v].told \/ ~Lacks(usr[v].object)' \/ Owed(v)'
    <3>1. v \in held /\ usr'[v] = usr[v] /\ usr[v].object \in Objects
        BY <2>1, Holding
    <3>. QED
        BY <2>1, <2>2, <3>1, StaysServed DEF Coming
  <2>. QED
    BY <2>3 DEF Served
<1>. QED
    BY <1>2, <1>3, <1>4, <1>5, <1>6 DEF ClientCall

\* Time and cleaning: an object with users is not discarded.
LEMMA IdleServes ==
    ASSUME IInv, Served, (\E o \in Objects : Expire(o)) \/ Clean PROVE Served'
<1>1. run.in = "idle" /\ UNCHANGED <<users, usr, held, run>> /\ obj \in [Objects -> Object]
    BY DEF Expire, Clean, IInv, ObjectsHold
<1>2. ASSUME NEW v \in held PROVE SameEnd(obj'[usr[v].object], obj[usr[v].object])
  <2>1. usr[v].object \in Objects /\ v \in Elements(users[usr[v].object])
    BY Holding
  <2>2. CASE \E o \in Objects : Expire(o)
    BY <1>1, <2>1, <2>2 DEF Expire, SameEnd, Object
  <2>3. CASE Clean
    <3>1. PICK n \in 0 .. Len(Spare) : obj' = Destroyed(obj, Excess(n))
        BY <2>3 DEF Clean
    <3>2. usr[v].object \notin Excess(n)
        BY <2>1, <3>1, ExcessUnused DEF IInv, Elements
    <3>. QED
        BY <2>1, <3>1, <3>2 DEF Destroyed, SameEnd
  <2>. QED
    BY <2>2, <2>3
<1>. QED
    BY <1>1, <1>2, NobodyLacks

\* The callback of a user returns, of a handle that is held or not.
LEMMA ReturnsServe ==
    ASSUME IInv, Served, NEW result \in Results, result = "OK", EventReturns(result) PROVE Served'
<1>. DEFINE w == run.who
            o == run.at
            next == After(users[o], w)
<1>1. run.in = "event" /\ run.ev # "none" /\ UNCHANGED <<obj, held>>
    BY DEF EventReturns
<1>2. /\ o \in Objects /\ w \in Users \union {Husk} /\ users[o] \in Seq(Users \union {Husk})
      /\ OnceIn(users[o]) /\ None \notin Users \union {Husk} /\ held \subseteq Users
      /\ usr \in [Users -> User] /\ users \in [Objects -> Seq(Users \union {Husk})]
      /\ run \in Run
    BY <1>1, Called, UsersOf, Names DEF UsersHold
<1>3. run' = [run EXCEPT !.who = next, !.ev = IF next = None THEN "none" ELSE run.what]
    BY DEF EventReturns
<1>4. run'.in = "event" /\ run'.what = run.what /\ run'.at = o /\ run'.who = next
    BY <1>1, <1>2, <1>3 DEF Run
<1>5. \A v \in held : v # Husk /\ ~usr[v].queued
    BY <1>2, Names DEF IInv, RunHolds
<1>6. \A v \in held : usr'[v].object = usr[v].object /\ (usr[v].told => usr'[v].told)
  <2>1. CASE usr' = usr \/ usr' = [usr EXCEPT ![w].told = TRUE]
    <3>1. \A v \in held : usr'[v] = usr[v] \/ usr'[v] = [usr[v] EXCEPT !.told = TRUE]
        BY <1>2, <2>1
    <3>2. \A r \in User : /\ [r EXCEPT !.told = TRUE].object = r.object
                         /\ [r EXCEPT !.told = TRUE].told
        BY DEF User
    <3>3. \A v \in held : usr[v] \in User
        BY <1>2
    <3>. HIDE DEF w, o, next
    <3>. QED
        BY <3>1, <3>2, <3>3
  <2>2. CASE Gone(w) /\ usr' = [usr EXCEPT ![w] = NoUser]
    BY <1>2, <1>5, <2>2 DEF Gone
  <2>. QED
    BY <2>1, <2>2 DEF EventReturns, Deleted
<1>7. ASSUME NEW v \in held, run.what = "ERROR", Coming(v) PROVE usr'[v].told \/ Owed(v)'
  <2>1. CASE v = w
    <3>1. ~Gone(w)
        BY <1>5, <2>1 DEF Gone
    <3>2. usr' = [usr EXCEPT ![w].told = TRUE]
        BY <1>7, <3>1 DEF EventReturns
    <3>. QED
        BY <1>2, <2>1, <3>2 DEF User
  <2>2. CASE v # w
    <3>1. usr[v].object = o /\ v \in Elements(users[o]) /\ FromOn(users[o], w, v)
        BY <1>7, Holding DEF Coming
    <3>2. next # None /\ FromOn(users[o], next, v)
        BY <1>2, <2>2, <3>1, OrderSteps
    <3>3. next # w
        BY <1>2, <3>2, UserAfter DEF IInv
    <3>4. FromOn(Cut(users[o], w), next, v)
        BY <1>2, <2>2, <3>2, <3>3, OrderKept
    <3>5. users'[o] = users[o] \/ users'[o] = Cut(users[o], w)
        BY <1>2 DEF EventReturns, Deleted
    <3>6. FromOn(users'[o], next, v)
        BY <3>2, <3>4, <3>5
    <3>. HIDE DEF next
    <3>. QED
        BY <1>4, <1>6, <1>7, <3>1, <3>2, <3>6 DEF Owed, Coming
  <2>. QED
    BY <2>1, <2>2
<1>. HIDE DEF next
<1>8. ASSUME NEW v \in held PROVE usr'[v].told \/ ~Lacks(usr[v].object)' \/ Owed(v)'
  <2>1. CASE usr[v].told \/ ~Lacks(usr[v].object)
    BY <1>1, <1>6, <2>1 DEF Lacks
  <2>2. CASE run.what = "REDIRECT" /\ usr[v].object = run.at
    BY <1>4, <1>6, <2>2 DEF Owed
  <2>. QED
    BY <1>7, <2>1, <2>2 DEF Served, Owed
<1>. QED
    BY <1>1, <1>8 DEF Served

\* The users of an object follow its redirect.
LEMMA FollowedServes ==
    ASSUME IInv, RecordsSound, Served, RedirectFollowed PROVE Served'
<1>. DEFINE o == run.at
<1>1. run.in = "event" /\ run.what = "REDIRECT" /\ run.who = None /\ run.target \in Urls /\ held' = held
    BY DEF RedirectFollowed
<1>2. PICK dest \in Objects :
         /\ ObjectRetrieve(run.target, obj[o].force, obj[o].stream, obj[o].redirect_count + 1, dest)
         /\ MoveUsers(o, dest)
    BY DEF RedirectFollowed
<1>3. /\ obj[o] \in Object /\ obj[o].redirect_count <= RedirectLimit
    BY <1>1 DEF IInv, ObjectsHold, RunHolds, Loop
<1>4. /\ obj[o].force \in BOOLEAN /\ obj[o].stream \in BOOLEAN
      /\ obj[o].redirect_count + 1 \in 0 .. RedirectLimit + 1
  <2>1. obj[o].redirect_count \in Nat
    BY <1>3, FiniteAssumption, FS_CardinalityType, BoundsAssumption DEF Object
  <2>. QED
    BY <1>3, <2>1, BoundsAssumption DEF Object
<1>5. /\ obj'[dest].state # COMPLETE \/ obj'[dest].body = "whole"
      /\ \A p \in Objects : obj[p].url # None => SameEnd(obj'[p], obj[p])
    BY <1>1, <1>2, <1>4, RetrievedServes
<1>6. ASSUME NEW v \in held PROVE usr'[v].told \/ ~Lacks(usr[v].object)'
  <2>1. /\ v \in Users /\ usr[v] \in User /\ usr[v].object \in Objects
        /\ obj[usr[v].object].url # None /\ v \in Elements(users[usr[v].object])
    BY Holding
  <2>2. CASE v \in Elements(users[o])
    <3>1. usr'[v].object = dest
        BY <1>2, <2>1, <2>2 DEF MoveUsers, User
    <3>. QED
        BY <1>5, <3>1 DEF Lacks
  <2>3. CASE v \notin Elements(users[o])
    <3>1. usr'[v] = usr[v] /\ usr[v].object # o
        BY <1>2, <2>1, <2>3 DEF MoveUsers
    <3>2. usr[v].told \/ ~Lacks(usr[v].object)
        BY <1>1, <3>1 DEF Served, Owed
    <3>. QED
        BY <1>5, <2>1, <3>1, <3>2 DEF Lacks, SameEnd
  <2>. QED
    BY <2>2, <2>3
<1>. QED
    BY <1>1, <1>6 DEF Served

\* The other steps of the loops leave the objects that the users have.
LEMMA LoopsServe ==
    ASSUME IInv, WholeAnswers, Served, NoErrors, EventStep \/ CatchUp \/ NotifyStep,
           ~RedirectFollowed, \A result \in Results : ~EventReturns(result)
    PROVE  Served'
<1>1. (EventStep /\ ~RedirectFollowed) \/ CatchUp \/ NotifyStep
    OBVIOUS
<1>2. \A p \in Objects : SameEnd(obj'[p], obj[p])
    BY <1>1, LoopRecords DEF NoErrors, SameAnswer, SameEnd
<1>3. usr \in [Users -> User] /\ held \subseteq Users
    BY DEF IInv, UsersHold
<1>4. CASE RedirectIgnored
    BY <1>4 DEF RedirectIgnored, NoErrors
<1>5. CASE RedirectFails
    BY <1>5 DEF RedirectFails, WholeAnswers
<1>6. CASE EventSent \/ EndCallback \/ CatchUp \/ NextObject
  <2>1. /\ UNCHANGED <<usr, held>>
        /\ run.in # "event" \/ (run.who = None /\ run.what # "REDIRECT")
    BY <1>6 DEF EventSent, EndCallback, CatchUp, NextObject
  <2>. QED
    BY <1>2, <2>1, Holding, NobodyLacks
<1>7. CASE \E u \in Users : NotifyUser(u)
  <2>1. run.in = "notify" /\ held' = held
    BY <1>7 DEF NotifyUser, NotifyCerts, NotifyHeaders, NotifyData, NotifyDone, NotifyNothing, Notifying
  <2>2. \A v \in Users : usr'[v].object = usr[v].object /\ usr'[v].told = usr[v].told
    BY <1>3, <1>7 DEF NotifyUser, NotifyCerts, NotifyHeaders, NotifyData, NotifyDone, NotifyNothing, User
  <2>. QED
    BY <1>2, <1>3, <2>1, <2>2, Holding, NobodyLacks
<1>8. CASE \E result \in Results : NotifyReturns(result)
  <2>1. run.in = "notify" /\ run.ev # "none" /\ held' = held
    BY <1>8 DEF NotifyReturns
  <2>2. run.ev \in {"GOT_CERTS", "HAD_HEADERS", "HAD_DATA", "DONE"}
    BY <2>1 DEF IInv, RunHolds, Loop
  <2>3. \A v \in held : v # Husk /\ ~usr[v].queued
    BY <1>3, Names DEF IInv, RunHolds
  <2>4. usr' = usr \/ (Gone(run.who) /\ usr' = [usr EXCEPT ![run.who] = NoUser]) \/ usr' = Replayed(run.who, run)
    BY <1>8 DEF NotifyReturns, Deleted
  <2>5. \A v \in held : usr'[v].object = usr[v].object /\ usr'[v].told = usr[v].told
    <3>1. CASE usr' = Replayed(run.who, run)
        BY <1>3, <2>2, <3>1 DEF Replayed, User
    <3>2. CASE Gone(run.who) /\ usr' = [usr EXCEPT ![run.who] = NoUser]
        BY <1>3, <2>3, <3>2 DEF Gone
    <3>. QED
        BY <2>4, <3>1, <3>2
  <2>. QED
    BY <1>2, <2>1, <2>5, Holding, NobodyLacks
<1>. QED
    BY <1>4, <1>5, <1>6, <1>7, <1>8 DEF EventStep, NotifyStep

\* Every step.
LEMMA StepServes ==
    ASSUME IInv, FetchIffIncomplete, WholeAnswers, Answers, [Next]_vars PROVE Served'
<1>1. ASSUME NEW o \in Objects, FetchMessage(o) PROVE Served'
    BY <1>1, MessagesServe DEF Answers
<1>2. ASSUME NEW u \in Users, ClientCall(u) PROVE Served'
    BY <1>2, CallsServe DEF Answers
<1>3. CASE (\E o \in Objects : Expire(o)) \/ Clean
    BY <1>3, IdleServes DEF Answers
<1>4. ASSUME NEW result \in Results, EventReturns(result) PROVE Served'
    BY <1>4, ReturnsServe DEF Answers, WholeAnswers
<1>5. CASE RedirectFollowed
    BY <1>5, FollowedServes DEF Answers
<1>6. CASE EventStep \/ CatchUp \/ NotifyStep
    BY <1>4, <1>5, <1>6, LoopsServe DEF Answers
<1>7. CASE UNCHANGED vars
    BY <1>7 DEF vars, Answers, Served, Lacks, Owed, Coming
<1>. QED
    BY <1>1, <1>2, <1>3, <1>6, <1>7 DEF Next

\* No error comes onto the stack.
LEMMA StepsWithoutError ==
    ASSUME IInv, WholeAnswers, NoErrors, [Next]_vars PROVE NoErrors'
<1>1. run \in Run
    BY DEF IInv, RunHolds, Loop
<1>2. CASE run'.in = run.in /\ run'.err = run.err /\ run'.what = run.what /\ run'.target = run.target
    BY <1>2 DEF NoErrors
<1>3. ASSUME NEW o, EndWith(o, "OK") PROVE NoErrors'
    BY <1>3 DEF EndWith, Idle, NoErrors
<1>4. ASSUME NEW o, NEW event, NEW target, Send(o, event, target), event = "REDIRECT" => target # Nowhere
      PROVE  NoErrors'
    BY <1>4 DEF Send, Idle, NoErrors
<1>5. CASE run' = Idle \/ run'.in = "notify"
    BY <1>5 DEF Idle, NoErrors
<1>6. ASSUME NEW o \in Objects, FetchMessage(o) PROVE NoErrors'
  <2>1. CASE FetchHeader(o) \/ FetchData(o) \/ FetchFinished(o) \/ FetchNotModified(o)
    <3>1. \E p : EndWith(p, "OK")
        BY <2>1 DEF FetchHeader, FetchData, FetchFinished, FetchNotModified, AllocationFails, WholeAnswers
    <3>. QED
        BY <1>3, <3>1
  <2>2. CASE FetchError(o) \/ FetchTimedout(o) \/ FetchAuth(o) \/ FetchSslError(o)
    <3>1. Send(o, "ERROR", None) \/ EndWith(o, "OK")
        BY <2>2, EndsRecords DEF WholeAnswers
    <3>. QED
        BY <1>3, <1>4, <3>1
  <2>3. CASE FetchProgress(o) \/ FetchCerts(o)
    BY <1>4, <2>3 DEF FetchProgress, FetchCerts
  <2>4. CASE FetchRedirect(o)
    <3>1. PICK target \in Targets : Send(o, "ERROR", None) \/ Send(o, "REDIRECT", target)
        BY <2>4 DEF FetchRedirect
    <3>. QED
        BY <1>4, <3>1 DEF WholeAnswers
  <2>. QED
    BY <1>6, <2>1, <2>2, <2>3, <2>4 DEF FetchMessage
<1>7. ASSUME NEW u \in Users, ClientCall(u) PROVE NoErrors'
  <2>1. run' = run \/ run' = [run EXCEPT !.who = Husk]
    BY <1>7 DEF ClientCall, HandleRetrieve, HandleRelease, HandleClone, AbortAlone, AbortShared,
           HandleForceStream, HandleInvalidate
  <2>. QED
    BY <1>1, <1>2, <2>1 DEF Run
<1>8. CASE EventStep
  <2>1. ASSUME NEW result \in Results, EventReturns(result) PROVE NoErrors'
    <3>1. PICK w, e : run' = [run EXCEPT !.who = w, !.ev = e]
        BY <2>1 DEF EventReturns, WholeAnswers
    <3>. QED
        BY <1>1, <1>2, <3>1 DEF Run
  <2>2. CASE EventSent \/ RedirectIgnored
    BY <1>3, <2>2 DEF EventSent, RedirectIgnored
  <2>3. CASE RedirectFollowed
    BY <1>3, <2>3 DEF RedirectFollowed
  <2>4. CASE RedirectFails
    BY <2>4 DEF RedirectFails, WholeAnswers
  <2>5. CASE EndCallback
    BY <1>5, <2>5 DEF EndCallback
  <2>. QED
    BY <1>8, <2>1, <2>2, <2>3, <2>4, <2>5 DEF EventStep
<1>9. CASE CatchUp \/ NextObject
    BY <1>5, <1>9 DEF CatchUp, NextObject, Visit, Idle
<1>10. CASE NotifyStep /\ ~NextObject
  <2>1. run'.in = "notify"
    BY <1>1, <1>10 DEF NotifyStep, NotifyUser, NotifyCerts, NotifyHeaders, NotifyData, NotifyDone,
           NotifyNothing, Notifying, NotifyReturns, NextUser, Run
  <2>. QED
    BY <1>5, <2>1
<1>11. CASE (\E o \in Objects : Expire(o)) \/ Clean \/ UNCHANGED vars
    BY <1>2, <1>11 DEF Expire, Clean, vars
<1>. QED
    BY <1>6, <1>7, <1>8, <1>9, <1>10, <1>11 DEF Next

\* What the loop has seen complete is complete.
LEMMA SeenStays ==
    ASSUME IInv, NoErrors, SeenComplete, [Next]_vars PROVE SeenComplete'
<1>1. run \in Run /\ obj \in [Objects -> Object]
    BY DEF IInv, RunHolds, Loop, ObjectsHold
<1>2. CASE run'.in # "notify"
    BY <1>2 DEF SeenComplete
<1>3. CASE (\E o \in Objects : FetchMessage(o)) \/ EventStep
  <2>1. run'.in \in {"event", "end"} \/ run' = Idle
    BY <1>3, EventElsewhere
  <2>. QED
    BY <1>2, <2>1 DEF Idle
<1>4. ASSUME NEW u \in Users, ClientCall(u) PROVE SeenComplete'
  <2>1. run' = run \/ run' = [run EXCEPT !.who = Husk]
    BY <1>4 DEF ClientCall, HandleRetrieve, HandleRelease, HandleClone, AbortAlone, AbortShared,
           HandleForceStream, HandleInvalidate
  <2>2. run'.in = run.in /\ run'.at = run.at /\ run'.seen = run.seen /\ run'.ev = run.ev
    BY <1>1, <2>1 DEF Run
  <2>3. run.in = "notify" => run.at \in Objects /\ obj[run.at].url # None
    BY DEF IInv, RunHolds, Loop
  <2>4. run.in = "notify" /\ obj[run.at].state = COMPLETE => obj'[run.at].state = COMPLETE
    BY <1>4, <2>3, CallRecords DEF Touched, Closed
  <2>. QED
    BY <2>2, <2>4 DEF SeenComplete
<1>5. CASE (\E o \in Objects : Expire(o)) \/ Clean
  <2>1. run.in = "idle" /\ run' = run
    BY <1>5 DEF Expire, Clean
  <2>. QED
    BY <1>2, <2>1
<1>6. CASE CatchUp \/ NextObject
  <2>1. obj' = obj /\ \E phase, o : run' = Visit(phase, o)
    BY <1>6 DEF CatchUp, NextObject
  <2>2. run'.in = "notify" => run'.ev = "none" /\ run'.seen = obj[run'.at].state
    BY <2>1 DEF Visit, Idle
  <2>. QED
    BY <2>1, <2>2 DEF SeenComplete
<1>7. CASE \E u \in Users : NotifyUser(u)
  <2>1. PICK u \in Users : NotifyUser(u)
    BY <1>7
  <2>2. run.in = "notify" /\ run.ev = "none"
    BY <2>1 DEF NotifyUser, NotifyCerts, NotifyHeaders, NotifyData, NotifyDone, NotifyNothing, Notifying
  <2>3. \A p \in Objects : SameAnswer(obj'[p], obj[p])
    BY <1>7, LoopRecords DEF NotifyStep, NoErrors
  <2>4. run.at \in Objects
    BY <2>2 DEF IInv, RunHolds, Loop
  <2>5. CASE NotifyNothing(u)
    <3>1. run'.ev = "none" /\ run'.at = run.at /\ run'.seen = obj[run.at].state
        BY <1>1, <2>5 DEF NotifyNothing, NextUser, Run
    <3>. QED
        BY <2>3, <2>4, <3>1 DEF SeenComplete, SameAnswer
  <2>6. CASE ~NotifyNothing(u)
    <3>1. run'.in = "notify" /\ run'.at = run.at /\ run'.seen = run.seen
        BY <1>1, <2>1, <2>2, <2>6 DEF NotifyUser, NotifyCerts, NotifyHeaders, NotifyData, NotifyDone, Run
    <3>2. run'.ev = "DONE" => run.seen = COMPLETE
        <4>1. NotifyDone(u) => run.seen = COMPLETE
            BY <1>1 DEF NotifyDone, OwesDone, Run, INIT, DATA, COMPLETE
        <4>2. NotifyCerts(u) \/ NotifyHeaders(u) \/ NotifyData(u) => run'.ev # "DONE"
            <5>1. NotifyCerts(u) => \E e \in {"GOT_CERTS", "none"} : run' = [run EXCEPT !.ev = e]
                BY DEF NotifyCerts
            <5>2. NotifyHeaders(u) => run' = [run EXCEPT !.ev = "HAD_HEADERS"]
                BY DEF NotifyHeaders
            <5>3. NotifyData(u) => \E n : run' = [run EXCEPT !.ev = "HAD_DATA", !.orig = n]
                BY DEF NotifyData
            <5>. QED
                BY <1>1, <5>1, <5>2, <5>3 DEF Run
        <4>. QED
            BY <2>1, <2>6, <4>1, <4>2 DEF NotifyUser
    <3>. QED
        BY <2>2, <2>3, <2>4, <3>1, <3>2 DEF SeenComplete, SameAnswer
  <2>. QED
    BY <2>5, <2>6
<1>8. CASE \E result \in Results : NotifyReturns(result)
  <2>1. run.in = "notify" /\ obj' = obj
    BY <1>8 DEF NotifyReturns
  <2>2. run'.ev = "none" /\ run'.at = run.at /\ run'.seen \in {run.seen, INIT, obj[run.at].state}
    BY <1>1, <1>8 DEF NotifyReturns, NextUser, Run
  <2>3. INIT # COMPLETE
    BY DEF INIT, COMPLETE
  <2>. QED
    BY <2>1, <2>2, <2>3 DEF SeenComplete
<1>9. CASE UNCHANGED vars
    BY <1>9 DEF vars, SeenComplete
<1>. QED
    BY <1>3, <1>4, <1>5, <1>6, <1>7, <1>8, <1>9 DEF Next, NotifyStep

\* The event DONE goes to users of a complete object, and nobody lacks then.
LEMMA AnswersAreEnough == ASSUME IInv, Answers PROVE DoneIsWhole
<1>. SUFFICES ASSUME run.ev = "DONE", run.who \in held, ~usr[run.who].told
              PROVE  obj[run.at].body = "whole"
    BY DEF DoneIsWhole
<1>1. run.in = "notify"
    BY DEF IInv, RunHolds, Loop, Run, Idle
<1>2. usr[run.who].object = run.at
    BY <1>1, Called, Holding
<1>3. obj[run.at].state = COMPLETE
    BY <1>1 DEF Answers, SeenComplete
<1>. QED
    BY <1>1, <1>2, <1>3 DEF Answers, Served, Owed, Lacks

\* At the start there is nothing.
LEMMA InitAnswers == ASSUME Init PROVE Answers
<1>1. \A o \in Objects : obj[o] = Blank
    BY DEF Init
<1>2. RecordsSound
    BY <1>1 DEF RecordsSound, Sound, Asks, Waits, Blank, INIT, COMPLETE
<1>3. held = {} /\ run = Idle
    BY DEF Init
<1>. QED
    BY <1>2, <1>3 DEF Answers, Served, NoErrors, SeenComplete, Idle

\* A client that is told DONE, and was not told of an error before, has been given the whole of
\* one answer, whatever objects its handle has been moved to by redirects and revalidation.
THEOREM OnlyWholeAnswers == WholeAnswers /\ Spec => []DoneIsWhole
<1>. SUFFICES ASSUME WholeAnswers PROVE Spec => []DoneIsWhole
    OBVIOUS
<1>1. RetriesStart
    BY DEF WholeAnswers, RetriesStart
<1>2. IInv /\ FetchIffIncomplete /\ Answers /\ [Next]_vars => Answers'
    BY StepSound, StepServes, StepsWithoutError, SeenStays DEF Answers, NoErrors
<1>3. Init => Answers
    BY InitAnswers
<1>4. IInv /\ Answers => DoneIsWhole
    BY AnswersAreEnough
<1>5. Spec => []FetchIffIncomplete
    BY <1>1, FetchesMatchStates
<1>. QED
    BY <1>2, <1>3, <1>4, <1>5, InvariantHolds, PTL DEF Spec
==============================================================================
