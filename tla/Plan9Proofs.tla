----------------------------- MODULE Plan9Proofs -----------------------------
(***************************************************************************)
(* Proofs about the two parts of this port that have a protocol of their   *)
(* own, frontends/plan9: the timer list, and the webfs fetcher over the    *)
(* factory.                                                                *)
(*                                                                         *)
(* Schedule is proved for any callbacks and delays and a clock that runs   *)
(* as long as one likes; WebfsFetch for any client, fetches and limits.    *)
(***************************************************************************)
EXTENDS Schedule, WebfsFetch, FetchProofs, WellFoundedInduction

-----------------------------------------------------------------------------
\* Every set of natural numbers with an element has a least one.
LEMMA LeastExists ==
  ASSUME NEW S, S \subseteq Nat, S # {}
  PROVE  \E n \in S : \A m \in S : n <= m
<1>1. \E x \in S : \A y \in S : ~(<<y, x>> \in OpToRel(<, Nat))
  BY WFMin, NatLessThanWellFounded
<1>2. \A x, y \in Nat : ~(<<y, x>> \in OpToRel(<, Nat)) => x <= y
  BY DEF OpToRel
<1> QED BY <1>1, <1>2

\* What a set of places of the list counts.
LEMMA PlacesFinite ==
  ASSUME NEW n \in Nat, NEW K \in SUBSET (1 .. n)
  PROVE  IsFiniteSet(K) /\ Cardinality(K) \in Nat
<1>1. IsFiniteSet(1 .. n)
  <2>1. 1 \in Int /\ n \in Int
    OBVIOUS
  <2> QED BY <2>1, FS_Interval
<1> QED BY <1>1, FS_Subset, FS_CardinalityType

\* The number of places kept up to one more is larger by one, or the same.
LEMMA PlaceStep ==
  ASSUME NEW n \in Nat, NEW K \in SUBSET (1 .. n)
  PROVE  /\ Place(K, 0) = 0 /\ Place(K, n) = Cardinality(K)
         /\ \A i \in Nat : Place(K, i) \in Nat
         /\ \A i \in Nat \ {0} :
               Place(K, i) = IF i \in K THEN Place(K, i - 1) + 1 ELSE Place(K, i - 1)
<1>1. IsFiniteSet(K) /\ \A k \in K : k \in 1 .. n
  BY PlacesFinite
<1>2. Place(K, 0) = 0 /\ Place(K, n) = Cardinality(K)
  <2>1. \A k \in K : ~(k <= 0) /\ k <= n
    BY <1>1
  <2>2. {k \in K : k <= 0} = {} /\ {k \in K : k <= n} = K
    BY <2>1
  <2> QED BY <2>2, FS_EmptySet DEF Place
<1>3. \A i \in Nat : IsFiniteSet({k \in K : k <= i}) /\ Place(K, i) \in Nat
  BY <1>1, FS_Subset, FS_CardinalityType DEF Place
<1>4. ASSUME NEW i \in Nat \ {0}
      PROVE  Place(K, i) = IF i \in K THEN Place(K, i - 1) + 1 ELSE Place(K, i - 1)
  <2> DEFINE A == {k \in K : k <= i - 1}
             B == {k \in K : k <= i}
  <2>1. \A k \in K : k <= i <=> (k <= i - 1 \/ k = i)
    BY <1>1
  <2>a. i \in Nat /\ i - 1 \in Nat /\ ~(i <= i - 1)
    OBVIOUS
  <2>b. i \notin A
    BY <2>a
  <2>2. i \notin A /\ B = IF i \in K THEN A \union {i} ELSE A
    <3>1. i \in K => B = A \union {i}
      BY <2>1
    <3>2. i \notin K => B = A
      BY <2>1
    <3> QED BY <2>b, <3>1, <3>2
  <2>3. IsFiniteSet(A) /\ Place(K, i - 1) = Cardinality(A) /\ Place(K, i) = Cardinality(B)
    BY <1>3, <2>a DEF Place
  <2> HIDE DEF A, B
  <2>4. Cardinality(A \union {i}) = Cardinality(A) + 1
    BY <2>2, <2>3, FS_AddElement
  <2> QED BY <2>2, <2>3, <2>4
<1> QED BY <1>2, <1>3, <1>4

\* There is an entry at every place of what schedule_remove leaves.
LEMMA PlaceFound ==
  ASSUME NEW n \in Nat, NEW K \in SUBSET (1 .. n), NEW j \in 1 .. Cardinality(K)
  PROVE  \E i \in K : Place(K, i) = j
<1> DEFINE S == {i \in Nat : Place(K, i) >= j}
<1>1. Cardinality(K) \in Nat /\ j \in Nat /\ j # 0
  <2>1. Cardinality(K) \in Nat
    BY PlacesFinite
  <2> HIDE DEF S
  <2> QED BY <2>1
<1>2. n \in S
  BY <1>1, PlaceStep
<1>3. PICK m \in S : \A i \in S : m <= i
  <2>1. S # {} /\ S \subseteq Nat
    BY <1>2
  <2> HIDE DEF S
  <2> QED BY <2>1, LeastExists
<1>4. m # 0 /\ m - 1 \in Nat
  <2>1. m \in Nat /\ Place(K, m) >= j
    BY <1>3
  <2>2. Place(K, 0) = 0
    BY PlaceStep
  <2> HIDE DEF S
  <2> QED BY <1>1, <2>1, <2>2
<1>5. m - 1 \notin S
  BY <1>3, <1>4
<1>6. Place(K, m - 1) < j /\ Place(K, m - 1) \in Nat
  <2>1. ~(Place(K, m - 1) >= j) /\ Place(K, m - 1) \in Nat
    BY <1>4, <1>5, PlaceStep
  <2> QED BY <1>1, <2>1
<1>7. Place(K, m) = IF m \in K THEN Place(K, m - 1) + 1 ELSE Place(K, m - 1)
  BY <1>4, PlaceStep
<1>8. Place(K, m) >= j
  BY <1>3
<1> QED BY <1>1, <1>6, <1>7, <1>8

\* The order of the places is the order of the list.
LEMMA PlaceOrder ==
  ASSUME NEW n \in Nat, NEW K \in SUBSET (1 .. n), NEW i \in K, NEW k \in K, i < k
  PROVE  Place(K, i) < Place(K, k)
<1> DEFINE A == {x \in K : x <= i}
           B == {x \in K : x <= k}
<1>0. i \in Int /\ k \in Int /\ \A x \in K : x \in Int
  OBVIOUS
<1>1. A \subseteq B /\ k \in B /\ k \notin A
  <2>1. \A x \in K : x <= i => x <= k
    BY <1>0
  <2>2. k <= k /\ ~(k <= i)
    BY <1>0
  <2> QED BY <2>1, <2>2
<1>2. IsFiniteSet(K) /\ IsFiniteSet(B)
  BY PlacesFinite, FS_Subset
<1> HIDE DEF A, B
<1>3. Cardinality(A) <= Cardinality(B) /\ Cardinality(A) # Cardinality(B)
      /\ Cardinality(A) \in Nat /\ Cardinality(B) \in Nat
  BY <1>1, <1>2, FS_Subset, FS_CardinalityType
<1> QED BY <1>3 DEF Place, A, B

\* schedule_remove: every entry that is left was there and is of another callback,
\* every entry of another callback is left, and their order is what it was.
LEMMA RemovedProperties ==
  ASSUME NEW c, schedlist \in Seq(Entry)
  PROVE  /\ Removed(c) \in Seq(Entry)
         /\ \A i \in 1 .. Len(schedlist) : schedlist[i].cb # c =>
               \E j \in 1 .. Len(Removed(c)) : Removed(c)[j] = schedlist[i]
         /\ \E f \in [1 .. Len(Removed(c)) -> 1 .. Len(schedlist)] :
               /\ \A j \in 1 .. Len(Removed(c)) :
                     Removed(c)[j] = schedlist[f[j]] /\ schedlist[f[j]].cb # c
               /\ \A j, k \in 1 .. Len(Removed(c)) : j < k => f[j] < f[k]
<1> DEFINE n == Len(schedlist)
           K == Kept(schedlist, c)
           from(j) == CHOOSE i \in K : Place(K, i) = j
           N == Cardinality(K)
           f == [j \in 1 .. N |-> from(j)]
<1>1. n \in Nat /\ schedlist \in [1 .. n -> Entry]
  BY LenProperties
<1>2. K \in SUBSET (1 .. n) /\ \A i \in K : schedlist[i].cb # c
  BY DEF Kept
<1>3. N \in Nat
  BY <1>1, <1>2, PlacesFinite
<1>4. \A j \in 1 .. N : from(j) \in K /\ Place(K, from(j)) = j
  <2> TAKE j \in 1 .. N
  <2>1. \E i \in K : Place(K, i) = j
    BY <1>1, <1>2, PlaceFound
  <2> QED BY <2>1
<1>5. Removed(c) = [j \in 1 .. N |-> schedlist[from(j)]]
  BY DEF Removed
<1>6. \A i \in K : i \in 1 .. n
  BY <1>2
<1>d. Kept(schedlist, c) = K
  OBVIOUS
<1> HIDE DEF K, from
<1>7. \A j \in 1 .. N : schedlist[from(j)] \in Entry
  BY <1>1, <1>4, <1>6
<1>8. Removed(c) \in Seq(Entry) /\ Len(Removed(c)) = N
  <2>1. [j \in 1 .. N |-> schedlist[from(j)]] \in [1 .. N -> Entry]
    BY <1>7
  <2> HIDE DEF N
  <2>2. Removed(c) \in [1 .. N -> Entry]
    BY <2>1, <1>5
  <2> QED BY <1>3, <2>2
<1>9. \A j, k \in 1 .. N : j < k => from(j) < from(k)
  <2> SUFFICES ASSUME NEW j \in 1 .. N, NEW k \in 1 .. N, j < k, ~(from(j) < from(k))
               PROVE  FALSE
    OBVIOUS
  <2>1. from(j) \in K /\ from(k) \in K /\ Place(K, from(j)) = j /\ Place(K, from(k)) = k
    BY <1>4
  <2>2. from(j) \in 1 .. n /\ from(k) \in 1 .. n
    BY <1>2, <2>1
  <2>3. from(j) = from(k) \/ from(k) < from(j)
    BY <1>1, <2>2
  <2>4. CASE from(k) < from(j)
    <3>1. Place(K, from(k)) < Place(K, from(j))
      BY <1>1, <1>2, <2>1, <2>4, PlaceOrder
    <3> QED BY <1>3, <2>1, <3>1
  <2> QED BY <1>3, <2>1, <2>3, <2>4
<1>10. \A i \in K : \E j \in 1 .. N : Removed(c)[j] = schedlist[i]
  <2> TAKE i \in K
  <2>1. Place(K, i) \in 1 .. N
    <3>1. i \in 1 .. n
      BY <1>2
    <3>2. i \in Nat \ {0} /\ i - 1 \in Nat
      BY <3>1, <1>1
    <3>3. Place(K, i) = Place(K, i - 1) + 1 /\ Place(K, i - 1) \in Nat
      BY <1>1, <1>2, <3>2, PlaceStep
    <3>4. IsFiniteSet(K) /\ {k \in K : k <= i} \in SUBSET K
      BY <1>1, <1>2, PlacesFinite
    <3>5. Place(K, i) <= N
      BY <3>4, FS_Subset DEF Place
    <3> QED BY <1>3, <3>3, <3>5
  <2> DEFINE j == Place(K, i)
  <2>2. from(j) \in K /\ Place(K, from(j)) = j
    BY <1>4, <2>1
  <2>3. from(j) = i
    <3>1. i \in 1 .. n /\ from(j) \in 1 .. n
      BY <1>2, <2>2
    <3>2. ASSUME NEW x \in K, NEW y \in K, Place(K, x) = Place(K, y) PROVE ~(x < y)
      <4>1. x < y => Place(K, x) < Place(K, y)
        BY <1>1, <1>2, PlaceOrder
      <4>2. Place(K, x) \in Nat
        <5>1. x \in Nat
          BY <1>1, <1>2
        <5> QED BY <1>1, <1>2, <5>1, PlaceStep
      <4> QED BY <3>2, <4>1, <4>2
    <3> QED BY <1>1, <2>2, <3>1, <3>2
  <2> QED BY <1>5, <2>1, <2>3
<1>11. f \in [1 .. N -> 1 .. n]
  BY <1>4, <1>6
<1>12. \A j \in 1 .. N : f[j] = from(j) /\ Removed(c)[j] = schedlist[f[j]] /\ schedlist[f[j]].cb # c
  BY <1>2, <1>4, <1>5
<1>13. \A j, k \in 1 .. N : j < k => f[j] < f[k]
  BY <1>9, <1>12
<1>14. \A i \in 1 .. n : schedlist[i].cb # c => i \in K
  BY DEF Kept, K
<1> HIDE DEF f, N, n
<1>15. \E g \in [1 .. N -> 1 .. n] :
          /\ \A j \in 1 .. N : Removed(c)[j] = schedlist[g[j]] /\ schedlist[g[j]].cb # c
          /\ \A j, k \in 1 .. N : j < k => g[j] < g[k]
  BY <1>11, <1>12, <1>13
<1>16. \A i \in 1 .. n : schedlist[i].cb # c =>
          \E j \in 1 .. N : Removed(c)[j] = schedlist[i]
  BY <1>10, <1>14
<1> QED BY <1>8, <1>15, <1>16 DEF n

\* What is left of a list without repetitions has none.
LEMMA RemovedOnce ==
  ASSUME NEW c, schedlist \in Seq(Entry), ScheduledOnce
  PROVE  \A i, j \in 1 .. Len(Removed(c)) :
            /\ Removed(c)[i].cb # c
            /\ Removed(c)[i].cb = Removed(c)[j].cb => i = j
<1> DEFINE r == Removed(c)
<1>1. PICK f \in [1 .. Len(r) -> 1 .. Len(schedlist)] :
         /\ \A j \in 1 .. Len(r) : r[j] = schedlist[f[j]] /\ schedlist[f[j]].cb # c
         /\ \A j, k \in 1 .. Len(r) : j < k => f[j] < f[k]
  BY RemovedProperties
<1>2. Len(r) \in Nat /\ Len(schedlist) \in Nat /\ DOMAIN schedlist = 1 .. Len(schedlist)
  BY RemovedProperties, LenProperties
<1> HIDE DEF r
<1>3. \A j, k \in 1 .. Len(r) : f[j] = f[k] => j = k
  <2> SUFFICES ASSUME NEW j \in 1 .. Len(r), NEW k \in 1 .. Len(r), f[j] = f[k], j # k
               PROVE  FALSE
    OBVIOUS
  <2>1. j < k \/ k < j
    BY <1>2
  <2>2. f[j] \in Int /\ f[k] \in Int
    BY <1>2
  <2> QED BY <1>1, <2>1, <2>2
<1>4. \A j, k \in 1 .. Len(r) : r[j].cb = r[k].cb => j = k
  <2> SUFFICES ASSUME NEW j \in 1 .. Len(r), NEW k \in 1 .. Len(r), r[j].cb = r[k].cb
               PROVE  j = k
    OBVIOUS
  <2>1. f[j] \in DOMAIN schedlist /\ f[k] \in DOMAIN schedlist
    BY <1>2
  <2>2. schedlist[f[j]].cb = schedlist[f[k]].cb
    BY <1>1
  <2>3. f[j] = f[k]
    BY <2>1, <2>2 DEF ScheduledOnce
  <2> QED BY <1>3, <2>3
<1> QED BY <1>1, <1>4 DEF r

-----------------------------------------------------------------------------
\* While the list is walked it is not empty, and nexttime is the earliest time of
\* the entries passed by: of the head before the first is.
WalkInv ==
    Walking =>
        /\ run.cur \in 1 .. (Len(schedlist) + 1)
        /\ \A i \in 1 .. (run.cur - 1) :
              ~Due(schedlist[i]) /\ run.nexttime <= schedlist[i].tv
        /\ \E k \in 1 .. Len(schedlist) :
              (k < run.cur \/ k = 1) /\ run.nexttime = schedlist[k].tv

ScheduleIInv == ScheduleTypeOK /\ ScheduledOnce /\ WalkInv

\* misc_schedule puts the entry at the head.
LEMMA PushProperties ==
  ASSUME NEW e \in Entry, NEW r \in Seq(Entry)
  PROVE  /\ <<e>> \o r \in Seq(Entry)
         /\ Len(<<e>> \o r) = Len(r) + 1
         /\ (<<e>> \o r)[1] = e
         /\ \A i \in 2 .. (Len(r) + 1) : (<<e>> \o r)[i] = r[i - 1]
<1>1. <<e>> \in Seq(Entry) /\ Len(<<e>>) = 1 /\ <<e>>[1] = e
  OBVIOUS
<1> DEFINE h == <<e>>
<1>2. Len(r) \in Nat
  BY LenProperties
<1> HIDE DEF h
<1>3. /\ h \o r \in Seq(Entry) /\ Len(h \o r) = Len(h) + Len(r)
      /\ \A i \in 1 .. (Len(h) + Len(r)) :
            (h \o r)[i] = IF i <= Len(h) THEN h[i] ELSE r[i - Len(h)]
  BY <1>1, ConcatProperties DEF h
<1>4. Len(h) = 1 /\ h[1] = e
  BY <1>1 DEF h
<1>5. /\ h \o r \in Seq(Entry) /\ Len(h \o r) = Len(r) + 1 /\ (h \o r)[1] = e
      /\ \A i \in 2 .. (Len(r) + 1) : (h \o r)[i] = r[i - 1]
  BY <1>2, <1>3, <1>4
<1> QED BY <1>5 DEF h

\* The list without the entry at place n.
Unlinked(s, n) == [i \in 1 .. (Len(s) - 1) |-> IF i < n THEN s[i] ELSE s[i + 1]]

\* The places of t hold entries of s, no place of s twice.
Picks(t, s) ==
    \E f \in [1 .. Len(t) -> 1 .. Len(s)] :
        /\ \A i \in 1 .. Len(t) : t[i] = s[f[i]]
        /\ \A i, j \in 1 .. Len(t) : f[i] = f[j] => i = j

\* schedule_run unlinks the entry at its cursor: the others stay, each once.
LEMMA UnlinkProperties ==
  ASSUME NEW s \in Seq(Entry), NEW n \in 1 .. Len(s)
  PROVE  Unlinked(s, n) \in Seq(Entry) /\ Picks(Unlinked(s, n), s)
<1> DEFINE t == Unlinked(s, n)
           f == [i \in 1 .. (Len(s) - 1) |-> IF i < n THEN i ELSE i + 1]
<1>1. Len(s) \in Nat /\ Len(s) - 1 \in Nat
  BY LenProperties
<1>2. \A i \in 1 .. (Len(s) - 1) : i \in 1 .. Len(s) /\ i + 1 \in 1 .. Len(s)
  BY <1>1
<1>3. t \in [1 .. (Len(s) - 1) -> Entry]
  BY <1>2, ElementOfSeq DEF Unlinked
<1>4. t \in Seq(Entry) /\ Len(t) = Len(s) - 1
  BY <1>1, <1>3
<1>5. f \in [1 .. (Len(s) - 1) -> 1 .. Len(s)] /\ \A i \in 1 .. (Len(s) - 1) : t[i] = s[f[i]]
  BY <1>2 DEF Unlinked
<1>6. \A i, j \in 1 .. (Len(s) - 1) : f[i] = f[j] => i = j
  BY <1>1
<1> HIDE DEF f, t
<1>7. Picks(t, s)
  BY <1>4, <1>5, <1>6 DEF Picks
<1> QED BY <1>4, <1>7 DEF t

\* The parts of the invariant that a step of the main loop or of a callback disturbs.
LEMMA ScheduleKeeps ==
  ASSUME ScheduleIInv, NEW c \in Callbacks,
         Unschedule(c) \/ \E t \in Delays : MiscSchedule(c, t)
  PROVE  ScheduleIInv'
<1> DEFINE r == Removed(c)
<1>1. schedlist \in Seq(Entry) /\ ScheduledOnce
  BY DEF ScheduleIInv, ScheduleTypeOK
<1>2. /\ r \in Seq(Entry) /\ Len(r) \in Nat
      /\ \A i, j \in 1 .. Len(r) : r[i].cb # c /\ (r[i].cb = r[j].cb => i = j)
  <2>1. r \in Seq(Entry)
    BY <1>1, RemovedProperties
  <2>2. Len(r) \in Nat
    BY <2>1, LenProperties
  <2> QED BY <1>1, <2>1, <2>2, RemovedOnce
<1>3. ~Walking /\ ~Walking' /\ UNCHANGED <<now, run, calling, wait>>
  BY DEF Unschedule, MiscSchedule, ClientTurn, Walking
<1>4. WalkInv'
  BY <1>3 DEF WalkInv
<1>a. schedlist' = r \/ \E t \in Delays : schedlist' = <<[cb |-> c, tv |-> now + t]>> \o r
  BY DEF Unschedule, MiscSchedule
<1> HIDE DEF r
<1>5. schedlist' \in Seq(Entry) /\ ScheduledOnce'
  <2>1. CASE schedlist' = r
    <3>1. DOMAIN schedlist' = 1 .. Len(r)
      BY <1>2, <2>1, LenProperties
    <3> QED BY <1>2, <2>1, <3>1 DEF ScheduledOnce
  <2>2. ASSUME NEW t \in Delays, schedlist' = <<[cb |-> c, tv |-> now + t]>> \o r
        PROVE  schedlist' \in Seq(Entry) /\ ScheduledOnce'
    <3> DEFINE e == [cb |-> c, tv |-> now + t]
    <3>1. e \in Entry /\ e.cb = c
      BY ScheduleAssumption DEF ScheduleIInv, ScheduleTypeOK, Entry
    <3>a. schedlist' = <<e>> \o r
      BY <2>2
    <3> HIDE DEF e
    <3>2. /\ schedlist' \in Seq(Entry) /\ Len(schedlist') = Len(r) + 1
          /\ schedlist'[1].cb = c
          /\ \A i \in 2 .. (Len(r) + 1) : schedlist'[i] = r[i - 1]
      BY <1>2, <3>1, <3>a, PushProperties
    <3>3. DOMAIN schedlist' = 1 .. (Len(r) + 1)
      BY <3>2, LenProperties
    <3>4. ASSUME NEW i \in 2 .. (Len(r) + 1)
          PROVE  i - 1 \in 1 .. Len(r) /\ schedlist'[i].cb # c
      <4>1. i - 1 \in 1 .. Len(r)
        BY <1>2
      <4>2. r[i - 1].cb # c
        BY <1>2, <4>1
      <4>3. schedlist'[i] = r[i - 1]
        BY <3>2
      <4> QED BY <4>1, <4>2, <4>3
    <3>5. \A i \in 1 .. (Len(r) + 1) : i = 1 \/ i \in 2 .. (Len(r) + 1)
      BY <1>2
    <3>6. ASSUME NEW i \in 1 .. (Len(r) + 1), NEW j \in 1 .. (Len(r) + 1),
                 schedlist'[i].cb = schedlist'[j].cb
          PROVE  i = j
      <4>1. CASE i = 1 \/ j = 1
        BY <3>2, <3>4, <3>5, <3>6, <4>1
      <4>2. CASE i # 1 /\ j # 1
        <5>1. i - 1 \in 1 .. Len(r) /\ j - 1 \in 1 .. Len(r)
          BY <3>4, <3>5, <4>2
        <5>2. r[i - 1].cb = r[j - 1].cb
          BY <3>2, <3>5, <3>6, <4>2
        <5>3. i - 1 = j - 1
          BY <1>2, <5>1, <5>2
        <5> QED BY <5>3
      <4> QED BY <4>1, <4>2
    <3> QED BY <3>2, <3>3, <3>6 DEF ScheduledOnce
  <2> QED BY <1>a, <2>1, <2>2
<1> QED BY <1>3, <1>4, <1>5 DEF ScheduleIInv, ScheduleTypeOK

\* schedule_run unlinks an entry and calls it.
LEMMA RunCallsKeeps ==
  ASSUME ScheduleIInv, RunCalls
  PROVE  ScheduleIInv'
<1>1. schedlist \in Seq(Entry) /\ DOMAIN schedlist = 1 .. Len(schedlist) /\ run.cur \in DOMAIN schedlist
  BY LenProperties DEF ScheduleIInv, ScheduleTypeOK, RunCalls
<1>2. schedlist[run.cur] \in Entry
  BY <1>1, ElementOfSeq
<1>3. schedlist' = Unlinked(schedlist, run.cur)
  BY DEF RunCalls, Unlinked
<1>a. schedlist' \in Seq(Entry) /\ Picks(schedlist', schedlist)
  <2>1. Unlinked(schedlist, run.cur) \in Seq(Entry) /\ Picks(Unlinked(schedlist, run.cur), schedlist)
    BY <1>1, UnlinkProperties
  <2> QED BY <1>3, <2>1
<1>4. DOMAIN schedlist' = 1 .. Len(schedlist')
  BY <1>a, LenProperties
<1>5. ScheduledOnce'
  <2>1. PICK f \in [1 .. Len(schedlist') -> 1 .. Len(schedlist)] :
           /\ \A i \in 1 .. Len(schedlist') : schedlist'[i] = schedlist[f[i]]
           /\ \A i, j \in 1 .. Len(schedlist') : f[i] = f[j] => i = j
    BY <1>a DEF Picks
  <2>2. \A i, j \in DOMAIN schedlist : schedlist[i].cb = schedlist[j].cb => i = j
    BY DEF ScheduleIInv, ScheduledOnce
  <2>3. ASSUME NEW i \in 1 .. Len(schedlist'), NEW j \in 1 .. Len(schedlist'),
               schedlist'[i].cb = schedlist'[j].cb
        PROVE  i = j
    <3>1. f[i] \in DOMAIN schedlist /\ f[j] \in DOMAIN schedlist
      BY <1>1
    <3>2. schedlist[f[i]].cb = schedlist[f[j]].cb
      BY <2>1, <2>3
    <3> QED BY <2>1, <2>2, <3>1, <3>2
  <2> QED BY <1>4, <2>3 DEF ScheduledOnce
<1>6. calling' \in Callbacks /\ calling' # NoCallback
  BY <1>2, ScheduleAssumption DEF RunCalls, Entry
<1>7. WalkInv'
  BY <1>6 DEF WalkInv, Walking
<1> QED BY <1>a, <1>5, <1>6, <1>7 DEF ScheduleIInv, ScheduleTypeOK, RunCalls

\* schedule_run goes on to the next entry.
LEMMA RunPassesKeeps ==
  ASSUME ScheduleIInv, RunPasses
  PROVE  ScheduleIInv'
<1> DEFINE n == Len(schedlist)
           c == run.cur
           v == schedlist[c].tv
<1>1. /\ n \in Nat /\ DOMAIN schedlist = 1 .. n /\ c \in 1 .. n
      /\ \A i \in 1 .. n : schedlist[i] \in Entry
  BY LenProperties, ElementOfSeq DEF ScheduleIInv, ScheduleTypeOK, RunPasses
<1>2. \A i \in 1 .. n : schedlist[i].tv \in Nat
  BY <1>1 DEF Entry
<1>3. /\ run' = [run EXCEPT !.cur = c + 1,
                            !.nexttime = IF run.nexttime > v THEN v ELSE run.nexttime]
      /\ UNCHANGED <<schedlist, now, calling, wait>>
      /\ ~Due(schedlist[c]) /\ Walking
  BY DEF RunPasses
<1>4. run \in [on : BOOLEAN, tv : 0 .. MaxTime, cur : Nat, nexttime : Nat]
  BY DEF ScheduleIInv, ScheduleTypeOK
<1>5. /\ run'.cur = c + 1 /\ run'.tv = run.tv /\ run'.on = run.on
      /\ run'.nexttime = IF run.nexttime > v THEN v ELSE run.nexttime
  BY <1>3, <1>4
<1>6. run' \in [on : BOOLEAN, tv : 0 .. MaxTime, cur : Nat, nexttime : Nat]
  <2> DEFINE w == IF run.nexttime > v THEN v ELSE run.nexttime
  <2>1. w \in Nat /\ c + 1 \in Nat
    BY <1>1, <1>2, <1>4
  <2>2. run' = [run EXCEPT !.cur = c + 1, !.nexttime = w]
    BY <1>3
  <2> HIDE DEF w, c
  <2> QED BY <1>4, <2>1, <2>2
<1>7. /\ \A i \in 1 .. (c - 1) : ~Due(schedlist[i]) /\ run.nexttime <= schedlist[i].tv
      /\ \E k \in 1 .. n : (k < c \/ k = 1) /\ run.nexttime = schedlist[k].tv
  BY <1>3 DEF ScheduleIInv, WalkInv
<1>8. run'.nexttime <= run.nexttime /\ run'.nexttime <= v
      /\ run.nexttime \in Nat /\ run'.nexttime \in Nat
  BY <1>1, <1>2, <1>4, <1>5
<1>a. n' = n
  BY <1>3
<1> HIDE DEF n, c, v
<1>9. \A i \in 1 .. c : ~Due(schedlist[i])' /\ run'.nexttime <= schedlist[i].tv
  <2> TAKE i \in 1 .. c
  <2>1. i = c \/ i \in 1 .. (c - 1)
    BY <1>1
  <2>2. i \in 1 .. n
    BY <1>1
  <2>3. CASE i = c
    BY <1>3, <1>5, <1>8, <2>3 DEF Due, c, v
  <2>4. CASE i \in 1 .. (c - 1)
    <3>1. ~Due(schedlist[i]) /\ run.nexttime <= schedlist[i].tv
      BY <1>7, <2>4
    <3> QED BY <1>2, <1>3, <1>5, <1>8, <2>2, <3>1 DEF Due
  <2> QED BY <2>1, <2>3, <2>4
<1>10. \E k \in 1 .. n : (k < c + 1 \/ k = 1) /\ run'.nexttime = schedlist[k].tv
  <2>1. CASE run'.nexttime = v
    BY <1>1, <2>1 DEF v
  <2>2. CASE run'.nexttime = run.nexttime
    BY <1>1, <1>7, <2>2
  <2> QED BY <1>5, <2>1, <2>2
<1>11. WalkInv'
  <2>1. run'.cur \in 1 .. (n + 1) /\ run'.cur - 1 = c
    BY <1>1, <1>5
  <2> QED BY <1>3, <1>5, <1>9, <1>10, <1>a, <2>1 DEF WalkInv, n
<1> QED BY <1>3, <1>6, <1>11 DEF ScheduleIInv, ScheduleTypeOK, ScheduledOnce

\* The locals of schedule_run when it does not run.
LEMMA RestingType ==
  Resting \in [on : BOOLEAN, tv : 0 .. MaxTime, cur : Nat, nexttime : Nat]
BY ScheduleAssumption DEF Resting

\* A walk that begins, or begins again, stands at the head.
LEMMA HeadOfList ==
  ASSUME ScheduleIInv, schedlist # <<>>
  PROVE  /\ Len(schedlist) \in Nat \ {0} /\ 1 \in 1 .. Len(schedlist)
         /\ schedlist[1].tv \in Nat
<1>1. Len(schedlist) \in Nat \ {0}
  BY LenProperties, EmptySeq DEF ScheduleIInv, ScheduleTypeOK
<1>2. 1 \in 1 .. Len(schedlist)
  BY <1>1
<1>3. schedlist[1] \in Entry
  BY <1>2, ElementOfSeq DEF ScheduleIInv, ScheduleTypeOK
<1> QED BY <1>1, <1>2, <1>3 DEF Entry

\* Where the walk stands at the head, WalkInv says nothing of what came before.
LEMMA WalkBegins ==
  ASSUME ScheduleIInv, schedlist # <<>>, UNCHANGED schedlist,
         run'.cur = 1, run'.nexttime = schedlist[1].tv
  PROVE  WalkInv'
<1>1. Len(schedlist) \in Nat \ {0} /\ 1 \in 1 .. Len(schedlist)
  BY HeadOfList
<1>2. run'.cur \in 1 .. (Len(schedlist) + 1) /\ 1 .. (run'.cur - 1) = {}
  BY <1>1
<1> QED BY <1>1, <1>2 DEF WalkInv

\* schedule_run begins its walk, or begins it again.
LEMMA RunBeginsKeeps ==
  ASSUME ScheduleIInv, RunBegins \/ CallbackReturns
  PROVE  ScheduleIInv'
<1>1. UNCHANGED <<schedlist, now>> /\ calling' \in Callbacks \union {NoCallback}
  BY DEF RunBegins, CallbackReturns, ScheduleIInv, ScheduleTypeOK
<1>2. CASE schedlist = <<>>
  <2>1. ~Walking'
    BY <1>2 DEF RunBegins, CallbackReturns, Walking, Resting
  <2>2. /\ wait' = -1
        /\ run' \in [on : BOOLEAN, tv : 0 .. MaxTime, cur : Nat, nexttime : Nat]
    BY <1>2, RestingType DEF RunBegins, CallbackReturns, ScheduleIInv, ScheduleTypeOK
  <2> QED BY <1>1, <2>1, <2>2 DEF ScheduleIInv, ScheduleTypeOK, ScheduledOnce, WalkInv
<1>3. CASE schedlist # <<>>
  <2>1. schedlist[1].tv \in Nat
    BY <1>3, HeadOfList
  <2>2. run \in [on : BOOLEAN, tv : 0 .. MaxTime, cur : Nat, nexttime : Nat] /\ now \in 0 .. MaxTime
    BY DEF ScheduleIInv, ScheduleTypeOK
  <2>3. /\ run' \in [on : BOOLEAN, tv : 0 .. MaxTime, cur : Nat, nexttime : Nat]
        /\ run'.cur = 1 /\ run'.nexttime = schedlist[1].tv /\ wait' = wait
    <3> DEFINE v == schedlist[1].tv
    <3>1. v \in Nat
      BY <2>1
    <3>2. CASE RunBegins
      <4>1. run' = [on |-> TRUE, tv |-> now, cur |-> 1, nexttime |-> v] /\ wait' = wait
        BY <1>3, <3>2 DEF RunBegins
      <4> HIDE DEF v
      <4>2. /\ run' \in [on : BOOLEAN, tv : 0 .. MaxTime, cur : Nat, nexttime : Nat]
            /\ run'.cur = 1 /\ run'.nexttime = v
        BY <2>2, <3>1, <4>1
      <4> QED BY <4>1, <4>2 DEF v
    <3>3. CASE CallbackReturns
      <4>1. run' = [run EXCEPT !.cur = 1, !.nexttime = v] /\ wait' = wait
        BY <1>3, <3>3 DEF CallbackReturns, Restarted
      <4> HIDE DEF v
      <4>2. /\ run' \in [on : BOOLEAN, tv : 0 .. MaxTime, cur : Nat, nexttime : Nat]
            /\ run'.cur = 1 /\ run'.nexttime = v
        BY <2>2, <3>1, <4>1
      <4> QED BY <4>1, <4>2 DEF v
    <3> QED BY <3>2, <3>3
  <2>4. WalkInv'
    BY <1>1, <1>3, <2>3, WalkBegins
  <2> QED BY <1>1, <2>3, <2>4 DEF ScheduleIInv, ScheduleTypeOK, ScheduledOnce
<1> QED BY <1>2, <1>3

\* When the walk comes to the end of the list nothing in it is due and nexttime is
\* the earliest of its times.
LEMMA EndOfWalk ==
  ASSUME ScheduleIInv, RunEnds
  PROVE  /\ schedlist # <<>> /\ run.nexttime - run.tv \in Nat
         /\ run.tv + (run.nexttime - run.tv) = run.nexttime
         /\ \A i \in DOMAIN schedlist :
               schedlist[i].tv >= run.tv /\ run.nexttime <= schedlist[i].tv
         /\ \E i \in DOMAIN schedlist : run.nexttime = schedlist[i].tv
<1> DEFINE n == Len(schedlist)
<1>1. n \in Nat /\ DOMAIN schedlist = 1 .. n /\ \A i \in 1 .. n : schedlist[i] \in Entry
  BY LenProperties, ElementOfSeq DEF ScheduleIInv, ScheduleTypeOK
<1>2. Walking /\ run.cur \notin 1 .. n
  BY <1>1 DEF RunEnds
<1>3. run.tv \in Nat /\ run.nexttime \in Nat
  BY ScheduleAssumption DEF ScheduleIInv, ScheduleTypeOK
<1>4. /\ run.cur \in 1 .. (n + 1)
      /\ \A i \in 1 .. (run.cur - 1) : ~Due(schedlist[i]) /\ run.nexttime <= schedlist[i].tv
      /\ \E k \in 1 .. n : run.nexttime = schedlist[k].tv
  BY <1>2 DEF ScheduleIInv, WalkInv
<1> HIDE DEF n
<1>5. run.cur - 1 = n
  BY <1>1, <1>2, <1>4
<1>6. \A i \in 1 .. n : schedlist[i].tv >= run.tv
  <2> TAKE i \in 1 .. n
  <2>1. schedlist[i].tv \in Nat
    BY <1>1 DEF Entry
  <2>2. ~(run.tv > schedlist[i].tv)
    BY <1>4, <1>5 DEF Due
  <2> QED BY <1>3, <2>1, <2>2
<1>7. schedlist # <<>>
  BY <1>1, <1>4
<1>8. run.nexttime >= run.tv
  BY <1>4, <1>6
<1>9. run.nexttime - run.tv \in Nat /\ run.tv + (run.nexttime - run.tv) = run.nexttime
  BY <1>3, <1>8
<1>10. \A i \in 1 .. n : run.nexttime <= schedlist[i].tv
  BY <1>4, <1>5
<1> QED BY <1>1, <1>4, <1>6, <1>7, <1>9, <1>10

\* schedule_run returns.
LEMMA RunEndsKeeps ==
  ASSUME ScheduleIInv, RunEnds
  PROVE  ScheduleIInv'
<1>1. wait' \in Nat /\ UNCHANGED <<schedlist, now, calling>> /\ run' = Resting
  BY EndOfWalk DEF RunEnds
<1>2. /\ run' \in [on : BOOLEAN, tv : 0 .. MaxTime, cur : Nat, nexttime : Nat]
      /\ ~Walking'
  BY <1>1, RestingType DEF Resting, Walking
<1> QED BY <1>1, <1>2 DEF ScheduleIInv, ScheduleTypeOK, ScheduledOnce, WalkInv

\* The invariant is inductive.
LEMMA ScheduleInvariance == ScheduleSpec => []ScheduleIInv
<1>1. ScheduleInit => ScheduleIInv
  <2> SUFFICES ASSUME ScheduleInit PROVE ScheduleIInv
    OBVIOUS
  <2>1. schedlist \in Seq(Entry) /\ DOMAIN schedlist = {}
    BY EmptySeq DEF ScheduleInit
  <2>2. run \in [on : BOOLEAN, tv : 0 .. MaxTime, cur : Nat, nexttime : Nat] /\ ~Walking
    BY ScheduleAssumption DEF ScheduleInit, Resting, Walking
  <2> QED BY <2>1, <2>2, ScheduleAssumption DEF ScheduleInit, ScheduleIInv, ScheduleTypeOK, ScheduledOnce, WalkInv
<1>2. ScheduleIInv /\ [ScheduleNext]_scheduleVars => ScheduleIInv'
  <2> SUFFICES ASSUME ScheduleIInv, [ScheduleNext]_scheduleVars PROVE ScheduleIInv'
    OBVIOUS
  <2>1. CASE Tick
    BY <2>1, ScheduleAssumption DEF Tick, ScheduleIInv, ScheduleTypeOK, ScheduledOnce, WalkInv, Walking, Due
  <2>2. CASE UNCHANGED scheduleVars
    BY <2>2 DEF scheduleVars, ScheduleIInv, ScheduleTypeOK, ScheduledOnce, WalkInv, Walking, Due
  <2> QED BY <2>1, <2>2, ScheduleKeeps, RunCallsKeeps, RunPassesKeeps, RunBeginsKeeps,
             RunEndsKeeps DEF ScheduleNext
<1> QED BY <1>1, <1>2, PTL DEF ScheduleSpec

-----------------------------------------------------------------------------
\* The timer list keeps its type: the time schedule_run returns is -1 or no less
\* than 0.
THEOREM ScheduleTypeCorrect == ScheduleSpec => []ScheduleTypeOK
<1>1. ScheduleIInv => ScheduleTypeOK
  BY DEF ScheduleIInv
<1> QED BY <1>1, ScheduleInvariance, PTL

\* No callback is listed twice with the same private pointer, whatever is scheduled
\* and removed from inside the callbacks that schedule_run makes.
THEOREM OnceScheduled == ScheduleSpec => []ScheduledOnce
<1>1. ScheduleIInv => ScheduledOnce
  BY DEF ScheduleIInv
<1> QED BY <1>1, ScheduleInvariance, PTL

\* While schedule_run walks the list its cursor stands in it, and nothing that it
\* has passed by is due.
THEOREM WalkIsSound == ScheduleSpec => []WalkSound
<1>1. ScheduleIInv => WalkSound
  BY DEF ScheduleIInv, WalkInv, WalkSound
<1> QED BY <1>1, ScheduleInvariance, PTL

\* When schedule_run returns nothing that was due is left, and the time it returns
\* is the time until the earliest entry.
THEOREM NothingDueIsMissed == ScheduleSpec => NothingMissed
<1> DEFINE A == run.on /\ ~run'.on =>
                  /\ \A i \in DOMAIN schedlist' : schedlist'[i].tv >= run.tv
                  /\ schedlist' = <<>> => wait' = -1
                  /\ schedlist' # <<>> =>
                        /\ \A i \in DOMAIN schedlist' : run.tv + wait' <= schedlist'[i].tv
                        /\ \E i \in DOMAIN schedlist' : run.tv + wait' = schedlist'[i].tv
<1>1. ScheduleIInv /\ [ScheduleNext]_scheduleVars => [A]_scheduleVars
  <2> SUFFICES ASSUME ScheduleIInv, [ScheduleNext]_scheduleVars, run.on, ~run'.on PROVE A
    OBVIOUS
  <2>1. run \in [on : BOOLEAN, tv : 0 .. MaxTime, cur : Nat, nexttime : Nat]
    BY DEF ScheduleIInv, ScheduleTypeOK
  <2>2. RunEnds \/ CallbackReturns
    BY <2>1 DEF ScheduleNext, Unschedule, MiscSchedule, Tick, RunBegins, RunCalls, RunPasses, scheduleVars
  <2>3. CASE RunEnds
    <3>1. UNCHANGED schedlist /\ wait' = run.nexttime - run.tv
      BY <2>3 DEF RunEnds
    <3> QED BY <2>3, <3>1, EndOfWalk
  <2>4. CASE CallbackReturns
    <3>1. schedlist = <<>> /\ UNCHANGED schedlist /\ wait' = -1
      BY <2>1, <2>4 DEF CallbackReturns, Restarted
    <3>2. DOMAIN schedlist' = {}
      BY <3>1, EmptySeq
    <3> QED BY <3>1, <3>2
  <2> QED BY <2>2, <2>3, <2>4
<1>2. [][A]_scheduleVars => NothingMissed
  BY DEF NothingMissed
<1> QED BY <1>1, <1>2, ScheduleInvariance, PTL DEF ScheduleSpec

-----------------------------------------------------------------------------
\* The fetch_dispatch_jobs that runs and those below it, whose locals wait in the
\* frames of calls: depth 0 is the one that runs.
JobAt(k) == IF k = 0 THEN job ELSE calls[k].job
DispatchAt(k) == IF k = 0 THEN dispatch ELSE calls[k].dispatch
Depths == 0 .. Len(calls)

Jobs == {"none", "start", "poll", "fdset"}
Locals == [queued : Int, active : Int, starting : Fetches \union {None},
           step : {"-", "open", "headers", "return"}, new : Fetches \union {None}]
Frame == [to : Fetches, msg : MsgType, job : Jobs, dispatch : Locals]
Entries == Fetches \union {None}

\* The fetcher's own state.
WebfsTypes ==
    /\ fetch_list \in Seq(Entries)
    /\ state \in [Fetches -> States]
    /\ dispatch \in Locals
    /\ calls \in Seq(Frame)
    /\ stage \in {"idle", "http", "http done", "https"}
    /\ left \in 0 .. Len(fetch_list) /\ judging \in BOOLEAN
    /\ held \subseteq Fetches /\ aborted \subseteq Fetches
    /\ IsFiniteSet(fetch_ring)

\* The locals d of a fetch_dispatch_jobs called from j: the fetch that is being
\* started is allocated, on neither ring and, until it is opened, not listed; the one
\* that fetch_start will hand out is allocated, and the client has no pointer to it
\* and has not been told its end by webfs_poll.
FrameOK(j, d) ==
    /\ j = "none" => d.starting = None
    /\ d.starting = None <=> d.step = "-"
    /\ d.starting # None => d.starting \in live /\ ~Attached(d.starting)
    /\ d.step \in {"open", "headers"} => ~InList(d.starting)
    /\ j = "start" => /\ d.new \in live /\ d.new \notin held
                      /\ state[d.new] \notin {"finished", "aborted"}

\* Two of them start different fetches, and will hand out different ones.
Differ(i, c, j, d) ==
    /\ i = "start" /\ j = "start" => c.new # d.new
    /\ c.starting # None => c.starting # d.starting

Frames == \A k \in Depths : FrameOK(JobAt(k), DispatchAt(k))
FramesApart == \A k, l \in Depths :
                  k # l => Differ(JobAt(k), DispatchAt(k), JobAt(l), DispatchAt(l))

\* webfs's list: allocated fetches that are not queued, each once.
Listing ==
    /\ \A i \in 1 .. Len(fetch_list) :
          fetch_list[i] # None => fetch_list[i] \in live /\ ~Queued(fetch_list[i])
    /\ \A i, j \in 1 .. Len(fetch_list) :
          fetch_list[i] # None /\ fetch_list[i] = fetch_list[j] => i = j

\* The client's pointers are to allocated fetches that have not ended.
Pointers == \A f \in held : f \in live /\ state[f] \notin {"finished", "aborted"}

\* The entry webfs_poll has handled and not judged yet.
Judging ==
    judging => /\ stage \in {"http", "https"} /\ left > 0 /\ visited # None
               /\ \A k \in Depths : JobAt(k) = "start" => DispatchAt(k).new # visited
               /\ visited \in held => state[visited] # "error"

WebfsInv == WebfsTypes /\ Frames /\ FramesApart /\ Listing /\ Pointers /\ Judging

\* What holds before and after a step.
WebfsAround == TypeOK /\ RingsAgree /\ WebfsInv /\ TypeOK' /\ WebfsTypes'

-----------------------------------------------------------------------------
\* A sequence with one more at its head.
LEMMA ConsProperties ==
  ASSUME NEW S, NEW e \in S, NEW r \in Seq(S)
  PROVE  /\ <<e>> \o r \in Seq(S)
         /\ Len(<<e>> \o r) = Len(r) + 1
         /\ (<<e>> \o r)[1] = e
         /\ \A i \in 2 .. (Len(r) + 1) : (<<e>> \o r)[i] = r[i - 1]
<1>1. <<e>> \in Seq(S) /\ Len(<<e>>) = 1 /\ <<e>>[1] = e
  OBVIOUS
<1> DEFINE h == <<e>>
<1>2. Len(r) \in Nat
  BY LenProperties
<1> HIDE DEF h
<1>3. /\ h \o r \in Seq(S) /\ Len(h \o r) = Len(h) + Len(r)
      /\ \A i \in 1 .. (Len(h) + Len(r)) :
            (h \o r)[i] = IF i <= Len(h) THEN h[i] ELSE r[i - Len(h)]
  BY <1>1, ConcatProperties DEF h
<1>4. Len(h) = 1 /\ h[1] = e
  BY <1>1 DEF h
<1>5. /\ h \o r \in Seq(S) /\ Len(h \o r) = Len(r) + 1 /\ (h \o r)[1] = e
      /\ \A i \in 2 .. (Len(r) + 1) : (h \o r)[i] = r[i - 1]
  BY <1>2, <1>3, <1>4
<1> QED BY <1>5 DEF h

\* Depths and places.
LEMMA WebfsPlaces ==
  ASSUME WebfsTypes
  PROVE  /\ Len(calls) \in Nat /\ DOMAIN calls = 1 .. Len(calls) /\ 0 \in Depths
         /\ \A k \in 1 .. Len(calls) : calls[k] \in Frame
         /\ \A k \in Depths : k = 0 \/ k \in 1 .. Len(calls)
         /\ \A k \in Depths : JobAt(k) \in Jobs \/ k = 0
         /\ \A k \in Depths : DispatchAt(k) \in Locals
         /\ Len(fetch_list) \in Nat /\ DOMAIN fetch_list = 1 .. Len(fetch_list)
         /\ \A i \in 1 .. Len(fetch_list) : fetch_list[i] \in Entries
         /\ left \in Nat
<1>1. Len(calls) \in Nat /\ DOMAIN calls = 1 .. Len(calls)
      /\ \A k \in 1 .. Len(calls) : calls[k] \in Frame
  BY LenProperties, ElementOfSeq DEF WebfsTypes
<1>2. 0 \in Depths /\ \A k \in Depths : k = 0 \/ k \in 1 .. Len(calls)
  BY <1>1 DEF Depths
<1>3. \A k \in 1 .. Len(calls) : calls[k].job \in Jobs /\ calls[k].dispatch \in Locals
  BY <1>1 DEF Frame
<1>4. \A k \in Depths : (JobAt(k) \in Jobs \/ k = 0) /\ DispatchAt(k) \in Locals
  BY <1>2, <1>3 DEF JobAt, DispatchAt, WebfsTypes
<1>5. Len(fetch_list) \in Nat /\ DOMAIN fetch_list = 1 .. Len(fetch_list)
      /\ \A i \in 1 .. Len(fetch_list) : fetch_list[i] \in Entries
  BY LenProperties, ElementOfSeq DEF WebfsTypes
<1>6. left \in Nat
  <2>1. left \in 0 .. Len(fetch_list)
    BY DEF WebfsTypes
  <2> QED BY <1>5, <2>1
<1> QED BY <1>1, <1>2, <1>4, <1>5, <1>6

\* The locals with which fetch_dispatch_jobs begins, and those of no run of it.
LEMMA LocalsType ==
  /\ NotDispatching \in Locals /\ NotDispatching.starting = None /\ NotDispatching.step = "-"
  /\ TypeOK /\ WebfsTypes => \A f \in Entries, x \in {0, 1} :
       /\ Counted(x, f) \in Locals
       /\ Counted(x, f).starting = None /\ Counted(x, f).step = "-" /\ Counted(x, f).new = f
<1>1. NotDispatching \in Locals /\ NotDispatching.starting = None /\ NotDispatching.step = "-"
  BY DEF NotDispatching, Locals
<1>2. ASSUME TypeOK, WebfsTypes
      PROVE  \A f \in Entries, x \in {0, 1} :
       /\ Counted(x, f) \in Locals
       /\ Counted(x, f).starting = None /\ Counted(x, f).step = "-" /\ Counted(x, f).new = f
  <2>1. Len(queue_ring) \in Nat /\ Cardinality(fetch_ring) \in Nat
    BY <1>2, LenProperties, FS_CardinalityType DEF TypeOK, WebfsTypes
  <2> TAKE f \in Entries, x \in {0, 1}
  <2> DEFINE q == Len(queue_ring) + x
             a == Cardinality(fetch_ring)
  <2>2. q \in Int /\ a \in Int
    BY <2>1
  <2>3. Counted(x, f) = [NotDispatching EXCEPT !.queued = q, !.active = a, !.new = f]
    BY DEF Counted
  <2> HIDE DEF q, a
  <2> QED BY <2>2, <2>3 DEF NotDispatching, Locals, Entries
<1> QED BY <1>1, <1>2

\* The fetch that is being started.
LEMMA StartingFetch ==
  ASSUME WebfsTypes, Frames, dispatch.step # "-"
  PROVE  /\ dispatch.starting \in Fetches /\ dispatch.starting \in live
         /\ ~Attached(dispatch.starting)
         /\ dispatch.step \in {"open", "headers"} => ~InList(dispatch.starting)
<1>1. FrameOK(job, dispatch)
  BY WebfsPlaces DEF Frames, JobAt, DispatchAt
<1>2. dispatch.starting \in Fetches \union {None}
  BY DEF WebfsTypes, Locals
<1> QED BY <1>1, <1>2 DEF FrameOK

\* A call of the client: the locals wait one deeper.
LEMMA CallStack ==
  ASSUME WebfsTypes, job \in Jobs, NEW f \in Fetches, NEW m \in MsgType, NEW d \in Locals,
         calls' = <<[to |-> f, msg |-> m, job |-> job, dispatch |-> d]>> \o calls,
         job' = "none", dispatch' = NotDispatching
  PROVE  /\ calls' \in Seq(Frame) /\ Len(calls') = Len(calls) + 1
         /\ calls'[1].to = f /\ calls'[1].msg = m
         /\ JobAt(0)' = "none" /\ DispatchAt(0)' = NotDispatching
         /\ JobAt(1)' = job /\ DispatchAt(1)' = d
         /\ \A k \in 1 .. Len(calls) : /\ calls'[k + 1] = calls[k]
                                       /\ JobAt(k + 1)' = JobAt(k)
                                       /\ DispatchAt(k + 1)' = DispatchAt(k)
<1> DEFINE e == [to |-> f, msg |-> m, job |-> job, dispatch |-> d]
<1>1. e \in Frame /\ e.to = f /\ e.msg = m /\ e.job = job /\ e.dispatch = d
  BY DEF Frame
<1>2. calls \in Seq(Frame) /\ Len(calls) \in Nat /\ calls' = <<e>> \o calls
  BY WebfsPlaces DEF WebfsTypes
<1> HIDE DEF e
<1>3. /\ calls' \in Seq(Frame) /\ Len(calls') = Len(calls) + 1 /\ calls'[1] = e
      /\ \A i \in 2 .. (Len(calls) + 1) : calls'[i] = calls[i - 1]
  BY <1>1, <1>2, ConsProperties
<1>4. \A k \in 1 .. Len(calls) : k + 1 \in 2 .. (Len(calls) + 1) /\ (k + 1) - 1 = k /\ k # 0
                                 /\ k + 1 # 0
  BY <1>2
<1>5. \A k \in 1 .. Len(calls) : calls'[k + 1] = calls[k]
  BY <1>3, <1>4
<1> QED BY <1>1, <1>3, <1>4, <1>5 DEF JobAt, DispatchAt

\* The return from one.
LEMMA ReturnStack ==
  ASSUME WebfsTypes, calls # <<>>, calls' = Tail(calls), job' = Head(calls).job,
         dispatch' = Head(calls).dispatch
  PROVE  /\ calls' \in Seq(Frame) /\ Len(calls) \in Nat \ {0} /\ Len(calls') = Len(calls) - 1
         /\ Head(calls) = calls[1] /\ job' \in Jobs /\ dispatch' \in Locals
         /\ \A k \in 0 .. (Len(calls) - 1) : JobAt(k)' = JobAt(k + 1)
                                             /\ DispatchAt(k)' = DispatchAt(k + 1)
         /\ \A k \in 1 .. (Len(calls) - 1) : calls'[k] = calls[k + 1]
<1>1. calls \in Seq(Frame) /\ Len(calls) \in Nat
  BY WebfsPlaces DEF WebfsTypes
<1>2. Len(calls) # 0
  BY <1>1, EmptySeq, LenProperties
<1>3. /\ calls' \in Seq(Frame) /\ Len(calls') = Len(calls) - 1 /\ Head(calls) = calls[1]
      /\ \A k \in 1 .. (Len(calls) - 1) : calls'[k] = calls[k + 1]
  BY <1>1, <1>2, HeadTailProperties
<1>4. 1 \in 1 .. Len(calls) /\ calls[1] \in Frame
  BY <1>1, <1>2, ElementOfSeq
<1>5. job' \in Jobs /\ dispatch' \in Locals
  BY <1>3, <1>4 DEF Frame
<1>6. \A k \in 0 .. (Len(calls) - 1) : k = 0 \/ (k \in 1 .. (Len(calls) - 1) /\ k # 0)
  BY <1>1
<1>7. \A k \in 0 .. (Len(calls) - 1) : k + 1 # 0
  BY <1>1
<1>8. \A k \in 0 .. (Len(calls) - 1) : JobAt(k)' = JobAt(k + 1)
                                       /\ DispatchAt(k)' = DispatchAt(k + 1)
  BY <1>3, <1>6, <1>7 DEF JobAt, DispatchAt
<1> QED BY <1>1, <1>2, <1>3, <1>5, <1>8

\* Any other step.
LEMMA SameStack ==
  ASSUME calls' = calls
  PROVE  /\ JobAt(0)' = job' /\ DispatchAt(0)' = dispatch'
         /\ \A k \in 1 .. Len(calls) : JobAt(k)' = JobAt(k) /\ DispatchAt(k)' = DispatchAt(k)
BY DEF JobAt, DispatchAt

\* A fetch that is put in front of the list.
LEMMA PrependedEntry ==
  ASSUME WebfsTypes, NEW f \in Fetches, fetch_list' = <<f>> \o fetch_list
  PROVE  /\ fetch_list' \in Seq(Entries) /\ Len(fetch_list') = Len(fetch_list) + 1
         /\ fetch_list'[1] = f
         /\ \A i \in 2 .. (Len(fetch_list) + 1) : fetch_list'[i] = fetch_list[i - 1]
<1>1. f \in Entries /\ fetch_list \in Seq(Entries)
  BY DEF WebfsTypes, Entries
<1> QED BY <1>1, ConsProperties

\* What the second loop of webfs_poll leaves: entries that were listed, each once.
LEMMA NotDoneProperties ==
  ASSUME WebfsTypes
  PROVE  /\ NotDone \in Seq(Entries)
         /\ \E g \in [1 .. Len(NotDone) -> 1 .. Len(fetch_list)] :
               /\ \A j \in 1 .. Len(NotDone) :
                     NotDone[j] = fetch_list[g[j]] /\ fetch_list[g[j]] # None
               /\ \A j, k \in 1 .. Len(NotDone) : g[j] = g[k] => j = k
<1> DEFINE n == Len(fetch_list)
           K == {i \in 1 .. n : fetch_list[i] # None}
           nth(j) == CHOOSE i \in K : Cardinality({k \in K : k <= i}) = j
           N == Cardinality(K)
           g == [j \in 1 .. N |-> nth(j)]
<1>1. n \in Nat /\ \A i \in 1 .. n : fetch_list[i] \in Entries
  BY WebfsPlaces
<1>2. K \in SUBSET (1 .. n) /\ \A i \in K : i \in 1 .. n /\ fetch_list[i] # None
  OBVIOUS
<1>3. N \in Nat
  BY <1>1, <1>2, PlacesFinite
<1>4. \A j \in 1 .. N : nth(j) \in K /\ Place(K, nth(j)) = j
  <2> TAKE j \in 1 .. N
  <2>1. \E i \in K : Place(K, i) = j
    BY <1>1, <1>2, PlaceFound
  <2>2. nth(j) = CHOOSE i \in K : Place(K, i) = j
    BY DEF Place
  <2> HIDE DEF nth
  <2> QED BY <2>1, <2>2
<1>5. NotDone = [j \in 1 .. N |-> fetch_list[nth(j)]]
  BY DEF NotDone
<1> HIDE DEF K, nth
<1>6. NotDone \in Seq(Entries) /\ Len(NotDone) = N
  <2>1. [j \in 1 .. N |-> fetch_list[nth(j)]] \in [1 .. N -> Entries]
    BY <1>1, <1>2, <1>4
  <2> HIDE DEF N
  <2>2. NotDone \in [1 .. N -> Entries]
    BY <1>5, <2>1
  <2> QED BY <1>3, <2>2
<1>7. g \in [1 .. N -> 1 .. n]
  BY <1>2, <1>4
<1>8. \A j \in 1 .. N : NotDone[j] = fetch_list[g[j]] /\ fetch_list[g[j]] # None
  BY <1>2, <1>4, <1>5
<1>9. \A j, k \in 1 .. N : g[j] = g[k] => j = k
  BY <1>4
<1> HIDE DEF g, N
<1> QED BY <1>6, <1>7, <1>8, <1>9

\* An entry of the list, as the poll sees it.
LEMMA VisitedEntry ==
  ASSUME WebfsTypes, left > 0
  PROVE  here \in 1 .. Len(fetch_list) /\ visited = fetch_list[here] /\ visited \in Entries
<1>1. left \in 1 .. Len(fetch_list) /\ Len(fetch_list) \in Nat
  <2>1. left \in 0 .. Len(fetch_list)
    BY DEF WebfsTypes
  <2>2. Len(fetch_list) \in Nat
    BY WebfsPlaces
  <2> QED BY <2>1, <2>2
<1>2. here \in 1 .. Len(fetch_list)
  BY <1>1 DEF here
<1> QED BY <1>2, WebfsPlaces DEF visited

\* What a call of the client does to the factory's state.
LEMMA CallType ==
  ASSUME TypeOK, WebfsTypes, NEW f \in Fetches, NEW m \in MsgType, Call(f, m)
  PROVE  /\ TypeOK' /\ calls' \in Seq(Frame) /\ dispatch' \in Locals /\ held' \subseteq Fetches
         /\ aborted' \subseteq Fetches /\ IsFiniteSet(fetch_ring')
<1>1. /\ last_msg' = [last_msg EXCEPT ![f] = IF Rank[m] > @ THEN Rank[m] ELSE @]
      /\ calls' = <<[to |-> f, msg |-> m, job |-> job, dispatch |-> dispatch]>> \o calls
      /\ job' = "none" /\ dispatch' = NotDispatching
      /\ held' = IF m \in {"FINISHED", "ERROR"} THEN held \ {f} ELSE held
      /\ UNCHANGED <<live, timer, polling, aborted, queue_ring, fetch_ring, fetch_is_active>>
  BY DEF Call, rings
<1>2. TypeOK'
  BY <1>1, RankType DEF TypeOK
<1>3. job \in Jobs /\ dispatch \in Locals
  BY DEF TypeOK, Jobs, WebfsTypes
<1>4. calls' \in Seq(Frame) /\ dispatch' \in Locals
  BY <1>1, <1>3, CallStack, LocalsType
<1> QED BY <1>1, <1>2, <1>4 DEF WebfsTypes

\* The places yet to be visited are places of the list.
LEMMA LeftType ==
  ASSUME WebfsTypes, fetch_list' \in Seq(Entries), UNCHANGED left,
         Len(fetch_list') \in {Len(fetch_list), Len(fetch_list) + 1}
  PROVE  left' \in 0 .. Len(fetch_list')
<1>1. left \in 0 .. Len(fetch_list) /\ Len(fetch_list) \in Nat
  BY WebfsPlaces DEF WebfsTypes
<1> QED BY <1>1

\* Every step of webfs over the factory keeps the types.
LEMMA WebfsTypeStep ==
  ASSUME TypeOK, WebfsTypes, Frames, RingsAgree, [WebfsNext]_allVars
  PROVE  TypeOK' /\ WebfsTypes'
<1> USE DEF rings, stack, place
<1>1. ASSUME NEW f \in Fetches, ClientStarts(f) PROVE TypeOK' /\ WebfsTypes'
  <2>1. StartFetch(f)
    BY <1>1 DEF ClientStarts
  <2>2. TypeOK'
    BY <2>1, TypeStep DEF Next
  <2>3. Counted(1, f) \in Locals
    BY LocalsType DEF Entries
  <2>4. /\ state' = [state EXCEPT ![f] = "none"] /\ dispatch' = Counted(1, f)
        /\ aborted' = aborted \ {f}
        /\ UNCHANGED <<fetch_list, calls, held, stage, left, judging, fetch_ring>>
    BY <1>1, <2>1 DEF ClientStarts, StartFetch
  <2> QED BY <2>2, <2>3, <2>4 DEF WebfsTypes, States
<1>2. ASSUME NEW f \in Fetches, ClientAborts(f) PROVE TypeOK' /\ WebfsTypes'
  <2>1. /\ last_msg' = [last_msg EXCEPT ![f] = FETCH__INTERNAL_ABORTED]
        /\ state' = [state EXCEPT ![f] = "aborted"]
        /\ held' = held \ {f} /\ aborted' = aborted \union {f}
        /\ UNCHANGED <<live, fetch_list, dispatch, calls, stage, left, judging>>
        /\ UNCHANGED <<queue_ring, fetch_ring, fetch_is_active, timer, job, polling>>
    BY <1>2 DEF ClientAborts, Abort
  <2>2. FETCH__INTERNAL_ABORTED \in 0 .. 11
    BY DEF FETCH__INTERNAL_ABORTED, Rank
  <2>3. TypeOK'
    BY <2>1, <2>2 DEF TypeOK
  <2> QED BY <2>1, <2>3 DEF WebfsTypes, States
<1>3. CASE CallReturns
  <2>1. calls' \in Seq(Frame) /\ job' \in Jobs /\ dispatch' \in Locals
    BY <1>3, ReturnStack DEF CallReturns
  <2> QED BY <1>3, <2>1 DEF CallReturns, TypeOK, WebfsTypes, Jobs
<1>4. ASSUME NEW i \in DOMAIN queue_ring, StartBegins(i) PROVE TypeOK' /\ WebfsTypes'
  <2>1. i \in 1 .. Len(queue_ring) /\ queue_ring[i] \in Fetches
    BY LenProperties, ElementOfSeq DEF TypeOK
  <2>2. queue_ring' \in Seq(Fetches)
    BY <1>4, <2>1, WithoutProperties DEF TypeOK, StartBegins
  <2>3. TypeOK'
    BY <1>4, <2>2 DEF StartBegins, TypeOK
  <2>4. /\ state' = [state EXCEPT ![queue_ring[i]] = "error"]
        /\ dispatch' = [dispatch EXCEPT !.starting = queue_ring[i], !.step = "open"]
        /\ UNCHANGED <<fetch_list, calls, stage, left, judging, held, aborted, fetch_ring>>
    BY <1>4 DEF StartBegins
  <2> QED BY <2>1, <2>3, <2>4 DEF WebfsTypes, States, Locals
<1>5. ASSUME NEW outcome \in Outcomes, StartWithout(outcome) PROVE TypeOK' /\ WebfsTypes'
  <2> DEFINE f == dispatch.starting
             s == IF outcome \in {"redirect", "notmodified"} THEN outcome ELSE "error"
  <2>1. f \in Fetches
    BY <1>5, StartingFetch DEF StartWithout, Starting
  <2>2. s \in States
    BY DEF States
  <2>3. /\ state' = [state EXCEPT ![f] = s]
        /\ fetch_list' = <<f>> \o fetch_list \/ fetch_list' = fetch_list
        /\ dispatch' = [dispatch EXCEPT !.step = "return"]
        /\ UNCHANGED <<vars, calls, stage, left, judging, held, aborted>>
    BY <1>5 DEF StartWithout
  <2> HIDE DEF f, s
  <2>4. fetch_list' \in Seq(Entries) /\ Len(fetch_list') \in {Len(fetch_list), Len(fetch_list) + 1}
    BY <2>1, <2>3, PrependedEntry DEF WebfsTypes
  <2>5. left' \in 0 .. Len(fetch_list')
    BY <2>3, <2>4, LeftType
  <2> QED BY <2>2, <2>3, <2>4, <2>5 DEF TypeOK, WebfsTypes, Locals, vars
<1>6. CASE StartWithoutClone
  <2> DEFINE f == dispatch.starting
             d == [dispatch EXCEPT !.step = "return"]
  <2>1. f \in Fetches /\ d \in Locals /\ job \in Jobs
    BY <1>6, StartingFetch DEF StartWithoutClone, Starting, WebfsTypes, Locals, Jobs, TypeOK
  <2>2. /\ calls' = <<[to |-> f, msg |-> "ERROR", job |-> job, dispatch |-> d]>> \o calls
        /\ job' = "none" /\ dispatch' = NotDispatching /\ held' = held \ {f}
        /\ last_msg' = [last_msg EXCEPT ![f] = IF Rank["ERROR"] > @ THEN Rank["ERROR"] ELSE @]
        /\ UNCHANGED <<live, timer, polling, aborted, fetch_list, state, stage, left, judging>>
        /\ UNCHANGED <<queue_ring, fetch_ring, fetch_is_active>>
    BY <1>6 DEF StartWithoutClone
  <2> HIDE DEF f, d
  <2>3. calls' \in Seq(Frame) /\ dispatch' \in Locals
    <3>1. "ERROR" \in MsgType
      BY DEF MsgType
    <3> QED BY <2>1, <2>2, <3>1, CallStack, LocalsType
  <2>4. TypeOK'
    <3>1. Rank["ERROR"] \in 0 .. 11
      BY DEF Rank
    <3> QED BY <2>2, <3>1 DEF TypeOK
  <2> QED BY <2>2, <2>3, <2>4 DEF WebfsTypes
<1>7. CASE StartWithBody
  BY <1>7 DEF StartWithBody, TypeOK, WebfsTypes, Locals, vars
<1>8. CASE SendHeader
  <2>1. dispatch.starting \in Fetches /\ "HEADER" \in MsgType
    BY <1>8, StartingFetch DEF SendHeader, Starting, MsgType
  <2> QED BY <1>8, <2>1, CallType DEF SendHeader, WebfsTypes
<1>9. CASE HeadersSent
  <2> DEFINE f == dispatch.starting
  <2>1. f \in Fetches
    BY <1>9, StartingFetch DEF HeadersSent, Starting
  <2>2. /\ state' = [state EXCEPT ![f] = "started"] /\ fetch_list' = <<f>> \o fetch_list
        /\ dispatch' = [dispatch EXCEPT !.step = "return"]
        /\ UNCHANGED <<vars, calls, stage, left, judging, held, aborted>>
    BY <1>9 DEF HeadersSent
  <2> HIDE DEF f
  <2>3. fetch_list' \in Seq(Entries) /\ Len(fetch_list') = Len(fetch_list) + 1
    BY <2>1, <2>2, PrependedEntry
  <2>4. left' \in 0 .. Len(fetch_list')
    BY <2>2, <2>3, LeftType
  <2> QED BY <2>2, <2>3, <2>4 DEF TypeOK, WebfsTypes, Locals, vars, States
<1>10. CASE StartReturns
  <2> DEFINE f == dispatch.starting
  <2>1. f \in Fetches
    BY <1>10, StartingFetch DEF StartReturns, Starting
  <2>2. IsFiniteSet(fetch_ring \union {f})
    BY FS_AddElement DEF WebfsTypes
  <2>3. dispatch' \in Locals
    <3>1. dispatch \in Locals
      BY DEF WebfsTypes
    <3>2. dispatch.queued - 1 \in Int /\ dispatch.active + 1 \in Int
      BY <3>1 DEF Locals
    <3> QED BY <1>10, <3>1, <3>2 DEF StartReturns, Counts, Locals
  <2> QED BY <1>10, <2>1, <2>2, <2>3 DEF StartReturns, TypeOK, WebfsTypes
<1>11. CASE JobsDispatched
  <2>1. /\ timer' \in BOOLEAN
        /\ job' \in {"none", "start", "poll", "fdset"}
        /\ polling' \in {"none", "timer", "fdset"}
    <3>1. CallerGoesOn(dispatch.active > 0)
      BY <1>11 DEF JobsDispatched
    <3> DEFINE a == dispatch.active > 0
    <3>2. a \in BOOLEAN
      OBVIOUS
    <3> HIDE DEF a
    <3>3. CallerGoesOn(a)
      BY <3>1 DEF a
    <3> QED BY <3>2, <3>3, CallerType
  <2>2. TypeOK'
    BY <1>11, <2>1 DEF JobsDispatched, TypeOK
  <2>3. held' \subseteq Fetches
    <3>1. held' = held \/ (job = "start" /\ held' = held \union {dispatch.new})
      BY <1>11 DEF JobsDispatched
    <3>2. job = "start" => dispatch.new \in live
      BY WebfsPlaces DEF Frames, FrameOK, JobAt, DispatchAt
    <3> QED BY <3>1, <3>2 DEF WebfsTypes, TypeOK
  <2> QED BY <1>11, <2>2, <2>3, LocalsType DEF JobsDispatched, WebfsTypes
<1>12. CASE PollBegins
  <2>1. TypeOK'
    BY <1>12, TypeStep DEF PollBegins, Next
  <2>2. Counted(0, None) \in Locals
    BY LocalsType DEF Entries
  <2> QED BY <1>12, <2>1, <2>2 DEF PollBegins, FetcherPoll, WebfsTypes
<1>13. CASE WebfsPolls
  <2>1. Len(fetch_list) \in 0 .. Len(fetch_list)
    BY WebfsPlaces
  <2> QED BY <1>13, <2>1 DEF WebfsPolls, TypeOK, WebfsTypes, vars
<1>14. CASE VisitEntry
  <2>1. visited \in Fetches
    BY <1>14, VisitedEntry DEF VisitEntry, Visiting, Entries
  <2>2. /\ judging' = TRUE /\ UNCHANGED <<fetch_list, stage, left>>
    BY <1>14 DEF VisitEntry
  <2>3. CASE NoCall /\ state' = state
    BY <2>2, <2>3 DEF NoCall, vars, TypeOK, WebfsTypes
  <2>4. ASSUME NEW m \in MsgType, Call(visited, m),
               state' = state \/ state' = [state EXCEPT ![visited] = "finished"]
        PROVE  TypeOK' /\ WebfsTypes'
    <3>1. state' \in [Fetches -> States]
      BY <2>4 DEF WebfsTypes, States
    <3> QED BY <2>1, <2>2, <2>4, <3>1, CallType DEF WebfsTypes
  <2>5. ASSUME state[visited] \in DOMAIN Say PROVE Say[state[visited]] \in MsgType
    BY <2>5 DEF Say, MsgType
  <2>6. "DATA" \in MsgType /\ "FINISHED" \in MsgType
    BY DEF MsgType
  <2> QED BY <1>14, <2>3, <2>4, <2>5, <2>6 DEF VisitEntry, ReadBody
<1>15. CASE JudgeEntry
  <2>1. here \in 1 .. Len(fetch_list) /\ visited \in Entries /\ left \in Nat \ {0}
        /\ Len(fetch_list) \in Nat
    BY <1>15, VisitedEntry, WebfsPlaces DEF JudgeEntry, Visiting
  <2>2. left' \in 0 .. Len(fetch_list)
    <3>1. left \in 0 .. Len(fetch_list) /\ left' = left - 1
      BY <1>15 DEF JudgeEntry, WebfsTypes
    <3> QED BY <2>1, <3>1
  <2>3. fetch_list' \in Seq(Entries) /\ Len(fetch_list') = Len(fetch_list)
    <3>1. fetch_list' = [fetch_list EXCEPT ![here] = None] \/ fetch_list' = fetch_list
      BY <1>15 DEF JudgeEntry
    <3>2. fetch_list \in Seq(Entries) /\ None \in Entries
      BY DEF WebfsTypes, Entries
    <3> DEFINE h == here
    <3> HIDE DEF h
    <3>3. fetch_list' = [fetch_list EXCEPT ![h] = None] \/ fetch_list' = fetch_list
      BY <3>1 DEF h
    <3>4. h \in 1 .. Len(fetch_list)
      BY <2>1 DEF h
    <3> QED BY <3>2, <3>3, <3>4, ExceptSeq
  <2>4. TypeOK' /\ IsFiniteSet(fetch_ring')
    <3>1. CASE UNCHANGED <<live, queue_ring, fetch_ring, fetch_is_active>>
      BY <1>15, <3>1 DEF JudgeEntry, TypeOK, WebfsTypes
    <3>2. CASE RemoveFromQueues(visited) /\ live' = live \ {visited}
      <4>1. visited \in Fetches
        BY <3>2 DEF RemoveFromQueues, Attached, Queued, TypeOK
      <4>2. /\ queue_ring' \in Seq(Fetches) /\ fetch_ring' \subseteq fetch_ring
            /\ fetch_is_active' \in [Fetches -> BOOLEAN]
        <5> DEFINE v == visited
        <5> HIDE DEF v
        <5>1. v \in Fetches /\ RemoveFromQueues(v)
          BY <3>2, <4>1 DEF v
        <5> QED BY <5>1, RemoveType, RemoveKeepsRings
      <4>3. IsFiniteSet(fetch_ring')
        BY <4>2, FS_Subset DEF WebfsTypes
      <4> QED BY <1>15, <3>2, <4>2, <4>3 DEF JudgeEntry, TypeOK
    <3> QED BY <1>15, <3>1, <3>2 DEF JudgeEntry
  <2> QED BY <1>15, <2>2, <2>3, <2>4 DEF JudgeEntry, WebfsTypes
<1>16. CASE PollReturns
  <2>1. fetch_list' \in Seq(Entries) /\ left' = 0
    BY <1>16, NotDoneProperties DEF PollReturns
  <2>2. left' \in 0 .. Len(fetch_list')
    BY <2>1, LenProperties
  <2>3. TypeOK' /\ IsFiniteSet(fetch_ring') /\ stage' \in {"idle", "http", "http done", "https"}
    BY <1>16 DEF PollReturns, PollersDone, vars, TypeOK, WebfsTypes
  <2> QED BY <1>16, <2>1, <2>2, <2>3 DEF PollReturns, WebfsTypes
<1>17. CASE UNCHANGED allVars
  BY <1>17 DEF allVars, vars, webfsVars, TypeOK, WebfsTypes
<1> QED BY <1>1, <1>2, <1>3, <1>4, <1>5, <1>6, <1>7, <1>8, <1>9, <1>10, <1>11, <1>12, <1>13,
           <1>14, <1>15, <1>16, <1>17 DEF WebfsNext, System

-----------------------------------------------------------------------------
\* What is left of the queue.
LEMMA QueueWithout ==
  ASSUME TypeOK, NEW i \in 1 .. Len(queue_ring), NEW g
  PROVE  (\E j \in DOMAIN Without(queue_ring, i) : Without(queue_ring, i)[j] = g)
            <=> \E k \in DOMAIN queue_ring : k # i /\ queue_ring[k] = g
<1>1. queue_ring \in Seq(Fetches)
  BY DEF TypeOK
<1> DEFINE w == Without(queue_ring, i)
<1>2. /\ \A j \in DOMAIN w : \E k \in DOMAIN queue_ring : k # i /\ w[j] = queue_ring[k]
      /\ \A k \in DOMAIN queue_ring : k # i => \E j \in DOMAIN w : w[j] = queue_ring[k]
  BY <1>1, WithoutPlaces
<1> HIDE DEF w
<1>3. (\E j \in DOMAIN w : w[j] = g) <=> \E k \in DOMAIN queue_ring : k # i /\ queue_ring[k] = g
  BY <1>2
<1> QED BY <1>3 DEF w

\* The fetch that fetch_dispatch_job takes off the queue is on neither ring then,
\* the others are where they were.
LEMMA TakenOff ==
  ASSUME TypeOK, RingsAgree, NEW i \in DOMAIN queue_ring, NEW q, q = queue_ring[i],
         queue_ring' = Without(queue_ring, i), fetch_ring' = fetch_ring
  PROVE  /\ q \in Fetches /\ q \in live /\ Queued(q) /\ ~Attached(q)'
         /\ Distinct(queue_ring')
         /\ \A j \in 1 .. Len(queue_ring') :
               \E k \in 1 .. Len(queue_ring) : queue_ring'[j] = queue_ring[k]
         /\ \A g : Queued(g)' => Queued(g)
         /\ \A g : Attached(g)' => Attached(g)
<1>1. i \in 1 .. Len(queue_ring) /\ queue_ring \in Seq(Fetches)
  BY LenProperties DEF TypeOK
<1>2. queue_ring[i] \in Fetches /\ queue_ring[i] \in live /\ queue_ring[i] \notin fetch_ring
      /\ Distinct(queue_ring)
  BY <1>1, ElementOfSeq, RingsByPlace
<1> DEFINE w == Without(queue_ring, i)
<1>3. /\ Distinct(w)
      /\ \A j \in 1 .. Len(w) : \E k \in 1 .. Len(queue_ring) : k # i /\ w[j] = queue_ring[k]
  BY <1>1, <1>2, WithoutDistinct
<1>4. ASSUME NEW g
      PROVE  (\E j \in DOMAIN w : w[j] = g) <=> \E k \in DOMAIN queue_ring : k # i /\ queue_ring[k] = g
  BY <1>1, QueueWithout
<1> HIDE DEF w
<1>5. queue_ring' = w
  BY DEF w
<1>6. \A g : Queued(g)' <=> \E k \in DOMAIN queue_ring : k # i /\ queue_ring[k] = g
  BY <1>4, <1>5 DEF Queued
<1>7. DOMAIN queue_ring = 1 .. Len(queue_ring)
  BY <1>1, LenProperties
<1>8. ~Queued(q)'
  BY <1>1, <1>2, <1>6, <1>7 DEF Distinct
<1>9. Queued(q) /\ q \in Fetches /\ q \in live /\ q \notin fetch_ring
  BY <1>1, <1>2, <1>7 DEF Queued
<1>10. \A g : Queued(g)' => Queued(g)
  BY <1>6 DEF Queued
<1>11. \A g : Attached(g)' => Attached(g)
  BY <1>10 DEF Attached
<1>12. ~Attached(q)'
  BY <1>8, <1>9 DEF Attached
<1> QED BY <1>3, <1>5, <1>9, <1>10, <1>11, <1>12

\* The rings stay in agreement with the flags.
LEMMA WebfsRingsStep ==
  ASSUME WebfsAround, [WebfsNext]_allVars
  PROVE  RingsAgree'
<1> DEFINE Good == /\ fetch_ring \subseteq live
                   /\ \A i \in 1 .. Len(queue_ring) :
                         queue_ring[i] \in live /\ ~fetch_is_active[queue_ring[i]]
                   /\ Distinct(queue_ring)
                   /\ \A f \in fetch_ring : fetch_is_active[f]
<1> USE DEF rings
<1>a. TypeOK /\ RingsAgree /\ TypeOK' /\ WebfsTypes /\ Frames
  BY DEF WebfsAround, WebfsInv
<1>b. Good
  BY <1>a, RingsByPlace
<1>c. Len(queue_ring) \in Nat /\ DOMAIN queue_ring = 1 .. Len(queue_ring)
      /\ \A i \in 1 .. Len(queue_ring) : queue_ring[i] \in Fetches
  BY <1>a, LenProperties, ElementOfSeq DEF TypeOK
<1>d. Good' => RingsAgree'
  BY <1>a, LenProperties DEF TypeOK, RingsAgree, Distinct
<1>1. ASSUME NEW f \in Fetches, ClientStarts(f) PROVE RingsAgree'
  BY <1>1, <1>a, RingsStep DEF ClientStarts, Next
<1>2. ASSUME UNCHANGED <<queue_ring, fetch_ring, fetch_is_active, live>> PROVE RingsAgree'
  BY <1>2, <1>a DEF RingsAgree
<1>3. ASSUME NEW i \in DOMAIN queue_ring, StartBegins(i) PROVE RingsAgree'
  <2>1. queue_ring' = Without(queue_ring, i) /\ UNCHANGED <<fetch_ring, fetch_is_active, live>>
    BY <1>3 DEF StartBegins
  <2>2. /\ Distinct(queue_ring')
        /\ \A j \in 1 .. Len(queue_ring') :
              \E k \in 1 .. Len(queue_ring) : queue_ring'[j] = queue_ring[k]
    BY <1>a, <2>1, TakenOff
  <2>3. Good'
    BY <1>b, <2>1, <2>2
  <2> QED BY <1>d, <2>3
<1>4. CASE StartReturns
  <2> DEFINE f == dispatch.starting
  <2>1. f \in Fetches /\ f \in live /\ ~Attached(f)
    BY <1>4, <1>a, StartingFetch DEF StartReturns, Starting
  <2>2. /\ fetch_ring' = fetch_ring \union {f}
        /\ fetch_is_active' = [fetch_is_active EXCEPT ![f] = TRUE]
        /\ UNCHANGED <<queue_ring, live>>
    BY <1>4 DEF StartReturns
  <2> HIDE DEF f
  <2>3. \A i \in 1 .. Len(queue_ring) : queue_ring[i] # f
    BY <1>c, <2>1 DEF Attached, Queued
  <2>4. fetch_is_active'[f] /\ \A g \in Fetches \ {f} : fetch_is_active'[g] = fetch_is_active[g]
    BY <1>a, <2>1, <2>2 DEF TypeOK
  <2>5. Good'
    BY <1>a, <1>b, <1>c, <2>1, <2>2, <2>3, <2>4 DEF TypeOK
  <2> QED BY <1>d, <2>5
<1>5. CASE JudgeEntry
  <2>1. CASE RemoveFromQueues(visited) /\ live' = live \ {visited}
    <3>1. PICK v : v = visited
      OBVIOUS
    <3>2. RemoveFromQueues(v) /\ live' = live \ {v}
      BY <2>1, <3>1
    <3>3. v \in Fetches
      BY <1>a, <1>c, <3>2 DEF RemoveFromQueues, Attached, Queued, TypeOK
    <3>4. /\ fetch_ring' \subseteq fetch_ring \ {v}
          /\ Distinct(queue_ring')
          /\ \A j \in 1 .. Len(queue_ring') :
                /\ queue_ring'[j] # v
                /\ \E k \in 1 .. Len(queue_ring) : queue_ring'[j] = queue_ring[k]
          /\ fetch_is_active' = fetch_is_active
      BY <1>a, <3>2, <3>3, RemoveKeepsRings
    <3>5. Good'
      BY <1>b, <3>2, <3>4
    <3> QED BY <1>d, <3>5
  <2> QED BY <1>2, <1>5, <2>1 DEF JudgeEntry
<1>6. CASE VisitEntry
  <2>1. UNCHANGED <<queue_ring, fetch_ring, fetch_is_active, live>>
    BY <1>6 DEF VisitEntry, ReadBody, Call, NoCall, vars
  <2> QED BY <1>2, <2>1
<1>7. CASE \/ CallReturns \/ (\E f \in Fetches : ClientAborts(f))
           \/ (\E outcome \in Outcomes : StartWithout(outcome))
           \/ StartWithoutClone \/ StartWithBody \/ SendHeader \/ HeadersSent
           \/ JobsDispatched \/ PollBegins \/ WebfsPolls \/ PollReturns \/ UNCHANGED allVars
  <2>1. UNCHANGED <<queue_ring, fetch_ring, fetch_is_active, live>>
    BY <1>7 DEF CallReturns, ClientAborts, StartWithout, StartWithoutClone, StartWithBody,
                SendHeader, Call, HeadersSent, JobsDispatched, PollBegins, FetcherPoll,
                WebfsPolls, PollReturns, PollersDone, vars, allVars
  <2> QED BY <1>2, <2>1
<1> HIDE DEF Good
<1> QED BY <1>1, <1>3, <1>4, <1>5, <1>6, <1>7 DEF WebfsNext, System

-----------------------------------------------------------------------------
\* The locals of the calls below the one that runs stay as they were.
LEMMA FramesSame ==
  ASSUME WebfsTypes, Frames, FramesApart, calls' = calls,
         \A k \in 1 .. Len(calls) : \A j, d :
            j = JobAt(k) /\ d = DispatchAt(k) => /\ FrameOK(j, d)'
                                                 /\ Differ(job', dispatch', j, d)
                                                 /\ Differ(j, d, job', dispatch'),
         FrameOK(job, dispatch)'
  PROVE  Frames' /\ FramesApart'
<1>1. Len(calls) \in Nat /\ (\A k \in Depths : k = 0 \/ k \in 1 .. Len(calls)) /\ Depths' = Depths
  BY WebfsPlaces DEF Depths
<1>2. /\ JobAt(0)' = job' /\ DispatchAt(0)' = dispatch'
      /\ \A k \in 1 .. Len(calls) : JobAt(k)' = JobAt(k) /\ DispatchAt(k)' = DispatchAt(k)
  BY SameStack
<1>3. ASSUME NEW k \in 1 .. Len(calls)
      PROVE  /\ FrameOK(JobAt(k), DispatchAt(k))'
             /\ Differ(JobAt(0)', DispatchAt(0)', JobAt(k)', DispatchAt(k)')
             /\ Differ(JobAt(k)', DispatchAt(k)', JobAt(0)', DispatchAt(0)')
  <2>1. PICK j, d : j = JobAt(k) /\ d = DispatchAt(k)
    OBVIOUS
  <2>2. FrameOK(j, d)' /\ Differ(job', dispatch', j, d) /\ Differ(j, d, job', dispatch')
    BY <2>1
  <2>3. JobAt(k)' = j /\ DispatchAt(k)' = d
    BY <1>2, <2>1
  <2>4. FrameOK(JobAt(k), DispatchAt(k))'
    BY <2>2, <2>3 DEF FrameOK
  <2> QED BY <1>2, <2>2, <2>3, <2>4
<1>4. ASSUME NEW k \in 1 .. Len(calls), NEW l \in 1 .. Len(calls), k # l
      PROVE  Differ(JobAt(k)', DispatchAt(k)', JobAt(l)', DispatchAt(l)')
  <2>1. k \in Depths /\ l \in Depths
    BY <1>1 DEF Depths
  <2> QED BY <1>2, <1>4, <2>1 DEF FramesApart
<1>5. FrameOK(JobAt(0), DispatchAt(0))'
  BY <1>2 DEF FrameOK
<1>6. \A k \in Depths : FrameOK(JobAt(k), DispatchAt(k))'
  BY <1>1, <1>3, <1>5
<1>7. Frames'
  BY <1>1, <1>6 DEF Frames
<1>8. \A k, l \in Depths : k # l => Differ(JobAt(k)', DispatchAt(k)', JobAt(l)', DispatchAt(l)')
  BY <1>1, <1>3, <1>4
<1>9. FramesApart'
  BY <1>1, <1>8 DEF FramesApart
<1> QED BY <1>7, <1>9

\* A call of the client.
LEMMA FramesPushed ==
  ASSUME WebfsTypes, Frames, FramesApart, job \in Jobs,
         NEW f \in Fetches, NEW m \in MsgType, NEW d \in Locals, NEW j, j = job,
         calls' = <<[to |-> f, msg |-> m, job |-> job, dispatch |-> d]>> \o calls,
         job' = "none", dispatch' = NotDispatching,
         d.starting = dispatch.starting, d.new = dispatch.new,
         FrameOK(j, d)',
         \A k \in 1 .. Len(calls) : \A i, c :
            i = JobAt(k) /\ c = DispatchAt(k) => FrameOK(i, c)'
  PROVE  /\ Frames' /\ FramesApart'
         /\ \A k \in Depths' : JobAt(k)' = "start" =>
               \E l \in Depths : JobAt(l) = "start" /\ DispatchAt(k)'.new = DispatchAt(l).new
<1>1. Len(calls) \in Nat /\ \A k \in Depths : k = 0 \/ k \in 1 .. Len(calls)
  BY WebfsPlaces
<1>2. /\ Len(calls') = Len(calls) + 1
      /\ JobAt(0)' = "none" /\ DispatchAt(0)' = NotDispatching
      /\ JobAt(1)' = j /\ DispatchAt(1)' = d
      /\ \A k \in 1 .. Len(calls) : JobAt(k + 1)' = JobAt(k) /\ DispatchAt(k + 1)' = DispatchAt(k)
  BY CallStack
<1>3. \A k \in Depths' : \/ k = 0 \/ k = 1
                         \/ k - 1 \in 1 .. Len(calls) /\ (k - 1) + 1 = k /\ k - 1 \in Depths
  BY <1>1, <1>2 DEF Depths
<1>4. FrameOK(JobAt(0), DispatchAt(0))'
  <2>1. NotDispatching.starting = None /\ NotDispatching.step = "-"
    BY LocalsType
  <2>2. \A e : e.starting = None /\ e.step = "-" => FrameOK("none", e)'
    BY DEF FrameOK
  <2>3. FrameOK("none", NotDispatching)'
    BY <2>1 DEF FrameOK, NotDispatching
  <2> QED BY <1>2, <2>3 DEF FrameOK, NotDispatching
<1>5. FrameOK(JobAt(1), DispatchAt(1))'
  BY <1>2 DEF FrameOK
<1>6. ASSUME NEW k \in 1 .. Len(calls) PROVE FrameOK(JobAt(k + 1), DispatchAt(k + 1))'
  <2>1. PICK i, c : i = JobAt(k) /\ c = DispatchAt(k)
    OBVIOUS
  <2>2. FrameOK(i, c)' /\ JobAt(k + 1)' = i /\ DispatchAt(k + 1)' = c
    BY <1>2, <2>1
  <2> QED BY <2>2 DEF FrameOK
<1>7. Frames'
  <2>1. ASSUME NEW k \in Depths' PROVE FrameOK(JobAt(k), DispatchAt(k))'
    <3>1. CASE k - 1 \in 1 .. Len(calls) /\ (k - 1) + 1 = k
      BY <1>6, <3>1
    <3> QED BY <1>3, <1>4, <1>5, <3>1
  <2> QED BY <2>1 DEF Frames
<1>8. \A k \in Depths' : k # 0 => /\ k - 1 \in Depths
                                  /\ JobAt(k)' = JobAt(k - 1)
                                  /\ DispatchAt(k)'.starting = DispatchAt(k - 1).starting
                                  /\ DispatchAt(k)'.new = DispatchAt(k - 1).new
  <2>1. JobAt(0) = j /\ DispatchAt(0) = dispatch /\ 0 \in Depths /\ 1 - 1 = 0
    BY <1>1 DEF JobAt, DispatchAt, Depths
  <2> QED BY <1>2, <1>3, <2>1
<1>9. ASSUME NEW k \in Depths', NEW l \in Depths', k # l
      PROVE  Differ(JobAt(k)', DispatchAt(k)', JobAt(l)', DispatchAt(l)')
  <2>1. NotDispatching.starting = None
    BY LocalsType
  <2>2. CASE k = 0
    BY <1>2, <2>1, <2>2 DEF Differ
  <2>3. CASE k # 0 /\ l = 0
    <3>1. JobAt(l)' = "none" /\ DispatchAt(l)'.starting = None
      BY <1>2, <2>1, <2>3
    <3> QED BY <3>1 DEF Differ
  <2>4. CASE k # 0 /\ l # 0
    <3>1. k - 1 \in Depths /\ l - 1 \in Depths /\ k - 1 # l - 1
      BY <1>1, <1>8, <1>9, <2>4 DEF Depths
    <3>2. Differ(JobAt(k - 1), DispatchAt(k - 1), JobAt(l - 1), DispatchAt(l - 1))
      BY <3>1 DEF FramesApart
    <3> QED BY <1>8, <2>4, <3>2 DEF Differ
  <2> QED BY <2>2, <2>3, <2>4
<1>10. FramesApart'
  BY <1>9 DEF FramesApart
<1>11. \A k \in Depths' : JobAt(k)' = "start" =>
          \E l \in Depths : JobAt(l) = "start" /\ DispatchAt(k)'.new = DispatchAt(l).new
  BY <1>2, <1>8
<1> QED BY <1>7, <1>10, <1>11

\* What the invariant says of the list, the pointers and the entry in hand, when none
\* of what it speaks of changes.
Unmoved == UNCHANGED <<queue_ring, fetch_ring, live, fetch_list, state, held, stage, left, judging>>

\* What a dispatch knows does not depend on the stack above it.
LEMMA FrameUnmoved ==
  ASSUME Unmoved, NEW j, NEW d, FrameOK(j, d)
  PROVE  FrameOK(j, d)'
BY DEF Unmoved, FrameOK, Attached, Queued, InList

\* The list, the pointers and the poll, when only the stack changed.
LEMMA RestUnmoved ==
  ASSUME Unmoved, Listing, Pointers, Judging,
         \A k \in Depths' : JobAt(k)' = "start" =>
            \E l \in Depths : JobAt(l) = "start" /\ DispatchAt(k)'.new = DispatchAt(l).new
  PROVE  Listing' /\ Pointers' /\ Judging'
<1>1. Listing' /\ Pointers'
  BY DEF Unmoved, Listing, Pointers, Queued
<1>2. visited' = visited
  BY DEF Unmoved, visited, here
<1>3. Judging'
  BY <1>2 DEF Unmoved, Judging
<1> QED BY <1>1, <1>3

\* The client returns from a callback.
LEMMA CallReturnsKeeps ==
  ASSUME WebfsAround, CallReturns
  PROVE  WebfsInv'
<1>1. /\ calls # <<>> /\ calls' = Tail(calls) /\ job' = Head(calls).job
      /\ dispatch' = Head(calls).dispatch
      /\ WebfsTypes /\ WebfsTypes' /\ Frames /\ FramesApart /\ Listing /\ Pointers /\ Judging
  BY DEF WebfsAround, WebfsInv, CallReturns
<1>2. Unmoved
  BY DEF CallReturns, Unmoved, rings, place
<1>3. /\ Len(calls) \in Nat \ {0} /\ Len(calls') = Len(calls) - 1
      /\ \A k \in 0 .. (Len(calls) - 1) : JobAt(k)' = JobAt(k + 1)
                                          /\ DispatchAt(k)' = DispatchAt(k + 1)
  BY <1>1, ReturnStack
<1>4. \A k \in Depths' : k \in 0 .. (Len(calls) - 1) /\ k + 1 \in Depths /\ k \in Int
  BY <1>3 DEF Depths
<1>5. ASSUME NEW k \in Depths' PROVE FrameOK(JobAt(k), DispatchAt(k))'
  <2>1. PICK j, d : j = JobAt(k + 1) /\ d = DispatchAt(k + 1)
    OBVIOUS
  <2>2. FrameOK(j, d)
    BY <1>1, <1>4, <2>1 DEF Frames
  <2>3. FrameOK(j, d)' /\ JobAt(k)' = j /\ DispatchAt(k)' = d
    BY <1>2, <1>3, <1>4, <2>1, <2>2, FrameUnmoved
  <2> QED BY <2>3 DEF FrameOK
<1>6. ASSUME NEW k \in Depths', NEW l \in Depths', k # l
      PROVE  Differ(JobAt(k)', DispatchAt(k)', JobAt(l)', DispatchAt(l)')
  <2>1. k + 1 # l + 1
    BY <1>4, <1>6
  <2>2. Differ(JobAt(k + 1), DispatchAt(k + 1), JobAt(l + 1), DispatchAt(l + 1))
    BY <1>1, <1>4, <2>1 DEF FramesApart
  <2> QED BY <1>3, <1>4, <2>2
<1>7. Frames' /\ FramesApart'
  BY <1>5, <1>6 DEF Frames, FramesApart
<1>8. \A k \in Depths' : JobAt(k)' = "start" =>
         \E l \in Depths : JobAt(l) = "start" /\ DispatchAt(k)'.new = DispatchAt(l).new
  BY <1>3, <1>4
<1>9. Listing' /\ Pointers' /\ Judging'
  BY <1>1, <1>2, <1>8, RestUnmoved
<1> QED BY <1>1, <1>7, <1>9 DEF WebfsInv

\* The depths below the one that runs, before a step.
LEMMA LowerFrames ==
  ASSUME WebfsTypes, Frames, FramesApart, NEW k \in 1 .. Len(calls)
  PROVE  /\ k \in Depths /\ FrameOK(JobAt(k), DispatchAt(k))
         /\ Differ(job, dispatch, JobAt(k), DispatchAt(k))
         /\ Differ(JobAt(k), DispatchAt(k), job, dispatch)
<1>1. k \in Depths /\ 0 \in Depths /\ k # 0
  BY WebfsPlaces DEF Depths
<1>2. JobAt(0) = job /\ DispatchAt(0) = dispatch
  BY DEF JobAt, DispatchAt
<1>3. Differ(JobAt(0), DispatchAt(0), JobAt(k), DispatchAt(k))
      /\ Differ(JobAt(k), DispatchAt(k), JobAt(0), DispatchAt(0))
  BY <1>1 DEF FramesApart
<1> QED BY <1>1, <1>2, <1>3 DEF Frames

\* The running dispatch is the frame at depth 0.
LEMMA TopFrame ==
  ASSUME WebfsTypes, Frames
  PROVE  FrameOK(job, dispatch) /\ 0 \in Depths /\ JobAt(0) = job /\ DispatchAt(0) = dispatch
BY WebfsPlaces DEF Frames, JobAt, DispatchAt

\* What pending fetch_start calls there are after a step that leaves calls alone.
LEMMA PendingSame ==
  ASSUME WebfsTypes, calls' = calls, NEW k \in Depths', JobAt(k)' = "start"
  PROVE  \/ k = 0 /\ JobAt(k)' = job' /\ DispatchAt(k)' = dispatch'
         \/ /\ k \in 1 .. Len(calls) /\ k \in Depths
            /\ JobAt(k) = "start" /\ DispatchAt(k)' = DispatchAt(k)
<1>1. k \in Depths /\ (k = 0 \/ k \in 1 .. Len(calls))
  BY WebfsPlaces DEF Depths
<1> QED BY <1>1, SameStack

\* The invariant, taken apart.
LEMMA WebfsParts ==
  ASSUME WebfsAround
  PROVE  /\ TypeOK /\ TypeOK' /\ RingsAgree /\ WebfsTypes /\ WebfsTypes' /\ Frames /\ FramesApart
         /\ Listing /\ Pointers /\ Judging
         /\ job \in Jobs /\ dispatch \in Locals /\ live \subseteq Fetches
BY DEF WebfsAround, WebfsInv, TypeOK, Jobs, WebfsTypes

\* The entry in hand is listed.
LEMMA VisitedListed ==
  ASSUME WebfsTypes, Listing, Judging, judging
  PROVE  /\ left > 0 /\ visited \in Fetches /\ visited \in live /\ InList(visited)
         /\ ~Queued(visited)
<1>1. left > 0 /\ visited # None
  BY DEF Judging
<1>2. here \in 1 .. Len(fetch_list) /\ visited = fetch_list[here] /\ visited \in Entries
  BY <1>1, VisitedEntry
<1>3. visited \in live /\ ~Queued(visited)
  BY <1>1, <1>2 DEF Listing
<1>4. InList(visited)
  BY <1>2, WebfsPlaces DEF InList
<1> QED BY <1>1, <1>2, <1>3, <1>4 DEF Entries

\* A fetch that starts is queued, the others are where they were.
LEMMA StartQueues ==
  ASSUME TypeOK, NEW f \in Fetches, StartFetch(f)
  PROVE  \A g \in Fetches : Queued(g)' <=> g = f \/ Queued(g)
<1>1. queue_ring' = Append(queue_ring, f)
  BY DEF StartFetch
<1>2. queue_ring \in Seq(Fetches)
  BY DEF TypeOK
<1>3. /\ \A j \in DOMAIN queue_ring' : queue_ring'[j] = f \/ \E k \in DOMAIN queue_ring : queue_ring'[j] = queue_ring[k]
      /\ \E j \in DOMAIN queue_ring' : queue_ring'[j] = f
      /\ \A k \in DOMAIN queue_ring : k \in DOMAIN queue_ring' /\ queue_ring'[k] = queue_ring[k]
  BY <1>1, <1>2, AppendPlaces
<1> QED BY <1>3 DEF Queued

\* fetch_start.
LEMMA ClientStartsWebfs ==
  ASSUME WebfsAround, NEW f \in Fetches, ClientStarts(f)
  PROVE  WebfsInv'
<1>1. /\ StartFetch(f) /\ f \notin live /\ live' = live \union {f} /\ fetch_ring' = fetch_ring
      /\ job = "none" /\ job' = "start" /\ dispatch' = Counted(1, f)
      /\ state' = [state EXCEPT ![f] = "none"]
      /\ UNCHANGED <<fetch_list, calls, held, stage, left, judging>>
  BY DEF ClientStarts, StartFetch, ClientRuns, place
<1> USE WebfsParts
<1>2. dispatch'.starting = None /\ dispatch'.step = "-" /\ dispatch'.new = f
  BY <1>1, LocalsType DEF Entries
<1>3. state'[f] = "none" /\ \A g \in Fetches \ {f} : state'[g] = state[g]
  BY <1>1 DEF WebfsTypes
<1>4. \A g \in Fetches : Attached(g)' <=> g = f \/ Attached(g)
  BY <1>1, StartAttaches
<1>5. \A g \in Fetches : Queued(g)' <=> g = f \/ Queued(g)
  BY <1>1, StartQueues
<1>6. f \notin held /\ \A g \in held : g \in live
  BY <1>1 DEF Pointers
<1>7. \A g : InList(g)' <=> InList(g)
  BY <1>1 DEF InList
<1>8. ASSUME NEW k \in 1 .. Len(calls), NEW j, NEW d, j = JobAt(k) /\ d = DispatchAt(k)
      PROVE  FrameOK(j, d)' /\ Differ(job', dispatch', j, d) /\ Differ(j, d, job', dispatch')
  <2>1. FrameOK(j, d)
    BY <1>8, LowerFrames
  <2>2. FrameOK(j, d)'
    BY <1>1, <1>3, <1>4, <1>7, <2>1 DEF FrameOK
  <2> QED BY <1>1, <1>2, <2>1, <2>2 DEF Differ, FrameOK
<1>9. FrameOK(job, dispatch)'
  BY <1>1, <1>2, <1>3, <1>6 DEF FrameOK
<1>10. Frames' /\ FramesApart'
  BY <1>1, <1>8, <1>9, FramesSame
<1>11. Listing'
  <2>1. \A i \in 1 .. Len(fetch_list) : fetch_list[i] # None => fetch_list[i] \in Fetches \ {f}
    BY <1>1 DEF Listing
  <2> QED BY <1>1, <1>5, <2>1 DEF Listing
<1>12. Pointers'
  BY <1>1, <1>3, <1>6 DEF Pointers
<1>13. Judging'
  <2>1. SUFFICES ASSUME judging PROVE Judging'
    BY <1>1 DEF Judging
  <2>2. PICK v : v = visited
    OBVIOUS
  <2>3. visited' = v
    BY <1>1, <2>2 DEF visited, here
  <2>4. v \in Fetches /\ v \in live
    BY <2>1, <2>2, VisitedListed
  <2>5. \A k \in Depths' : JobAt(k)' = "start" => DispatchAt(k)'.new # v
    BY <1>1, <1>2, <2>1, <2>2, <2>4, PendingSame DEF Judging
  <2> QED BY <1>1, <1>3, <2>1, <2>2, <2>3, <2>4, <2>5 DEF Judging
<1> QED BY <1>10, <1>11, <1>12, <1>13 DEF WebfsInv

\* fetch_abort.
LEMMA ClientAbortsWebfs ==
  ASSUME WebfsAround, NEW f \in Fetches, ClientAborts(f)
  PROVE  WebfsInv'
<1>1. /\ f \in held /\ held' = held \ {f} /\ state' = [state EXCEPT ![f] = "aborted"]
      /\ UNCHANGED <<queue_ring, fetch_ring, live, job, dispatch, fetch_list, calls, stage,
                     left, judging>>
  BY DEF ClientAborts, MayAbort, Abort, rings, stack, place
<1> USE WebfsParts
<1>2. state'[f] = "aborted" /\ \A g \in Fetches \ {f} : state'[g] = state[g]
  BY <1>1 DEF WebfsTypes
<1>3. \A g : (Attached(g)' <=> Attached(g)) /\ (Queued(g)' <=> Queued(g)) /\ (InList(g)' <=> InList(g))
  BY <1>1 DEF InList, Attached, Queued
<1>4. ASSUME NEW j, NEW d, FrameOK(j, d) PROVE FrameOK(j, d)'
  BY <1>1, <1>2, <1>3, <1>4 DEF FrameOK
<1>5. ASSUME NEW k \in 1 .. Len(calls), NEW j, NEW d, j = JobAt(k) /\ d = DispatchAt(k)
      PROVE  FrameOK(j, d)' /\ Differ(job', dispatch', j, d) /\ Differ(j, d, job', dispatch')
  BY <1>1, <1>4, <1>5, LowerFrames
<1>6. FrameOK(job, dispatch)'
  <2>1. PICK j, d : j = job /\ d = dispatch
    OBVIOUS
  <2>2. FrameOK(j, d)'
    BY <1>4, <2>1, TopFrame
  <2> QED BY <1>1, <2>1, <2>2 DEF FrameOK
<1>7. Frames' /\ FramesApart'
  BY <1>1, <1>5, <1>6, FramesSame
<1>8. Listing'
  BY <1>1, <1>3 DEF Listing
<1>9. Pointers'
  BY <1>1, <1>2 DEF Pointers
<1>10. Judging'
  <2>1. SUFFICES ASSUME judging PROVE Judging'
    BY <1>1 DEF Judging
  <2>2. PICK v : v = visited
    OBVIOUS
  <2>3. visited' = v
    BY <1>1, <2>2 DEF visited, here
  <2>4. v \in Fetches /\ v \in live
    BY <2>1, <2>2, VisitedListed
  <2>5. \A k \in Depths' : JobAt(k)' = "start" => DispatchAt(k)'.new # v
    BY <1>1, <2>1, <2>2, TopFrame, PendingSame DEF Judging
  <2> QED BY <1>1, <1>2, <2>1, <2>2, <2>3, <2>4, <2>5 DEF Judging
<1> QED BY <1>7, <1>8, <1>9, <1>10 DEF WebfsInv

\* fetch_dispatch_job takes a fetch off the queue.
LEMMA StartBeginsWebfs ==
  ASSUME WebfsAround, NEW i \in DOMAIN queue_ring, StartBegins(i)
  PROVE  WebfsInv'
<1> USE WebfsParts
<1>1. PICK q : q = queue_ring[i]
  OBVIOUS
<1>2. /\ queue_ring' = Without(queue_ring, i) /\ state' = [state EXCEPT ![q] = "error"]
      /\ dispatch' = [dispatch EXCEPT !.starting = q, !.step = "open"]
      /\ job # "none" /\ dispatch.starting = None
      /\ UNCHANGED <<fetch_ring, live, job, fetch_list, calls, held, stage, left, judging>>
  BY <1>1 DEF StartBegins, Between, stack, place
<1>3. /\ q \in Fetches /\ q \in live /\ Queued(q) /\ ~Attached(q)'
      /\ \A g : Queued(g)' => Queued(g)
      /\ \A g : Attached(g)' => Attached(g)
  BY <1>1, <1>2, TakenOff
<1>4. dispatch'.starting = q /\ dispatch'.step = "open" /\ dispatch'.new = dispatch.new
  BY <1>2 DEF Locals
<1>5. state'[q] = "error" /\ \A g \in Fetches \ {q} : state'[g] = state[g]
  BY <1>2, <1>3 DEF WebfsTypes
<1>6. ~InList(q) /\ \A g : InList(g)' <=> InList(g)
  <2>1. \A j \in 1 .. Len(fetch_list) : fetch_list[j] # q
    BY <1>3, WebfsAssumption DEF Listing
  <2> QED BY <1>2, <2>1, WebfsPlaces DEF InList
<1>7. ASSUME NEW k \in 1 .. Len(calls), NEW j, NEW d, j = JobAt(k) /\ d = DispatchAt(k)
      PROVE  FrameOK(j, d)' /\ Differ(job', dispatch', j, d) /\ Differ(j, d, job', dispatch')
  <2>1. FrameOK(j, d) /\ Differ(job, dispatch, j, d) /\ Differ(j, d, job, dispatch)
    BY <1>7, LowerFrames
  <2>2. FrameOK(j, d)'
    BY <1>2, <1>3, <1>5, <1>6, <2>1 DEF FrameOK
  <2>3. q # d.starting
    BY <1>3, <2>1, WebfsAssumption DEF FrameOK, Attached
  <2> QED BY <1>2, <1>4, <2>1, <2>2, <2>3 DEF Differ
<1>8. FrameOK(job, dispatch)'
  <2>1. FrameOK(job, dispatch)
    BY TopFrame
  <2> QED BY <1>2, <1>3, <1>4, <1>5, <1>6, <2>1, WebfsAssumption DEF FrameOK
<1>9. Frames' /\ FramesApart'
  BY <1>2, <1>7, <1>8, FramesSame
<1>10. Listing'
  BY <1>2, <1>3 DEF Listing
<1>11. Pointers'
  BY <1>2, <1>5 DEF Pointers, WebfsTypes
<1>12. Judging'
  <2>1. SUFFICES ASSUME judging PROVE Judging'
    BY <1>2 DEF Judging
  <2>2. PICK v : v = visited
    OBVIOUS
  <2>3. visited' = v
    BY <1>2, <2>2 DEF visited, here
  <2>4. v \in Fetches /\ v # q
    BY <1>3, <2>1, <2>2, VisitedListed
  <2>5. \A k \in Depths' : JobAt(k)' = "start" => DispatchAt(k)'.new # v
    BY <1>2, <1>4, <2>1, <2>2, TopFrame, PendingSame DEF Judging
  <2> QED BY <1>2, <1>5, <2>1, <2>2, <2>3, <2>4, <2>5 DEF Judging
<1> QED BY <1>9, <1>10, <1>11, <1>12 DEF WebfsInv

\* What webfs_start does at its end: the fetch has a state the poll will look at, and
\* is listed or not.
WebfsStarted(f, s) ==
    /\ state' = [state EXCEPT ![f] = s]
    /\ fetch_list' = <<f>> \o fetch_list \/ fetch_list' = fetch_list
    /\ dispatch' = [dispatch EXCEPT !.step = "return"]
    /\ UNCHANGED <<queue_ring, fetch_ring, live, job, calls, held, stage, left, judging>>

\* The list after that: what was in it is where it was, counted from the end.
LEMMA StartedList ==
  ASSUME WebfsTypes, WebfsTypes', NEW f \in Fetches, UNCHANGED left,
         fetch_list' = <<f>> \o fetch_list \/ fetch_list' = fetch_list
  PROVE  /\ \A i \in 1 .. Len(fetch_list') :
               \/ i = 1 /\ fetch_list'[i] = f /\ fetch_list' # fetch_list
               \/ /\ fetch_list' # fetch_list /\ i - 1 \in 1 .. Len(fetch_list)
                  /\ fetch_list'[i] = fetch_list[i - 1]
               \/ fetch_list' = fetch_list /\ i \in 1 .. Len(fetch_list)
         /\ \A g : InList(g)' => InList(g) \/ g = f
         /\ left > 0 => visited' = visited
<1>1. /\ Len(fetch_list) \in Nat /\ DOMAIN fetch_list = 1 .. Len(fetch_list)
      /\ left \in Nat
  BY WebfsPlaces
<1>2. left \in 0 .. Len(fetch_list)
  BY DEF WebfsTypes
<1>3. CASE fetch_list' = fetch_list
  BY <1>1, <1>3 DEF InList, visited, here
<1>4. CASE fetch_list' # fetch_list
  <2>1. /\ Len(fetch_list') = Len(fetch_list) + 1 /\ fetch_list'[1] = f
        /\ \A i \in 2 .. (Len(fetch_list) + 1) : fetch_list'[i] = fetch_list[i - 1]
    BY <1>4, PrependedEntry
  <2>2. DOMAIN fetch_list' = 1 .. Len(fetch_list')
    BY LenProperties DEF WebfsTypes
  <2>3. \A i \in 1 .. Len(fetch_list') :
           i = 1 \/ (i \in 2 .. (Len(fetch_list) + 1) /\ i - 1 \in 1 .. Len(fetch_list))
    BY <1>1, <2>1
  <2>4. \A i \in 1 .. Len(fetch_list') :
           \/ i = 1 /\ fetch_list'[i] = f
           \/ i - 1 \in 1 .. Len(fetch_list) /\ fetch_list'[i] = fetch_list[i - 1]
    BY <2>1, <2>3
  <2>5. \A g : InList(g)' => InList(g) \/ g = f
    BY <1>1, <2>2, <2>4 DEF InList
  <2>6. ASSUME left > 0 PROVE visited' = visited
    <3>1. here' = here + 1 /\ here \in 1 .. Len(fetch_list)
      BY <1>1, <1>2, <2>1, <2>6 DEF here
    <3>2. here + 1 \in 2 .. (Len(fetch_list) + 1) /\ (here + 1) - 1 = here
      BY <1>1, <3>1
    <3> QED BY <2>1, <3>1, <3>2 DEF visited
  <2> QED BY <1>4, <2>4, <2>5, <2>6
<1> QED BY <1>3, <1>4

\* webfs_start has put its fetch on the list, and fetch_start_fetch on the ring.
LEMMA StartedWebfs ==
  ASSUME WebfsAround, NEW f, f = dispatch.starting, dispatch.step \in {"open", "headers"},
         NEW s \in States, s \notin {"finished", "aborted"}, WebfsStarted(f, s)
  PROVE  WebfsInv'
<1> USE WebfsParts
<1>1. f \in Fetches /\ f \in live /\ ~Attached(f) /\ ~InList(f)
  BY StartingFetch
<1>2. /\ state' = [state EXCEPT ![f] = s]
      /\ fetch_list' = <<f>> \o fetch_list \/ fetch_list' = fetch_list
      /\ dispatch' = [dispatch EXCEPT !.step = "return"]
      /\ UNCHANGED <<queue_ring, fetch_ring, live, job, calls, held, stage, left, judging>>
  BY DEF WebfsStarted
<1>3. dispatch'.starting = f /\ dispatch'.step = "return" /\ dispatch'.new = dispatch.new
  BY <1>2 DEF Locals
<1>4. state'[f] = s /\ \A g \in Fetches \ {f} : state'[g] = state[g]
  BY <1>1, <1>2 DEF WebfsTypes
<1>5. /\ \A i \in 1 .. Len(fetch_list') :
               \/ i = 1 /\ fetch_list'[i] = f /\ fetch_list' # fetch_list
               \/ /\ fetch_list' # fetch_list /\ i - 1 \in 1 .. Len(fetch_list)
                  /\ fetch_list'[i] = fetch_list[i - 1]
               \/ fetch_list' = fetch_list /\ i \in 1 .. Len(fetch_list)
      /\ \A g : InList(g)' => InList(g) \/ g = f
      /\ left > 0 => visited' = visited
  BY <1>1, <1>2, StartedList
<1>6. \A g : (Attached(g)' <=> Attached(g)) /\ (Queued(g)' <=> Queued(g))
  BY <1>2 DEF Attached, Queued
<1>7. ASSUME NEW k \in 1 .. Len(calls), NEW j, NEW d, j = JobAt(k) /\ d = DispatchAt(k)
      PROVE  FrameOK(j, d)' /\ Differ(job', dispatch', j, d) /\ Differ(j, d, job', dispatch')
  <2>1. FrameOK(j, d) /\ Differ(job, dispatch, j, d) /\ Differ(j, d, job, dispatch)
    BY <1>7, LowerFrames
  <2>2. d.starting # f
    BY <1>1, <2>1, WebfsAssumption DEF Differ
  <2>3. FrameOK(j, d)'
    BY <1>2, <1>4, <1>5, <1>6, <2>1, <2>2 DEF FrameOK
  <2> QED BY <1>2, <1>3, <2>1, <2>3 DEF Differ
<1>8. FrameOK(job, dispatch)'
  <2>1. FrameOK(job, dispatch)
    BY TopFrame
  <2>2. f # None
    BY <1>1, WebfsAssumption
  <2> QED BY <1>1, <1>2, <1>3, <1>4, <1>6, <2>1, <2>2 DEF FrameOK
<1>9. Frames' /\ FramesApart'
  BY <1>2, <1>7, <1>8, FramesSame
<1>10. Listing'
  <2>1. \A i \in 1 .. Len(fetch_list) : fetch_list[i] # f
    BY <1>1, WebfsPlaces DEF InList
  <2>2. \A i \in 1 .. Len(fetch_list') :
           fetch_list'[i] # None => fetch_list'[i] \in live' /\ ~Queued(fetch_list'[i])
    BY <1>1, <1>2, <1>5 DEF Listing, Attached
  <2>3. \A i, j \in 1 .. Len(fetch_list') :
           fetch_list'[i] # None /\ fetch_list'[i] = fetch_list'[j] => i = j
    <3> SUFFICES ASSUME NEW i \in 1 .. Len(fetch_list'), NEW j \in 1 .. Len(fetch_list'),
                        fetch_list'[i] # None, fetch_list'[i] = fetch_list'[j]
                 PROVE  i = j
      OBVIOUS
    <3>1. CASE fetch_list' = fetch_list
      BY <3>1 DEF Listing
    <3>2. CASE i - 1 \in 1 .. Len(fetch_list) /\ fetch_list'[i] = fetch_list[i - 1]
               /\ j - 1 \in 1 .. Len(fetch_list) /\ fetch_list'[j] = fetch_list[j - 1]
      <4>1. i - 1 = j - 1
        BY <3>2 DEF Listing
      <4>2. Len(fetch_list') \in Nat
        BY LenProperties DEF WebfsTypes
      <4> QED BY <4>1, <4>2
    <3> QED BY <1>5, <2>1, <3>1, <3>2
  <2>4. \A g : Queued(g)' <=> Queued(g)
    BY <1>6
  <2> QED BY <1>2, <2>2, <2>3 DEF Listing, Queued
<1>11. Pointers'
  BY <1>2, <1>4 DEF Pointers, WebfsTypes
<1>12. Judging'
  <2>1. SUFFICES ASSUME judging PROVE Judging'
    BY <1>2 DEF Judging
  <2>2. PICK v : v = visited
    OBVIOUS
  <2>3. left > 0 /\ v \in Fetches /\ InList(v)
    BY <2>1, <2>2, VisitedListed
  <2>4. visited' = v /\ v # f
    BY <1>1, <1>5, <2>2, <2>3
  <2>5. \A k \in Depths' : JobAt(k)' = "start" => DispatchAt(k)'.new # v
    BY <1>2, <1>3, <2>1, <2>2, TopFrame, PendingSame DEF Judging
  <2> QED BY <1>2, <1>4, <2>1, <2>2, <2>3, <2>4, <2>5 DEF Judging
<1> QED BY <1>9, <1>10, <1>11, <1>12 DEF WebfsInv

\* A call of the client that leaves the list and the rings alone: the client may lose
\* its pointer to the fetch, which keeps what it had of a state.
LEMMA PushedRest ==
  ASSUME WebfsAround, UNCHANGED <<queue_ring, fetch_ring, live, fetch_list, state, stage, left, judging>>,
         held' \subseteq held,
         \A k \in Depths' : JobAt(k)' = "start" =>
            \E l \in Depths : JobAt(l) = "start" /\ DispatchAt(k)'.new = DispatchAt(l).new
  PROVE  Listing' /\ Pointers' /\ Judging'
<1>1. Listing' /\ Pointers'
  BY WebfsParts DEF Listing, Pointers, Queued
<1>2. visited' = visited
  BY DEF visited, here
<1>3. Judging'
  BY <1>2, WebfsParts DEF Judging
<1> QED BY <1>1, <1>3

\* fetch_send_callback from webfs_start, with the locals d.
LEMMA StartCallsWebfs ==
  ASSUME WebfsAround, dispatch.step # "-", NEW m \in MsgType, NEW d \in Locals,
         NEW f, f = dispatch.starting,
         calls' = <<[to |-> f, msg |-> m, job |-> job, dispatch |-> d]>> \o calls,
         job' = "none", dispatch' = NotDispatching,
         d.starting = f, d.new = dispatch.new, d.step \in {dispatch.step, "return"},
         held' \subseteq held,
         UNCHANGED <<queue_ring, fetch_ring, live, fetch_list, state, stage, left, judging>>
  PROVE  WebfsInv'
<1> USE WebfsParts
<1>1. f \in Fetches
  BY StartingFetch
<1>2. PICK j : j = job
  OBVIOUS
<1>3. \A g : (Attached(g)' <=> Attached(g)) /\ (InList(g)' <=> InList(g))
  BY DEF Attached, Queued, InList
<1>4. FrameOK(j, d)'
  <2>1. FrameOK(job, dispatch)
    BY TopFrame
  <2>2. f # None
    BY <1>1, WebfsAssumption
  <2> QED BY <1>2, <1>3, <2>1, <2>2 DEF FrameOK
<1>5. ASSUME NEW k \in 1 .. Len(calls), NEW i, NEW c, i = JobAt(k) /\ c = DispatchAt(k)
      PROVE  FrameOK(i, c)'
  <2>1. FrameOK(i, c)
    BY <1>5, LowerFrames
  <2> QED BY <1>3, <2>1 DEF FrameOK
<1>6. /\ Frames' /\ FramesApart'
      /\ \A k \in Depths' : JobAt(k)' = "start" =>
            \E l \in Depths : JobAt(l) = "start" /\ DispatchAt(k)'.new = DispatchAt(l).new
  BY <1>1, <1>2, <1>4, <1>5, FramesPushed
<1>7. Listing' /\ Pointers' /\ Judging'
  BY <1>6, PushedRest
<1> QED BY <1>6, <1>7 DEF WebfsInv

\* webfs_start cannot open the clone file, and says so at once.
LEMMA StartWithoutCloneWebfs ==
  ASSUME WebfsAround, StartWithoutClone
  PROVE  WebfsInv'
<1> DEFINE e == [dispatch EXCEPT !.step = "return"]
<1>1. PICK f, d : f = dispatch.starting /\ d = e
  OBVIOUS
<1>2. dispatch \in Locals /\ dispatch.step = "open"
  BY WebfsParts DEF StartWithoutClone, Starting
<1>3. d \in Locals /\ d.starting = f /\ d.new = dispatch.new /\ d.step = "return"
  BY <1>1, <1>2 DEF Locals
<1>4. calls' = <<[to |-> f, msg |-> "ERROR", job |-> job, dispatch |-> d]>> \o calls
  BY <1>1 DEF StartWithoutClone
<1>5. /\ job' = "none" /\ dispatch' = NotDispatching /\ held' \subseteq held
      /\ UNCHANGED <<queue_ring, fetch_ring, live, fetch_list, state, stage, left, judging>>
  BY DEF StartWithoutClone, rings, place
<1>6. "ERROR" \in MsgType
  BY DEF MsgType
<1> HIDE DEF e
<1> QED BY <1>1, <1>2, <1>3, <1>4, <1>5, <1>6, StartCallsWebfs

\* webfs_start calls the client for a header.
LEMMA SendHeaderWebfs ==
  ASSUME WebfsAround, SendHeader
  PROVE  WebfsInv'
<1>1. PICK f, d : f = dispatch.starting /\ d = dispatch
  OBVIOUS
<1>2. dispatch \in Locals /\ dispatch.step = "headers"
  BY WebfsParts DEF SendHeader, Starting
<1>3. d \in Locals /\ d.starting = f /\ d.new = dispatch.new /\ d.step = dispatch.step
  BY <1>1, <1>2
<1>4. calls' = <<[to |-> f, msg |-> "HEADER", job |-> job, dispatch |-> d]>> \o calls
  BY <1>1 DEF SendHeader, Call
<1>5. /\ job' = "none" /\ dispatch' = NotDispatching /\ held' \subseteq held
      /\ UNCHANGED <<queue_ring, fetch_ring, live, fetch_list, state, stage, left, judging>>
  BY DEF SendHeader, Call, rings, place
<1>6. "HEADER" \in MsgType
  BY DEF MsgType
<1> QED BY <1>1, <1>2, <1>3, <1>4, <1>5, <1>6, StartCallsWebfs

\* A step that only changes the locals of the fetch_dispatch_jobs that runs.
LEMMA LocalsWebfs ==
  ASSUME WebfsAround, Unmoved, calls' = calls, FrameOK(job, dispatch)',
         job' = "start" => job = "start" /\ dispatch'.new = dispatch.new,
         dispatch'.starting \in {None, dispatch.starting}
  PROVE  WebfsInv'
<1> USE WebfsParts
<1>1. ASSUME NEW k \in 1 .. Len(calls), NEW j, NEW d, j = JobAt(k) /\ d = DispatchAt(k)
      PROVE  FrameOK(j, d)' /\ Differ(job', dispatch', j, d) /\ Differ(j, d, job', dispatch')
  <2>1. FrameOK(j, d) /\ Differ(job, dispatch, j, d) /\ Differ(j, d, job, dispatch)
    BY <1>1, LowerFrames
  <2>2. FrameOK(j, d)'
    BY <2>1, FrameUnmoved
  <2> QED BY <2>1, <2>2 DEF Differ
<1>2. Frames' /\ FramesApart'
  BY <1>1, FramesSame
<1>3. \A k \in Depths' : JobAt(k)' = "start" =>
         \E l \in Depths : JobAt(l) = "start" /\ DispatchAt(k)'.new = DispatchAt(l).new
  BY TopFrame, PendingSame
<1>4. Listing' /\ Pointers' /\ Judging'
  BY <1>3, RestUnmoved
<1> QED BY <1>2, <1>4 DEF WebfsInv

\* webfs_start has opened the body.
LEMMA StartWithBodyWebfs ==
  ASSUME WebfsAround, StartWithBody
  PROVE  WebfsInv'
<1>1. /\ dispatch.step = "open" /\ dispatch' = [dispatch EXCEPT !.step = "headers"]
      /\ UNCHANGED <<job, calls>> /\ Unmoved
  BY DEF StartWithBody, Starting, Unmoved, vars, place
<1>2. dispatch'.step = "headers" /\ dispatch'.starting = dispatch.starting
      /\ dispatch'.new = dispatch.new
  BY <1>1, WebfsParts DEF Locals
<1>3. FrameOK(job, dispatch)'
  <2>1. FrameOK(job, dispatch)
    BY WebfsParts, TopFrame
  <2> QED BY <1>1, <1>2, <2>1 DEF FrameOK, Unmoved, Attached, Queued, InList
<1> QED BY <1>1, <1>2, <1>3, LocalsWebfs

\* fetcher_poll begins.
LEMMA PollBeginsWebfs ==
  ASSUME WebfsAround, PollBegins
  PROVE  WebfsInv'
<1>1. /\ job' = "poll" /\ dispatch' = Counted(0, None) /\ calls' = calls /\ Unmoved
  BY DEF PollBegins, FetcherPoll, Unmoved, place
<1>2. dispatch'.step = "-" /\ dispatch'.starting = None
  BY <1>1, LocalsType, WebfsParts DEF Entries
<1>3. FrameOK(job, dispatch)'
  BY <1>1, <1>2 DEF FrameOK
<1> QED BY <1>1, <1>2, <1>3, LocalsWebfs

\* The fetch is put on fetch_ring.
LEMMA StartReturnsWebfs ==
  ASSUME WebfsAround, StartReturns
  PROVE  WebfsInv'
<1> USE WebfsParts
<1>1. PICK f : f = dispatch.starting
  OBVIOUS
<1>2. /\ fetch_ring' = fetch_ring \union {f} /\ dispatch.step = "return"
      /\ Counts
      /\ UNCHANGED <<queue_ring, live, job, fetch_list, state, calls, held, stage, left, judging>>
  BY <1>1 DEF StartReturns, Starting, stack, place
<1>3. f \in Fetches
  BY <1>1, <1>2, StartingFetch
<1>4. dispatch'.starting = None /\ dispatch'.step = "-" /\ dispatch'.new = dispatch.new
  BY <1>2 DEF Counts, Locals
<1>5. /\ \A g : Attached(g)' <=> g = f \/ Attached(g)
      /\ \A g : (Queued(g)' <=> Queued(g)) /\ (InList(g)' <=> InList(g))
  BY <1>2 DEF Attached, Queued, InList
<1>6. ASSUME NEW k \in 1 .. Len(calls), NEW j, NEW d, j = JobAt(k) /\ d = DispatchAt(k)
      PROVE  FrameOK(j, d)' /\ Differ(job', dispatch', j, d) /\ Differ(j, d, job', dispatch')
  <2>1. FrameOK(j, d) /\ Differ(job, dispatch, j, d) /\ Differ(j, d, job, dispatch)
    BY <1>6, LowerFrames
  <2>2. d.starting # f
    BY <1>1, <1>3, <2>1, WebfsAssumption DEF Differ
  <2>3. FrameOK(j, d)'
    BY <1>2, <1>5, <2>1, <2>2 DEF FrameOK
  <2> QED BY <1>2, <1>4, <2>1, <2>3 DEF Differ
<1>7. FrameOK(job, dispatch)'
  <2>1. FrameOK(job, dispatch)
    BY TopFrame
  <2> QED BY <1>2, <1>4, <2>1 DEF FrameOK
<1>8. Frames' /\ FramesApart'
  BY <1>2, <1>6, <1>7, FramesSame
<1>9. Listing' /\ Pointers'
  BY <1>2 DEF Listing, Pointers, Queued
<1>10. Judging'
  <2>1. visited' = visited
    BY <1>2 DEF visited, here
  <2>2. judging => \A k \in Depths' : JobAt(k)' = "start" => DispatchAt(k)'.new # visited
    BY <1>2, <1>4, TopFrame, PendingSame DEF Judging
  <2> QED BY <1>2, <2>1, <2>2 DEF Judging
<1> QED BY <1>8, <1>9, <1>10 DEF WebfsInv

\* fetch_dispatch_jobs ends, and fetch_start hands out its fetch.
LEMMA JobsDispatchedWebfs ==
  ASSUME WebfsAround, JobsDispatched
  PROVE  WebfsInv'
<1> USE WebfsParts
<1>1. /\ job # "none" /\ job' = "none" /\ dispatch' = NotDispatching
      /\ held' = IF job = "start" THEN held \union {dispatch.new} ELSE held
      /\ UNCHANGED <<queue_ring, fetch_ring, live, fetch_list, state, calls, stage, left, judging>>
  BY DEF JobsDispatched, Between, CallerGoesOn, rings, place
<1>2. dispatch'.starting = None /\ dispatch'.step = "-"
  BY <1>1, LocalsType
<1>3. job = "start" => dispatch.new \in live /\ state[dispatch.new] \notin {"finished", "aborted"}
  BY TopFrame DEF FrameOK
<1>4. \A g : (Attached(g)' <=> Attached(g)) /\ (Queued(g)' <=> Queued(g)) /\ (InList(g)' <=> InList(g))
  BY <1>1 DEF Attached, Queued, InList
<1>5. ASSUME NEW k \in 1 .. Len(calls), NEW j, NEW d, j = JobAt(k) /\ d = DispatchAt(k)
      PROVE  FrameOK(j, d)' /\ Differ(job', dispatch', j, d) /\ Differ(j, d, job', dispatch')
  <2>1. FrameOK(j, d) /\ Differ(job, dispatch, j, d) /\ Differ(j, d, job, dispatch)
    BY <1>5, LowerFrames
  <2>2. FrameOK(j, d)'
    BY <1>1, <1>4, <2>1 DEF FrameOK, Differ
  <2> QED BY <1>1, <1>2, <2>1, <2>2 DEF Differ
<1>6. FrameOK(job, dispatch)'
  BY <1>1, <1>2 DEF FrameOK
<1>7. Frames' /\ FramesApart'
  BY <1>1, <1>5, <1>6, FramesSame
<1>8. Listing' /\ Pointers'
  BY <1>1, <1>3 DEF Listing, Pointers, Queued
<1>9. Judging'
  <2>1. visited' = visited
    BY <1>1 DEF visited, here
  <2>2. judging => \A k \in Depths' : JobAt(k)' = "start" => DispatchAt(k)'.new # visited
    BY <1>1, PendingSame DEF Judging
  <2>3. judging /\ job = "start" => dispatch.new # visited
    BY TopFrame DEF Judging
  <2> QED BY <1>1, <2>1, <2>2, <2>3 DEF Judging
<1> QED BY <1>7, <1>8, <1>9 DEF WebfsInv

-----------------------------------------------------------------------------
\* While webfs_poll runs and no callback does, nothing is being dispatched.
LEMMA PollAlone ==
  ASSUME WebfsAround, job = "none", calls = <<>>
  PROVE  dispatch.starting = None /\ dispatch.step = "-" /\ Len(calls) = 0 /\ Depths = {0}
<1>1. FrameOK(job, dispatch)
  BY WebfsParts, TopFrame
<1>2. Len(calls) = 0
  BY EmptySeq, LenProperties
<1>3. Depths = {0}
  BY <1>2 DEF Depths
<1> QED BY <1>1, <1>2, <1>3 DEF FrameOK

\* Nothing is known of a frame when no dispatch is running.
LEMMA FramesAlone ==
  ASSUME WebfsAround, job = "none", calls = <<>>, UNCHANGED <<job, dispatch, calls>>
  PROVE  Frames' /\ FramesApart' /\ \A k \in Depths' : JobAt(k)' = "none"
<1>1. dispatch.starting = None /\ dispatch.step = "-" /\ Len(calls) = 0
  BY PollAlone
<1>2. FrameOK(job, dispatch)'
  BY <1>1 DEF FrameOK
<1>3. \A k \in 1 .. Len(calls) : FALSE
  BY <1>1
<1>4. Frames' /\ FramesApart'
  BY <1>2, <1>3, WebfsParts, FramesSame
<1>5. Depths' = {0}
  BY <1>1 DEF Depths
<1> QED BY <1>4, <1>5 DEF JobAt

\* webfs_poll is called for a scheme.
LEMMA WebfsPollsWebfs ==
  ASSUME WebfsAround, WebfsPolls
  PROVE  WebfsInv'
<1> USE WebfsParts
<1>1. /\ job = "none" /\ calls = <<>> /\ stage \in {"idle", "http done"}
      /\ UNCHANGED <<queue_ring, fetch_ring, live, job, fetch_list, state, dispatch, calls,
                     judging, held>>
  BY DEF WebfsPolls, InPoll, vars
<1>2. Frames' /\ FramesApart'
  BY <1>1, FramesAlone
<1>3. ~judging'
  BY <1>1 DEF Judging
<1>4. Listing' /\ Pointers'
  BY <1>1 DEF Listing, Pointers, Queued
<1> QED BY <1>2, <1>3, <1>4 DEF WebfsInv, Judging

\* The switch on the state of an entry.
LEMMA VisitEntryWebfs ==
  ASSUME WebfsAround, VisitEntry
  PROVE  WebfsInv'
<1> USE WebfsParts
<1>1. /\ job = "none" /\ calls = <<>> /\ stage \in {"http", "https"} /\ left > 0
      /\ visited # None /\ judging' = TRUE /\ UNCHANGED <<fetch_list, stage, left>>
  BY DEF VisitEntry, Visiting, InPoll
<1>2. PICK v : v = visited
  OBVIOUS
<1>3. v \in Fetches /\ v # None
  BY <1>1, <1>2, VisitedEntry DEF Entries
<1>4. visited' = v
  BY <1>1, <1>2 DEF visited, here
<1>5. ASSUME \A k \in Depths' : JobAt(k)' # "start", Frames', FramesApart',
             UNCHANGED <<queue_ring, live>>, held' \subseteq held,
             \A g \in Fetches \ {v} : state'[g] = state[g],
             v \in held' => state'[v] \notin {"finished", "aborted", "error"}
      PROVE  WebfsInv'
  <2>1. Listing'
    BY <1>1, <1>5 DEF Listing, Queued
  <2>2. Pointers'
    BY <1>5 DEF Pointers, WebfsTypes
  <2>3. Judging'
    BY <1>1, <1>3, <1>4, <1>5 DEF Judging
  <2> QED BY <1>5, <2>1, <2>2, <2>3 DEF WebfsInv
<1>6. CASE NoCall /\ state[v] \notin {"started", "redirect", "notmodified", "error"}
           /\ UNCHANGED state
  <2>1. UNCHANGED <<queue_ring, live, job, dispatch, calls, held>>
    BY <1>6 DEF NoCall, vars
  <2>2. v \in held => state[v] \notin {"finished", "aborted", "error"}
    BY <1>6 DEF Pointers
  <2>3. /\ Frames' /\ FramesApart' /\ \A k \in Depths' : JobAt(k)' = "none"
    BY <1>1, <2>1, FramesAlone
  <2>4. \A k \in Depths' : JobAt(k)' # "start"
    BY <2>3
  <2> QED BY <1>5, <1>6, <2>1, <2>2, <2>3, <2>4
<1>7. ASSUME NEW m \in MsgType, Call(v, m),
             \A g \in Fetches \ {v} : state'[g] = state[g],
             v \in held' => state'[v] \notin {"finished", "aborted", "error"}
      PROVE  WebfsInv'
  <2>1. /\ calls' = <<[to |-> v, msg |-> m, job |-> job, dispatch |-> dispatch]>> \o calls
        /\ job' = "none" /\ dispatch' = NotDispatching /\ held' \subseteq held
        /\ UNCHANGED <<queue_ring, fetch_ring, live>>
    BY <1>7 DEF Call, rings
  <2>2. PICK d, j : d = dispatch /\ j = job
    OBVIOUS
  <2>3. d.starting = None /\ d.step = "-" /\ Len(calls) = 0 /\ d \in Locals /\ Depths = {0}
    BY <1>1, <2>2, PollAlone
  <2>4. FrameOK(j, d)'
    BY <1>1, <2>2, <2>3 DEF FrameOK
  <2>5. \A k \in 1 .. Len(calls) : FALSE
    BY <2>3
  <2>6. calls' = <<[to |-> v, msg |-> m, job |-> job, dispatch |-> d]>> \o calls
        /\ d.starting = dispatch.starting /\ d.new = dispatch.new
    BY <2>1, <2>2
  <2>7. /\ Frames' /\ FramesApart'
        /\ \A k \in Depths' : JobAt(k)' = "start" =>
               \E l \in Depths : JobAt(l) = "start" /\ DispatchAt(k)'.new = DispatchAt(l).new
    BY <1>3, <2>1, <2>2, <2>3, <2>4, <2>5, <2>6, FramesPushed
  <2>8. \A k \in Depths' : JobAt(k)' # "start"
    BY <1>1, <2>3, <2>7 DEF JobAt
  <2> QED BY <1>5, <1>7, <2>1, <2>7, <2>8
<1>8. CASE state[v] = "started" /\ Call(v, "DATA") /\ UNCHANGED state
  <2>1. "DATA" \in MsgType
    BY DEF MsgType
  <2> QED BY <1>7, <1>8, <2>1
<1>9. CASE Call(v, "FINISHED") /\ state' = [state EXCEPT ![v] = "finished"]
  <2>1. "FINISHED" \in MsgType
    BY DEF MsgType
  <2>2. v \notin held'
    BY <1>9 DEF Call
  <2>3. \A g \in Fetches \ {v} : state'[g] = state[g]
    BY <1>9 DEF WebfsTypes
  <2> QED BY <1>7, <1>9, <2>1, <2>2, <2>3
<1>10. CASE state[v] \in {"redirect", "notmodified", "error"} /\ Call(v, Say[state[v]])
            /\ UNCHANGED state
  <2> DEFINE m == Say[state[v]]
  <2>1. m \in MsgType /\ (state[v] = "error" => m = "ERROR")
    BY <1>10 DEF Say, MsgType
  <2>2. Call(v, m)
    BY <1>10
  <2> HIDE DEF m
  <2>3. v \in held' => state'[v] \notin {"finished", "aborted", "error"}
    BY <1>10, <2>1, <2>2 DEF Call
  <2> QED BY <1>7, <1>10, <2>1, <2>2, <2>3
<1>11. DOMAIN Say = {"redirect", "notmodified", "error"}
  BY DEF Say
<1> QED BY <1>2, <1>6, <1>8, <1>9, <1>10, <1>11 DEF VisitEntry, ReadBody

\* The switch on its new state: what is freed has ended, so that the client has no
\* pointer to it, and nothing else of the factory or the list names it.
LEMMA JudgeEntryWebfs ==
  ASSUME WebfsAround, JudgeEntry
  PROVE  WebfsInv'
<1> USE WebfsParts
<1>1. /\ job = "none" /\ calls = <<>> /\ left > 0 /\ judging /\ ~judging'
      /\ UNCHANGED <<state, dispatch, calls, job, stage, held>>
  BY DEF JudgeEntry, Visiting, InPoll, stack
<1>2. Frames' /\ FramesApart'
  BY <1>1, FramesAlone
<1>3. CASE UNCHANGED <<live, fetch_list, queue_ring>>
  <2>1. Listing' /\ Pointers'
    BY <1>1, <1>3 DEF Listing, Pointers, Queued
  <2> QED BY <1>1, <1>2, <2>1 DEF WebfsInv, Judging
<1>4. CASE Over(visited) /\ RemoveFromQueues(visited) /\ live' = live \ {visited}
           /\ fetch_list' = [fetch_list EXCEPT ![here] = None]
  <2>1. PICK v, h : v = visited /\ h = here
    OBVIOUS
  <2>2. /\ v \in Fetches /\ state[v] \in {"finished", "aborted", "error"}
        /\ RemoveFromQueues(v) /\ live' = live \ {v}
        /\ fetch_list' = [fetch_list EXCEPT ![h] = None]
        /\ h \in 1 .. Len(fetch_list) /\ fetch_list[h] = v
    BY <1>1, <1>4, <2>1, VisitedListed, VisitedEntry DEF Over
  <2>3. v \notin held
    BY <1>1, <2>1, <2>2 DEF Pointers, Judging
  <2>4. /\ Len(fetch_list') = Len(fetch_list)
        /\ \A i \in 1 .. Len(fetch_list) :
              fetch_list'[i] = IF i = h THEN None ELSE fetch_list[i]
    <3>1. fetch_list \in Seq(Entries) /\ None \in Entries
      BY DEF WebfsTypes, Entries
    <3> QED BY <2>2, <3>1, ExceptSeq
  <2>5. \A g : Queued(g)' => Queued(g)
    <3>1. queue_ring' \in Seq(Fetches) /\ queue_ring \in Seq(Fetches)
      BY DEF TypeOK
    <3>2. \A j \in 1 .. Len(queue_ring') :
             \E k \in 1 .. Len(queue_ring) : queue_ring'[j] = queue_ring[k]
      BY <2>2, RemoveKeepsRings
    <3> QED BY <3>1, <3>2, LenProperties DEF Queued
  <2>6. \A i \in 1 .. Len(fetch_list) : fetch_list[i] = v => i = h
    BY <2>2, WebfsAssumption DEF Listing
  <2>7. Listing'
    BY <2>2, <2>4, <2>5, <2>6 DEF Listing
  <2>8. Pointers'
    BY <1>1, <2>2, <2>3 DEF Pointers
  <2> QED BY <1>1, <1>2, <2>7, <2>8 DEF WebfsInv, Judging
<1> QED BY <1>3, <1>4 DEF JudgeEntry, rings

\* The entries that are done are unlinked.
LEMMA PollReturnsWebfs ==
  ASSUME WebfsAround, PollReturns
  PROVE  WebfsInv'
<1> USE WebfsParts
<1>1. /\ job = "none" /\ calls = <<>> /\ left = 0 /\ fetch_list' = NotDone
      /\ UNCHANGED <<state, dispatch, calls, job, held, judging, queue_ring, live>>
  BY DEF PollReturns, InPoll, PollersDone, vars
<1>2. Frames' /\ FramesApart'
  BY <1>1, FramesAlone
<1>3. PICK g \in [1 .. Len(NotDone) -> 1 .. Len(fetch_list)] :
         /\ \A j \in 1 .. Len(NotDone) : NotDone[j] = fetch_list[g[j]] /\ fetch_list[g[j]] # None
         /\ \A j, k \in 1 .. Len(NotDone) : g[j] = g[k] => j = k
  BY NotDoneProperties
<1>4. PICK r : r = NotDone
  OBVIOUS
<1>5. /\ \A j \in 1 .. Len(r) : /\ r[j] = fetch_list[g[j]] /\ fetch_list[g[j]] # None
                                /\ g[j] \in 1 .. Len(fetch_list)
      /\ \A j, k \in 1 .. Len(r) : g[j] = g[k] => j = k
  BY <1>3, <1>4
<1>6. fetch_list' = r
  BY <1>1, <1>4
<1>7. Listing'
  <2>1. \A j \in 1 .. Len(r) : r[j] \in live /\ ~Queued(r[j])
    BY <1>5 DEF Listing
  <2>2. ASSUME NEW j \in 1 .. Len(r), NEW k \in 1 .. Len(r), r[j] = r[k] PROVE j = k
    <3>1. /\ g[j] \in 1 .. Len(fetch_list) /\ g[k] \in 1 .. Len(fetch_list)
          /\ fetch_list[g[j]] # None /\ fetch_list[g[j]] = fetch_list[g[k]]
      BY <1>5, <2>2
    <3>2. g[j] = g[k]
      BY <3>1 DEF Listing
    <3> QED BY <1>5, <3>2
  <2> QED BY <1>1, <1>6, <2>1, <2>2 DEF Listing, Queued
<1>8. Pointers' /\ ~judging'
  BY <1>1 DEF Pointers, Judging
<1> QED BY <1>2, <1>7, <1>8 DEF WebfsInv, Judging

\* Every step keeps the invariant.
LEMMA WebfsStep ==
  ASSUME WebfsAround, [WebfsNext]_allVars
  PROVE  WebfsInv'
<1>1. ASSUME NEW outcome \in Outcomes, StartWithout(outcome) PROVE WebfsInv'
  <2> DEFINE s == IF outcome \in {"redirect", "notmodified"} THEN outcome ELSE "error"
  <2>1. s \in States /\ s \notin {"finished", "aborted"}
    BY DEF States
  <2>2. PICK f : f = dispatch.starting
    OBVIOUS
  <2>3. dispatch.step = "open" /\ WebfsStarted(f, s)
    BY <1>1, <2>2 DEF StartWithout, Starting, WebfsStarted, vars, place
  <2> HIDE DEF s
  <2> QED BY <2>1, <2>2, <2>3, StartedWebfs
<1>2. CASE HeadersSent
  <2>1. PICK f : f = dispatch.starting
    OBVIOUS
  <2>2. dispatch.step = "headers" /\ WebfsStarted(f, "started")
    BY <1>2, <2>1 DEF HeadersSent, Starting, WebfsStarted, vars, place
  <2>3. "started" \in States
    BY DEF States
  <2> QED BY <2>1, <2>2, <2>3, StartedWebfs
<1>3. CASE UNCHANGED allVars
  <2>1. Unmoved /\ UNCHANGED <<job, dispatch, calls>>
    BY <1>3 DEF allVars, vars, webfsVars, Unmoved
  <2>2. FrameOK(job, dispatch)'
    <3>1. FrameOK(job, dispatch)
      BY WebfsParts, TopFrame
    <3> QED BY <2>1, <3>1 DEF FrameOK, Unmoved, Attached, Queued, InList
  <2> QED BY <2>1, <2>2, LocalsWebfs
<1> QED BY <1>1, <1>2, <1>3, CallReturnsKeeps, ClientStartsWebfs, ClientAbortsWebfs,
           StartBeginsWebfs, StartWithoutCloneWebfs, StartWithBodyWebfs, SendHeaderWebfs,
           StartReturnsWebfs, JobsDispatchedWebfs, PollBeginsWebfs, WebfsPollsWebfs,
           VisitEntryWebfs, JudgeEntryWebfs, PollReturnsWebfs DEF WebfsNext, System

\* The inductive invariant.
WebfsIInv == TypeOK /\ RingsAgree /\ WebfsInv

\* The factory and webfs start in the invariant.
LEMMA WebfsInitial == WebfsInit => WebfsIInv
<1> SUFFICES ASSUME WebfsInit PROVE WebfsIInv
  OBVIOUS
<1>1. TypeOK /\ RingsAgree
  BY TypeInit DEF WebfsInit, Init, RingsAgree
<1>2. calls = <<>> /\ calls \in Seq(Frame) /\ Len(calls) = 0
      /\ fetch_list = <<>> /\ fetch_list \in Seq(Entries) /\ Len(fetch_list) = 0
      /\ job = "none" /\ dispatch = NotDispatching /\ fetch_ring = {}
  BY EmptySeq DEF WebfsInit, Init
<1>3. WebfsTypes
  <2>1. IsFiniteSet(fetch_ring)
    BY <1>2, FS_EmptySet
  <2>2. dispatch \in Locals
    BY <1>2, LocalsType
  <2>3. left \in 0 .. Len(fetch_list)
    BY <1>2 DEF WebfsInit
  <2> QED BY <1>2, <2>1, <2>2, <2>3 DEF WebfsInit, WebfsTypes, States
<1>4. Depths = {0} /\ JobAt(0) = "none" /\ DispatchAt(0) = NotDispatching
  BY <1>2 DEF Depths, JobAt, DispatchAt
<1>5. FrameOK("none", NotDispatching)
  BY LocalsType DEF FrameOK, NotDispatching
<1>6. Frames /\ FramesApart
  BY <1>4, <1>5 DEF Frames, FramesApart
<1>7. Listing /\ Pointers /\ Judging
  BY <1>2 DEF WebfsInit, Listing, Pointers, Judging
<1> QED BY <1>1, <1>3, <1>6, <1>7 DEF WebfsIInv, WebfsInv

\* Every reachable state of webfs over the factory satisfies it, for any client.
THEOREM WebfsInvariance == WebfsSpec => []WebfsIInv
<1>1. WebfsIInv /\ [WebfsNext]_allVars => WebfsIInv'
  <2> SUFFICES ASSUME WebfsIInv, [WebfsNext]_allVars PROVE WebfsIInv'
    OBVIOUS
  <2>1. TypeOK' /\ WebfsTypes'
    BY WebfsTypeStep DEF WebfsIInv, WebfsInv
  <2>2. WebfsAround
    BY <2>1 DEF WebfsAround, WebfsIInv
  <2> QED BY <2>1, <2>2, WebfsRingsStep, WebfsStep DEF WebfsIInv
<1> QED BY <1>1, WebfsInitial, PTL DEF WebfsSpec

\* The client never has a pointer to a fetch that has been freed.
THEOREM HeldAreLive == WebfsSpec => []HeldIsLive
<1>1. WebfsIInv => HeldIsLive
  BY DEF WebfsIInv, WebfsInv, Pointers, HeldIsLive
<1> QED BY <1>1, WebfsInvariance, PTL

-----------------------------------------------------------------------------
\* A fetch_start that has not handed out its fetch f yet.
Pending(f) == \E k \in Depths : JobAt(k) = "start" /\ DispatchAt(k).new = f

\* A fetch whose end the client is still to be told.
Owed(f) == /\ f \notin aborted /\ last_msg[f] < FETCH_MIN_FINISHED_MSG
           /\ f \in held \/ Pending(f)

\* The fetches the client is going to be told the end of: those that are queued, those
\* that webfs_start is at work on, and those the poll has an entry of; of the entry in
\* hand only when its body goes on.
Opens(d, f) == d.step \in {"open", "headers"} /\ d.starting = f
Opening(f) == \E k \in Depths : Opens(DispatchAt(k), f)
Untold == {"started", "redirect", "notmodified", "error"}
Awaits(f) == InList(f) /\ state[f] \in Untold /\ ~(judging /\ f = visited)
Goes(f) == judging /\ f = visited /\ state[f] = "started"
Needs(f) == Queued(f) \/ Opening(f) \/ Awaits(f) \/ Goes(f)

Owing == \A f \in Fetches : Needs(f) => Owed(f)

\* Nothing is called from below a header's callback, and no other call is made from
\* inside webfs_start before the fetch is listed.
HeaderLast ==
    /\ \A k \in 1 .. Len(calls) : calls[k].msg = "HEADER" => k = 1 /\ job = "none"
    /\ \A k \in 1 .. Len(calls) :
          DispatchAt(k).step \in {"open", "headers"} => calls[k].msg = "HEADER"

\* A redirected or unmodified entry in hand is still told so, and the client is to
\* abort it before it returns.
Redirected ==
    judging /\ state[visited] \in {"redirect", "notmodified"} =>
        /\ Len(calls) > 0 /\ calls[Len(calls)].to = visited
        /\ calls[Len(calls)].msg \in {"REDIRECT", "NOTMODIFIED"}
        /\ visited \in held

Completing == Owing /\ HeaderLast /\ Redirected

\* What holds around a step of it.
CompletingAround == WebfsAround /\ Completing /\ ~AbortsQueued /\ "HEADER" \notin AbortsIn

\* How the invariant carries over a step.
LEMMA OwingStep ==
  ASSUME Owing,
         \A g \in Fetches : Needs(g)' => Needs(g) \/ Owed(g)',
         \A g \in Fetches : Needs(g)' /\ Owed(g) => Owed(g)'
  PROVE  Owing'
BY DEF Owing

\* What is pending and what is being opened after a step that leaves calls alone.
LEMMA PendingKept ==
  ASSUME WebfsTypes, calls' = calls, NEW g,
         job = "start" => job' = "start" /\ dispatch'.new = dispatch.new,
         Pending(g)
  PROVE  Pending(g)'
<1>1. PICK k \in Depths : JobAt(k) = "start" /\ DispatchAt(k).new = g
  BY DEF Pending
<1>2. k \in Depths' /\ (k = 0 \/ k \in 1 .. Len(calls))
  BY WebfsPlaces DEF Depths
<1>3. JobAt(k)' = "start" /\ DispatchAt(k)'.new = g
  BY <1>1, <1>2, SameStack DEF JobAt, DispatchAt
<1> QED BY <1>2, <1>3 DEF Pending

\* What is being opened, when only the top of the stack changed.
LEMMA OpeningSame ==
  ASSUME WebfsTypes, calls' = calls, NEW g, Opening(g)'
  PROVE  Opens(dispatch', g) \/ Opening(g)
<1>1. PICK k \in Depths' : Opens(DispatchAt(k)', g)
  BY DEF Opening, Opens
<1>2. k \in Depths /\ (k = 0 \/ k \in 1 .. Len(calls))
  BY WebfsPlaces DEF Depths
<1>3. CASE k = 0
  BY <1>1, <1>3, SameStack
<1>4. CASE k \in 1 .. Len(calls)
  BY <1>1, <1>2, <1>4, SameStack DEF Opening
<1> QED BY <1>2, <1>3, <1>4

\* The same across a call of the client, and what the stack of calls is then.
LEMMA PendingPushed ==
  ASSUME WebfsTypes, job \in Jobs, NEW f \in Fetches, NEW m \in MsgType, NEW d \in Locals,
         calls' = <<[to |-> f, msg |-> m, job |-> job, dispatch |-> d]>> \o calls,
         job' = "none", dispatch' = NotDispatching, d.new = dispatch.new
  PROVE  /\ \A g : Pending(g) => Pending(g)'
         /\ \A g : Opening(g)' => Opens(d, g) \/ \E k \in 1 .. Len(calls) : Opens(DispatchAt(k), g)
         /\ \A k \in 1 .. Len(calls') :
               \/ k = 1 /\ calls'[k].msg = m /\ calls'[k].to = f /\ DispatchAt(k)' = d
               \/ /\ k - 1 \in 1 .. Len(calls) /\ calls'[k] = calls[k - 1]
                  /\ DispatchAt(k)' = DispatchAt(k - 1)
         /\ Len(calls') = Len(calls) + 1
         /\ Len(calls) > 0 => calls'[Len(calls')] = calls[Len(calls)]
<1>1. /\ Len(calls') = Len(calls) + 1 /\ calls'[1].to = f /\ calls'[1].msg = m
      /\ JobAt(0)' = "none" /\ DispatchAt(0)' = NotDispatching
      /\ JobAt(1)' = job /\ DispatchAt(1)' = d
      /\ \A k \in 1 .. Len(calls) : /\ calls'[k + 1] = calls[k]
                                    /\ JobAt(k + 1)' = JobAt(k)
                                    /\ DispatchAt(k + 1)' = DispatchAt(k)
  BY CallStack
<1>2. Len(calls) \in Nat /\ (\A k \in Depths : k = 0 \/ k \in 1 .. Len(calls))
      /\ JobAt(0) = job /\ DispatchAt(0) = dispatch
  BY WebfsPlaces DEF JobAt, DispatchAt
<1>3. ASSUME NEW g, Pending(g) PROVE Pending(g)'
  <2>1. PICK k \in Depths : JobAt(k) = "start" /\ DispatchAt(k).new = g
    BY <1>3 DEF Pending
  <2>2. k + 1 \in Depths' /\ JobAt(k + 1)' = "start" /\ DispatchAt(k + 1)'.new = g
    <3>1. k + 1 \in Depths'
      BY <1>1, <1>2, <2>1 DEF Depths
    <3>2. CASE k = 0
      <4>1. JobAt(1)' = "start" /\ DispatchAt(1)'.new = g
        BY <1>1, <1>2, <2>1, <3>2
      <4> QED BY <3>1, <3>2, <4>1
    <3>3. CASE k \in 1 .. Len(calls)
      <4>1. JobAt(k + 1)' = JobAt(k) /\ DispatchAt(k + 1)' = DispatchAt(k)
        BY <1>1, <3>3
      <4> QED BY <2>1, <3>1, <4>1
    <3> QED BY <1>2, <2>1, <3>2, <3>3
  <2> QED BY <2>2 DEF Pending
<1>4. \A k \in 1 .. Len(calls') : k = 1 \/ (k - 1 \in 1 .. Len(calls) /\ (k - 1) + 1 = k)
  BY <1>1, <1>2
<1>5. \A k \in 1 .. Len(calls') :
               \/ k = 1 /\ calls'[k].msg = m /\ calls'[k].to = f /\ DispatchAt(k)' = d
               \/ /\ k - 1 \in 1 .. Len(calls) /\ calls'[k] = calls[k - 1]
                  /\ DispatchAt(k)' = DispatchAt(k - 1)
  BY <1>1, <1>4
<1>6. ASSUME NEW g, Opening(g)'
      PROVE  Opens(d, g) \/ \E k \in 1 .. Len(calls) : Opens(DispatchAt(k), g)
  <2>1. PICK k \in Depths' : Opens(DispatchAt(k)', g)
    BY <1>6 DEF Opening, Opens
  <2>2. k = 0 \/ k \in 1 .. Len(calls')
    BY <1>1, <1>2, <2>1 DEF Depths
  <2>3. k # 0
    BY <1>1, <2>1, LocalsType DEF Opens
  <2> QED BY <1>5, <2>1, <2>2, <2>3
<1>7. Len(calls) > 0 => calls'[Len(calls')] = calls[Len(calls)]
  <2>1. Len(calls) > 0 => Len(calls) \in 1 .. Len(calls)
    BY <1>2
  <2> QED BY <1>1, <2>1
<1> QED BY <1>1, <1>3, <1>5, <1>6, <1>7

\* Below a call that is running there is no call of a header, and nothing is being
\* opened.
LEMMA NothingOpening ==
  ASSUME CompletingAround, NEW k \in 1 .. Len(calls), NEW g, Opens(DispatchAt(k), g)
  PROVE  /\ job = "none" /\ calls # <<>> /\ Head(calls) = calls[1] /\ calls[1].msg = "HEADER"
<1>1. calls[k].msg = "HEADER" /\ k = 1 /\ job = "none"
  BY DEF CompletingAround, Completing, HeaderLast, Opens
<1>2. calls # <<>> /\ calls \in Seq(Frame)
  <2>1. calls \in Seq(Frame) /\ Len(<<>>) = 0 /\ Len(calls) \in Nat
    BY WebfsPlaces, WebfsParts DEF CompletingAround, WebfsTypes
  <2> QED BY <1>1, <2>1
<1>3. Head(calls) = calls[1]
  BY <1>2, HeadTailProperties
<1> QED BY <1>1, <1>2, <1>3

\* While a header is being told the client does nothing to other fetches.
LEMMA HeaderTurn ==
  ASSUME CompletingAround, calls # <<>>, calls[1].msg = "HEADER"
  PROVE  Len(calls) \in Nat \ {0} /\ ~UserTurn /\ \A f \in Fetches : ~MayAbort(f)
<1>1. calls \in Seq(Frame) /\ Len(calls) \in Nat
  BY WebfsPlaces, WebfsParts DEF CompletingAround, WebfsTypes
<1>2. Len(calls) # 0 /\ Head(calls) = calls[1]
  BY <1>1, HeadTailProperties, EmptySeq, LenProperties
<1>3. "HEADER" \notin StartsIn /\ "HEADER" \notin AbortsIn
  BY WebfsAssumption DEF CompletingAround
<1>4. ~UserTurn
  BY <1>2, <1>3 DEF UserTurn
<1> QED BY <1>1, <1>2, <1>3, <1>4 DEF MayAbort, MustAbort

\* No header callback is running when the code below it goes on.
LEMMA NoHeaderBelow ==
  ASSUME CompletingAround, job # "none" \/ calls = <<>> \/ UserTurn
  PROVE  \A k \in 1 .. Len(calls) : calls[k].msg # "HEADER"
<1>1. \A k \in 1 .. Len(calls) : calls[k].msg = "HEADER" => k = 1 /\ job = "none"
  BY DEF CompletingAround, Completing, HeaderLast
<1>2. calls = <<>> => Len(calls) = 0
  OBVIOUS
<1>3. calls # <<>> /\ UserTurn => calls[1].msg # "HEADER"
  BY HeaderTurn
<1> QED BY <1>1, <1>2, <1>3

\* Then nothing is being opened below.
LEMMA NoneOpening ==
  ASSUME CompletingAround, job # "none" \/ calls = <<>> \/ UserTurn,
         NEW g, Opening(g)
  PROVE  Opens(dispatch, g)
<1>1. PICK k \in Depths : Opens(DispatchAt(k), g)
  BY DEF Opening
<1>2. k = 0 \/ k \in 1 .. Len(calls)
  BY WebfsPlaces, WebfsParts DEF CompletingAround
<1>3. CASE k \in 1 .. Len(calls)
  <2>1. calls[k].msg = "HEADER"
    BY <1>1, <1>3 DEF CompletingAround, Completing, HeaderLast, Opens
  <2> QED BY <1>3, <2>1, NoHeaderBelow
<1> QED BY <1>1, <1>2, <1>3 DEF DispatchAt

\* What the running dispatch opens is being opened.
LEMMA OpensNow ==
  ASSUME WebfsTypes, NEW g, Opens(dispatch, g)
  PROVE  Opening(g)
BY WebfsPlaces DEF Opening, DispatchAt

\* What keeps a fetch owed.
LEMMA OwedKept ==
  ASSUME NEW g, Owed(g), aborted' \subseteq aborted \/ aborted' = aborted,
         last_msg'[g] < FETCH_MIN_FINISHED_MSG,
         g \in held => g \in held', Pending(g) => Pending(g)' \/ g \in held'
  PROVE  Owed(g)'
BY DEF Owed

\* The needs of fetches when the queue, the list and the entry in hand stay as they are.
LEMMA NeedsSame ==
  ASSUME UNCHANGED <<queue_ring, fetch_list, state, left, judging>>, NEW g,
         Needs(g)', Opening(g)' => Opening(g)
  PROVE  Needs(g)
<1>1. (Queued(g)' <=> Queued(g)) /\ (InList(g)' <=> InList(g)) /\ visited' = visited
  BY DEF Queued, InList, visited, here
<1> QED BY <1>1 DEF Needs, Awaits, Goes

\* A callback returns.
LEMMA CallReturnsOwes ==
  ASSUME CompletingAround, CallReturns
  PROVE  Completing'
<1>0. WebfsAround /\ WebfsTypes
  BY WebfsParts DEF CompletingAround
<1>1. /\ calls # <<>> /\ job = "none" /\ ~MustAbort(Head(calls))
      /\ calls' = Tail(calls) /\ job' = Head(calls).job /\ dispatch' = Head(calls).dispatch
      /\ UNCHANGED <<queue_ring, fetch_list, state, left, judging, held, aborted, last_msg>>
  BY DEF CallReturns, rings, place
<1>2. /\ Len(calls) \in Nat \ {0} /\ Len(calls') = Len(calls) - 1 /\ Head(calls) = calls[1]
      /\ \A k \in 0 .. (Len(calls) - 1) : JobAt(k)' = JobAt(k + 1)
                                          /\ DispatchAt(k)' = DispatchAt(k + 1)
      /\ \A k \in 1 .. (Len(calls) - 1) : calls'[k] = calls[k + 1]
  BY <1>0, <1>1, ReturnStack
<1>3. \A k \in Depths' : k \in 0 .. (Len(calls) - 1) /\ k + 1 \in Depths
  BY <1>2 DEF Depths
<1>4. JobAt(0) = "none"
  BY <1>1 DEF JobAt
<1>5. ASSUME NEW g, Pending(g) PROVE Pending(g)'
  <2>1. PICK k \in Depths : JobAt(k) = "start" /\ DispatchAt(k).new = g
    BY <1>5 DEF Pending
  <2>2. k # 0 /\ k - 1 \in 0 .. (Len(calls) - 1) /\ (k - 1) + 1 = k /\ k - 1 \in Depths'
    BY <1>2, <1>4, <2>1 DEF Depths
  <2>3. JobAt(k - 1)' = "start" /\ DispatchAt(k - 1)'.new = g
    BY <1>2, <2>1, <2>2
  <2> QED BY <2>2, <2>3 DEF Pending
<1>6. ASSUME NEW g, Opening(g)' PROVE Opening(g)
  BY <1>2, <1>3, <1>6 DEF Opening
<1>7. ASSUME NEW g, Owed(g) PROVE Owed(g)'
  BY <1>1, <1>5, <1>7 DEF Owed
<1>8. Owing'
  BY <1>1, <1>6, <1>7, NeedsSame, OwingStep DEF CompletingAround, Completing
<1>9. HeaderLast'
  <2>1. \A k \in 1 .. Len(calls') : /\ k \in 1 .. (Len(calls) - 1) /\ k \in 0 .. (Len(calls) - 1)
                                    /\ k + 1 \in 1 .. Len(calls) /\ k + 1 # 1
    BY <1>2
  <2> QED BY <1>2, <2>1 DEF CompletingAround, Completing, HeaderLast
<1>10. Redirected'
  <2>1. visited' = visited
    BY <1>1 DEF visited, here
  <2>2. SUFFICES ASSUME judging, state[visited] \in {"redirect", "notmodified"} PROVE Redirected'
    BY <1>1, <2>1 DEF Redirected
  <2>3. /\ calls[Len(calls)].to = visited
        /\ calls[Len(calls)].msg \in {"REDIRECT", "NOTMODIFIED"}
        /\ visited \in held
    BY <2>2 DEF CompletingAround, Completing, Redirected
  <2>4. Len(calls) # 1
    BY <1>1, <1>2, <2>3 DEF MustAbort
  <2>5. Len(calls') > 0 /\ calls'[Len(calls')] = calls[Len(calls)]
    <3>1. Len(calls) - 1 \in 1 .. (Len(calls) - 1) /\ (Len(calls) - 1) + 1 = Len(calls)
      BY <1>2, <2>4
    <3> QED BY <1>2, <3>1
  <2> QED BY <1>1, <2>1, <2>3, <2>5 DEF Redirected
<1> QED BY <1>8, <1>9, <1>10 DEF Completing

\* The client starts a fetch.
LEMMA ClientStartsOwes ==
  ASSUME CompletingAround, NEW f \in Fetches, ClientStarts(f)
  PROVE  Completing'
<1>0. WebfsAround /\ TypeOK /\ WebfsTypes /\ Listing /\ Judging /\ Pointers
  BY WebfsParts DEF CompletingAround
<1>1. /\ UserTurn /\ StartFetch(f) /\ f \notin live
      /\ job = "none" /\ job' = "start" /\ dispatch' = Counted(1, f)
      /\ state' = [state EXCEPT ![f] = "none"] /\ aborted' = aborted \ {f}
      /\ last_msg' = [last_msg EXCEPT ![f] = 0]
      /\ UNCHANGED <<fetch_list, calls, held, left, judging>>
  BY DEF ClientStarts, StartFetch, ClientRuns, place
<1>2. dispatch'.starting = None /\ dispatch'.step = "-" /\ dispatch'.new = f
  BY <1>0, <1>1, LocalsType DEF Entries
<1>3. /\ last_msg'[f] = 0 /\ \A g \in Fetches \ {f} : last_msg'[g] = last_msg[g]
      /\ state'[f] = "none" /\ \A g \in Fetches \ {f} : state'[g] = state[g]
  BY <1>0, <1>1 DEF TypeOK, WebfsTypes
<1>4. \A g \in Fetches : Queued(g)' <=> g = f \/ Queued(g)
  BY <1>0, <1>1, StartQueues
<1>5. (\A g : InList(g)' <=> InList(g)) /\ visited' = visited
  BY <1>1 DEF InList, visited, here
<1>6. judging => visited # f
  BY <1>0, <1>1, VisitedListed
<1>7. \A g : Opening(g)' => Opening(g)
  BY <1>0, <1>1, <1>2, OpeningSame DEF Opens
<1>8. Owed(f)'
  <2>1. Pending(f)'
    <3>1. 0 \in Depths' /\ JobAt(0)' = "start" /\ DispatchAt(0)'.new = f
      BY <1>0, <1>1, <1>2, SameStack, WebfsPlaces DEF Depths
    <3> QED BY <3>1 DEF Pending
  <2>2. 0 < FETCH_MIN_FINISHED_MSG
    BY DEF FETCH_MIN_FINISHED_MSG, Rank
  <2> QED BY <1>1, <1>3, <2>1, <2>2 DEF Owed
<1>9. ASSUME NEW g \in Fetches, Owed(g) PROVE Owed(g)'
  <2>1. Pending(g) => Pending(g)'
    BY <1>0, <1>1, PendingKept
  <2>2. CASE g # f
    BY <1>1, <1>3, <1>9, <2>1, <2>2 DEF Owed
  <2> QED BY <1>8, <2>2
<1>10. ASSUME NEW g \in Fetches, Needs(g)' PROVE Needs(g) \/ Owed(g)'
  <2>1. CASE g # f
    BY <1>1, <1>3, <1>4, <1>5, <1>7, <1>10, <2>1 DEF Needs, Awaits, Goes
  <2> QED BY <1>8, <2>1
<1>11. Owing'
  BY <1>9, <1>10, OwingStep DEF CompletingAround, Completing
<1>12. HeaderLast'
  BY <1>1, SameStack, NoHeaderBelow DEF CompletingAround, Completing, HeaderLast
<1>13. Redirected'
  <2>1. judging => visited \in Fetches
    BY <1>0, VisitedListed
  <2> QED BY <1>1, <1>3, <1>5, <1>6, <2>1 DEF CompletingAround, Completing, Redirected
<1> QED BY <1>11, <1>12, <1>13 DEF Completing

\* The entry in hand stays one the client has been told of.
LEMMA RedirectedSame ==
  ASSUME CompletingAround, UNCHANGED <<judging, calls>>,
         judging => visited' = visited /\ state'[visited] = state[visited],
         judging /\ visited \in held => visited \in held' \/ state[visited] \notin {"redirect", "notmodified"}
  PROVE  Redirected'
BY DEF CompletingAround, Completing, Redirected

\* What is said of headers after a step that makes and ends no call.
LEMMA HeaderSame ==
  ASSUME CompletingAround, calls' = calls, job' = job \/ job # "none" \/ calls = <<>>
  PROVE  HeaderLast'
<1>1. CASE job' = job
  BY <1>1, SameStack DEF CompletingAround, Completing, HeaderLast
<1>2. CASE job # "none" \/ calls = <<>>
  BY <1>2, SameStack, NoHeaderBelow DEF CompletingAround, Completing, HeaderLast
<1> QED BY <1>1, <1>2

\* fetch_abort: the client gives up what it was owed, and nothing will be told of it.
LEMMA ClientAbortsOwes ==
  ASSUME CompletingAround, NEW f \in Fetches, ClientAborts(f)
  PROVE  Completing'
<1>0. WebfsAround /\ TypeOK /\ WebfsTypes /\ Frames /\ Listing /\ Judging /\ Pointers
  BY WebfsParts DEF CompletingAround
<1>1. /\ MayAbort(f) /\ job = "none" /\ ~Queued(f)
      /\ held' = held \ {f} /\ state' = [state EXCEPT ![f] = "aborted"]
      /\ aborted' = aborted \union {f}
      /\ last_msg' = [last_msg EXCEPT ![f] = FETCH__INTERNAL_ABORTED]
      /\ UNCHANGED <<queue_ring, job, dispatch, fetch_list, calls, left, judging>>
  BY DEF ClientAborts, MayAbort, Abort, rings, stack, place, CompletingAround
<1>2. /\ \A g \in Fetches \ {f} : last_msg'[g] = last_msg[g]
      /\ state'[f] = "aborted" /\ \A g \in Fetches \ {f} : state'[g] = state[g]
  BY <1>0, <1>1 DEF TypeOK, WebfsTypes
<1>3. /\ \A g : (Queued(g)' <=> Queued(g)) /\ (InList(g)' <=> InList(g))
      /\ visited' = visited
  BY <1>1 DEF Queued, InList, visited, here
<1>4. ~Opens(dispatch, f)
  BY <1>0, <1>1, TopFrame, WebfsAssumption DEF FrameOK, Opens
<1>5. ~Opening(f)'
  <2>1. ~\E k \in 1 .. Len(calls) : Opens(DispatchAt(k), f)
    BY <1>1, NothingOpening, HeaderTurn
  <2>2. ASSUME Opening(f)' PROVE Opening(f)
    BY <1>0, <1>1, <1>4, <2>2, OpeningSame
  <2>3. ~Opening(f)
    BY <1>0, <1>4, <2>1, WebfsPlaces DEF Opening, DispatchAt
  <2> QED BY <2>2, <2>3
<1>6. ~Needs(f)'
  BY <1>1, <1>2, <1>3, <1>5 DEF Needs, Awaits, Goes, Untold
<1>7. ASSUME NEW g \in Fetches, Needs(g)', g # f PROVE Needs(g)
  <2>1. Opening(g)' => Opening(g)
    BY <1>0, <1>1, OpeningSame, OpensNow
  <2> QED BY <1>1, <1>2, <1>3, <1>7, <2>1 DEF Needs, Awaits, Goes
<1>8. ASSUME NEW g \in Fetches, Owed(g), g # f PROVE Owed(g)'
  <2>1. Pending(g) => Pending(g)'
    BY <1>0, <1>1, PendingKept
  <2> QED BY <1>1, <1>2, <1>8, <2>1 DEF Owed
<1>9. Owing'
  BY <1>6, <1>7, <1>8, OwingStep DEF CompletingAround, Completing
<1>10. HeaderLast'
  BY <1>1, HeaderSame
<1>11. Redirected'
  <2>1. judging => visited \in Fetches
    BY <1>0, VisitedListed
  <2> QED BY <1>1, <1>2, <1>3, <2>1 DEF CompletingAround, Completing, Redirected
<1> QED BY <1>9, <1>10, <1>11 DEF Completing

\* A step of fetch_dispatch_jobs that makes no call, changes no state and no list.
LEMMA LocalsOwes ==
  ASSUME CompletingAround,
         UNCHANGED <<queue_ring, fetch_list, state, left, judging, calls, last_msg, aborted, held>>,
         job' = job \/ (job = "none" /\ calls = <<>>),
         job = "start" => dispatch'.new = dispatch.new,
         \A g : Opens(dispatch', g) => Opens(dispatch, g)
  PROVE  Completing'
<1>0. WebfsAround /\ WebfsTypes
  BY WebfsParts DEF CompletingAround
<1>1. ASSUME NEW g, Needs(g)' PROVE Needs(g)
  BY <1>0, <1>1, OpeningSame, OpensNow, NeedsSame
<1>2. ASSUME NEW g, Owed(g) PROVE Owed(g)'
  <2>1. Pending(g) => Pending(g)'
    BY <1>0, PendingKept
  <2> QED BY <1>2, <2>1 DEF Owed
<1>3. Owing'
  BY <1>1, <1>2, OwingStep DEF CompletingAround, Completing
<1>4. HeaderLast'
  BY HeaderSame
<1>5. Redirected'
  <2>1. visited' = visited
    BY DEF visited, here
  <2> QED BY <2>1, RedirectedSame
<1> QED BY <1>3, <1>4, <1>5 DEF Completing

\* webfs_start has opened the body.
LEMMA StartWithBodyOwes ==
  ASSUME CompletingAround, StartWithBody
  PROVE  Completing'
<1>1. dispatch \in Locals
  BY WebfsParts DEF CompletingAround
<1>2. dispatch'.starting = dispatch.starting /\ dispatch'.step = "headers"
      /\ dispatch'.new = dispatch.new /\ dispatch.step = "open"
  BY <1>1 DEF StartWithBody, Starting, Locals
<1>3. \A g : Opens(dispatch', g) => Opens(dispatch, g)
  BY <1>2 DEF Opens
<1>4. UNCHANGED <<queue_ring, fetch_list, state, left, judging, calls, last_msg, aborted, held, job>>
  BY DEF StartWithBody, vars, place
<1> QED BY <1>2, <1>3, <1>4, LocalsOwes

\* webfs_start returns to fetch_dispatch_jobs.
LEMMA StartReturnsOwes ==
  ASSUME CompletingAround, StartReturns
  PROVE  Completing'
<1>1. dispatch \in Locals
  BY WebfsParts DEF CompletingAround
<1>2. dispatch'.step = "-" /\ dispatch'.new = dispatch.new
  BY <1>1 DEF StartReturns, Counts, Locals
<1>3. UNCHANGED <<queue_ring, fetch_list, state, left, judging, calls, last_msg, aborted, held, job>>
  BY DEF StartReturns, stack, place
<1>4. \A g : Opens(dispatch', g) => Opens(dispatch, g)
  BY <1>2 DEF Opens
<1> QED BY <1>2, <1>3, <1>4, LocalsOwes

\* fetcher_poll begins.
LEMMA PollBeginsOwes ==
  ASSUME CompletingAround, PollBegins
  PROVE  Completing'
<1>1. TypeOK /\ WebfsTypes
  BY WebfsParts DEF CompletingAround
<1>2. dispatch'.step = "-"
  BY <1>1, LocalsType DEF PollBegins, Entries
<1>3. /\ job = "none" /\ calls = <<>>
      /\ UNCHANGED <<queue_ring, fetch_list, state, left, judging, calls, last_msg, aborted, held>>
  BY DEF PollBegins, FetcherPoll, rings, place
<1>4. \A g : Opens(dispatch', g) => Opens(dispatch, g)
  BY <1>2 DEF Opens
<1>5. ~(job = "start")
  BY <1>3
<1> QED BY <1>3, <1>4, <1>5, LocalsOwes

\* fetch_dispatch_jobs ends: what was pending is handed out.
LEMMA JobsDispatchedOwes ==
  ASSUME CompletingAround, JobsDispatched
  PROVE  Completing'
<1>0. WebfsAround /\ WebfsTypes
  BY WebfsParts DEF CompletingAround
<1>1. /\ job # "none" /\ job' = "none" /\ dispatch' = NotDispatching
      /\ held' = IF job = "start" THEN held \union {dispatch.new} ELSE held
      /\ UNCHANGED <<queue_ring, fetch_list, state, left, judging, calls, last_msg, aborted>>
  BY DEF JobsDispatched, Between, CallerGoesOn, rings, place
<1>2. dispatch'.step = "-"
  BY <1>1, LocalsType
<1>3. ASSUME NEW g, Needs(g)' PROVE Needs(g)
  BY <1>0, <1>1, <1>2, <1>3, OpeningSame, NeedsSame DEF Opens
<1>4. ASSUME NEW g, Pending(g) PROVE Pending(g)' \/ g \in held'
  <2>1. PICK k \in Depths : JobAt(k) = "start" /\ DispatchAt(k).new = g
    BY <1>4 DEF Pending
  <2>2. k \in Depths' /\ (k = 0 \/ k \in 1 .. Len(calls))
    BY <1>0, <1>1, WebfsPlaces DEF Depths
  <2>3. CASE k = 0
    BY <1>1, <2>1, <2>3 DEF JobAt, DispatchAt
  <2>4. CASE k \in 1 .. Len(calls)
    BY <1>1, <2>1, <2>2, <2>4, SameStack DEF Pending
  <2> QED BY <2>2, <2>3, <2>4
<1>5. ASSUME NEW g, Owed(g) PROVE Owed(g)'
  BY <1>1, <1>4, <1>5 DEF Owed
<1>6. Owing'
  BY <1>3, <1>5, OwingStep DEF CompletingAround, Completing
<1>7. HeaderLast'
  BY <1>1, HeaderSame
<1>8. Redirected'
  <2>1. visited' = visited
    BY <1>1 DEF visited, here
  <2> QED BY <1>1, <2>1, RedirectedSame
<1> QED BY <1>6, <1>7, <1>8 DEF Completing

\* fetch_dispatch_job takes a queued fetch, of which the client is owed the end.
LEMMA StartBeginsOwes ==
  ASSUME CompletingAround, NEW i \in DOMAIN queue_ring, StartBegins(i)
  PROVE  Completing'
<1>0. WebfsAround /\ TypeOK /\ RingsAgree /\ WebfsTypes /\ Listing /\ Judging /\ dispatch \in Locals
  BY WebfsParts DEF CompletingAround
<1>1. PICK q : q = queue_ring[i]
  OBVIOUS
<1>2. /\ queue_ring' = Without(queue_ring, i) /\ state' = [state EXCEPT ![q] = "error"]
      /\ dispatch' = [dispatch EXCEPT !.starting = q, !.step = "open"]
      /\ fetch_ring' = fetch_ring
      /\ UNCHANGED <<fetch_list, left, judging, calls, last_msg, aborted, held, job>>
  BY <1>1 DEF StartBegins, stack, place
<1>3. /\ q \in Fetches /\ Queued(q) /\ \A g : Queued(g)' => Queued(g)
  BY <1>0, <1>1, <1>2, TakenOff
<1>4. dispatch'.starting = q /\ dispatch'.step = "open" /\ dispatch'.new = dispatch.new
  BY <1>0, <1>2 DEF Locals
<1>5. \A g \in Fetches \ {q} : state'[g] = state[g]
  BY <1>0, <1>2 DEF WebfsTypes
<1>6. (\A g : InList(g)' <=> InList(g)) /\ visited' = visited
  BY <1>2 DEF InList, visited, here
<1>7. \A g : Opening(g)' => g = q \/ Opening(g)
  BY <1>0, <1>2, <1>4, OpeningSame DEF Opens
<1>8. ASSUME NEW g, Owed(g) PROVE Owed(g)'
  <2>1. Pending(g) => Pending(g)'
    BY <1>0, <1>2, <1>4, PendingKept
  <2> QED BY <1>2, <1>8, <2>1 DEF Owed
<1>9. ASSUME NEW g \in Fetches, Needs(g)' PROVE Needs(g)
  <2>1. CASE g # q
    BY <1>2, <1>3, <1>5, <1>6, <1>7, <1>9, <2>1 DEF Needs, Awaits, Goes
  <2> QED BY <1>3, <2>1 DEF Needs
<1>10. Owing'
  BY <1>8, <1>9, OwingStep DEF CompletingAround, Completing
<1>11. HeaderLast'
  BY <1>2, HeaderSame
<1>12. Redirected'
  <2>1. judging => visited \in Fetches /\ visited # q
    BY <1>0, <1>3, VisitedListed
  <2>2. judging => state'[visited] = state[visited]
    BY <1>5, <2>1
  <2> QED BY <1>2, <1>6, <2>2, RedirectedSame
<1> QED BY <1>10, <1>11, <1>12 DEF Completing

\* webfs_start is about to return: the poll will tell what it left, if it listed the fetch.
LEMMA StartedOwes ==
  ASSUME CompletingAround, NEW f, f = dispatch.starting, dispatch.step \in {"open", "headers"},
         NEW s, WebfsStarted(f, s), UNCHANGED <<last_msg, aborted>>
  PROVE  Completing'
<1>0. WebfsAround /\ WebfsTypes /\ WebfsTypes' /\ Frames /\ Listing /\ Judging
      /\ dispatch \in Locals
  BY WebfsParts DEF CompletingAround
<1>1. f \in Fetches /\ ~InList(f)
  BY <1>0, StartingFetch
<1>2. /\ state' = [state EXCEPT ![f] = s]
      /\ fetch_list' = <<f>> \o fetch_list \/ fetch_list' = fetch_list
      /\ dispatch' = [dispatch EXCEPT !.step = "return"]
      /\ UNCHANGED <<queue_ring, left, judging, calls, last_msg, aborted, held, job>>
  BY DEF WebfsStarted
<1>3. dispatch'.step = "return" /\ dispatch'.new = dispatch.new
  BY <1>0, <1>2 DEF Locals
<1>4. \A g \in Fetches \ {f} : state'[g] = state[g]
  BY <1>0, <1>2 DEF WebfsTypes
<1>5. /\ \A g : InList(g)' => InList(g) \/ g = f
      /\ left > 0 => visited' = visited
  BY <1>0, <1>1, <1>2, StartedList
<1>6. judging => left > 0 /\ visited' = visited /\ visited \in Fetches /\ visited # f
  BY <1>0, <1>1, <1>5, VisitedListed
<1>7. \A g : Opening(g)' => Opening(g)
  BY <1>0, <1>2, <1>3, OpeningSame DEF Opens
<1>8. Opening(f)
  BY <1>0, OpensNow DEF Opens
<1>9. \A g : Queued(g)' <=> Queued(g)
  BY <1>2 DEF Queued
<1>10. ASSUME NEW g, Owed(g) PROVE Owed(g)'
  <2>1. Pending(g) => Pending(g)'
    BY <1>0, <1>2, <1>3, PendingKept
  <2> QED BY <1>2, <1>10, <2>1 DEF Owed
<1>11. ASSUME NEW g \in Fetches, Needs(g)' PROVE Needs(g)
  <2>1. CASE g # f
    BY <1>2, <1>4, <1>5, <1>6, <1>7, <1>9, <1>11, <2>1 DEF Needs, Awaits, Goes
  <2> QED BY <1>8, <2>1 DEF Needs
<1>12. Owing'
  BY <1>10, <1>11, OwingStep DEF CompletingAround, Completing
<1>13. HeaderLast'
  BY <1>2, HeaderSame
<1>14. Redirected'
  <2>1. judging => state'[visited] = state[visited]
    BY <1>4, <1>6
  <2> QED BY <1>2, <1>6, <2>1, RedirectedSame
<1> QED BY <1>12, <1>13, <1>14 DEF Completing

\* A call of the client from inside webfs_start, with the locals d.
LEMMA StartCallsOwes ==
  ASSUME CompletingAround, job # "none", dispatch.step \in {"open", "headers"},
         NEW m \in MsgType, NEW d \in Locals, NEW f, f = dispatch.starting,
         calls' = <<[to |-> f, msg |-> m, job |-> job, dispatch |-> d]>> \o calls,
         job' = "none", dispatch' = NotDispatching,
         d.starting = f, d.new = dispatch.new, d.step \in {dispatch.step, "return"},
         d.step \in {"open", "headers"} => m = "HEADER",
         \A g \in Fetches : (Opens(d, f) \/ g # f) /\ Owed(g) =>
            last_msg'[g] < FETCH_MIN_FINISHED_MSG,
         \A g \in held : Opens(d, f) \/ g # f => g \in held',
         UNCHANGED <<queue_ring, fetch_list, state, left, judging, aborted>>
  PROVE  Completing'
<1>0. WebfsAround /\ WebfsTypes /\ WebfsTypes' /\ Frames /\ Listing /\ Judging /\ job \in Jobs
  BY WebfsParts DEF CompletingAround
<1>1. f \in Fetches /\ ~Attached(f)
  BY <1>0, StartingFetch
<1>2. /\ \A g : Pending(g) => Pending(g)'
      /\ \A g : Opening(g)' => Opens(d, g) \/ \E k \in 1 .. Len(calls) : Opens(DispatchAt(k), g)
      /\ \A k \in 1 .. Len(calls') :
            \/ k = 1 /\ calls'[k].msg = m /\ calls'[k].to = f /\ DispatchAt(k)' = d
            \/ /\ k - 1 \in 1 .. Len(calls) /\ calls'[k] = calls[k - 1]
               /\ DispatchAt(k)' = DispatchAt(k - 1)
      /\ Len(calls') = Len(calls) + 1
      /\ Len(calls) > 0 => calls'[Len(calls')] = calls[Len(calls)]
  BY <1>0, <1>1, PendingPushed
<1>3. \A k \in 1 .. Len(calls) : calls[k].msg # "HEADER"
  BY NoHeaderBelow
<1>4. \A g : \A k \in 1 .. Len(calls) : ~Opens(DispatchAt(k), g)
  BY NothingOpening
<1>5. \A g : Opening(g)' => Opens(d, g)
  BY <1>2, <1>4
<1>6. \A g : Opens(d, g) => g = f /\ Opening(g)
  BY <1>0, OpensNow, WebfsAssumption DEF Opens
<1>7. visited' = visited
  BY DEF visited, here
<1>8. ASSUME NEW g \in Fetches, Needs(g)' PROVE Needs(g)
  BY <1>5, <1>6, <1>8, NeedsSame
<1>9. ~Queued(f) /\ ~InList(f)
  BY <1>0, <1>1, StartingFetch DEF Attached
<1>10. judging => visited # f
  BY <1>0, <1>9, VisitedListed
<1>11. ASSUME Needs(f)' PROVE Opens(d, f)
  <2>1. ~Queued(f)' /\ ~InList(f)'
    BY <1>9 DEF Queued, InList
  <2> QED BY <1>5, <1>7, <1>10, <1>11, <2>1 DEF Needs, Awaits, Goes
<1>12. ASSUME NEW g \in Fetches, Needs(g)', Owed(g) PROVE Owed(g)'
  <2>1. Opens(d, f) \/ g # f
    BY <1>11, <1>12
  <2>2. last_msg'[g] < FETCH_MIN_FINISHED_MSG /\ (g \in held => g \in held')
    BY <1>12, <2>1
  <2> QED BY <1>2, <1>12, <2>2 DEF Owed
<1>13. Owing'
  BY <1>8, <1>12, OwingStep DEF CompletingAround, Completing
<1>14. HeaderLast'
  BY <1>2, <1>3, <1>4 DEF HeaderLast, Opens
<1>15. Redirected'
  <2>1. SUFFICES ASSUME judging, state[visited] \in {"redirect", "notmodified"} PROVE Redirected'
    BY <1>7 DEF Redirected
  <2>2. /\ Len(calls) > 0 /\ calls[Len(calls)].to = visited
        /\ calls[Len(calls)].msg \in {"REDIRECT", "NOTMODIFIED"}
        /\ visited \in held
    BY <2>1 DEF CompletingAround, Completing, Redirected
  <2>3. Len(calls') > 0 /\ calls'[Len(calls')] = calls[Len(calls)]
    BY <1>0, <1>2, <2>2, WebfsPlaces
  <2>4. visited \in held'
    BY <1>10, <2>1, <2>2
  <2> QED BY <1>7, <2>2, <2>3, <2>4 DEF Redirected
<1> QED BY <1>13, <1>14, <1>15 DEF Completing

\* webfs_start cannot open the clone file: the client is told at once.
LEMMA StartWithoutCloneOwes ==
  ASSUME CompletingAround, StartWithoutClone
  PROVE  Completing'
<1> DEFINE e == [dispatch EXCEPT !.step = "return"]
<1>0. WebfsAround /\ WebfsTypes /\ Frames /\ Pointers /\ dispatch \in Locals /\ TypeOK
  BY WebfsParts DEF CompletingAround
<1>1. PICK f, d : f = dispatch.starting /\ d = e
  OBVIOUS
<1>2. job # "none" /\ dispatch.step = "open"
  BY DEF StartWithoutClone, Starting
<1>3. d \in Locals /\ d.starting = f /\ d.new = dispatch.new /\ d.step = "return"
  BY <1>0, <1>1, <1>2 DEF Locals
<1>4. calls' = <<[to |-> f, msg |-> "ERROR", job |-> job, dispatch |-> d]>> \o calls
  BY <1>1 DEF StartWithoutClone
<1>5. /\ job' = "none" /\ dispatch' = NotDispatching /\ held' = held \ {f}
      /\ last_msg' = [last_msg EXCEPT ![f] = IF Rank["ERROR"] > @ THEN Rank["ERROR"] ELSE @]
      /\ UNCHANGED <<queue_ring, fetch_list, state, left, judging, aborted>>
  BY <1>1 DEF StartWithoutClone, rings, place
<1>6. "ERROR" \in MsgType /\ f \in Fetches
  BY <1>0, <1>1, <1>2, StartingFetch DEF MsgType
<1>7. \A g \in Fetches \ {f} : last_msg'[g] = last_msg[g]
  BY <1>0, <1>5 DEF TypeOK
<1>8. ~Opens(d, f)
  BY <1>3 DEF Opens
<1>9. \A g \in Fetches : (Opens(d, f) \/ g # f) /\ Owed(g) => last_msg'[g] < FETCH_MIN_FINISHED_MSG
  BY <1>7, <1>8 DEF Owed
<1>10. \A g \in held : Opens(d, f) \/ g # f => g \in held'
  BY <1>5, <1>8
<1> HIDE DEF e
<1> QED BY <1>1, <1>2, <1>3, <1>4, <1>5, <1>6, <1>9, <1>10, StartCallsOwes

\* webfs_start calls the client for a header, which does not abort the fetch.
LEMMA SendHeaderOwes ==
  ASSUME CompletingAround, SendHeader
  PROVE  Completing'
<1>0. WebfsAround /\ WebfsTypes /\ Frames /\ dispatch \in Locals /\ TypeOK
  BY WebfsParts DEF CompletingAround
<1>1. PICK f, d : f = dispatch.starting /\ d = dispatch
  OBVIOUS
<1>2. job # "none" /\ dispatch.step = "headers"
  BY DEF SendHeader, Starting
<1>3. d \in Locals /\ d.starting = f /\ d.new = dispatch.new /\ d.step = dispatch.step
  BY <1>0, <1>1
<1>4. calls' = <<[to |-> f, msg |-> "HEADER", job |-> job, dispatch |-> d]>> \o calls
  BY <1>1 DEF SendHeader, Call
<1>5. /\ job' = "none" /\ dispatch' = NotDispatching /\ held' = held
      /\ last_msg' = [last_msg EXCEPT ![f] = IF Rank["HEADER"] > @ THEN Rank["HEADER"] ELSE @]
      /\ UNCHANGED <<queue_ring, fetch_list, state, left, judging, aborted>>
  BY <1>1 DEF SendHeader, Call, rings, place
<1>6. "HEADER" \in MsgType /\ f \in Fetches
  BY <1>0, <1>1, <1>2, StartingFetch DEF MsgType
<1>7. \A g \in Fetches : last_msg[g] < FETCH_MIN_FINISHED_MSG => last_msg'[g] < FETCH_MIN_FINISHED_MSG
  <2>1. Rank["HEADER"] < FETCH_MIN_FINISHED_MSG
    BY DEF Rank, FETCH_MIN_FINISHED_MSG
  <2> QED BY <1>0, <1>5, <1>6, <2>1 DEF TypeOK
<1>8. \A g \in Fetches : (Opens(d, f) \/ g # f) /\ Owed(g) => last_msg'[g] < FETCH_MIN_FINISHED_MSG
  BY <1>7 DEF Owed
<1> QED BY <1>1, <1>2, <1>3, <1>4, <1>5, <1>6, <1>8, StartCallsOwes

\* While webfs_poll runs, the client is owed only the ends of fetches it has a pointer to.
LEMMA NothingPending ==
  ASSUME CompletingAround, job = "none", calls = <<>>
  PROVE  /\ Len(calls) = 0 /\ Depths = {0} /\ dispatch.step = "-"
         /\ \A g : ~Pending(g) /\ ~Opening(g)
<1>1. Depths = {0} /\ dispatch.step = "-" /\ Len(calls) = 0
  BY PollAlone DEF CompletingAround
<1> QED BY <1>1 DEF Pending, Opening, Opens, JobAt, DispatchAt

\* A step of webfs_poll that calls no one.
LEMMA PollStepOwes ==
  ASSUME CompletingAround, job = "none", calls = <<>>,
         UNCHANGED <<job, dispatch, calls, last_msg, aborted, held>>,
         \A g \in Fetches : Needs(g)' => Opening(g)' \/ Needs(g),
         judging' => state'[visited'] \notin {"redirect", "notmodified"}
  PROVE  Completing'
<1>0. WebfsAround /\ WebfsTypes
  BY WebfsParts DEF CompletingAround
<1>1. \A g : ~Opening(g)'
  <2>1. \A g : ~Opening(g) /\ ~Opens(dispatch, g)
    BY NothingPending DEF Opens
  <2> QED BY <1>0, <2>1, OpeningSame
<1>2. ASSUME NEW g, Owed(g) PROVE Owed(g)'
  <2>1. ~Pending(g)
    BY NothingPending
  <2> QED BY <1>2, <2>1 DEF Owed
<1>3. Owing'
  BY <1>1, <1>2, OwingStep DEF CompletingAround, Completing
<1>4. HeaderLast'
  BY HeaderSame
<1>5. Redirected'
  BY DEF Redirected
<1> QED BY <1>3, <1>4, <1>5 DEF Completing

\* webfs_poll is called for a scheme.
LEMMA WebfsPollsOwes ==
  ASSUME CompletingAround, WebfsPolls
  PROVE  Completing'
<1>1. /\ job = "none" /\ calls = <<>> /\ stage \in {"idle", "http done"}
      /\ UNCHANGED <<job, dispatch, calls, last_msg, aborted, held, queue_ring, fetch_list,
                     state, judging>>
  BY DEF WebfsPolls, InPoll, vars
<1>2. ~judging /\ ~judging'
  BY <1>1, WebfsParts DEF CompletingAround, Judging
<1>3. \A g : (Queued(g)' <=> Queued(g)) /\ (InList(g)' <=> InList(g))
  BY <1>1 DEF Queued, InList
<1>4. \A g \in Fetches : Needs(g)' => Opening(g)' \/ Needs(g)
  BY <1>1, <1>2, <1>3 DEF Needs, Awaits, Goes
<1> QED BY <1>1, <1>2, <1>4, PollStepOwes

\* The switch on the new state: an entry that stays has more of its body to come.
LEMMA JudgeEntryOwes ==
  ASSUME CompletingAround, JudgeEntry
  PROVE  Completing'
<1>0. WebfsAround /\ TypeOK /\ TypeOK' /\ RingsAgree /\ WebfsTypes /\ Listing /\ Judging
  BY WebfsParts DEF CompletingAround
<1>1. /\ job = "none" /\ calls = <<>> /\ left > 0 /\ judging /\ ~judging'
      /\ UNCHANGED <<job, dispatch, calls, last_msg, aborted, held, state>>
  BY DEF JudgeEntry, Visiting, InPoll, stack
<1>2. PICK v, h : v = visited /\ h = here
  OBVIOUS
<1>3. /\ v \in Fetches /\ h \in 1 .. Len(fetch_list) /\ fetch_list[h] = v /\ ~Queued(v)
  BY <1>0, <1>1, <1>2, VisitedListed, VisitedEntry
<1>4. state[v] \notin {"redirect", "notmodified"}
  <2>1. Len(calls) = 0
    BY <1>1, NothingPending
  <2> QED BY <1>1, <1>2, <2>1 DEF CompletingAround, Completing, Redirected
<1>5. \A g : Queued(g)' => Queued(g)
  <2>1. CASE RemoveFromQueues(v)
    <3>1. queue_ring' \in Seq(Fetches) /\ queue_ring \in Seq(Fetches)
      BY <1>0 DEF TypeOK
    <3>2. \A j \in 1 .. Len(queue_ring') :
             \E k \in 1 .. Len(queue_ring) : queue_ring'[j] = queue_ring[k]
      BY <1>0, <1>3, <2>1, RemoveKeepsRings
    <3> QED BY <3>1, <3>2, LenProperties DEF Queued
  <2>2. CASE queue_ring' = queue_ring
    BY <2>2 DEF Queued
  <2> QED BY <1>2, <2>1, <2>2 DEF JudgeEntry, rings
<1>6. \A g \in Fetches : InList(g)' => InList(g) /\ (g = v => ~Over(v))
  <2>1. CASE Over(v)
    <3>1. fetch_list' = [fetch_list EXCEPT ![h] = None]
      BY <1>2, <2>1 DEF JudgeEntry
    <3>2. fetch_list \in Seq(Entries) /\ None \in Entries
      BY <1>0 DEF WebfsTypes, Entries
    <3>3. /\ fetch_list' \in Seq(Entries) /\ Len(fetch_list') = Len(fetch_list)
          /\ \A i \in 1 .. Len(fetch_list) :
                fetch_list'[i] = IF i = h THEN None ELSE fetch_list[i]
      BY <1>3, <3>1, <3>2, ExceptSeq
    <3>4. DOMAIN fetch_list' = 1 .. Len(fetch_list) /\ DOMAIN fetch_list = 1 .. Len(fetch_list)
      BY <3>2, <3>3, LenProperties
    <3>5. \A i \in 1 .. Len(fetch_list) : fetch_list[i] = v => i = h
      BY <1>0, <1>3, WebfsAssumption DEF Listing
    <3> QED BY <3>3, <3>4, <3>5, WebfsAssumption DEF InList
  <2>2. CASE ~Over(v)
    BY <1>2, <2>2 DEF JudgeEntry, InList
  <2> QED BY <2>1, <2>2
<1>7. ASSUME NEW g \in Fetches, Needs(g)' PROVE Opening(g)' \/ Needs(g)
  <2>1. CASE Queued(g)'
    BY <1>5, <2>1 DEF Needs
  <2>2. CASE Awaits(g)'
    <3>1. InList(g) /\ state[g] \in Untold /\ (g = v => ~Over(v))
      BY <1>1, <1>6, <2>2 DEF Awaits
    <3>2. CASE g = v
      BY <1>1, <1>2, <1>4, <3>1, <3>2 DEF Needs, Goes, Untold, Over
    <3> QED BY <1>1, <1>2, <3>1, <3>2 DEF Needs, Awaits
  <2>3. ~Goes(g)'
    BY <1>1 DEF Goes
  <2> QED BY <1>7, <2>1, <2>2, <2>3 DEF Needs
<1> QED BY <1>1, <1>7, PollStepOwes

\* webfs_poll unlinks the entries whose fetch is gone, and returns.
LEMMA PollReturnsOwes ==
  ASSUME CompletingAround, PollReturns
  PROVE  Completing'
<1>0. WebfsTypes /\ WebfsTypes' /\ Judging
  BY WebfsParts DEF CompletingAround
<1>1. /\ job = "none" /\ calls = <<>> /\ left = 0 /\ fetch_list' = NotDone
      /\ UNCHANGED <<job, dispatch, calls, last_msg, aborted, held, queue_ring, state, judging>>
  BY DEF PollReturns, InPoll, PollersDone, vars
<1>2. ~judging /\ ~judging'
  BY <1>0, <1>1 DEF Judging
<1>3. ASSUME NEW g, InList(g)' PROVE InList(g)
  <2>1. PICK r : r = NotDone
    OBVIOUS
  <2>2. r \in Seq(Entries) /\ \A j \in 1 .. Len(r) : \E k \in 1 .. Len(fetch_list) : r[j] = fetch_list[k]
    BY <1>0, <2>1, NotDoneProperties
  <2>3. fetch_list' = r
    BY <1>1, <2>1
  <2>4. \E j \in 1 .. Len(r) : r[j] = g
    BY <1>3, <2>2, <2>3, LenProperties DEF InList
  <2> QED BY <1>0, <2>2, <2>4, WebfsPlaces DEF InList
<1>4. \A g : Queued(g)' <=> Queued(g)
  BY <1>1 DEF Queued
<1>5. \A g \in Fetches : Needs(g)' => Opening(g)' \/ Needs(g)
  BY <1>1, <1>2, <1>3, <1>4 DEF Needs, Awaits, Goes
<1> QED BY <1>1, <1>2, <1>5, PollStepOwes

\* The entry that is visited is one the client is owed the end of, if it is to be told
\* anything of it.
LEMMA VisitOwed ==
  ASSUME CompletingAround, VisitEntry, state[visited] \in Untold
  PROVE  Awaits(visited) /\ Owed(visited) /\ visited \in held
<1>1. /\ job = "none" /\ calls = <<>> /\ left > 0 /\ ~judging /\ visited # None
  BY DEF VisitEntry, Visiting, InPoll
<1>2. here \in 1 .. Len(fetch_list) /\ visited = fetch_list[here] /\ visited \in Entries
      /\ DOMAIN fetch_list = 1 .. Len(fetch_list)
  BY <1>1, VisitedEntry, WebfsParts, WebfsPlaces DEF CompletingAround
<1>3. visited \in Fetches /\ InList(visited)
  BY <1>1, <1>2 DEF Entries, InList
<1>4. Awaits(visited)
  BY <1>1, <1>3 DEF Awaits
<1>5. Owed(visited)
  BY <1>3, <1>4 DEF CompletingAround, Completing, Owing, Needs
<1>6. ~Pending(visited)
  BY <1>1, NothingPending
<1> QED BY <1>4, <1>5, <1>6 DEF Owed

\* It is told so of an entry that has a body to go on with, or that has ended.
LEMMA VisitCalls ==
  ASSUME CompletingAround, NEW v, v = visited, NEW m \in MsgType, Call(v, m), VisitEntry,
         state[v] \in Untold, NEW s \in States, s = state'[v],
         \A g \in Fetches \ {v} : state'[g] = state[g],
         s \in {"redirect", "notmodified"} => m \in {"REDIRECT", "NOTMODIFIED"},
         s = "started" => m = "DATA"
  PROVE  Completing'
<1>0. WebfsAround /\ TypeOK /\ WebfsTypes /\ WebfsTypes' /\ Listing /\ job \in Jobs
      /\ dispatch \in Locals
  BY WebfsParts DEF CompletingAround
<1>1. /\ job = "none" /\ calls = <<>> /\ left > 0 /\ ~judging /\ v # None /\ judging'
      /\ UNCHANGED <<fetch_list, left>>
  BY DEF VisitEntry, Visiting, InPoll
<1>2. /\ calls' = <<[to |-> v, msg |-> m, job |-> job, dispatch |-> dispatch]>> \o calls
      /\ job' = "none" /\ dispatch' = NotDispatching
      /\ held' = IF m \in {"FINISHED", "ERROR"} THEN held \ {v} ELSE held
      /\ last_msg' = [last_msg EXCEPT ![v] = IF Rank[m] > @ THEN Rank[m] ELSE @]
      /\ aborted' = aborted /\ queue_ring' = queue_ring
  BY DEF Call, rings
<1>3. v \in Fetches /\ ~Queued(v) /\ visited' = v
  <2>1. here \in 1 .. Len(fetch_list) /\ v = fetch_list[here] /\ v \in Entries
    BY <1>0, <1>1, VisitedEntry
  <2> QED BY <1>0, <1>1, <2>1 DEF Listing, Entries, visited, here
<1>4. Awaits(v) /\ Owed(v) /\ v \in held
  BY VisitOwed
<1>5. Len(calls) = 0 /\ dispatch.step = "-" /\ \A g : ~Pending(g) /\ ~Opening(g)
  BY <1>1, NothingPending
<1>6. /\ \A g : Opening(g)' => Opens(dispatch, g) \/ \E k \in 1 .. Len(calls) : Opens(DispatchAt(k), g)
      /\ \A k \in 1 .. Len(calls') :
            \/ k = 1 /\ calls'[k].msg = m /\ calls'[k].to = v /\ DispatchAt(k)' = dispatch
            \/ /\ k - 1 \in 1 .. Len(calls) /\ calls'[k] = calls[k - 1]
               /\ DispatchAt(k)' = DispatchAt(k - 1)
      /\ Len(calls') = Len(calls) + 1
  BY <1>0, <1>2, <1>3, PendingPushed
<1>7. \A k \in 1 .. Len(calls') :
         k = 1 /\ calls'[k].msg = m /\ calls'[k].to = v /\ DispatchAt(k)' = dispatch
  BY <1>5, <1>6
<1>8. \A g : ~Opening(g)'
  BY <1>5, <1>6 DEF Opens
<1>9. \A g : (Queued(g)' <=> Queued(g)) /\ (InList(g)' <=> InList(g))
  BY <1>1, <1>2 DEF Queued, InList
<1>10. ASSUME NEW g \in Fetches, Needs(g)', g # v PROVE Needs(g)
  BY <1>1, <1>3, <1>8, <1>9, <1>10 DEF Needs, Awaits, Goes
<1>11. \A g \in Fetches \ {v} : last_msg'[g] = last_msg[g]
  BY <1>0, <1>2 DEF TypeOK
<1>12. ASSUME NEW g \in Fetches, Owed(g), g # v PROVE Owed(g)'
  BY <1>2, <1>5, <1>11, <1>12 DEF Owed
<1>13. ASSUME Needs(v)' PROVE Owed(v)'
  <2>1. Goes(v)'
    BY <1>1, <1>3, <1>8, <1>9, <1>13 DEF Needs, Awaits
  <2>2. m = "DATA"
    BY <2>1 DEF Goes
  <2>3. last_msg'[v] < FETCH_MIN_FINISHED_MSG
    <3>1. Rank["DATA"] < FETCH_MIN_FINISHED_MSG
      BY DEF Rank, FETCH_MIN_FINISHED_MSG
    <3> QED BY <1>0, <1>2, <1>3, <1>4, <2>2, <3>1 DEF TypeOK, Owed
  <2> QED BY <1>2, <1>4, <2>2, <2>3 DEF Owed
<1>14. Needs(v)
  BY <1>4 DEF Needs
<1>15. Owing'
  BY <1>10, <1>12, <1>13, <1>14, OwingStep DEF CompletingAround, Completing
<1>16. HeaderLast'
  BY <1>2, <1>5, <1>7 DEF HeaderLast
<1>17. Redirected'
  <2>1. SUFFICES ASSUME s \in {"redirect", "notmodified"} PROVE Redirected'
    BY <1>3 DEF Redirected
  <2>2. v \in held' /\ m \in {"REDIRECT", "NOTMODIFIED"}
    BY <1>2, <1>4, <2>1
  <2>3. Len(calls') = 1
    BY <1>5, <1>6
  <2>4. calls'[1].msg = m /\ calls'[1].to = v
    BY <1>7, <2>3
  <2> QED BY <1>3, <2>2, <2>3, <2>4 DEF Redirected
<1> QED BY <1>15, <1>16, <1>17 DEF Completing

\* webfs_poll comes to an entry, and tells its client what its state calls for.
LEMMA VisitEntryOwes ==
  ASSUME CompletingAround, VisitEntry
  PROVE  Completing'
<1>0. WebfsAround /\ WebfsTypes /\ WebfsTypes' /\ Judging
  BY WebfsParts DEF CompletingAround
<1>1. /\ job = "none" /\ calls = <<>> /\ left > 0 /\ ~judging /\ visited # None /\ judging'
      /\ UNCHANGED <<fetch_list, left>>
  BY DEF VisitEntry, Visiting, InPoll
<1>2. PICK v : v = visited
  OBVIOUS
<1>3. v \in Fetches /\ visited' = v
  BY <1>0, <1>1, <1>2, VisitedEntry DEF Entries, visited, here
<1>4. CASE NoCall /\ state' = state /\ state[v] \in States \ (DOMAIN Say \union {"started"})
  <2>1. UNCHANGED <<job, dispatch, calls, last_msg, aborted, held, queue_ring>>
    BY <1>4 DEF NoCall, vars
  <2>2. \A g : (Queued(g)' <=> Queued(g)) /\ (InList(g)' <=> InList(g))
    BY <1>1, <2>1 DEF Queued, InList
  <2>3. state[v] \notin {"redirect", "notmodified", "error", "started"}
    BY <1>4 DEF Say
  <2>4. \A g \in Fetches : Needs(g)' => Opening(g)' \/ Needs(g)
    BY <1>1, <1>3, <1>4, <2>2, <2>3 DEF Needs, Awaits, Goes, Untold
  <2> QED BY <1>1, <1>3, <1>4, <2>1, <2>3, <2>4, PollStepOwes
<1>5. CASE state[v] = "started" /\ Call(v, "DATA") /\ state' = state
  <2>1. "DATA" \in MsgType /\ "started" \in Untold /\ "started" \in States
    BY DEF MsgType, Untold, States
  <2> QED BY <1>2, <1>5, <2>1, VisitCalls
<1>6. CASE state[v] = "started" /\ Call(v, "FINISHED") /\ state' = [state EXCEPT ![v] = "finished"]
  <2>1. "FINISHED" \in MsgType /\ "started" \in Untold /\ "finished" \in States
    BY DEF MsgType, Untold, States
  <2>2. state'[v] = "finished" /\ \A g \in Fetches \ {v} : state'[g] = state[g]
    BY <1>0, <1>3, <1>6 DEF WebfsTypes
  <2> QED BY <1>2, <1>6, <2>1, <2>2, VisitCalls
<1>7. CASE state[v] \in DOMAIN Say /\ Call(v, Say[state[v]]) /\ state' = state
  <2> DEFINE m == Say[state[v]]
  <2>1. /\ state[v] \in Untold /\ state[v] # "started" /\ state[v] \in States
        /\ m \in MsgType
        /\ state[v] \in {"redirect", "notmodified"} => m \in {"REDIRECT", "NOTMODIFIED"}
    BY <1>7 DEF Say, MsgType, Untold, States
  <2>2. Call(v, m)
    BY <1>7
  <2> HIDE DEF m
  <2> QED BY <1>2, <1>7, <2>1, <2>2, VisitCalls
<1> QED BY <1>2, <1>4, <1>5, <1>6, <1>7 DEF VisitEntry, ReadBody

\* Every step keeps what is owed.
LEMMA CompletingStep ==
  ASSUME CompletingAround, [WebfsNext]_allVars
  PROVE  Completing'
<1>1. ASSUME NEW outcome \in Outcomes, StartWithout(outcome) PROVE Completing'
  <2> DEFINE s == IF outcome \in {"redirect", "notmodified"} THEN outcome ELSE "error"
  <2>1. PICK f : f = dispatch.starting
    OBVIOUS
  <2>2. dispatch.step = "open" /\ WebfsStarted(f, s) /\ UNCHANGED <<last_msg, aborted>>
    BY <1>1, <2>1 DEF StartWithout, Starting, WebfsStarted, vars, place
  <2> HIDE DEF s
  <2> QED BY <2>1, <2>2, StartedOwes
<1>2. CASE HeadersSent
  <2>1. PICK f : f = dispatch.starting
    OBVIOUS
  <2>2. dispatch.step = "headers" /\ WebfsStarted(f, "started") /\ UNCHANGED <<last_msg, aborted>>
    BY <1>2, <2>1 DEF HeadersSent, Starting, WebfsStarted, vars, place
  <2> QED BY <2>1, <2>2, StartedOwes
<1>3. CASE UNCHANGED allVars
  <2>1. UNCHANGED <<queue_ring, fetch_list, state, left, judging, calls, last_msg, aborted, held,
                    job, dispatch>>
    BY <1>3 DEF allVars, vars, webfsVars
  <2>2. \A g : Opens(dispatch', g) => Opens(dispatch, g)
    BY <2>1
  <2> QED BY <2>1, <2>2, LocalsOwes
<1> QED BY <1>1, <1>2, <1>3, CallReturnsOwes, ClientStartsOwes, ClientAbortsOwes,
           StartBeginsOwes, StartWithoutCloneOwes, StartWithBodyOwes, SendHeaderOwes,
           StartReturnsOwes, JobsDispatchedOwes, PollBeginsOwes, WebfsPollsOwes,
           VisitEntryOwes, JudgeEntryOwes, PollReturnsOwes DEF WebfsNext, System

\* At first nothing is owed.
LEMMA CompletingInitial == WebfsInit => Completing
<1> SUFFICES ASSUME WebfsInit PROVE Completing
  OBVIOUS
<1>1. /\ calls = <<>> /\ Len(calls) = 0 /\ fetch_list = <<>> /\ DOMAIN fetch_list = {}
      /\ queue_ring = <<>> /\ DOMAIN queue_ring = {} /\ dispatch = NotDispatching /\ ~judging
  BY DEF WebfsInit, Init
<1>2. Depths = {0} /\ DispatchAt(0).step = "-"
  BY <1>1, LocalsType DEF Depths, DispatchAt
<1>3. \A f : ~Needs(f)
  BY <1>1, <1>2 DEF Needs, Queued, Opening, Opens, Awaits, InList, Goes
<1> QED BY <1>1, <1>3 DEF Completing, Owing, HeaderLast, Redirected

\* A call made by a step is of a fetch whose end the client is owed.
LEMMA CallsOwed ==
  ASSUME CompletingAround, [WebfsNext]_allVars, NEW f \in Fetches, Called(f)
  PROVE  Owed(f)
<1>0. WebfsAround /\ WebfsTypes /\ Frames /\ dispatch \in Locals /\ Len(calls) \in Nat
      /\ calls \in Seq(Frame)
  BY WebfsParts, WebfsPlaces DEF CompletingAround, WebfsTypes
<1>1. ASSUME NEW g, NEW d, NEW m, calls' = <<[to |-> g, msg |-> m, job |-> job, dispatch |-> d]>> \o calls
      PROVE  f = g
  <2> DEFINE e == [to |-> g, msg |-> m, job |-> job, dispatch |-> d]
  <2>1. e.to = g /\ calls' = <<e>> \o calls
    BY <1>1
  <2> HIDE DEF e
  <2>2. Head(<<e>> \o calls) = e
    BY <1>0
  <2> QED BY <2>1, <2>2 DEF Called
<1>2. Len(calls') > Len(calls)
  BY DEF Called
<1>3. calls' # calls
  BY <1>0, <1>2
<1>4. CASE StartWithoutClone \/ SendHeader
  <2>1. f = dispatch.starting
    BY <1>1, <1>4 DEF StartWithoutClone, SendHeader, Call
  <2>2. Opening(f)
    BY <1>0, <1>4, <2>1, OpensNow DEF StartWithoutClone, SendHeader, Starting, Opens
  <2> QED BY <2>2 DEF CompletingAround, Completing, Owing, Needs
<1>5. CASE VisitEntry
  <2>1. f = visited
    BY <1>1, <1>3, <1>5 DEF VisitEntry, ReadBody, Call, NoCall
  <2>2. state[visited] \in Untold
    BY <1>3, <1>5 DEF VisitEntry, ReadBody, NoCall, Untold, Say
  <2> QED BY <1>5, <2>1, <2>2, VisitOwed
<1>6. CASE CallReturns
  <2>1. Len(calls') = Len(calls) - 1
    BY <1>0, <1>6, ReturnStack DEF CallReturns
  <2> QED BY <1>0, <1>2, <2>1
<1> QED BY <1>3, <1>4, <1>5, <1>6
        DEF WebfsNext, System, ClientStarts, ClientAborts, StartBegins, StartWithout,
            StartWithBody, HeadersSent, StartReturns, JobsDispatched, PollBegins, WebfsPolls,
            JudgeEntry, PollReturns, allVars, webfsVars

\* A client that does not abort a fetch before fetch_start has returned, nor from a
\* header's callback, is told the end of each of its fetches once, and nothing of a
\* fetch it has aborted.
THEOREM CompletedOnce ==
  ASSUME ~AbortsQueued, "HEADER" \notin AbortsIn
  PROVE  WebfsSpec => OneCompletion
<1> DEFINE I == WebfsIInv /\ Completing
<1>1. WebfsInit => I
  BY WebfsInitial, CompletingInitial
<1>2. ASSUME I, [WebfsNext]_allVars PROVE CompletingAround /\ WebfsIInv'
  <2>1. TypeOK' /\ WebfsTypes'
    BY <1>2, WebfsTypeStep DEF WebfsIInv, WebfsInv
  <2>2. WebfsAround
    BY <1>2, <2>1 DEF WebfsAround, WebfsIInv
  <2> QED BY <1>2, <2>1, <2>2, WebfsRingsStep, WebfsStep DEF WebfsIInv, CompletingAround
<1>3. I /\ [WebfsNext]_allVars => I'
  BY <1>2, CompletingStep
<1>4. I /\ [WebfsNext]_allVars =>
         [\A f \in Fetches :
            Called(f) => /\ f \notin aborted
                         /\ Rank[Head(calls').msg] >= FETCH_MIN_FINISHED_MSG
                            => last_msg[f] < FETCH_MIN_FINISHED_MSG]_allVars
  BY <1>2, CallsOwed DEF Owed
<1> HIDE DEF I
<1> QED BY <1>1, <1>3, <1>4, PTL DEF WebfsSpec, OneCompletion
=============================================================================
