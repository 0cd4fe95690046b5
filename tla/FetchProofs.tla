----------------------------- MODULE FetchProofs -----------------------------
(***************************************************************************)
(* Proofs about the fetch factory, for any set of fetches, any hosts and   *)
(* any limits.                                                             *)
(***************************************************************************)
EXTENDS Fetch, FiniteSetTheorems, SequenceTheorems, TLAPS

-----------------------------------------------------------------------------
\* RING_REMOVE at place i gives the rest of the ring in its order.
LEMMA WithoutProperties ==
  ASSUME NEW S, NEW s \in Seq(S), NEW i \in 1 .. Len(s)
  PROVE  /\ Without(s, i) \in Seq(S)
         /\ Len(Without(s, i)) = Len(s) - 1
         /\ \A j \in 1 .. (Len(s) - 1) :
               Without(s, i)[j] = IF j < i THEN s[j] ELSE s[j + 1]
<1> DEFINE w == [j \in 1 .. (Len(s) - 1) |-> IF j < i THEN s[j] ELSE s[j + 1]]
<1>1. Len(s) \in Nat /\ Len(s) - 1 \in Nat
  BY LenProperties
<1>2. \A j \in 1 .. (Len(s) - 1) : (IF j < i THEN s[j] ELSE s[j + 1]) \in S
  <2> TAKE j \in 1 .. (Len(s) - 1)
  <2>1. j \in 1 .. Len(s) /\ j + 1 \in 1 .. Len(s)
    BY <1>1
  <2> QED BY <2>1, ElementOfSeq
<1>3. w \in [1 .. (Len(s) - 1) -> S]
  BY <1>2
<1>4. w \in Seq(S) /\ Len(w) = Len(s) - 1
  BY <1>1, <1>3
<1> QED BY <1>4 DEF Without

\* A queue without repetitions.
Distinct(s) == \A i, j \in 1 .. Len(s) : s[i] = s[j] => i = j

\* What is left of it has none, and lacks exactly the fetch that was taken out.
LEMMA WithoutDistinct ==
  ASSUME NEW S, NEW s \in Seq(S), NEW i \in 1 .. Len(s), Distinct(s)
  PROVE  /\ Distinct(Without(s, i))
         /\ \A j \in 1 .. Len(Without(s, i)) :
               \E k \in 1 .. Len(s) : k # i /\ Without(s, i)[j] = s[k]
<1> DEFINE w == Without(s, i)
           old(j) == IF j < i THEN j ELSE j + 1
<1>1. Len(s) \in Nat
  BY LenProperties
<1>2. Len(w) = Len(s) - 1 /\ \A j \in 1 .. (Len(s) - 1) : w[j] = s[old(j)]
  BY WithoutProperties
<1>3. \A j \in 1 .. Len(w) : old(j) \in 1 .. Len(s) /\ old(j) # i
  BY <1>1, <1>2
<1>4. \A j, k \in 1 .. Len(w) : old(j) = old(k) => j = k
  BY <1>1, <1>2
<1> HIDE DEF w, old
<1>5. Distinct(w)
  BY <1>2, <1>3, <1>4 DEF Distinct
<1>6. \A j \in 1 .. Len(w) : \E k \in 1 .. Len(s) : k # i /\ w[j] = s[k]
  BY <1>2, <1>3
<1> QED BY <1>5, <1>6 DEF w

-----------------------------------------------------------------------------
\* What a step of the dispatch loop does to the caller's state keeps its type.
LEMMA CallerType ==
  ASSUME TypeOK, NEW a \in BOOLEAN, CallerGoesOn(a)
  PROVE  /\ timer' \in BOOLEAN
         /\ job' \in {"none", "start", "poll", "fdset"}
         /\ polling' \in {"none", "timer", "fdset"}
BY DEF TypeOK, CallerGoesOn

\* The values last_msg takes.
LEMMA RankType == \A m \in MsgType : Rank[m] \in 0 .. 11
BY DEF MsgType, Rank

\* fetch_remove_from_queues keeps the types of the rings.
LEMMA RemoveType ==
  ASSUME TypeOK, NEW f \in Fetches, RemoveFromQueues(f)
  PROVE  /\ queue_ring' \in Seq(Fetches)
         /\ fetch_ring' \subseteq Fetches
         /\ fetch_is_active' \in [Fetches -> BOOLEAN]
<1>1. CASE fetch_is_active[f]
  BY <1>1 DEF TypeOK, RemoveFromQueues
<1>2. CASE ~fetch_is_active[f]
  <2>1. PICK i \in DOMAIN queue_ring : queue_ring' = Without(queue_ring, i)
    BY <1>2 DEF RemoveFromQueues
  <2>2. queue_ring' \in Seq(Fetches)
    BY <2>1, WithoutProperties, LenProperties DEF TypeOK
  <2> QED BY <1>2, <2>2 DEF TypeOK, RemoveFromQueues
<1> QED BY <1>1, <1>2

\* Every step of fetch.c keeps the type of its state.
LEMMA TypeStep ==
  ASSUME TypeOK, [Next]_vars
  PROVE  TypeOK'
<1> USE MessagesAssumption
<1>1. ASSUME NEW f \in Fetches, StartFetch(f) PROVE TypeOK'
  <2>1. queue_ring' \in Seq(Fetches)
    BY <1>1, AppendProperties DEF TypeOK, StartFetch
  <2> QED BY <1>1, <2>1 DEF TypeOK, StartFetch
<1>2. ASSUME NEW f \in Fetches, NEW m \in Messages, SendCallback(f, m) PROVE TypeOK'
  BY <1>2, RankType DEF TypeOK, SendCallback, stack
<1>3. ASSUME NEW f \in Fetches, Remove(f) PROVE TypeOK'
  BY <1>3, RemoveType DEF TypeOK, Remove, stack
<1>4. ASSUME NEW f \in Fetches, Free(f) PROVE TypeOK'
  BY <1>4 DEF TypeOK, Free, rings, stack
<1>5. ASSUME NEW f \in Fetches, AbortDeferred(f) PROVE TypeOK'
  BY <1>5 DEF TypeOK, AbortDeferred, rings, stack, FETCH__INTERNAL_ABORTED, Rank
<1>6. ASSUME NEW f \in Fetches, AbortNow(f) PROVE TypeOK'
  BY <1>6, RemoveType DEF TypeOK, AbortNow, stack, FETCH__INTERNAL_ABORTED, Rank
<1>7. ASSUME NEW i \in DOMAIN queue_ring, DispatchStarts(i) PROVE TypeOK'
  <2>1. queue_ring[i] \in Fetches
    BY LenProperties, ElementOfSeq DEF TypeOK
  <2>2. queue_ring' \in Seq(Fetches)
    BY <1>7, WithoutProperties, LenProperties DEF TypeOK, DispatchStarts
  <2> QED BY <1>7, <2>1, <2>2 DEF TypeOK, DispatchStarts, stack
<1>8. ASSUME NEW i \in DOMAIN queue_ring, DispatchRefused(i) PROVE TypeOK'
  <2>1. queue_ring[i] \in Fetches
    BY LenProperties, ElementOfSeq DEF TypeOK
  <2>2. Without(queue_ring, i) \in Seq(Fetches)
    BY WithoutProperties, LenProperties DEF TypeOK
  <2>3. queue_ring' \in Seq(Fetches)
    BY <1>8, <2>1, <2>2, AppendProperties DEF DispatchRefused, PutBack
  <2> QED BY <1>8, <2>3, CallerType DEF TypeOK, DispatchRefused, PutBack
<1>9. ASSUME DispatchEnds PROVE TypeOK'
  BY <1>9, CallerType DEF TypeOK, DispatchEnds
<1>10. ASSUME FetcherPoll PROVE TypeOK'
  BY <1>10 DEF TypeOK, FetcherPoll
<1>11. ASSUME FetchFdset PROVE TypeOK'
  BY <1>11 DEF TypeOK, FetchFdset
<1>12. ASSUME NEW b \in BOOLEAN, PollersDone(b) PROVE TypeOK'
  BY <1>12 DEF TypeOK, PollersDone
<1>13. CASE UNCHANGED vars
  BY <1>13 DEF TypeOK, vars
<1> QED BY <1>1, <1>2, <1>3, <1>4, <1>5, <1>6, <1>7, <1>8, <1>9, <1>10, <1>11, <1>12,
           <1>13 DEF Next

\* The rings start empty.
LEMMA TypeInit == Init => TypeOK
<1> SUFFICES ASSUME Init PROVE TypeOK
  OBVIOUS
<1>1. queue_ring \in Seq(Fetches)
  BY EmptySeq DEF Init
<1>2. last_msg \in [Fetches -> 0 .. 11]
  BY DEF Init
<1>3. /\ fetch_ring \subseteq Fetches
      /\ fetch_is_active \in [Fetches -> BOOLEAN]
      /\ live \subseteq Fetches
  BY DEF Init
<1>4. timer \in BOOLEAN
  BY DEF Init
<1>5. job \in {"none", "start", "poll", "fdset"} /\ polling \in {"none", "timer", "fdset"}
  BY DEF Init
<1> QED BY <1>1, <1>2, <1>3, <1>4, <1>5 DEF TypeOK

\* The state of fetch.c keeps its type.
THEOREM TypeCorrect == Spec => []TypeOK
<1>1. Init => TypeOK
  BY TypeInit
<1>2. TypeOK /\ [Next]_vars => TypeOK'
  BY TypeStep
<1> QED BY <1>1, <1>2, PTL DEF Spec

-----------------------------------------------------------------------------
\* The rings, with the queue addressed by place.
LEMMA RingsByPlace ==
  ASSUME TypeOK
  PROVE  RingsAgree <=>
           /\ fetch_ring \subseteq live
           /\ \A i \in 1 .. Len(queue_ring) :
                 queue_ring[i] \in live /\ ~fetch_is_active[queue_ring[i]]
           /\ Distinct(queue_ring)
           /\ \A f \in fetch_ring : fetch_is_active[f]
BY LenProperties DEF TypeOK, RingsAgree, Distinct

\* Taking a fetch off the rings leaves the rest of them as it was, and the
\* fetch on neither.
LEMMA RemoveKeepsRings ==
  ASSUME TypeOK, RingsAgree, NEW f \in Fetches, RemoveFromQueues(f)
  PROVE  /\ fetch_ring' \subseteq fetch_ring \ {f}
         /\ Distinct(queue_ring')
         /\ \A j \in 1 .. Len(queue_ring') :
               /\ queue_ring'[j] # f
               /\ \E k \in 1 .. Len(queue_ring) : queue_ring'[j] = queue_ring[k]
         /\ fetch_is_active' = fetch_is_active
<1>1. CASE fetch_is_active[f]
  BY <1>1, RingsByPlace DEF TypeOK, RemoveFromQueues
<1>2. CASE ~fetch_is_active[f]
  <2>1. PICK i \in 1 .. Len(queue_ring) :
           queue_ring[i] = f /\ queue_ring' = Without(queue_ring, i)
    BY <1>2, LenProperties DEF RemoveFromQueues, TypeOK
  <2>2. Distinct(queue_ring)
    BY RingsByPlace
  <2>3. /\ Distinct(queue_ring')
        /\ \A j \in 1 .. Len(queue_ring') :
              \E k \in 1 .. Len(queue_ring) : k # i /\ queue_ring'[j] = queue_ring[k]
    BY <2>1, <2>2, WithoutDistinct DEF TypeOK
  <2>4. \A j \in 1 .. Len(queue_ring') : queue_ring'[j] # f
    BY <2>1, <2>2, <2>3 DEF Distinct
  <2>5. fetch_ring' = fetch_ring /\ fetch_is_active' = fetch_is_active
    BY <1>2 DEF RemoveFromQueues
  <2>6. f \notin fetch_ring
    BY <1>2, RingsByPlace
  <2> QED BY <2>3, <2>4, <2>5, <2>6
<1> QED BY <1>1, <1>2

\* Every step of fetch.c keeps the rings in agreement with the flags.
LEMMA RingsStep ==
  ASSUME TypeOK, TypeOK', RingsAgree, [Next]_vars
  PROVE  RingsAgree'
<1> DEFINE Good == /\ fetch_ring \subseteq live
                   /\ \A i \in 1 .. Len(queue_ring) :
                         queue_ring[i] \in live /\ ~fetch_is_active[queue_ring[i]]
                   /\ Distinct(queue_ring)
                   /\ \A f \in fetch_ring : fetch_is_active[f]
<1>a. Good
  BY RingsByPlace
<1>b. SUFFICES Good'
  BY LenProperties DEF TypeOK, RingsAgree, Distinct
<1>c. Len(queue_ring) \in Nat /\ DOMAIN queue_ring = 1 .. Len(queue_ring)
      /\ \A i \in 1 .. Len(queue_ring) : queue_ring[i] \in Fetches
  BY LenProperties, ElementOfSeq DEF TypeOK
<1>1. ASSUME NEW f \in Fetches, StartFetch(f) PROVE Good'
  <2>1. f \notin live /\ f \notin fetch_ring
    BY <1>1, <1>a DEF StartFetch
  <2>2. /\ Len(queue_ring') = Len(queue_ring) + 1
        /\ \A j \in 1 .. Len(queue_ring) : queue_ring'[j] = queue_ring[j]
        /\ queue_ring'[Len(queue_ring) + 1] = f
    BY <1>1, AppendProperties DEF TypeOK, StartFetch
  <2>3. \A i \in 1 .. Len(queue_ring') :
           \/ i \in 1 .. Len(queue_ring) /\ queue_ring'[i] = queue_ring[i]
           \/ i = Len(queue_ring) + 1 /\ queue_ring'[i] = f
    BY <1>c, <2>2
  <2>4. \A i \in 1 .. Len(queue_ring) : queue_ring[i] # f
    BY <1>a, <2>1
  <2>5. Distinct(queue_ring')
    BY <1>a, <2>3, <2>4 DEF Distinct
  <2>6. \A i \in 1 .. Len(queue_ring') :
           queue_ring'[i] \in live' /\ ~fetch_is_active'[queue_ring'[i]]
    BY <1>1, <1>a, <1>c, <2>3, <2>4 DEF StartFetch, TypeOK
  <2>7. \A g \in fetch_ring' : fetch_is_active'[g]
    BY <1>1, <1>a, <2>1 DEF StartFetch, TypeOK
  <2> QED BY <1>1, <1>a, <2>5, <2>6, <2>7 DEF StartFetch
<1>2. ASSUME NEW f \in Fetches, NEW m \in Messages, SendCallback(f, m) PROVE Good'
  BY <1>2, <1>a DEF SendCallback
<1>3. ASSUME NEW f \in Fetches, Remove(f) PROVE Good'
  BY <1>3, <1>a, RemoveKeepsRings DEF Remove
<1>4. ASSUME NEW f \in Fetches, Free(f) PROVE Good'
  BY <1>4, <1>a, <1>c DEF Free, rings, Attached, Queued
<1>5. ASSUME NEW f \in Fetches, AbortDeferred(f) PROVE Good'
  BY <1>5, <1>a DEF AbortDeferred, rings
<1>6. ASSUME NEW f \in Fetches, AbortNow(f) PROVE Good'
  BY <1>6, <1>a, RemoveKeepsRings DEF AbortNow
<1>7. ASSUME NEW i \in DOMAIN queue_ring, DispatchStarts(i) PROVE Good'
  <2>1. i \in 1 .. Len(queue_ring) /\ queue_ring' = Without(queue_ring, i)
    BY <1>7, <1>c DEF DispatchStarts
  <2>2. /\ Distinct(queue_ring')
        /\ \A j \in 1 .. Len(queue_ring') :
              \E k \in 1 .. Len(queue_ring) : k # i /\ queue_ring'[j] = queue_ring[k]
    BY <1>a, <2>1, WithoutDistinct DEF TypeOK
  <2>3. \A j \in 1 .. Len(queue_ring') : queue_ring'[j] # queue_ring[i]
    BY <1>a, <2>1, <2>2 DEF Distinct
  <2>4. \A j \in 1 .. Len(queue_ring') :
           queue_ring'[j] \in live' /\ ~fetch_is_active'[queue_ring'[j]]
    BY <1>7, <1>a, <1>c, <2>2, <2>3 DEF DispatchStarts, TypeOK
  <2>5. \A g \in fetch_ring' : g \in live' /\ fetch_is_active'[g]
    BY <1>7, <1>a, <1>c, <2>1 DEF DispatchStarts, TypeOK
  <2> QED BY <2>2, <2>4, <2>5
<1>8. ASSUME NEW i \in DOMAIN queue_ring, DispatchRefused(i) PROVE Good'
  <2> DEFINE w == Without(queue_ring, i)
  <2>1. i \in 1 .. Len(queue_ring) /\ queue_ring' = Append(w, queue_ring[i])
    BY <1>8, <1>c DEF DispatchRefused, PutBack
  <2>2. w \in Seq(Fetches) /\ Len(w) \in Nat
    BY <2>1, WithoutProperties, LenProperties DEF TypeOK
  <2>3. /\ Distinct(w)
        /\ \A j \in 1 .. Len(w) :
              \E k \in 1 .. Len(queue_ring) : k # i /\ w[j] = queue_ring[k]
    <3> HIDE DEF w
    <3>1. i \in 1 .. Len(queue_ring) /\ Distinct(queue_ring) /\ queue_ring \in Seq(Fetches)
      BY <1>a, <2>1 DEF TypeOK
    <3> QED BY <3>1, WithoutDistinct DEF w
  <2>4. /\ Len(queue_ring') = Len(w) + 1
        /\ \A j \in 1 .. Len(w) : queue_ring'[j] = w[j]
        /\ queue_ring'[Len(w) + 1] = queue_ring[i]
    BY <1>c, <2>1, <2>2, AppendProperties
  <2> HIDE DEF w
  <2>5. \A j \in 1 .. Len(queue_ring') :
           \/ j \in 1 .. Len(w) /\ queue_ring'[j] = w[j]
           \/ j = Len(w) + 1 /\ queue_ring'[j] = queue_ring[i]
    BY <2>2, <2>4
  <2>6. \A j \in 1 .. Len(w) : w[j] # queue_ring[i]
    <3>1. \A k \in 1 .. Len(queue_ring) : k # i => queue_ring[k] # queue_ring[i]
      BY <1>a, <2>1 DEF Distinct
    <3> QED BY <2>3, <3>1
  <2>7. Distinct(queue_ring')
    BY <2>3, <2>5, <2>6 DEF Distinct
  <2>8. \A j \in 1 .. Len(queue_ring') :
           \E k \in 1 .. Len(queue_ring) : queue_ring'[j] = queue_ring[k]
    BY <2>1, <2>3, <2>5
  <2> QED BY <1>8, <1>a, <2>7, <2>8 DEF DispatchRefused, PutBack
<1>9. CASE DispatchEnds \/ FetcherPoll \/ FetchFdset \/ UNCHANGED vars
  BY <1>9, <1>a DEF DispatchEnds, FetcherPoll, FetchFdset, vars
<1>10. ASSUME NEW b \in BOOLEAN, PollersDone(b) PROVE Good'
  BY <1>10, <1>a DEF PollersDone
<1> HIDE DEF Good
<1> QED BY <1>1, <1>2, <1>3, <1>4, <1>5, <1>6, <1>7, <1>8, <1>9, <1>10 DEF Next

\* The rings hold allocated fetches, none twice, and every fetch is on the ring
\* that its flag names.
THEOREM RingsConsistent == Spec => []RingsAgree
<1>1. Init => RingsAgree
  BY DEF Init, RingsAgree
<1>2. TypeOK /\ TypeOK' /\ RingsAgree /\ [Next]_vars => RingsAgree'
  BY RingsStep
<1> QED BY <1>1, <1>2, TypeCorrect, PTL DEF Spec

\* What is left of a ring when one fetch is taken out: all but the place that was taken.
LEMMA WithoutPlaces ==
  ASSUME NEW S, NEW s \in Seq(S), NEW i \in 1 .. Len(s)
  PROVE  /\ \A j \in DOMAIN Without(s, i) : \E k \in DOMAIN s : k # i /\ Without(s, i)[j] = s[k]
         /\ \A k \in DOMAIN s : k # i => \E j \in DOMAIN Without(s, i) : Without(s, i)[j] = s[k]
<1> DEFINE w == Without(s, i)
<1>1. Len(s) \in Nat /\ DOMAIN s = 1 .. Len(s)
  BY LenProperties
<1>2. /\ w \in Seq(S) /\ Len(w) = Len(s) - 1
      /\ \A j \in 1 .. (Len(s) - 1) : w[j] = IF j < i THEN s[j] ELSE s[j + 1]
  BY WithoutProperties
<1>3. DOMAIN w = 1 .. (Len(s) - 1)
  BY <1>2, LenProperties
<1> HIDE DEF w
<1>4. ASSUME NEW k \in 1 .. Len(s), k # i PROVE \E j \in DOMAIN w : w[j] = s[k]
  <2>1. CASE k < i
    <3>1. k \in 1 .. (Len(s) - 1)
      BY <1>1, <2>1
    <3> QED BY <1>2, <1>3, <2>1, <3>1
  <2>2. CASE k > i
    <3>1. k - 1 \in 1 .. (Len(s) - 1) /\ ~(k - 1 < i) /\ (k - 1) + 1 = k
      BY <1>1, <2>2
    <3> QED BY <1>2, <1>3, <3>1
  <2> QED BY <1>1, <1>4, <2>1, <2>2
<1>5. ASSUME NEW j \in DOMAIN w PROVE \E k \in 1 .. Len(s) : k # i /\ w[j] = s[k]
  <2>1. j \in 1 .. (Len(s) - 1)
    BY <1>3
  <2>2. CASE j < i
    <3>1. j \in 1 .. Len(s) /\ j # i
      BY <1>1, <2>1, <2>2
    <3> QED BY <1>2, <2>1, <2>2, <3>1
  <2>3. CASE ~(j < i)
    <3>1. j + 1 \in 1 .. Len(s) /\ j + 1 # i
      BY <1>1, <2>1, <2>3
    <3> QED BY <1>2, <2>1, <2>3, <3>1
  <2> QED BY <2>2, <2>3
<1>6. /\ \A j \in DOMAIN w : \E k \in DOMAIN s : k # i /\ w[j] = s[k]
      /\ \A k \in DOMAIN s : k # i => \E j \in DOMAIN w : w[j] = s[k]
  BY <1>1, <1>4, <1>5
<1> QED BY <1>6 DEF w

\* What is in a ring when one fetch is put at its end.
LEMMA AppendPlaces ==
  ASSUME NEW S, NEW s \in Seq(S), NEW e \in S
  PROVE  /\ \A j \in DOMAIN Append(s, e) :
              Append(s, e)[j] = e \/ \E k \in DOMAIN s : Append(s, e)[j] = s[k]
         /\ \E j \in DOMAIN Append(s, e) : Append(s, e)[j] = e
         /\ \A k \in DOMAIN s : k \in DOMAIN Append(s, e) /\ Append(s, e)[k] = s[k]
<1> DEFINE t == Append(s, e)
<1>1. Len(s) \in Nat /\ DOMAIN s = 1 .. Len(s)
  BY LenProperties
<1>2. /\ t \in Seq(S) /\ Len(t) = Len(s) + 1 /\ t[Len(s) + 1] = e
      /\ \A i \in 1 .. Len(s) : t[i] = s[i]
  BY AppendProperties
<1>3. DOMAIN t = 1 .. (Len(s) + 1)
  BY <1>2, LenProperties
<1> HIDE DEF t
<1>4. \A j \in 1 .. (Len(s) + 1) : j \in 1 .. Len(s) \/ j = Len(s) + 1
  BY <1>1
<1>5. Len(s) + 1 \in DOMAIN t /\ \A j \in 1 .. Len(s) : j \in DOMAIN t
  BY <1>1, <1>3
<1>6. /\ \A j \in DOMAIN t : t[j] = e \/ \E k \in DOMAIN s : t[j] = s[k]
      /\ \E j \in DOMAIN t : t[j] = e
      /\ \A k \in DOMAIN s : k \in DOMAIN t /\ t[k] = s[k]
  BY <1>1, <1>2, <1>3, <1>4, <1>5
<1> QED BY <1>6 DEF t

\* A fetch that starts is on a ring, the others are where they were.
LEMMA StartAttaches ==
  ASSUME TypeOK, NEW f \in Fetches, StartFetch(f)
  PROVE  \A g \in Fetches : Attached(g)' <=> g = f \/ Attached(g)
<1>1. queue_ring' = Append(queue_ring, f) /\ fetch_ring' = fetch_ring
  BY DEF StartFetch
<1>2. \A g \in Fetches : Queued(g)' <=> g = f \/ Queued(g)
  <2>1. queue_ring \in Seq(Fetches)
    BY DEF TypeOK
  <2>2. /\ \A j \in DOMAIN queue_ring' : queue_ring'[j] = f \/ \E k \in DOMAIN queue_ring : queue_ring'[j] = queue_ring[k]
        /\ \E j \in DOMAIN queue_ring' : queue_ring'[j] = f
        /\ \A k \in DOMAIN queue_ring : k \in DOMAIN queue_ring' /\ queue_ring'[k] = queue_ring[k]
    BY <1>1, <2>1, AppendPlaces
  <2> QED BY <2>2 DEF Queued
<1> QED BY <1>1, <1>2 DEF Attached

\* A fetch that is dispatched goes from one ring to the other.
LEMMA DispatchAttaches ==
  ASSUME TypeOK, NEW i \in DOMAIN queue_ring, DispatchStarts(i)
  PROVE  \A g \in Fetches : Attached(g)' <=> Attached(g)
<1>1. queue_ring' = Without(queue_ring, i) /\ fetch_ring' = fetch_ring \union {queue_ring[i]}
  BY DEF DispatchStarts
<1>2. queue_ring \in Seq(Fetches) /\ i \in 1 .. Len(queue_ring)
  BY LenProperties DEF TypeOK
<1> DEFINE w == Without(queue_ring, i)
<1>a. /\ \A j \in DOMAIN w : \E k \in DOMAIN queue_ring : k # i /\ w[j] = queue_ring[k]
      /\ \A k \in DOMAIN queue_ring : k # i => \E j \in DOMAIN w : w[j] = queue_ring[k]
  BY <1>2, WithoutPlaces
<1> HIDE DEF w
<1>3. \A g \in Fetches : Queued(g)' <=> \E k \in DOMAIN queue_ring : k # i /\ queue_ring[k] = g
  <2>1. queue_ring' = w
    BY <1>1 DEF w
  <2> QED BY <1>a, <2>1 DEF Queued
<1> QED BY <1>1, <1>3 DEF Attached, Queued

\* A refused fetch goes to the end of the queue.
LEMMA PutBackAttaches ==
  ASSUME TypeOK, NEW i \in DOMAIN queue_ring, PutBack(i)
  PROVE  \A g \in Fetches : Attached(g)' <=> Attached(g)
<1>1. queue_ring' = Append(Without(queue_ring, i), queue_ring[i]) /\ fetch_ring' = fetch_ring
  BY DEF PutBack
<1>2. queue_ring \in Seq(Fetches) /\ i \in 1 .. Len(queue_ring)
  BY LenProperties DEF TypeOK
<1> DEFINE w == Without(queue_ring, i)
           q == queue_ring[i]
<1>3. w \in Seq(Fetches) /\ q \in Fetches
  BY <1>2, WithoutProperties, ElementOfSeq
<1>a. /\ \A j \in DOMAIN w : \E k \in DOMAIN queue_ring : k # i /\ w[j] = queue_ring[k]
      /\ \A k \in DOMAIN queue_ring : k # i => \E j \in DOMAIN w : w[j] = queue_ring[k]
  BY <1>2, WithoutPlaces
<1> HIDE DEF w, q
<1>4. \A g \in Fetches : Queued(g)' <=> g = q \/ \E j \in DOMAIN w : w[j] = g
  <2>1. queue_ring' = Append(w, q)
    BY <1>1 DEF w, q
  <2>2. /\ \A j \in DOMAIN queue_ring' : queue_ring'[j] = q \/ \E k \in DOMAIN w : queue_ring'[j] = w[k]
        /\ \E j \in DOMAIN queue_ring' : queue_ring'[j] = q
        /\ \A k \in DOMAIN w : k \in DOMAIN queue_ring' /\ queue_ring'[k] = w[k]
    BY <1>3, <2>1, AppendPlaces
  <2> QED BY <2>2 DEF Queued
<1>5. \A g \in Fetches : Queued(g)' <=> Queued(g)
  <2>1. i \in DOMAIN queue_ring /\ queue_ring[i] = q
    BY DEF q
  <2>2. ASSUME NEW g, Queued(g) PROVE g = q \/ \E j \in DOMAIN w : w[j] = g
    BY <1>a, <2>1, <2>2 DEF Queued
  <2>3. ASSUME NEW g, g = q \/ \E j \in DOMAIN w : w[j] = g PROVE Queued(g)
    BY <1>a, <2>1, <2>3 DEF Queued
  <2> QED BY <1>4, <2>2, <2>3
<1> QED BY <1>1, <1>5 DEF Attached

\* Taking a fetch off the ring its flag names takes it off both, and no other off.
LEMMA RemoveDetaches ==
  ASSUME TypeOK, RingsAgree, NEW f \in Fetches, RemoveFromQueues(f)
  PROVE  \A g \in Fetches : Attached(g)' <=> g # f /\ Attached(g)
<1>1. CASE fetch_is_active[f]
  <2>1. fetch_ring' = fetch_ring \ {f} /\ queue_ring' = queue_ring
    BY <1>1 DEF RemoveFromQueues
  <2>2. ~Queued(f)
    BY <1>1 DEF RingsAgree, Queued
  <2> QED BY <2>1, <2>2 DEF Attached, Queued
<1>2. CASE ~fetch_is_active[f]
  <2>1. PICK i \in DOMAIN queue_ring : queue_ring[i] = f /\ queue_ring' = Without(queue_ring, i)
    BY <1>2 DEF RemoveFromQueues
  <2>2. fetch_ring' = fetch_ring /\ f \notin fetch_ring
    BY <1>2 DEF RemoveFromQueues, RingsAgree
  <2>3. i \in 1 .. Len(queue_ring)
    BY LenProperties DEF TypeOK
  <2>4. \A g \in Fetches : Queued(g)' <=> \E k \in DOMAIN queue_ring : k # i /\ queue_ring[k] = g
    <3>1. queue_ring \in Seq(Fetches)
      BY DEF TypeOK
    <3>2. /\ \A j \in DOMAIN queue_ring' : \E k \in DOMAIN queue_ring : k # i /\ queue_ring'[j] = queue_ring[k]
          /\ \A k \in DOMAIN queue_ring : k # i => \E j \in DOMAIN queue_ring' : queue_ring'[j] = queue_ring[k]
      BY <2>1, <2>3, <3>1, WithoutPlaces
    <3> QED BY <3>2 DEF Queued
  <2>5. \A k \in DOMAIN queue_ring : k # i => queue_ring[k] # f
    BY <2>1 DEF RingsAgree
  <2> QED BY <2>1, <2>2, <2>4, <2>5 DEF Attached, Queued
<1> QED BY <1>1, <1>2

-----------------------------------------------------------------------------
\* The limits, counted on a finite ring.
FiniteLimits == IsFiniteSet(fetch_ring) /\ Limits

\* Fewer active fetches are within the limits too.
LEMMA FewerWithinLimits ==
  ASSUME FiniteLimits, fetch_ring' \subseteq fetch_ring
  PROVE  FiniteLimits'
<1>1. IsFiniteSet(fetch_ring') /\ Cardinality(fetch_ring') <= MaxFetchers
  BY FS_Subset, FS_CardinalityType, LimitAssumption DEF FiniteLimits, Limits
<1>2. ASSUME NEW h \in Hosts PROVE Cardinality(OnHost(h)') <= MaxPerHost
  <2>1. IsFiniteSet(OnHost(h)) /\ OnHost(h)' \subseteq OnHost(h)
    BY FS_Subset DEF FiniteLimits, OnHost
  <2> QED BY <2>1, FS_Subset, FS_CardinalityType, LimitAssumption DEF FiniteLimits, Limits
<1> QED BY <1>1, <1>2 DEF FiniteLimits, Limits

\* The fetch that is dispatched finds room under both limits.
LEMMA DispatchWithinLimits ==
  ASSUME TypeOK, FiniteLimits, NEW i \in DOMAIN queue_ring, DispatchStarts(i)
  PROVE  FiniteLimits'
<1> DEFINE x == queue_ring[i]
<1>1. /\ fetch_ring' = fetch_ring \union {x}
      /\ Cardinality(fetch_ring) < MaxFetchers
      /\ Cardinality(OnHost(Host[x])) < MaxPerHost
  BY DEF DispatchStarts, CanTry, Chosen, HasRoom
<1> HIDE DEF x
<1>2. IsFiniteSet(fetch_ring) /\ Cardinality(fetch_ring) \in Nat
  BY FS_CardinalityType DEF FiniteLimits
<1>3. IsFiniteSet(fetch_ring') /\ Cardinality(fetch_ring') <= MaxFetchers
  <2>1. /\ IsFiniteSet(fetch_ring \union {x})
        /\ \/ Cardinality(fetch_ring \union {x}) = Cardinality(fetch_ring)
           \/ Cardinality(fetch_ring \union {x}) = Cardinality(fetch_ring) + 1
    BY <1>2, FS_AddElement
  <2> QED BY <1>1, <1>2, <2>1, LimitAssumption
<1>4. ASSUME NEW h \in Hosts PROVE Cardinality(OnHost(h)') <= MaxPerHost
  <2>1. IsFiniteSet(OnHost(h)) /\ Cardinality(OnHost(h)) \in Nat
    BY <1>2, FS_Subset, FS_CardinalityType DEF OnHost
  <2>2. CASE Host[x] = h
    <3>1. OnHost(h)' = OnHost(h) \union {x}
      BY <1>1, <2>2 DEF OnHost
    <3>2. \/ Cardinality(OnHost(h) \union {x}) = Cardinality(OnHost(h))
          \/ Cardinality(OnHost(h) \union {x}) = Cardinality(OnHost(h)) + 1
      BY <2>1, FS_AddElement
    <3>3. Cardinality(OnHost(h)) < MaxPerHost
      BY <1>1, <2>2
    <3>4. Cardinality(OnHost(h) \union {x}) <= MaxPerHost
      BY <2>1, <3>2, <3>3, LimitAssumption
    <3> QED BY <3>1, <3>4
  <2>3. CASE Host[x] # h
    <3>1. OnHost(h)' = OnHost(h)
      BY <1>1, <2>3 DEF OnHost
    <3> QED BY <3>1 DEF FiniteLimits, Limits
  <2> QED BY <2>2, <2>3
<1> QED BY <1>3, <1>4 DEF FiniteLimits, Limits

\* max_fetchers and max_fetchers_per_host are never exceeded, whatever the
\* fetchers and the client do from inside their callbacks (fetch.c:28-31).
THEOREM LimitsHold == Spec => []Limits
<1>1. Init => FiniteLimits
  <2> SUFFICES ASSUME Init PROVE FiniteLimits
    OBVIOUS
  <2>1. fetch_ring = {} /\ \A h \in Hosts : OnHost(h) = {}
    BY DEF Init, OnHost
  <2> QED BY <2>1, FS_EmptySet, LimitAssumption DEF FiniteLimits, Limits
<1>2. TypeOK /\ FiniteLimits /\ [Next]_vars => FiniteLimits'
  <2> SUFFICES ASSUME TypeOK, FiniteLimits, [Next]_vars PROVE FiniteLimits'
    OBVIOUS
  <2>1. ASSUME NEW f \in Fetches,
               \/ StartFetch(f) \/ Free(f) \/ AbortDeferred(f)
               \/ \E m \in Messages : SendCallback(f, m)
        PROVE  FiniteLimits'
    BY <2>1, FewerWithinLimits DEF StartFetch, Free, AbortDeferred, SendCallback, rings
  <2>2. ASSUME NEW f \in Fetches, Remove(f) \/ AbortNow(f) PROVE FiniteLimits'
    BY <2>2, FewerWithinLimits DEF Remove, AbortNow, RemoveFromQueues
  <2>3. ASSUME NEW i \in DOMAIN queue_ring, DispatchStarts(i) PROVE FiniteLimits'
    BY <2>3, DispatchWithinLimits
  <2>4. ASSUME NEW i \in DOMAIN queue_ring, DispatchRefused(i) PROVE FiniteLimits'
    BY <2>4, FewerWithinLimits DEF DispatchRefused, PutBack
  <2>5. ASSUME DispatchEnds \/ FetcherPoll \/ FetchFdset \/ UNCHANGED vars
        PROVE  FiniteLimits'
    BY <2>5, FewerWithinLimits DEF DispatchEnds, FetcherPoll, FetchFdset, vars
  <2>6. ASSUME NEW b \in BOOLEAN, PollersDone(b) PROVE FiniteLimits'
    BY <2>6, FewerWithinLimits DEF PollersDone
  <2> QED BY <2>1, <2>2, <2>3, <2>4, <2>5, <2>6 DEF Next
<1>3. FiniteLimits => Limits
  BY DEF FiniteLimits
<1> QED BY <1>1, <1>2, <1>3, TypeCorrect, PTL DEF Spec

-----------------------------------------------------------------------------
\* Why no fetch is forgotten.  fetch_fdset polls only while fetcher_poll is
\* scheduled as well, and the two are never nested.
TimerInv ==
    /\ PollPending
    /\ polling = "fdset" => timer
    /\ job \in {"poll", "fdset"} => polling = "none"

\* With no active fetch the head of the queue has room: the dispatch loop cannot
\* end and leave it there.
LEMMA IdleLoopEmptiesQueue ==
  ASSUME TypeOK, DispatchEnds, fetch_ring = {}
  PROVE  queue_ring = <<>>
<1> SUFFICES ASSUME queue_ring # <<>> PROVE FALSE
  OBVIOUS
<1>1. 1 \in DOMAIN queue_ring
  <2>1. Len(queue_ring) \in Nat /\ DOMAIN queue_ring = 1 .. Len(queue_ring)
    BY LenProperties DEF TypeOK
  <2>2. Len(queue_ring) # 0
    BY EmptySeq, LenProperties DEF TypeOK
  <2> QED BY <2>1, <2>2
<1>2. OnHost(Host[queue_ring[1]]) = {}
  BY DEF OnHost
<1>3. Cardinality({}) = 0
  BY FS_EmptySet
<1>4. HasRoom(queue_ring[1])
  BY <1>2, <1>3, LimitAssumption DEF HasRoom
<1>5. Cardinality(fetch_ring) < MaxFetchers
  BY <1>3, LimitAssumption
<1>6. Chosen(1)
  BY <1>1, <1>4 DEF Chosen
<1> QED BY <1>1, <1>5, <1>6 DEF DispatchEnds, CanTry

\* No fetch is forgotten, provided a fetcher refuses a fetch only while another
\* transfer is unfinished or being polled (curl with memory to spare).  Without
\* the proviso it is false: see the finding CurlRetry in README.md.
THEOREM NothingForgotten ==
  ASSUME ~StartMayFail
  PROVE  Spec => []NoneForgotten
<1>1. Init => TimerInv
  BY DEF Init, TimerInv, PollPending, Work
<1>2. TypeOK /\ TimerInv /\ [Next]_vars => TimerInv'
  <2> SUFFICES ASSUME TypeOK, TimerInv, [Next]_vars PROVE TimerInv'
    OBVIOUS
  <2> USE DEF TimerInv, PollPending, Work
  <2>1. ASSUME NEW f \in Fetches, StartFetch(f) PROVE TimerInv'
    BY <2>1 DEF StartFetch, ClientRuns
  <2>2. ASSUME NEW f \in Fetches,
               \/ Free(f) \/ AbortDeferred(f) \/ \E m \in Messages : SendCallback(f, m)
        PROVE  TimerInv'
    BY <2>2 DEF Free, AbortDeferred, SendCallback, rings, stack
  <2>3. ASSUME NEW f \in Fetches, Remove(f) \/ AbortNow(f) PROVE TimerInv'
    <3>1. Work
      BY <2>3 DEF Remove, AbortNow, RemoveFromQueues, Attached, Queued
    <3> QED BY <2>3, <3>1 DEF Remove, AbortNow, stack
  <2>4. ASSUME NEW i \in DOMAIN queue_ring, DispatchStarts(i) PROVE TimerInv'
    <3>1. queue_ring # <<>>
      BY <2>4
    <3> QED BY <2>4, <3>1 DEF DispatchStarts, stack
  <2>5. ASSUME NEW i \in DOMAIN queue_ring, DispatchRefused(i) PROVE TimerInv'
    <3>1. queue_ring # <<>>
      BY <2>5
    <3>2. fetch_ring # {} \/ polling # "none"
      BY <2>5 DEF DispatchRefused, MayRefuse
    <3>3. job \in {"start", "poll", "fdset"} /\ polling \in {"none", "timer", "fdset"}
      BY <2>5 DEF DispatchRefused, PutBack, TypeOK
    <3>4. CASE job = "start"
      BY <2>5, <3>1, <3>2, <3>3, <3>4 DEF DispatchRefused, PutBack, CallerGoesOn
    <3>5. CASE job = "poll"
      BY <2>5, <3>1, <3>2, <3>3, <3>5 DEF DispatchRefused, PutBack, CallerGoesOn
    <3>6. CASE job = "fdset"
      BY <2>5, <3>1, <3>2, <3>3, <3>6 DEF DispatchRefused, PutBack, CallerGoesOn
    <3> QED BY <3>3, <3>4, <3>5, <3>6
  <2>6. ASSUME DispatchEnds PROVE TimerInv'
    <3>1. fetch_ring # {} \/ queue_ring = <<>>
      BY <2>6, IdleLoopEmptiesQueue
    <3>2. job \in {"start", "poll", "fdset"}
      BY <2>6 DEF DispatchEnds, TypeOK
    <3>3. CASE job = "start"
      BY <2>6, <3>1, <3>3 DEF DispatchEnds, CallerGoesOn
    <3>4. CASE job = "poll"
      BY <2>6, <3>1, <3>4 DEF DispatchEnds, CallerGoesOn
    <3>5. CASE job = "fdset"
      BY <2>6, <3>1, <3>5 DEF DispatchEnds, CallerGoesOn
    <3> QED BY <3>2, <3>3, <3>4, <3>5
  <2>7. CASE FetcherPoll \/ FetchFdset
    BY <2>7 DEF FetcherPoll, FetchFdset
  <2>8. ASSUME NEW b \in BOOLEAN, PollersDone(b) PROVE TimerInv'
    BY <2>8 DEF PollersDone, TypeOK
  <2>9. CASE UNCHANGED vars
    BY <2>9 DEF vars
  <2> HIDE DEF TimerInv, PollPending, Work
  <2> QED BY <2>1, <2>2, <2>3, <2>4, <2>5, <2>6, <2>7, <2>8, <2>9 DEF Next
<1>3. TimerInv => NoneForgotten
  BY DEF TimerInv, PollPending, NoneForgotten
<1> QED BY <1>1, <1>2, <1>3, TypeCorrect, PTL DEF Spec

-----------------------------------------------------------------------------
\* A fetch starts only where it is the first of its host in the queue: no fetch is
\* overtaken by one that was queued after it for the same host (fetch.c:173-200).
THEOREM QueueIsFair == Spec => FifoPerHost
<1> DEFINE A == \A i, j \in DOMAIN queue_ring :
                   /\ i < j
                   /\ Host[queue_ring[i]] = Host[queue_ring[j]]
                   /\ queue_ring[j] \in fetch_ring'
                   => queue_ring[i] \in fetch_ring'
<1>1. TypeOK /\ RingsAgree /\ [Next]_vars => [A]_vars
  <2> SUFFICES ASSUME TypeOK, RingsAgree, [Next]_vars,
                      NEW i \in DOMAIN queue_ring, NEW j \in DOMAIN queue_ring, i < j,
                      Host[queue_ring[i]] = Host[queue_ring[j]],
                      queue_ring[j] \in fetch_ring'
               PROVE  FALSE
    OBVIOUS
  <2>1. queue_ring[j] \notin fetch_ring
    BY DEF RingsAgree
  <2>2. PICK k \in DOMAIN queue_ring : DispatchStarts(k)
    BY <2>1 DEF Next, StartFetch, SendCallback, Remove, Free, AbortDeferred, AbortNow,
                RemoveFromQueues, DispatchRefused, PutBack, DispatchEnds, FetcherPoll,
                FetchFdset, PollersDone, rings, vars
  <2>3. queue_ring[j] = queue_ring[k]
    BY <2>1, <2>2 DEF DispatchStarts
  <2>4. j = k
    BY <2>3 DEF RingsAgree
  <2>5. i \in 1 .. (k - 1)
    BY <2>4, LenProperties DEF TypeOK
  <2>6. HasRoom(queue_ring[k]) /\ ~HasRoom(queue_ring[i])
    BY <2>2, <2>5 DEF DispatchStarts, CanTry, Chosen
  <2> QED BY <2>3, <2>4, <2>6 DEF HasRoom
<1>2. [][A]_vars => FifoPerHost
  BY DEF FifoPerHost
<1> QED BY <1>1, <1>2, TypeCorrect, RingsConsistent, PTL DEF Spec
==============================================================================
