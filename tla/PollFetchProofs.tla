--------------------------- MODULE PollFetchProofs ---------------------------
(***************************************************************************)
(* Proofs about the fetchers that need no network over the factory, for    *)
(* any fetches, hosts, limits and replies.                                 *)
(***************************************************************************)
EXTENDS PollFetch, FetchProofs

-----------------------------------------------------------------------------
\* What can still be said of a reply: the end of one, in which a completed message
\* comes last if at all.
Says == {s \in {<<>>, <<"HEADER", "DATA", "FINISHED">>, <<"DATA", "FINISHED">>, <<"FINISHED">>,
                <<"HEADER", "DATA", "ERROR">>, <<"DATA", "ERROR">>, <<"ERROR">>,
                <<"HEADER", "DATA">>, <<"DATA">>, <<"REDIRECT">>, <<"NOTMODIFIED">>} :
            \A k \in DOMAIN s : s[k] \in Messages}

\* The fetchers' own state.
PollTypes ==
    /\ ring \in [1 .. NFetchers -> Seq(Fetches)] /\ flagged \subseteq Fetches
    /\ at \in 1 .. NFetchers
    /\ cur = {} \/ \E f \in Fetches : cur = {f}
    /\ say \in Says /\ cb \in MsgType \union {"-"}
    /\ held \subseteq Fetches

\* The contexts on the rings and the one being polled are those of allocated
\* fetches, each once and on its own fetcher's ring.
OnRing(k) ==
    /\ Distinct(ring[k])
    /\ \A i \in 1 .. Len(ring[k]) :
          /\ ring[k][i] \in live /\ ring[k][i] \notin cur
          /\ Fetcherd[ring[k][i]] = k
Contexts ==
    /\ \A k \in 1 .. NFetchers : OnRing(k)
    /\ cur \subseteq live

\* What the client was told: an aborted fetch counts as told, one that waits has
\* been told nothing final, nor has one of whose reply something is left.
Told ==
    /\ \A f \in live \intersect flagged : last_msg[f] >= FETCH_MIN_FINISHED_MSG
    /\ \A f \in live \ (flagged \union cur) : last_msg[f] < FETCH_MIN_FINISHED_MSG
    /\ say # <<>> => \A f \in cur \ flagged : last_msg[f] < FETCH_MIN_FINISHED_MSG
    /\ cb = "-" => \A f \in cur \intersect flagged : say = <<>>
    /\ cur = {} => say = <<>> /\ cb = "-"
    /\ cur # {} => polling # "none"

\* The client has no pointer to a fetch it has aborted or has been told the end of,
\* but for a redirected or unmodified one, which it aborts before it returns; and
\* the fetches it has are on the rings, but for one that fetch_free will report.
Held ==
    /\ held \subseteq live /\ held \intersect flagged = {}
    /\ \A f \in held : \/ last_msg[f] < FETCH_MIN_FINISHED_MSG
                       \/ f \in cur /\ cb \in {"REDIRECT", "NOTMODIFIED"}
    /\ \A f \in held : Attached(f) \/ (f \in cur /\ say = <<>> /\ cb = "-")

PollInv == PollTypes /\ Contexts /\ Told /\ Held

-----------------------------------------------------------------------------
\* One message less of a reply: a completed message is the last one.
LEMMA SayStep ==
  ASSUME say \in Says, say # <<>>
  PROVE  /\ Head(say) \in Messages /\ Head(say) \in MsgType
         /\ Tail(say) \in Says
         /\ Rank[Head(say)] \in 0 .. 11
         /\ \/ Rank[Head(say)] < FETCH_MIN_FINISHED_MSG
            \/ /\ Tail(say) = <<>>
               /\ Head(say) \in {"FINISHED", "ERROR", "REDIRECT", "NOTMODIFIED"}
<1>1. \A k \in DOMAIN say : say[k] \in Messages
  BY DEF Says
<1> USE DEF MsgType, Rank, FETCH_MIN_FINISHED_MSG
<1>2. CASE say = <<"HEADER", "DATA", "FINISHED">>
  <2>1. Head(say) = "HEADER" /\ Tail(say) = <<"DATA", "FINISHED">>
        /\ say[1] = "HEADER" /\ say[2] = "DATA" /\ say[3] = "FINISHED" /\ DOMAIN say = 1 .. 3
    BY <1>2
  <2>2. "HEADER" \in Messages /\ "DATA" \in Messages /\ "FINISHED" \in Messages
    BY <1>1, <2>1
  <2>3. <<"DATA", "FINISHED">> \in Says
    BY <2>2 DEF Says
  <2>4. Head(say) \in Messages /\ Head(say) \in MsgType
    BY <2>1, <2>2
  <2>5. Tail(say) \in Says
    BY <2>1, <2>3
  <2>6. Rank["HEADER"] = 2 /\ FETCH_MIN_FINISHED_MSG = 4
    OBVIOUS
  <2>7. Rank[Head(say)] = 2
    BY <2>1, <2>6
  <2> HIDE DEF Rank, FETCH_MIN_FINISHED_MSG
  <2> QED BY <2>4, <2>5, <2>6, <2>7
<1>3. CASE say = <<"DATA", "FINISHED">>
  <2>1. Head(say) = "DATA" /\ Tail(say) = <<"FINISHED">>
        /\ say[1] = "DATA" /\ say[2] = "FINISHED" /\ DOMAIN say = 1 .. 2
    BY <1>3
  <2>2. "DATA" \in Messages /\ "FINISHED" \in Messages
    BY <1>1, <2>1
  <2>3. <<"FINISHED">> \in Says
    BY <2>2 DEF Says
  <2>4. Head(say) \in Messages /\ Head(say) \in MsgType
    BY <2>1, <2>2
  <2>5. Tail(say) \in Says
    BY <2>1, <2>3
  <2>6. Rank["DATA"] = 3 /\ FETCH_MIN_FINISHED_MSG = 4
    OBVIOUS
  <2>7. Rank[Head(say)] = 3
    BY <2>1, <2>6
  <2> HIDE DEF Rank, FETCH_MIN_FINISHED_MSG
  <2> QED BY <2>4, <2>5, <2>6, <2>7
<1>4. CASE say = <<"HEADER", "DATA", "ERROR">>
  <2>1. Head(say) = "HEADER" /\ Tail(say) = <<"DATA", "ERROR">>
        /\ say[1] = "HEADER" /\ say[2] = "DATA" /\ say[3] = "ERROR" /\ DOMAIN say = 1 .. 3
    BY <1>4
  <2>2. "HEADER" \in Messages /\ "DATA" \in Messages /\ "ERROR" \in Messages
    BY <1>1, <2>1
  <2>3. <<"DATA", "ERROR">> \in Says
    BY <2>2 DEF Says
  <2>4. Head(say) \in Messages /\ Head(say) \in MsgType
    BY <2>1, <2>2
  <2>5. Tail(say) \in Says
    BY <2>1, <2>3
  <2>6. Rank["HEADER"] = 2 /\ FETCH_MIN_FINISHED_MSG = 4
    OBVIOUS
  <2>7. Rank[Head(say)] = 2
    BY <2>1, <2>6
  <2> HIDE DEF Rank, FETCH_MIN_FINISHED_MSG
  <2> QED BY <2>4, <2>5, <2>6, <2>7
<1>5. CASE say = <<"DATA", "ERROR">>
  <2>1. Head(say) = "DATA" /\ Tail(say) = <<"ERROR">>
        /\ say[1] = "DATA" /\ say[2] = "ERROR" /\ DOMAIN say = 1 .. 2
    BY <1>5
  <2>2. "DATA" \in Messages /\ "ERROR" \in Messages
    BY <1>1, <2>1
  <2>3. <<"ERROR">> \in Says
    BY <2>2 DEF Says
  <2>4. Head(say) \in Messages /\ Head(say) \in MsgType
    BY <2>1, <2>2
  <2>5. Tail(say) \in Says
    BY <2>1, <2>3
  <2>6. Rank["DATA"] = 3 /\ FETCH_MIN_FINISHED_MSG = 4
    OBVIOUS
  <2>7. Rank[Head(say)] = 3
    BY <2>1, <2>6
  <2> HIDE DEF Rank, FETCH_MIN_FINISHED_MSG
  <2> QED BY <2>4, <2>5, <2>6, <2>7
<1>6. CASE say = <<"HEADER", "DATA">>
  <2>1. Head(say) = "HEADER" /\ Tail(say) = <<"DATA">>
        /\ say[1] = "HEADER" /\ say[2] = "DATA" /\ DOMAIN say = 1 .. 2
    BY <1>6
  <2>2. "HEADER" \in Messages /\ "DATA" \in Messages
    BY <1>1, <2>1
  <2>3. <<"DATA">> \in Says
    BY <2>2 DEF Says
  <2>4. Head(say) \in Messages /\ Head(say) \in MsgType
    BY <2>1, <2>2
  <2>5. Tail(say) \in Says
    BY <2>1, <2>3
  <2>6. Rank["HEADER"] = 2 /\ FETCH_MIN_FINISHED_MSG = 4
    OBVIOUS
  <2>7. Rank[Head(say)] = 2
    BY <2>1, <2>6
  <2> HIDE DEF Rank, FETCH_MIN_FINISHED_MSG
  <2> QED BY <2>4, <2>5, <2>6, <2>7
<1>7. CASE say = <<"DATA">>
  <2>1. Head(say) = "DATA" /\ Tail(say) = <<>>
        /\ say[1] = "DATA" /\ DOMAIN say = 1 .. 1
    BY <1>7
  <2>2. "DATA" \in Messages
    BY <1>1, <2>1
  <2>3. <<>> \in Says
    BY <2>2 DEF Says
  <2>4. Head(say) \in Messages /\ Head(say) \in MsgType
    BY <2>1, <2>2
  <2>5. Tail(say) \in Says
    BY <2>1, <2>3
  <2>6. Rank["DATA"] = 3 /\ FETCH_MIN_FINISHED_MSG = 4
    OBVIOUS
  <2>7. Rank[Head(say)] = 3
    BY <2>1, <2>6
  <2> HIDE DEF Rank, FETCH_MIN_FINISHED_MSG
  <2> QED BY <2>4, <2>5, <2>6, <2>7
<1>8. CASE \E m \in {"FINISHED", "ERROR", "REDIRECT", "NOTMODIFIED"} : say = <<m>>
  <2>1. PICK m \in {"FINISHED", "ERROR", "REDIRECT", "NOTMODIFIED"} : say = <<m>>
    BY <1>8
  <2>2. Head(say) = m /\ Tail(say) = <<>> /\ say[1] = m /\ DOMAIN say = 1 .. 1
    BY <2>1
  <2>3. m \in Messages
    BY <1>1, <2>2
  <2>4. <<>> \in Says
    BY DEF Says
  <2>5. Rank[m] \in 0 .. 11
    BY <2>1
  <2> HIDE DEF Rank, FETCH_MIN_FINISHED_MSG
  <2> QED BY <2>1, <2>2, <2>3, <2>4, <2>5
<1>9. \/ say = <<"HEADER", "DATA", "FINISHED">> \/ say = <<"DATA", "FINISHED">>
      \/ say = <<"HEADER", "DATA", "ERROR">> \/ say = <<"DATA", "ERROR">>
      \/ say = <<"HEADER", "DATA">> \/ say = <<"DATA">>
      \/ \E m \in {"FINISHED", "ERROR", "REDIRECT", "NOTMODIFIED"} : say = <<m>>
  BY DEF Says
<1> QED BY <1>2, <1>3, <1>4, <1>5, <1>6, <1>7, <1>8, <1>9

\* A whole reply.
LEMMA ReplyType ==
  ASSUME NEW r \in Replies
  PROVE  ReplyOf(r) \in Says
<1>1. r \in {"content", "malformed", "partial", "redirect", "notmodified", "truncated", "nothing"}
  BY PollAssumption
<1>2. \A k \in DOMAIN ReplyOf(r) : ReplyOf(r)[k] \in Messages
  BY RepliesAssumption
<1>3. ReplyOf(r) \in {<<"HEADER", "DATA", "FINISHED">>, <<"ERROR">>, <<"HEADER", "DATA", "ERROR">>,
                      <<"REDIRECT">>, <<"NOTMODIFIED">>, <<"HEADER", "DATA">>, <<>>}
  BY <1>1 DEF ReplyOf
<1> QED BY <1>2, <1>3 DEF Says

-----------------------------------------------------------------------------
\* The fetchers' own state keeps its type.
LEMMA PollTypesInit ==
  ASSUME PollInit
  PROVE  PollTypes
<1>1. ring \in [1 .. NFetchers -> Seq(Fetches)]
  BY EmptySeq DEF PollInit
<1>2. at \in 1 .. NFetchers
  BY FetcherAssumption DEF PollInit
<1> QED BY <1>1, <1>2 DEF PollInit, PollTypes, Says

LEMMA PollTypesHold == PollSpec => []PollTypes
<1>1. PollInit => PollTypes
  BY PollTypesInit
<1>2. PollTypes /\ [PollNext]_allVars => PollTypes'
  <2> SUFFICES ASSUME PollTypes, [PollNext]_allVars PROVE PollTypes'
    OBVIOUS
  <2>1. ASSUME NEW f \in Fetches, ClientStarts(f) PROVE PollTypes'
    <3>1. Fetcherd[f] \in 1 .. NFetchers
      BY FetcherAssumption
    <3>2. Append(ring[Fetcherd[f]], f) \in Seq(Fetches)
      BY <3>1, AppendProperties DEF PollTypes
    <3>3. ring' \in [1 .. NFetchers -> Seq(Fetches)]
      BY <2>1, <3>1, <3>2 DEF PollTypes, ClientStarts
    <3> QED BY <2>1, <3>3 DEF PollTypes, ClientStarts
  <2>2. ASSUME NEW f \in Fetches, ClientAborts(f) PROVE PollTypes'
    BY <2>2 DEF PollTypes, ClientAborts, Abort
  <2>3. CASE Take
    <3>1. /\ ring[at] # <<>> /\ cur' = {Head(ring[at])}
          /\ ring' = [ring EXCEPT ![at] = Tail(@)]
      BY <2>3 DEF Take
    <3>2. Head(ring[at]) \in Fetches /\ Tail(ring[at]) \in Seq(Fetches)
      BY <3>1, HeadTailProperties DEF PollTypes
    <3>3. say' \in Says
      BY <2>3, ReplyType DEF Take, Says
    <3> QED BY <2>3, <3>1, <3>2, <3>3 DEF PollTypes, Take
  <2>4. CASE Send
    <3>1. Head(say) \in MsgType /\ Tail(say) \in Says
      BY <2>4, SayStep DEF Send, PollTypes
    <3> QED BY <2>4, <3>1 DEF PollTypes, Send, Tell
  <2>5. CASE Return
    <3>1. <<>> \in Says
      BY DEF Says
    <3> QED BY <2>5, <3>1 DEF PollTypes, Return
  <2>6. CASE Release
    BY <2>6 DEF PollTypes, Release
  <2>7. CASE UNCHANGED pollVars
    BY <2>7 DEF PollTypes, pollVars
  <2>9. CASE Report
    <3>1. "ERROR" \in MsgType
      BY DEF MsgType
    <3> QED BY <2>9, <3>1 DEF PollTypes, Report, Tell
  <2>10. CASE NextFetcher
    <3>1. at + 1 \in 1 .. NFetchers
      BY <2>10, FetcherAssumption DEF PollTypes, NextFetcher
    <3> QED BY <2>10, <3>1 DEF PollTypes, NextFetcher
  <2>11. CASE PollEnds
    BY <2>11, FetcherAssumption DEF PollTypes, PollEnds
  <2>8. UNCHANGED allVars => UNCHANGED pollVars
    BY DEF allVars
  <2> QED BY <2>1, <2>2, <2>3, <2>4, <2>5, <2>6, <2>7, <2>8, <2>9, <2>10, <2>11
          DEF PollNext, System, Dispatches, Finish
<1> QED BY <1>1, <1>2, PTL DEF PollSpec

\* Every step of these fetchers is one that the factory allows any fetcher.
LEMMA StepIsFetch ==
  ASSUME PollTypes, [PollNext]_allVars
  PROVE  [Next]_vars
<1>1. ASSUME NEW f \in Fetches, ClientStarts(f) \/ ClientAborts(f) PROVE Next
  BY <1>1 DEF ClientStarts, ClientAborts, Abort, Next
<1>2. ASSUME NEW i \in DOMAIN queue_ring, Dispatches(i) PROVE Next
  BY <1>2 DEF Dispatches, Next
<1>3. CASE DispatchEnds \/ FetcherPoll \/ PollersDone(FALSE)
  BY <1>3 DEF Next
<1>4. CASE Send
  <2>1. Head(say) \in Messages
    BY <1>4, SayStep DEF Send, PollTypes
  <2> QED BY <1>4, <2>1 DEF Send, Tell, Next, PollTypes
<1>5. CASE Finish \/ Release
  BY <1>5 DEF Finish, Release, Next, PollTypes
<1>6. CASE Take \/ Return \/ NextFetcher \/ UNCHANGED allVars
  BY <1>6 DEF Take, Return, NextFetcher, allVars
<1>7. CASE Report
  BY <1>7, ErrorAssumption DEF Report, Tell, Next, PollTypes
<1> QED BY <1>1, <1>2, <1>3, <1>4, <1>5, <1>6, <1>7 DEF PollNext, System, PollEnds

\* The data, file, resource and about fetchers over the factory implement what Fetch
\* promises of any fetcher, so that the factory's theorems hold for them.
LEMMA PollImplementsFetch == PollSpec => ImplementsFetch
<1>1. PollInit => Init
  BY DEF PollInit
<1>2. PollTypes /\ [PollNext]_allVars => [Next]_vars
  BY StepIsFetch
<1> QED BY <1>1, <1>2, PollTypesHold, PTL DEF PollSpec, Spec, ImplementsFetch

-----------------------------------------------------------------------------
\* The factory's invariants, of which the steps of the fetchers make use.
Factory == TypeOK /\ RingsAgree

\* What holds before and after a step.
Around == PollInv /\ PollTypes' /\ Factory /\ TypeOK'

\* A ring, addressed by place.
LEMMA RingPlaces ==
  ASSUME PollTypes, NEW k \in 1 .. NFetchers
  PROVE  /\ ring[k] \in Seq(Fetches) /\ Len(ring[k]) \in Nat
         /\ DOMAIN ring[k] = 1 .. Len(ring[k])
         /\ \A i \in 1 .. Len(ring[k]) : ring[k][i] \in Fetches
<1>1. ring[k] \in Seq(Fetches)
  BY DEF PollTypes
<1> QED BY <1>1, LenProperties, ElementOfSeq

\* A new fetch: its context goes to the end of its fetcher's ring.
LEMMA ClientStartsKeeps ==
  ASSUME Around, NEW f \in Fetches, ClientStarts(f)
  PROVE  PollInv'
<1> DEFINE d == Fetcherd[f]
<1>1. /\ f \notin live /\ f \notin cur /\ live' = live \union {f}
      /\ ring' = [ring EXCEPT ![d] = Append(@, f)]
      /\ flagged' = flagged \ {f} /\ held' = held \union {f}
      /\ UNCHANGED <<cur, say, cb, polling>>
      /\ last_msg' = [last_msg EXCEPT ![f] = 0]
  BY DEF Around, PollInv, Contexts, ClientStarts, StartFetch
<1>2. d \in 1 .. NFetchers
  BY FetcherAssumption
<1> HIDE DEF d
<1>3. /\ ring'[d] = Append(ring[d], f)
      /\ \A k \in 1 .. NFetchers : k # d => ring'[k] = ring[k]
  BY <1>1, <1>2 DEF Around, PollInv, PollTypes
<1>4. ring[d] \in Seq(Fetches) /\ Len(ring[d]) \in Nat
  BY <1>2, RingPlaces DEF Around, PollInv
<1>5. /\ Len(ring'[d]) = Len(ring[d]) + 1 /\ ring'[d][Len(ring[d]) + 1] = f
      /\ \A i \in 1 .. Len(ring[d]) : ring'[d][i] = ring[d][i]
  BY <1>3, <1>4, AppendProperties
<1>6. \A i \in 1 .. Len(ring'[d]) : \/ i \in 1 .. Len(ring[d]) /\ ring'[d][i] = ring[d][i]
                                    \/ i = Len(ring[d]) + 1 /\ ring'[d][i] = f
  BY <1>4, <1>5
<1>7. \A k \in 1 .. NFetchers : OnRing(k)
  BY DEF Around, PollInv, Contexts
<1>8. OnRing(d)'
  <2>1. Distinct(ring[d])
        /\ \A i \in 1 .. Len(ring[d]) :
              ring[d][i] \in live /\ ring[d][i] \notin cur /\ Fetcherd[ring[d][i]] = d
    BY <1>2, <1>7 DEF OnRing
  <2>2. Distinct(ring'[d])
    BY <1>1, <1>6, <2>1 DEF Distinct
  <2>3. \A i \in 1 .. Len(ring'[d]) :
           ring'[d][i] \in live' /\ ring'[d][i] \notin cur' /\ Fetcherd[ring'[d][i]] = d
    BY <1>1, <1>6, <2>1 DEF d
  <2> QED BY <2>2, <2>3 DEF OnRing, Distinct
<1>9. Contexts'
  <2>1. \A k \in 1 .. NFetchers : k # d => OnRing(k)'
    BY <1>1, <1>3, <1>7 DEF OnRing, Distinct
  <2> QED BY <1>1, <1>8, <2>1 DEF Around, PollInv, Contexts
<1>10. last_msg'[f] = 0 /\ \A g \in Fetches \ {f} : last_msg'[g] = last_msg[g]
  BY <1>1 DEF Around, Factory, TypeOK
<1>11. 0 < FETCH_MIN_FINISHED_MSG
  BY DEF FETCH_MIN_FINISHED_MSG, Rank
<1>12. Told'
  BY <1>1, <1>10, <1>11 DEF Around, Factory, TypeOK, PollInv, PollTypes, Told
<1>13. Held'
  <2>1. \A g \in Fetches : g = f \/ Attached(g) => Attached(g)'
    BY StartAttaches DEF Around, Factory, ClientStarts
  <2>2. \A g \in held' : g = f \/ g \in held
    BY <1>1
  <2>3. held' \subseteq live' /\ held' \intersect flagged' = {}
    BY <1>1 DEF Around, PollInv, Held
  <2>4. \A g \in held' : \/ last_msg'[g] < FETCH_MIN_FINISHED_MSG
                         \/ g \in cur' /\ cb' \in {"REDIRECT", "NOTMODIFIED"}
    BY <1>1, <1>10, <1>11, <2>2 DEF Around, PollInv, PollTypes, Held
  <2>5. \A g \in held' : Attached(g)' \/ (g \in cur' /\ say' = <<>> /\ cb' = "-")
    BY <1>1, <2>1, <2>2 DEF Around, PollInv, PollTypes, Held
  <2> QED BY <2>3, <2>4, <2>5 DEF Held
<1> QED BY <1>9, <1>12, <1>13 DEF Around, PollInv

\* Steps that leave the rings of the fetchers and what is allocated alone.
LEMMA ContextsStay ==
  ASSUME Contexts, UNCHANGED <<ring, live, cur>>
  PROVE  Contexts'
BY DEF Contexts, OnRing, Distinct

\* An abort: the client's pointer goes, the flag and last_msg say so.
LEMMA ClientAbortsKeeps ==
  ASSUME Around, NEW f \in Fetches, ClientAborts(f)
  PROVE  PollInv'
<1>1. /\ flagged' = flagged \union {f} /\ held' = held \ {f}
      /\ UNCHANGED <<ring, cur, say, cb, live, queue_ring, fetch_ring, polling>>
      /\ last_msg' = [last_msg EXCEPT ![f] = FETCH__INTERNAL_ABORTED]
  BY DEF ClientAborts, Abort, AbortDeferred, rings, stack
<1>2. cur # {} => cb # "-"
  BY DEF Around, PollInv, Told, ClientAborts, ClientTurn
<1>3. last_msg'[f] >= FETCH_MIN_FINISHED_MSG
      /\ \A g \in Fetches \ {f} : last_msg'[g] = last_msg[g]
  BY <1>1 DEF Around, Factory, TypeOK, FETCH__INTERNAL_ABORTED, FETCH_MIN_FINISHED_MSG, Rank
<1>4. Contexts'
  BY <1>1, ContextsStay DEF Around, PollInv
<1>5. Told'
  BY <1>1, <1>2, <1>3 DEF Around, Factory, TypeOK, PollInv, PollTypes, Told
<1>6. Held'
  BY <1>1, <1>3 DEF Around, PollInv, PollTypes, Held, Attached, Queued
<1> QED BY <1>4, <1>5, <1>6 DEF Around, PollInv

\* The steps of the factory alone: of the fetches the client holds, some go from
\* the queue to the active ones.
LEMMA FactoryKeeps ==
  ASSUME Around, UNCHANGED <<ring, flagged, cur, say, cb, held>>,
         \/ \E i \in DOMAIN queue_ring : DispatchStarts(i)
         \/ DispatchEnds \/ FetcherPoll \/ (cur = {} /\ PollersDone(FALSE))
         \/ UNCHANGED vars
  PROVE  PollInv'
<1>1. UNCHANGED <<ring, flagged, cur, say, cb, held, live, last_msg>>
  BY DEF DispatchStarts, DispatchEnds, FetcherPoll, PollersDone, vars
<1>2. polling # "none" /\ cur # {} => polling' # "none"
  BY DEF DispatchStarts, DispatchEnds, CallerGoesOn, FetcherPoll, PollersDone, stack, vars
<1>3. \A f \in Fetches : Attached(f) => Attached(f)'
  <2>1. CASE \E i \in DOMAIN queue_ring : DispatchStarts(i)
    BY <2>1, DispatchAttaches DEF Around, Factory
  <2>2. CASE DispatchEnds \/ FetcherPoll \/ PollersDone(FALSE) \/ UNCHANGED vars
    BY <2>2 DEF DispatchEnds, FetcherPoll, PollersDone, vars, Attached, Queued
  <2> QED BY <2>1, <2>2
<1>4. Contexts'
  BY <1>1, ContextsStay DEF Around, PollInv
<1>5. Told'
  BY <1>1, <1>2 DEF Around, PollInv, Told
<1>6. Held'
  BY <1>1, <1>3 DEF Around, PollInv, PollTypes, Held
<1> QED BY <1>4, <1>5, <1>6 DEF Around, PollInv

\* The head of the polled fetcher's ring is taken off it.
LEMMA TakeKeeps ==
  ASSUME Around, Take
  PROVE  PollInv'
<1> DEFINE f == Head(ring[at])
<1>1. /\ UNCHANGED <<live, last_msg, queue_ring, fetch_ring, polling, flagged, cb, held>>
      /\ cur = {} /\ cb = "-" /\ polling # "none" /\ cur' = {f} /\ ring[at] # <<>>
      /\ ring' = [ring EXCEPT ![at] = Tail(@)]
      /\ f \in flagged => say' = <<>>
  BY DEF Take, InPoll, vars
<1>2. at \in 1 .. NFetchers
  BY DEF Around, PollInv, PollTypes
<1>3. ring[at] \in Seq(Fetches) /\ ring[at] # <<>> /\ Len(ring[at]) \in Nat
  BY <1>1, <1>2, RingPlaces DEF Around, PollInv
<1>4. /\ ring'[at] = Tail(ring[at])
      /\ \A k \in 1 .. NFetchers : k # at => ring'[k] = ring[k]
  BY <1>1, <1>2 DEF Around, PollInv, PollTypes
<1>5. /\ Len(ring'[at]) = Len(ring[at]) - 1 /\ f = ring[at][1]
      /\ \A i \in 1 .. Len(ring'[at]) : ring'[at][i] = ring[at][i + 1]
  BY <1>3, <1>4, HeadTailProperties
<1>6. Len(ring[at]) # 0
  BY <1>3, EmptySeq, LenProperties
<1>7. \A k \in 1 .. NFetchers : OnRing(k)
  BY DEF Around, PollInv, Contexts
<1> HIDE DEF f
<1>8. /\ 1 \in 1 .. Len(ring[at])
      /\ \A i \in 1 .. Len(ring'[at]) : i + 1 \in 1 .. Len(ring[at]) /\ i + 1 # 1
  BY <1>3, <1>5, <1>6
<1>9. f \in live /\ Fetcherd[f] = at
  BY <1>2, <1>5, <1>7, <1>8 DEF OnRing
<1>10. OnRing(at)'
  <2>1. Distinct(ring[at])
        /\ \A i \in 1 .. Len(ring[at]) : ring[at][i] \in live /\ Fetcherd[ring[at][i]] = at
    BY <1>2, <1>7 DEF OnRing
  <2>2. Distinct(ring'[at])
    <3> SUFFICES ASSUME NEW i \in 1 .. Len(ring'[at]), NEW j \in 1 .. Len(ring'[at]),
                        ring'[at][i] = ring'[at][j]
                 PROVE  i = j
      BY DEF Distinct
    <3>1. i + 1 = j + 1
      BY <1>5, <1>8, <2>1 DEF Distinct
    <3> QED BY <3>1, <1>3, <1>5
  <2>3. \A i \in 1 .. Len(ring'[at]) :
           ring'[at][i] \in live' /\ ring'[at][i] \notin cur' /\ Fetcherd[ring'[at][i]] = at
    BY <1>1, <1>5, <1>8, <2>1 DEF Distinct
  <2>4. at' = at
    BY DEF Take
  <2> QED BY <2>2, <2>3, <2>4 DEF OnRing, Distinct
<1>11. \A k \in 1 .. NFetchers : k # at => OnRing(k)'
  <2> SUFFICES ASSUME NEW k \in 1 .. NFetchers, k # at PROVE OnRing(k)'
    OBVIOUS
  <2>1. OnRing(k) /\ ring'[k] = ring[k]
    BY <1>4, <1>7
  <2>2. \A i \in 1 .. Len(ring[k]) : ring[k][i] # f
    BY <1>9, <2>1 DEF OnRing
  <2> QED BY <1>1, <2>1, <2>2 DEF OnRing, Distinct
<1>12. Contexts'
  BY <1>1, <1>9, <1>10, <1>11 DEF Contexts, Take
<1>13. Told'
  BY <1>1, <1>9 DEF Around, Factory, TypeOK, PollInv, Told
<1>14. Held'
  BY <1>1 DEF Around, PollInv, Held, Attached, Queued
<1> QED BY <1>12, <1>13, <1>14 DEF Around, PollInv

\* What a message leaves of last_msg.
LEMMA TellMarks ==
  ASSUME Factory, NEW f \in Fetches, NEW m \in MsgType, Rank[m] \in 0 .. 11, Tell(f, m)
  PROVE  /\ Rank[m] < FETCH_MIN_FINISHED_MSG /\ last_msg[f] < FETCH_MIN_FINISHED_MSG
              => last_msg'[f] < FETCH_MIN_FINISHED_MSG
         /\ \A g \in Fetches \ {f} : last_msg'[g] = last_msg[g]
         /\ UNCHANGED <<live, queue_ring, fetch_ring, polling>>
<1>1. last_msg \in [Fetches -> 0 .. 11]
  BY DEF Factory, TypeOK
<1>2. last_msg' = [last_msg EXCEPT ![f] = IF Rank[m] > @ THEN Rank[m] ELSE @]
      /\ UNCHANGED <<live, queue_ring, fetch_ring, polling>>
  BY DEF Tell, SendCallback, stack
<1> QED BY <1>1, <1>2

\* One message of the reply: a completed message is the last one.
LEMMA SendKeeps ==
  ASSUME Around, Send
  PROVE  PollInv'
<1>1. PICK f \in cur : Tell(f, Head(say))
  BY DEF Send
<1>2. /\ UNCHANGED <<ring, flagged, cur>>
      /\ say # <<>> /\ cb = "-" /\ polling # "none" /\ say' = Tail(say) /\ cb' = Head(say)
      /\ held' = IF Head(say) \in {"FINISHED", "ERROR"} THEN held \ {f} ELSE held
  BY <1>1 DEF Send, Tell, InPoll
<1>3. cur = {f} /\ f \in Fetches /\ f \in live
  BY <1>1 DEF Around, PollInv, PollTypes, Contexts
<1>4. /\ Head(say) \in MsgType /\ Rank[Head(say)] \in 0 .. 11
      /\ \/ Rank[Head(say)] < FETCH_MIN_FINISHED_MSG
         \/ say' = <<>> /\ Head(say) \in {"FINISHED", "ERROR", "REDIRECT", "NOTMODIFIED"}
  BY <1>2, SayStep DEF Around, PollInv, PollTypes
<1>5. f \notin flagged /\ last_msg[f] < FETCH_MIN_FINISHED_MSG
  BY <1>2, <1>3 DEF Around, PollInv, Told
<1>6. /\ say' # <<>> => last_msg'[f] < FETCH_MIN_FINISHED_MSG
      /\ \/ last_msg'[f] < FETCH_MIN_FINISHED_MSG
         \/ Head(say) \in {"FINISHED", "ERROR", "REDIRECT", "NOTMODIFIED"}
      /\ \A g \in Fetches \ {f} : last_msg'[g] = last_msg[g]
      /\ UNCHANGED <<live, queue_ring, fetch_ring, polling>>
  BY <1>1, <1>3, <1>4, <1>5, TellMarks DEF Around
<1>7. Contexts'
  BY <1>2, <1>6, ContextsStay DEF Around, PollInv
<1>8. cb' # "-"
  BY <1>2, <1>4 DEF MsgType
<1>9. Told'
  BY <1>2, <1>3, <1>5, <1>6, <1>8 DEF Around, Factory, TypeOK, PollInv, Told
<1>10. Held'
  <2>1. held' \subseteq held /\ (f \in held' => Head(say) \notin {"FINISHED", "ERROR"})
    BY <1>2
  <2>2. \A g \in held' : \/ last_msg'[g] < FETCH_MIN_FINISHED_MSG
                         \/ g \in cur' /\ cb' \in {"REDIRECT", "NOTMODIFIED"}
    <3> SUFFICES ASSUME NEW g \in held'
                 PROVE  \/ last_msg'[g] < FETCH_MIN_FINISHED_MSG
                        \/ g \in cur' /\ cb' \in {"REDIRECT", "NOTMODIFIED"}
      OBVIOUS
    <3>1. CASE g = f
      BY <1>2, <1>3, <1>6, <2>1, <3>1
    <3>2. CASE g # f
      <4>1. g \in Fetches \ {f} /\ g \notin cur /\ g \in held
        BY <1>3, <2>1, <3>2 DEF Around, PollInv, PollTypes
      <4> QED BY <1>6, <4>1 DEF Around, PollInv, Held
    <3> QED BY <3>1, <3>2
  <2>3. \A g \in held' : Attached(g)'
    BY <1>2, <1>6, <2>1 DEF Around, PollInv, Held, Attached, Queued
  <2> QED BY <1>2, <1>6, <2>1, <2>2, <2>3 DEF Around, PollInv, Held
<1> QED BY <1>7, <1>9, <1>10 DEF Around, PollInv

\* fetch_free's report: the client's pointer goes with it.
LEMMA ReportKeeps ==
  ASSUME Around, Report
  PROVE  PollInv'
<1>1. PICK f \in cur : Tell(f, "ERROR") /\ last_msg[f] < FETCH_MIN_FINISHED_MSG
  BY DEF Report
<1>2. /\ UNCHANGED <<ring, flagged, cur, say>>
      /\ say = <<>> /\ cb = "-" /\ polling # "none" /\ cb' = "ERROR" /\ held' = held \ {f}
  BY <1>1 DEF Report, Tell, InPoll
<1>3. cur = {f} /\ f \in Fetches /\ f \in live
  BY <1>1 DEF Around, PollInv, PollTypes, Contexts
<1>4. "ERROR" \in MsgType /\ Rank["ERROR"] \in 0 .. 11
  BY DEF MsgType, Rank
<1>5. last_msg[f] \in 0 .. 11 /\ FETCH_MIN_FINISHED_MSG = 4
  BY <1>3 DEF Around, Factory, TypeOK, FETCH_MIN_FINISHED_MSG, Rank
<1>6. f \notin flagged
  BY <1>1, <1>3, <1>5 DEF Around, PollInv, Told
<1>7. /\ \A g \in Fetches \ {f} : last_msg'[g] = last_msg[g]
      /\ UNCHANGED <<live, queue_ring, fetch_ring, polling>>
  BY <1>1, <1>3, <1>4, TellMarks DEF Around
<1>8. Contexts'
  BY <1>2, <1>7, ContextsStay DEF Around, PollInv
<1>9. Told'
  BY <1>2, <1>3, <1>6, <1>7 DEF Around, Factory, TypeOK, PollInv, Told
<1>10. \A g \in held' : g \in held /\ g \in Fetches \ {f} /\ g \notin cur
  BY <1>2, <1>3 DEF Around, PollInv, PollTypes
<1>11. Held'
  BY <1>2, <1>7, <1>10 DEF Around, PollInv, Held, Attached, Queued
<1> QED BY <1>8, <1>9, <1>11 DEF Around, PollInv

\* The client returns: the rest of the reply is dropped when it has aborted.
LEMMA ReturnKeeps ==
  ASSUME Around, Return
  PROVE  PollInv'
<1>1. /\ UNCHANGED <<live, last_msg, queue_ring, fetch_ring, polling, ring, flagged, cur, held>>
      /\ cb # "-" /\ cb' = "-"
      /\ cb \in {"REDIRECT", "NOTMODIFIED"} => cur \subseteq flagged
      /\ say' = IF cur \subseteq flagged THEN <<>> ELSE say
  BY DEF Return, vars
<1>2. PICK f \in Fetches : cur = {f}
  BY <1>1 DEF Around, PollInv, PollTypes, Told
<1>3. Contexts'
  BY <1>1, ContextsStay DEF Around, PollInv
<1>4. Told'
  BY <1>1, <1>2 DEF Around, PollInv, Told
<1>5. Held'
  BY <1>1, <1>2 DEF Around, PollInv, Held, Attached, Queued
<1> QED BY <1>3, <1>4, <1>5 DEF Around, PollInv

\* The fetch with nothing left to be said leaves the factory's rings; when the
\* client still has it, fetch_free comes next.
LEMMA FinishKeeps ==
  ASSUME Around, Finish
  PROVE  PollInv'
<1>1. PICK f \in cur : Remove(f)
  BY DEF Finish
<1>2. UNCHANGED <<ring, flagged, cur, say, cb, held, live, last_msg, polling>>
      /\ cb = "-" /\ say = <<>>
  BY <1>1 DEF Finish, InPoll, Remove, pollVars, stack
<1>3. f \in Fetches /\ cur = {f}
  BY <1>1 DEF Around, PollInv, PollTypes
<1>4. \A g \in Fetches \ {f} : Attached(g) => Attached(g)'
  BY <1>1, <1>3, RemoveDetaches DEF Around, Factory, Remove
<1>5. Contexts'
  BY <1>2, ContextsStay DEF Around, PollInv
<1>6. Told'
  BY <1>2 DEF Around, PollInv, Told
<1>7. Held'
  BY <1>2, <1>3, <1>4 DEF Around, PollInv, PollTypes, Held
<1> QED BY <1>5, <1>6, <1>7 DEF Around, PollInv

\* It is freed; the client has given it up.
LEMMA ReleaseKeeps ==
  ASSUME Around, Release
  PROVE  PollInv' /\ held \intersect (live \ live') = {}
<1>1. PICK f \in cur : Free(f)
  BY DEF Release
<1>2. /\ UNCHANGED <<ring, flagged, say, cb, held, last_msg, queue_ring, fetch_ring, polling>>
      /\ cb = "-" /\ say = <<>> /\ cur' = {} /\ live' = live \ {f}
      /\ last_msg[f] >= FETCH_MIN_FINISHED_MSG
  BY <1>1 DEF Release, InPoll, Free, rings, stack
<1>3. cur = {f} /\ f \in Fetches
  BY <1>1 DEF Around, PollInv, PollTypes
<1>4. last_msg[f] \in 0 .. 11 /\ FETCH_MIN_FINISHED_MSG = 4
  BY <1>3 DEF Around, Factory, TypeOK, FETCH_MIN_FINISHED_MSG, Rank
<1>5. f \notin held
  BY <1>2, <1>4 DEF Around, PollInv, Held
<1>6. \A k \in 1 .. NFetchers : OnRing(k)'
  BY <1>2, <1>3 DEF Around, PollInv, Contexts, OnRing, Distinct
<1>7. Contexts'
  BY <1>2, <1>6 DEF Contexts
<1>8. Told'
  BY <1>2, <1>3 DEF Around, PollInv, Told
<1>9. \A g \in held' : g \in held /\ g # f /\ g \notin cur
  BY <1>2, <1>3, <1>5
<1>10. Held'
  BY <1>2, <1>9 DEF Around, PollInv, Held, Attached, Queued
<1> QED BY <1>2, <1>5, <1>7, <1>8, <1>10 DEF Around, PollInv

\* The factory's theorems, for these fetchers.
LEMMA FactoryHolds == PollSpec => []Factory
BY PollImplementsFetch, TypeCorrect, RingsConsistent, PTL DEF ImplementsFetch, Factory

\* The invariant is inductive.
LEMMA PollInvariance == PollSpec => []PollInv
<1>1. PollInit => PollInv
  <2> SUFFICES ASSUME PollInit PROVE PollInv
    OBVIOUS
  <2>1. PollTypes
    BY PollTypesInit
  <2>2. \A k \in 1 .. NFetchers : ring[k] = <<>>
    BY DEF PollInit
  <2>3. Len(<<>>) = 0 /\ 1 .. 0 = {}
    BY EmptySeq
  <2>4. \A k \in 1 .. NFetchers : OnRing(k)
    BY <2>2, <2>3 DEF OnRing, Distinct
  <2>5. Contexts
    BY <2>4 DEF PollInit, Init, Contexts
  <2> QED BY <2>1, <2>5 DEF PollInit, Init, PollInv, Told, Held
<1>2. PollInv /\ PollTypes' /\ Factory /\ Factory' /\ [PollNext]_allVars => PollInv'
  <2> SUFFICES ASSUME Around, [PollNext]_allVars PROVE PollInv'
    BY DEF Around, Factory
  <2>1. CASE UNCHANGED allVars
    <3>1. UNCHANGED <<ring, flagged, cur, say, cb, held>> /\ UNCHANGED vars
      BY <2>1 DEF allVars, pollVars
    <3> QED BY <3>1, FactoryKeeps
  <2>2. CASE PollEnds
    <3>1. UNCHANGED <<ring, flagged, cur, say, cb, held>> /\ cur = {} /\ PollersDone(FALSE)
      BY <2>2 DEF PollEnds, Drained
    <3> QED BY <3>1, FactoryKeeps
  <2>3. CASE NextFetcher
    <3>1. UNCHANGED <<ring, flagged, cur, say, cb, held>> /\ UNCHANGED vars
      BY <2>3 DEF NextFetcher
    <3> QED BY <3>1, FactoryKeeps
  <2>4. CASE \/ \E i \in DOMAIN queue_ring : Dispatches(i)
             \/ DispatchEnds /\ UNCHANGED pollVars
             \/ FetcherPoll /\ UNCHANGED pollVars
    <3>1. UNCHANGED <<ring, flagged, cur, say, cb, held>>
      BY <2>4 DEF Dispatches, pollVars
    <3>2. (\E i \in DOMAIN queue_ring : DispatchStarts(i)) \/ DispatchEnds \/ FetcherPoll
      BY <2>4 DEF Dispatches
    <3> QED BY <3>1, <3>2, FactoryKeeps
  <2> QED BY <2>1, <2>2, <2>3, <2>4, ClientStartsKeeps, ClientAbortsKeeps, TakeKeeps, SendKeeps,
             ReturnKeeps, FinishKeeps, ReportKeeps, ReleaseKeeps DEF PollNext, System
<1> QED BY <1>1, <1>2, PollTypesHold, FactoryHolds, PTL DEF PollSpec

-----------------------------------------------------------------------------
\* These fetchers keep their types: at most one context is being polled.
THEOREM PollTypeCorrect == PollSpec => []PollTypeOK
<1>1. PollTypes /\ Factory => PollTypeOK
  <2> SUFFICES ASSUME PollTypes, Factory PROVE PollTypeOK
    OBVIOUS
  <2>1. cur \subseteq Fetches /\ Cardinality(cur) <= 1
    <3>1. CASE cur = {}
      BY <3>1, FS_EmptySet
    <3>2. ASSUME NEW f \in Fetches, cur = {f} PROVE cur \subseteq Fetches /\ Cardinality(cur) <= 1
      <4>1. Cardinality(cur) = 1
        BY <3>2, FS_Singleton
      <4> QED BY <3>2, <4>1
    <3> QED BY <3>1, <3>2 DEF PollTypes
  <2>2. say \in Seq(MsgType)
    <3>1. \A s \in Says : s \in Seq(MsgType)
      <4>1. /\ <<>> \in Seq(MsgType)
            /\ <<"HEADER", "DATA", "FINISHED">> \in Seq(MsgType)
            /\ <<"DATA", "FINISHED">> \in Seq(MsgType)
            /\ <<"HEADER", "DATA", "ERROR">> \in Seq(MsgType)
            /\ <<"DATA", "ERROR">> \in Seq(MsgType)
            /\ <<"HEADER", "DATA">> \in Seq(MsgType) /\ <<"DATA">> \in Seq(MsgType)
            /\ \A m \in MsgType : <<m>> \in Seq(MsgType)
        BY DEF MsgType
      <4>2. {"FINISHED", "ERROR", "REDIRECT", "NOTMODIFIED"} \subseteq MsgType
        BY DEF MsgType
      <4> QED BY <4>1, <4>2 DEF Says
    <3> QED BY <3>1 DEF PollTypes
  <2> QED BY <2>1, <2>2 DEF PollTypes, Factory, PollTypeOK
<1> QED BY <1>1, PollTypesHold, FactoryHolds, PTL

\* Whenever the client may use a pointer, its fetch is allocated and on one of the
\* factory's rings, so that its abort finds the fetch where its flag says, whatever
\* the fetchers reply and wherever a reply stops short.
THEOREM NoStaleHandle == PollSpec => []HeldIsAttached
<1>1. PollInv => HeldIsAttached
  BY DEF PollInv, Held, Told, HeldIsAttached, ClientTurn
<1> QED BY <1>1, PollInvariance, PTL

\* The client hears nothing more of a fetch once it has aborted it or was told the
\* end, and no fetch is freed while the client has its pointer: a reply that stops
\* short is ended by fetch_free, every other one by the fetcher itself.
THEOREM ClientToldOnce == PollSpec => ToldOnce
<1> DEFINE A == /\ \A f \in cur : cb' # cb /\ cb' # "-"
                                  => f \notin flagged /\ last_msg[f] < FETCH_MIN_FINISHED_MSG
                /\ held \intersect (live \ live') = {}
<1>1. PollInv /\ PollTypes' /\ Factory /\ Factory' /\ [PollNext]_allVars => [A]_allVars
  <2> SUFFICES ASSUME Around, PollNext PROVE A
    BY DEF Around, Factory
  <2>1. ASSUME NEW f \in cur, cb' # cb, cb' # "-"
        PROVE  f \notin flagged /\ last_msg[f] < FETCH_MIN_FINISHED_MSG
    <3>1. Send \/ Report
      BY <2>1 DEF PollNext, System, Dispatches, pollVars, ClientStarts, ClientAborts, Take, Return,
                  Finish, Release, NextFetcher, PollEnds
    <3>2. CASE Send
      BY <3>2 DEF Send, InPoll, Around, PollInv, Told
    <3>3. CASE Report
      <4>1. cur = {f} /\ f \in live
        BY <2>1 DEF Around, PollInv, PollTypes, Contexts
      <4>2. last_msg[f] < FETCH_MIN_FINISHED_MSG
        BY <3>3, <4>1 DEF Report
      <4>3. last_msg[f] \in 0 .. 11 /\ FETCH_MIN_FINISHED_MSG = 4
        BY <4>1 DEF Around, Factory, TypeOK, FETCH_MIN_FINISHED_MSG, Rank
      <4> QED BY <4>1, <4>2, <4>3 DEF Around, PollInv, Told
    <3> QED BY <3>1, <3>2, <3>3
  <2>2. held \intersect (live \ live') = {}
    <3>1. CASE Release
      BY <3>1, ReleaseKeeps
    <3>2. CASE ~Release
      <4>1. live \subseteq live'
        BY <3>2 DEF PollNext, System, Dispatches, DispatchStarts, DispatchEnds, FetcherPoll,
                    ClientStarts, StartFetch, ClientAborts, Abort, AbortDeferred, Take, Send,
                    Report, Tell, SendCallback, Return, Finish, Remove, NextFetcher, PollEnds,
                    PollersDone, vars
      <4> QED BY <4>1
    <3> QED BY <3>1, <3>2
  <2> QED BY <2>1, <2>2
<1>2. [][A]_allVars => ToldOnce
  BY DEF ToldOnce
<1> QED BY <1>1, <1>2, PollInvariance, PollTypesHold, FactoryHolds, PTL DEF PollSpec
=============================================================================
