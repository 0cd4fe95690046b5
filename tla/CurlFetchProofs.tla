--------------------------- MODULE CurlFetchProofs ---------------------------
(***************************************************************************)
(* Proofs about the curl fetcher over the factory, for any fetches, hosts, *)
(* limits, replies and clients.                                            *)
(***************************************************************************)
EXTENDS CurlFetch, FetchProofs

-----------------------------------------------------------------------------
Stages == {"idle", "perform", "header", "info", "halt", "certs", "final", "free", "others"}
Thens == {"perform", "header", "stop", "data", "halt", "final", "free"}
Sends == {"-", "FINISHED", "ERROR", "TIMEDOUT", "CERT_ERR", "SSL_ERR"}

\* The state of curl.c.
CurlTypes ==
    /\ inside_curl \in BOOLEAN /\ corrupt \in BOOLEAN
    /\ handle \subseteq Fetches /\ abort \subseteq Fetches /\ stopped \subseteq Fetches
    /\ had_headers \subseteq Fetches /\ sent_chain \subseteq Fetches
    /\ reply \in [Fetches -> Replies \union {"ok"}]
    /\ outcome \in [Fetches -> Results \union {"none"}]
    /\ stage \in Stages
    /\ held \subseteq Fetches /\ aborted \subseteq Fetches
    /\ cb = NoCb \/ cb \in [to : Fetches, msg : MsgType, then : Thens]
    /\ cur = NoCur \/ cur \in [f : Fetches, abort_fetch : BOOLEAN, send : Sends]

\* Where the poll is: inside_curl holds from curl_multi_perform to the end of it, and
\* outlives a poll only with a handle left; every callback belongs to one stage; and
\* fetch_curl_done has a handle until it stops it and an allocated fetch until it
\* frees it.
Control ==
    /\ polling = "none" => stage = "idle"
    /\ stage \notin {"idle", "others"} => inside_curl
    /\ inside_curl /\ stage \in {"idle", "others"} => handle # {}
    /\ cb # NoCb =>
          \/ /\ cb.then \in {"perform", "header", "stop", "data"}
             /\ stage = "perform" /\ cb.to \in handle
          \/ cb.then = "halt" /\ stage = "info" /\ cb.to = cur.f /\ cur.f \in handle
          \/ cb.then = "final" /\ stage = "certs" /\ cb.to = cur.f
          \/ cb.then = "free" /\ stage = "final" /\ cb.to = cur.f
    /\ stage = "info" /\ cb = NoCb => cur = NoCur
    /\ stage \in {"idle", "perform", "others"} => cur = NoCur
    /\ stage \in {"header", "halt"} => cb = NoCb /\ cur.f \in handle
    /\ stage \in {"certs", "final", "free"} => cur.f \in live /\ ~Attached(cur.f)

\* Curl and the factory.
Joint == HandleIffActive /\ Control

CurlBase == CurlTypes /\ Joint /\ TypeOK /\ RingsAgree

\* The messages after which nothing more is said, and the fetches that count as told.
Finals == {"FINISHED", "TIMEDOUT", "ERROR", "REDIRECT", "NOTMODIFIED", "AUTH", "CERT_ERR", "SSL_ERR"}
Ended(f) == last_msg[f] >= FETCH_MIN_FINISHED_MSG

\* What the client can do: a fetch it has a pointer to is neither aborted nor
\* stopped and is on a ring, but for the one that fetch_curl_done has stopped and
\* will still answer.
Done3 == stage \in {"halt", "certs", "final"}

Pointers ==
    /\ ~corrupt
    /\ held \subseteq live /\ held \intersect (abort \union stopped) = {}
    /\ \A f \in live : f \in abort <=> f \in aborted
    /\ \A f \in held : Attached(f) \/ (cur.f = f /\ stage \in {"certs", "final"})
    /\ stage = "free" \/ cb.then = "free" => cur.f \notin held

\* Which messages the callbacks of each kind carry: the ones the reply is judged by
\* are completed messages, and the certificates go to a fetch that is not aborted.
Callbacks ==
    /\ cb.then \in {"stop", "halt"} => cb.msg \in Finals
    /\ cb.then \in {"header", "final"} => cb.msg = "CERTS"
    /\ cb.then = "header" => cb.to \notin abort
    /\ stage = "header" => cur.f \notin abort

\* What the locals of fetch_curl_done say: an aborted or stopped fetch is sent
\* nothing, and one the client still waits for is sent something.
Locals ==
    /\ cb.then = "halt" => cur.send = "-"
    /\ Done3 =>
          /\ cur.f \in held => cur.send # "-" /\ ~cur.abort_fetch
          /\ cur.f \in abort \union stopped => cur.send = "-" \/ cur.abort_fetch
    /\ Done3 \/ cb.then = "halt" => (cur.abort_fetch => cur.f \in abort)

Client == Pointers /\ Callbacks /\ Locals

\* What it was told: an aborted or stopped fetch counts as told, and one that is
\* neither has been told the end only when fetch_curl_done is about to free it or
\* the callback that tells it is not over.
Told ==
    \A f \in live :
        /\ f \in abort \union stopped => Ended(f)
        /\ f \notin abort \union stopped /\ Ended(f) =>
             \/ cb.to = f /\ cb.then \in {"stop", "halt", "free"}
             \/ cur.f = f /\ Done3 /\ cur.send = "-"
             \/ cur.f = f /\ stage = "free"
        /\ cb.to = f /\ cb.then \in {"stop", "halt", "free"} => Ended(f)
        /\ cur.f = f /\ Done3 /\ cur.send = "-" => Ended(f)
        /\ cur.f = f /\ stage = "free" => Ended(f)

CurlInv == CurlBase /\ Client /\ Told

-----------------------------------------------------------------------------
\* The fields of the records that stand for no callback and no fetch.
LEMMA NoFields ==
  /\ NoCb.to = NoFetch /\ NoCb.msg = "-" /\ NoCb.then = "-"
  /\ NoCur.f = NoFetch /\ NoCur.abort_fetch = FALSE /\ NoCur.send = "-"
BY DEF NoCb, NoCur

\* A call of the client: which callback is then being made.
LEMMA CallMakes ==
  ASSUME NEW f \in Fetches, NEW m, NEW then \in Thens, Call(f, m, then)
  PROVE  /\ cb' \in [to : Fetches, msg : MsgType, then : Thens]
         /\ cb' # NoCb /\ cb'.to = f /\ cb'.msg = m /\ cb'.then = then
         /\ m \in Messages /\ m \in MsgType
         /\ SendCallback(f, m)
         /\ held' \subseteq held /\ held' = (IF m \in Dropping THEN held \ {f} ELSE held)
         /\ UNCHANGED <<aborted, corrupt>>
<1>1. m \in Messages /\ m \in MsgType
  BY MessagesAssumption DEF Call
<1>2. cb' = [to |-> f, msg |-> m, then |-> then]
  BY DEF Call
<1>3. m # "-"
  BY <1>1 DEF MsgType
<1> QED BY <1>1, <1>2, <1>3 DEF Call, NoCb

\* Nothing is called.
LEMMA NoCallKeeps ==
  ASSUME NoCall
  PROVE  UNCHANGED <<vars, cb, held, aborted, corrupt>>
BY DEF NoCall

\* The messages of fetch_curl_process_headers are completed messages, and so are
\* those of a failure.
LEMMA JudgedMessages ==
  ASSUME NEW f
  PROVE  /\ HeaderMsg(f) \in {"-", "NOTMODIFIED", "REDIRECT", "AUTH", "ERROR"}
         /\ \A r : FailureMsg(r) \in Sends \ {"-", "FINISHED"}
BY DEF HeaderMsg, FailureMsg, Sends

\* fetch_curl_done has a fetch wherever it needs one.
LEMMA DoneHasFetch ==
  ASSUME CurlBase, stage \in {"header", "halt", "certs", "final", "free"}
  PROVE  cur.f \in Fetches /\ cur.f \in live
BY DEF CurlBase, CurlTypes, Joint, Control, HandleIffActive, TypeOK, RingsAgree

\* Taking a fetch off the rings takes it off fetch_ring, on whichever it was.
LEMMA RemoveFromActive ==
  ASSUME RingsAgree, NEW f \in Fetches, RemoveFromQueues(f)
  PROVE  fetch_ring' = fetch_ring \ {f}
<1>1. f \in fetch_ring => fetch_is_active[f]
  BY DEF RingsAgree
<1> QED BY <1>1 DEF RemoveFromQueues

-----------------------------------------------------------------------------
\* Every step of the curl fetcher is one that the factory allows any fetcher.
LEMMA StepIsFetch ==
  ASSUME CurlBase, [CurlNext]_allVars
  PROVE  [Next]_vars
<1>1. ASSUME NEW f \in Fetches, ClientStarts(f) \/ ClientAborts(f) PROVE [Next]_vars
  BY <1>1 DEF ClientStarts, ClientAborts, AbortInside, AbortOutside, AbortStopped, Next
<1>2. ASSUME NEW i \in DOMAIN queue_ring, CurlStarts(i) PROVE Next
  BY <1>2 DEF CurlStarts, Next
<1>3. ASSUME NEW i \in DOMAIN queue_ring, CurlRefuses(i) PROVE Next
  <2>1. inside_curl => polling # "none" \/ fetch_ring # {}
    BY DEF CurlBase, Joint, Control, HandleIffActive
  <2>2. DispatchRefused(i)
    BY <1>3, <2>1 DEF CurlRefuses, DispatchRefused, MayRefuse
  <2> QED BY <2>2 DEF Next
<1>4. CASE Factory
  BY <1>4 DEF Factory, Next
<1>5. ASSUME NEW f \in Fetches, NEW m, NEW then, Call(f, m, then) PROVE Next
  BY <1>5 DEF Call, Next
<1>6. CASE Halt \/ DoneCerts \/ DoneFinal \/ DoneFrees
  <2>1. cur.f \in Fetches
    BY <1>6, DoneHasFetch DEF Halt, DoneCerts, DoneFinal, DoneFrees, InPoll
  <2>2. CASE Halt \/ DoneFrees
    BY <2>1, <2>2 DEF Halt, DoneFrees, Next
  <2>3. CASE DoneCerts \/ DoneFinal
    BY <1>5, <2>1, <2>3 DEF DoneCerts, DoneFinal, NoCall
  <2> QED BY <1>6, <2>2, <2>3
<1>7. ASSUME NEW f \in Fetches, HeaderAfterCerts(f) \/ Done(f) \/ Header(f) \/ Progress(f) \/ Data(f)
      PROVE  [Next]_vars
  BY <1>5, <1>7 DEF HeaderAfterCerts, Done, Header, Progress, Data, NoCall
<1>8. ASSUME NEW b \in BOOLEAN, PollEnds(b) PROVE Next
  BY <1>8 DEF PollEnds, Next
<1>9. CASE \/ PollEnters \/ PerformReturns \/ PerformFails \/ CallbackReturns \/ PollLeaves
           \/ \E f \in Fetches, r \in Results : Completes(f, r)
  BY <1>9 DEF PollEnters, PerformReturns, PerformFails, CallbackReturns, PollLeaves, Completes
<1>10. CASE UNCHANGED allVars
  BY <1>10 DEF allVars
<1> QED BY <1>1, <1>2, <1>3, <1>4, <1>6, <1>7, <1>8, <1>9, <1>10
        DEF CurlNext, Dispatch, CurlPoll, Libcurl

\* The state of curl.c keeps its type.
LEMMA CurlTypesStep ==
  ASSUME CurlBase, [CurlNext]_allVars
  PROVE  CurlTypes'
<1>a. \A i \in DOMAIN queue_ring : queue_ring[i] \in Fetches
  BY LenProperties, ElementOfSeq DEF CurlBase, TypeOK
<1>b. CurlTypes
  BY DEF CurlBase
<1> USE <1>b DEF flags, clientVars, curlVars
<1>1. ASSUME NEW f \in Fetches, ClientStarts(f) PROVE CurlTypes'
  BY <1>1 DEF CurlTypes, ClientStarts
<1>2. ASSUME NEW f \in Fetches, ClientAborts(f) PROVE CurlTypes'
  BY <1>2 DEF CurlTypes, ClientAborts, AbortInside, AbortOutside, AbortStopped
<1>3. ASSUME NEW i \in DOMAIN queue_ring, CurlStarts(i) \/ CurlRefuses(i) PROVE CurlTypes'
  BY <1>3, <1>a DEF CurlTypes, CurlStarts, CurlRefuses
<1>4. CASE PollEnters \/ PerformReturns \/ PerformFails \/ Halt \/ PollLeaves \/ DoneFrees
  BY <1>4 DEF CurlTypes, PollEnters, PerformReturns, PerformFails, Halt, PollLeaves, DoneFrees,
              Stages
<1>5. CASE CallbackReturns
  <2>1. stage' \in Stages
    BY <1>5 DEF CurlTypes, CallbackReturns, Stages
  <2>2. cb # NoCb /\ cb.to \in Fetches
    BY <1>5 DEF CurlTypes, CallbackReturns
  <2>3. [NoCur EXCEPT !.f = cb.to] \in [f : Fetches, abort_fetch : BOOLEAN, send : Sends]
    BY <2>2 DEF NoCur, Sends
  <2> QED BY <1>5, <2>1, <2>2, <2>3 DEF CurlTypes, CallbackReturns
<1>6. CASE DoneCerts \/ DoneFinal
  <2>1. cur.f \in Fetches
    BY <1>6, DoneHasFetch DEF DoneCerts, DoneFinal, InPoll
  <2> QED BY <1>6, <2>1, CallMakes DEF CurlTypes, DoneCerts, DoneFinal, NoCall, Stages, Thens
<1>7. ASSUME NEW f \in Fetches, HeaderAfterCerts(f) \/ Header(f) \/ Progress(f) \/ Data(f)
      PROVE  CurlTypes'
  BY <1>7, CallMakes DEF CurlTypes, HeaderAfterCerts, Header, Progress, Data, NoCall, Stages, Thens
<1>8. ASSUME NEW f \in Fetches, Done(f) PROVE CurlTypes'
  <2> DEFINE judge == Complete(f) /\ f \notin stopped /\ f \notin had_headers
             m == CASE judge -> IF f \in abort THEN "-" ELSE "FINISHED"
                    [] ~judge /\ f \in stopped -> "-"
                    [] ~judge /\ f \notin stopped /\ Complete(f) -> "FINISHED"
                    [] OTHER -> FailureMsg(outcome[f])
  <2>1. m \in Sends
    BY JudgedMessages DEF Sends
  <2> DEFINE a == f \in abort
  <2>2. cur' = [f |-> f, abort_fetch |-> a, send |-> "-"]
        \/ cur' = [f |-> f, abort_fetch |-> a, send |-> m]
    BY <1>8 DEF Done
  <2>a. a \in BOOLEAN /\ "-" \in Sends
    BY DEF Sends
  <2> HIDE DEF m, a
  <2>3. cur' \in [f : Fetches, abort_fetch : BOOLEAN, send : Sends]
    BY <2>1, <2>2, <2>a
  <2>4. stage' \in Stages
    BY <1>8 DEF Done, CurlTypes, Stages
  <2>5. /\ had_headers' \subseteq Fetches /\ held' \subseteq Fetches
        /\ cb' = cb \/ cb' \in [to : Fetches, msg : MsgType, then : Thens]
        /\ UNCHANGED <<aborted, corrupt>>
    BY <1>8, CallMakes DEF Done, CurlTypes, NoCall, Thens
  <2> QED BY <1>8, <2>3, <2>4, <2>5 DEF CurlTypes, Done
<1>9. ASSUME NEW f \in Fetches, NEW r \in Results, Completes(f, r) PROVE CurlTypes'
  BY <1>9 DEF CurlTypes, Completes
<1>10. ASSUME NEW b \in BOOLEAN, PollEnds(b) PROVE CurlTypes'
  BY <1>10 DEF CurlTypes, PollEnds, Stages
<1>11. CASE Factory \/ UNCHANGED allVars
  BY <1>11 DEF CurlTypes, Factory, allVars
<1> QED BY <1>1, <1>2, <1>3, <1>4, <1>5, <1>6, <1>7, <1>8, <1>9, <1>10, <1>11
        DEF CurlNext, Dispatch, CurlPoll, Libcurl

-----------------------------------------------------------------------------
\* A handle is attached when its fetch joins the active ones and goes when it leaves
\* them.
LEMMA HandlesStep ==
  ASSUME CurlBase, [CurlNext]_allVars
  PROVE  HandleIffActive'
<1> USE DEF HandleIffActive, flags, clientVars, curlVars
<1>a. handle = fetch_ring /\ RingsAgree
  BY DEF CurlBase, Joint
<1>1. ASSUME NEW f \in Fetches, ClientStarts(f) PROVE HandleIffActive'
  BY <1>1, <1>a DEF ClientStarts, StartFetch
<1>2. ASSUME NEW f \in Fetches, ClientAborts(f) PROVE HandleIffActive'
  <2>1. CASE AbortInside(f) \/ AbortStopped(f)
    BY <1>a, <2>1 DEF AbortInside, AbortStopped, AbortDeferred, rings, vars
  <2>2. CASE AbortOutside(f)
    BY <1>a, <2>2, RemoveFromActive DEF AbortOutside, AbortNow
  <2> QED BY <1>2, <2>1, <2>2 DEF ClientAborts
<1>3. ASSUME NEW i \in DOMAIN queue_ring, CurlStarts(i) \/ CurlRefuses(i) PROVE HandleIffActive'
  BY <1>3, <1>a DEF CurlStarts, CurlRefuses, DispatchStarts, PutBack
<1>4. CASE Halt
  BY <1>4, <1>a, DoneHasFetch, RemoveFromActive DEF Halt, InPoll, Remove
<1>5. CASE Factory \/ \E b \in BOOLEAN : PollEnds(b)
  BY <1>5, <1>a DEF Factory, DispatchEnds, FetcherPoll, FetchFdset, PollEnds, PollersDone
<1>6. CASE \/ PollEnters \/ PerformReturns \/ PerformFails \/ CallbackReturns \/ PollLeaves
           \/ DoneCerts \/ DoneFinal \/ DoneFrees \/ UNCHANGED allVars
           \/ \E f \in Fetches : \/ HeaderAfterCerts(f) \/ Done(f) \/ Header(f) \/ Progress(f)
                                 \/ Data(f) \/ \E r \in Results : Completes(f, r)
  <2>1. handle' = handle
    BY <1>6 DEF PollEnters, PerformReturns, PerformFails, CallbackReturns, PollLeaves, DoneCerts,
                DoneFinal, DoneFrees, HeaderAfterCerts, Done, Header, Progress, Data, Completes,
                allVars
  <2>2. fetch_ring' = fetch_ring
    BY <1>6 DEF PollEnters, PerformReturns, PerformFails, CallbackReturns, PollLeaves, DoneCerts,
                DoneFinal, DoneFrees, HeaderAfterCerts, Done, Header, Progress, Data, Completes,
                allVars, vars, NoCall, Call, SendCallback, Free, rings
  <2> QED BY <1>a, <2>1, <2>2
<1> QED BY <1>1, <1>2, <1>3, <1>4, <1>5, <1>6
        DEF CurlNext, Dispatch, CurlPoll, Libcurl

\* The client and the factory neither free a fetch that is off the rings nor put it on.
LEMMA DetachedStays ==
  ASSUME CurlBase, NEW g \in Fetches, g \in live, ~Attached(g),
         \/ \E f \in Fetches : ClientStarts(f) \/ ClientAborts(f)
         \/ Dispatch \/ Factory
  PROVE  g \in live' /\ ~Attached(g)'
<1>0. TypeOK /\ RingsAgree
  BY DEF CurlBase
<1>1. ASSUME NEW f \in Fetches, ClientStarts(f) PROVE g \in live' /\ ~Attached(g)'
  BY <1>0, <1>1, StartAttaches DEF ClientStarts, StartFetch
<1>2. ASSUME NEW f \in Fetches, ClientAborts(f) PROVE g \in live' /\ ~Attached(g)'
  <2>1. CASE AbortInside(f) \/ AbortStopped(f)
    BY <2>1 DEF AbortInside, AbortStopped, AbortDeferred, rings, vars, Attached, Queued
  <2>2. CASE AbortOutside(f)
    <3>1. RemoveFromQueues(f) /\ live' = live \ {f} /\ Attached(f)
      BY <2>2 DEF AbortOutside, AbortNow, RemoveFromQueues
    <3> QED BY <1>0, <3>1, RemoveDetaches
  <2> QED BY <1>2, <2>1, <2>2 DEF ClientAborts
<1>3. ASSUME NEW i \in DOMAIN queue_ring, CurlStarts(i) \/ CurlRefuses(i)
      PROVE  g \in live' /\ ~Attached(g)'
  <2>1. live' = live
    BY <1>3 DEF CurlStarts, CurlRefuses, DispatchStarts, PutBack
  <2> QED BY <1>0, <1>3, <2>1, DispatchAttaches, PutBackAttaches DEF CurlStarts, CurlRefuses
<1>4. CASE Factory
  BY <1>4 DEF Factory, DispatchEnds, FetcherPoll, FetchFdset, Attached, Queued
<1> QED BY <1>1, <1>2, <1>3, <1>4 DEF Dispatch

\* The steps of the client and of the factory leave the poll where it is.
LEMMA ControlOutside ==
  ASSUME CurlBase, UNCHANGED <<inside_curl, stage, cur, cb>>,
         \/ \E f \in Fetches : ClientStarts(f) \/ ClientAborts(f)
         \/ Dispatch \/ Factory
  PROVE  Control'
<1>1. polling # "none" => polling' # "none"
  BY DEF ClientStarts, StartFetch, ClientAborts, AbortInside, AbortOutside, AbortStopped,
         AbortDeferred, AbortNow, stack, vars, Dispatch, CurlStarts, DispatchStarts, CurlRefuses,
         PutBack, CallerGoesOn, Factory, DispatchEnds, FetcherPoll, FetchFdset
<1>2. inside_curl => handle \subseteq handle'
  BY DEF ClientStarts, ClientAborts, AbortInside, AbortOutside, AbortStopped,
         Dispatch, CurlStarts, CurlRefuses, Factory, curlVars
<1>3. ASSUME stage \in {"certs", "final", "free"} PROVE (cur.f \in live /\ ~Attached(cur.f))'
  <2>1. PICK g \in Fetches : g = cur.f /\ g \in live /\ ~Attached(g)
    BY <1>3, DoneHasFetch DEF CurlBase, Joint, Control
  <2>2. g \in live' /\ ~Attached(g)'
    BY <2>1, DetachedStays
  <2>3. cur'.f = g
    BY <2>1
  <2> QED BY <2>2, <2>3 DEF Attached, Queued
<1>4. Control
  BY DEF CurlBase, Joint
<1>5. stage \notin {"idle", "others"} => inside_curl
  BY <1>4 DEF Control
<1> QED BY <1>1, <1>2, <1>3, <1>4, <1>5 DEF Control

\* A call of the client leaves the rings, the stack and the handles alone.
LEMMA CallLeaves ==
  ASSUME NEW f \in Fetches, NEW m, NEW then \in Thens, Call(f, m, then) \/ NoCall
  PROVE  UNCHANGED <<queue_ring, fetch_ring, fetch_is_active, live, timer, job, polling>>
BY DEF Call, NoCall, SendCallback, stack, vars

\* The steps of the poll, of libcurl's callbacks and of their return.
LEMMA ControlInside ==
  ASSUME CurlBase, CurlPoll \/ Libcurl
  PROVE  Control'
<1>0. Control /\ TypeOK /\ RingsAgree
  BY DEF CurlBase, Joint
<1> USE DEF flags, clientVars
<1>1. CASE PollEnters \/ PerformReturns \/ PerformFails \/ PollLeaves
  BY <1>0, <1>1, NoFields DEF PollEnters, PerformReturns, PerformFails, PollLeaves, InPoll, Control, vars
<1>2. CASE CallbackReturns
  <2>1. cb # NoCb /\ cb.to \in Fetches /\ cb.then \in Thens
    BY <1>2 DEF CallbackReturns, CurlBase, CurlTypes
  <2>2. [NoCur EXCEPT !.f = cb.to].f = cb.to
    BY DEF NoCur
  <2>3. UNCHANGED <<queue_ring, fetch_ring, live, polling, handle, inside_curl>> /\ cb' = NoCb
    BY <1>2 DEF CallbackReturns, vars
  <2>4. CASE cb.then \in {"perform", "stop", "data"}
    BY <1>0, <1>2, <2>1, <2>3, <2>4, NoFields DEF CallbackReturns, Control
  <2>5. CASE cb.then = "header"
    BY <1>0, <1>2, <2>1, <2>2, <2>3, <2>5, NoFields DEF CallbackReturns, Control
  <2>6. CASE cb.then = "halt"
    BY <1>0, <1>2, <2>1, <2>3, <2>6, NoFields DEF CallbackReturns, Control
  <2>7. CASE cb.then \in {"final", "free"}
    BY <1>0, <1>2, <2>1, <2>3, <2>7, NoFields DEF CallbackReturns, Control, Attached, Queued
  <2> QED BY <2>1, <2>4, <2>5, <2>6, <2>7 DEF Thens
<1>3. CASE Halt
  <2>1. PICK g \in Fetches : g = cur.f /\ g \in live
    BY <1>3, DoneHasFetch DEF Halt, InPoll
  <2>2. g \in live' /\ ~Attached(g)'
    BY <1>0, <1>3, <2>1, RemoveDetaches DEF Halt, Remove
  <2>3. cur'.f = g
    BY <1>3, <2>1 DEF Halt
  <2>4. (cur.f \in live /\ ~Attached(cur.f))'
    BY <2>2, <2>3 DEF Attached, Queued
  <2> QED BY <1>0, <1>3, <2>4, NoFields DEF Halt, InPoll, Remove, stack, Control
<1>4. CASE DoneCerts \/ DoneFinal
  <2>1. cur.f \in Fetches
    BY <1>4, DoneHasFetch DEF DoneCerts, DoneFinal, InPoll
  <2>2. UNCHANGED <<queue_ring, fetch_ring, live, polling, handle, inside_curl, cur>>
    BY <1>4, <2>1, CallLeaves DEF DoneCerts, DoneFinal, Thens
  <2>3. CASE DoneCerts
    <3>1. cb = NoCb /\ stage = "certs"
      BY <2>3 DEF DoneCerts, InPoll
    <3>2. \/ cb' = NoCb /\ stage' = "final"
          \/ cb'.then = "final" /\ cb'.to = cur.f /\ stage' = "certs"
      BY <2>1, <2>3, <3>1, CallMakes DEF DoneCerts, NoCall, Thens
    <3> QED BY <1>0, <2>2, <3>1, <3>2, NoFields DEF Control, Attached, Queued
  <2>4. CASE DoneFinal
    <3>1. cb = NoCb /\ stage = "final"
      BY <2>4 DEF DoneFinal, InPoll
    <3>2. \/ cb' = NoCb /\ stage' = "free"
          \/ cb'.then = "free" /\ cb'.to = cur.f /\ stage' = "final"
      BY <2>1, <2>4, <3>1, CallMakes DEF DoneFinal, NoCall, Thens
    <3> QED BY <1>0, <2>2, <3>1, <3>2, NoFields DEF Control, Attached, Queued
  <2> QED BY <1>4, <2>3, <2>4
<1>5. CASE DoneFrees
  BY <1>0, <1>5, NoFields DEF DoneFrees, InPoll, Free, stack, Control
<1>6. ASSUME NEW f \in Fetches, HeaderAfterCerts(f) PROVE Control'
  <2>1. UNCHANGED <<queue_ring, fetch_ring, live, polling, handle, inside_curl>>
    BY <1>6, CallLeaves DEF HeaderAfterCerts, Thens
  <2>2. cb'.then = "perform" /\ cb'.to = f /\ f \in handle
    BY <1>0, <1>6, CallMakes DEF HeaderAfterCerts, InPoll, Thens, Control
  <2> QED BY <1>0, <1>6, <2>1, <2>2, NoFields DEF HeaderAfterCerts, InPoll, Control
<1>7. ASSUME NEW f \in Fetches, Header(f) \/ Progress(f) \/ Data(f) PROVE Control'
  <2>1. UNCHANGED <<queue_ring, fetch_ring, live, polling, handle, inside_curl, stage, cur>>
    BY <1>7, CallLeaves DEF Header, Progress, Data, Thens
  <2>2. stage = "perform" /\ cb = NoCb /\ f \in handle /\ polling # "none"
    BY <1>7 DEF Header, Progress, Data, InPoll, Running
  <2>3. \/ cb' = NoCb
        \/ cb'.to = f /\ cb'.then \in {"perform", "header", "stop", "data"}
    <3>1. NoCall \/ \E m, then : Call(f, m, then) /\ then \in {"perform", "header", "stop", "data"}
      BY <1>7 DEF Header, Progress, Data, Thens
    <3>2. ASSUME NEW m, NEW then \in {"perform", "header", "stop", "data"}, Call(f, m, then)
          PROVE  cb'.to = f /\ cb'.then = then
      <4>1. then \in Thens
        BY DEF Thens
      <4> QED BY <3>2, <4>1, CallMakes
    <3>3. CASE NoCall
      BY <2>2, <3>3 DEF NoCall
    <3>4. CASE \E m, then : Call(f, m, then) /\ then \in {"perform", "header", "stop", "data"}
      BY <3>2, <3>4
    <3> QED BY <3>1, <3>3, <3>4
  <2> QED BY <1>0, <2>1, <2>2, <2>3, NoFields DEF Control
<1>8. ASSUME NEW f \in Fetches, Done(f) PROVE Control'
  <2>1. UNCHANGED <<queue_ring, fetch_ring, live, polling, handle, inside_curl>>
    BY <1>8, CallLeaves DEF Done, Thens
  <2>2. stage = "info" /\ cb = NoCb /\ f \in handle /\ polling # "none"
    BY <1>8 DEF Done, InPoll
  <2>3. cur'.f = f
    BY <1>8 DEF Done
  <2>4. \/ cb' = NoCb /\ stage' = "halt"
        \/ cb'.to = f /\ cb'.then = "halt" /\ cb' # NoCb /\ stage' = "info"
    BY <1>8, <2>2, CallMakes DEF Done, NoCall, Thens
  <2> QED BY <1>0, <2>1, <2>2, <2>3, <2>4, NoFields DEF Control
<1>9. ASSUME NEW f \in Fetches, NEW r \in Results, Completes(f, r) PROVE Control'
  BY <1>0, <1>9 DEF Completes, InPoll, Control, vars
<1>10. ASSUME NEW b \in BOOLEAN, PollEnds(b) PROVE Control'
  BY <1>0, <1>10, NoFields DEF PollEnds, PollersDone, InPoll, Control
<1> QED BY <1>1, <1>2, <1>3, <1>4, <1>5, <1>6, <1>7, <1>8, <1>9, <1>10 DEF CurlPoll, Libcurl

\* The inductive invariant of the fetcher and the factory together.
LEMMA BaseStep ==
  ASSUME CurlBase, [CurlNext]_allVars
  PROVE  CurlBase'
<1>1. TypeOK' /\ RingsAgree'
  BY StepIsFetch, TypeStep, RingsStep DEF CurlBase
<1>2. Control'
  <2>1. CASE (\E f \in Fetches : ClientStarts(f) \/ ClientAborts(f)) \/ Dispatch \/ Factory
    <3>1. UNCHANGED <<inside_curl, stage, cur, cb>>
      BY <2>1 DEF ClientStarts, ClientAborts, Dispatch, CurlStarts, CurlRefuses, Factory, curlVars
    <3> QED BY <2>1, <3>1, ControlOutside
  <2>2. CASE CurlPoll \/ Libcurl
    BY <2>2, ControlInside
  <2>3. CASE UNCHANGED allVars
    BY <2>3 DEF allVars, curlVars, vars, CurlBase, Joint, Control, Attached, Queued
  <2> QED BY <2>1, <2>2, <2>3 DEF CurlNext
<1> QED BY <1>1, <1>2, CurlTypesStep, HandlesStep DEF CurlBase, Joint

-----------------------------------------------------------------------------
\* Finals are the completed messages, those of fetch_curl_process_headers and of the
\* end of fetch_curl_done among them; those the client drops its pointer after, too.
LEMMA FinalMessages ==
  /\ \A m \in MsgType : m \in Finals <=> Rank[m] >= FETCH_MIN_FINISHED_MSG
  /\ Sends \ {"-"} \subseteq Finals /\ Sends \ {"-"} \subseteq Dropping
  /\ {"NOTMODIFIED", "REDIRECT", "AUTH", "ERROR"} \subseteq Finals
  /\ Finals \intersect {"PROGRESS", "CERTS", "HEADER", "DATA"} = {}
BY DEF Finals, MsgType, Rank, FETCH_MIN_FINISHED_MSG, Sends, Dropping

\* After a call the fetch has ended if the message is a completed one.
LEMMA CallTells ==
  ASSUME CurlBase, NEW f \in Fetches, NEW m, NEW then \in Thens, Call(f, m, then)
  PROVE  /\ f \in live /\ live' = live
         /\ \A g \in Fetches : Attached(g)' <=> Attached(g)
         /\ \A g \in Fetches : Ended(g)' <=> Ended(g) \/ (g = f /\ m \in Finals)
<1>1. m \in MsgType /\ SendCallback(f, m)
  BY CallMakes
<1>2. Rank[m] \in 0 .. 11
  BY <1>1 DEF MsgType, Rank
<1>3. f \in live /\ UNCHANGED <<queue_ring, fetch_ring, live>>
  BY <1>1 DEF SendCallback
<1>4. ASSUME NEW g \in Fetches
      PROVE  Ended(g)' <=> Ended(g) \/ (g = f /\ m \in Finals)
  <2>1. m \in Finals <=> Rank[m] >= FETCH_MIN_FINISHED_MSG
    BY <1>1, FinalMessages
  <2>2. last_msg[f] \in 0 .. 11 /\ last_msg[g] \in 0 .. 11
    BY DEF CurlBase, TypeOK
  <2>3. last_msg'[g] = IF g = f /\ Rank[m] > last_msg[f] THEN Rank[m] ELSE last_msg[g]
    BY <1>1 DEF SendCallback, CurlBase, TypeOK
  <2>4. FETCH_MIN_FINISHED_MSG = 4
    BY DEF FETCH_MIN_FINISHED_MSG, Rank
  <2> QED BY <1>2, <2>1, <2>2, <2>3, <2>4 DEF Ended
<1> QED BY <1>3, <1>4 DEF Attached, Queued

\* A client that starts a fetch, or aborts one outside the certificate callback.
LEMMA ClientByClient ==
  ASSUME CurlInv, "CERTS" \notin AbortsIn, NEW f \in Fetches, ClientStarts(f) \/ ClientAborts(f)
  PROVE  Client' /\ Told'
<1>0. CurlBase /\ TypeOK /\ RingsAgree /\ Control /\ Client /\ Told /\ handle = fetch_ring
  BY DEF CurlInv, CurlBase, Joint, HandleIffActive
<1>a. held \subseteq live /\ live \subseteq Fetches
  BY <1>0 DEF Client, Pointers, TypeOK
<1>b. stage \in {"header", "halt", "certs", "final", "free"} => cur.f \in live
  BY <1>0, DoneHasFetch
<1>c. cb # NoCb => cb.to \in live
  BY <1>0, <1>b DEF Control, RingsAgree
<1>d. cb = NoCb => cb.then = "-" /\ cb.to = NoFetch
  BY NoFields
<1>e. cb.then \in {"halt", "free"} => cur.f \in live
  BY <1>0, <1>b, <1>d DEF Control, RingsAgree
<1>1. CASE ClientStarts(f)
  <2>1. f \notin live /\ live' = live \union {f} /\ held' = held \union {f}
    BY <1>1 DEF ClientStarts, StartFetch
  <2>2. ~Ended(f)' /\ \A g \in Fetches : g # f => (Ended(g)' <=> Ended(g))
    <3>1. last_msg' = [last_msg EXCEPT ![f] = 0] /\ last_msg \in [Fetches -> 0 .. 11]
      BY <1>0, <1>1 DEF ClientStarts, StartFetch, TypeOK
    <3> QED BY <3>1 DEF Ended, FETCH_MIN_FINISHED_MSG, Rank
  <2>3. \A g \in Fetches : Attached(g)' <=> g = f \/ Attached(g)
    BY <1>0, <1>1, StartAttaches DEF ClientStarts
  <2>4. /\ UNCHANGED <<stage, cur, cb, corrupt>>
        /\ abort' = abort \ {f} /\ stopped' = stopped \ {f} /\ aborted' = aborted \ {f}
    BY <1>1 DEF ClientStarts
  <2>5. Client'
    <3>1. Pointers'
      BY <1>0, <1>a, <1>b, <1>e, <2>1, <2>3, <2>4 DEF Client, Pointers
    <3>2. Callbacks'
      BY <1>0, <2>4 DEF Client, Callbacks
    <3>3. Locals'
      BY <1>0, <1>a, <1>b, <1>e, <2>1, <2>4 DEF Client, Locals, Done3
    <3> QED BY <3>1, <3>2, <3>3 DEF Client
  <2>6. Told'
    BY <1>0, <1>a, <1>b, <1>c, <1>d, <1>e, <2>1, <2>2, <2>4 DEF Told, Done3
  <2> QED BY <2>5, <2>6
<1>2. CASE ClientAborts(f)
  <2>1. /\ f \in held
        /\ f = cb.to => cb.msg # "CERTS"
        /\ held' = held \ {f} /\ aborted' = aborted \union {f}
        /\ UNCHANGED <<stopped, stage, cur, cb>>
    BY <1>2 DEF ClientAborts
  <2>2. cb # NoCb \/ stage \in {"others", "idle"}
    BY <1>0, <1>2 DEF ClientAborts, ClientTurn, Control
  <2>3. Attached(f) /\ ~(Done3 /\ cur.f = f)
    BY <1>0, <2>1, <2>2, <1>d DEF Client, Pointers, Callbacks, Control, Done3
  <2>4. ASSUME last_msg' = [last_msg EXCEPT ![f] = FETCH__INTERNAL_ABORTED]
        PROVE  \A g \in Fetches : Ended(g)' <=> g = f \/ Ended(g)
    <3>1. last_msg \in [Fetches -> 0 .. 11]
      BY <1>0 DEF TypeOK
    <3> QED BY <2>4, <3>1 DEF Ended, FETCH__INTERNAL_ABORTED, FETCH_MIN_FINISHED_MSG, Rank
  <2>5. CASE AbortInside(f)
    <3>1. live' = live /\ abort' = abort \union {f} /\ corrupt' = corrupt
      BY <2>5 DEF AbortInside, AbortDeferred
    <3>2. \A g \in Fetches : Attached(g)' <=> Attached(g)
      BY <2>5 DEF AbortInside, AbortDeferred, rings, Attached, Queued
    <3>3. \A g \in Fetches : Ended(g)' <=> g = f \/ Ended(g)
      BY <2>4, <2>5 DEF AbortInside, AbortDeferred
    <3>4. cb.then \in {"header", "final"} => cb.to # f
      BY <1>0, <2>1 DEF Client, Callbacks
    <3>5. stage # "header"
      BY <1>0, <2>2 DEF Control
    <3>6. Client'
      BY <1>0, <1>a, <1>d, <2>1, <2>3, <3>1, <3>2, <3>4, <3>5 DEF Client, Pointers, Callbacks, Locals, Done3
    <3>7. Told'
      BY <1>0, <1>a, <1>d, <2>1, <2>3, <3>1, <3>3 DEF Told, Done3
    <3> QED BY <3>6, <3>7
  <2>6. CASE AbortOutside(f)
    <3>1. live' = live \ {f} /\ UNCHANGED <<abort, corrupt>> /\ RemoveFromQueues(f)
      BY <2>6 DEF AbortOutside, AbortNow
    <3>2. \A g \in Fetches : Attached(g)' <=> g # f /\ Attached(g)
      BY <1>0, <3>1, RemoveDetaches
    <3>3. \A g \in Fetches : Ended(g)' <=> g = f \/ Ended(g)
      BY <2>4, <2>6 DEF AbortOutside, AbortNow
    <3>4. Client'
      BY <1>0, <1>a, <1>d, <2>1, <3>1, <3>2 DEF Client, Pointers, Callbacks, Locals, Done3
    <3>5. Told'
      BY <1>0, <1>a, <1>d, <2>1, <3>1, <3>3 DEF Told, Done3
    <3> QED BY <3>4, <3>5
  <2>7. CASE AbortStopped(f)
    BY <2>3, <2>7 DEF AbortStopped
  <2> QED BY <1>2, <2>5, <2>6, <2>7 DEF ClientAborts
<1> QED BY <1>1, <1>2

\* The dispatch loop and the timer.
LEMMA ClientByFactory ==
  ASSUME CurlInv, Dispatch \/ Factory \/ UNCHANGED allVars
  PROVE  Client' /\ Told'
<1>0. TypeOK /\ Client /\ Told /\ live \subseteq Fetches
  BY DEF CurlInv, CurlBase, TypeOK
<1>1. \A g \in Fetches : Attached(g)' <=> Attached(g)
  <2>1. ASSUME NEW i \in DOMAIN queue_ring, CurlStarts(i) \/ CurlRefuses(i)
        PROVE  \A g \in Fetches : Attached(g)' <=> Attached(g)
    BY <1>0, <2>1, DispatchAttaches, PutBackAttaches DEF CurlStarts, CurlRefuses
  <2>2. CASE Factory \/ UNCHANGED allVars
    BY <2>2 DEF Factory, DispatchEnds, FetcherPoll, FetchFdset, allVars, vars, Attached, Queued
  <2> QED BY <2>1, <2>2 DEF Dispatch
<1>2. UNCHANGED <<live, last_msg, abort, stopped, stage, cur, cb, held, aborted, corrupt>>
  BY DEF Dispatch, CurlStarts, CurlRefuses, DispatchStarts, PutBack, Factory, DispatchEnds,
         FetcherPoll, FetchFdset, allVars, vars, curlVars, flags, clientVars
<1>3. \A g \in Fetches : Ended(g)' <=> Ended(g)
  BY <1>2 DEF Ended
<1>4. Client'
  BY <1>0, <1>1, <1>2 DEF Client, Pointers, Callbacks, Locals, Done3
<1>5. Told'
  BY <1>0, <1>2, <1>3 DEF Told, Done3
<1> QED BY <1>4, <1>5

\* The steps of the poll that call nobody.
LEMMA ClientByPoll ==
  ASSUME CurlInv,
         \/ PollEnters \/ PerformReturns \/ PerformFails \/ PollLeaves \/ Halt \/ DoneFrees
         \/ \E b \in BOOLEAN : PollEnds(b)
         \/ \E f \in Fetches, r \in Results : Completes(f, r)
  PROVE  Client' /\ Told'
<1>0. CurlBase /\ TypeOK /\ RingsAgree /\ Control /\ Client /\ Told /\ live \subseteq Fetches
  BY DEF CurlInv, CurlBase, Joint, TypeOK
<1> USE DEF flags, clientVars
<1>1. /\ cb = NoCb /\ UNCHANGED <<last_msg, abort, stopped, cb, held, aborted, corrupt>>
      /\ cb.then = "-" /\ cb.to = NoFetch
  BY NoFields
     DEF PollEnters, PerformReturns, PerformFails, PollLeaves, Halt, DoneFrees, PollEnds, Completes,
         InPoll, Remove, Free, PollersDone, vars
<1>2. \A g \in Fetches : Ended(g)' <=> Ended(g)
  BY <1>1 DEF Ended
<1>3. CASE \/ PollEnters \/ PerformReturns \/ PerformFails \/ PollLeaves
           \/ \E b \in BOOLEAN : PollEnds(b)
           \/ \E f \in Fetches, r \in Results : Completes(f, r)
  <2>1. /\ UNCHANGED <<queue_ring, fetch_ring, live, cur>>
        /\ stage \in {"idle", "perform", "info", "others"}
        /\ stage' \in {"idle", "perform", "info", "others"}
    BY <1>3 DEF PollEnters, PerformReturns, PerformFails, PollLeaves, PollEnds, Completes, InPoll,
                PollersDone, vars
  <2>2. \A g \in Fetches : Attached(g)' <=> Attached(g)
    BY <2>1 DEF Attached, Queued
  <2>3. Client'
    BY <1>0, <1>1, <2>1, <2>2 DEF Client, Pointers, Callbacks, Locals, Done3
  <2>4. Told'
    BY <1>0, <1>1, <1>2, <2>1 DEF Told, Done3
  <2> QED BY <2>3, <2>4
<1>4. CASE Halt
  <2>1. /\ stage = "halt" /\ stage' = "certs" /\ UNCHANGED <<live, cur>>
        /\ RemoveFromQueues(cur.f) /\ cur.f \in Fetches
    BY <1>0, <1>4, DoneHasFetch DEF Halt, InPoll, Remove
  <2>2. \A g \in Fetches : Attached(g)' <=> g # cur.f /\ Attached(g)
    BY <1>0, <2>1, RemoveDetaches
  <2>3. Client'
    BY <1>0, <1>1, <2>1, <2>2 DEF Client, Pointers, Callbacks, Locals, Done3
  <2>4. Told'
    BY <1>0, <1>1, <1>2, <2>1 DEF Told, Done3
  <2> QED BY <2>3, <2>4
<1>5. CASE DoneFrees
  <2>1. /\ stage = "free" /\ stage' = "info" /\ cur' = NoCur /\ live' = live \ {cur.f}
        /\ UNCHANGED <<queue_ring, fetch_ring>>
    BY <1>5 DEF DoneFrees, InPoll, Free, rings
  <2>2. \A g \in Fetches : Attached(g)' <=> Attached(g)
    BY <2>1 DEF Attached, Queued
  <2>3. Client'
    BY <1>0, <1>1, <2>1, <2>2 DEF Client, Pointers, Callbacks, Locals, Done3
  <2>4. Told'
    BY <1>0, <1>1, <1>2, <2>1 DEF Told, Done3
  <2> QED BY <2>3, <2>4
<1> QED BY <1>3, <1>4, <1>5

\* A callback of the client returns.
LEMMA ClientByReturn ==
  ASSUME CurlInv, CallbackReturns
  PROVE  Client' /\ Told'
<1>0. Control /\ Client /\ Told /\ live \subseteq Fetches
  BY DEF CurlInv, CurlBase, Joint, TypeOK
<1>1. /\ cb # NoCb /\ cb.then \in Thens /\ cb.msg \in MsgType
      /\ cb' = NoCb /\ cb'.then = "-" /\ cb'.to = NoFetch
      /\ UNCHANGED <<live, last_msg, queue_ring, fetch_ring, abort, aborted, corrupt>>
      /\ stopped' = IF cb.then = "stop" \/ (cb.then = "data" /\ cb.to \in abort)
                    THEN stopped \union {cb.to} ELSE stopped
      /\ stage' = IF cb.then \in {"header", "halt", "final", "free"} THEN cb.then ELSE stage
      /\ cur' = IF cb.then = "header" THEN [NoCur EXCEPT !.f = cb.to] ELSE cur
  BY NoFields DEF CallbackReturns, vars, CurlInv, CurlBase, CurlTypes
<1>2. held' = IF cb.msg \in Finals THEN held \ {cb.to} ELSE held
  BY <1>1, FinalMessages DEF CallbackReturns
<1>3. \A g \in Fetches : (Ended(g)' <=> Ended(g)) /\ (Attached(g)' <=> Attached(g))
  BY <1>1 DEF Ended, Attached, Queued
<1>4. CASE cb.then \in {"perform", "stop", "data"}
  <2>1. stage = "perform" /\ stage' = "perform" /\ cur' = cur
    BY <1>0, <1>1, <1>4 DEF Control
  <2>2. Client'
    BY <1>0, <1>1, <1>2, <1>3, <1>4, <2>1 DEF Client, Pointers, Callbacks, Locals, Done3
  <2>3. Told'
    BY <1>0, <1>1, <1>3, <1>4, <2>1 DEF Told, Done3
  <2> QED BY <2>2, <2>3
<1>5. CASE cb.then = "header"
  <2>1. stage = "perform" /\ stage' = "header" /\ cur'.f = cb.to
    BY <1>0, <1>1, <1>5 DEF Control, NoCur
  <2>2. Client'
    BY <1>0, <1>1, <1>2, <1>3, <1>5, <2>1 DEF Client, Pointers, Callbacks, Locals, Done3
  <2>3. Told'
    BY <1>0, <1>1, <1>3, <1>5, <2>1 DEF Told, Done3
  <2> QED BY <2>2, <2>3
<1>6. CASE cb.then \in {"halt", "final", "free"}
  <2>1. /\ cb.to = cur.f /\ cur' = cur /\ stage' = cb.then /\ stopped' = stopped
        /\ cb.then = "halt" => stage = "info"
        /\ cb.then = "final" => stage = "certs"
        /\ cb.then = "free" => stage = "final"
    BY <1>0, <1>1, <1>6 DEF Control
  <2>2. Client'
    BY <1>0, <1>1, <1>2, <1>3, <1>6, <2>1 DEF Client, Pointers, Callbacks, Locals, Done3
  <2>3. Told'
    <3>1. CASE cb.then = "halt"
      BY <1>0, <1>1, <1>3, <2>1, <3>1 DEF Client, Locals, Told, Done3
    <3>2. CASE cb.then = "final"
      BY <1>0, <1>1, <1>3, <2>1, <3>2 DEF Told, Done3
    <3>3. CASE cb.then = "free"
      BY <1>0, <1>1, <1>3, <2>1, <3>3 DEF Told, Done3
    <3> QED BY <1>6, <3>1, <3>2, <3>3
  <2> QED BY <2>2, <2>3
<1> QED BY <1>1, <1>4, <1>5, <1>6 DEF Thens

\* The callbacks of libcurl.
LEMMA ClientByLibcurl ==
  ASSUME CurlInv, NEW f \in Fetches,
         Header(f) \/ HeaderAfterCerts(f) \/ Progress(f) \/ Data(f)
  PROVE  Client' /\ Told'
<1>0. CurlBase /\ Control /\ Client /\ Told /\ live \subseteq Fetches
  BY DEF CurlInv, CurlBase, Joint, TypeOK
<1> USE DEF flags
<1>1. cb = NoCb /\ cb.then = "-" /\ cb.to = NoFetch
  BY NoFields DEF Header, HeaderAfterCerts, Progress, Data, InPoll
<1>2. /\ UNCHANGED abort /\ NoCur.f = NoFetch
      /\ \/ stage = "perform" /\ UNCHANGED <<stage, cur>>
         \/ stage = "header" /\ cur.f = f /\ stage' = "perform" /\ cur' = NoCur
  BY NoFields DEF Header, HeaderAfterCerts, Progress, Data, InPoll
<1>3. CASE NoCall
  <2>1. f \in abort /\ stopped' = stopped \union {f}
    BY <1>3, <1>1, CallMakes DEF Header, HeaderAfterCerts, Progress, Data, NoCall, Call, Thens
  <2>2. /\ UNCHANGED <<live, cb, held, aborted, corrupt>>
        /\ \A g \in Fetches : (Ended(g)' <=> Ended(g)) /\ (Attached(g)' <=> Attached(g))
    BY <1>3 DEF NoCall, vars, Ended, Attached, Queued
  <2>3. Client'
    BY <1>0, <1>1, <1>2, <2>1, <2>2 DEF Client, Pointers, Callbacks, Locals, Done3
  <2>4. Told'
    BY <1>0, <1>1, <1>2, <2>1, <2>2 DEF Told, Done3
  <2> QED BY <2>3, <2>4
<1>4. ASSUME NEW m, NEW then, Call(f, m, then), f \notin abort, stopped' = stopped,
             \/ then = "header" /\ m = "CERTS"
             \/ then \in {"perform", "data"} /\ m \in {"HEADER", "PROGRESS", "DATA"}
             \/ then = "stop" /\ m \in Finals /\ f \notin stopped
      PROVE  Client' /\ Told'
  <2>0. then \in Thens
    BY <1>4 DEF Thens
  <2>1. /\ cb'.to = f /\ cb'.msg = m /\ cb'.then = then
        /\ UNCHANGED <<aborted, corrupt>> /\ held' \subseteq held
    BY <1>4, <2>0, CallMakes
  <2>2. /\ f \in live /\ live' = live
        /\ \A g \in Fetches : Attached(g)' <=> Attached(g)
        /\ \A g \in Fetches : Ended(g)' <=> Ended(g) \/ (g = f /\ m \in Finals)
    BY <1>0, <1>4, <2>0, CallTells
  <2>3. {"HEADER", "PROGRESS", "DATA", "CERTS"} \intersect Finals = {}
    BY FinalMessages
  <2>4. Client'
    BY <1>0, <1>1, <1>2, <1>4, <2>1, <2>2 DEF Client, Pointers, Callbacks, Locals, Done3
  <2>5. Told'
    BY <1>0, <1>1, <1>2, <1>4, <2>1, <2>2, <2>3 DEF Told, Done3
  <2> QED BY <2>4, <2>5
<1>5. CASE Header(f)
  BY <1>3, <1>4, <1>5 DEF Header
<1>6. CASE HeaderAfterCerts(f)
  BY <1>0, <1>4, <1>6 DEF HeaderAfterCerts, InPoll, Client, Callbacks
<1>7. CASE Progress(f)
  BY <1>4, <1>7 DEF Progress
<1>8. CASE Data(f)
  <2>1. HeaderMsg(f) # "-" => HeaderMsg(f) \in Finals
    BY JudgedMessages, FinalMessages
  <2>2. f \notin stopped
    BY <1>8 DEF Data, Running
  <2> QED BY <1>3, <1>4, <1>8, <2>1, <2>2 DEF Data
<1> QED BY <1>5, <1>6, <1>7, <1>8

\* fetch_curl_done from its judgement to its last message.
LEMMA ClientByDone ==
  ASSUME CurlInv,
         (\E f \in Fetches : Done(f)) \/ DoneCerts \/ DoneFinal
  PROVE  Client' /\ Told'
<1>0. CurlBase /\ Control /\ Client /\ Told /\ live \subseteq Fetches
  BY DEF CurlInv, CurlBase, Joint, TypeOK
<1> USE DEF flags
<1>1. cb = NoCb /\ cb.then = "-" /\ cb.to = NoFetch /\ NoCur.f = NoFetch
  BY NoFields DEF Done, DoneCerts, DoneFinal, InPoll
<1>q. ASSUME NoCall
      PROVE  /\ UNCHANGED <<live, cb, held, aborted, corrupt>>
             /\ \A g \in Fetches : (Ended(g)' <=> Ended(g)) /\ (Attached(g)' <=> Attached(g))
  BY <1>q DEF NoCall, vars, Ended, Attached, Queued
<1>2. ASSUME NEW f \in Fetches, Done(f) PROVE Client' /\ Told'
  <2>1. /\ stage = "info" /\ cur = NoCur /\ f \in handle /\ f \in live
        /\ UNCHANGED <<abort, stopped>>
    BY <1>0, <1>1, <1>2 DEF Done, InPoll, Control, CurlBase, Joint, HandleIffActive, RingsAgree
  <2> DEFINE judge == Complete(f) /\ f \notin stopped /\ f \notin had_headers
             m == CASE judge -> IF f \in abort THEN "-" ELSE "FINISHED"
                    [] ~judge /\ f \in stopped -> "-"
                    [] ~judge /\ f \notin stopped /\ Complete(f) -> "FINISHED"
                    [] OTHER -> FailureMsg(outcome[f])
             a == f \in abort
             local(x) == [f |-> f, abort_fetch |-> a, send |-> x]
  <2>2. \A x : local(x).f = f /\ (local(x).abort_fetch <=> a) /\ local(x).send = x
    OBVIOUS
  <2>3. CASE judge /\ HeaderMsg(f) # "-" /\ Call(f, HeaderMsg(f), "halt") /\ cur' = local("-")
             /\ UNCHANGED stage
    <3>1. HeaderMsg(f) \in Finals
      BY <2>3, JudgedMessages, FinalMessages
    <3>2. cur'.f = f /\ (cur'.abort_fetch <=> f \in abort) /\ cur'.send = "-"
      BY <2>2, <2>3
    <3>3. "halt" \in Thens /\ f \notin stopped /\ stage' = "info"
      BY <2>1, <2>3 DEF Thens
    <3>4. Call(f, HeaderMsg(f), "halt")
      BY <2>3
    <3> HIDE DEF judge, m, a, local
    <3>5. /\ cb'.to = f /\ cb'.msg = HeaderMsg(f) /\ cb'.then = "halt"
          /\ UNCHANGED <<aborted, corrupt>> /\ held' \subseteq held
      BY <3>3, <3>4, CallMakes
    <3>6. /\ live' = live
          /\ \A g \in Fetches : Attached(g)' <=> Attached(g)
          /\ \A g \in Fetches : Ended(g)' <=> Ended(g) \/ g = f
      BY <1>0, <3>1, <3>3, <3>4, CallTells
    <3>7. Client'
      BY <1>0, <1>1, <2>1, <3>1, <3>2, <3>3, <3>5, <3>6
      DEF Client, Pointers, Callbacks, Locals, Done3
    <3>8. Told'
      BY <1>0, <1>1, <2>1, <3>2, <3>3, <3>5, <3>6 DEF Told, Done3
    <3> QED BY <3>7, <3>8
  <2>4. CASE NoCall /\ cur' = local(m) /\ stage' = "halt"
    <3>1. /\ f \notin abort \union stopped => m # "-"
          /\ f \in stopped /\ f \notin abort => m = "-"
          /\ m = "-" => f \in abort \union stopped
      BY JudgedMessages
    <3>2. cur'.f = f /\ (cur'.abort_fetch <=> f \in abort) /\ cur'.send = m
      BY <2>2, <2>4
    <3>3. stage' = "halt" /\ NoCall
      BY <2>4
    <3> HIDE DEF judge, m, a, local
    <3>4. Client'
      BY <1>0, <1>1, <1>q, <2>1, <3>1, <3>2, <3>3
      DEF Client, Pointers, Callbacks, Locals, Done3
    <3>5. Told'
      BY <1>0, <1>1, <1>q, <2>1, <3>1, <3>2, <3>3 DEF Told, Done3
    <3> QED BY <3>4, <3>5
  <2> QED BY <1>2, <2>3, <2>4 DEF Done
<1>3. CASE DoneCerts \/ DoneFinal
  <2>0. PICK f \in Fetches : cur.f = f /\ f \in live
    BY <1>3, <1>0, DoneHasFetch DEF DoneCerts, DoneFinal, InPoll
  <2>1. UNCHANGED <<abort, stopped, cur>> /\ {"final", "free"} \subseteq Thens
    BY <1>3 DEF DoneCerts, DoneFinal, Thens
  <2>2. CASE NoCall /\ DoneCerts
    <3>1. stage = "certs" /\ stage' = "final"
      BY <1>1, <2>0, <2>1, <2>2, CallMakes DEF DoneCerts, InPoll, NoCall
    <3>2. Client'
      BY <1>0, <1>1, <1>q, <2>0, <2>1, <2>2, <3>1 DEF Client, Pointers, Callbacks, Locals, Done3
    <3>3. Told'
      BY <1>0, <1>1, <1>q, <2>0, <2>1, <2>2, <3>1 DEF Told, Done3
    <3> QED BY <3>2, <3>3
  <2>3. CASE Call(f, "CERTS", "final") /\ stage = "certs" /\ UNCHANGED stage
    <3>1. /\ cb'.to = f /\ cb'.msg = "CERTS" /\ cb'.then = "final"
          /\ UNCHANGED <<aborted, corrupt>> /\ held' = held
      BY <2>1, <2>3, CallMakes DEF Dropping
    <3>2. /\ live' = live
          /\ \A g \in Fetches : (Ended(g)' <=> Ended(g)) /\ (Attached(g)' <=> Attached(g))
      BY <1>0, <2>1, <2>3, CallTells, FinalMessages
    <3>3. Client'
      BY <1>0, <1>1, <2>0, <2>1, <2>3, <3>1, <3>2 DEF Client, Pointers, Callbacks, Locals, Done3
    <3>4. Told'
      BY <1>0, <1>1, <2>0, <2>1, <2>3, <3>1, <3>2 DEF Told, Done3
    <3> QED BY <3>3, <3>4
  <2>4. CASE /\ stage = "final"
             /\ cur.abort_fetch \/ cur.send = "-"
             /\ NoCall /\ stage' = "free"
    <3>1. Client'
      BY <1>0, <1>1, <1>q, <2>0, <2>1, <2>4 DEF Client, Pointers, Callbacks, Locals, Done3
    <3>2. f \in abort \/ cur.send = "-"
      BY <1>0, <2>0, <2>4 DEF Client, Locals, Done3
    <3>3. Told'
      BY <1>0, <1>1, <1>q, <2>0, <2>1, <2>4, <3>2 DEF Told, Done3
    <3> QED BY <3>1, <3>3
  <2>5. CASE /\ stage = "final" /\ UNCHANGED stage /\ Call(f, cur.send, "free")
             /\ ~(cur.abort_fetch \/ cur.send = "-")
    <3>1. cur.send \in Finals /\ cur.send \in Dropping
      BY <1>0, <2>5, FinalMessages, NoFields, <2>0 DEF CurlBase, CurlTypes
    <3>2. /\ cb'.to = f /\ cb'.then = "free"
          /\ UNCHANGED <<aborted, corrupt>> /\ held' = held \ {f}
      BY <2>1, <2>5, <3>1, CallMakes
    <3>3. /\ live' = live
          /\ \A g \in Fetches : Attached(g)' <=> Attached(g)
          /\ \A g \in Fetches : Ended(g)' <=> Ended(g) \/ g = f
      BY <1>0, <2>1, <2>5, <3>1, CallTells
    <3>4. Client'
      BY <1>0, <1>1, <2>0, <2>1, <2>5, <3>2, <3>3 DEF Client, Pointers, Callbacks, Locals, Done3
    <3>5. Told'
      BY <1>0, <1>1, <2>0, <2>1, <2>5, <3>2, <3>3 DEF Told, Done3
    <3> QED BY <3>4, <3>5
  <2> QED BY <1>3, <2>0, <2>2, <2>3, <2>4, <2>5 DEF DoneCerts, DoneFinal, InPoll
<1> QED BY <1>2, <1>3

-----------------------------------------------------------------------------
\* Where everything starts.
LEMMA CurlStartsWell == CurlInit => CurlInv /\ Init
<1> SUFFICES ASSUME CurlInit PROVE CurlInv /\ Init
  OBVIOUS
<1>1. Init /\ TypeOK
  BY TypeInit DEF CurlInit
<1>2. RingsAgree
  BY <1>1 DEF Init, RingsAgree
<1>3. CurlTypes
  BY DEF CurlInit, CurlTypes, Stages
<1>4. HandleIffActive /\ Control
  BY <1>1, NoFields DEF CurlInit, Init, HandleIffActive, Control
<1>5. Client /\ Told
  BY <1>1, NoFields DEF CurlInit, Init, Client, Pointers, Callbacks, Locals, Told, Done3
<1> QED BY <1>1, <1>2, <1>3, <1>4, <1>5 DEF CurlInv, CurlBase, Joint

\* What the control invariant says of the properties of CurlFetch.
LEMMA BaseImplies ==
  ASSUME CurlBase
  PROVE  CurlTypeOK /\ HandleIffActive /\ InsideOnlyWithHandles /\ DoneFetchLives
<1>1. CurlTypes /\ TypeOK /\ Control /\ handle = fetch_ring /\ fetch_ring \subseteq live
  BY DEF CurlBase, Joint, HandleIffActive, RingsAgree
<1>2. stage \in {"header", "halt", "certs", "final", "free"} => cur.f \in live
  BY DoneHasFetch
<1>3. cb = NoCb \/ cb.to \in live
  BY <1>1, <1>2 DEF Control
<1>4. cur = NoCur \/ cur.f \in live
  <2>1. CASE stage = "info" /\ cb # NoCb
    BY <1>1, <2>1 DEF Control
  <2>2. CASE stage \in {"idle", "perform", "others"} \/ (stage = "info" /\ cb = NoCb)
    BY <1>1, <2>2 DEF Control
  <2> QED BY <1>1, <1>2, <2>1, <2>2 DEF CurlTypes, Stages
<1>5. inside_curl /\ polling = "none" => handle # {}
  BY <1>1 DEF Control
<1>6. cur = NoCur \/ cur.f \in Fetches
  BY <1>1, <1>4 DEF TypeOK
<1> QED BY <1>1, <1>3, <1>4, <1>5, <1>6
        DEF CurlTypeOK, CurlTypes, Stages, HandleIffActive, InsideOnlyWithHandles, DoneFetchLives

\* What the client is told keeps the strengthened invariant inductive.
LEMMA ClientStep ==
  ASSUME CurlInv, "CERTS" \notin AbortsIn, [CurlNext]_allVars
  PROVE  CurlInv'
<1>1. CurlBase'
  BY BaseStep DEF CurlInv
<1>2. Client' /\ Told'
  <2>1. CASE \E f \in Fetches : ClientStarts(f) \/ ClientAborts(f)
    BY <2>1, ClientByClient
  <2>2. CASE Dispatch \/ Factory \/ UNCHANGED allVars
    BY <2>2, ClientByFactory
  <2>3. CASE CallbackReturns
    BY <2>3, ClientByReturn
  <2>4. CASE \E f \in Fetches : Header(f) \/ HeaderAfterCerts(f) \/ Progress(f) \/ Data(f)
    BY <2>4, ClientByLibcurl
  <2>5. CASE (\E f \in Fetches : Done(f)) \/ DoneCerts \/ DoneFinal
    BY <2>5, ClientByDone
  <2>6. CASE \/ PollEnters \/ PerformReturns \/ PerformFails \/ PollLeaves \/ Halt \/ DoneFrees
             \/ \E b \in BOOLEAN : PollEnds(b)
             \/ \E f \in Fetches, r \in Results : Completes(f, r)
    BY <2>6, ClientByPoll
  <2> QED BY <2>1, <2>2, <2>3, <2>4, <2>5, <2>6 DEF CurlNext, CurlPoll, Libcurl
<1> QED BY <1>1, <1>2 DEF CurlInv

\* No callback answers twice: of a fetch the client has aborted nothing of the response
\* is reported, and of another one only a fetch that was not told the end is answered.
LEMMA CallsOnce ==
  ASSUME CurlInv, CurlNext, NEW f \in Fetches, Calls(f)
  PROVE  IF f \in aborted
         THEN cb'.msg \notin {"PROGRESS", "HEADER", "DATA", "FINISHED", "TIMEDOUT", "CERT_ERR",
                              "SSL_ERR"}
         ELSE cb'.msg \in Finals => ~Ended(f)
<1>0. CurlBase /\ Control /\ Client /\ Told
  BY DEF CurlInv, CurlBase, Joint
<1>1. cb' # NoCb /\ cb' # cb /\ cb'.to = f
  BY DEF Calls
<1>2. \/ \E g \in Fetches : Header(g) \/ HeaderAfterCerts(g) \/ Progress(g) \/ Data(g) \/ Done(g)
      \/ DoneCerts \/ DoneFinal
  BY <1>1
  DEF CurlNext, ClientStarts, ClientAborts, Dispatch, CurlStarts, CurlRefuses, Factory, CurlPoll,
      PollEnters, PerformReturns, PerformFails, CallbackReturns, Halt, DoneFrees, PollLeaves,
      PollEnds, Libcurl, Completes, curlVars
<1>3. cb = NoCb /\ cb.then = "-" /\ cb.to = NoFetch /\ NoCur.f = NoFetch
  BY <1>2, NoFields DEF Header, HeaderAfterCerts, Progress, Data, Done, DoneCerts, DoneFinal, InPoll
<1>4. ASSUME NEW g \in Fetches, NEW m, NEW then \in Thens, Call(g, m, then)
      PROVE  g = f /\ m = cb'.msg /\ f \in live /\ (f \in aborted <=> f \in abort)
  <2>1. g = f /\ m = cb'.msg
    BY <1>1, <1>4, CallMakes
  <2>2. f \in live
    BY <1>0, <1>4, <2>1, CallTells
  <2> QED BY <1>0, <2>1, <2>2 DEF Client, Pointers
<1>5. {"HEADER", "PROGRESS", "DATA", "CERTS"} \intersect Finals = {}
  BY FinalMessages
<1>n. ~NoCall
  BY <1>1 DEF NoCall
<1>6. ASSUME NEW g \in Fetches, Header(g) \/ HeaderAfterCerts(g) \/ Progress(g)
      PROVE  cb'.msg \in {"HEADER", "PROGRESS", "CERTS"} /\ f \notin aborted
  <2>1. PICK m, then : /\ Call(g, m, then) /\ g \notin abort
                       /\ m \in {"HEADER", "PROGRESS", "CERTS"}
                       /\ then \in {"perform", "header"}
    BY <1>0, <1>6, <1>n DEF Header, HeaderAfterCerts, Progress, InPoll, Client, Callbacks
  <2>2. then \in Thens
    BY <2>1 DEF Thens
  <2> QED BY <1>4, <2>1, <2>2
<1>7. ASSUME NEW g \in Fetches, Data(g)
      PROVE  f \notin aborted /\ (cb'.msg \in Finals => ~Ended(f))
  <2>1. PICK m, then : /\ Call(g, m, then) /\ g \notin abort /\ g \notin stopped
                       /\ then \in {"stop", "data"} /\ stage = "perform"
    BY <1>7, <1>n DEF Data, Running, InPoll
  <2>2. then \in Thens
    BY <2>1 DEF Thens
  <2>3. g = f /\ f \in live /\ f \notin aborted
    BY <1>4, <2>1, <2>2
  <2> QED BY <1>0, <1>3, <2>1, <2>3 DEF Told, Done3
<1>8. ASSUME NEW g \in Fetches, Done(g)
      PROVE  /\ cb'.msg \in {"NOTMODIFIED", "REDIRECT", "AUTH", "ERROR"}
             /\ f \notin aborted => ~Ended(f)
  <2>1. /\ Call(g, HeaderMsg(g), "halt") /\ g \notin stopped /\ stage = "info" /\ cur = NoCur
        /\ HeaderMsg(g) # "-"
    BY <1>0, <1>3, <1>8, <1>n DEF Done, InPoll, Control
  <2>2. "halt" \in Thens
    BY DEF Thens
  <2>3. g = f /\ cb'.msg = HeaderMsg(g) /\ f \in live /\ (f \in aborted <=> f \in abort)
    BY <1>4, <2>1, <2>2
  <2>4. cb'.msg \in {"NOTMODIFIED", "REDIRECT", "AUTH", "ERROR"}
    BY <2>1, <2>3, JudgedMessages
  <2> QED BY <1>0, <1>3, <2>1, <2>3, <2>4 DEF Told, Done3
<1>9. CASE DoneCerts
  <2>1. cur.f \in Fetches /\ "final" \in Thens /\ Call(cur.f, "CERTS", "final")
    BY <1>0, <1>9, <1>n, DoneHasFetch DEF DoneCerts, InPoll, Thens
  <2>2. cb'.msg = "CERTS"
    BY <2>1, CallMakes
  <2> QED BY <1>5, <2>2
<1>10. CASE DoneFinal
  <2>1. /\ cur.f \in Fetches /\ "free" \in Thens /\ Call(cur.f, cur.send, "free")
        /\ stage = "final" /\ ~cur.abort_fetch /\ cur.send # "-"
    BY <1>0, <1>10, <1>n, DoneHasFetch DEF DoneFinal, InPoll, Thens
  <2>2. cur.f = f /\ f \in live /\ (f \in aborted <=> f \in abort)
    BY <1>4, <2>1
  <2>3. f \notin abort \union stopped
    BY <1>0, <2>1, <2>2 DEF Client, Locals, Done3
  <2> QED BY <1>0, <1>3, <2>1, <2>2, <2>3 DEF Told, Done3
<1> QED BY <1>2, <1>5, <1>6, <1>7, <1>8, <1>9, <1>10

-----------------------------------------------------------------------------
\* The curl fetcher and the factory do what the factory promises of any fetcher: the
\* initial states are its initial states and every step is a step of it or changes
\* nothing it sees.  So all that is proved of Fetch holds of curl.
THEOREM CurlImplementsFetch == CurlSpec => ImplementsFetch
<1>1. CurlInit => CurlBase /\ Init
  BY CurlStartsWell DEF CurlInv
<1>2. CurlBase /\ [CurlNext]_allVars => CurlBase' /\ [Next]_vars
  BY BaseStep, StepIsFetch
<1> QED BY <1>1, <1>2, PTL DEF CurlSpec, ImplementsFetch, Spec

\* The state of curl.c has its types in every reachable state, and a callback goes to
\* a fetch that is allocated.
THEOREM CurlTypeCorrect == CurlSpec => []CurlTypeOK
<1>1. CurlInit => CurlBase
  BY CurlStartsWell DEF CurlInv
<1>2. CurlBase /\ [CurlNext]_allVars => CurlBase'
  BY BaseStep
<1>3. CurlBase => CurlTypeOK
  BY BaseImplies
<1> QED BY <1>1, <1>2, <1>3, PTL DEF CurlSpec

\* Whatever the client aborts and in which callback: a fetch has a handle exactly while
\* it is active, inside_curl outlives a poll only with a transfer left, and the fetch
\* fetch_curl_done works on is allocated.
THEOREM HandlesFollowRings ==
  CurlSpec => [](HandleIffActive /\ InsideOnlyWithHandles /\ DoneFetchLives)
<1>1. CurlInit => CurlBase
  BY CurlStartsWell DEF CurlInv
<1>2. CurlBase /\ [CurlNext]_allVars => CurlBase'
  BY BaseStep
<1>3. CurlBase => HandleIffActive /\ InsideOnlyWithHandles /\ DoneFetchLives
  BY BaseImplies
<1> QED BY <1>1, <1>2, <1>3, PTL DEF CurlSpec

\* Curl and the factory agree on what runs, and no fetch is taken off the rings twice,
\* for every client that does not abort a fetch in its certificate callback.
THEOREM HandlesAlwaysAgree == "CERTS" \notin AbortsIn => (CurlSpec => []HandlesAgree)
<1> SUFFICES ASSUME "CERTS" \notin AbortsIn PROVE CurlSpec => []HandlesAgree
  OBVIOUS
<1>1. CurlInit => CurlInv
  BY CurlStartsWell
<1>2. CurlInv /\ [CurlNext]_allVars => CurlInv'
  BY ClientStep
<1>3. CurlInv => HandlesAgree
  BY BaseImplies DEF CurlInv, Client, Pointers, HandlesAgree, NotCorrupt
<1> QED BY <1>1, <1>2, <1>3, PTL DEF CurlSpec

\* The client is told the end of a fetch at most once, and nothing of the response of
\* one it has aborted (fetch_curl_process_headers against fetch_curl_done).
THEOREM AnsweredOnce == "CERTS" \notin AbortsIn => (CurlSpec => OneCompletion)
<1> SUFFICES ASSUME "CERTS" \notin AbortsIn PROVE CurlSpec => OneCompletion
  OBVIOUS
<1>1. CurlInit => CurlInv
  BY CurlStartsWell
<1>2. CurlInv /\ [CurlNext]_allVars => CurlInv'
  BY ClientStep
<1>3. CurlInv /\ [CurlNext]_allVars =>
        [\A f \in Fetches :
           Calls(f) => IF f \in aborted
                       THEN cb'.msg \notin {"PROGRESS", "HEADER", "DATA", "FINISHED", "TIMEDOUT",
                                            "CERT_ERR", "SSL_ERR"}
                       ELSE Rank[cb'.msg] >= FETCH_MIN_FINISHED_MSG
                            => last_msg[f] < FETCH_MIN_FINISHED_MSG]_allVars
  <2> SUFFICES ASSUME CurlInv, CurlNext, NEW f \in Fetches, Calls(f)
               PROVE  IF f \in aborted
                      THEN cb'.msg \notin {"PROGRESS", "HEADER", "DATA", "FINISHED", "TIMEDOUT",
                                           "CERT_ERR", "SSL_ERR"}
                      ELSE Rank[cb'.msg] >= FETCH_MIN_FINISHED_MSG
                           => last_msg[f] < FETCH_MIN_FINISHED_MSG
    OBVIOUS
  <2>1. cb'.msg \in MsgType
    BY CurlTypesStep DEF CurlInv, CurlTypes, Calls
  <2>2. Rank[cb'.msg] >= FETCH_MIN_FINISHED_MSG => cb'.msg \in Finals
    BY <2>1, FinalMessages
  <2>3. last_msg[f] \in 0 .. 11 /\ FETCH_MIN_FINISHED_MSG = 4
    BY DEF CurlInv, CurlBase, TypeOK, FETCH_MIN_FINISHED_MSG, Rank
  <2>4. ~Ended(f) => last_msg[f] < FETCH_MIN_FINISHED_MSG
    BY <2>3 DEF Ended
  <2> QED BY CallsOnce, <2>2, <2>4
<1> QED BY <1>1, <1>2, <1>3, PTL DEF CurlSpec, OneCompletion

\* Nothing is left to report when fetch_curl_done frees its fetch: the error fetch_free
\* sends for a fetch without a completed message is never due here.
THEOREM NothingLeftUnsaid ==
  "CERTS" \notin AbortsIn =>
    (CurlSpec => [](stage = "free" => last_msg[cur.f] >= FETCH_MIN_FINISHED_MSG))
<1> SUFFICES ASSUME "CERTS" \notin AbortsIn
             PROVE  CurlSpec => [](stage = "free" => last_msg[cur.f] >= FETCH_MIN_FINISHED_MSG)
  OBVIOUS
<1>1. CurlInit => CurlInv
  BY CurlStartsWell
<1>2. CurlInv /\ [CurlNext]_allVars => CurlInv'
  BY ClientStep
<1>3. CurlInv => (stage = "free" => last_msg[cur.f] >= FETCH_MIN_FINISHED_MSG)
  BY DoneHasFetch DEF CurlInv, Told, Ended
<1> QED BY <1>1, <1>2, <1>3, PTL DEF CurlSpec

=============================================================================
