------------------------------ MODULE CurlFetch ------------------------------
(***************************************************************************)
(* content/fetchers/curl.c over content/fetch.c: the fetcher for http and  *)
(* https, its poll, the callbacks libcurl makes into it, and the client    *)
(* (content/llcache.c) that starts and aborts fetches in the middle of     *)
(* them.  libcurl is the environment: it calls back for attached handles   *)
(* and completes transfers in any order.                                   *)
(*                                                                         *)
(* A callback into the client is a state of its own (`cb'): while it lasts *)
(* the client may call fetch_start and fetch_abort.  `then' names the code *)
(* that goes on when the callback returns.                                 *)
(***************************************************************************)
EXTENDS Fetch

CONSTANTS
    Replies,        \* what servers answer: "ok", "notmod", "redirect", "auth", "not2xx"
    AbortsIn,       \* messages in whose callback the client may abort the very fetch
    Abortable,      \* fetches the client may abort
    Reuse           \* FALSE bounds a run: each identity is started once

ASSUME RepliesAssumption == Replies \subseteq {"ok", "notmod", "redirect", "auth", "not2xx"}
ASSUME AbortsInAssumption ==
    AbortsIn \subseteq MsgType /\ Abortable \subseteq Fetches /\ Reuse \in BOOLEAN

VARIABLES
    inside_curl,    \* the static flag
    handle,         \* fetches with a curl_handle, attached to the multi handle
    abort,          \* f->abort
    stopped,        \* f->stopped
    had_headers,    \* f->had_headers
    sent_chain,     \* f->sent_ssl_chain
    reply,          \* class of the server's reply to each fetch
    outcome,        \* libcurl's CURLMSG_DONE result of a transfer, "none" before it
    stage,          \* where fetch_curl_poll is
    cur,            \* locals of fetch_curl_done: f, abort_fetch and what is to be sent
    cb,             \* the callback being made: [to, msg, then]
    held,           \* fetches the client has a pointer to
    aborted,        \* fetches the client has aborted
    corrupt         \* a fetch was removed from rings it is no longer on

curlVars == <<inside_curl, handle, abort, stopped, had_headers, sent_chain, reply,
              outcome, stage, cur, cb, held, aborted, corrupt>>
flags == <<abort, stopped, had_headers, sent_chain, reply, outcome>>
clientVars == <<held, aborted, corrupt>>
allVars == <<vars, curlVars>>

Results == {"OK", "WRITE_ERROR", "PARTIAL_FILE", "PEER_CERTIFICATE", "SSL_CONNECT",
            "TIMEDOUT", "OTHER"}
NoFetch == "no fetch"
NoCb == [to |-> NoFetch, msg |-> "-", then |-> "-"]
NoCur == [f |-> NoFetch, abort_fetch |-> FALSE, send |-> "-"]

-----------------------------------------------------------------------------
CurlInit ==
    /\ Init
    /\ inside_curl = FALSE
    /\ handle = {} /\ abort = {} /\ stopped = {} /\ had_headers = {} /\ sent_chain = {}
    /\ reply = [f \in Fetches |-> "ok"]
    /\ outcome = [f \in Fetches |-> "none"]
    /\ stage = "idle"
    /\ cur = NoCur
    /\ cb = NoCb
    /\ held = {} /\ aborted = {}
    /\ corrupt = FALSE

\* The client runs in the main loop, in a callback, or in one made by the poll
\* of another fetcher.
ClientTurn == job = "none" /\ (cb # NoCb \/ stage = "others" \/ polling = "none")

\* fetch_start and fetch_curl_setup.
ClientStarts(f) ==
    /\ ClientTurn
    /\ Reuse \/ last_msg[f] = 0
    /\ StartFetch(f)
    /\ abort' = abort \ {f}
    /\ stopped' = stopped \ {f}
    /\ had_headers' = had_headers \ {f}
    /\ sent_chain' = sent_chain \ {f}
    /\ \E r \in Replies : reply' = [reply EXCEPT ![f] = r]
    /\ outcome' = [outcome EXCEPT ![f] = "none"]
    /\ held' = held \union {f}
    /\ aborted' = aborted \ {f}
    /\ UNCHANGED <<inside_curl, handle, stage, cur, cb, corrupt>>

\* fetch_curl_start, called by fetch_dispatch_job: refused inside libcurl, and
\* when the options cannot be set ("retry later").
CurlStarts(i) ==
    /\ ~inside_curl
    /\ DispatchStarts(i)
    /\ handle' = handle \union {queue_ring[i]}
    /\ UNCHANGED <<inside_curl, flags, stage, cur, cb>>
    /\ UNCHANGED clientVars

CurlRefusesAtWill(i) == PutBack(i) /\ UNCHANGED curlVars

CurlRefuses(i) ==
    /\ inside_curl \/ StartMayFail
    /\ PutBack(i)
    /\ UNCHANGED curlVars

\* fetch_abort of a fetch with a curl_handle while libcurl is on the stack.
AbortInside(f) ==
    /\ f \in handle /\ inside_curl
    /\ AbortDeferred(f)
    /\ abort' = abort \union {f}
    /\ UNCHANGED <<handle, corrupt>>

AbortKeepsHandle(f) ==
    /\ f \notin handle \/ ~inside_curl
    /\ AbortNow(f)
    /\ UNCHANGED <<handle, abort, corrupt>>

\* The same outside libcurl: fetch_curl_stop and fetch_free.  Without a handle
\* the fetch is still queued and leaves the queue.
AbortOutside(f) ==
    /\ f \notin handle \/ ~inside_curl
    /\ AbortNow(f)
    /\ handle' = handle \ {f}
    /\ UNCHANGED <<abort, corrupt>>

\* fetch_curl_abort of a fetch that fetch_curl_done has already stopped: it is
\* removed from rings it is not on and freed under fetch_curl_done's feet.
AbortStopped(f) ==
    /\ f \notin handle /\ ~Attached(f)
    /\ corrupt' = TRUE
    /\ UNCHANGED vars
    /\ UNCHANGED <<handle, abort>>

ClientAborts(f) ==
    /\ ClientTurn
    /\ f \in held \intersect Abortable
    /\ f = cb.to => cb.msg \in AbortsIn
    /\ held' = held \ {f}
    /\ aborted' = aborted \union {f}
    /\ AbortInside(f) \/ AbortOutside(f) \/ AbortStopped(f)
    /\ UNCHANGED <<inside_curl, stopped, had_headers, sent_chain, reply, outcome,
                   stage, cur, cb>>

-----------------------------------------------------------------------------
\* Messages after which llcache drops its pointer instead of aborting.
Dropping == {"FINISHED", "TIMEDOUT", "ERROR", "CERT_ERR", "SSL_ERR"}

\* fetch_send_callback up to the call of the client.
Call(f, m, then) ==
    /\ m \in Messages
    /\ SendCallback(f, m)
    /\ cb' = [to |-> f, msg |-> m, then |-> then]
    /\ held' = IF m \in Dropping THEN held \ {f} ELSE held
    /\ UNCHANGED <<aborted, corrupt>>

NoCall == UNCHANGED vars /\ UNCHANGED <<cb, held, aborted, corrupt>>

\* Whether header lines have arrived: the first one sets sent_ssl_chain.
Heard(f) == f \in sent_chain

\* fetch_curl_process_headers: the message it sends for the reply of f, if any.
\* The reply "not2xx" is a status that only_2xx rejects; no status at all is one.
HeaderMsg(f) ==
    CASE Heard(f) /\ reply[f] = "notmod"   -> "NOTMODIFIED"
      [] Heard(f) /\ reply[f] = "redirect" -> "REDIRECT"
      [] Heard(f) /\ reply[f] = "auth"     -> "AUTH"
      [] reply[f] = "not2xx"               -> "ERROR"
      [] OTHER                             -> "-"

InPoll(s) == stage = s /\ cb = NoCb /\ polling # "none" /\ job = "none"

\* fetch_curl_poll enters curl_multi_perform.
PollEnters ==
    /\ InPoll("idle")
    /\ inside_curl' = TRUE
    /\ stage' = "perform"
    /\ UNCHANGED <<vars, handle, flags, cur, cb>>
    /\ UNCHANGED clientVars

\* A transfer libcurl may still call back for.
Running(f) == f \in handle /\ outcome[f] = "none" /\ f \notin stopped

\* fetch_curl_header, first half.
Header(f) ==
    /\ InPoll("perform") /\ Running(f)
    /\ IF f \in abort
       THEN NoCall /\ stopped' = stopped \union {f} /\ UNCHANGED sent_chain
       ELSE /\ UNCHANGED stopped
            /\ sent_chain' = sent_chain \union {f}
            /\ \/ f \notin sent_chain /\ Call(f, "CERTS", "header")
               \/ Call(f, "HEADER", "perform")
    /\ UNCHANGED <<inside_curl, handle, abort, had_headers, reply, outcome, stage, cur>>

\* fetch_curl_header after its certificate callback: f->abort is not read again.
HeaderAfterCerts(f) ==
    /\ InPoll("header") /\ cur.f = f
    /\ Call(f, "HEADER", "perform")
    /\ stage' = "perform"
    /\ cur' = NoCur
    /\ UNCHANGED <<inside_curl, handle, flags>>

\* fetch_curl_progress.
Progress(f) ==
    /\ InPoll("perform") /\ Running(f)
    /\ f \notin abort
    /\ Call(f, "PROGRESS", "perform")
    /\ UNCHANGED <<inside_curl, handle, flags, stage, cur>>

\* fetch_curl_data: the body of a 401 is skipped, an aborted transfer stopped,
\* the headers are judged before the first data.
Data(f) ==
    /\ InPoll("perform") /\ Running(f)
    /\ Heard(f) /\ reply[f] # "auth"
    /\ CASE f \in abort ->
                NoCall /\ stopped' = stopped \union {f} /\ UNCHANGED had_headers
         [] f \notin abort /\ f \notin had_headers /\ HeaderMsg(f) # "-" ->
                /\ Call(f, HeaderMsg(f), "stop")
                /\ had_headers' = had_headers \union {f}
                /\ UNCHANGED stopped
         [] OTHER ->
                /\ Call(f, "DATA", "data")
                /\ had_headers' = had_headers \union {f}
                /\ UNCHANGED stopped
    /\ UNCHANGED <<inside_curl, handle, abort, sent_chain, reply, outcome, stage, cur>>

\* A callback returns to the code that made it.
CallbackReturns ==
    /\ cb # NoCb /\ job = "none"
    /\ cb' = NoCb
    /\ held' = IF Rank[cb.msg] >= FETCH_MIN_FINISHED_MSG THEN held \ {cb.to} ELSE held
    /\ stopped' = IF cb.then = "stop" \/ (cb.then = "data" /\ cb.to \in abort)
                  THEN stopped \union {cb.to} ELSE stopped
    /\ stage' = IF cb.then \in {"header", "halt", "final", "free"} THEN cb.then ELSE stage
    /\ cur' = IF cb.then = "header" THEN [NoCur EXCEPT !.f = cb.to] ELSE cur
    /\ UNCHANGED <<vars, inside_curl, handle, abort, had_headers, sent_chain, reply,
                   outcome, aborted, corrupt>>

\* The message fetch_curl_done sends for a CURLcode that is a failure.
FailureMsg(r) ==
    CASE r = "PEER_CERTIFICATE" -> "CERT_ERR"
      [] r = "SSL_CONNECT"      -> "SSL_ERR"
      [] r = "TIMEDOUT"         -> "TIMEDOUT"
      [] OTHER                  -> "ERROR"

\* libcurl completes a transfer: a callback that returned 0 makes it a write
\* error, and a response is complete or truncated only once its headers came.
Completes(f, r) ==
    /\ InPoll("perform")
    /\ f \in handle /\ outcome[f] = "none"
    /\ f \in stopped => r = "WRITE_ERROR"
    /\ IF r \in {"OK", "PARTIAL_FILE", "WRITE_ERROR"}
       THEN f \in stopped \/ Heard(f)
       ELSE FailureMsg(r) \in Messages
    /\ outcome' = [outcome EXCEPT ![f] = r]
    /\ UNCHANGED <<vars, inside_curl, handle, abort, stopped, had_headers, sent_chain,
                   reply, stage, cur, cb>>
    /\ UNCHANGED clientVars

PerformReturns ==
    /\ InPoll("perform")
    /\ stage' = "info"
    /\ UNCHANGED <<vars, inside_curl, handle, flags, cur, cb>>
    /\ UNCHANGED clientVars

\* curl_multi_perform fails: the poll returns with inside_curl still set.  The code
\* has no test of handle; that libcurl fails only at a transfer is assumed of it.
PerformFails ==
    /\ InPoll("perform")
    /\ handle # {}
    /\ stage' = "others"
    /\ UNCHANGED <<vars, inside_curl, handle, flags, cur, cb>>
    /\ UNCHANGED clientVars

-----------------------------------------------------------------------------
\* fetch_curl_done before its fetch_curl_stop.  The locals finished, cert and
\* error become the message to send at the end, "-" when there is none.

\* Whether the result lets fetch_curl_done treat the body as complete.
Complete(f) ==
    \/ f \notin abort /\ outcome[f] = "OK"
    \/ f \notin abort /\ outcome[f] = "WRITE_ERROR" /\ f \notin stopped
    \/ outcome[f] = "PARTIAL_FILE"

Done(f) ==
    /\ InPoll("info")
    /\ f \in handle /\ outcome[f] # "none"
    /\ LET judge == Complete(f) /\ f \notin stopped /\ f \notin had_headers
           local(m) == [f |-> f, abort_fetch |-> f \in abort, send |-> m]
       IN  /\ had_headers' = IF judge THEN had_headers \union {f} ELSE had_headers
           /\ \/ /\ judge /\ HeaderMsg(f) # "-"
                 /\ Call(f, HeaderMsg(f), "halt")
                 /\ cur' = local("-")
                 /\ UNCHANGED stage
              \/ /\ ~judge \/ HeaderMsg(f) = "-"
                 /\ NoCall
                 /\ cur' = local(CASE judge -> IF f \in abort THEN "-" ELSE "FINISHED"
                                   [] ~judge /\ f \in stopped -> "-"
                                   [] ~judge /\ f \notin stopped /\ Complete(f) -> "FINISHED"
                                   [] OTHER -> FailureMsg(outcome[f]))
                 /\ stage' = "halt"
    /\ UNCHANGED <<inside_curl, handle, abort, stopped, sent_chain, reply, outcome>>

\* fetch_curl_stop.
Halt ==
    /\ InPoll("halt")
    /\ Remove(cur.f)
    /\ handle' = handle \ {cur.f}
    /\ stage' = "certs"
    /\ UNCHANGED <<inside_curl, flags, cur, cb>>
    /\ UNCHANGED clientVars

\* fetch_curl_report_certs_upstream from fetch_curl_done: a chain may be known
\* for the URL or not.
DoneCerts ==
    /\ InPoll("certs")
    /\ \/ /\ cur.f \notin sent_chain
          /\ Call(cur.f, "CERTS", "final")
          /\ UNCHANGED stage
       \/ NoCall /\ stage' = "final"
    /\ sent_chain' = sent_chain \union {cur.f}
    /\ UNCHANGED <<inside_curl, handle, abort, stopped, had_headers, reply, outcome, cur>>

FinalIgnoresAbort ==
    /\ InPoll("final")
    /\ IF cur.send = "-"
       THEN NoCall /\ stage' = "free"
       ELSE Call(cur.f, cur.send, "free") /\ UNCHANGED stage
    /\ UNCHANGED <<inside_curl, handle, flags, cur>>

\* The final message of fetch_curl_done.
DoneFinal ==
    /\ InPoll("final")
    /\ IF cur.abort_fetch \/ cur.send = "-"
       THEN NoCall /\ stage' = "free"
       ELSE Call(cur.f, cur.send, "free") /\ UNCHANGED stage
    /\ UNCHANGED <<inside_curl, handle, flags, cur>>

\* fetch_free.  On every path a completed message was sent, or the fetch was
\* aborted, so that the error it reports otherwise is not due: Free requires it,
\* and the model would stop here if it were wrong.
DoneFrees ==
    /\ InPoll("free")
    /\ Free(cur.f)
    /\ stage' = "info"
    /\ cur' = NoCur
    /\ UNCHANGED <<inside_curl, handle, flags, cb>>
    /\ UNCHANGED clientVars

\* No more messages: fetch_curl_poll returns and the other fetchers are polled.
PollLeaves ==
    /\ InPoll("info")
    /\ \A f \in handle : outcome[f] = "none"
    /\ inside_curl' = FALSE
    /\ stage' = "others"
    /\ UNCHANGED <<vars, handle, flags, cur, cb>>
    /\ UNCHANGED clientVars

PollEnds(maxfdSet) ==
    /\ InPoll("others")
    /\ maxfdSet => handle # {}
    /\ PollersDone(maxfdSet)
    /\ stage' = "idle"
    /\ UNCHANGED <<inside_curl, handle, flags, cur, cb>>
    /\ UNCHANGED clientVars

\* The actions of fetch.c that do not enter curl.c.
Factory == (DispatchEnds \/ FetcherPoll \/ FetchFdset) /\ UNCHANGED curlVars

CurlPoll ==
    \/ PollEnters \/ PerformReturns \/ PerformFails \/ CallbackReturns
    \/ Halt \/ DoneCerts \/ DoneFinal \/ DoneFrees \/ PollLeaves
    \/ \E f \in Fetches : HeaderAfterCerts(f) \/ Done(f)
    \/ \E maxfdSet \in BOOLEAN : PollEnds(maxfdSet)

Libcurl ==
    \E f \in Fetches :
        \/ Header(f) \/ Progress(f) \/ Data(f)
        \/ \E r \in Results : Completes(f, r)

Dispatch == \E i \in DOMAIN queue_ring : CurlStarts(i) \/ CurlRefuses(i)

CurlNext ==
    \/ \E f \in Fetches : ClientStarts(f) \/ ClientAborts(f)
    \/ Dispatch
    \/ Factory
    \/ CurlPoll
    \/ Libcurl

CurlSpec == CurlInit /\ [][CurlNext]_allVars

\* The main loop keeps running what is scheduled, a call that was made returns,
\* and libcurl, which bounds every transfer by a time, completes each of them.
Fairness ==
    /\ WF_allVars(Dispatch)
    /\ WF_allVars(DispatchEnds /\ UNCHANGED curlVars)
    /\ WF_allVars(FetcherPoll /\ UNCHANGED curlVars)
    /\ WF_allVars(CurlPoll)
    /\ SF_allVars(PerformReturns)
    /\ \A f \in Fetches :
          /\ SF_allVars(\E i \in DOMAIN queue_ring : queue_ring[i] = f /\ CurlStarts(i))
          /\ SF_allVars(\E r \in Results : Completes(f, r))

FairCurlSpec == CurlSpec /\ Fairness

\* The same against a client that never stops starting and aborting fetches.
BusyCurlSpec ==
    /\ FairCurlSpec
    /\ SF_allVars(FetcherPoll /\ UNCHANGED curlVars)
    /\ SF_allVars(CurlPoll)

-----------------------------------------------------------------------------
CurlTypeOK ==
    /\ TypeOK
    /\ inside_curl \in BOOLEAN /\ corrupt \in BOOLEAN
    /\ handle \subseteq Fetches /\ abort \subseteq Fetches /\ stopped \subseteq Fetches
    /\ had_headers \subseteq Fetches /\ sent_chain \subseteq Fetches
    /\ reply \in [Fetches -> Replies \union {"ok"}]
    /\ outcome \in [Fetches -> Results \union {"none"}]
    /\ stage \in {"idle", "perform", "header", "info", "halt", "certs", "final", "free", "others"}
    /\ held \subseteq Fetches /\ aborted \subseteq Fetches
    /\ cb = NoCb \/ cb.to \in live
    /\ cur = NoCur \/ cur.f \in Fetches

\* Curl's own picture of what is running agrees with the factory's: a fetch has
\* an attached handle exactly while it is on fetch_ring, through refusals,
\* deferred and immediate aborts and completions (fetch_curl_start and
\* fetch_curl_stop against fetch_dispatch_job and fetch_remove_from_queues).
HandleIffActive == handle = fetch_ring

\* inside_curl may outlive a poll only while some transfer is left that will be
\* polled again; otherwise every later fetch_curl_start would be deferred for
\* good (the early return of fetch_curl_poll on an error of curl_multi_perform).
InsideOnlyWithHandles ==
    inside_curl /\ polling = "none" /\ job = "none" => handle # {}

\* A fetch is never taken off the rings twice nor freed twice: the deferral by
\* inside_curl in fetch_curl_abort keeps fetch_curl_done's fetch alive.
NotCorrupt == ~corrupt

\* A callback goes to the client of a fetch that is still allocated, and while
\* fetch_curl_done is at work its fetch is not freed by an abort.
DoneFetchLives == cur # NoCur => cur.f \in live

\* All together: curl and the factory agree on what runs, and a fetch is freed
\* once, and not under fetch_curl_done.
HandlesAgree == HandleIffActive /\ InsideOnlyWithHandles /\ NotCorrupt /\ DoneFetchLives

\* A call of the client for fetch f.
Calls(f) == cb' # NoCb /\ cb' # cb /\ cb'.to = f

\* The client hears at most one completed message for each fetch it has not
\* aborted: fetch_curl_process_headers and fetch_curl_done never both answer.
\* Of one it has aborted it hears nothing of the response: no header, body,
\* progress or end (the tests of f->abort in every libcurl callback and of
\* abort_fetch in fetch_curl_done).
OneCompletion ==
    [][\A f \in Fetches :
          Calls(f) => IF f \in aborted
                      THEN cb'.msg \notin {"PROGRESS", "HEADER", "DATA", "FINISHED", "TIMEDOUT",
                                           "CERT_ERR", "SSL_ERR"}
                      ELSE Rank[cb'.msg] >= FETCH_MIN_FINISHED_MSG
                           => last_msg[f] < FETCH_MIN_FINISHED_MSG]_allVars

\* The comment in fetch_curl_done, "fetch was aborted: no callback", for the
\* certificate report that precedes it.
NoCertsAfterAbort ==
    [][\A f \in Fetches : Calls(f) /\ f \in aborted => cb'.msg # "CERTS"]_allVars

\* The same for the reply that fetch_curl_process_headers judges when
\* fetch_curl_done finds a truncated body.
NoReplyAfterAbort ==
    [][\A f \in Fetches :
          Calls(f) /\ f \in aborted
          => cb'.msg \notin {"REDIRECT", "NOTMODIFIED", "AUTH", "ERROR"}]_allVars

\* Every fetch that is started is at last answered or aborted, and freed.
EveryFetchEnds == \A f \in Fetches : f \in live ~> f \notin live

\* A fetch that fetch_start queued "for later processing" leaves the queue.
QueuedIsServed == \A f \in Fetches : Queued(f) ~> ~Queued(f)

\* Curl and the factory together do what the factory promises of any fetcher
\* that keeps to its contract.
ImplementsFetch == Spec
==============================================================================
