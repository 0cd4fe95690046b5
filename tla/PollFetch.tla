------------------------------ MODULE PollFetch ------------------------------
(***************************************************************************)
(* The fetchers that need no network (content/fetchers/data.c, file/,      *)
(* resource.c, about/) over content/fetch.c.  They share one design: setup *)
(* puts a context on the fetcher's ring, start does nothing, abort sets a  *)
(* flag, and poll takes one context after the other off the ring until it  *)
(* is empty, sends the whole reply for it, takes the fetch off the         *)
(* factory's rings and frees it.                                           *)
(*                                                                         *)
(* Every message of a reply is a call of the client, which may start and   *)
(* abort fetches, this one included, before the next message.  A reply may *)
(* stop without a completed message; then fetch_free reports an error.     *)
(***************************************************************************)
EXTENDS Fetch

CONSTANTS
    NFetchers,      \* number of fetchers; fetcher_poll polls them in this order
    Fetcherd,       \* fetcherd of each fetch: the scheme of its URL
    Replies,        \* kinds of reply in a run, see ReplyOf
    Reuse           \* FALSE bounds a run: each identity is started once

ASSUME FetcherAssumption ==
    NFetchers \in Nat \ {0} /\ Fetcherd \in [Fetches -> 1 .. NFetchers]
ASSUME PollAssumption ==
    /\ Replies \subseteq {"content", "malformed", "partial", "redirect", "notmodified",
                          "truncated", "nothing"}
    /\ Reuse \in BOOLEAN /\ ~UsesFdset /\ ~StartMayFail

VARIABLES
    ring,           \* contexts of each fetcher, oldest first
    flagged,        \* contexts with ->aborted set
    at,             \* the fetcher that is polled
    cur,            \* the context it has taken off its ring, as a set
    say,            \* messages of its reply still to be sent
    cb,             \* the message the client is handling, "-" when none
    held            \* fetches the client has a pointer to

pollVars == <<ring, flagged, at, cur, say, cb, held>>
allVars == <<vars, pollVars>>

PollInit ==
    /\ Init
    /\ ring = [k \in 1 .. NFetchers |-> <<>>] /\ flagged = {} /\ at = 1
    /\ cur = {} /\ say = <<>> /\ cb = "-"
    /\ held = {}

\* What is sent for a reply.  fetch_data_process reports a malformed URL itself,
\* a file may fail to be read to its end, and the pages of about: stop in the
\* middle, or before they send anything, when they lack a parameter or memory.
ReplyOf(r) ==
    CASE r = "content"     -> <<"HEADER", "DATA", "FINISHED">>
      [] r = "malformed"   -> <<"ERROR">>
      [] r = "partial"     -> <<"HEADER", "DATA", "ERROR">>
      [] r = "redirect"    -> <<"REDIRECT">>
      [] r = "notmodified" -> <<"NOTMODIFIED">>
      [] r = "truncated"   -> <<"HEADER", "DATA">>
      [] r = "nothing"     -> <<>>

ASSUME RepliesAssumption ==
    \A r \in Replies : \A k \in DOMAIN ReplyOf(r) : ReplyOf(r)[k] \in Messages
\* fetch_free's own report is one.
ASSUME ErrorAssumption == "ERROR" \in Messages

\* The client runs in the main loop and in callbacks.
ClientTurn == job = "none" /\ (cb # "-" \/ polling = "none")

\* fetch_start and the fetcher's setup.
ClientStarts(f) ==
    /\ ClientTurn
    /\ Reuse \/ last_msg[f] = 0
    /\ StartFetch(f)
    /\ ring' = [ring EXCEPT ![Fetcherd[f]] = Append(@, f)]
    /\ flagged' = flagged \ {f}
    /\ held' = held \union {f}
    /\ UNCHANGED <<at, cur, say, cb>>

\* fetch_dispatch_job: start always succeeds.
Dispatches(i) == DispatchStarts(i) /\ UNCHANGED pollVars

AbortUnlinks(f) ==
    /\ AbortDeferred(f)
    /\ flagged' = flagged \union {f}
    /\ ring' = [ring EXCEPT ![Fetcherd[f]] = SelectSeq(@, LAMBDA g : g # f)]

\* The fetcher's abort: only the flag, poll does the rest.
Abort(f) ==
    /\ AbortDeferred(f)
    /\ flagged' = flagged \union {f}
    /\ UNCHANGED ring

ClientAborts(f) ==
    /\ ClientTurn
    /\ f \in held
    /\ Abort(f)
    /\ held' = held \ {f}
    /\ UNCHANGED <<at, cur, say, cb>>

InPoll == polling # "none" /\ job = "none" /\ cb = "-"

\* The head of the poll loop; an aborted context has nothing more to say.
Take ==
    /\ InPoll /\ cur = {} /\ ring[at] # <<>>
    /\ cur' = {Head(ring[at])}
    /\ ring' = [ring EXCEPT ![at] = Tail(@)]
    /\ IF Head(ring[at]) \in flagged
       THEN say' = <<>>
       ELSE \E r \in Replies : say' = ReplyOf(r)
    /\ UNCHANGED <<vars, flagged, at, cb, held>>

\* The client drops its pointer when it is told the end.
Tell(f, m) ==
    /\ SendCallback(f, m)
    /\ held' = IF m \in {"FINISHED", "ERROR"} THEN held \ {f} ELSE held
    /\ cb' = m

\* One message of the reply.
Send ==
    /\ InPoll /\ say # <<>>
    /\ \E f \in cur : Tell(f, Head(say))
    /\ say' = Tail(say)
    /\ UNCHANGED <<ring, flagged, at, cur>>

ReturnUnchecked ==
    /\ cb # "-" /\ job = "none"
    /\ cb' = "-"
    /\ UNCHANGED <<vars, ring, flagged, at, cur, say, held>>

\* "Any callback can result in the fetch being aborted": the flag is tested
\* after each.  (The client has aborted a redirected or unmodified fetch.)
Return ==
    /\ cb # "-" /\ job = "none"
    /\ cb \in {"REDIRECT", "NOTMODIFIED"} => cur \subseteq flagged
    /\ cb' = "-"
    /\ say' = IF cur \subseteq flagged THEN <<>> ELSE say
    /\ UNCHANGED <<vars, ring, flagged, at, cur, held>>

FinishFirst ==
    /\ InPoll
    /\ \E f \in cur : Remove(f)
    /\ UNCHANGED pollVars

\* fetch_remove_from_queues, and after it fetch_free ...
Finish ==
    /\ InPoll /\ say = <<>>
    /\ \E f \in cur : Remove(f)
    /\ UNCHANGED pollVars

\* ... which tells the client of a fetch that did not finish ...
Report ==
    /\ InPoll /\ say = <<>>
    /\ \E f \in cur :
          /\ ~Attached(f) /\ last_msg[f] < FETCH_MIN_FINISHED_MSG
          /\ Tell(f, "ERROR")
    /\ UNCHANGED <<ring, flagged, at, cur, say>>

\* ... and frees it.
Release ==
    /\ InPoll /\ say = <<>>
    /\ \E f \in cur : Free(f)
    /\ cur' = {}
    /\ UNCHANGED <<ring, flagged, at, say, cb, held>>

\* while (ring != NULL) is over: fetcher_poll calls the next fetcher, or is done.
Drained == InPoll /\ cur = {} /\ ring[at] = <<>>

NextFetcher ==
    /\ Drained /\ at < NFetchers
    /\ at' = at + 1
    /\ UNCHANGED <<vars, ring, flagged, cur, say, cb, held>>

PollEnds ==
    /\ Drained /\ at = NFetchers
    /\ PollersDone(FALSE)
    /\ at' = 1
    /\ UNCHANGED <<ring, flagged, cur, say, cb, held>>

System ==
    \/ \E i \in DOMAIN queue_ring : Dispatches(i)
    \/ DispatchEnds /\ UNCHANGED pollVars
    \/ FetcherPoll /\ UNCHANGED pollVars
    \/ Take \/ Send \/ Return \/ Finish \/ Report \/ Release \/ NextFetcher \/ PollEnds

PollNext == System \/ \E f \in Fetches : ClientStarts(f) \/ ClientAborts(f)

PollSpec == PollInit /\ [][PollNext]_allVars

\* llcache aborts a redirected or unmodified fetch before it returns.
OwedAbort ==
    /\ cb \in {"REDIRECT", "NOTMODIFIED"}
    /\ \E f \in cur : ClientAborts(f)

\* The main loop runs fetcher_poll and every callback returns.
FairPollSpec == PollSpec /\ WF_allVars(System) /\ WF_allVars(OwedAbort)

-----------------------------------------------------------------------------
PollTypeOK ==
    /\ TypeOK
    /\ ring \in [1 .. NFetchers -> Seq(Fetches)] /\ flagged \subseteq Fetches
    /\ at \in 1 .. NFetchers
    /\ cur \subseteq Fetches /\ Cardinality(cur) <= 1
    /\ say \in Seq(MsgType) /\ cb \in MsgType \union {"-"}
    /\ held \subseteq Fetches

\* The client is not called for a fetch it has aborted or was told the end of, not
\* even in the middle of a reply (fetch_data_send_callback and its like set locked
\* and test aborted); and no fetch is freed while the client still has its pointer:
\* of each fetch it has not aborted it is told the end exactly once, by the reply
\* or, when that stops short, by fetch_free.
ToldOnce ==
    [][/\ \A f \in cur : cb' # cb /\ cb' # "-"
                         => f \notin flagged /\ last_msg[f] < FETCH_MIN_FINISHED_MSG
       /\ held \intersect (live \ live') = {}]_allVars

\* Whenever the client may use its pointers, in the main loop or in a callback, the
\* fetches they point at are allocated and on one of the factory's rings, so that an
\* abort finds the fetch there; fetch_free's report is made off the rings, and the
\* client gives the pointer up before it can use it.
HeldIsAttached == ClientTurn => \A f \in held : f \in live /\ Attached(f)

\* Every fetch is at last answered or dropped, whatever callbacks start and abort,
\* unless another fetcher's callbacks refill that fetcher's ring for ever: then
\* its poll never returns and fetcher_poll never reaches this one's.
Starved(f) == polling # "none" /\ at # Fetcherd[f]
EveryFetchEnds ==
    \A f \in Fetches : (f \in live ~> f \notin live) \/ <>[]Starved(f)

\* fetchers.h:43: "start is called before the first poll".
StartedBeforePolled == [][\A f \in cur' \ cur : fetch_is_active[f]]_allVars

\* With no exception for an endless poll: what a callback that always starts
\* another fetch for the same fetcher prevents.
NoneStarves == \A f \in Fetches : f \in live ~> f \notin live

\* These fetchers and the factory do what Fetch promises of any fetcher.
ImplementsFetch == Spec
=============================================================================
