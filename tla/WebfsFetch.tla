----------------------------- MODULE WebfsFetch -----------------------------
(***************************************************************************)
(* frontends/plan9/webfs.c over content/fetch.c: the fetcher this port     *)
(* registers for http and https in place of curl.  Plan 9's webfs file     *)
(* server makes the connection; the fetcher opens the body of a reply when *)
(* it is started and reads it in its poll.                                 *)
(*                                                                         *)
(* Unlike curl it calls its client from inside `start', while the fetch is *)
(* on neither ring and fetch_dispatch_jobs holds counts of both in locals. *)
(* A client that starts a fetch there runs a second fetch_dispatch_jobs    *)
(* below the first, so the locals are state (`dispatch') and the calls in  *)
(* progress are a stack (`calls').                                         *)
(***************************************************************************)
EXTENDS Fetch

CONSTANTS
    None,           \* NULL
    Starts,         \* how webfs_start may fare, see Outcomes
    StartsIn,       \* messages in whose callback the client may go on to other fetches
    AbortsIn,       \* messages in whose callback the client may abort the very fetch
    AbortsQueued,   \* whether the client may abort a fetch that is still queued
    ReadErrors,     \* whether reading a body may fail
    Reuse           \* FALSE bounds a run: each identity is started once

Outcomes == {"body",         \* a body to read
             "redirect",     \* webfs followed a redirect
             "notmodified",  \* 304
             "refused",      \* any other error from opening the body
             "noclone",      \* /mnt/web/clone cannot be opened
             "noconn"}       \* the connection or the request fails

ASSUME WebfsAssumption ==
    /\ Starts \subseteq Outcomes /\ StartsIn \subseteq {"ERROR", "REDIRECT"}
    /\ AbortsIn \subseteq {"HEADER", "DATA"}
    /\ AbortsQueued \in BOOLEAN /\ ReadErrors \in BOOLEAN /\ Reuse \in BOOLEAN
    /\ ~UsesFdset /\ ~StartMayFail /\ None \notin Fetches

VARIABLES
    fetch_list,     \* webfs's list of started fetches, newest first; NULL once done
    state,          \* f->state
    open,           \* fetches with an open f->fd
    dispatch,       \* locals of the fetch_dispatch_jobs that is running
    calls,          \* calls into the client in progress, innermost first
    stage,          \* whose poll runs: webfs_poll is registered for two schemes
    left,           \* entries webfs_poll has yet to visit, counted from the end
    judging,        \* webfs_poll has handled its entry and looks at the new state
    held,           \* fetches the client has a pointer to
    aborted,        \* fetches the client has aborted
    truncated       \* fetches whose body could not be read to its end

webfsVars == <<fetch_list, state, open, dispatch, calls, stage, left, judging,
               held, aborted, truncated>>
allVars == <<vars, webfsVars>>
place == <<stage, left, judging>>

States == {"none", "started", "finished", "redirect", "notmodified", "aborted", "error"}
NotDispatching == [queued |-> 0, active |-> 0, starting |-> None, step |-> "-", new |-> None]

-----------------------------------------------------------------------------
WebfsInit ==
    /\ Init
    /\ fetch_list = <<>>
    /\ state = [f \in Fetches |-> "none"]
    /\ open = {}
    /\ dispatch = NotDispatching
    /\ calls = <<>>
    /\ stage = "idle" /\ left = 0 /\ judging = FALSE
    /\ held = {} /\ aborted = {} /\ truncated = {}

\* fetch_send_callback: the client's pointer to a fetch that ended is dropped.
Call(f, m) ==
    /\ last_msg' = [last_msg EXCEPT ![f] = IF Rank[m] > @ THEN Rank[m] ELSE @]
    /\ calls' = <<[to |-> f, msg |-> m, job |-> job, dispatch |-> dispatch]>> \o calls
    /\ job' = "none"
    /\ dispatch' = NotDispatching
    /\ held' = IF m \in {"FINISHED", "ERROR"} THEN held \ {f} ELSE held
    /\ UNCHANGED <<live, timer, polling, aborted>>
    /\ UNCHANGED rings

NoCall == UNCHANGED vars /\ UNCHANGED <<calls, dispatch, held, aborted>>

\* llcache aborts a fetch that was redirected or not modified before it returns.
MustAbort(c) == c.msg \in {"REDIRECT", "NOTMODIFIED"} /\ c.to \in held

CallReturns ==
    /\ calls # <<>> /\ job = "none"
    /\ ~MustAbort(Head(calls))
    /\ calls' = Tail(calls)
    /\ job' = Head(calls).job
    /\ dispatch' = Head(calls).dispatch
    /\ UNCHANGED <<live, last_msg, timer, polling, fetch_list, state, open, held,
                   aborted, truncated>>
    /\ UNCHANGED rings
    /\ UNCHANGED place

-----------------------------------------------------------------------------
\* The client runs in the main loop, and goes on to other fetches in the
\* callbacks in which llcache follows a redirect or passes an error to users.
UserTurn ==
    /\ job = "none"
    /\ IF calls = <<>>
       THEN polling = "none"
       ELSE Head(calls).msg \in StartsIn /\ ~MustAbort(Head(calls))

\* The counts fetch_dispatch_jobs takes on entry.
Counted(extra, new) ==
    [NotDispatching EXCEPT !.queued = Len(queue_ring) + extra,
                           !.active = Cardinality(fetch_ring), !.new = new]

\* fetch_start and webfs_setup.
ClientStarts(f) ==
    /\ UserTurn
    /\ Reuse \/ last_msg[f] = 0
    /\ StartFetch(f)
    /\ dispatch' = Counted(1, f)
    /\ state' = [state EXCEPT ![f] = "none"]
    /\ aborted' = aborted \ {f}
    /\ truncated' = truncated \ {f}
    /\ UNCHANGED <<fetch_list, open, calls, held>>
    /\ UNCHANGED place

\* fetch_abort and webfs_abort: webfs_poll is left to drop the fetch.
Abort(f) ==
    /\ last_msg' = [last_msg EXCEPT ![f] = FETCH__INTERNAL_ABORTED]
    /\ state' = [state EXCEPT ![f] = "aborted"]
    /\ open' = open \ {f}

\* When the client may abort f.
MayAbort(f) ==
    /\ job = "none" /\ f \in held
    /\ Queued(f) => AbortsQueued
    /\ \/ UserTurn
       \/ /\ calls # <<>> /\ Head(calls).to = f
          /\ Head(calls).msg \in AbortsIn \/ MustAbort(Head(calls))

ClientAborts(f) ==
    /\ MayAbort(f)
    /\ Abort(f)
    /\ held' = held \ {f}
    /\ aborted' = aborted \union {f}
    /\ UNCHANGED <<live, fetch_list, dispatch, calls, truncated>>
    /\ UNCHANGED rings
    /\ UNCHANGED stack
    /\ UNCHANGED place

-----------------------------------------------------------------------------
\* fetch_dispatch_jobs trusts its counts, not the rings.
Try == dispatch.queued # 0 /\ dispatch.active < MaxFetchers

Between == job # "none" /\ dispatch.starting = None

\* fetch_dispatch_job takes the fetch off its ring and calls webfs_start.
StartBegins(i) ==
    /\ Between /\ Try /\ Chosen(i)
    /\ queue_ring' = Without(queue_ring, i)
    /\ state' = [state EXCEPT ![queue_ring[i]] = "error"]
    /\ dispatch' = [dispatch EXCEPT !.starting = queue_ring[i], !.step = "open"]
    /\ UNCHANGED <<fetch_ring, fetch_is_active, live, last_msg, fetch_list, open, calls,
                   held, aborted, truncated>>
    /\ UNCHANGED stack
    /\ UNCHANGED place

Starting(step) == job # "none" /\ dispatch.step = step

Listed(outcome) == outcome \in {"redirect", "notmodified", "refused"}

\* The paths of webfs_start that leave no body to read: what should be said is
\* left for the poll when the fetch is listed (handle_error, should_redirect).
StartWithout(outcome) ==
    /\ Starting("open")
    /\ outcome \in Starts \ {"body", "noclone"}
    /\ LET f == dispatch.starting
       IN  /\ state' = [state EXCEPT ![f] = IF outcome \in {"redirect", "notmodified"}
                                            THEN outcome ELSE "error"]
           /\ fetch_list' = IF Listed(outcome) THEN <<f>> \o fetch_list ELSE fetch_list
    /\ dispatch' = [dispatch EXCEPT !.step = "return"]
    /\ UNCHANGED <<vars, open, calls, held, aborted, truncated>>
    /\ UNCHANGED place

\* Opening /mnt/web/clone fails: the error is sent here and the fetch not listed.
StartWithoutClone ==
    /\ Starting("open")
    /\ "noclone" \in Starts
    /\ last_msg' = [last_msg EXCEPT ![dispatch.starting] =
                        IF Rank["ERROR"] > @ THEN Rank["ERROR"] ELSE @]
    /\ calls' = <<[to |-> dispatch.starting, msg |-> "ERROR", job |-> job,
                   dispatch |-> [dispatch EXCEPT !.step = "return"]]>> \o calls
    /\ job' = "none"
    /\ dispatch' = NotDispatching
    /\ held' = held \ {dispatch.starting}
    /\ UNCHANGED <<live, timer, polling, aborted, fetch_list, state, open, truncated>>
    /\ UNCHANGED rings
    /\ UNCHANGED place

StartWithBody ==
    /\ Starting("open")
    /\ "body" \in Starts
    /\ open' = open \union {dispatch.starting}
    /\ dispatch' = [dispatch EXCEPT !.step = "headers"]
    /\ UNCHANGED <<vars, fetch_list, state, calls, held, aborted, truncated>>
    /\ UNCHANGED place

\* send_headers, one call of the client for each header webfs has.
SendHeader ==
    /\ Starting("headers")
    /\ last_msg[dispatch.starting] < Rank["HEADER"] \/ Reuse
    /\ Call(dispatch.starting, "HEADER")
    /\ UNCHANGED <<fetch_list, state, open, truncated>>
    /\ UNCHANGED place

HeadersSent ==
    /\ Starting("headers")
    /\ state' = [state EXCEPT ![dispatch.starting] = "started"]
    /\ fetch_list' = <<dispatch.starting>> \o fetch_list
    /\ dispatch' = [dispatch EXCEPT !.step = "return"]
    /\ UNCHANGED <<vars, open, calls, held, aborted, truncated>>
    /\ UNCHANGED place

Counts == dispatch' = [dispatch EXCEPT !.starting = None, !.step = "-",
                                       !.queued = @ - 1, !.active = @ + 1]

\* webfs_start returned true, as it always does.
StartReturns ==
    /\ Starting("return")
    /\ fetch_ring' = fetch_ring \union {dispatch.starting}
    /\ fetch_is_active' = [fetch_is_active EXCEPT ![dispatch.starting] = TRUE]
    /\ Counts
    /\ UNCHANGED <<queue_ring, live, last_msg, fetch_list, state, open, calls, held,
                   aborted, truncated>>
    /\ UNCHANGED stack
    /\ UNCHANGED place

\* fetch_dispatch_jobs ends; only now does fetch_start give the client its pointer.
JobsDispatched ==
    /\ Between
    /\ ~Try \/ (queue_ring # <<>> /\ \A i \in DOMAIN queue_ring : ~Chosen(i))
    /\ CallerGoesOn(dispatch.active > 0)
    /\ held' = IF job = "start" THEN held \union {dispatch.new} ELSE held
    /\ dispatch' = NotDispatching
    /\ UNCHANGED <<live, last_msg, fetch_list, state, open, calls, aborted, truncated>>
    /\ UNCHANGED rings
    /\ UNCHANGED place

-----------------------------------------------------------------------------
PollBegins ==
    /\ calls = <<>>
    /\ FetcherPoll
    /\ dispatch' = Counted(0, None)
    /\ UNCHANGED <<fetch_list, state, open, calls, held, aborted, truncated>>
    /\ UNCHANGED place

InPoll(s) == polling # "none" /\ job = "none" /\ calls = <<>> /\ stage \in s

\* fetcher_poll calls webfs_poll for http, then for https.
WebfsPolls ==
    /\ InPoll({"idle", "http done"})
    /\ stage' = IF stage = "idle" THEN "http" ELSE "https"
    /\ left' = Len(fetch_list)
    /\ UNCHANGED <<vars, fetch_list, state, open, dispatch, calls, judging, held,
                   aborted, truncated>>

Visiting == InPoll({"http", "https"}) /\ left > 0
\* Fetches listed meanwhile stand in front of the entry being visited.
here == Len(fetch_list) + 1 - left
visited == fetch_list[here]

\* A body entry: some data, or its end, which is all a failed read amounts to.
\* After a lost abort the descriptor is closed and every read fails.
ReadBody ==
    /\ state[visited] = "started"
    /\ \/ /\ visited \in open
          /\ Call(visited, "DATA")
          /\ UNCHANGED <<state, open, truncated>>
       \/ /\ \/ visited \in open /\ UNCHANGED truncated
             \/ /\ visited \notin open \/ ReadErrors
                /\ truncated' = truncated \union {visited}
          /\ state' = [state EXCEPT ![visited] = "finished"]
          /\ open' = open \ {visited}
          /\ Call(visited, "FINISHED")

\* What webfs_poll sends for an entry that has no body.
Say == [redirect |-> "REDIRECT", notmodified |-> "NOTMODIFIED", error |-> "ERROR"]

VisitEntry ==
    /\ Visiting /\ ~judging /\ visited # None
    /\ \/ ReadBody
       \/ /\ state[visited] \in DOMAIN Say
          /\ Call(visited, Say[state[visited]])
          /\ UNCHANGED <<state, open, truncated>>
       \/ /\ state[visited] \in States \ (DOMAIN Say \union {"started"})
          /\ NoCall
          /\ UNCHANGED <<state, open, truncated>>
    /\ judging' = TRUE
    /\ UNCHANGED <<fetch_list, stage, left>>

OverFallsThrough(f) == state[f] \in {"started", "finished", "aborted", "error"}
OverForgetsError(f) == state[f] \in {"finished", "aborted"}
OverForgetsAborted(f) == state[f] \in {"finished", "error"}
Over(f) == state[f] \in {"finished", "aborted", "error"}

\* The switch on the new state: fetch_remove_from_queues and fetch_free, which
\* has nothing to report since every such fetch was completed or aborted.
JudgeEntry ==
    /\ Visiting /\ judging
    /\ IF Over(visited)
       THEN /\ RemoveFromQueues(visited)
            /\ live' = live \ {visited}
            /\ fetch_list' = [fetch_list EXCEPT ![here] = None]
       ELSE UNCHANGED <<live, fetch_list>> /\ UNCHANGED rings
    /\ judging' = FALSE
    /\ left' = left - 1
    /\ UNCHANGED <<last_msg, state, open, dispatch, calls, stage, held, aborted, truncated>>
    /\ UNCHANGED stack

\* The entries that are not done, in their order.
NotDone ==
    LET K == {i \in 1 .. Len(fetch_list) : fetch_list[i] # None}
        Nth(j) == CHOOSE i \in K : Cardinality({k \in K : k <= i}) = j
    IN  [j \in 1 .. Cardinality(K) |-> fetch_list[Nth(j)]]

\* The second loop of webfs_poll unlinks the entries that are done.
PollReturns ==
    /\ InPoll({"http", "https"}) /\ left = 0
    /\ fetch_list' = NotDone
    /\ IF stage = "http"
       THEN stage' = "http done" /\ UNCHANGED vars
       ELSE stage' = "idle" /\ PollersDone(FALSE)
    /\ UNCHANGED <<state, open, dispatch, calls, left, judging, held, aborted, truncated>>

System ==
    \/ CallReturns
    \/ \E i \in DOMAIN queue_ring : StartBegins(i)
    \/ \E outcome \in Outcomes : StartWithout(outcome)
    \/ StartWithoutClone \/ StartWithBody \/ HeadersSent \/ StartReturns
    \/ JobsDispatched
    \/ PollBegins \/ WebfsPolls \/ VisitEntry \/ JudgeEntry \/ PollReturns

\* The aborts llcache owes before it returns from a callback.
LlcacheAborts == \E f \in Fetches : calls # <<>> /\ MustAbort(Head(calls)) /\ ClientAborts(f)

BodyEnds(f) ==
    /\ Visiting /\ visited = f
    /\ VisitEntry
    /\ state' = [state EXCEPT ![f] = "finished"]

WebfsNext ==
    \/ \E f \in Fetches : ClientStarts(f) \/ ClientAborts(f)
    \/ SendHeader
    \/ System

WebfsSpec == WebfsInit /\ [][WebfsNext]_allVars

\* The main loop runs what is scheduled, a reply has finitely many headers, and
\* a body comes to an end.
FairWebfsSpec ==
    /\ WebfsSpec
    /\ WF_allVars(System)
    /\ SF_allVars(HeadersSent)
    /\ WF_allVars(LlcacheAborts)
    /\ \A f \in Fetches : SF_allVars(BodyEnds(f))

-----------------------------------------------------------------------------
WebfsTypeOK ==
    /\ TypeOK
    /\ fetch_list \in Seq(Fetches \union {None})
    /\ state \in [Fetches -> States]
    /\ open \subseteq Fetches
    /\ dispatch.queued >= 0 /\ dispatch.starting \in Fetches \union {None}
    /\ \A k \in DOMAIN calls : calls[k].to \in live
    /\ stage \in {"idle", "http", "http done", "https"}
    /\ left \in 0 .. Len(fetch_list)
    /\ held \subseteq Fetches /\ aborted \subseteq Fetches /\ truncated \subseteq Fetches

InList(f) == \E k \in DOMAIN fetch_list : fetch_list[k] = f

\* Between calls every fetch webfs will poll occupies a slot of the factory, so
\* that none polls a freed fetch; and every fetch that occupies a slot is polled,
\* except one whose start failed before there was a descriptor (and which may have
\* been aborted since, in vain).
ListedOrFailed ==
    job = "none" /\ calls = <<>> =>
        /\ {f \in Fetches : InList(f)} \subseteq fetch_ring
        /\ \A f \in fetch_ring : InList(f) \/ state[f] \in {"error", "aborted"}

\* Whatever fails and whatever is aborted, the client never has a pointer to a
\* fetch that has been freed: the end of a fetch reaches it first, or its abort.
HeldIsLive == held \subseteq live

Called(f) == Len(calls') > Len(calls) /\ Head(calls').to = f

\* fetch.h:138: fetch_start hands out a pointer "that can be passed to
\* fetch_abort() to abort the fetch at any time": nothing is sent afterwards.
SilentAfterAbort == [][\A f \in Fetches : Called(f) => f \notin aborted]_allVars

\* And a client that has not aborted is told the end once: the entry is dropped in
\* the visit that reports it, though webfs_poll runs for two schemes.
OneCompletion ==
    [][\A f \in Fetches :
          Called(f) => /\ f \notin aborted
                       /\ Rank[Head(calls').msg] >= FETCH_MIN_FINISHED_MSG
                          => last_msg[f] < FETCH_MIN_FINISHED_MSG]_allVars

\* Every fetch is at last finished, failed or dropped, and frees its slot.
EveryFetchEnds == \A f \in Fetches : f \in live ~> f \notin live

\* Every fetch that webfs lists is at last dropped from the list, whatever the
\* callbacks made by its poll start and abort.
EveryListedEnds == \A f \in Fetches : InList(f) ~> ~InList(f)

\* A body that could not be read is an error for the client (the branch of
\* webfs_read that closes the file and sends FETCH_ERROR), not an end of data.
FinishedIsWhole ==
    [][\A f \in Fetches :
          Called(f) /\ Head(calls').msg = "FINISHED" => f \notin truncated']_allVars

\* The comment in handle_error, "message needs to be sent after start": no
\* fetch is completed before fetch_start has handed out the pointer to it.
NotEarly ==
    [][\A f \in Fetches :
          Called(f) /\ Rank[Head(calls').msg] >= FETCH_MIN_FINISHED_MSG
          => dispatch.starting # f]_allVars

\* fetch_choose_and_dispatch is "not called unless there is room": its caller's
\* counts are right about the rings, of which the queue must not be NULL.
ChooseHasRoom ==
    Between /\ Try => queue_ring # <<>> /\ Cardinality(fetch_ring) < MaxFetchers
=============================================================================
