-------------------------------- MODULE Fetch --------------------------------
(***************************************************************************)
(* content/fetch.c: the fetch factory.  Every transfer of the browser is a *)
(* `struct fetch' that waits in queue_ring until a slot is free, is handed *)
(* to its fetcher (curl, data, file, ...), moves to fetch_ring, and leaves *)
(* the rings when the fetcher is done with it or the client aborts it.     *)
(*                                                                         *)
(* The fetchers are abstract here: any code that keeps to the contract of  *)
(* the operation table in content/fetchers.h.  CurlFetch and PollFetch put *)
(* the real ones in their place and are checked to implement this module.  *)
(*                                                                         *)
(* The browser has one thread.  What makes this code hard is re-entrancy:  *)
(* a fetcher's poll calls its client back, and the client may start and    *)
(* abort fetches from inside the callback.  `job' and `polling' say which  *)
(* calls of this file are on the stack.                                    *)
(***************************************************************************)
EXTENDS Integers, Sequences, FiniteSets

CONSTANTS
    Fetches,        \* identities of struct fetch; one can be allocated again once freed
    Hosts,          \* host components of the URLs ("no host" is one of them)
    Host,           \* the host of each fetch
    MaxFetchers,    \* nsoption max_fetchers
    MaxPerHost,     \* nsoption max_fetchers_per_host
    Messages,       \* the message types a run sends
    UsesFdset,      \* whether the frontend's main loop calls fetch_fdset
    StartMayFail    \* whether a fetcher may refuse to start a fetch for lack of resources

ASSUME HostAssumption == Host \in [Fetches -> Hosts]
ASSUME LimitAssumption ==
    /\ MaxFetchers \in Nat \ {0}
    /\ MaxPerHost \in Nat \ {0}
ASSUME FlagAssumption == UsesFdset \in BOOLEAN /\ StartMayFail \in BOOLEAN

\* fetch_msg_type, and the order of its members, in which last_msg is compared.
MsgType == {"PROGRESS", "CERTS", "HEADER", "DATA", "FINISHED", "TIMEDOUT",
            "ERROR", "REDIRECT", "NOTMODIFIED", "AUTH", "CERT_ERR", "SSL_ERR"}
Rank == [PROGRESS |-> 0, CERTS |-> 1, HEADER |-> 2, DATA |-> 3, FINISHED |-> 4,
         TIMEDOUT |-> 5, ERROR |-> 6, REDIRECT |-> 7, NOTMODIFIED |-> 8,
         AUTH |-> 9, CERT_ERR |-> 10, SSL_ERR |-> 11]
FETCH_MIN_FINISHED_MSG == Rank["FINISHED"]
FETCH__INTERNAL_ABORTED == Rank["ERROR"]

ASSUME MessagesAssumption == Messages \subseteq MsgType

VARIABLES
    queue_ring,      \* fetches waiting for a slot, oldest first
    fetch_ring,      \* active fetches (the code never uses their order)
    fetch_is_active, \* the flag of each struct fetch
    last_msg,        \* highest message type sent for each fetch
    live,            \* allocated fetches
    timer,           \* fetcher_poll is scheduled
    job,             \* who runs fetch_dispatch_jobs: "none", "start", "poll", "fdset"
    polling          \* who runs the fetchers' poll: "none", "timer", "fdset"

vars == <<queue_ring, fetch_ring, fetch_is_active, last_msg, live, timer, job, polling>>
rings == <<queue_ring, fetch_ring, fetch_is_active>>
stack == <<timer, job, polling>>

-----------------------------------------------------------------------------
\* RING_REMOVE of the element at place i.
Without(s, i) == [j \in 1 .. (Len(s) - 1) |-> IF j < i THEN s[j] ELSE s[j + 1]]

Queued(f) == \E i \in DOMAIN queue_ring : queue_ring[i] = f
Attached(f) == f \in fetch_ring \/ Queued(f)

\* RING_COUNTBYLWCHOST over the active fetches.
OnHost(h) == {f \in fetch_ring : Host[f] = h}
HasRoomOffByOne(f) == Cardinality(OnHost(Host[f])) <= MaxPerHost
HasRoom(f) == Cardinality(OnHost(Host[f])) < MaxPerHost

ChosenAnywhere(i) == i \in DOMAIN queue_ring /\ HasRoom(queue_ring[i])

\* fetch_choose_and_dispatch: the first queued fetch whose host has room.
\* (Stepping over neighbours of the same host only skips fetches without room.)
Chosen(i) ==
    /\ i \in DOMAIN queue_ring
    /\ HasRoom(queue_ring[i])
    /\ \A j \in 1 .. (i - 1) : ~HasRoom(queue_ring[j])

\* The loop condition of fetch_dispatch_jobs up to the attempt itself.
CanTry(i) == Cardinality(fetch_ring) < MaxFetchers /\ Chosen(i)

\* Client code runs in the main loop and inside callbacks made by a poll.
ClientRuns == job = "none"

-----------------------------------------------------------------------------
Init ==
    /\ queue_ring = <<>>
    /\ fetch_ring = {}
    /\ fetch_is_active = [f \in Fetches |-> FALSE]
    /\ last_msg = [f \in Fetches |-> 0]
    /\ live = {}
    /\ timer = FALSE
    /\ job = "none"
    /\ polling = "none"

\* fetch_start, up to its call of fetch_dispatch_jobs.  (When the scheme has
\* no fetcher or the fetcher's setup fails nothing is left behind.)
StartFetch(f) ==
    /\ ClientRuns
    /\ f \notin live
    /\ live' = live \union {f}
    /\ queue_ring' = Append(queue_ring, f)
    /\ fetch_is_active' = [fetch_is_active EXCEPT ![f] = FALSE]
    /\ last_msg' = [last_msg EXCEPT ![f] = 0]
    /\ job' = "start"
    /\ UNCHANGED <<fetch_ring, timer, polling>>

CallerForgetsTimer(anyActive) ==
    /\ job' = "none"
    /\ polling' = IF job \in {"poll", "fdset"} /\ anyActive
                  THEN (IF job = "poll" THEN "timer" ELSE "fdset") ELSE polling
    /\ UNCHANGED timer

\* What the caller of fetch_dispatch_jobs does with its result.
CallerGoesOn(anyActive) ==
    /\ job' = "none"
    /\ timer' = (timer \/ (job = "start" /\ anyActive))
    /\ polling' = CASE job = "poll" /\ anyActive -> "timer"
                    [] job = "fdset" /\ anyActive -> "fdset"
                    [] OTHER -> polling

\* fetch_dispatch_job when the fetcher's start succeeds: the loop goes round again.
DispatchStarts(i) ==
    /\ job # "none"
    /\ CanTry(i)
    /\ queue_ring' = Without(queue_ring, i)
    /\ fetch_ring' = fetch_ring \union {queue_ring[i]}
    /\ fetch_is_active' = [fetch_is_active EXCEPT ![queue_ring[i]] = TRUE]
    /\ UNCHANGED <<last_msg, live>>
    /\ UNCHANGED stack

\* When a fetcher may refuse to start a fetch: curl while it is inside a
\* transfer (then a poll is on the stack, or some transfer is unfinished), and
\* any fetcher that lacks memory for it.
MayRefuse == polling # "none" \/ fetch_ring # {} \/ StartMayFail

\* fetch_dispatch_job when the start fails: the fetch goes back to the end of
\* the queue and the loop ends.
PutBack(i) ==
    /\ job # "none"
    /\ CanTry(i)
    /\ queue_ring' = Append(Without(queue_ring, i), queue_ring[i])
    /\ CallerGoesOn(fetch_ring # {})
    /\ UNCHANGED <<fetch_ring, fetch_is_active, last_msg, live>>

DispatchRefused(i) == MayRefuse /\ PutBack(i)

\* fetch_dispatch_jobs when the queue is empty, the ring is full or no queued
\* fetch has room on its host.
DispatchEnds ==
    /\ job # "none"
    /\ \A i \in DOMAIN queue_ring : ~CanTry(i)
    /\ CallerGoesOn(fetch_ring # {})
    /\ UNCHANGED <<queue_ring, fetch_ring, fetch_is_active, last_msg, live>>

\* The scheduled fetcher_poll runs from the main loop.
FetcherPoll ==
    /\ timer /\ job = "none" /\ polling = "none"
    /\ timer' = FALSE
    /\ job' = "poll"
    /\ UNCHANGED <<queue_ring, fetch_ring, fetch_is_active, last_msg, live, polling>>

\* A main loop that selects on descriptors calls fetch_fdset.
FetchFdset ==
    /\ UsesFdset /\ job = "none" /\ polling = "none"
    /\ job' = "fdset"
    /\ UNCHANGED <<queue_ring, fetch_ring, fetch_is_active, last_msg, live, timer, polling>>

\* All fetchers have been polled: fetcher_poll reschedules itself, fetch_fdset
\* does so only when a fetcher has a descriptor to wait for (maxfd >= 0).
PollersDone(maxfdSet) ==
    /\ polling # "none" /\ job = "none"
    /\ polling' = "none"
    /\ timer' = (timer \/ polling = "timer" \/ maxfdSet)
    /\ UNCHANGED <<queue_ring, fetch_ring, fetch_is_active, last_msg, live, job>>

\* fetch_send_callback, from a fetcher's poll.
SendCallback(f, m) ==
    /\ polling # "none" /\ job = "none"
    /\ f \in live
    /\ last_msg' = [last_msg EXCEPT ![f] = IF Rank[m] > @ THEN Rank[m] ELSE @]
    /\ UNCHANGED <<queue_ring, fetch_ring, fetch_is_active, live>>
    /\ UNCHANGED stack

RemoveIgnoresFlag(f) ==
    /\ Attached(f)
    /\ fetch_ring' = fetch_ring \ {f}
    /\ UNCHANGED <<queue_ring, fetch_is_active>>

\* The two branches of fetch_remove_from_queues.
RemoveFromQueues(f) ==
    /\ Attached(f)
    /\ \/ /\ fetch_is_active[f]
          /\ fetch_ring' = fetch_ring \ {f}
          /\ UNCHANGED queue_ring
       \/ /\ ~fetch_is_active[f]
          /\ \E i \in DOMAIN queue_ring :
                /\ queue_ring[i] = f
                /\ queue_ring' = Without(queue_ring, i)
          /\ UNCHANGED fetch_ring
    /\ UNCHANGED fetch_is_active

\* A fetcher's poll takes a fetch off the rings ...
Remove(f) ==
    /\ polling # "none" /\ job = "none"
    /\ RemoveFromQueues(f)
    /\ UNCHANGED <<last_msg, live>>
    /\ UNCHANGED stack

\* ... and frees it; fetch_free first reports an error when no completed
\* message was sent, from inside the same call.
Free(f) ==
    /\ polling # "none" /\ job = "none"
    /\ f \in live
    /\ ~Attached(f)
    /\ last_msg[f] >= FETCH_MIN_FINISHED_MSG
    /\ live' = live \ {f}
    /\ UNCHANGED <<last_msg>>
    /\ UNCHANGED rings
    /\ UNCHANGED stack

\* fetch_abort of a fetch whose fetcher must finish with it later.
AbortDeferred(f) ==
    /\ ClientRuns
    /\ Attached(f)
    /\ last_msg' = [last_msg EXCEPT ![f] = FETCH__INTERNAL_ABORTED]
    /\ UNCHANGED live
    /\ UNCHANGED rings
    /\ UNCHANGED stack

\* fetch_abort of a fetch whose fetcher can drop it at once.
AbortNow(f) ==
    /\ ClientRuns
    /\ RemoveFromQueues(f)
    /\ last_msg' = [last_msg EXCEPT ![f] = FETCH__INTERNAL_ABORTED]
    /\ live' = live \ {f}
    /\ UNCHANGED stack

Next ==
    \/ \E f \in Fetches :
          \/ StartFetch(f)
          \/ \E m \in Messages : SendCallback(f, m)
          \/ Remove(f)
          \/ Free(f)
          \/ AbortDeferred(f)
          \/ AbortNow(f)
    \/ \E i \in DOMAIN queue_ring : DispatchStarts(i) \/ DispatchRefused(i)
    \/ DispatchEnds
    \/ FetcherPoll
    \/ FetchFdset
    \/ \E maxfdSet \in BOOLEAN : PollersDone(maxfdSet)

Spec == Init /\ [][Next]_vars

-----------------------------------------------------------------------------
TypeOK ==
    /\ queue_ring \in Seq(Fetches)
    /\ fetch_ring \subseteq Fetches
    /\ fetch_is_active \in [Fetches -> BOOLEAN]
    /\ last_msg \in [Fetches -> 0 .. 11]
    /\ live \subseteq Fetches
    /\ timer \in BOOLEAN
    /\ job \in {"none", "start", "poll", "fdset"}
    /\ polling \in {"none", "timer", "fdset"}

\* The limits promised in the header comment of fetch.c: at most max_fetchers
\* active requests overall and max_fetchers_per_host for each host, whatever
\* is started and aborted from inside callbacks.
Limits ==
    /\ Cardinality(fetch_ring) <= MaxFetchers
    /\ \A h \in Hosts : Cardinality(OnHost(h)) <= MaxPerHost

\* The rings hold allocated fetches only, none twice, and fetch_is_active names
\* the ring a fetch is in, so that fetch_remove_from_queues takes it off the
\* ring it is on (the wrong one would corrupt both lists).
RingsAgree ==
    /\ fetch_ring \subseteq live
    /\ \A i \in DOMAIN queue_ring :
          /\ queue_ring[i] \in live
          /\ ~fetch_is_active[queue_ring[i]]
          /\ \A j \in DOMAIN queue_ring : queue_ring[i] = queue_ring[j] => i = j
    /\ \A f \in fetch_ring : fetch_is_active[f]

\* No fetch is forgotten: while fetches are queued or active, fetcher_poll is
\* scheduled or on the stack, or fetch_start is about to schedule it.
Work == queue_ring # <<>> \/ fetch_ring # {}
PollPending ==
    Work => timer \/ polling = "timer" \/ job = "poll" \/ job = "start"

\* At rest the timer itself is the only thing that brings the fetches back.
NoneForgotten == Work /\ job = "none" /\ polling = "none" => timer

\* A queued fetch is never overtaken by one queued later for the same host,
\* except by a refusal, which sends it to the end of the queue.
FifoPerHost ==
    [][\A i, j \in DOMAIN queue_ring :
          /\ i < j
          /\ Host[queue_ring[i]] = Host[queue_ring[j]]
          /\ queue_ring[j] \in fetch_ring'
          => queue_ring[i] \in fetch_ring']_vars
==============================================================================
