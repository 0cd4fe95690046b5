------------------------------- MODULE LLCache -------------------------------
(***************************************************************************)
(* content/llcache.c: the low-level cache, over the null backing store     *)
(* (content/no_backing_store.c), so that every object stays in RAM.        *)
(*                                                                         *)
(* Clients hold handles.  Each handle is a user of an object, an object    *)
(* has at most one fetch, and several users share an object.  Messages of  *)
(* a fetch change the object's state at once; the users follow later, when *)
(* llcache_catch_up_all_users brings each of them up to the object's state *)
(* with a series of events.  An object that must be revalidated is kept as *)
(* the `candidate' of the object that asks the server.                     *)
(*                                                                         *)
(* One thread runs all this, but every event is a call of client code that *)
(* may retrieve, release, abort, clone or stream any handle before it      *)
(* returns.  `run' is the stack of this file: which loop is running, where *)
(* its iterators are, and which event the client is handling.              *)
(***************************************************************************)
EXTENDS Integers, Sequences, FiniteSets

CONSTANTS
    Objects,        \* identities of llcache_object; one can be allocated again once freed
    Users,          \* identities of handles, with the user record that carries each
    Urls,           \* defragmented URLs
    None,           \* NULL
    Husk,           \* a user record whose handle has moved to a snapshot
    Nowhere,        \* a redirect target that llcache_fetch_redirect does not follow
    Targets,        \* redirect targets of a run
    Messages,       \* fetch message types of a run
    Headers,        \* kinds of header of a run
    Calls,          \* what the clients of a run call
    Results,        \* what the callbacks of a run return
    FetchAttempts,  \* llcache_parameters.fetch_attempts
    RedirectLimit,  \* REDIRECT_LIMIT
    MaxLen,         \* bound of the model: data chunks of an object
    MaxCount,       \* bound of the model: candidate_count
    NoMemory        \* whether allocations may fail

ASSUME NamesAssumption ==
    /\ None \notin Objects \union Users \union Urls \union {Husk, Nowhere}
    /\ Husk \notin Users
    /\ Targets \subseteq Urls \union {Nowhere}
ASSUME BoundsAssumption ==
    /\ FetchAttempts \in Nat \ {0} /\ RedirectLimit \in Nat /\ MaxLen \in Nat /\ MaxCount \in Nat
    /\ NoMemory \in BOOLEAN
ASSUME FiniteAssumption == IsFiniteSet(Objects)
ASSUME KindsAssumption ==
    /\ Headers \subseteq {"status", "lifetime", "no-cache", "validator"}
    /\ Results \subseteq {"OK", "NEED_DATA", "ERROR", "NOMEM"}

VARIABLES
    obj,            \* the struct llcache_object of each identity
    users,          \* its list of users, head first
    usr,            \* the handle and user record of each client handle
    held,           \* handles that a client holds
    cached,         \* llcache->cached_objects, head first
    uncached,       \* llcache->uncached_objects, head first
    recent,         \* cached objects by cache.req_time, latest first (0: absent)
    all_caught_up,  \* the flag; while it is FALSE the catch up is scheduled
    run             \* the loops of this file that are on the stack

lists == <<cached, uncached, recent>>
vars == <<obj, users, usr, held, cached, uncached, recent, all_caught_up, run>>

\* llcache_fetch_state
INIT == 0
HEADERS == 1
DATA == 2
COMPLETE == 3

-----------------------------------------------------------------------------
First(s) == IF s = <<>> THEN None ELSE s[1]
Elements(s) == {s[i] : i \in DOMAIN s}
Push(x, s) == <<x>> \o s

\* s without the elements of S: the places it keeps, in their order.
Kept(s, S) == {i \in DOMAIN s : s[i] \notin S}
Rank(K, i) == Cardinality(K \cap (1 .. i))
TakenOut(s, S) ==
    LET K == Kept(s, S)
    IN  [j \in 1 .. Cardinality(K) |-> s[CHOOSE i \in K : Rank(K, i) = j]]
Cut(s, x) == TakenOut(s, {x})

Backwards(s) == [i \in DOMAIN s |-> s[Len(s) + 1 - i]]
After(s, x) ==
    IF \E i \in DOMAIN s : s[i] = x /\ i < Len(s)
    THEN s[(CHOOSE i \in DOMAIN s : s[i] = x) + 1] ELSE None

\* calloc: what a new object is.  `life' is a positive remaining lifetime,
\* `validator' an ETag or a modification time, `conditional' whether the fetch that
\* runs quotes one to the server,
\* `body' (history) what the data amounts to: part of one answer, a mixture
\* of several, or the whole of one.
Blank == [url |-> None, state |-> INIT, fetch |-> "none", source_len |-> 0,
          chain |-> FALSE, force |-> FALSE, stream |-> FALSE, candidate |-> None, candidate_count |-> 0,
          life |-> FALSE, no_cache |-> "FRESH", validator |-> FALSE,
          conditional |-> FALSE, redirect_count |-> 0, retries |-> 0,
          tried_auth |-> FALSE, tried_tls |-> FALSE, body |-> "none"]

\* `told' (history): the client was sent an error, or aborted the handle itself.
NoUser == [object |-> None, state |-> INIT, bytes |-> 0, queued |-> FALSE, told |-> FALSE]

Idle == [in |-> "idle", phase |-> "none", at |-> None, who |-> None, seen |-> INIT,
         ev |-> "none", orig |-> 0, what |-> "none", target |-> None, err |-> "OK"]

Allocated(o) == obj[o].url # None
Free(o) == obj[o].url = None
Unused(u) == u \notin held /\ usr[u].object = None

\* Client code runs in the main loop and inside every event.
ClientRuns == run.in = "idle" \/ run.ev # "none"
Can(call) == call \in Calls /\ ClientRuns

\* user->iterator_target
IsTarget(u) == run.ev # "none" /\ run.who = u

\* llcache_users_not_caught_up schedules llcache_catch_up_all_users.
StaysCaughtUp == UNCHANGED all_caught_up
NotCaughtUp == all_caught_up' = FALSE

\* llcache_invalidate_cache_control_data; it also zeroes req_time, so the
\* object leaves `recent'.
Invalid(r) == [r EXCEPT !.life = FALSE, !.no_cache = "FRESH", !.validator = FALSE]

\* llcache_object_refetch, and the result of its fetch_start.
Refetched(r, started) ==
    [Invalid(r) EXCEPT !.state = INIT,
                       !.fetch = IF started THEN "running" ELSE @,
                       !.conditional = r.validator,
                       !.body = IF @ = "part" THEN "mixed" ELSE @]

\* "Release candidate, if any"
ReleaseCandidate(ob, o) ==
    IF ob[o].candidate = None THEN ob
    ELSE [ob EXCEPT ![ob[o].candidate].candidate_count = @ - 1, ![o].candidate = None]

Latest(o) == IF o \in Elements(cached) THEN Push(o, Cut(recent, o)) ELSE recent

-----------------------------------------------------------------------------
\* Retrieval.

\* llcache_object_is_fresh
IsFresh(o) == obj[o].no_cache = "FRESH" /\ (obj[o].life \/ obj[o].state # COMPLETE)

\* The most recently fetched object for a URL; of those without a request time
\* (or with equal ones) the first in the list.
Newest(url) ==
    LET OfUrl(s) == TakenOut(s, {o \in Objects : obj[o].url # url})
    IN  IF OfUrl(recent) # <<>> THEN First(OfUrl(recent)) ELSE First(OfUrl(cached))

Fetched(url, force, stream, count) ==
    [Blank EXCEPT !.url = url, !.fetch = "running", !.force = force, !.stream = stream,
                  !.redirect_count = count, !.retries = FetchAttempts]

RetrieveUncached(url, stream, count, dest) ==
    /\ Free(dest)
    /\ obj' = [obj EXCEPT ![dest] = Fetched(url, TRUE, stream, count)]
    /\ uncached' = Push(dest, uncached)
    /\ UNCHANGED <<cached, recent>>

RetrieveFresh(url, dest) ==
    /\ Newest(url) = dest
    /\ IsFresh(dest)
    /\ UNCHANGED <<obj, cached, uncached, recent>>

RetrieveNew(url, stream, count, dest) ==
    /\ Free(dest)
    /\ \/ /\ Newest(url) = None
          /\ obj' = [obj EXCEPT ![dest] = Fetched(url, FALSE, stream, count)]
       \/ /\ Newest(url) # None
          /\ ~IsFresh(Newest(url)) /\ obj[Newest(url)].candidate_count < MaxCount
          /\ obj' = [obj EXCEPT ![Newest(url)].candidate_count = @ + 1,
                                ![dest] = [Fetched(url, FALSE, stream, count) EXCEPT
                                             !.candidate = Newest(url),
                                             !.conditional = obj[Newest(url)].validator]]
    /\ cached' = Push(dest, cached)
    /\ recent' = Push(dest, recent)
    /\ UNCHANGED uncached

\* llcache_object_retrieve
ObjectRetrieve(url, force, stream, count, dest) ==
    \/ force /\ RetrieveUncached(url, stream, count, dest)
    \/ ~force /\ RetrieveFresh(url, dest)
    \/ ~force /\ RetrieveNew(url, stream, count, dest)

\* llcache_handle_retrieve.  (When it fails nothing is left behind.)  A client that
\* asks for a stream also forces the fetch.
HandleRetrieve(u, url, force, stream) ==
    /\ Can(IF stream THEN "stream" ELSE IF force THEN "force" ELSE "retrieve")
    /\ stream => force
    /\ Unused(u)
    /\ \E dest \in Objects :
          /\ ObjectRetrieve(url, force, stream, 0, dest)
          /\ users' = [users EXCEPT ![dest] = Push(u, @)]
          /\ usr' = [usr EXCEPT ![u] = [NoUser EXCEPT !.object = dest]]
    /\ held' = held \union {u}
    /\ NotCaughtUp
    /\ UNCHANGED run

-----------------------------------------------------------------------------
\* The other calls of a client.

\* llcache_handle_release: the target of an iterator is only queued for deletion.
ReleaseAtOnce(u) ==
    /\ Can("release")
    /\ u \in held
    /\ held' = held \ {u}
    /\ users' = [users EXCEPT ![usr[u].object] = Cut(@, u)]
    /\ usr' = [usr EXCEPT ![u] = NoUser]
    /\ UNCHANGED <<obj, lists, all_caught_up, run>>
HandleRelease(u) ==
    /\ Can("release")
    /\ u \in held
    /\ held' = held \ {u}
    /\ IF IsTarget(u)
       THEN usr' = [usr EXCEPT ![u].queued = TRUE] /\ UNCHANGED users
       ELSE /\ users' = [users EXCEPT ![usr[u].object] = Cut(@, u)]
            /\ usr' = [usr EXCEPT ![u] = NoUser]
    /\ UNCHANGED <<obj, lists, all_caught_up, run>>

\* llcache_handle_clone
HandleClone(u, new) ==
    /\ Can("clone")
    /\ u \in held /\ Unused(new)
    /\ users' = [users EXCEPT ![usr[u].object] = Push(new, @)]
    /\ usr' = [usr EXCEPT ![new] = [NoUser EXCEPT !.object = usr[u].object,
                                                  !.state = usr[u].state,
                                                  !.told = usr[u].told]]
    /\ held' = held \union {new}
    /\ UNCHANGED <<obj, lists, all_caught_up, run>>

\* llcache_object_snapshot
Snapshot(r) ==
    [Blank EXCEPT !.url = r.url, !.source_len = r.source_len, !.chain = r.chain,
                  !.state = COMPLETE, !.body = r.body]

\* llcache_handle_abort by the only user: the fetch itself is aborted.
AbortAnyway(u) ==
    LET o == usr[u].object
    IN  /\ Can("abort")
        /\ u \in held
        /\ obj' = [obj EXCEPT ![o] = [Invalid(@) EXCEPT !.fetch = "none", !.state = COMPLETE]]
        /\ recent' = Cut(recent, o)
        /\ usr' = [usr EXCEPT ![u].told = TRUE]
        /\ UNCHANGED <<users, held, cached, uncached, all_caught_up, run>>
AbortAlone(u) ==
    LET o == usr[u].object
    IN  /\ Can("abort")
        /\ u \in held
        /\ users[o] = <<u>>
        /\ obj' = [obj EXCEPT ![o] = [Invalid(@) EXCEPT !.fetch = "none", !.state = COMPLETE]]
        /\ recent' = Cut(recent, o)
        /\ usr' = [usr EXCEPT ![u].told = TRUE]
        /\ UNCHANGED <<users, held, cached, uncached, all_caught_up, run>>

\* llcache_handle_abort by one of several: the handle moves to a snapshot.  When
\* its record is the target of an iterator the record stays behind without it.
AbortShared(u, new) ==
    LET o == usr[u].object
        target == IsTarget(u)
        rest == IF target THEN [i \in DOMAIN users[o] |-> IF users[o][i] = u THEN Husk
                                                          ELSE users[o][i]]
                ELSE Cut(users[o], u)
    IN  /\ Can("abort")
        /\ u \in held /\ Len(users[o]) > 1
        /\ Free(new)
        /\ obj' = [obj EXCEPT ![new] = Snapshot(obj[o])]
        /\ uncached' = Push(new, uncached)
        /\ users' = [users EXCEPT ![o] = rest, ![new] = <<u>>]
        /\ usr' = [usr EXCEPT ![u].object = new, ![u].told = TRUE]
        /\ run' = IF target THEN [run EXCEPT !.who = Husk] ELSE run
        /\ UNCHANGED <<held, cached, recent, all_caught_up>>

\* llcache_handle_force_stream, unless there are several users.
HandleForceStream(u) ==
    LET o == usr[u].object
    IN  /\ Can("force_stream")
        /\ u \in held /\ users[o] = <<u>>
        /\ obj' = [obj EXCEPT ![o].stream = TRUE]
        /\ cached' = Cut(cached, o)
        /\ uncached' = IF o \in Elements(cached) THEN Push(o, uncached) ELSE uncached
        /\ recent' = Cut(recent, o)
        /\ UNCHANGED <<users, usr, held, all_caught_up, run>>

\* llcache_handle_invalidate_cache_data
HandleInvalidate(u) ==
    LET o == usr[u].object
    IN  /\ Can("invalidate")
        /\ u \in held
        /\ obj[o].fetch = "none" /\ obj[o].no_cache = "FRESH"
        /\ obj' = [obj EXCEPT ![o].no_cache = "ONCE"]
        /\ UNCHANGED <<users, usr, held, lists, all_caught_up, run>>

-----------------------------------------------------------------------------
\* llcache_fetch_callback: a message for an object whose fetch is running.  Its
\* end is a step of its own, EndCallback.
Message(m, o) == m \in Messages /\ run.in = "idle" /\ obj[o].fetch = "running"

\* A fetcher decides on the status of an answer, and on the certificate of the
\* server, before it delivers its body.
NoBodyYet(o) == obj[o].state # DATA /\ obj[o].body # "part"

EndWith(o, error) == run' = [Idle EXCEPT !.in = "end", !.at = o, !.err = error]

\* llcache_send_event_to_users, from its first user on.
Send(o, event, target) ==
    run' = [Idle EXCEPT !.in = "event", !.at = o, !.who = First(users[o]), !.what = event,
                        !.ev = IF users[o] = <<>> THEN "none" ELSE event, !.target = target]

AllocationFails(o) == NoMemory /\ EndWith(o, "NOMEM")

FetchHeader(o) ==
    /\ Message("HEADER", o)
    /\ \E kind \in Headers :
          obj' = [obj EXCEPT ![o] =
                    CASE kind = "status" -> [Invalid(@) EXCEPT !.state = HEADERS]
                      [] kind = "lifetime" -> [@ EXCEPT !.state = HEADERS, !.life = TRUE]
                      [] kind = "no-cache" -> [@ EXCEPT !.state = HEADERS,
                                                        !.no_cache = "ALWAYS"]
                      [] kind = "validator" -> [@ EXCEPT !.state = HEADERS, !.validator = TRUE]]
    /\ EndWith(o, "OK") \/ AllocationFails(o)
    /\ UNCHANGED <<users, usr, held, lists, all_caught_up>>

\* llcache_fetch_process_data; the first data decides whether the object may
\* be cached (by its status code and URL).
FetchData(o) ==
    LET first == obj[o].state # DATA
        next(r) == [r EXCEPT !.state = DATA, !.body = IF @ = "none" THEN "part" ELSE @]
        released == IF first THEN ReleaseCandidate(obj, o) ELSE obj
    IN  /\ Message("DATA", o)
        /\ obj[o].source_len < MaxLen
        /\ \E cacheable \in BOOLEAN :
              /\ ~first => cacheable
              /\ \E grown \in {0, 1} :
                    /\ obj' = LET r == IF cacheable THEN released[o] ELSE Invalid(released[o])
                              IN  [released EXCEPT ![o] = [next(r) EXCEPT !.source_len = @ + grown]]
                    /\ \/ grown = 1 /\ EndWith(o, "OK")
                       \/ grown = 0 /\ AllocationFails(o)
              /\ recent' = IF cacheable THEN recent ELSE Cut(recent, o)
        /\ UNCHANGED <<users, usr, held, cached, uncached, all_caught_up>>

FinishedKeepsFetch(o) ==
    /\ Message("FINISHED", o)
    /\ obj' = [obj EXCEPT ![o].state = COMPLETE,
                          ![o].body = IF @ = "mixed" THEN @ ELSE "whole"]
    /\ EndWith(o, "OK")
    /\ UNCHANGED <<users, usr, held, lists, all_caught_up>>
FetchFinished(o) ==
    /\ Message("FINISHED", o)
    /\ obj' = [obj EXCEPT ![o].state = COMPLETE, ![o].fetch = "none",
                          ![o].body = IF @ = "mixed" THEN @ ELSE "whole"]
    /\ EndWith(o, "OK")
    /\ UNCHANGED <<users, usr, held, lists, all_caught_up>>

\* The fetch is over, and so is the object: what FETCH_ERROR, FETCH_CERT_ERR and
\* the last attempt of the others do before they tell the users.
GiveUp(o, ob) ==
    /\ obj' = [ReleaseCandidate(ob, o) EXCEPT ![o] =
                 [Invalid(@) EXCEPT !.fetch = "none", !.state = COMPLETE]]
    /\ recent' = Cut(recent, o)
    /\ Send(o, "ERROR", None)
    /\ UNCHANGED <<users, usr, held, cached, uncached, all_caught_up>>

FetchError(o) == (Message("ERROR", o) \/ Message("CERT_ERR", o)) /\ GiveUp(o, obj)

\* Try again with a new fetch; the old one is gone, unless `left' says otherwise.
TryAgain(o, ob) ==
    /\ \E started \in BOOLEAN :
          /\ ~started => NoMemory
          /\ obj' = [ob EXCEPT ![o] = Refetched(@, started)]
          /\ EndWith(o, IF started THEN "OK" ELSE "ERROR")
    /\ recent' = Latest(o)
    /\ UNCHANGED <<users, usr, held, cached, uncached, all_caught_up>>

\* llcache_fetch_timeout.  A retry does not clear the pointer to the fetch that
\* is over, nor does it release the candidate.
FetchTimedout(o) ==
    /\ Message("TIMEDOUT", o)
    /\ \/ /\ obj[o].retries > 1
          /\ TryAgain(o, [obj EXCEPT ![o].retries = @ - 1, ![o].fetch = "over"])
       \/ /\ obj[o].retries <= 1
          /\ GiveUp(o, obj)

\* llcache_fetch_auth, with and without details to try.
FetchAuth(o) ==
    /\ Message("AUTH", o) /\ NoBodyYet(o)
    /\ \/ GiveUp(o, [obj EXCEPT ![o].tried_auth = FALSE])
       \/ /\ ~obj[o].tried_auth
          /\ TryAgain(o, [ReleaseCandidate(obj, o) EXCEPT
                            ![o] = [Invalid(@) EXCEPT !.tried_auth = TRUE, !.fetch = "none"]])

\* llcache_fetch_ssl_error; GiveUp at the first failure when HSTS is in use.
FetchSslError(o) ==
    /\ Message("SSL_ERR", o) /\ NoBodyYet(o)
    /\ \/ GiveUp(o, obj)
       \/ /\ ~obj[o].tried_tls
          /\ TryAgain(o, [ReleaseCandidate(obj, o) EXCEPT
                            ![o] = [Invalid(@) EXCEPT !.tried_tls = TRUE, !.fetch = "none"]])

FetchProgress(o) ==
    /\ Message("PROGRESS", o)
    /\ Send(o, "PROGRESS", None)
    /\ UNCHANGED <<obj, users, usr, held, lists, all_caught_up>>

FetchCerts(o) ==
    /\ Message("CERTS", o)
    /\ obj' = [obj EXCEPT ![o].chain = TRUE]
    /\ Send(o, "GOT_CERTS", None)
    /\ UNCHANGED <<users, usr, held, lists, all_caught_up>>

\* llcache_fetch_redirect up to the event it sends.
FetchRedirect(o) ==
    /\ Message("REDIRECT", o) /\ NoBodyYet(o)
    /\ obj' = [ReleaseCandidate(obj, o) EXCEPT ![o] =
                 [Invalid(@) EXCEPT !.fetch = "none", !.state = COMPLETE]]
    /\ recent' = Cut(recent, o)
    /\ \E target \in Targets :
          IF obj[o].redirect_count > RedirectLimit
          THEN Send(o, "ERROR", None) ELSE Send(o, "REDIRECT", target)
    /\ UNCHANGED <<users, usr, held, cached, uncached, all_caught_up>>

\* All users of an object move to another, to the head of its list one by one.
MoveUsers(from, to) ==
    /\ users' = [users EXCEPT ![from] = <<>>, ![to] = Backwards(users[from]) \o @]
    /\ usr' = [u \in Users |-> IF u \in Elements(users[from])
                               THEN [usr[u] EXCEPT !.object = to] ELSE usr[u]]

\* `recent' when c takes over the request time of o.
InPlaceOf(o, c) ==
    IF o \in Elements(recent)
    THEN LET rest == Cut(recent, c) IN [i \in DOMAIN rest |-> IF rest[i] = o THEN c ELSE rest[i]]
    ELSE Push(c, Cut(recent, c))

\* llcache_fetch_notmodified, the answer to a conditional request, or, of a server
\* in error, to any.  The candidate takes over the request time and the validator, and may
\* have a lifetime again.
FetchNotModified(o) ==
    LET c == obj[o].candidate
        over(ob) == [ob EXCEPT ![o] = [Invalid(@) EXCEPT !.fetch = "none", !.state = COMPLETE,
                                                         !.candidate = None]]
        revived(r, life) ==
            [r EXCEPT !.candidate_count = @ - 1, !.life = life,
                      !.validator = @ \/ obj[o].validator,
                      !.no_cache = LET n == IF obj[o].no_cache # "FRESH"
                                            THEN obj[o].no_cache ELSE @
                                   IN  IF n = "ONCE" THEN "FRESH" ELSE n]
    IN  /\ Message("NOTMODIFIED", o) /\ NoBodyYet(o)
        /\ obj[o].conditional \/ "UNASKED" \in Messages
        /\ \/ /\ c = None
              /\ obj' = over(obj)
              /\ recent' = Cut(recent, o)
              /\ EndWith(o, "OK")
              /\ UNCHANGED <<users, usr>>
           \/ /\ c # None
              /\ MoveUsers(o, c)
              /\ \E life \in BOOLEAN : obj' = over([obj EXCEPT ![c] = revived(@, life)])
              /\ recent' = IF c \in Elements(cached) THEN InPlaceOf(o, c) ELSE Cut(recent, o)
              /\ EndWith(c, "OK")
        /\ UNCHANGED <<held, cached, uncached, all_caught_up>>

-----------------------------------------------------------------------------
\* The event loop of llcache_send_event_to_users.

\* A record that was queued for deletion during its event is taken out.
GoneIgnoresQueue(u) == u = Husk
Gone(u) == u = Husk \/ (u \in Users /\ usr[u].queued)
Deleted(u) ==
    /\ users' = [users EXCEPT ![run.at] = Cut(@, u)]
    /\ usr' = IF u = Husk THEN usr ELSE [usr EXCEPT ![u] = NoUser]

EventReturns(result) ==
    LET next == After(users[run.at], run.who)
    IN  /\ run.in = "event" /\ run.ev # "none"
        /\ IF Gone(run.who) THEN Deleted(run.who)
           ELSE /\ usr' = IF run.what = "ERROR" THEN [usr EXCEPT ![run.who].told = TRUE] ELSE usr
                /\ UNCHANGED users
        /\ IF result # "OK" THEN EndWith(run.at, result)
           ELSE run' = [run EXCEPT !.who = next,
                                   !.ev = IF next = None THEN "none" ELSE run.what]
        /\ UNCHANGED <<obj, held, lists, all_caught_up>>

EventSent ==
    /\ run.in = "event" /\ run.who = None /\ run.what # "REDIRECT"
    /\ EndWith(run.at, "OK")
    /\ UNCHANGED <<obj, users, usr, held, lists, all_caught_up>>

\* The rest of llcache_fetch_redirect: the target is retrieved and takes the users.
RedirectFollowed ==
    /\ run.in = "event" /\ run.who = None /\ run.what = "REDIRECT"
    /\ run.target \in Urls
    /\ \E dest \in Objects :
          /\ ObjectRetrieve(run.target, obj[run.at].force, obj[run.at].stream,
                            obj[run.at].redirect_count + 1, dest)
          /\ MoveUsers(run.at, dest)
          /\ EndWith(dest, "OK")
    /\ UNCHANGED <<held, all_caught_up>>

\* The target cannot be fetched, may not be reached from this scheme, or the
\* status code is one whose redirects are not followed.
RedirectIgnored ==
    /\ run.in = "event" /\ run.who = None /\ run.what = "REDIRECT"
    /\ run.target = Nowhere
    /\ EndWith(run.at, "OK")
    /\ UNCHANGED <<obj, users, usr, held, lists, all_caught_up>>

RedirectFails ==
    /\ run.in = "event" /\ run.who = None /\ run.what = "REDIRECT"
    /\ NoMemory
    /\ EndWith(run.at, "ERROR")
    /\ UNCHANGED <<obj, users, usr, held, lists, all_caught_up>>

-----------------------------------------------------------------------------
\* Cleaning.

HasLifetime(o) == obj[o].no_cache = "FRESH" /\ obj[o].life
InUseIgnoresUsers(o) == obj[o].candidate_count # 0 \/ obj[o].fetch # "none"
InUse(o) == users[o] # <<>> \/ obj[o].candidate_count # 0 \/ obj[o].fetch # "none"

\* What llcache_clean discards whatever its size: unused objects that are not
\* cached or have no lifetime left.  Of the other unused objects it discards the
\* first ones in the list until the rest fits, all of them in a purge.
Stale == {o \in Objects : /\ Allocated(o) /\ ~InUse(o)
                          /\ o \in Elements(uncached) \/ ~HasLifetime(o)}
Spare == TakenOut(cached, {o \in Objects : InUse(o) \/ ~HasLifetime(o)})
Excess(n) == Stale \union {Spare[i] : i \in 1 .. n}

\* llcache_object_destroy of several objects; it does not look at their candidates.
Destroyed(ob, S) == [o \in Objects |-> IF o \in S THEN Blank ELSE ob[o]]
RemoveFromLists(S) ==
    /\ cached' = TakenOut(cached, S)
    /\ uncached' = TakenOut(uncached, S)
    /\ recent' = TakenOut(recent, S)

\* llcache_clean, called by hlcache_clean from the main loop.
Clean ==
    /\ run.in = "idle"
    /\ \E n \in 0 .. Len(Spare) :
          /\ obj' = Destroyed(obj, Excess(n))
          /\ RemoveFromLists(Excess(n))
    /\ UNCHANGED <<users, usr, held, all_caught_up, run>>

\* Time passes and a lifetime ends.
Expire(o) ==
    /\ run.in = "idle"
    /\ obj[o].life
    /\ obj' = [obj EXCEPT ![o].life = FALSE]
    /\ UNCHANGED <<users, usr, held, lists, all_caught_up, run>>

\* The end of llcache_fetch_callback: an error ends the fetch of the object.
EndCallback ==
    LET o == run.at
        purged == IF run.err = "NOMEM" THEN Excess(Len(Spare)) ELSE {}
        stops == run.err # "OK" /\ obj[o].fetch # "none" /\ o \notin purged
    IN  /\ run.in = "end"
        /\ obj' = Destroyed(IF stops THEN [obj EXCEPT ![o] = [Invalid(@) EXCEPT
                                             !.fetch = "none", !.state = COMPLETE]]
                            ELSE obj, purged)
        /\ cached' = TakenOut(cached, purged)
        /\ uncached' = TakenOut(uncached, purged)
        /\ recent' = TakenOut(IF stops THEN Cut(recent, o) ELSE recent, purged)
        /\ NotCaughtUp
        /\ run' = Idle
        /\ UNCHANGED <<users, usr, held>>

-----------------------------------------------------------------------------
\* llcache_catch_up_all_users: llcache_object_notify_users for each object of both
\* lists.  `phase' is the list whose loop runs; an object that is moved to the
\* other list meanwhile takes the loop with it.
Visit(phase, o) ==
    IF o # None
    THEN [Idle EXCEPT !.in = "notify", !.phase = phase, !.at = o, !.who = First(users[o]),
                      !.seen = obj[o].state]
    ELSE IF phase = "cached" /\ uncached # <<>>
    THEN LET head == First(uncached)
         IN  [Idle EXCEPT !.in = "notify", !.phase = "uncached", !.at = head,
                          !.who = First(users[head]), !.seen = obj[head].state]
    ELSE Idle

CatchUp ==
    /\ run.in = "idle" /\ ~all_caught_up
    /\ all_caught_up' = TRUE
    /\ run' = Visit("cached", First(cached))
    /\ UNCHANGED <<obj, users, usr, held, lists>>

Notifying(u) == run.in = "notify" /\ run.ev = "none" /\ run.who = u /\ u \in Users

NextObject ==
    /\ run.in = "notify" /\ run.who = None
    /\ run' = Visit(run.phase, IF run.at \in Elements(cached) THEN After(cached, run.at)
                               ELSE After(uncached, run.at))
    /\ UNCHANGED <<obj, users, usr, held, lists, all_caught_up>>

\* The events that bring a user up to date, in the order in which they are tried.
OwesHeaders(u) == usr[u].state = HEADERS /\ run.seen > HEADERS
OwesData(u) == usr[u].state = DATA /\ run.seen >= DATA /\ obj[run.at].source_len > usr[u].bytes
OwesDone(u) == usr[u].state = DATA /\ run.seen > DATA /\ ~OwesData(u)

NotifyCerts(u) ==
    /\ Notifying(u)
    /\ usr[u].state = INIT /\ run.seen > INIT
    /\ usr' = [usr EXCEPT ![u].state = HEADERS]
    /\ run' = [run EXCEPT !.ev = IF obj[run.at].chain THEN "GOT_CERTS" ELSE "none"]
    /\ UNCHANGED <<obj, users, held, lists, all_caught_up>>

NotifyHeaders(u) ==
    /\ Notifying(u) /\ OwesHeaders(u)
    /\ usr' = [usr EXCEPT ![u].state = DATA]
    /\ run' = [run EXCEPT !.ev = "HAD_HEADERS"]
    /\ UNCHANGED <<obj, users, held, lists, all_caught_up>>

NotifyData(u) ==
    LET o == run.at
    IN  /\ Notifying(u) /\ OwesData(u)
        /\ \/ /\ obj[o].stream
              /\ obj' = [obj EXCEPT ![o].source_len = 0]
              /\ usr' = [usr EXCEPT ![u].bytes = 0]
              /\ run' = [run EXCEPT !.ev = "HAD_DATA", !.orig = 0]
           \/ /\ ~obj[o].stream
              /\ usr' = [usr EXCEPT ![u].bytes = obj[o].source_len]
              /\ run' = [run EXCEPT !.ev = "HAD_DATA", !.orig = usr[u].bytes]
              /\ UNCHANGED obj
        /\ UNCHANGED <<users, held, lists, all_caught_up>>

NotifyDone(u) ==
    /\ Notifying(u) /\ OwesDone(u)
    /\ usr' = [usr EXCEPT ![u].state = COMPLETE]
    /\ run' = [run EXCEPT !.ev = "DONE"]
    /\ UNCHANGED <<obj, users, held, lists, all_caught_up>>

\* The next user, with the state of the object at that moment.
NextUser(list, r) ==
    [r EXCEPT !.who = After(list, r.who), !.seen = obj[r.at].state, !.ev = "none", !.orig = 0]

NotifyNothing(u) ==
    /\ Notifying(u)
    /\ ~(usr[u].state = INIT /\ run.seen > INIT)
    /\ ~OwesHeaders(u) /\ ~OwesData(u) /\ ~OwesDone(u)
    /\ run' = NextUser(users[run.at], run)
    /\ UNCHANGED <<obj, users, usr, held, lists, all_caught_up>>

\* The callback of a user that was not queued for deletion asks for a replay.
ReplayedTooFar(u, r) ==
    CASE r.ev \in {"GOT_CERTS", "HAD_HEADERS"} -> [usr EXCEPT ![u].state = HEADERS]
      [] r.ev = "HAD_DATA" -> usr
      [] r.ev = "DONE" -> [usr EXCEPT ![u].state = DATA]
Replayed(u, r) ==
    CASE r.ev \in {"GOT_CERTS", "HAD_HEADERS"} -> [usr EXCEPT ![u].state = HEADERS]
      [] r.ev = "HAD_DATA" -> [usr EXCEPT ![u].bytes = r.orig]
      [] r.ev = "DONE" -> [usr EXCEPT ![u].state = DATA]

NotifyReturns(result) ==
    LET u == run.who
        next == NextUser(users[run.at], run)
        leave == [run EXCEPT !.who = None, !.ev = "none", !.orig = 0, !.seen = INIT]
    IN  /\ run.in = "notify" /\ run.ev # "none"
        /\ \/ /\ Gone(u)
              /\ Deleted(u)
              /\ run' = IF result = "OK" THEN next ELSE leave
              /\ UNCHANGED all_caught_up
           \/ /\ ~Gone(u) /\ result = "OK"
              /\ run' = [run EXCEPT !.ev = "none", !.orig = 0]
              /\ UNCHANGED <<users, usr, all_caught_up>>
           \/ /\ ~Gone(u) /\ result = "NEED_DATA"
              /\ usr' = Replayed(u, run)
              /\ run' = next
              /\ NotCaughtUp
              /\ UNCHANGED users
           \/ /\ ~Gone(u) /\ result \notin {"OK", "NEED_DATA"}
              /\ run' = leave
              /\ UNCHANGED <<users, usr, all_caught_up>>
        /\ UNCHANGED <<obj, held, lists>>

-----------------------------------------------------------------------------
Init ==
    /\ obj = [o \in Objects |-> Blank]
    /\ users = [o \in Objects |-> <<>>]
    /\ usr = [u \in Users |-> NoUser]
    /\ held = {}
    /\ cached = <<>> /\ uncached = <<>> /\ recent = <<>>
    /\ all_caught_up = TRUE
    /\ run = Idle

ClientCall(u) ==
    \/ \E url \in Urls, force, stream \in BOOLEAN : HandleRetrieve(u, url, force, stream)
    \/ HandleRelease(u)
    \/ \E new \in Users : HandleClone(u, new)
    \/ AbortAlone(u)
    \/ \E new \in Objects : AbortShared(u, new)
    \/ HandleForceStream(u)
    \/ HandleInvalidate(u)

FetchMessage(o) ==
    \/ FetchHeader(o) \/ FetchData(o) \/ FetchFinished(o)
    \/ FetchError(o) \/ FetchTimedout(o) \/ FetchAuth(o) \/ FetchSslError(o)
    \/ FetchProgress(o) \/ FetchCerts(o)
    \/ FetchRedirect(o) \/ FetchNotModified(o)

EventStep ==
    \/ \E result \in Results : EventReturns(result)
    \/ EventSent \/ RedirectFollowed \/ RedirectIgnored \/ RedirectFails
    \/ EndCallback

NotifyUser(u) ==
    NotifyCerts(u) \/ NotifyHeaders(u) \/ NotifyData(u) \/ NotifyDone(u) \/ NotifyNothing(u)

NotifyStep ==
    \/ \E u \in Users : NotifyUser(u)
    \/ \E result \in Results : NotifyReturns(result)
    \/ NextObject

Next ==
    \/ \E u \in Users : ClientCall(u)
    \/ \E o \in Objects : FetchMessage(o) \/ Expire(o)
    \/ EventStep
    \/ CatchUp
    \/ NotifyStep
    \/ Clean

Spec == Init /\ [][Next]_vars

\* The scheduler runs what is due, callbacks return, and a fetch is answered in
\* the end (curl.c has time limits for all of its stages).
Fairness ==
    /\ SF_vars(CatchUp)
    /\ WF_vars(NotifyStep)
    /\ WF_vars(EventStep)
    /\ \A o \in Objects : SF_vars(FetchFinished(o) \/ FetchError(o))
FairSpec == Spec /\ Fairness

-----------------------------------------------------------------------------
Object == [url : Urls \union {None}, state : INIT .. COMPLETE,
           fetch : {"none", "running", "over"}, source_len : 0 .. MaxLen,
           chain : BOOLEAN, force : BOOLEAN, stream : BOOLEAN,
           candidate : Objects \union {None}, candidate_count : 0 .. MaxCount,
           life : BOOLEAN, validator : BOOLEAN, conditional : BOOLEAN, no_cache : {"FRESH", "ALWAYS", "ONCE"},
           redirect_count : 0 .. RedirectLimit + 1 + Cardinality(Objects),
           retries : 0 .. FetchAttempts,
           tried_auth : BOOLEAN, tried_tls : BOOLEAN,
           body : {"none", "part", "mixed", "whole"}]

User == [object : Objects \union {None}, state : INIT .. COMPLETE, bytes : 0 .. MaxLen,
         queued : BOOLEAN, told : BOOLEAN]

Event == {"none", "GOT_CERTS", "HAD_HEADERS", "HAD_DATA", "DONE", "ERROR", "PROGRESS", "REDIRECT"}

Run == [in : {"idle", "notify", "event", "end"}, phase : {"none", "cached", "uncached"},
        at : Objects \union {None}, who : Users \union {Husk, None}, seen : INIT .. COMPLETE,
        ev : Event, orig : 0 .. MaxLen, what : Event, target : Urls \union {Nowhere, None},
        err : {"OK"} \union Results \union {"ERROR", "NOMEM"}]

TypeOK ==
    /\ obj \in [Objects -> Object]
    /\ users \in [Objects -> Seq(Users \union {Husk})]
    /\ usr \in [Users -> User]
    /\ held \subseteq Users
    /\ cached \in Seq(Objects) /\ uncached \in Seq(Objects) /\ recent \in Seq(Objects)
    /\ all_caught_up \in BOOLEAN
    /\ run \in Run

OnceIn(s) == \A i, j \in DOMAIN s : s[i] = s[j] => i = j

\* Every object is in exactly one of the lists, once, and every handle in the
\* user list of the object it names and in no other, across redirects,
\* revalidation, snapshots and deletions that had to wait.
ListsAgree ==
    /\ OnceIn(cached \o uncached)
    /\ Elements(cached) \union Elements(uncached) = {o \in Objects : Allocated(o)}
    /\ OnceIn(recent) /\ Elements(recent) \subseteq Elements(cached)
    /\ \A o \in Objects :
          /\ OnceIn(users[o])
          /\ Elements(users[o]) \ {Husk} = {u \in Users : usr[u].object = o}
          /\ users[o] # <<>> => Allocated(o)
    /\ \A u \in Users : usr[u].object # None <=> u \in held \/ usr[u].queued

\* An object that serves as a candidate is never discarded: each pointer to it is
\* counted (at least).
Revalidating(o) == {p \in Objects : obj[p].candidate = o}
CandidatesCounted ==
    \A p \in Objects :
       obj[p].candidate # None =>
          /\ Allocated(obj[p].candidate)
          /\ obj[obj[p].candidate].candidate_count >= Cardinality(Revalidating(obj[p].candidate))

\* An object is incomplete exactly while it has a running fetch.  Otherwise its
\* users would wait for ever, and new ones would be sent to it as if it were
\* fresh; and no pointer to a finished fetch is left to be aborted.
FetchIffIncomplete ==
    \A o \in Objects :
       Allocated(o) => /\ obj[o].fetch # "over"
                       /\ obj[o].fetch = "running" <=> obj[o].state # COMPLETE

\* The iterators stay valid while client code runs: the object exists, and the
\* current record is still in its list.
IteratorsValid ==
    /\ run.in \in {"notify", "event"} => Allocated(run.at)
    /\ run.who # None => run.who \in Elements(users[run.at])
    /\ \A o \in Objects : Husk \in Elements(users[o]) => run.at = o /\ run.who = Husk

\* A client is never called for a handle it has released.
CalledWhileHeld ==
    [][run'.ev # "none" /\ (run.ev = "none" \/ run.who # run'.who) /\ run'.who # Husk
          => run'.who \in held']_vars

\* No wake-up is lost: when nothing is scheduled, no user lags behind its object,
\* unless it was sent an error or has aborted.
Behind(u) ==
    LET o == usr[u].object
    IN  \/ usr[u].state < obj[o].state
        \/ usr[u].state = DATA /\ obj[o].state = DATA /\ usr[u].bytes < obj[o].source_len
CaughtUp == run.in = "idle" /\ all_caught_up => \A u \in held : usr[u].told \/ ~Behind(u)

\* A handle that was aborted is told of the end, like any other.
AbortInforms == run.in = "idle" /\ all_caught_up => \A u \in held : usr[u].told => ~Behind(u)

\* A client that is told DONE, and was not told of an error before, has been given
\* the whole of one answer of the server: not a part of it, and not a mixture.
DoneIsWhole ==
    run.ev = "DONE" /\ run.who \in held /\ ~usr[run.who].told => obj[run.at].body = "whole"

\* A callback that returns NEED_DATA is given the same event again (of a stream
\* nothing is kept that could be).
ReplayKept ==
    [][NotifyReturns("NEED_DATA") /\ run.who \in held =>
          LET u == run.who
          IN  CASE run.ev = "GOT_CERTS" -> usr'[u].state = INIT
                [] run.ev = "HAD_HEADERS" -> usr'[u].state = HEADERS
                [] run.ev = "HAD_DATA" /\ ~obj[run.at].stream ->
                      usr'[u].bytes < obj[run.at].source_len
                [] run.ev = "DONE" -> usr'[u].state = DATA
                [] OTHER -> TRUE]_vars

\* Every client is told in the end: a handle that is neither released nor aborted
\* reaches DONE or is sent an error, whatever the users of the same object do.
HandlesEnd ==
    \A u \in Users : (u \in held) ~> (u \notin held \/ usr[u].told \/ usr[u].state = COMPLETE)

\* The candidate count is exact: at zero when nothing refers to the object.
CandidatesExact == \A o \in Objects : obj[o].candidate_count = Cardinality(Revalidating(o))

\* Objects outside the cache are no candidates.
UncachedNoCandidate == \A o \in Elements(uncached) : obj[o].candidate_count = 0

\* The object of a callback outlives the purge that an allocation failure causes.
ObjectOutlivesPurge ==
    run.in = "end" /\ run.err = "NOMEM" => run.at \notin Excess(Len(Spare))
==============================================================================
