# NetSurf (Plan 9 fork): formal models

TLA+ models of the parts of this browser whose correctness depends on the order
in which things happen: the timers, the fetchers, the fetch factory, the
low-level cache and the store that backs it, the high-level cache with its
contents, the load of an HTML document, and the window that shows it. Each model
is checked with TLC on small instances; the central invariants of the fetch
factory, two kinds of fetcher, the timers, both caches, the HTML load and the window are
also proved with TLAPS for every value of the constants.

NetSurf runs in one thread. Nothing here is about data races. What makes the
code hard is *re-entrancy*: nearly every loop of the core calls a client back in
its middle, and the client may start, abort, release, clone or purge the very
things the loop is working on before it returns. A unit test of that needs the
unlucky callback at the unlucky moment; a model checker tries each of them.

The modelled program is the fork in `src/`, whose Plan 9 frontend is what it
builds (`src/mkfile`): `frontends/plan9/webfs.c` fetches http and https in
the place of `content/fetchers/curl.c` (`gui.c:915` calls `webfs_register`), and
`gui.c`'s `drawui_run` is the main loop. The curl fetcher is still in the tree,
belongs to the other frontends, and is modelled too.

1. [Inventory](#1-inventory)
2. [Modules](#2-modules)
3. [Runs](#3-runs)
4. [Bounds](#4-bounds)
5. [Fairness](#5-fairness)
6. [Proofs](#6-proofs)
7. [Findings](#7-findings)
8. [What is not modelled](#8-what-is-not-modelled)
9. [Plan](#9-plan)

To run one model: `tlc -config MCFetch.cfg MCFetch`; to check the proofs of a
component: `tlapm FetchProofs.tla` (half a minute to four minutes each, five for LLCacheProofs and HLCacheProofs). `PROJECT.json` lists, for every definition, the lines of
the source it stands for.

## 1. Inventory

| component | state | operations | hard behaviour |
|---|---|---|---|
| scheduler, `frontends/plan9/schedule.c` | list of (callback, pointer, time) | `misc_schedule`, `schedule_remove`, `schedule_run` | callbacks change the list that is being walked |
| fetch factory, `content/fetch.c` | queue ring, ring of active fetches, table of fetchers, flag and last message of each fetch | `fetch_start`, `fetch_abort`, `fetch_dispatch_jobs`, `fetcher_poll`, `fetch_fdset`, `fetch_send_callback`, `fetch_remove_from_queues`, `fetch_free` | limits kept across nested starts; a refused start; a queue nobody looks at again |
| webfs fetcher, `frontends/plan9/webfs.c` | list of started fetches, state and descriptors of each | setup, start, abort, poll, free | calls its client inside `start`; every step of a start can fail; polled once per scheme |
| curl fetcher, `content/fetchers/curl.c` | multi handle, cached easy handles, `inside_curl`, flags of each transfer | setup, start, abort, poll, the libcurl callbacks, `fetch_curl_done` | aborts from inside libcurl; an early return that leaves a static flag set |
| data, file, resource, about fetchers | ring of contexts with an abort flag | setup, start, abort, poll | any message may abort its own fetch |
| low-level cache, `content/llcache.c` | cached and uncached objects, their users, fetch, candidate, cache control and source data; the `all_caught_up` flag | retrieve, release, clone, abort, force_stream, invalidate, eleven kinds of fetch message, catch up, clean | iteration under callbacks; revalidation with candidates; redirects, retries, replay |
| backing store, `content/fs_backing_store.c` | entries keyed by URL, block maps, files, two control files | initialise, store, fetch, release, invalidate, evict, control maintenance, finalise | memory on loan to llcache; eviction and invalidation of what is on loan; control files older than the data; a killed program |
| high-level cache, `content/hlcache.c`, `content/content.c` | handles, retrieval contexts, contents with users and a status | retrieve, release, abort, replace callback, broadcast, convert, clean | broadcast to a list that callbacks change; migration of a context; sharing of contents; ownership of the low-level handle |
| HTML content, `content/handlers/html/` | count of active fetches, parser state, scripts, objects, style sheets | data, script exec, css and object callbacks, begin and finish conversion, layout done, refresh, stop | conversion starts when a counter reaches zero, and is entered again by what it starts |
| image cache, `content/handlers/image/image_cache.c` | entries with bitmap, age, size | add, remove, find, speculate, clean | bitmaps dropped while redraws use them |
| windows and history, `desktop/` | loading and current page with their fetch parameters, throbber, refresh timer, history tree; tree of frames | navigate, reload, stop, back, forward, answers to query pages, refresh, destroy, the messages of both pages | navigation superseded while it loads; timers and dialogs that outlive their page |
| URL database, `content/urldb.c` | tree of hosts and paths, cookies, authentication | set and get cookies, save, load | replacement and expiry of cookies |
| layout, CSS, JavaScript, forms, text area, utilities | trees and strings | pure or user driven | mostly sequential |

How they interact. `drawui_run` waits for input, then calls `schedule_run`.
`fetch_start` schedules `fetcher_poll`; `fetcher_poll` dispatches queued fetches
and calls each fetcher's poll; a fetcher's poll calls `fetch_send_callback`, that
is `llcache_fetch_callback`; that changes an object at once and schedules
`llcache_catch_up_all_users`, which calls `hlcache_llcache_callback`, which
calls contents, which start more fetches, and so on. `llcache_clean` and
`hlcache_clean` schedule themselves. All of it is calls on one stack and timers
on one list; the models say which calls of a file are on the stack.

What makes each part correct:

* scheduler: an entry runs once and not before its time, never after its removal;
  a walk ends; nothing due is missed.
* factory: the two limits; a fetch on exactly the ring its flag names; first come
  first served per host; no fetch without a poll scheduled to look at it.
* fetchers: one end for every fetch, none after an abort; the fetcher's own list
  agrees with the factory's rings; whatever fails, the slot is freed.
* low-level cache: every user is brought to the end of its object, with all the
  data of exactly one answer; events repeated on request; nothing discarded
  that is in use; iterators that survive every callback.
* backing store: what is read back is what was stored last for that URL, or
  nothing; data and metadata of one version; nothing on loan is freed and every
  loan ends; the accounts by which it evicts are those of its entries.
* high-level cache: each handle gets a legal sequence of messages and its end;
  a low-level handle has one owner and is released once; iterators survive.
* HTML: the counter of active fetches is the number of fetches waited for; what
  is shown is whole; scripts run in order; every load ends.
* windows: every handle is known to the window until it is released; whatever is
  pending (a timer, a form, a dialog) finds the page it is about; the window comes to
  rest; an entry of the history describes its own page.

## 2. Modules

```
Fetch         content/fetch.c, with any fetcher that keeps to content/fetchers.h
  CurlFetch   EXTENDS Fetch: content/fetchers/curl.c   -- implements Fetch
  PollFetch   EXTENDS Fetch: data.c, file/, resource.c, about/
  WebfsFetch  EXTENDS Fetch: frontends/plan9/webfs.c   -- breaks its contract
LLCache       content/llcache.c over the null store
StoreContract content/backing_store.h: what a store promises
FsStore       content/fs_backing_store.c, as operators on the state of a store
  BackingStore  EXTENDS FsStore: the persistent path of content/llcache.c over
                it, restarts and crashes     -- implements StoreContract
HLCache       content/hlcache.c, content/content.c
HtmlLoad      content/handlers/html: html.c, script.c, css.c, object.c
BrowserWindow desktop/browser_window.c, desktop/browser_history.c
Schedule      frontends/plan9/schedule.c
MC*           instances for TLC
*Proofs       theorems about the modules they EXTEND, one each but for
              Plan9Proofs (Schedule and WebfsFetch) and ContentProofs (HtmlLoad
              and BackingStore): FetchProofs, CurlFetchProofs, PollFetchProofs,
              LLCacheProofs, HLCacheProofs, BrowserWindowProofs
```

A definition that looks like a slip of another (`HasRoomOffByOne` before `HasRoom`,
`AbortKeepsState` before `Abort`) is a faulty variant of it, named for what it
gets wrong. Variants are used nowhere; put in place of the definition they
stand before, each makes the property it is meant for fail, which shows that the
property notices mistakes of that kind.

**Fetch.** `queue_ring`, `fetch_ring`, `fetch_is_active` and `last_msg` are the
code's; `live` the allocated fetches, `timer` whether `fetcher_poll` is
scheduled. `job` says who called the `fetch_dispatch_jobs` that is running, and
`polling` who is running the fetchers' polls: together they are the stack. Each
action is one handler up to the next call that leaves the file: `StartFetch` is
`fetch_start` up to `fetch_dispatch_jobs`, `DispatchStarts` one turn of its loop,
`DispatchEnds` its return with what the caller then does. Fetchers appear as
what their contract lets them do: `SendCallback`, `Remove`, `Free`, and the two
kinds of abort. The message types keep their order because `last_msg` is
compared with `FETCH_MIN_FINISHED_MSG`. Fetches whose URL has no host count as one
host, as in the code.

**CurlFetch** puts `curl.c` in place of the abstract fetchers. libcurl itself is
external: it may call back for any transfer while `curl_multi_perform` is
running, and completes it with one of a few results. `fetch_curl_done` is taken
apart into the calls it makes (`stage`: halt, certs, final, free), for in each
of those the client may act. `ImplementsFetch` checks that the two together do
only what Fetch allows, with every variable of Fetch mapped to itself. The
error that `fetch_free` reports for a fetch nobody completed is not an action
here: its guard never holds in curl, and the model would deadlock if it did.

**PollFetch** is the common design of the four fetchers without a network. Each has a
ring of its own (`ring`, by the `Fetcherd` of a URL's scheme), and `fetcher_poll` runs one
fetcher's `while (ring != NULL)` to its end before it calls the next (`at`,
`NextFetcher`). A reply is a sequence of messages (`ReplyOf`), each of them a call of the
client, and it may stop without an end: a file that cannot be read further is an error after
part of its data, and the pages of about: return without a word when a parameter or
memory is lacking. Then `fetch_free` makes the report (`Report`), off the rings.

**WebfsFetch** models `webfs_start` as a sequence of steps, because it calls the
client in the middle: the fetch is on neither ring, and `fetch_dispatch_jobs`
holds counts of both in locals (`dispatch`). A client that starts a fetch there
runs a second `fetch_dispatch_jobs` on top of the first, so calls in progress
are a stack (`calls`). `webfs_poll` is registered for http and https and runs
twice a round; `fetch_list` holds `None` for an entry whose fetch was freed until
the second loop unlinks it. It does not implement Fetch, and the finding WebfsRoom
shows the worst of it.

**LLCache.** One record per object (`obj`), the list of users of each (`users`),
one record per client handle (`usr`), the three lists an object can be found
through. `run` is the stack of the file: whether `llcache_catch_up_all_users`
walks the objects or `llcache_fetch_callback` sends an event, where its iterators
stand and which event the client is handling. Payload is a number of chunks;
`body` is a history variable that says whether the data are part of one answer, a
mixture of several, or the whole of one, and `told` one that says a client was
sent an error or has aborted. The cache works over the null backing store
(`no_backing_store.c`), so every object stays in RAM; BackingStore has the other
half. `Husk` stands for a
user record whose handle moved to a snapshot while it was being called. A fetch
ceases when it is aborted: the fetchers that go on calling are shown in
CurlFetch and WebfsFetch, where it is a finding.

**StoreContract, FsStore, BackingStore.** The contract is a shelf: a key (a URL
and data or metadata) returns what was stored last or nothing. FsStore is the file
itself: a state of the store is a record (entries, use maps, `total_alloc`, the
dirty flags, the disc), each function an operator to the set of states and results
it may have, because `store` and `fetch` may fail half way and `store_evict` picks
among entries. BackingStore calls them as llcache does: objects are fetched,
written out in two steps (`PersistData`, `PersistMeta`; `write_backing_store`),
dropped from memory, read back, revalidated and discarded, one action for each turn
of the loops of `llcache_clean`. The two control files are replaced in steps of
their own, old file removed first, by the maintenance timer or on the way out. Leaving
takes as many steps as the code has loops: `Finalise`, one `DestroyCached` for each
object (`llcache_finalise`), which gives back what it has on loan, then
`StoreFinalised`. The program may be killed between any two steps. An element that was
never stored has size 0, and reading it finds nothing (`OnDisc`). `ImplementsContract` maps `shelf` to
what `fetch` would return (`Readable`).

**HLCache.** Handles, retrieval contexts, contents with their user lists, and the
low-level handles as their clients see them. What an event makes the code do is a
list of jobs (`work`): a message to one handle, a broadcast with the saved
`next` user, the end of a migration, a change of status. Client callbacks run between
two jobs and may release handles. A handler converts at once, later, in two steps
(a page) or fails, as it chooses.

**HtmlLoad.** One record `page` and the fetches it has counted. Each C function is
an operator from a page to the pages it may leave, since the handlers call each
other deeply and scripts that run in the middle may add to what is waited for.
`late` remembers that a script changed the document after its layout was begun, which the code
does not support (comment at html.c:353-363). A script that another inserts is
synchronous, deferred or asynchronous by its attributes until the parse is complete, and
asynchronous afterwards (`kind`); a synchronous one of these does not pause the parser, but the
parser is not resumed before it has ended. The refresh of a frame is scheduled (`due`,
`FrameAsks`), runs later (`Refresh`), and may find the URL gone; a frame inside a frame
that is loaded again raises the count of every document around it, which `Nested` is for
the outer one. `Mishaps` names what else may go wrong: the root element, the parser, a
style element without text or without memory, a refresh whose fetch does not start, and two ways in
which refreshes overlap with a load.

**BrowserWindow.** The window is one record, `win`: the handles and parameters of
the page shown and the page loading, the flags, the timer and the history, whose
entries are a sequence with `back` and `pref` links (`entry_pref`). A function of the code is
an operator from windows to windows, an action one call from outside: the user's,
the refresh timer's, or a message of the high-level cache. An error makes the window
load a *query page* (login, certificate, time out, other error) in the place of the
page; its form is submitted as a navigation to `about:`, which `NavigateInternal` acts on.
`content` records what each handle is: the page it was asked for and its status.
`Release` empties it, so a handle that drops out of sight is one still in use.
A site may be `Unfetchable` (no fetcher for its scheme: `hlcache_handle_retrieve`
fails and nothing is loaded) or `Lingering` (an aborted page that is still READY, as
`html_stop` leaves one whose scripts are being fetched). From HLCache it takes
`MessageOrder`: LOADING, READY, DONE, and no error once READY.

**Schedule.** `now` moves at any moment; `schedule_run` is taken one entry at a
time, with its locals in `run`; during a callback anything may be scheduled or
removed.

## 3. Runs

Runs that pass:

| run | instance | properties | what it shows |
|---|---|---|---|
| Fetch | 3 fetches, 2 hosts, 2 slots, 1 per host, with `fetch_fdset` | `Limits` `RingsAgree` `NoneForgotten` `FifoPerHost` | whatever fetchers and clients do within the contract, limits hold, the rings are consistent, a poll is scheduled while there is work, and a host's queue is served in order |
| CurlFetch | 2 fetches on 1 host, client calls in every callback | `HandlesAgree` `OneCompletion` `ImplementsFetch` | immediate and deferred aborts never free a fetch in use; one completion and no data after an abort; curl keeps to the contract |
| PollFetch | 3 fetches without a host, of 2 fetchers; every kind of reply | `HeldIsAttached` `ToldOnce` `EveryFetchEnds` | a pointer the client can use is to a fetch that is on a ring; its client is told the end once, by the reply or by `fetch_free`, and nothing after its abort; and every fetch is answered unless another fetcher's callbacks start new ones for ever |
| WebfsFetch | 3 fetches, 2 hosts, 2 slots; every failure of a start and of a read; clients that abort in data and start fetches in redirects | `HeldIsLive` `OneCompletion` `EveryListedEnds` | no client is left with a pointer to a freed fetch or called after its abort, and whatever was listed ends, once |
| LLClients | 2 objects, 2 handles, 1 URL; release, clone, abort, force_stream in every callback; failing allocations and the purge; timeouts with a retry, authentication, TLS, redirects to nowhere, unasked 304 answers | `ListsAgree` `IteratorsValid` `CalledWhileHeld` | lists and iterators survive what clients and failures do |
| LLReplay | 2 URLs that redirect to each other and themselves; forced, streamed and invalidated retrievals; revalidation; callbacks that return NEED_DATA | `CaughtUp` `FetchIffIncomplete` `ReplayKept` | replays are replayed, no wake-up is lost, no object is left incomplete without a fetch |
| LLLive | revalidation, errors, aborts and certificates under a fair scheduler and server | `DoneIsWhole` `HandlesEnd` | every client is told in the end, and DONE means the whole of one answer |
| BackingStore | 2 URLs, 2 versions, 2 objects, one block of each kind, one restart; reads that fail, a program that is killed | `LoansMatch` `AccountsExact` `SameVersion` `ImplementsContract` | memory on loan matches the objects that use it, the accounts are exact, data and metadata belong together, and until it is killed the store keeps the contract |
| HLCache | 2 handles; a content that may be shared and convert late, and a page | `OwnedOnce` `UsersAgree` `IteratorsValid` `MessageOrder` `EveryHandleEnds` | through sharing, clones, aborts and late conversions, low-level handles have one owner, messages come in order and each client learns the end |
| HtmlLoad | one item of each kind: style element, synchronous, deferred and inserted script, frame, the base and quirks sheets; refreshes of the frame and inside it; no mishaps | `ActiveExact` `WholeWhenReady` `ScriptOrder` `LoadEnds` | the count is exact, a READY document is whole, scripts run in order, every load ends |
| BrowserWindow | 3 sites (one refreshes itself to another, one lingers, one cannot be fetched), 2 handles, 4 calls | `SlotsHold` `PendingFindsPage` `ComesToRest` | whatever is done to a window at any moment of a load that may succeed, fail or become a download, no handle is lost, timers and forms find their page, and the throbber stops |
| Schedule | 3 callbacks, delays 0 to 2, clock 0 to 3 | `ScheduledOnce` `NothingMissed` `RunComesToEnd` | entries stay unique, nothing due is missed whatever callbacks do to the list, and callbacks that reschedule themselves at once cannot hold the main loop |

Further properties that hold on the same instances, to be put in the place of
those listed: `TypeOK` of Fetch; `CurlTypeOK`; `WebfsTypeOK`, `ListedOrFailed`; `PollTypeOK`, `ImplementsFetch` (of PollFetch); `TypeOK` of
LLCache (on LLLive), `CandidatesCounted` (on LLClients); `ScheduleTypeOK`, `WalkSound` of
Schedule; `Asserted` of HLCache; `ActiveCovers`, `ToldInOrder`, `ErrorIsFinal` of HtmlLoad.

Deadlock is checked where the system goes on for ever. It is switched off in
LLReplay, where all identities of objects may be in use when a redirect wants another
(a bound of the model); in BackingStore, HLCache, HtmlLoad and BrowserWindow, where the
program has been finalised, every handle was used, or the page or window destroyed in
the end; and in the
configurations of findings.

Sizes: LLClients 3.7 and LLReplay 4.7 million states (a minute and a half each),
HtmlLoad 840, BackingStore 560, LLLive 440 and BrowserWindow 250 thousand, the others less.

The deepest hazards of LLCache and their limits: `DoneIsWhole` is checked for
aborts, revalidation and errors (LLLive), and fails for the
situations of LLTimeout, LLChain and LLNowhere; `HandlesEnd` does not hold when
allocations fail; `CaughtUp` holds with replays and redirects and
fails in LLClone and LLDefer. A run that passes enables none of the situations
listed as findings for its properties, and only those are left out.

The same is true of the new modules. BackingStore runs with data that fits its block,
distinct hashes and writes that succeed; StoreSpill, StoreCollide, StoreWrite,
StoreDangle and StoreMemory show what each of these assumptions is for, and
StoreCrash what a killed program may do: after it the contract's promise is void, while
`LoansMatch` and the total must still hold. In HLCache a client releases its own
handle, and only when it hears ERROR or DOWNLOAD (HLCatchUp, HLNext). In
HtmlLoad the exact count leaves out a nested refresh while the outer frame is counted
(HtmlNested) and frames refreshed before their page is READY (HtmlRefresh), and `LoadEnds` leaves out
all mishaps (HtmlLost, HtmlEmptied, HtmlRoot). The instance of the run has none. With
`Mishaps = {"badroot", "parse", "memory", "emptied", "lost"}` and `SPECIFICATION Spec`, `ActiveExact`,
`WholeWhenReady` and `ScriptOrder` hold as well (1.3 million states, half a minute), and with `"overlap"` added
`ActiveCovers` and the last two; the theorems have all of them. In PollFetch the end of a fetch is promised unless
another fetcher keeps its own ring filled (PollStarve). In BrowserWindow nobody goes back while a query page
loads (`Rush`, WindowRush), and a login dialog is closed with its page
(`StaleAnswers`, WindowLogin).

## 4. Bounds

* Fetches: two compete for the slot of a host and a third is on another host:
  enough for the queue to be reordered, a head without room to be stepped over,
  and a limit to be reached with work left. `Reuse = TRUE` allows an identity to be
  allocated again, so those runs have no bound on the length of a behaviour.
  With `Reuse = FALSE` (needed where the state has many flags: CurlFetch) each
  fetch is started once, which still lets a callback for one fetch start another.
* Objects and handles of LLCache: two handles on one object is the least at which
  a callback for one can damage the other; two objects for a revalidation or a
  redirect. `MaxLen` (chunks of data) is 1: the data of an object is none, or
  some that a user may not have yet. `MaxCount` bounds the candidate
  count, `FetchAttempts` 2 allows one retry, `RedirectLimit` 1 two redirects in a
  chain before the error. `SYMMETRY` is used in safety runs only; identities are
  interchangeable there.
* Each LLCache run enables the client calls, messages and callback results of
  one question (`Calls`, `Messages`, `Results`, `Headers`): all of them together
  are beyond TLC, and between them the runs take every action.
* BackingStore: with one block per file a second element goes to a file of its own,
  so both kinds of storage, exhaustion and reuse of a block occur. `Limit` 3 and
  `Hysteresis` 1 make a fourth unit evict one entry or more, on loan or not. Two versions
  let an older element meet a newer one; `MaxStarts` 1 is one restart, clean or
  after a kill. URLs and objects are interchangeable (`SYMMETRY`).
* HLCache: two handles on one object are the least for sharing, catching up,
  cloning, and a broadcast with a next user. Each handle is one retrieval.
* PollFetch: two fetches of one fetcher and one of another are the least at which one ring
  can be refilled while the other waits; `Reuse = TRUE`, so for ever.
* HtmlLoad: `refreshed` and `timers` bound each frame to one refresh, its own or one inside it, and each script to
  one later run; both start the count again after it was zero.
* BrowserWindow: `MaxCalls` counts what the user and the timer do; the messages of a
  load are not bounded but by it, since one call starts one load and each error one more query page.
  Four calls are enough to leave a page, fail, answer the query and supersede the
  answer; five (2.2 million states) show nothing else. The window never needs a third handle.
* Schedule: `MaxTime` stops the clock. Relative times up to 2 on a clock up to 3
  let an entry be due before, at and after any other.

## 5. Fairness

* The main loop never stops calling what is due (`drawui_run`; `RunComesToEnd` of
  Schedule shows that a call of `schedule_run` ends): weak fairness of `FetcherPoll`,
  `CatchUp`, and of every step inside a call that has been made. Where a client
  may act between any two steps (`LLLive`, `BusyCurlSpec`) strong fairness says
  that the main loop gets its turn although its guard is false inside callbacks.
* A callback returns: weak fairness of the return steps. A loop in the code that
  is finite in the program but may repeat in the model (headers of a reply, chunks
  of a body) must end: strong fairness of `HeadersSent`, `BodyEnds`,
  `PerformReturns`.
* A transfer completes: libcurl bounds each by a time (`curl.c` sets
  CURLOPT_CONNECTTIMEOUT and a low speed limit), so `Completes` and the end of a
  fetch in LLCache are strongly fair. `llcache_fetch_callback` aborts a fetch that was
  redirected or not modified before it returns: `OwedAbort`, `LlcacheAborts`.
* HLCache and HtmlLoad: every fetch ends, a handler that converts late does so in
  the end (box conversion runs from the scheduler), and jobs begun go on: weak
  fairness of `Work`, of the events of each handle and content, of `FetchEnds`,
  `ProcessModified`, `BoxDone`. No client has to do anything. `LoadEnds` leaves out
  documents that a script changes after the layout has begun (`late`, see HtmlStuck), and
  is checked without mishaps. A refresh that is due is not fair: the frame may go first.
* PollFetch: `fetcher_poll` and every callback return, weak fairness of `System`. It says
  nothing of a fetcher whose ring is refilled for ever, which `EveryFetchEnds` names.
* BrowserWindow: a load that was begun goes on until it ends, which is
  `EveryHandleEnds` of HLCache: weak fairness of `LoadStep`. What the user does is not
  fair, and at most `MaxCalls` long.
* Nothing is assumed of the client otherwise: it may never start, release or abort
  anything, or do so for ever. `Clean` is never fair: no promise rests on it, but `LoadEnds`, which needs the timer of `hlcache_clean` for a document its client has let go.

## 6. Proofs

Checked by TLAPS, each for every value of the constants of its module:

| module | theorem | says |
|---|---|---|
| FetchProofs | `TypeCorrect` | `Spec => []TypeOK` |
| | `RingsConsistent` | `Spec => []RingsAgree` |
| | `LimitsHold` | `Spec => []Limits` |
| | `NothingForgotten` | if no fetcher refuses a start for lack of resources, `Spec => []NoneForgotten` |
| | `QueueIsFair` | `Spec => FifoPerHost` |
| CurlFetchProofs | `CurlImplementsFetch` | `CurlSpec => ImplementsFetch`: each step of curl.c over the factory is a step of Fetch or a stutter |
| | `CurlTypeCorrect` | `CurlSpec => []CurlTypeOK` |
| | `HandlesFollowRings` | whatever the client does, the parts of `HandlesAgree` that do not depend on it |
| | `HandlesAlwaysAgree` | if no client aborts in the certificate callback, `CurlSpec => []HandlesAgree` |
| | `AnsweredOnce` | for the same clients, `CurlSpec => OneCompletion` |
| | `NothingLeftUnsaid` | for the same clients, `fetch_free` has no error left to report |
| PollFetchProofs | `PollTypeCorrect` | `PollSpec => []PollTypeOK` |
| | `NoStaleHandle` | `PollSpec => []HeldIsAttached` |
| | `ClientToldOnce` | `PollSpec => ToldOnce` |
| Plan9Proofs | `ScheduleTypeCorrect` | `ScheduleSpec => []ScheduleTypeOK` |
| | `OnceScheduled` | `ScheduleSpec => []ScheduledOnce` |
| | `WalkIsSound` | `ScheduleSpec => []WalkSound` |
| | `NothingDueIsMissed` | `ScheduleSpec => NothingMissed` |
| | `WebfsInvariance` | `WebfsSpec => []WebfsIInv`, the invariant below |
| | `HeldAreLive` | `WebfsSpec => []HeldIsLive` |
| | `CompletedOnce` | for clients that abort neither a queued fetch nor one whose headers are being sent, `WebfsSpec => OneCompletion` |
| LLCacheProofs | `InvariantHolds` | `Spec => []IInv`, the invariant below |
| | `TypesCorrect` | `Spec => []TypeOK` |
| | `ListsAlwaysAgree` | `Spec => []ListsAgree` |
| | `IteratorsAlwaysValid` | `Spec => []IteratorsValid` |
| | `CandidatesAlwaysCounted` | `Spec => []CandidatesCounted` |
| | `OnlyHeldAreCalled` | `Spec => CalledWhileHeld` |
| | `FetchesMatchStates` | if a fetch that is tried again always starts (`RetriesStart`), `Spec => []FetchIffIncomplete` |
| | `NoWakeUpIsLost` | under `NoGaps`, `Spec => []CaughtUp` |
| | `ReplaysAreKept` | if no certificates are sent, `Spec => ReplayKept` |
| | `OnlyWholeAnswers` | under `WholeAnswers`, `Spec => []DoneIsWhole` |
| HLCacheProofs | `BaseAlways` | `Spec => []Base`, the types and the invariant below |
| | `UsersAlwaysAgree` | `Spec => []UsersAgree` |
| | `OwnedAlwaysOnce` | `Spec => []OwnedOnce` |
| | `TalkAlways` | `Spec => [](Base /\ Talk)`, with the second half of the invariant |
| | `MessagesAlwaysInOrder` | `Spec => []MessageOrder` |
| | `IteratorsAlwaysValid` | `Careful /\ Spec => []IteratorsValid` |
| | `UsersAlwaysTold` | `~Silent /\ Spec => []UsersToldOfEnd` |
| | `AssertionsHold` | `Spec => []Asserted` |
| ContentProofs | `CountIsExact` | if no frame is refreshed before its page is READY, and no nested one while the frame around it is counted, `Spec => []ActiveExact` |
| | `CountCovers` | if no frame is refreshed before its page is READY, `Spec => []ActiveCovers` |
| | `ReadyIsWhole` | under the same, `Spec => []WholeWhenReady` |
| | `ScriptsInOrder` | under the same, `Spec => ScriptOrder` |
| | `AccountsStayExact` | `StoreSpec => []AccountsExact` |
| | `StoreImplementsContract` | `StoreSpec => ImplementsContract`, if `OneName`, `SteadySize` and no write to disc fails |
| | `StoresOneVersion` | `StoreSpec => []SameVersion`, if `OneName`, `SteadySize` and `NoLostWrites` |
| | `LoansAreKept` | `StoreSpec => []LoansMatch`, if `NoLostWrites` |
| BrowserWindowProofs | `SlotsAlwaysHold` | `~Rush /\ ~StaleAnswers => (Spec => []SlotsHold)` |
| | `PendingAlwaysFinds` | under the same, `Spec => []PendingFindsPage` |
| | `HistoryIsTree` | under the same, the links of the local history form one tree |

**What is assumed.** The named assumptions of the modules, which TLC evaluates on each
run: that the constants have the types their comments give, that `None` is not one of
the things it stands beside, that limits are positive (`HostAssumption`, `LimitAssumption` and
`FlagAssumption` of Fetch, `RepliesAssumption` of PollFetch, `NamesAssumption`,
`BoundsAssumption`, `KindsAssumption` and `FiniteAssumption` (there are finitely many
objects) of LLCache, `HLCacheAssumption`, `HtmlLoadAssumption`, `PagesAssumption` and
`HandlesAssumption` of BrowserWindow, and so on). Some theorems have a hypothesis besides, each of which leaves out what
a finding of section 7 shows to break the property: `"CERTS" \notin AbortsIn`
(CurlDouble), `~AbortsQueued` and `"HEADER" \notin AbortsIn` (WebfsQueued, WebfsHeader), `~StartMayFail` (CurlRetry), `RetriesStart` (LLRetry, LLStuck),
`"early" \notin Mishaps` (HtmlRefresh), `"overlap" \notin Mishaps` (HtmlNested), `~Rush` and `~StaleAnswers` (WindowRush, WindowLogin),
`~Silent` (HLSilent), and
`Careful` (HLCatchUp, HLNext): a client releases none but its own handle, and not when told
LOADING or READY, when it may still be catching up.
`RetriesStart` says: where allocations may fail, no fetch times out, asks for
authentication or fails in TLS. `NoGaps` leaves out what opens a gap between the catch up loops and
the users: a clone, which is put in front of the loop (LLClone); a late stream, which moves the object
the loop stands at to the other list; an error returned to the loop, which leaves the object at once; and a
request for a replay by a handle that has been released or aborted, which does the same (LLDefer).
`ReplaysAreKept` has `"CERTS" \notin Messages` (LLCerts). `WholeAnswers` leaves out the ways in which an
object ends without the whole of one answer and its users are not told: an allocation or a callback
that fails, for then the end of the callback completes the object and sends nothing; a timeout that is tried again
(LLTimeout); a target that cannot be followed (LLNowhere); an answer marked no-cache where objects are
revalidated, because it makes an object whose fetch still runs the candidate of another (LLChain), and a server that
answers `not modified' unasked; and the clone of a handle that is about to be told of an error. For the store, `OneName` says that different URLs have
different file names (StoreCollide), `SteadySize` that the versions of a page all fit a
block or none does (StoreSpill), and `NoLostWrites` that writes to disc succeed and that
there is memory for what is read back (StoreWrite, StoreDangle, StoreMemory).

**Fetch.** `RingsAgree` is inductive with `TypeOK`. It is restated by the place in the
queue (`RingsByPlace`), because what a removal does to a sequence
(`WithoutProperties`, `WithoutDistinct`, `RemoveKeepsRings`) is a statement about
places. `Limits` alone is not inductive: a cardinality says something only of a finite
set. `FiniteLimits` adds that `fetch_ring` is finite; one step adds at most one
member, and only below both limits (`DispatchWithinLimits`), every other step
keeps or shrinks the ring (`FewerWithinLimits`). `NoneForgotten` speaks of the
moments when nothing of the factory is on the stack; `TimerInv` says what holds in
between: while there is work, the timer is set, or the call that will set it is on
the stack; `fetch_fdset` polls with the timer set; a dispatch on behalf of a poll
excludes polling. The step that needs an argument is the end of a dispatch that
leaves nothing active: then the head of the queue would have had room, so the queue
is empty (`IdleLoopEmptiesQueue`). That is where a refused start would break it.

**CurlFetch, PollFetch.** The refinement maps each variable of Fetch to itself, so it says that the
guards of Fetch's actions follow from what the fetcher knows: `CurlBase` and `PollTypes` with
`Contexts` say which fetch the code has in its hands (`cur`, `cb`) at each stage, and that it is on the
ring Fetch wants. By it the theorems about Fetch hold of both fetchers. What clients
are told needs more: `CurlInv` follows each fetch through `fetch_curl_done` (halt, certs,
final, free) with the rank of its last message; `PollInv` says that no message of `say` but the last
ends the fetch, that a pointer a client holds is to a fetch that was told no end, and that it is on
a ring unless it is the context whose reply has stopped short: between `Finish` and `Report`, when
the client is not running. That a reply need not end is what `Report` is for: `Release` is
enabled only after the report, by the guard of `fetch_free`.

**Schedule.** `ScheduleIInv` is `ScheduleTypeOK`, `ScheduledOnce` and `WalkInv`: the cursor of
`schedule_run` is in the list or just behind it, no entry before it is due, and the
least time seen is the time of one of them. It has to be kept by whatever a callback
does to the list, before, at and behind the cursor. `NothingMissed` follows at the step that
ends the walk.

**WebfsFetch.** It does not implement Fetch, so nothing proved of Fetch is had for nothing. `WebfsIInv`
takes the stack of calls apart by depth: `Frames` says of each running `fetch_dispatch_jobs`
what its locals are worth while clients act above it (the fetch it is starting is allocated, on neither ring
and, until it is opened, not listed), `FramesApart` that no two of them start the same fetch or hand out the
same one, `Listing` that the list of webfs holds fetches that are allocated and not queued, each once; `Pointers` is `HeldIsLive`, strengthened by the state of the
fetch, and `Judging` what the poll knows of the one it looks at. It is unconditional: the clients may
abort and start whatever they like in any callback. `OneCompletion` needs `Completing` besides: whatever is
still to be answered (`Needs`: queued, being opened, on the list, or about to be finished) has been told no end
and was not aborted (`Owed`). An abort of a queued fetch, or one in the header callback, breaks exactly that.

**LLCache.** `ListsAgree` and `IteratorsValid` are not inductive, neither alone nor
together. `IInv` has five parts. `ObjectsHold`: a free object is as `calloc` left it, none is
its own candidate, and a candidate's count is at least the number of objects that point to
it; it is what keeps `llcache_clean` from freeing a candidate, and it has to be an inequality
because of LLLeak. `ListsHold`: the three lists of objects. `UsersHold`: each user list
without repetition and its members the handles that name its object; a handle names an object
exactly while it is held or queued. `RunHolds` is what re-entrancy costs: which loop runs, that
its object exists and its record is in its list; that *only* the record whose client is
being called may be queued for deletion or be a husk, so that between two events the lists hold
nothing but live handles (`Quiet`); and that an object whose redirect is being told has
ended and has no lifetime, so that the target which takes over its users is another object.
Every call a client may make inside an event has a lemma, once for the record that is being called and
once for another. The three helpers on lists (`TakenOut`, `Backwards`, `After`) are given by places;
that `TakenOut` keeps the rest of a list, in order, needs the rank of a place (`Ranked`) and so
induction, which is had without the library's theorem: a set of naturals with 0 that contains the
successor of each of its members is `Nat`, by its least non-member (`Counting`).
`CandidatesCounted` compares cardinalities; each step changes the set of those that point to an
object by at most one element. `FetchIffIncomplete` is inductive with `IInv`.
`CalledWhileHeld` follows from `IInv` in the next state, once it is known that nothing is queued when
a call begins (`NewCall`): whatever was queued in the last call is out of the list by then.
`CaughtUp` speaks of the moments when nothing runs and nothing is scheduled; `Reaches` says what holds while
the two loops run: unless a catch up is scheduled, each user that lags is one they still come to, in the list
of the object they stand at from the current record on (`Coming`), or of an object they have not reached
(`Ahead`); and what they have read of the object (`seen`) is still its state. Client calls in a callback
change both lists; they keep the order of what stays (`OrderKept`, `OrderPushed`, `OrderSwapped`), put new
objects in front but then schedule a catch up, and leave nobody behind. The loop leaves a user only when it has no more to
be told (`NothingReaches`), or after NEED_DATA, with a catch up scheduled (`ReturnReaches`).
`ReplayKept` is about one step, but the data a callback asks for again must still be there: `Replays` says that
what a user had before the event is less than the object has, as long as that user's client is being called.
`DoneIsWhole` relates what a client is told to the history of the object. `RecordsSound` says of each object
that its body is never a mixture, that an object which has ended without the whole of an answer
is neither fresh nor has a validator, so that it is given to no new handle and revalidated by none, and that an object
which may be answered with `not modified' has a candidate that is the whole of an answer. The records are
followed through every message and call (`HeaderRecords` to `RetrievedRecords`, `CallRecords`), with one
question for each: does a candidate stay whole (`Lasts`), and has what begins to wait a good one (`Fares`)?
`Served` says whom an object does not have an answer for: nobody, but for handles that were told of an error or
aborted, and those the loop of the event ERROR or REDIRECT still comes to (`Owed`, with `Coming`).
`FetchIffIncomplete` was found not to hold as it stood: the step of an authentication retry
whose fetch cannot be started could not be proved, and TLC then showed why (LLStuck).

**HLCache.** `OwnedOnce` counts owners and `UsersAgree` places; neither is inductive, nor can
a step be reasoned about through counting. `Base` says the same without numbers: `Sharing` (each
user list and the content list without repetition, their members those whose
records point there, a content that exists has the low-level handle it is named for),
`Owned` (what is held is what waits in a context, or exists as a content, or is
downloaded, and no two of these), and what they rest on: `Stack` (a
migration's end is the last of the jobs and still has its context; the jobs of a content are of one that
exists) and `Fresh` (a context that waits has its handle's own low-level
handle and no content yet; the handle of a clone is unused until its user is aborted). `Stack` is what
re-entrancy costs: a callback may release any handle while jobs for it are left, and `hlcache_clean`
must not run then. Unlinking users and cleaning the list rest on `WithoutProperties`: what is left of a list, in
order and complete. It is proved without induction: places are counted, and the
first place with a given count is the least element of a set of naturals.
Both theorems hold for any `Whose`, `ReleaseOn` and `Silent`: the findings HLCatchUp, HLNext and
HLSilent never break ownership.

`MessageOrder` says nothing of the contents, so it is not inductive either. `Talk` adds what
ties the messages to them: `Settled`, that a user has heard what the status of its
content promises (`Knows`), and a handle without a type nothing; `Fed`, that a content is `LOADING` and
unlocked as long as its low-level handle has not ended; and `Mode`, what the jobs are in the middle of,
for which alone `Settled` may fail: a handle that catches up (`Joining`) and what it has still to
hear, one that gets no content (`Dismissing`), or a content (`Serving`) that converts (`Turning`),
tells its users (`Casting`: those before the saved next user have heard the message, by their place in the
list, the others not, `Halfway`) or has failed (`Spoiling`). That a callback may unlink any
user in the middle of the walk is `HalfwayLeft`; that the walk goes on with the next is `HalfwayNext`.
The last mode is `Stuck`: a client that is not `Careful` has released the handle that is to be told, or the
saved next user. The code then reads freed memory, and the model has no step; so for such clients
`MessagesAlwaysInOrder` is about what they hear until then, and for the others, who never come there,
`IteratorsAlwaysValid` follows from `Mode`. So does `UsersAlwaysTold`: when no job is left every handle
is `Settled`, and only a handler that fails without a message leaves a user of a failed content
behind. The assertions of the contents need one more part, `Locks`: a content is locked only while it is
`LOADING`, and it is locked whenever it is about to be made ready. It rests on `Fed` where a
low-level handle fails, and on `Mode` where a content is done.

**HtmlLoad.** `Sound` has four parts, and no one of them is inductive without the others: `Count` (the
counter is at least the number of what is waited for, `Waits`, and equal to it unless refreshes `Overlap`), `Parser` (what the parser has met, and
what it has paused for), `Layout` (when the conversion has begun, and what it then
still waits for) and `Whole` (what READY and DONE include). Each C function is an
operator on pages, and each has its lemma.

**BackingStore.** Four theorems, each on the invariant of the one before.
`AccountsExact` is about a total over a set, which is a fold. What a fold does when a member is added
(`TotalOfOneMore`, `TotalOfRest`) is had without the induction theorem: on a finite set it is a function on the
subsets of it (`TotalIsIteration`), shown to exist and to be the only one by the size of the
least counterexample. The rest is what each C function does to the accounts, stated as two relations between
states of the store: `Shrinks` (entries go or are marked: `invalidate_entry`, `store_evict`)
and `Softens` (loans come and go besides), both transitive, so that a step of the cache that calls the store
several times is one `Softens`; only `PersistData` and `PersistMeta` put something in (`IsPut`).
`Accounting` adds `Filed`: with no dirty flag set the control files say what the store holds,
and while they are replaced the new one does; this is what makes a restart harmless.
`Contracting` adds, until a kill, that no two entries share a block (`NoShare`), that blocks are large enough for
what they hold (`Fits`), and that memory on loan has the content of its place on disc (`Honest`);
then no step changes what another key returns but to nothing (`Fades`), which is the contract.
`Versioned` adds that metadata is on loan only inside a call (`MetaReleased`), so that neither of the
two stores can be refused for a loan, and that what both elements hold on disc is one version, but for the URL being
written (`Matched`). `Lending` is what `LoansMatch` needs. An object that uses data it does not own must not
lose them to another object of its URL, and the store counts loans by URL only. So objects of one URL are ordered by
time (`ObjectsOrdered`): only the newest is fresh, a candidate is the newest but for the fetch that
revalidates it, and once an object is on disc no older one has a loan; then the count of a URL is the number of those that
borrow (`LoansCounted`, with cardinalities). What is on disc is not newer than any version fetched (`Recent`), and
an entry that was marked invalid is on loan (`Marked`), also in the file taken up by the next start.

**BrowserWindow.** `Sound` is `Good`, for an open window, or `Closed`. `Good` contains
`Slots`, what the assertions of the content callback rely on (which handle may be in which
state in which slot), `Asked`, what a query page and the timer need of the parameters of the
page, and `Tree`: in the order of their creation an entry's `back` is earlier and its
`pref` later, so that no chain of either comes round.

**Only model-checked**, and why:

* All liveness, and `ENABLED`: out of the prover's reach.
* Nothing else: every invariant and every action property that a run checks is stated by a theorem. Those that
  need a hypothesis are checked by TLC on instances that satisfy it.

## 7. Findings

What the code does against what its own comments, headers or messages say, met
while modelling, each with a property that TLC refutes. Each is shown by a
configuration `MC<name>.cfg`
for the MC module of its model (MCCurlFetch3 for CurlStarve), or, where an
instance is named, by that configuration with the changes given, with the one
property of the finding in the place of its own and `CHECK_DEADLOCK FALSE`. TLC
prints the counterexample in seconds.

* **CurlCerts** (`NoCertsAfterAbort`, `content/fetchers/curl.c:1601`): fetch_curl_done reports the certificate chain of a fetch before it looks at abort_fetch, so a client that aborted the fetch (and may have freed its private data) is called back; the comment at content/fetchers/curl.c:1605 says "fetch was aborted: no callback". *Instance:* MCCurlFetch with `Replies = {"ok"}`.
* **CurlReply** (`NoReplyAfterAbort`, `content/fetchers/curl.c:1573`): for CURLE_PARTIAL_FILE fetch_curl_done calls fetch_curl_process_headers without testing abort_fetch, so a redirect, an authentication request or an error reaches the client of an aborted fetch; content/fetchers/curl.c:1605 says "fetch was aborted: no callback". *Instance:* MCCurlFetch with `Replies = {"redirect"}`.
* **CurlDouble** (`NotCorrupt`, `content/fetchers/curl.c:1426`): a fetch_abort from the certificate callback that fetch_curl_done makes after fetch_curl_stop finds no curl_handle, removes the fetch from a ring it has left and frees it while fetch_curl_done still uses it; content/fetch.h:141-142 promises a struct "which can be passed to fetch_abort() to abort the fetch at any time". *Instance:* MCCurlFetch with `Replies = {"ok"}`, `AbortsIn = {"CERTS"}`.
* **CurlRetry** (`QueuedIsServed`, `content/fetch.c:523`): when the start of the only fetch is refused, fetch_dispatch_jobs returns false and fetcher_poll is not scheduled, so without fetch_fdset nothing tries again; content/fetchers/curl.c:1286 says "cURL handle maybe went bad, retry later". *Instance:* MCCurlFetch with `UsesFdset = FALSE`, `StartMayFail = TRUE`, `Replies = {"ok"}`, `AbortsIn = {}`, `FairCurlSpec`.
* **CurlStarve** (`QueuedIsServed`, `content/fetch.c:157`): a refusal inside a callback moves the oldest queued fetch behind the one just started, so a client that starts a fetch from each completion starves it for ever; content/fetch.h:138-139 says "The fetch may be queued for later processing."
* **WebfsQueued** (`SilentAfterAbort`, `frontends/plan9/webfs.c:324`): webfs_abort only sets f->state, and webfs_start overwrites it when the queued fetch's turn comes, so an aborted fetch is carried out and calls its former client; content/fetch.h:141-142 promises a struct "which can be passed to fetch_abort() to abort the fetch at any time".
* **WebfsHeader** (`SilentAfterAbort`, `frontends/plan9/webfs.c:372`): after send_headers webfs_start sets the state to Sstarted although a header callback may have aborted the fetch, and the poll then reports the read of the closed descriptor as the end of the body to a client that aborted; content/fetch.h:141-142 promises a struct "which can be passed to fetch_abort() to abort the fetch at any time". *Instance:* MCWebfsQueued with `AbortsQueued = FALSE`, `AbortsIn = {"HEADER"}`.
* **WebfsLeak** (`EveryFetchEnds`, `frontends/plan9/webfs.c:337`): when the connection cannot be had or the request not sent webfs_start returns true without listing the fetch: it holds a slot for ever and is never polled, reported or freed; content/fetchers.h:44 says "after completion or abort it is freed" and content/fetch.h:149-152 that FETCH_ERROR indicates an error occurred. *Instance:* MCWebfsQueued with `AbortsQueued = FALSE`, `Starts = {"body", "noconn"}`, `FairWebfsSpec`.
* **WebfsRead** (`FinishedIsWhole`, `frontends/plan9/webfs.c:426`): webfs_read tests n < 0, the count of bytes so far, where the result of the failed read is in r, so the branch that sends FETCH_ERROR is dead and a failed read is FETCH_FINISHED; the branch's own message at frontends/plan9/webfs.c:428 is "webfs read error [%s]: %s". *Instance:* MCWebfsQueued with `AbortsQueued = FALSE`, `ReadErrors = TRUE`.
* **WebfsEarly** (`NotEarly`, `frontends/plan9/webfs.c:332`): when /mnt/web/clone cannot be opened the error is sent from within start, before fetch_start has returned the pointer; the comment at frontends/plan9/webfs.c:301 says "message needs to be sent after start so we add the fetch to the fetch list". *Instance:* MCWebfsQueued with `AbortsQueued = FALSE`, `Starts = {"body", "noclone"}`.
* **PollStart** (`StartedBeforePolled`, `content/fetchers/data.c:121`): setup puts the context on the ring that poll works through, so a fetch the factory still holds back in its queue is polled, answered and freed without ever being started, outside max_fetchers; content/fetchers.h:43 says "start is called before the first poll". *Instance:* MCPollFetch.
* **PollStarve** (`NoneStarves`, `content/fetchers/data.c:250`): the poll works until its ring is empty, and a context that setup adds in a callback is taken in the same call; a client that starts another data: fetch whenever one is answered keeps fetcher_poll inside fetch_data_poll, so the fetches of all other fetchers, and the main loop, wait for ever; content/fetchers.h:41 says "The poll entry point will be called to allow all active fetches to progress." *Instance:* MCPollFetch.
* **LLLeak** (`CandidatesExact`, `content/llcache.c:3116`): FETCH_FINISHED without data leaves object->candidate set and llcache_object_destroy does not count it down, so the candidate keeps a count of an object that is gone and llcache_clean never discards it; content/llcache.c:192-193 says "Count of objects this is a candidate for". *Instance:* MCLLAbort with `Messages = {"FINISHED"}`, `Headers = {}`, `Calls = {"retrieve", "release"}`.
* **LLTimeout** (`DoneIsWhole`, `content/llcache.c:2735`): llcache_fetch_timeout refetches without emptying the source buffer, so the new answer is appended to the part of the old one and DONE delivers the mixture; content/llcache.h:71 says of the event "Finished fetching data", and content/llcache.c:2730-2731 "we would like to retry if we can". *Instance:* MCLLAbort with `Users = {u1}`, `Messages = {"DATA", "TIMEDOUT", "FINISHED"}`, `Headers = {}`, `Calls = {"retrieve"}`, `FetchAttempts = 2`.
* **LLChain** (`DoneIsWhole`, `content/llcache.c:2470`): an object whose revalidation is in flight can become the candidate of the next one; when it is not modified itself it ends COMPLETE and empty, and the users of the next one are moved to it and told DONE. content/llcache.c:189-191 calls the candidate the "Object to use, if fetch determines that it is still fresh".
* **LLNowhere** (`DoneIsWhole`, `content/llcache.c:2380`): a redirect that cannot be followed returns NSERROR_OK, so the object is COMPLETE and empty and its users are told DONE, never ERROR; the comment says "Bail out if we've no way of handling this URL" and content/llcache.h:71 "Finished fetching data". *Instance:* MCLLAbort with `Users = {u1}`, `Targets = {Nowhere}`, `Messages = {"REDIRECT"}`, `Headers = {}`, `Calls = {"retrieve"}`.
* **LLClone** (`CaughtUp`, `content/llcache.c:4090`): a clone made in a HAD_HEADERS callback starts in the state DATA with no byte delivered, at the head of the list behind the running iterator, and nothing schedules the catch up: it waits until some other message arrives. content/llcache.h:217-218 promises "a new handle to the same fetch/content". *Instance:* MCLLAbort with `Calls = {"retrieve", "clone"}`.
* **LLAbort** (`AbortInforms`, `content/llcache.c:4142`): llcache_handle_abort completes the object (or the snapshot) and schedules nothing: its client is told DONE only if something else triggers the catch up; content/llcache.h:227 says "Abort a low-level fetch, informing all users of this action."
* **LLDefer** (`CaughtUp`, `content/llcache.c:3414`): a client that releases its handle in the callback and returns an error makes llcache_object_notify_users return, so the object's other users are not served and nothing is scheduled; content/llcache.c:3683-3686 says "Assume after this we'll be all caught up.  If any user of a handle defers then we'll invalidate all_caught_up and reschedule". *Instance:* MCLLAbort with `Headers = {}`, `Calls = {"retrieve", "release"}`, `Results = {"OK", "NEED_DATA"}`.
* **LLCerts** (`ReplayKept`, `content/llcache.c:3419`): a client that asks for a replay of GOT_CERTS is put into the state HEADERS, past that event, and never given it again; the comment at content/llcache.c:3421-3422 says "we'll reemit the event next time round".
* **LLUncached** (`UncachedNoCandidate`, `content/llcache.c:4172`): llcache_handle_force_stream moves an object that serves as a candidate to the uncached list; content/llcache.c:3747 says "The candidate count of uncacheable objects is always 0". *Instance:* MCLLAbort with `Messages = {"HEADER"}`, `Headers = {"no-cache"}`, `Calls = {"retrieve", "force_stream"}`.
* **LLPurge** (`ObjectOutlivesPurge`, `content/llcache.c:3247`): when the last user releases its handle in the ERROR event and returns NSERROR_NOMEM, llcache_clean(true) destroys the object, and llcache_fetch_callback reads object->fetch.fetch after that; the comment above says "will not help this fetch, but may allow the UI to report errors etc." (content/llcache.c:3243-3245).
* **LLRetry** (`FetchIffIncomplete`, `content/llcache.c:2735`): when llcache_object_refetch fails after a timeout, object->fetch.fetch still points to the fetch that the fetcher has cleaned up, and llcache_fetch_callback passes it to fetch_abort; content/llcache.c:2730 says "The fetch has already been cleaned up by the fetcher". *Instance:* MCLLAbort with `Messages = {"TIMEDOUT", "FINISHED"}`, `Headers = {}`, `Calls = {"retrieve", "release"}`, `FetchAttempts = 2`, `NoMemory = TRUE`.
* **LLStuck** (`FetchIffIncomplete`, `content/llcache.c:3250`): llcache_fetch_auth and llcache_fetch_ssl_error set object->fetch.fetch to NULL before llcache_object_refetch, which sets the state to INIT; when fetch_start then fails, llcache_fetch_callback completes the object only if object->fetch.fetch is not NULL, so the object stays incomplete without a fetch: its users wait for ever, and new ones are sent to it as if it were fresh. content/llcache.c:3240 says of this branch "Deal with any errors reported by event handlers". *Instance:* MCLLAbort with `Messages = {"HEADER", "AUTH", "FINISHED"}`, `Calls = {"retrieve"}`, `NoMemory = TRUE`.
* **WebfsRoom** (`ChooseHasRoom`, `content/fetch.c:247`): when webfs_start reports its error from within the start, the client may start another fetch, and the nested fetch_dispatch_jobs takes the queue and the free slots; the outer loop goes on with the counts it took before, so fetch_choose_and_dispatch runs with an empty queue_ring (it dereferences NULL) or beyond max_fetchers; its comment at content/fetch.c:170-171 says "We don't check the overall dispatch size here because we're not called unless there is room in the fetch queue for us.". *Instance:* MCWebfsQueued with `AbortsQueued = FALSE`, `Starts = {"body", "noclone"}`, `Reuse = TRUE`, three fetches (`MCFetches3`, `MCHost3`).
* **StoreCrash** (`ServedOwn`, `content/fs_backing_store.c:883`): the entries file is rewritten at most every ten seconds, blocks at once; a program that is killed after a block was freed and given to another URL starts with the old entry, whose block holds the other's data (the metadata, which would tell them apart, is in a block file of its own); content/backing_store.h:74 says "The url is used as the unique primary key for the data."
* **StoreSpill** (`ServedOwn`, `content/fs_backing_store.c:1031`): an element stored again keeps its block although the new data does not fit it, and is written over the blocks behind, which belong to other URLs; content/backing_store.h:74 calls the URL "the unique primary key for the data"
* **StoreCollide** (`ServedOwn`, `content/fs_backing_store.c:1046`): two URLs of one hash share the names of their files, so that each returns what was stored last under either; content/backing_store.h:74 calls the URL "the unique primary key for the data"
* **StoreWrite** (`SameVersion`, `content/fs_backing_store.c:1700`): a write that fails after set_store_entry leaves the entry in place, with the old data on disc, and llcache does not invalidate it: new metadata may later be read with an old body
* **StoreDangle** (`LoansMatch`, `content/fs_backing_store.c:1710`): a store whose write fails keeps its pointer to the memory it was handed, with a reference nobody releases, while llcache keeps the memory as its own and frees it; content/backing_store.h:66-69 says that the store takes a reference and the caller releases it. *Instance:* MCStoreWrite.
* **StoreMemory** (`LoansMatch`, `content/llcache.c:2871`): when there is no memory for the metadata the entry is invalidated, but its data, on loan since the first store, is never released; content/backing_store.h:117 says of invalidate "If the entry had data allocated it will be released.". *Instance:* MCStoreWrite with `Faults = {"memory"}`.
* **HLCatchUp** (`IteratorsValid`, `content/hlcache.c:308`): hlcache_find_content looks at ctx->handle->cb after each message; a client that releases its handle in the LOADING message has it freed, and the look is into freed memory (hlcache_handle_release sets cb to NULL and then frees the handle). *Instance:* MCHLCache with `ReleaseOn = {"LOADING", "ERROR"}`.
* **HLNext** (`IteratorsValid`, `content/content.c:760`): content_broadcast reads the next user before a callback, as its comment says "user may be destroyed during callback"; a callback that releases another handle of the content, the next one, leaves it with a freed user. *Instance:* MCHLCache with `Whose = "any"`.
* **HtmlStuck** (`ReadyIsFetching`, `content/handlers/html/html.c:772`): a script inserted while the layout is built may arrive after the document became READY; when it is the last fetch its callback calls html_begin_conversion, which returns early as the layout exists, and nothing calls html_proceed_to_done: the document stays READY with nothing being fetched; content/handlers/html/html.c:772-774 says "CONTENT_STATUS_READY if objects are still being fetched". *Instance:* MCHtmlLoad.
* **HtmlRoot** (`ErrorIsFinal`, `content/handlers/html/css.c:140`): the callbacks of stylesheets and scripts ignore that html_begin_conversion has failed; the client was sent an ERROR but the content stays LOADING, so that hlcache_clean never destroys it; content/content.c:64-65 says "The content will soon be destroyed and must no longer be used.". *Instance:* MCHtmlLoad with `Mishaps = {"badroot"}`.
* **HtmlRefresh** (`WholeWhenReady`, `content/handlers/html/object.c:566`): html_replace_object sets the status of every page around a refreshed frame to READY, also of one that is still LOADING and has no layout. *Instance:* MCHtmlLoad with `Mishaps = {"early"}`.
* **HtmlNested** (`ActiveExact`, `content/handlers/html/object.c:562`): html_replace_object counts one more fetch in every document around a nested frame, also in one that counts the frame in between already; that frame becomes DONE once, so the outer count never falls to zero again and the document is never DONE; content/handlers/html/html.c:772-773 says "CONTENT_STATUS_DONE if the document is completely loaded". *Instance:* MCHtmlLoad with `Mishaps = {"overlap"}`.
* **HtmlLost** (`LoadEnds`, `content/handlers/html/object.c:559`): a refresh whose hlcache_handle_retrieve fails has lowered the count and let the content go already; nothing calls html_proceed_to_done, so a document that waited for nothing else stays READY with a count of zero; content/handlers/html/object.c:592 has "\todo handle memory exhaustion". *Instance:* MCHtmlLoad with `Mishaps = {"lost"}`.
* **HtmlEmptied** (`LoadEnds`, `content/handlers/html/css.c:163`): a style element whose text is gone is no error and no fetch; its mark is cleared, and as html_can_begin_conversion was false while it was set and no callback will come, a document that waited for nothing else stays LOADING. *Instance:* MCHtmlLoad with `Mishaps = {"emptied"}`.
* **HtmlTimer** (`TimerHasFrame`, `content/handlers/html/object.c:580`): html_object_abort_objects and an ERROR let go of the content of a frame without cancelling its refresh (html_object_free_objects and html_object_close_objects cancel it); when the timer fires html_object_refresh meets assert(content_get_type(object->content) == CONTENT_HTML) with no content. *Instance:* MCHtmlLoad.
* **HLSilent** (`UsersToldOfEnd`, `content/handlers/image/webp.c:194`): webp_convert (and ico_convert, content/handlers/image/ico.c:165) returns false without a message; content_convert puts the content into the error state, no user hears of it, and each waits for ever; content/content.c:64-65 says "If the conversion fails, CONTENT_MSG_ERROR is sent. The content will soon be destroyed and must no longer be used."
* **WindowRush** (`SlotsHold`, `desktop/browser_history.c:524`): back from a query page that is still loading calls browser_window__reload_current_parameters without browser_window_stop: the handle of the query page is overwritten in loading_content, never released, and its next message meets assert(bw->loading_content == c) at desktop/browser_window.c:1498
* **WindowTitles** (`TitlesKept`, `desktop/browser_window.c:3357`): after a failed load the page shown is the query page, which has no entry; the next navigation writes its title and scroll position into the entry of the page before. In the same way browser_window_stop, called when history_go has moved on already, writes those of a page that was still loading objects into the entry that is gone to. desktop/browser_window.c:3345-3350 says "update the history entry before we navigate to save our current state. However since history navigation pre-moves the history state, we ensure that we only do this if we've not been suppressed"
* **WindowFrag** (`FragOfPage`, `desktop/browser_window.c:3418`): a navigation replaces frag_id before it loads anything; when it is stopped, fails or becomes a download the page that is still shown keeps the fragment of the other. desktop/browser_window.c:3929-3932 knows of the trampled fragment but drops it only while something loads. *Instance:* MCBrowserWindow.
* **WindowLogin** (`PendingFindsPage`, `desktop/browser_window.c:1104`): the login dialog of a front end (frontends/monkey/401login.c) keeps a pointer to the window and is not told of its end, nor of later navigations, after which loading_parameters.url is NULL in browser_window__navigate_internal. *Instance:* MCBrowserWindow with `StaleAnswers = TRUE`.

## 8. What is not modelled

Inside the modelled components:

* fetch.c: registration of fetchers, `fetch_change_callback`, multipart data,
  headers of a request, string forms of certificates.
* curl.c: option setting, authentication details, the certificate callbacks of
  OpenSSL, the wait inside a blocking poll. Allocation failures in setup leave
  nothing behind and are not actions.
  Of libcurl it is assumed that `curl_multi_perform` reports an error of the multi handle only
  when that handle has a transfer (`PerformFails`).
* data.c, file/, resource.c, about/: the text of a reply, the number of its headers and
  of its pieces of data (one of each), and of the ways in which it stops short the two that
  differ for the client: after part of the reply and before any of it.
* webfs.c: which header lines exist and what they hold; the text of errors.
  `send_request` falls off its end without a value on its success path: the
  result of `webfs_start` is then any outcome, and "noconn" among the outcomes
  covers it.
* llcache.c: the size of the cache and the eviction that goes by it are a choice;
  `llcache_persist_slowcheck` and the write-out budget (any object may be written at
  any time); HSTS, POST data, credentials, header
  parsing (a header is its kind: status, lifetime, no-cache, validator), the
  growth of the source buffer. A fetch is silent once it is aborted. An early
  allocation failure of a refetch is not modelled. A 304 in answer to the retry of a
  request with part of a body is LLTimeout's finding again and not enabled elsewhere.
* fs_backing_store.c: the format of the control files and their version check, file
  names, the use counts that order an eviction among entries of one rank, running
  out of memory in the middle of an eviction. Data is a version of a URL.
* hlcache.c and content.c: STATUS, REDIRECT and certificate messages, allocation
  failures of `content_add_user` and `content_clone`, the match of quirks mode in a
  search for a content to share, an abort of a shared content that is already DONE,
  `hlcache_handle_replace_callback`, reformatting, drawing, and reuse data.
* html: a change of encoding in the middle of the parse, allocation failures but those of style
  elements, inline scripts of the markup (they run at once; what they do to the document is what a
  synchronous script may do at its end), stylesheet links that a script inserts, frames deeper
  than one inside another (`Nested` is a refresh inside a frame of the document, and happens only
  while the client holds the document), forms,
  the choice between synchronous kinds of object (favicon, base).
* browser_window.c, browser_history.c: frames and iframes, the favicon, a second window
  (new tabs, clones), POST data and referrers, redirects of a page (they change
  the URL of a handle and nothing else), the verification of schemes and of certificates,
  `theme_install`, allocation failures, drawing, scrolling and input. Layout and picture of the
  history tree.
* schedule.c: `gettimeofday` never goes back; allocation failure of an entry.

Whole components that are not modelled are listed in `PROJECT.json` with the
reason. In short: layout, CSS selection, forms, text area and drawing are
numeric or textual and sequential; bindings to JavaScript, image decoding and
parsers are libraries; other frontends are not built by this fork.

## 9. Plan

Done: Fetch, CurlFetch, PollFetch, WebfsFetch, LLCache, StoreContract, FsStore,
BackingStore, HLCache, HtmlLoad, BrowserWindow, Schedule; FetchProofs,
CurlFetchProofs, PollFetchProofs, Plan9Proofs, LLCacheProofs, HLCacheProofs,
ContentProofs, BrowserWindowProofs. Every invariant and every action property that the runs check is a theorem.

What could follow:

1. An abstract `HandleStream` that says which sequences of messages a handle may
   get, implemented by HLCache and, below it, by LLCache.
2. The theorems without their hypotheses, should the situations that break them be repaired in the code.
