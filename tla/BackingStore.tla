---------------------------- MODULE BackingStore ----------------------------
(***************************************************************************)
(* The low-level cache on top of its backing store: how the objects of     *)
(* content/llcache.c go to disc and come back (llcache_persist,            *)
(* llcache_object_retrieve_from_cache, llcache_clean, llcache_finalise),   *)
(* the maintenance of the store's control files, and a program that ends   *)
(* or is killed and starts again.  Fetches and users are the part of an    *)
(* object that LLCache models; here a fetch ends in one step and a users   *)
(* list is a flag.                                                         *)
(***************************************************************************)
EXTENDS FsStore

CONSTANTS
    Objs,           \* objects of the cached list
    MaxStarts       \* bound of the model: starts of the program after the first

VARIABLES
    st,             \* the store, see FsStore
    saved,          \* the control files: entries and the use maps, empty when missing
    maint,          \* control_maintenance or finalise: files still to replace
    phase,          \* "up", "finalising", "closing" or "down"
    obj,            \* the objects in memory
    writing,        \* the object of write_backing_store, between its two stores
    version,        \* the last version of each URL a fetch was started for
    starts,
    last,           \* history: what was last stored, see StoreContract
    kept            \* history: whether the program was never killed

mem == <<obj, writing, version>>
disc == <<saved, maint, phase, starts, kept>>
storeVars == <<st, mem, disc, last>>

ASSUME ObjsAssumption ==
    /\ None \notin Objs /\ IsFiniteSet(Objs)
    /\ MaxStarts \in Nat /\ Versions \subseteq Nat \ {0}

Free == [url |-> None, ver |-> 0, at |-> 0, state |-> "free", data |-> "none",
         used |-> FALSE, fresh |-> FALSE, cand |-> None]

NoControlFiles == [entries |-> FreshStore.entries, used |-> FreshStore.used]

StoreInit ==
    /\ st = FreshStore
    /\ saved = NoControlFiles
    /\ maint = 0
    /\ phase = "up"
    /\ obj = [o \in Objs |-> Free]
    /\ writing = None
    /\ version = [u \in Urls |-> 0]
    /\ starts = 0
    /\ last = [k \in Keys |-> None]
    /\ kept = TRUE

\* Nothing is in the middle of a call.
Turn == phase = "up" /\ maint = 0 /\ writing = None

Listed(u) == {o \in Objs : obj[o].state # "free" /\ obj[o].url = u}
Candidates == {obj[o].cand : o \in Objs}
Content(o) == <<obj[o].url, obj[o].ver>>

\* The most recently fetched object of a URL; the order of the list decides a tie.
Newest(u) == {o \in Listed(u) : \A p \in Listed(u) : obj[p].at <= obj[o].at}

\* llcache_object_is_fresh: an object that is still fetched counts as fresh.
IsFresh(x) == x.fresh \/ x.state = "fetch"

FreeSlots == {o \in Objs : obj[o].state = "free"}

\* llcache_object_new with llcache_object_fetch.
NewFetch(u, cand) ==
    [Free EXCEPT !.url = u, !.ver = version[u] + 1, !.at = version[u] + 1,
                 !.state = "fetch", !.used = TRUE, !.cand = cand]

\* A fetch of u starts on object o, the other objects being obs.
StartFetch(u, o, obs, cand) ==
    /\ version[u] + 1 \in Versions
    /\ version' = [version EXCEPT ![u] = @ + 1]
    /\ obj' = [obs EXCEPT ![o] = NewFetch(u, cand)]

\* llcache_retrieve_persisted_data: the states it may leave and whether it succeeds.
LoadData(s, x) ==
    IF x.state # "disc" \/ x.data # "none"
    THEN {[st |-> s, x |-> x, ok |-> TRUE]}
    ELSE {[st |-> r.st, x |-> [x EXCEPT !.data = IF r.val = None THEN "none" ELSE "loan"],
           ok |-> r.val # None] : r \in Fetch(s, x.url, "data")}

\* llcache_object_retrieve_from_cache once object o, in state x, is the newest.
UseNewest(u, s, o, x) ==
    \E r \in LoadData(s, x) :
        /\ st' = r.st
        /\ \/ /\ r.ok /\ IsFresh(x)
              /\ obj' = [obj EXCEPT ![o] = [r.x EXCEPT !.used = TRUE]]
              /\ UNCHANGED version
           \/ /\ r.ok /\ ~IsFresh(x)
              /\ \E p \in FreeSlots \ {o} : StartFetch(u, p, [obj EXCEPT ![o] = r.x], o)
           \/ ~r.ok /\ StartFetch(u, o, obj, None)

\* A client retrieves a URL of which an object is in memory.
RetrieveKnown(u) ==
    /\ Turn
    /\ \E o \in Newest(u) : UseNewest(u, st, o, obj[o])
    /\ UNCHANGED <<writing, disc, last>>

\* The check of llcache_process_metadata on the first line of the metadata.
OwnMetadata(u, c) == c # None /\ c[1] = u

ReleasesRejected(u, r) ==
    IF r.val = None \/ OwnMetadata(u, r.val) THEN r.st ELSE ReleaseElement(r.st, u, "meta")

\* The metadata that was fetched is released once it is read.
Processed(u, r) == IF r.val = None THEN r.st ELSE ReleaseElement(r.st, u, "meta")

\* A client retrieves a URL of which none is: the metadata is looked for in the
\* store.
RetrieveUnknown(u) ==
    /\ Turn
    /\ Listed(u) = {}
    /\ \E o \in FreeSlots, r \in Fetch(st, u, "meta"), f \in BOOLEAN :
        \/ /\ OwnMetadata(u, r.val)
           /\ UseNewest(u, Processed(u, r), o,
                 [Free EXCEPT !.url = u, !.ver = r.val[2], !.at = r.val[2],
                              !.state = "disc", !.fresh = f])
        \/ /\ ~OwnMetadata(u, r.val)
           /\ st' = Processed(u, r)
           /\ StartFetch(u, o, obj, None)
    /\ UNCHANGED <<writing, disc, last>>

\* A fetch brings a whole new object, which may be cached for a while or not.
FetchFinishes(o) ==
    /\ Turn
    /\ obj[o].state = "fetch"
    /\ \E f \in BOOLEAN :
         obj' = [obj EXCEPT ![o] = [@ EXCEPT !.state = "ram", !.data = "own",
                                             !.fresh = f, !.cand = None]]
    /\ UNCHANGED <<st, writing, version, disc, last>>

\* llcache_fetch_notmodified: the users move to the candidate.
FetchNotModified(o) ==
    /\ Turn
    /\ obj[o].state = "fetch"
    /\ obj[o].cand # None
    /\ obj' = [p \in Objs |->
         IF p = o THEN [obj[o] EXCEPT !.state = "ram", !.at = 0, !.used = FALSE, !.cand = None]
         ELSE IF p = obj[o].cand
         THEN [obj[p] EXCEPT !.fresh = TRUE, !.at = obj[o].at, !.used = @ \/ obj[o].used]
         ELSE obj[p]]
    /\ UNCHANGED <<st, writing, version, disc, last>>

\* FETCH_ERROR: what was received must not be used again.
FetchFails(o) ==
    /\ Turn
    /\ obj[o].state = "fetch"
    /\ obj' = [obj EXCEPT ![o] = [@ EXCEPT !.state = "ram", !.at = 0, !.cand = None]]
    /\ UNCHANGED <<st, writing, version, disc, last>>

\* The last user of an object releases it.
Leave(o) ==
    /\ Turn
    /\ obj[o].used
    /\ obj' = [obj EXCEPT ![o].used = FALSE]
    /\ UNCHANGED <<st, writing, version, disc, last>>

\* Time passes: an object is no longer fresh.
Expire(o) ==
    /\ Turn
    /\ obj[o].fresh
    /\ obj' = [obj EXCEPT ![o].fresh = FALSE]
    /\ UNCHANGED <<st, writing, version, disc, last>>

-----------------------------------------------------------------------------
\* build_candidate_list.
Persistable(o) == obj[o].state = "ram" /\ obj[o].fresh /\ o \notin Candidates

\* write_backing_store, its first store.
PersistData(o) ==
    /\ Turn
    /\ Persistable(o)
    /\ \E r \in Store(st, obj[o].url, "data", Content(o)) :
         /\ st' = r.st
         /\ writing' = IF r.ok THEN o ELSE None
         /\ last' = IF r.ok THEN [last EXCEPT ![<<obj[o].url, "data">>] = Content(o)] ELSE last
    /\ UNCHANGED <<obj, version, disc>>

OnDiscNow(o) == [obj EXCEPT ![o] = [@ EXCEPT !.state = "disc", !.data = "loan"]]

\* How the second store, of the metadata, may end; there may be no memory to write
\* the metadata into.
MetaStores(o) ==
    {[st |-> ReleaseElement(r.st, obj[o].url, "meta"), ok |-> r.ok] :
        r \in Store(st, obj[o].url, "meta", Content(o))}
    \union (IF "memory" \in Faults THEN {[st |-> st, ok |-> FALSE]} ELSE {})

\* The second half follows at once; when it fails the entry is invalidated.
PersistMeta(o) ==
    /\ writing = o
    /\ \E r \in MetaStores(o) :
         IF r.ok
         THEN /\ st' = r.st
              /\ obj' = OnDiscNow(o)
              /\ last' = [last EXCEPT ![<<obj[o].url, "meta">>] = Content(o)]
         ELSE st' = Invalidate(r.st, obj[o].url) /\ UNCHANGED <<obj, last>>
    /\ writing' = None
    /\ UNCHANGED <<version, disc>>

-----------------------------------------------------------------------------
\* llcache_clean, the turns of its loops; how many there are depends on sizes.
Idle(o) == obj[o].state \in {"ram", "disc"} /\ ~obj[o].used /\ o \notin Candidates
Stale(o) == Idle(o) /\ ~obj[o].fresh
NoneStale == \A o \in Objs : ~Stale(o)

\* llcache_object_destroy, for the store.
Destroyed(s, x) == IF x.data = "loan" THEN ReleaseElement(s, x.url, "data") ELSE s

DiscardStale(o) ==
    /\ Turn
    /\ Stale(o)
    /\ st' = Destroyed(IF obj[o].state = "disc" THEN Invalidate(st, obj[o].url) ELSE st, obj[o])
    /\ obj' = [obj EXCEPT ![o] = Free]
    /\ UNCHANGED <<writing, version, disc, last>>

\* The data of a backed object, whether or not it is in memory.
ReleaseData(o) ==
    /\ Turn /\ NoneStale
    /\ Idle(o) /\ obj[o].state = "disc"
    /\ st' = ReleaseElement(st, obj[o].url, "data")
    /\ obj' = [obj EXCEPT ![o].data = "none"]
    /\ UNCHANGED <<writing, version, disc, last>>

DropBacked(o) ==
    /\ Turn /\ NoneStale
    /\ Idle(o) /\ obj[o].state = "disc" /\ obj[o].data = "none"
    /\ obj' = [obj EXCEPT ![o] = Free]
    /\ UNCHANGED <<st, writing, version, disc, last>>

DropFresh(o) ==
    /\ Turn /\ NoneStale
    /\ Idle(o) /\ obj[o].state = "ram"
    /\ obj' = [obj EXCEPT ![o] = Free]
    /\ UNCHANGED <<st, writing, version, disc, last>>

-----------------------------------------------------------------------------
\* write_entries and write_blocks replace a file each, if it has changed: the old
\* one is removed before the new one takes its name.
ControlFilesBegin(s) ==
    /\ maint' = 1
    /\ saved' = IF s.entriesDirty THEN [saved EXCEPT !.entries = NoControlFiles.entries] ELSE saved

\* control_maintenance, 10 seconds after the store was last used.
Maintenance ==
    /\ Turn
    /\ st.timer
    /\ st' = [st EXCEPT !.timer = FALSE]
    /\ ControlFilesBegin(st)
    /\ UNCHANGED <<mem, phase, starts, last, kept>>

\* Loans do not outlive the program.
AtRest(en) == [en EXCEPT !.elem = [e \in Elems |-> [en.elem[e] EXCEPT !.ref = 0, !.val = None]]]

EntriesReplaced ==
    /\ maint = 1
    /\ maint' = 2
    /\ saved' =
         [entries |-> IF st.entriesDirty THEN [u \in DOMAIN st.entries |-> AtRest(st.entries[u])]
                      ELSE saved.entries,
          used |-> IF st.blocksDirty THEN NoControlFiles.used ELSE saved.used]
    /\ UNCHANGED <<st, mem, phase, starts, last, kept>>

\* The use maps stay as they were saved before.
BlocksForgotten ==
    /\ maint = 2
    /\ maint' = 0
    /\ phase' = IF phase = "closing" THEN "down" ELSE phase
    /\ UNCHANGED <<st, saved, mem, starts, last, kept>>

BlocksReplaced ==
    /\ maint = 2
    /\ maint' = 0
    /\ saved' = IF st.blocksDirty THEN [saved EXCEPT !.used = st.used] ELSE saved
    /\ phase' = IF phase = "closing" THEN "down" ELSE phase
    /\ UNCHANGED <<st, mem, starts, last, kept>>

\* llcache_finalise, after what llcache_persist has written: every object is
\* destroyed, one after the other.
Finalise ==
    /\ Turn
    /\ phase' = "finalising"
    /\ UNCHANGED <<st, mem, saved, maint, starts, last, kept>>

DestroyCached(o) ==
    /\ phase = "finalising"
    /\ obj[o].state # "free"
    /\ st' = Destroyed(st, obj[o])
    /\ obj' = [obj EXCEPT ![o] = Free]
    /\ UNCHANGED <<writing, version, disc, last>>

\* Then the store is finalised.
StoreFinalised ==
    /\ phase = "finalising"
    /\ \A o \in Objs : obj[o].state = "free"
    /\ st' = [st EXCEPT !.timer = FALSE]
    /\ ControlFilesBegin(st)
    /\ phase' = "closing"
    /\ UNCHANGED <<mem, starts, last, kept>>

\* The program dies, in the middle of whatever it did.
Kill ==
    /\ "kill" \in Faults
    /\ phase # "down"
    /\ phase' = "down"
    /\ maint' = 0
    /\ obj' = [o \in Objs |-> Free]
    /\ writing' = None
    /\ kept' = FALSE
    /\ UNCHANGED <<st, saved, version, starts, last>>

\* initialise: the control files are read, or defaults taken.
Start ==
    /\ phase = "down"
    /\ starts < MaxStarts
    /\ starts' = starts + 1
    /\ phase' = "up"
    /\ st' = [FreshStore EXCEPT
                !.entries = saved.entries, !.used = saved.used,
                !.total = TotalOf(saved.entries, DOMAIN saved.entries),
                !.blocks = st.blocks, !.files = st.files]
    /\ UNCHANGED <<saved, maint, mem, last, kept>>

StoreNext ==
    \/ \E u \in Urls : RetrieveKnown(u) \/ RetrieveUnknown(u)
    \/ \E o \in Objs :
         \/ FetchFinishes(o) \/ FetchNotModified(o) \/ FetchFails(o)
         \/ Leave(o) \/ Expire(o)
         \/ PersistData(o) \/ PersistMeta(o)
         \/ DiscardStale(o) \/ ReleaseData(o) \/ DropBacked(o) \/ DropFresh(o)
         \/ DestroyCached(o)
    \/ Maintenance \/ EntriesReplaced \/ BlocksReplaced
    \/ Finalise \/ StoreFinalised \/ Kill \/ Start

StoreSpec == StoreInit /\ [][StoreNext]_storeVars

-----------------------------------------------------------------------------
shelf == [k \in Keys |-> Readable(st, k)]

Contract == INSTANCE StoreContract WITH
    Keys <- Keys, Contents <- Contents, shelf <- shelf, last <- last, kept <- kept

\* The store promises that a URL brings back what was last stored under it or
\* nothing (backing_store.h), through eviction, failed reads, restarts and control
\* files that are written later than the data; until the program is killed.
ImplementsContract == Contract!Spec

Ref(u, e) == IF u \in DOMAIN st.entries THEN st.entries[u].elem[e].ref ELSE 0

\* The reference count of an element is the number of objects that use its memory:
\* none is freed under an object, none is kept for ever, and an object in use or
\* under revalidation has its data.  An entry marked invalid lives only as long as a
\* loan of it, so that it is never fetched again later.
LoansMatch ==
    phase # "down" =>
        /\ kept => \A u \in DOMAIN st.entries : st.entries[u].invalid => OnLoan(st.entries[u])
        /\ \A u \in Urls :
             /\ Ref(u, "data") = Cardinality({o \in Listed(u) : obj[o].data = "loan" \/ writing = o})
             /\ Ref(u, "meta") = 0
        /\ \A o \in Objs :
             obj[o].state = "disc" /\ (obj[o].used \/ o \in Candidates) => obj[o].data = "loan"

Owned(u, e) == st.entries[u].elem[e].block

\* total_alloc, which decides on eviction, is the size of all entries, after a crash
\* too; and until one no two entries share a block, nor is one in use marked free.
AccountsExact ==
    /\ st.total = TotalOf(st.entries, DOMAIN st.entries)
    /\ kept => \A u \in DOMAIN st.entries, e \in Elems : Owned(u, e) # 0 =>
         /\ Owned(u, e) \in st.used[e]
         /\ \A w \in DOMAIN st.entries : Owned(w, e) = Owned(u, e) => w = u

\* The data and the metadata of a URL, stored one after the other, are of the same
\* version whenever both can be read: headers are not applied to another body.
SameVersion ==
    kept /\ writing = None =>
        \A u \in Urls : shelf[<<u, "data">>] # None /\ shelf[<<u, "meta">>] # None
            => shelf[<<u, "data">>] = shelf[<<u, "meta">>]

\* What a client is given was stored under the URL it asked for.
ServedOwn ==
    \A o \in Objs : obj[o].data = "loan" => shelf[<<obj[o].url, "data">>][1] = obj[o].url

=============================================================================
