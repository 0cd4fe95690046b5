------------------------------ MODULE HLCache ------------------------------
(***************************************************************************)
(* The high-level cache (content/hlcache.c) and the content objects it     *)
(* shares between its clients (content/content.c).                         *)
(*                                                                         *)
(* A client retrieves an object and gets a handle.  While nothing is known *)
(* of the object's type the handle hangs on a retrieval context, which     *)
(* listens to a low-level cache handle.  Once the type is known the        *)
(* context migrates: the handle joins a content that another handle made   *)
(* from the same object, or a new content takes the low-level handle over. *)
(* The content's handler converts the data, at once or later, and every    *)
(* user of the content is told LOADING, READY and DONE, or ERROR.          *)
(*                                                                         *)
(* Client callbacks run in the middle of that: the statements the code     *)
(* still has to execute are kept in "work", a stack of jobs, so that what  *)
(* a callback does happens between two of them.                            *)
(***************************************************************************)
EXTENDS Naturals, Sequences, SequencesExt, FiniteSets

CONSTANTS
  Handles,     \* the handles; each stands for one retrieval
  Objects,     \* what the low-level cache can be asked for
  Shared,      \* objects whose content type may be shared between users
  Slow,        \* objects whose handler may complete a conversion later
  Pages,       \* slow objects that are READY some time before they are DONE
  ReleaseOn,   \* messages in whose callback a client may release a handle
  Whose,       \* "own": the handle the message is for; "any": any handle
  Silent,      \* whether a handler may fail to convert without a message
  None, Own

(* A handle makes at most one content, from the low-level handle it was    *)
(* retrieved with, and gets at most one clone, with a low-level handle of  *)
(* its own.                                                                *)
Ids == Handles \X {"made", "cloned"}

ASSUME HLCacheAssumption ==
  /\ Shared \subseteq Objects /\ Pages \subseteq Slow /\ Slow \subseteq Objects
  /\ Shared \cap Pages = {}
  /\ Whose \in {"own", "any"} /\ Silent \in BOOLEAN
  /\ None \notin Handles \cup Ids /\ Own \notin Objects

VARIABLES
  handle,      \* hlcache_handle: state, content it is a user of, aborted
  context,     \* hlcache_retrieval_ctx of a handle: its low-level handle
  content,     \* struct content
  list,        \* hlcache->content_list, newest first
  ll,          \* the low-level cache handles
  downloads,   \* low-level handles passed to the download client
  told,        \* the messages each handle's callback has had
  work,        \* what is left to execute, innermost first
  running      \* until hlcache_finalise

vars == <<handle, context, content, list, ll, downloads, told, work, running>>

Messages == {"LOADING", "READY", "DONE", "ERROR", "DOWNLOAD"}
Statuses == {"none", "LOADING", "READY", "DONE", "ERROR", "destroyed"}

NoContent == [status |-> "none", locked |-> FALSE, users |-> <<>>,
              object |-> None, ll |-> None, stopped |-> FALSE]
NoLL == [state |-> "none", object |-> None, sent |-> "none", aborted |-> FALSE]

Init ==
  /\ handle = [h \in Handles |-> [state |-> "new", content |-> None, aborted |-> FALSE]]
  /\ context = [h \in Handles |-> None]
  /\ content = [c \in Ids |-> NoContent]
  /\ list = <<>>
  /\ ll = [l \in Ids |-> NoLL]
  /\ downloads = {}
  /\ told = [h \in Handles |-> <<>>]
  /\ work = <<>>
  /\ running = TRUE

-----------------------------------------------------------------------------
(* The low-level cache, as its clients see it. *)

LLNew(o, sent) == [state |-> "held", object |-> o, sent |-> sent, aborted |-> FALSE]

(* Aborting a handle whose object others use gives it an object of its own. *)
LLAborted(ls, l) ==
  LET alone == \A k \in Ids \ {l} : ls[k].state # "held" \/ ls[k].object # ls[l].object
  IN  [ls EXCEPT ![l].aborted = TRUE,
                 ![l].object = IF alone \/ ls[l].sent = "ended" THEN @ ELSE Own]

LLReleased(ls, l) ==
  [ls EXCEPT ![l].state = IF @ = "held" THEN "released" ELSE "twice"]

(* llcache_handle_references_same_object *)
SameObject(l, k) == ll[l].object = ll[k].object /\ ll[l].object # Own

-----------------------------------------------------------------------------
(* Jobs: the statements that have yet to run. *)

Tell(h, msg)    == [do |-> "tell", handle |-> h, msg |-> msg]
Leave(h)        == [do |-> "leave", handle |-> h]
Refuse(h)       == [do |-> "refuse", handle |-> h]
Cast(c, msg, u) == [do |-> "cast", content |-> c, msg |-> msg, next |-> u]
Do(what, c)     == [do |-> what, content |-> c]

Idle == work = <<>> /\ running
Live(h) == handle[h].state = "live"

(* migrate_target: the context is being taken to its content. *)
Migrating(h) == \E j \in ToSet(work) : j.do \in {"leave", "refuse"} /\ j.handle = h

FirstUser(c) == IF content[c].users = <<>> THEN None ELSE Head(content[c].users)

(* user->next: NULL after the last user. *)
NextUser(users, u) ==
  LET i == CHOOSE n \in 1..Len(users) : users[n] = u
  IN  IF i = Len(users) THEN None ELSE users[i + 1]

(* What is left of a list when the members of X are unlinked. *)
Place(K, i) == Cardinality({k \in K : k <= i})
Without(s, X) ==
  LET K == {i \in 1..Len(s) : s[i] \notin X}
  IN  [j \in 1..Cardinality(K) |-> s[CHOOSE i \in K : Place(K, i) = j]]

(* content_broadcast, and content_broadcast_error. *)
Broadcast(c, msg) == Cast(c, msg, FirstUser(c))

-----------------------------------------------------------------------------
(* Clients. *)

(* hlcache_handle_retrieve: the low-level cache never calls back at once. *)
Retrieve(h, o) ==
  /\ Idle /\ handle[h].state = "new"
  /\ handle' = [handle EXCEPT ![h].state = "live"]
  /\ context' = [context EXCEPT ![h] = <<h, "made">>]
  /\ ll' = [ll EXCEPT ![<<h, "made">>] = LLNew(o, "open")]
  /\ UNCHANGED <<content, list, downloads, told, work, running>>

(* hlcache_handle_release, for each handle of R: a user leaves its content; *)
(* a context that is not migrating is thrown away with its fetch.           *)
Released(R) ==
  LET nascent == {h \in R : handle[h].content = None /\ context[h] # None /\ ~Migrating(h)}
      freed(ls, h) == LLReleased(LLAborted(ls, context[h]), context[h])
  IN
  /\ handle' = [h \in Handles |->
        IF h \in R THEN [handle[h] EXCEPT !.state = "gone", !.content = None] ELSE handle[h]]
  /\ content' = [c \in Ids |->
        [content[c] EXCEPT !.users = Without(@, R)]]
  /\ context' = [h \in Handles |-> IF h \in nascent THEN None ELSE context[h]]
  /\ ll' = IF nascent = {} THEN ll ELSE freed(ll, CHOOSE h \in nascent : TRUE)

Release(h) ==
  /\ Idle /\ Live(h)
  /\ Released({h})
  /\ UNCHANGED <<list, downloads, told, work, running>>

(* hlcache_handle_abort of a handle that has no content yet. *)
AbortContext(h) ==
  /\ Idle /\ Live(h) /\ handle[h].content = None /\ context[h] # None
  /\ handle' = [handle EXCEPT ![h].aborted = TRUE]
  /\ context' = [context EXCEPT ![h] = None]
  /\ ll' = LLReleased(LLAborted(ll, context[h]), context[h])
  /\ UNCHANGED <<content, list, downloads, told, work, running>>

(* content_abort: the handler is stopped (only pages have anything to      *)
(* stop: they remember it while loading, and may be done at once when      *)
(* READY), and the low-level handle is aborted.                            *)
ContentAborted(cs, c) ==
  IF cs[c].object \in Pages /\ cs[c].status = "LOADING"
  THEN [cs EXCEPT ![c].stopped = TRUE] ELSE cs

(* hlcache_handle_abort of the only user of a content. *)
AbortContent(h) ==
  LET c == handle[h].content IN
  /\ Idle /\ Live(h) /\ c # None /\ ~handle[h].aborted
  /\ content[c].status \in {"LOADING", "READY"} /\ Len(content[c].users) = 1
  /\ handle' = [handle EXCEPT ![h].aborted = TRUE]
  /\ content' = ContentAborted(content, c)
  /\ ll' = LLAborted(ll, content[c].ll)
  /\ work' \in IF content[c].status = "READY" THEN {<<>>, <<Do("done", c)>>} ELSE {<<>>}
  /\ UNCHANGED <<context, list, downloads, told, running>>

(* Faulty variant: the handle stays a user of the content it was cloned from. *)
AbortSharedKept(h) ==
  LET c == handle[h].content
      n == <<h, "cloned">>
      clone == [content[c] EXCEPT !.users = <<h>>, !.ll = n] IN
  /\ Idle /\ Live(h) /\ c # None /\ ~handle[h].aborted
  /\ content[c].status = "LOADING" /\ Len(content[c].users) > 1
  /\ handle' = [handle EXCEPT ![h].aborted = TRUE, ![h].content = n]
  /\ content' = [content EXCEPT ![n] = clone]
  /\ list' = <<n>> \o list
  /\ ll' = LLAborted([ll EXCEPT ![n] = ll[content[c].ll]], n)
  /\ UNCHANGED <<context, downloads, told, work, running>>

(* hlcache_handle_abort of one of several users: it gets a clone of the    *)
(* content (content__clone), and the clone is aborted.                     *)
AbortShared(h) ==
  LET c == handle[h].content
      n == <<h, "cloned">>
      clone == [content[c] EXCEPT !.users = <<h>>, !.ll = n] IN
  /\ Idle /\ Live(h) /\ c # None /\ ~handle[h].aborted
  /\ content[c].status = "LOADING" /\ Len(content[c].users) > 1
  /\ handle' = [handle EXCEPT ![h].aborted = TRUE, ![h].content = n]
  /\ content' = [content EXCEPT ![n] = clone,
                                ![c].users = Without(@, {h})]
  /\ list' = <<n>> \o list
  /\ ll' = LLAborted([ll EXCEPT ![n] = ll[content[c].ll]], n)
  /\ UNCHANGED <<context, downloads, told, work, running>>

(* The client that was handed a download lets it go. *)
DownloadEnds(l) ==
  /\ Idle /\ l \in downloads
  /\ downloads' = downloads \ {l}
  /\ ll' = LLReleased(ll, l)
  /\ UNCHANGED <<handle, context, content, list, told, work, running>>

-----------------------------------------------------------------------------
(* hlcache_llcache_callback: the events of a context's low-level handle.    *)

(* The loop of hlcache_find_content: the first content of the list that can *)
(* serve a low-level handle. *)
Suitable(c, l) ==
  /\ content[c].status # "ERROR" /\ content[c].object \in Shared
  /\ SameObject(content[c].ll, l)

FoundContent(l) ==
  LET found == {i \in 1..Len(list) : Suitable(list[i], l)}
  IN  IF found = {} THEN None
      ELSE list[CHOOSE i \in found : \A k \in found : i <= k]

(* Faulty variant: a late handle is told only where its content is now. *)
CatchUpLast(h, status) == <<Tell(h, status)>>

(* What a handle is told to catch up with its content. *)
CatchUp(h, status) ==
  LET upTo == CASE status = "LOADING" -> 1 [] status = "READY" -> 2 [] status = "DONE" -> 3
      msgs == <<"LOADING", "READY", "DONE">>
  IN  [i \in 1..upTo |-> Tell(h, msgs[i])]

(* Faulty variant: the low-level handle is kept although it is no longer needed. *)
JoinKeeping(h, l, sent) ==
  LET c == FoundContent(l) IN
  /\ c # None
  /\ ll' = [ll EXCEPT ![l].sent = sent]
  /\ handle' = [handle EXCEPT ![h].content = c]
  /\ content' = [content EXCEPT ![c].users = <<h>> \o @]
  /\ work' = CatchUp(h, content[c].status) \o <<Leave(h)>>
  /\ UNCHANGED <<list, downloads>>

(* hlcache_migrate_ctx when another handle's content serves this one. *)
Join(h, l, sent) ==
  LET c == FoundContent(l) IN
  /\ c # None
  /\ ll' = LLReleased([ll EXCEPT ![l].sent = sent], l)
  /\ handle' = [handle EXCEPT ![h].content = c]
  /\ content' = [content EXCEPT ![c].users = <<h>> \o @]
  /\ work' = CatchUp(h, content[c].status) \o <<Leave(h)>>
  /\ UNCHANGED <<list, downloads>>

(* ... and when a content has to be made, which then gets all the data. *)
Make(h, l) ==
  /\ FoundContent(l) = None
  /\ ll' = [ll EXCEPT ![l].sent = "headers"]
  /\ handle' = [handle EXCEPT ![h].content = l]
  /\ content' = [content EXCEPT ![l] =
        [NoContent EXCEPT !.status = "LOADING", !.users = <<h>>,
                          !.object = ll[l].object, !.ll = l]]
  /\ list' = <<l>> \o list
  /\ work' = CatchUp(h, "LOADING") \o <<Leave(h)>>
  /\ UNCHANGED downloads

(* A type nothing handles becomes a download, if the client allows that. *)
Download(h, l) ==
  /\ ll' = [ll EXCEPT ![l].sent = "headers"]
  /\ downloads' = downloads \cup {l}
  /\ work' = <<Tell(h, "DOWNLOAD"), Leave(h)>>
  /\ UNCHANGED <<handle, content, list>>

(* A type the client does not accept, or a content that cannot be made. *)
Reject(h, l, sent) ==
  /\ ll' = [ll EXCEPT ![l].sent = sent]
  /\ work' = <<Tell(h, "ERROR"), Refuse(h)>>
  /\ UNCHANGED <<handle, content, list, downloads>>

Migrate(h, l, sent) ==
  Join(h, l, sent) \/ Make(h, l) \/ Download(h, l) \/ Reject(h, l, sent)

Listening(h, sent) == Idle /\ Live(h) /\ context[h] # None /\ ll[context[h]].sent = sent

(* HAD_HEADERS: the type may already be known, or the data is waited for. *)
Headers(h) ==
  /\ Listening(h, "open")
  /\ \/ Migrate(h, context[h], "headers")
     \/ /\ ll' = [ll EXCEPT ![context[h]].sent = "headers"]
        /\ UNCHANGED <<handle, content, list, downloads, work>>
  /\ UNCHANGED <<context, told, running>>

(* HAD_DATA or, for an empty body, DONE: the type is settled. *)
Settle(h) ==
  /\ Listening(h, "headers")
  /\ Migrate(h, context[h], "data")
  /\ UNCHANGED <<context, told, running>>

(* Faulty variant: the failure of a fetch whose type is not known is swallowed. *)
FetchFailsSilently(h) ==
  /\ \E sent \in {"open", "headers"} : Listening(h, sent)
  /\ ll' = [ll EXCEPT ![context[h]].sent = "ended"]
  /\ UNCHANGED <<handle, context, content, list, downloads, told, work, running>>

(* ERROR: the client is told; the context stays until it is released. *)
FetchFails(h) ==
  /\ \E sent \in {"open", "headers"} : Listening(h, sent)
  /\ ll' = [ll EXCEPT ![context[h]].sent = "ended"]
  /\ work' = <<Tell(h, "ERROR")>>
  /\ UNCHANGED <<handle, context, content, list, downloads, told, running>>

-----------------------------------------------------------------------------
(* content_llcache_callback: the events of a content's low-level handle.    *)

Open(c) == Idle /\ content[c].ll # None /\ ll[content[c].ll].sent \in {"headers", "data"}

(* HAD_DATA: the handler takes it, or has told the users and gives up. *)
Data(c) ==
  LET l == content[c].ll IN
  /\ Open(c) /\ ll[l].sent = "headers"
  /\ ll' = [ll EXCEPT ![l].sent = "data"]
  /\ work' \in {<<>>, <<Broadcast(c, "ERROR"), Do("spoil", c)>>}
  /\ UNCHANGED <<handle, context, content, list, downloads, told, running>>

(* DONE. *)
Complete(c) ==
  /\ Open(c)
  /\ ll' = [ll EXCEPT ![content[c].ll].sent = "ended"]
  /\ work' = <<Do("convert", c)>>
  /\ UNCHANGED <<handle, context, content, list, downloads, told, running>>

(* ERROR, which an aborted fetch no longer reports. *)
Fail(c) ==
  /\ Open(c) /\ ~ll[content[c].ll].aborted
  /\ ll' = [ll EXCEPT ![content[c].ll].sent = "ended"]
  /\ content' = [content EXCEPT ![c].status = "ERROR"]
  /\ work' = <<Broadcast(c, "ERROR")>>
  /\ UNCHANGED <<handle, context, list, downloads, told, running>>

-----------------------------------------------------------------------------
(* Conversion.  A handler that fails tells the users itself: the content is *)
(* then put into the error state. *)

Success(c) ==
  IF content[c].stopped THEN {}
  ELSE {<<Do("ready", c), Do("done", c)>>} \cup
       IF content[c].object \in Pages THEN {<<Do("ready", c)>>} ELSE {}

Failure(c) ==
  {<<Broadcast(c, "ERROR"), Do("error", c)>>} \cup
  IF Silent THEN {<<Do("error", c)>>} ELSE {}

(* A conversion that did not end with data_complete ends later. *)
Converting(c) == content[c].status = "LOADING" /\ content[c].locked

ConversionEnds(c) ==
  /\ Idle /\ Converting(c)
  /\ work' \in Success(c) \cup Failure(c)
  /\ UNCHANGED <<handle, context, content, list, ll, downloads, told, running>>

(* The last object of a page that is READY has been fetched. *)
PageEnds(c) ==
  /\ Idle /\ content[c].status = "READY"
  /\ work' = <<Do("done", c)>>
  /\ UNCHANGED <<handle, context, content, list, ll, downloads, told, running>>

-----------------------------------------------------------------------------
(* The jobs. *)

Now(do) == work # <<>> /\ Head(work).do = do
Then(jobs) == work' = jobs \o Tail(work)

(* What the client of h may do in the callback: go on, or release a handle. *)
Reactions(h, msg) ==
  {{}} \cup IF msg \notin ReleaseOn THEN {}
            ELSE {{u} : u \in {g \in Handles : Live(g) /\ (Whose = "any" \/ g = h)}}

Called(h, msg) ==
  /\ told' = [told EXCEPT ![h] = Append(@, msg)]
  /\ \E R \in Reactions(h, msg) : Released(R)
  /\ UNCHANGED <<list, downloads, running>>

(* A message to one handle, from hlcache.c: ctx->handle->cb is looked at. *)
DoTell ==
  /\ Now("tell") /\ Live(Head(work).handle)
  /\ Called(Head(work).handle, Head(work).msg)
  /\ Then(<<>>)

(* Faulty variant: a broadcast that reads user->next after the callback. *)
DoCastLate ==
  LET j == Head(work) IN
  /\ Now("cast")
  /\ \/ /\ j.next = None
        /\ Then(<<>>)
        /\ UNCHANGED <<handle, context, content, list, ll, downloads, told, running>>
     \/ /\ j.next \in ToSet(content[j.content].users)
        /\ Called(j.next, j.msg)
        /\ Then(<<[j EXCEPT !.next =
              IF j.next \in ToSet(content'[j.content].users)
              THEN NextUser(content[j.content].users, j.next) ELSE j.next]>>)

(* content_broadcast: the next user is read before the callback. *)
DoCast ==
  LET j == Head(work) IN
  /\ Now("cast")
  /\ \/ /\ j.next = None
        /\ Then(<<>>)
        /\ UNCHANGED <<handle, context, content, list, ll, downloads, told, running>>
     \/ /\ j.next \in ToSet(content[j.content].users)
        /\ Called(j.next, j.msg)
        /\ Then(<<[j EXCEPT !.next = NextUser(content[j.content].users, j.next)]>>)

(* The end of hlcache_migrate_ctx. *)
DoLeave ==
  /\ Now("leave")
  /\ context' = [context EXCEPT ![Head(work).handle] = None]
  /\ Then(<<>>)
  /\ UNCHANGED <<handle, content, list, ll, downloads, told, running>>

DoRefuse ==
  LET h == Head(work).handle IN
  /\ Now("refuse")
  /\ ll' = LLReleased(LLAborted(ll, context[h]), context[h])
  /\ context' = [context EXCEPT ![h] = None]
  /\ Then(<<>>)
  /\ UNCHANGED <<handle, content, list, downloads, told, running>>

(* content_convert; data_complete converts at once, later, or fails. *)
DoConvert ==
  LET c == Head(work).content IN
  /\ Now("convert")
  /\ IF content[c].status # "LOADING" \/ content[c].locked
     THEN Then(<<>>) /\ UNCHANGED content
     ELSE /\ content' = [content EXCEPT ![c].locked = TRUE]
          /\ \E jobs \in Success(c) \cup Failure(c) \cup
                         IF content[c].object \in Slow THEN {<<>>} ELSE {} : Then(jobs)
  /\ UNCHANGED <<handle, context, list, ll, downloads, told, running>>

(* content_set_ready *)
DoReady ==
  LET c == Head(work).content IN
  /\ Now("ready")
  /\ content' = [content EXCEPT ![c].locked = FALSE, ![c].status = "READY"]
  /\ Then(<<Broadcast(c, "READY")>>)
  /\ UNCHANGED <<handle, context, list, ll, downloads, told, running>>

(* content_set_done *)
DoDone ==
  LET c == Head(work).content IN
  /\ Now("done")
  /\ content' = [content EXCEPT ![c].status = "DONE"]
  /\ Then(<<Broadcast(c, "DONE")>>)
  /\ UNCHANGED <<handle, context, list, ll, downloads, told, running>>

(* content_set_error *)
DoError ==
  LET c == Head(work).content IN
  /\ Now("error")
  /\ content' = [content EXCEPT ![c].locked = FALSE, ![c].status = "ERROR"]
  /\ Then(<<>>)
  /\ UNCHANGED <<handle, context, list, ll, downloads, told, running>>

(* The rest of HAD_DATA when the handler has refused the data. *)
DoSpoil ==
  LET c == Head(work).content IN
  /\ Now("spoil")
  /\ ll' = LLAborted(ll, content[c].ll)
  /\ content' = [content EXCEPT ![c].status = "ERROR"]
  /\ Then(<<>>)
  /\ UNCHANGED <<handle, context, list, downloads, told, running>>

Work == DoTell \/ DoCast \/ DoLeave \/ DoRefuse \/ DoConvert \/ DoReady \/ DoDone
        \/ DoError \/ DoSpoil

-----------------------------------------------------------------------------
(* Housekeeping. *)

Unused(c) == content[c].users = <<>> /\ content[c].status # "LOADING"

(* The contents of D leave the list and are destroyed (content_destroy). *)
Destroyed(D, ls) ==
  /\ content' = [c \in Ids |-> IF c \in D THEN [NoContent EXCEPT !.status = "destroyed"]
                                          ELSE content[c]]
  /\ list' = Without(list, D)
  /\ ll' = [l \in Ids |-> IF \E c \in D : content[c].ll = l
                          THEN LLReleased(ls, l)[l] ELSE ls[l]]

(* hlcache_clean, from the scheduler. *)
Clean ==
  LET D == {c \in ToSet(list) : Unused(c)} IN
  /\ Idle /\ D # {}
  /\ Destroyed(D, ll)
  /\ UNCHANGED <<handle, context, downloads, told, work, running>>

(* hlcache_finalise: contents without users go, those still loading by     *)
(* force, and then the retrieval contexts with their handles.              *)
Finalise ==
  LET D == {c \in ToSet(list) : content[c].users = <<>>}
      contexts == {h \in Handles : context[h] # None}
      ls == [l \in Ids |-> IF \E h \in contexts : context[h] = l
                           THEN LLReleased(ll, l)[l] ELSE ll[l]] IN
  /\ Idle
  /\ Destroyed(D, ls)
  /\ context' = [h \in Handles |-> None]
  /\ handle' = [h \in Handles |->
        IF h \in contexts THEN [handle[h] EXCEPT !.state = "gone"] ELSE handle[h]]
  /\ running' = FALSE
  /\ UNCHANGED <<downloads, told, work>>

Client(h) ==
  \/ \E o \in Objects : Retrieve(h, o)
  \/ Release(h)
  \/ AbortContext(h)
  \/ AbortContent(h)
  \/ AbortShared(h)

ContextEvent(h) == Headers(h) \/ Settle(h) \/ FetchFails(h)
ContentEvent(c) == Data(c) \/ Complete(c) \/ Fail(c)

Next ==
  \/ Work
  \/ \E h \in Handles : Client(h) \/ ContextEvent(h)
  \/ \E c \in Ids : ContentEvent(c) \/ ConversionEnds(c) \/ PageEnds(c) \/ DownloadEnds(c)
  \/ Clean
  \/ Finalise

Spec == Init /\ [][Next]_vars

(* The main loop goes on with what it has begun, every fetch and every     *)
(* conversion that was started ends.                                       *)
FairSpec ==
  /\ Spec
  /\ WF_vars(Work)
  /\ \A h \in Handles : WF_vars(ContextEvent(h))
  /\ \A c \in Ids : WF_vars(ContentEvent(c)) /\ WF_vars(ConversionEnds(c)) /\ WF_vars(PageEnds(c))

-----------------------------------------------------------------------------
(* What has to hold. *)

Owners(l) ==
  {<<"context", h>> : h \in {g \in Handles : context[g] = l /\ Leave(g) \notin ToSet(work)}}
  \cup {<<"content", c>> : c \in {d \in Ids : content[d].ll = l}}
  \cup {<<"download", l>> : k \in downloads \cap {l}}

(* The low-level handle that a retrieval opens, or a clone, passes from the *)
(* context to a content or to a download; whoever has it releases it, once, *)
(* and none is forgotten.                                                   *)
OwnedOnce ==
  \A l \in Ids :
     /\ ll[l].state # "twice"
     /\ Cardinality(Owners(l)) = IF ll[l].state = "held" THEN 1 ELSE 0

(* A handle is in the user list of the content it points to, once, and in   *)
(* no other: through sharing, the clone an abort makes, release and clean.  *)
UsersAgree ==
  /\ \A h \in Handles : \A c \in Ids :
        Cardinality({i \in DOMAIN content[c].users : content[c].users[i] = h}) =
          IF handle[h].content = c THEN 1 ELSE 0
  /\ \A c \in Ids : (c \in ToSet(list)) <=> (content[c].status \notin {"none", "destroyed"})
  /\ IsInjective(list)

(* The handle a migration is about to tell is still there, and the user a   *)
(* broadcast has kept for its next step is still a user (hlcache.c:303-,    *)
(* content.c:760), whatever the callbacks before it have released.          *)
IteratorsValid ==
  work # <<>> =>
    LET j == Head(work) IN
    /\ j.do = "tell" => Live(j.handle)
    /\ j.do = "cast" /\ j.next # None => j.next \in ToSet(content[j.content].users)

(* Whenever a handle joins, and whether its content is new, half converted, *)
(* done or cloned from another, its client hears LOADING, READY and DONE in *)
(* that order, or up to ERROR, or of a download; and nothing after that.    *)
MessageOrder ==
  \A h \in Handles :
    \/ \E n \in 0..3 : told[h] = SubSeq(<<"LOADING", "READY", "DONE">>, 1, n)
    \/ told[h] \in {<<"DOWNLOAD">>, <<"ERROR">>, <<"LOADING", "ERROR">>}

(* The assertions of content_set_ready, content_convert and content_destroy *)
(* (content.c:289, 70 and 361).                                             *)
Asserted ==
  /\ work # <<>> =>
       LET j == Head(work) IN
       /\ j.do = "ready" => content[j.content].locked
       /\ j.do = "convert" => content[j.content].status \in {"LOADING", "ERROR"}
  /\ \A c \in ToSet(list) : Unused(c) => ~content[c].locked

(* A content is not left in the error state with a user that has not been   *)
(* told (content.c:64: "If the conversion fails, CONTENT_MSG_ERROR is       *)
(* sent"), nor done with one that still waits for it.                       *)
UsersToldOfEnd ==
  work = <<>> =>
    \A c \in Ids : \A h \in ToSet(content[c].users) :
       content[c].status \in {"DONE", "ERROR"} => Last(told[h]) = content[c].status

(* Every client that neither releases nor aborts its handle is told how the *)
(* load has ended.                                                          *)
Ended(h) ==
  \/ ~Live(h) \/ handle[h].aborted \/ ~running
  \/ \E i \in DOMAIN told[h] : told[h][i] \in {"DONE", "ERROR", "DOWNLOAD"}

EveryHandleEnds == \A h \in Handles : Live(h) ~> Ended(h)

=============================================================================
