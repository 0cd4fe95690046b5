------------------------------ MODULE HtmlLoad ------------------------------
(***************************************************************************)
(* The load of an HTML document (content/handlers/html: html.c, script.c,  *)
(* css.c, object.c), from its creation to DONE or ERROR.                   *)
(*                                                                         *)
(* A document counts the fetches it waits for in "active": its own, its    *)
(* stylesheets, its scripts and the objects in its boxes.  When the count  *)
(* falls to zero for the first time the parse is completed and conversion  *)
(* begins: deferred scripts run, and a layout is built, in steps, from the *)
(* scheduler.  With the layout the document is READY; it is DONE once the  *)
(* count is zero again.  Scripts that run meanwhile can add scripts and    *)
(* stylesheets and modify style elements.                                  *)
(*                                                                         *)
(* A handler calls several functions that go on in different ways, so each *)
(* C function is an operator from a document to the set of documents it    *)
(* may leave behind.                                                       *)
(***************************************************************************)
EXTENDS Naturals, Sequences, FiniteSets

CONSTANTS
  Base,           \* the default stylesheet, without which layout fails
  Quirks,         \* the stylesheet of quirks mode
  Links,          \* stylesheets the markup links to
  Styles,         \* style elements
  Sync, Async, Defer,   \* scripts of the markup
  Added,          \* scripts that other scripts insert
  Pictures,       \* objects of the layout
  Frames,         \* objects that are documents themselves
  Mishaps          \* what else may go wrong than a fetch that fails:
                  \*   "badroot"  the document has no usable root element
                  \*   "parse"    the parser fails when it is completed
                  \*   "memory"   a style element cannot be fetched for now
                  \*   "emptied"  a style element has no text any more
                  \*   "lost"     the new fetch of a refreshed frame cannot start
                  \*   "overlap"  a frame inside a frame is refreshed while the
                  \*              outer frame is waited for already
                  \*   "early"    a frame is refreshed before READY

Scripts == Sync \cup Async \cup Defer \cup Added
Sheets  == {Base, Quirks} \cup Links
Boxed   == Pictures \cup Frames
Markup  == Links \cup Styles \cup Sync \cup Async \cup Defer
Items   == Scripts \cup Sheets \cup Styles \cup Boxed

(* An item is of one kind. *)
ASSUME HtmlLoadAssumption ==
  /\ Mishaps \subseteq {"badroot", "parse", "memory", "emptied", "lost", "overlap", "early"}
  /\ IsFiniteSet(Items)
  /\ Base # Quirks /\ Links \cap {Base, Quirks} = {}
  /\ Async \cap Sync = {} /\ Defer \cap (Sync \cup Async) = {}
  /\ Added \cap (Sync \cup Async \cup Defer) = {} /\ Pictures \cap Frames = {}
  /\ Styles \cap Sheets = {} /\ Scripts \cap (Sheets \cup Styles) = {}
  /\ Boxed \cap (Sheets \cup Styles \cup Scripts) = {}

VARIABLE page    \* struct html_content

(* item: "none" until met, "fetching", then "done" or "failed"; "dropped"  *)
(* when the handle is let go.  kind: script_type of an inserted script,    *)
(* once it is met.                                                         *)
Init ==
  page = [status    |-> "LOADING",
          active    |-> 2,          \* itself and the base stylesheet
          own       |-> TRUE,       \* its own fetch still counts
          open      |-> TRUE,       \* its own fetch still has events to come
          item      |-> [i \in Items |-> IF i = Base THEN "fetching" ELSE "none"],
          kind      |-> [i \in Added |-> "async"],
          modified  |-> {},         \* style elements to be fetched again
          ran       |-> {},         \* scripts that already_started
          paused    |-> FALSE,      \* the parser, for a synchronous script
          parsed    |-> FALSE,      \* parse_completed
          begun     |-> FALSE,      \* conversion_begun
          selecting |-> FALSE,      \* select_ctx # NULL
          boxing    |-> FALSE,      \* box_conversion_context # NULL
          ready     |-> FALSE,      \* html_box_convert_done has succeeded
          aborted   |-> FALSE,
          user      |-> TRUE,       \* the client still holds its handle
          told      |-> <<>>,       \* READY, DONE and ERROR, as the client got them
          late      |-> FALSE,      \* a script changed the document after its
                                    \* layout was begun
          due       |-> {},         \* frames whose refresh is scheduled
          refreshed |-> {},         \* frames that were loaded again, or had a
                                    \* frame inside them loaded again: once each
          timers    |-> {}]         \* scripts whose timer has fired, once each

Fetching(p) == {i \in Items : p.item[i] = "fetching"}
Now(p, i, state) == [p EXCEPT !.item[i] = state]

(* The scripts of each type, with those that scripts have inserted. *)
Inserted(p, kind) == {s \in Added : p.kind[s] = kind}
SyncType(p)  == Sync \cup Inserted(p, "sync")
AsyncType(p) == Async \cup Inserted(p, "async")
DeferType(p) == Defer \cup Inserted(p, "defer")

-----------------------------------------------------------------------------
(* Messages to the client, which lets its handle go when told of an error. *)

Tell(p, msg) == IF p.user THEN [p EXCEPT !.told = Append(@, msg)] ELSE p
Failed(p)    == [Tell(p, "ERROR") EXCEPT !.user = FALSE]
SetError(p)  == [p EXCEPT !.status = "ERROR"]
SetReady(p)  == Tell([p EXCEPT !.status = "READY"], "READY")
SetDone(p)   == Tell([p EXCEPT !.status = "DONE"], "DONE")

(* html_proceed_to_done *)
ProceedToDone(p) == IF p.status = "READY" /\ p.active = 0 THEN SetDone(p) ELSE p

-----------------------------------------------------------------------------
(* What the parser meets, and what scripts do to the document. *)

(* Faulty variant: a synchronous script does not pause the parser. *)
MetUnpaused(p, D) ==
  [p EXCEPT !.item = [i \in Items |-> IF i \in D \ Styles THEN "fetching" ELSE @[i]],
            !.modified = @ \cup (D \cap Styles),
            !.active = @ + Cardinality(D \ Styles)]

(* Items D are met.  A stylesheet link and a script start a fetch; a style *)
(* element is marked and fetched from the scheduler (html_css_update_style);*)
(* a synchronous script pauses the parser.                                 *)
Met(p, D) ==
  [p EXCEPT !.item = [i \in Items |-> IF i \in D \ Styles THEN "fetching" ELSE @[i]],
            !.modified = @ \cup (D \cap Styles),
            !.active = @ + Cardinality(D \ Styles),
            !.paused = @ \/ D \cap Sync # {}]

Unmet(p, S) == {i \in S \ p.modified : p.item[i] = "none"}

(* Some more of the markup, up to a synchronous script. *)
Parse(p) ==
  IF p.paused \/ p.parsed THEN {p}
  ELSE {Met(p, D) : D \in {E \in SUBSET Unmet(p, Markup) : Cardinality(E \cap Sync) < 2}}

(* A script is inserted, which does not pause the parser; once the parse   *)
(* is complete every script is asynchronous.                               *)
Insert(p) ==
  LET kinds == IF p.parsed THEN {"async"} ELSE {"async", "defer", "sync"}
  IN  UNION {{[Met(p, {i}) EXCEPT !.kind[i] = k] : k \in kinds} : i \in Unmet(p, Added)}

(* A style element is modified. *)
Modify(p) == {Met(p, {s}) : s \in {t \in Styles \ p.modified : p.item[t] # "none"}}

(* What a script that runs may do to its document. *)
Act(p) ==
  IF p.aborted THEN {p}
  ELSE {p} \cup {[q EXCEPT !.late = @ \/ p.selecting] : q \in Insert(p) \cup Modify(p)}

-----------------------------------------------------------------------------
(* Conversion. *)

(* html_can_begin_conversion *)
CanBegin(p) == p.active = 0 /\ p.modified = {}

(* html_script_exec: the asynchronous scripts that have arrived and, once  *)
(* the parse is complete, the deferred ones.                               *)
ScriptExec(p, allowDefer) ==
  LET runnable == {s \in AsyncType(p) \cup (IF allowDefer THEN DeferType(p) ELSE {}) :
                     p.item[s] = "done" /\ s \notin p.ran}
  IN  IF runnable = {} THEN {p}
      ELSE {ProceedToDone(q) : q \in Act([p EXCEPT !.ran = @ \cup runnable])}

(* html_finish_conversion; the load event runs scripts. *)
FinishConversion(p) ==
  IF p.aborted THEN {SetError(Failed(p))}
  ELSE IF p.selecting THEN {p}
  ELSE IF p.item[Base] # "done" THEN {SetError(Failed(p))}
  ELSE Act([p EXCEPT !.selecting = TRUE, !.boxing = TRUE, !.late = @ \/ p.modified # {}])

(* The parse is completed; it cannot be while a synchronous script is      *)
(* waited for, and it may fail.                                            *)
ParseFails(p) == [doc |-> Failed(p), ok |-> FALSE]

CompleteParse(p) ==
  IF p.parsed THEN {[doc |-> p, ok |-> TRUE]}
  ELSE {IF q.paused
          THEN IF q.active > 0 THEN [doc |-> q, ok |-> TRUE] ELSE ParseFails(q)
          ELSE [doc |-> [q EXCEPT !.parsed = TRUE], ok |-> TRUE] : q \in Parse(p)} \cup
       IF "parse" \in Mishaps THEN {ParseFails(q) : q \in Parse(p)} ELSE {}

(* Faulty variant: the deferred scripts are left out when conversion begins. *)
ConvertedAsync(p) ==
  UNION {{[doc |-> q, ok |-> TRUE] : q \in IF r.active = 0 THEN FinishConversion(r) ELSE {r}} :
           r \in ScriptExec([p EXCEPT !.begun = TRUE], FALSE)}

(* Conversion proper, to the layout if scripts have added no more fetches. *)
Converted(p) ==
  LET q == [p EXCEPT !.begun = TRUE]
      run == ScriptExec(q, TRUE)
      finished == UNION {IF r.active = 0 THEN FinishConversion(r) ELSE {r} : r \in run}
  IN  {[doc |-> r, ok |-> TRUE] : r \in finished} \cup
      IF "badroot" \in Mishaps THEN {[doc |-> Failed(r), ok |-> FALSE] : r \in run} ELSE {}

(* html_begin_conversion: what it leaves, and whether it returns true. *)
BeginConversion(p) ==
  UNION {LET q == c.doc IN
         IF ~c.ok \/ ~q.parsed \/ ~CanBegin(q) THEN {c}
         ELSE IF q.aborted THEN {[doc |-> Failed(SetError(q)), ok |-> FALSE]}
         ELSE Converted(q) : c \in CompleteParse(p)}

(* What the callbacks of scripts and stylesheets do at their end: the      *)
(* result of html_begin_conversion is not looked at.                       *)
BeginIfCan(p) ==
  IF CanBegin(p) THEN {b.doc : b \in BeginConversion(p)} ELSE {p}

-----------------------------------------------------------------------------
(* The document's own fetch. *)

Exists == page.status # "destroyed"

(* html_process_data, and content_llcache_callback when it fails. *)
Data ==
  /\ Exists /\ page.open /\ page.status = "LOADING"
  /\ page' \in Parse(page) \cup {SetError(Failed(page))}

(* DONE: html_convert, unless the content is in the error state already.   *)
(* It asks for the quirks stylesheet if the markup turned out to need it.  *)
Convert(p) ==
  LET q == [p EXCEPT !.active = @ - 1, !.own = FALSE] IN
  IF CanBegin(q) THEN {IF b.ok THEN b.doc ELSE SetError(b.doc) : b \in BeginConversion(q)}
                 ELSE {q}

Done ==
  LET p == [page EXCEPT !.open = FALSE] IN
  /\ Exists /\ page.open
  /\ page' \in IF p.status # "LOADING" THEN {p}
               ELSE Convert(p) \cup Convert(Met(p, {Quirks}))

(* ERROR *)
Fail ==
  /\ Exists /\ page.open /\ ~page.aborted /\ page.status = "LOADING"
  /\ page' = SetError(Failed([page EXCEPT !.open = FALSE]))

-----------------------------------------------------------------------------
(* The ends of the other fetches.  A handle is released when it fails. *)

Ended(i, outcome) == [Now(page, i, outcome) EXCEPT !.active = @ - 1]

Outcome == {"done", "failed"}

(* html_convert_css_callback *)
SheetEnds(i) ==
  /\ Exists /\ i \in Fetching(page) \cap (Sheets \cup Styles)
  /\ \E o \in Outcome : page' \in BeginIfCan(Ended(i, o))

(* convert_script_async_cb *)
AsyncEnds(i) ==
  /\ Exists /\ i \in Fetching(page) \cap AsyncType(page)
  /\ \E o \in Outcome :
       LET p == Ended(i, o) IN
       page' \in IF CanBegin(p) THEN BeginIfCan(p)
                 ELSE IF p.begun THEN ScriptExec(p, FALSE) ELSE {p}

(* Faulty variant: the last script to arrive does not begin the conversion. *)
DeferEndsQuietly(i) ==
  /\ Exists /\ i \in Fetching(page) \cap DeferType(page)
  /\ \E o \in Outcome : page' = Ended(i, o)

(* convert_script_defer_cb *)
DeferEnds(i) ==
  /\ Exists /\ i \in Fetching(page) \cap DeferType(page)
  /\ \E o \in Outcome : page' \in BeginIfCan(Ended(i, o))

(* convert_script_sync_cb: the script runs, and a parser that was paused   *)
(* goes on unless another synchronous script, also an inserted one, was    *)
(* yet to end before this one ran.                                         *)
SyncEnds(i) ==
  /\ Exists /\ i \in Fetching(page) \cap SyncType(page)
  /\ \E o \in Outcome :
       LET p == [Ended(i, o) EXCEPT !.ran = @ \cup {i},
                                    !.paused = @ /\ SyncType(page) \cap Fetching(page) # {i}]
           run == IF o = "done" THEN Act(p) ELSE {p}
           onwards == IF page.paused THEN UNION {Parse(q) : q \in run} ELSE run
       IN  page' \in UNION {BeginIfCan(r) : r \in onwards}

(* Faulty variant: the sheet that is replaced while it is fetched is still counted. *)
RefetchedKept(emptied, kept) ==
  LET S == page.modified \ (emptied \cup kept) IN
  [page EXCEPT
     !.item = [i \in Items |-> IF i \in S THEN "fetching" ELSE @[i]],
     !.active = @ + Cardinality(S),
     !.modified = kept]

(* html_css_process_modified_styles, from the scheduler.  The old sheet of *)
(* a style is let go, and no longer counts if it was still being fetched.  *)
(* A style with no text keeps its sheet, its mark goes and nothing else is *)
(* done about it; one whose fetch cannot be started is an error told, and  *)
(* is tried again.                                                         *)
Refetched(emptied, kept) ==
  LET S == page.modified \ (emptied \cup kept) IN
  [page EXCEPT
     !.item = [i \in Items |-> IF i \in S THEN "fetching"
                              ELSE IF i \in emptied /\ @[i] = "none" THEN "failed" ELSE @[i]],
     !.active = @ + Cardinality({s \in S : page.item[s] # "fetching"}),
     !.modified = kept]

ProcessModified ==
  /\ Exists /\ page.modified # {}
  /\ \E emptied \in SUBSET page.modified : \E kept \in SUBSET (page.modified \ emptied) :
       /\ emptied # {} => "emptied" \in Mishaps
       /\ kept # {} => "memory" \in Mishaps
       /\ LET p == Refetched(emptied, kept) IN
          page' = IF kept = {} THEN p ELSE Failed(p)

(* A timer or an event runs a script again at any time. *)
ScriptActs ==
  /\ Exists /\ page.status # "ERROR" /\ ~page.aborted
  /\ \E s \in page.ran \ page.timers :
       page' \in Act([page EXCEPT !.timers = @ \cup {s}])

-----------------------------------------------------------------------------
(* Layout and objects. *)

(* convert_xml_to_box meets an object: html_fetch_object. *)
BoxObject(i) ==
  /\ Exists /\ page.boxing /\ ~page.aborted /\ i \in Unmet(page, Boxed)
  /\ page' = [Now(page, i, "fetching") EXCEPT !.active = @ + 1]

(* html_object_free_objects; the refreshes of frames that have a content   *)
(* are cancelled.                                                          *)
HasContent(p, i) == p.item[i] \in {"fetching", "done"}

FreeObjects(p) ==
  [p EXCEPT !.item = [i \in Items |-> IF i \in Boxed /\ HasContent(p, i) THEN "dropped" ELSE @[i]],
            !.due = {i \in @ : ~HasContent(p, i)}]

(* html_box_convert_done *)
BoxDone ==
  LET p == [page EXCEPT !.boxing = FALSE]
      failed == SetError(Failed(FreeObjects(p))) IN
  /\ Exists /\ page.boxing
  /\ page' \in IF p.aborted THEN {failed}
               ELSE {failed, ProceedToDone(SetReady([p EXCEPT !.ready = TRUE]))}

(* html_object_callback *)
ObjectEnds(i) ==
  /\ Exists /\ i \in Fetching(page) \cap Boxed
  /\ \E o \in Outcome : page' = ProceedToDone(Ended(i, o))

(* CONTENT_MSG_REFRESH of a frame: its refresh is scheduled. *)
FrameAsks(i) ==
  /\ Exists /\ i \in Frames \ (page.refreshed \cup page.due) /\ HasContent(page, i)
  /\ page' = [page EXCEPT !.due = @ \cup {i}]

Refreshable == {"READY", "DONE"} \cup IF "early" \in Mishaps THEN {"LOADING"} ELSE {}

(* html_object_refresh and html_replace_object: the content of a frame is  *)
(* let go and it is loaded again, unless the URL has gone, or the fetch    *)
(* cannot be started: then the count is lowered and nothing more is done.  *)
(* Of a frame that is gone see TimerHasFrame.                              *)
Refresh(i) ==
  LET p == [page EXCEPT !.due = @ \ {i}, !.refreshed = @ \cup {i},
                        !.active = IF page.item[i] = "fetching" THEN @ - 1 ELSE @]
  IN  /\ Exists /\ page.status \in Refreshable /\ i \in page.due /\ HasContent(page, i)
      /\ page' \in {[page EXCEPT !.due = @ \ {i}],
                    [Now(p, i, "fetching") EXCEPT !.active = @ + 1, !.status = "READY"]} \cup
                   IF "lost" \in Mishaps THEN {Now(p, i, "dropped")} ELSE {}

(* html_replace_object for a frame of the document in frame i, which is    *)
(* READY from then on and is DONE once more: every document around it, up  *)
(* to the outermost one, counts one more fetch, whether or not it counts   *)
(* frame i already.  A document that is not open yet is not found.         *)
Nested(i) ==
  /\ Exists /\ page.user /\ i \in Frames \ (page.refreshed \cup page.due)
  /\ page.status \in Refreshable /\ ("early" \notin Mishaps => page.ready)
  /\ page.item[i] \in {"done"} \cup IF "overlap" \in Mishaps THEN {"fetching"} ELSE {}
  /\ page' = IF page.ready
               THEN [Now(page, i, "fetching") EXCEPT
                       !.active = @ + 1, !.status = "READY", !.refreshed = @ \cup {i}]
               ELSE [Now(page, i, "fetching") EXCEPT !.refreshed = @ \cup {i}]

(* html_stop and browser_window_stop.  While the document is loading its   *)
(* client lets it go; when it is READY its objects are aborted and let go, *)
(* except frames that are READY themselves and end in their own time.      *)
AbortObjects(p, kept) ==
  LET gone == Fetching(p) \cap (Boxed \ kept)
  IN  [p EXCEPT !.item = [i \in Items |-> IF i \in gone THEN "dropped" ELSE @[i]],
                !.active = @ - Cardinality(gone)]

Stop ==
  /\ Exists /\ page.user
  /\ \/ /\ page.status = "LOADING"
        /\ page' = [page EXCEPT !.aborted = TRUE, !.user = FALSE]
     \/ /\ page.status = "READY"
        /\ \E kept \in SUBSET Frames : page' = ProceedToDone(AbortObjects(page, kept))

(* The client lets the document go, and closes one that it has opened:     *)
(* html_object_close_objects.                                              *)
Release ==
  /\ Exists /\ page.user
  /\ page' = [page EXCEPT !.user = FALSE,
                          !.due = IF page.ready THEN {i \in @ : ~HasContent(page, i)} ELSE @]

(* hlcache_clean destroys it. *)

Clean ==
  /\ Exists /\ ~page.user /\ page.status # "LOADING"
  /\ page' = [page EXCEPT !.status = "destroyed"]

-----------------------------------------------------------------------------
Own == Data \/ Done \/ Fail

FetchEnds(i) == SheetEnds(i) \/ AsyncEnds(i) \/ DeferEnds(i) \/ SyncEnds(i) \/ ObjectEnds(i)

Next ==
  \/ Own
  \/ \E i \in Items : FetchEnds(i) \/ BoxObject(i)
  \/ \E i \in Frames : FrameAsks(i) \/ Refresh(i) \/ Nested(i)
  \/ ProcessModified \/ ScriptActs \/ BoxDone
  \/ Stop \/ Release \/ Clean

Spec == Init /\ [][Next]_page

(* Every fetch ends, and the scheduler runs what was scheduled. *)
FairSpec ==
  /\ Spec
  /\ WF_page(Done \/ Fail) /\ WF_page(ProcessModified) /\ WF_page(BoxDone) /\ WF_page(Clean)
  /\ \A i \in Items : WF_page(FetchEnds(i))

-----------------------------------------------------------------------------
(* What has to hold. *)

Counting == page.status \notin {"ERROR", "destroyed"}
Awaited  == Cardinality(Fetching(page)) + IF page.own THEN 1 ELSE 0

(* active counts the document's own fetch and each fetch it waits for,     *)
(* once, through failures, replaced sheets, aborts and refreshes, as long  *)
(* as no frame inside a frame is loaded again while the outer one is still *)
(* counted: if too high the document never becomes DONE.                   *)
ActiveExact == Counting => page.active = Awaited

(* Whatever goes wrong it is not too low: the document would be laid out   *)
(* without its stylesheets.                                                *)
ActiveCovers == Counting => page.active >= Awaited

(* A READY document has its layout, the whole markup was parsed, and every *)
(* script that arrived before conversion ended has run; a DONE one has all *)
(* its objects.                                                            *)
WholeWhenReady ==
  page.status \in {"READY", "DONE"} =>
    /\ page.ready /\ ~page.boxing /\ page.parsed /\ ~page.paused
    /\ page.item[Base] = "done"
    /\ \A s \in Sync \cup Async \cup Defer : page.item[s] = "done" => s \in page.ran
    /\ page.status = "DONE" /\ ~page.late => Fetching(page) = {}

(* A deferred script runs when the parse is complete, and while a           *)
(* synchronous one is waited for the parser meets nothing more.            *)
Waiting(p, q) == Sync \cap Fetching(p) \cap Fetching(q) # {}

ScriptOrder ==
  [][/\ \A s \in (page'.ran \ page.ran) \cap Defer : page'.parsed
     /\ Waiting(page, page') =>
          Unmet(page, Markup \ page.modified) \subseteq Unmet(page', Markup \ page'.modified)]_page

(* The client hears READY once and before DONE, and nothing after ERROR;   *)
(* a DONE that is repeated follows a refreshed frame.                      *)
ToldInOrder ==
  \/ page.told \in {<<>>, <<"READY">>, <<"ERROR">>}
  \/ /\ Len(page.told) >= 2 /\ page.told[1] = "READY"
     /\ Len(page.told) - 2 <= Cardinality(page.refreshed)
     /\ \A n \in 2..Len(page.told) : page.told[n] = "DONE"

(* content.c:64: "If the conversion fails, CONTENT_MSG_ERROR is sent.  The *)
(* content will soon be destroyed": only the error state lets hlcache_clean *)
(* destroy it.                                                             *)
ErrorIsFinal ==
  page.told # <<>> /\ page.told[Len(page.told)] = "ERROR"
    => page.status \in {"ERROR", "destroyed"}

(* html.c:772: "the content status will be either CONTENT_STATUS_DONE if   *)
(* the document is completely loaded or CONTENT_STATUS_READY if objects    *)
(* are still being fetched".                                               *)
ReadyIsFetching == page.status = "READY" => page.active > 0

(* object.c:580: "assert(content_get_type(object->content) == CONTENT_HTML)": *)
(* a frame whose refresh is scheduled has a content.                       *)
TimerHasFrame == \A i \in page.due : HasContent(page, i)

(* A document that no script changes once its layout has begun is loaded   *)
(* to its end, or ends in the error state.                                 *)
LoadEnds ==
  (page.status \in {"LOADING", "READY"}) ~>
    (page.status \in {"DONE", "ERROR", "destroyed"} \/ page.late)

=============================================================================
