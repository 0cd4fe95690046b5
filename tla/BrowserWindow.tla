--------------------------- MODULE BrowserWindow ---------------------------
(***************************************************************************)
(* A top-level browser window (desktop/browser_window.c) and its local     *)
(* history (desktop/browser_history.c).                                    *)
(*                                                                         *)
(* The window holds the page it shows and the page it loads, the fetch     *)
(* parameters of both, the throbber, the refresh timer and a history tree. *)
(* The user navigates, stops, reloads, goes back and forward, and answers  *)
(* the query pages that the window loads in the place of a page that could *)
(* not be fetched; the high-level cache tells how each load goes.          *)
(*                                                                         *)
(* The window is one record: a function of the code is an operator from    *)
(* windows to windows, and an action applies the whole of one handler.     *)
(***************************************************************************)
EXTENDS Naturals, Sequences

CONSTANTS
  Sites,          \* the pages of the web
  Blank,          \* about:blank
  Handles,        \* hlcache handles the window may have at a time
  None,
  Unfetchable,    \* sites of a scheme that no fetcher is registered for
  Lingering,      \* sites whose content is READY still after it was aborted
  RefreshTo,      \* the site a page's meta refresh names, or None
  Rush,           \* whether the user may go back while a query page loads
  StaleAnswers,   \* whether a login dialog outlives the page it is about
  MaxCalls        \* bound: how many times the user and the timer act

ASSUME WindowAssumption ==
  /\ Unfetchable \subseteq Sites /\ Lingering \subseteq Sites
  /\ RefreshTo \in [Sites -> Sites \cup {None}]
  /\ Rush \in BOOLEAN /\ StaleAnswers \in BOOLEAN /\ MaxCalls \in Nat
  /\ None \notin Handles \cup Sites \cup {Blank}

VARIABLES
  win,            \* struct browser_window
  calls           \* calls made so far

vars == <<win, calls>>

(* The pages of the about: fetcher that stand in for a failed page, and    *)
(* the buttons of their forms.                                             *)
Buttons == [auth |-> {"login", "cancel"}, ssl |-> {"proceed", "back"},
            timeout |-> {"retry", "back"}, fetcherror |-> {"retry", "back"}]
Queries == DOMAIN Buttons

(* The about: pages are none of the web; and a handle is made for each page *)
(* that is asked for while another is shown.                                *)
ASSUME PagesAssumption ==
  /\ Queries \cap (Sites \cup {Blank, None}) = {}
  /\ \A q \in Queries : None \notin Buttons[q]
ASSUME HandlesAssumption == \E g, h \in Handles : g # h

NoParams == [page |-> None, about |-> None, posted |-> None, history |-> FALSE]
To(page, history) == [NoParams EXCEPT !.page = page, !.history = history]

NoContent == [page |-> None, about |-> None, status |-> "none"]

NewWindow ==
  [loading |-> None, current |-> None,
   loading_parameters |-> NoParams, current_parameters |-> NoParams,
   internal_nav |-> FALSE, history_add |-> FALSE, throbbing |-> FALSE,
   refresh_interval |-> FALSE, timer |-> FALSE, frag |-> None,
   dialog |-> FALSE, open |-> TRUE,
   content |-> [h \in Handles |-> NoContent],
   entries |-> <<>>, at |-> 0]

Page(w, h) == w.content[h].page
Release(w, h) == [w EXCEPT !.content[h] = NoContent]

-----------------------------------------------------------------------------
(* Local history: a tree of entries.  "shows" is the page whose title and  *)
(* scroll position the entry carries.                                      *)

HistoryUpdate(w, h) ==
  IF w.at = 0 THEN w ELSE [w EXCEPT !.entries[w.at].shows = Page(w, h)]

HistoryAdd(w, h) ==
  LET entry == [page |-> Page(w, h), frag |-> w.frag # None, back |-> w.at,
                pref |-> 0, shows |-> Page(w, h)]
      new   == Len(w.entries) + 1
      old   == IF w.at = 0 THEN w.entries
               ELSE [w.entries EXCEPT ![w.at].pref = new]
  IN [w EXCEPT !.entries = Append(old, entry), !.at = new]

(* browser_window_update, of which only frag_scroll changes what is        *)
(* modelled: a fragment that the page has is scrolled to and the history   *)
(* entry updated.                                                          *)
Update(w) ==
  IF w.current # None /\ w.frag = Page(w, w.current)
  THEN HistoryUpdate(w, w.current) ELSE w

-----------------------------------------------------------------------------
(* Messages of the page that is shown, and stopping.                       *)

ContentDone(w) ==
  LET shown == [Update(w) EXCEPT !.throbbing = FALSE]
      saved == IF w.internal_nav THEN shown ELSE HistoryUpdate(shown, w.current)
  IN [saved EXCEPT !.timer = @ \/ w.refresh_interval]

(* hlcache_handle_abort of a content that is READY: its handler aborts the *)
(* objects of the page, and the content is DONE if that leaves none.       *)
AbortCurrent(w) ==
  IF Page(w, w.current) \in Lingering THEN w
  ELSE ContentDone([w EXCEPT !.content[w.current].status = "DONE"])

(* Faulty variant: the page that is loading is aborted, not released.      *)
StopKeepsHandle(w) ==
  LET aborted == IF w.current # None /\ w.content[w.current].status = "READY"
                 THEN AbortCurrent(w) ELSE w
  IN [aborted EXCEPT !.loading = None, !.timer = FALSE, !.throbbing = FALSE]

Stop(w) ==
  LET dropped == IF w.loading = None THEN w
                 ELSE [Release(w, w.loading) EXCEPT !.loading = None]
      aborted == IF w.current # None /\ w.content[w.current].status = "READY"
                 THEN AbortCurrent(dropped) ELSE dropped
  IN [aborted EXCEPT !.timer = FALSE, !.throbbing = FALSE]

-----------------------------------------------------------------------------
(* Navigation.                                                             *)

FreeHandles(w) == {h \in Handles : w.content[h].status = "none"}

(* navigate_internal_real: the new handle takes the place of whatever was  *)
(* loading.                                                                *)
Retrieve(w, p) ==
  LET h == CHOOSE h \in FreeHandles(w) : TRUE
      asked == [w EXCEPT !.history_add = p.history]
  IN IF p.page \in Unfetchable THEN asked
     ELSE [asked EXCEPT
             !.content[h] = [page |-> p.page, about |-> p.about, status |-> "fetching"],
             !.loading = h, !.throbbing = TRUE]

(* browser_window__reload_current_parameters: the parameters move back     *)
(* from the page that is shown to the page that is loaded.                 *)
ReloadCurrent(w) ==
  LET p == IF w.current_parameters.page = None THEN To(Blank, FALSE)
           ELSE [w.current_parameters EXCEPT !.posted = None, !.history = FALSE]
  IN Retrieve([w EXCEPT !.internal_nav = FALSE, !.loading_parameters = p,
                        !.current_parameters = NoParams], p)

(* Navigate to the original loading parameters.                            *)
LoadAgain(w) ==
  Retrieve([w EXCEPT !.internal_nav = FALSE], w.loading_parameters)

SslQueryResponse(w, proceed) ==
  LET stopped == IF w.loading = None THEN w ELSE Stop(w)
  IN IF proceed THEN LoadAgain(stopped) ELSE ReloadCurrent(stopped)

(* browser_window__navigate_internal: what was posted to a query page is   *)
(* acted on here, anything else is fetched.                                *)
NavigateInternal(w, p) ==
  CASE p.posted = "cancel" ->
         LET away == To(Blank, FALSE) IN
         Retrieve([w EXCEPT !.loading_parameters = away, !.internal_nav = TRUE], away)
    [] p.posted \in {"login", "retry"} -> LoadAgain(w)
    [] p.page = "ssl" /\ p.posted # None ->
         SslQueryResponse([w EXCEPT !.loading_parameters.page = p.about],
                          p.posted = "proceed")
    [] p.page # "ssl" /\ p.posted = "back" -> ReloadCurrent(w)
    [] p.posted = None -> Retrieve(w, p)

(* browser_window_navigate.  "save" is the absence of the flag             *)
(* BW_NAVIGATE_NO_TERMINAL_HISTORY_UPDATE, "frag" whether the URL has a    *)
(* fragment.                                                               *)
Navigate(w, p, save, frag) ==
  LET internal == p.page \in Queries
      saved == IF save /\ w.current # None /\ ~internal
               THEN HistoryUpdate(w, w.current) ELSE w
      aimed == [saved EXCEPT !.frag = IF frag THEN p.page ELSE None]
      same  == frag /\ w.current # None /\ Page(w, w.current) = p.page
      ready == [Stop(aimed) EXCEPT !.internal_nav = internal]
  IN CASE internal /\ p.posted = None -> w
       [] same ->
            Update(IF p.history THEN HistoryAdd(aimed, w.current) ELSE aimed)
       [] ~same /\ internal /\ p.posted # None -> NavigateInternal(ready, p)
       [] ~same /\ ~internal ->
            NavigateInternal([ready EXCEPT !.loading_parameters = p], p)

HistoryGo(w, entry) ==
  LET saved == IF w.current = None THEN w ELSE HistoryUpdate(w, w.current)
      e == saved.entries[entry]
  IN Navigate([saved EXCEPT !.at = entry], To(e.page, FALSE), FALSE, e.frag)

-----------------------------------------------------------------------------
(* What the user, the timer and the front end do.                          *)

Init == win = NewWindow /\ calls = 0

Called == calls < MaxCalls /\ win.open /\ calls' = calls + 1

(* A link is followed or an address entered.                               *)
Open(site, frag) ==
  /\ Called
  /\ win' = Navigate(win, To(site, TRUE), TRUE, frag)

StopButton ==
  /\ Called
  /\ win' = Stop(win)

Reload ==
  /\ Called
  /\ win.current # None /\ win.loading = None
  /\ win' = Navigate(win, To(Page(win, win.current), FALSE), TRUE, FALSE)

(* Back from a query page returns to the page that was shown before it.    *)
BackFromQuery ==
  /\ Called
  /\ win.internal_nav /\ (Rush \/ win.loading = None)
  /\ win' = IF win.current_parameters.page # None THEN ReloadCurrent(win)
            ELSE Navigate(win, To(Blank, TRUE), TRUE, FALSE)

Back ==
  /\ Called
  /\ ~win.internal_nav /\ win.at # 0 /\ win.entries[win.at].back # 0
  /\ win' = HistoryGo(win, win.entries[win.at].back)

Forward ==
  /\ Called
  /\ win.at # 0 /\ win.entries[win.at].pref # 0
  /\ win' = HistoryGo(win, win.entries[win.at].pref)

(* A button of the query page that is shown is pressed.                    *)
Submit(button) ==
  LET q == Page(win, win.current)
      answer == [page |-> q, about |-> win.content[win.current].about,
                 posted |-> button, history |-> TRUE]
  IN /\ Called
     /\ win.current # None /\ q \in Queries /\ button \in Buttons[q]
     /\ win' = Navigate(win, answer, TRUE, FALSE)

(* The page the user sees, or is about to see, asks for a login.           *)
AsksLogin ==
  LET h == IF win.loading # None THEN win.loading ELSE win.current
  IN win.internal_nav /\ h # None /\ Page(win, h) = "auth"

CanAnswer == win.dialog /\ (StaleAnswers \/ AsksLogin)

(* The front end's login dialog, where it has one, is answered.            *)
AnswerLogin ==
  LET stopped == IF win.loading = None THEN win ELSE Stop(win) IN
  /\ Called
  /\ CanAnswer
  /\ win' = LoadAgain([stopped EXCEPT !.dialog = FALSE])

(* browser_window_refresh                                                  *)
Refresh ==
  LET from == Page(win, win.current)
      to   == IF from \in Sites THEN RefreshTo[from] ELSE None
      w    == [win EXCEPT !.timer = FALSE]
  IN /\ Called
     /\ win.timer
     /\ win' = IF to = None THEN w ELSE Navigate(w, To(to, to = from), TRUE, FALSE)

Destroy ==
  /\ win.open
  /\ win' = [NewWindow EXCEPT !.open = FALSE, !.dialog = win.dialog]
  /\ UNCHANGED calls

-----------------------------------------------------------------------------
(* browser_window_callback: what the high-level cache tells the window of  *)
(* the page that is loaded or shown.                                       *)

Told(h, from, w) ==
  /\ win.open /\ win.content[h].status = from
  /\ win' = w /\ UNCHANGED calls

Loading(h) ==
  /\ win.loading = h
  /\ Told(h, "fetching", [win EXCEPT !.content[h].status = "LOADING",
                                     !.refresh_interval = FALSE])

(* The page has a meta refresh.                                            *)
AsksRefresh(h) ==
  /\ Page(win, h) \in Sites /\ RefreshTo[Page(win, h)] # None
  /\ Told(h, "LOADING", [win EXCEPT !.refresh_interval = TRUE])

(* Faulty variant: a query page takes over the parameters as any page does *)
ReadyTransfers(h) ==
  LET left  == IF win.current = None THEN win ELSE Release(win, win.current)
      shown == [left EXCEPT !.content[h].status = "READY", !.current = h, !.loading = None,
                            !.current_parameters = win.loading_parameters,
                            !.loading_parameters = NoParams]
  IN /\ win.loading = h
     /\ Told(h, "LOADING",
             Update(IF win.history_add /\ ~win.internal_nav
                    THEN HistoryAdd(shown, h) ELSE shown))

Ready(h) ==
  LET left  == IF win.current = None THEN win ELSE Release(win, win.current)
      shown == [left EXCEPT !.content[h].status = "READY", !.current = h, !.loading = None]
      known == IF win.internal_nav THEN shown
               ELSE [shown EXCEPT !.current_parameters = win.loading_parameters,
                                  !.loading_parameters = NoParams]
  IN /\ win.loading = h
     /\ Told(h, "LOADING",
             Update(IF win.history_add /\ ~win.internal_nav
                    THEN HistoryAdd(known, h) ELSE known))

Done(h) ==
  /\ win.current = h
  /\ Told(h, "READY", ContentDone([win EXCEPT !.content[h].status = "DONE"]))

(* browser_window__handle_error: the query page for the error is loaded;   *)
(* for a login the front end may open a dialog too.                        *)
HandleError(h, q) ==
  LET left  == [Release(win, h) EXCEPT
                  !.loading = IF @ = h THEN None ELSE @,
                  !.current = IF @ = h /\ win.loading # h THEN None ELSE @,
                  !.internal_nav = TRUE]
      asked == [page |-> q, about |-> Page(win, h), posted |-> None, history |-> TRUE]
      w     == NavigateInternal(left, asked)
  IN IF q = "auth" THEN [w EXCEPT !.dialog = TRUE] ELSE w

Fails(h, q) ==
  /\ Page(win, h) \in Sites
  /\ \E status \in {"fetching", "LOADING"} : Told(h, status, HandleError(h, q))

(* Faulty variant: a download leaves the throbber turning.                 *)
DownloadThrobs(h) ==
  /\ win.loading = h /\ Page(win, h) \in Sites
  /\ Told(h, "fetching", [Release(win, h) EXCEPT !.loading = None])

(* The fetch turns out to be a download, which goes to a window of its own *)
Download(h) ==
  /\ win.loading = h /\ Page(win, h) \in Sites
  /\ Told(h, "fetching", [Release(win, h) EXCEPT !.loading = None, !.throbbing = FALSE])

LoadStep ==
  \E h \in Handles :
     \/ Loading(h)
     \/ Ready(h)
     \/ Done(h)
     \/ \E q \in Queries : Fails(h, q)
     \/ Download(h)

Next ==
  \/ LoadStep
  \/ \E h \in Handles : AsksRefresh(h)
  \/ \E site \in Sites, frag \in BOOLEAN : Open(site, frag)
  \/ StopButton
  \/ Reload
  \/ BackFromQuery
  \/ Back
  \/ Forward
  \/ \E button \in UNION {Buttons[q] : q \in Queries} : Submit(button)
  \/ AnswerLogin
  \/ Refresh
  \/ Destroy

Spec == Init /\ [][Next]_vars

(* Every load that was begun goes on until it ends: EveryHandleEnds of     *)
(* HLCache.                                                                *)
FairSpec == Spec /\ WF_vars(LoadStep)

-----------------------------------------------------------------------------
(* The handles that can still call back are the two the window knows:      *)
(* the page it shows is READY or DONE (browser_private.h:99), the one it   *)
(* loads is neither, and no handle was put out of sight by another before  *)
(* it was released.  The assertions of browser_window_callback rest on it. *)
SlotsHold ==
  LET live == {h \in Handles : win.content[h].status # "none"} IN
  /\ live = {win.loading, win.current} \ {None}
  /\ win.loading # None => win.content[win.loading].status \in {"fetching", "LOADING"}
  /\ win.current # None => win.content[win.current].status \in {"READY", "DONE"}

(* What may still call into the window finds what the code takes for       *)
(* granted: the refresh timer a page (browser_window.c:625), the buttons   *)
(* of a query page and its login dialog the parameters of the page that    *)
(* was to be loaded (browser_window.c:3677, 3747).                         *)
PendingFindsPage ==
  /\ win.timer => win.current # None
  /\ win.internal_nav => win.loading_parameters.page # None
  /\ win.current # None /\ Page(win, win.current) \in Queries =>
       win.loading_parameters.page # None
  /\ CanAnswer => win.open /\ win.loading_parameters.page # None

(* Whatever the user does, and whether a load ends, fails, becomes a       *)
(* download or cannot even be started, the throbber comes to rest.         *)
ComesToRest == win.throbbing ~> ~win.throbbing

-----------------------------------------------------------------------------
(* Stated by comments of the code, and not kept by it.                     *)

(* An entry of the local history carries the title and the scroll position *)
(* of its own page (browser_window.c:3345: "update the history entry       *)
(* before we navigate to save our current state").                         *)
TitlesKept == \A i \in DOMAIN win.entries : win.entries[i].shows = win.entries[i].page

(* With nothing under way, the fragment in the address is one of the page  *)
(* that is shown (browser_window.c:3929).                                  *)
FragOfPage ==
  win.loading = None /\ win.current # None =>
    win.frag \in {None, Page(win, win.current)}
=============================================================================
