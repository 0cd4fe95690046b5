------------------------- MODULE BrowserWindowProofs -------------------------
(***************************************************************************)
(* Proofs about the browser window and its history, for any sites, user    *)
(* and order of what the cache tells it.                                   *)
(*                                                                         *)
(* A function of the code is an operator from windows to windows; each has *)
(* a lemma here that says what it keeps, and a step of the window follows  *)
(* from the lemmas of the functions its handler calls.                     *)
(***************************************************************************)
EXTENDS BrowserWindow, SequenceTheorems, TLAPS

-----------------------------------------------------------------------------
\* The pages a window can be told to load of its own accord, and all pages.
Plain == Sites \cup {Blank, None}
Pages == Plain \cup Queries
Answers == {None, "login", "cancel", "proceed", "back", "retry"}

Params == [page : Pages, about : Plain, posted : Answers, history : BOOLEAN]
PlainParams == [page : Plain, about : Plain, posted : Answers, history : BOOLEAN]
Contents == [page : Pages, about : Plain,
             status : {"none", "fetching", "LOADING", "READY", "DONE"}]
Entries == [page : Sites \cup {Blank}, frag : BOOLEAN, back : Nat, pref : Nat, shows : Pages]

\* struct browser_window, its contents and its history, while the window is open.
Windows ==
  [loading : Handles \cup {None}, current : Handles \cup {None},
   loading_parameters : PlainParams, current_parameters : PlainParams,
   internal_nav : BOOLEAN, history_add : BOOLEAN, throbbing : BOOLEAN,
   refresh_interval : BOOLEAN, timer : BOOLEAN, frag : Pages,
   dialog : BOOLEAN, open : {TRUE}, content : [Handles -> Contents],
   entries : Seq(Entries), at : Nat]

\* The handles the window holds are those it knows, one loading and one shown.
Slots(w) ==
  /\ \A h \in Handles : w.content[h].status # "none" => h = w.loading \/ h = w.current
  /\ w.loading # None => w.content[w.loading].status \in {"fetching", "LOADING"}
  /\ w.current # None => w.content[w.current].status \in {"READY", "DONE"}

\* The parameters that are to be loaded outlive the query page about them, which is
\* only ever loaded inside an internal navigation and knows the page it is about.
Asked(w) ==
  /\ w.timer => w.current # None
  /\ w.internal_nav => w.loading_parameters.page # None
  /\ w.loading # None =>
        /\ w.loading_parameters.page # None
        /\ w.content[w.loading].page \in Queries => w.internal_nav
  /\ w.current # None /\ w.content[w.current].page \in Queries =>
        w.loading_parameters.page # None
  /\ \A h \in Handles : w.content[h].status # "none" =>
        /\ w.content[h].page # None
        /\ w.content[h].page \in Queries => w.content[h].about # None

\* The local history is a tree: an entry was added after the one it goes back to and
\* before the one it goes forward to.
Tree(w) ==
  /\ w.at \in 0 .. Len(w.entries)
  /\ \A i \in 1 .. Len(w.entries) :
        /\ w.entries[i].back \in 0 .. (i - 1)
        /\ w.entries[i].pref # 0 => w.entries[i].pref \in (i + 1) .. Len(w.entries)

Good(w) == w \in Windows /\ Slots(w) /\ Asked(w) /\ Tree(w)

\* What is left of a window that was closed: nothing of it can be called.
Closed(w) ==
  /\ ~w.open /\ ~w.internal_nav /\ ~w.timer
  /\ w.loading = None /\ w.current = None
  /\ Slots(w) /\ Tree(w)

Sound(w) == Good(w) \/ Closed(w)

\* Two windows alike but for the state of their contents, the throbber and the timer.
Like(v, w) ==
  /\ v.loading = w.loading /\ v.current = w.current
  /\ v.loading_parameters = w.loading_parameters
  /\ v.current_parameters = w.current_parameters
  /\ v.internal_nav <=> w.internal_nav
  /\ v.frag = w.frag
  /\ Len(v.entries) = Len(w.entries)

-----------------------------------------------------------------------------
\* None is no handle and no page, and the query pages are none of the web.
LEMMA Distinct ==
  /\ None \notin Handles /\ None \notin Sites \cup {Blank}
  /\ Queries = {"auth", "ssl", "timeout", "fetcherror"}
  /\ Queries \cap Plain = {}
  /\ None \notin {"login", "cancel", "proceed", "back", "retry"}
<1>1. Queries = {"auth", "ssl", "timeout", "fetcherror"}
  BY DEF Queries, Buttons
<1>2. Buttons["auth"] = {"login", "cancel"} /\ Buttons["ssl"] = {"proceed", "back"}
      /\ Buttons["timeout"] = {"retry", "back"}
  BY DEF Buttons
<1> QED BY <1>1, <1>2, WindowAssumption, PagesAssumption DEF Plain

\* The values records are reset to.
LEMMA Resets ==
  /\ NoContent \in Contents /\ NoContent.status = "none"
  /\ NoParams \in PlainParams
  /\ \A page \in Plain, history \in BOOLEAN : To(page, history) \in PlainParams
  /\ \A page : \A history \in BOOLEAN : To(page, history).page = page /\ To(page, history).posted = None
BY DEF NoContent, Contents, NoParams, PlainParams, To, Plain, Pages, Answers

\* What is alike is as good, when no timer is started and the contents are the same.
LEMMA LikeGood ==
  ASSUME NEW w, Good(w), NEW v \in Windows, Tree(v), Like(v, w), v.content = w.content,
         v.timer => w.timer \/ w.current # None
  PROVE  Good(v)
BY DEF Good, Slots, Asked, Like

\* Another page in the entry of the window.
LEMMA HistoryUpdateKeeps ==
  ASSUME NEW w \in Windows, Tree(w), NEW h \in Handles
  PROVE  LET v == HistoryUpdate(w, h)
         IN  v \in Windows /\ Tree(v) /\ Like(v, w) /\ v.content = w.content /\ (v.timer <=> w.timer)
<1> DEFINE e == [w.entries[w.at] EXCEPT !.shows = Page(w, h)]
           s == [w.entries EXCEPT ![w.at] = e]
           v == HistoryUpdate(w, h)
<1>1. CASE w.at = 0
  BY <1>1 DEF HistoryUpdate, Like
<1>2. CASE w.at # 0
  <2>0. w.entries \in Seq(Entries) /\ Len(w.entries) \in Nat
    BY LenProperties DEF Windows
  <2>1. w.at \in 1 .. Len(w.entries) /\ w.entries[w.at] \in Entries
    BY <1>2, <2>0, ElementOfSeq DEF Tree
  <2>2. e \in Entries /\ e.back = w.entries[w.at].back /\ e.pref = w.entries[w.at].pref
    BY <2>1 DEF Entries, Page, Windows, Contents
  <2>3. v = [w EXCEPT !.entries = s]
    BY <1>2 DEF HistoryUpdate, Windows
  <2> HIDE DEF e, v
  <2>4. /\ s \in Seq(Entries) /\ Len(s) = Len(w.entries)
        /\ \A i \in 1 .. Len(w.entries) : s[i] = IF i = w.at THEN e ELSE w.entries[i]
    BY <2>0, <2>1, <2>2, ExceptSeq
  <2> HIDE DEF s
  <2>5. v \in Windows /\ Like(v, w) /\ v.content = w.content /\ (v.timer <=> w.timer)
    BY <2>3, <2>4 DEF Windows, Like
  <2>6. v.entries = s /\ v.at = w.at
    BY <2>3 DEF Windows
  <2>7. Tree(v)
    BY <2>2, <2>4, <2>6 DEF Tree
  <2> QED BY <2>5, <2>7 DEF v
<1> QED BY <1>1, <1>2

\* A new entry: what was shown before it goes forward to it.
LEMMA HistoryAddKeeps ==
  ASSUME NEW w \in Windows, Tree(w), NEW h \in Handles, Page(w, h) \in Sites \cup {Blank}
  PROVE  LET v == HistoryAdd(w, h)
         IN  /\ v \in Windows /\ Tree(v) /\ v.content = w.content /\ (v.timer <=> w.timer)
             /\ v.loading = w.loading /\ v.current = w.current
             /\ v.loading_parameters = w.loading_parameters
             /\ v.internal_nav <=> w.internal_nav
<1> DEFINE n == Len(w.entries)
           f == w.frag # None
           entry == [page |-> Page(w, h), frag |-> f, back |-> w.at, pref |-> 0,
                     shows |-> Page(w, h)]
           old == IF w.at = 0 THEN w.entries ELSE [w.entries EXCEPT ![w.at].pref = n + 1]
           s == Append(old, entry)
           v == HistoryAdd(w, h)
<1>0. w.entries \in Seq(Entries) /\ n \in Nat /\ w.at \in 0 .. n
  BY LenProperties DEF Windows, Tree
<1>1. entry \in Entries /\ entry.back = w.at /\ entry.pref = 0
  <2>1. f \in BOOLEAN /\ w.at \in Nat /\ Page(w, h) \in Pages
    BY DEF Windows, Page, Contents
  <2> HIDE DEF f
  <2> QED BY <2>1 DEF Entries
<1>2. v = [w EXCEPT !.entries = s, !.at = n + 1]
  BY DEF HistoryAdd
<1> HIDE DEF v, f
<1>3. /\ old \in Seq(Entries) /\ Len(old) = n
      /\ \A i \in 1 .. n : /\ old[i].back = w.entries[i].back
                           /\ old[i].pref = IF i = w.at THEN n + 1 ELSE w.entries[i].pref
  <2>1. CASE w.at = 0
    BY <1>0, <2>1
  <2>2. CASE w.at # 0
    <3> DEFINE e == [w.entries[w.at] EXCEPT !.pref = n + 1]
    <3>1. w.at \in 1 .. n /\ w.entries[w.at] \in Entries
      BY <1>0, <2>2, ElementOfSeq
    <3>2. e \in Entries /\ e.back = w.entries[w.at].back /\ e.pref = n + 1
      BY SMTT(40), <1>0, <3>1 DEF Entries
    <3>3. old = [w.entries EXCEPT ![w.at] = e]
      BY <2>2
    <3> HIDE DEF e, old
    <3>4. /\ old \in Seq(Entries) /\ Len(old) = n
          /\ \A i \in 1 .. n : old[i] = IF i = w.at THEN e ELSE w.entries[i]
      BY <1>0, <3>1, <3>2, <3>3, ExceptSeq
    <3> QED BY <3>2, <3>4
  <2> QED BY <2>1, <2>2
<1> HIDE DEF old, entry
<1>4. /\ s \in Seq(Entries) /\ Len(s) = n + 1 /\ s[n + 1] = entry
      /\ \A i \in 1 .. n : s[i] = old[i]
  BY <1>1, <1>3, AppendProperties
<1> HIDE DEF s
<1>5. v \in Windows /\ v.entries = s /\ v.at = n + 1
  <2> DEFINE k == n + 1
  <2>1. k \in Nat /\ v = [w EXCEPT !.entries = s, !.at = k]
    BY <1>0, <1>2
  <2> HIDE DEF k
  <2>2. v \in Windows /\ v.entries = s /\ v.at = k
    BY <1>4, <2>1 DEF Windows
  <2> QED BY <2>2 DEF k
<1>6. Tree(v)
  <2>1. ASSUME NEW i \in 1 .. n + 1
        PROVE  /\ s[i].back \in 0 .. (i - 1)
               /\ s[i].pref # 0 => s[i].pref \in (i + 1) .. (n + 1)
    <3>1. CASE i = n + 1
      BY <1>0, <1>1, <1>4, <3>1
    <3>2. CASE i \in 1 .. n
      <4>1. /\ w.entries[i].back \in 0 .. (i - 1)
            /\ w.entries[i].pref # 0 => w.entries[i].pref \in (i + 1) .. n
        BY <3>2 DEF Tree
      <4>2. /\ s[i].back = w.entries[i].back
            /\ s[i].pref = IF i = w.at THEN n + 1 ELSE w.entries[i].pref
        BY <1>3, <1>4, <3>2
      <4> HIDE DEF n
      <4> QED BY <1>0, <3>2, <4>1, <4>2
    <3> QED BY <1>0, <3>1, <3>2
  <2> HIDE DEF n, entry
  <2>2. v.at \in 0 .. Len(v.entries) /\ Len(v.entries) = n + 1
    BY <1>0, <1>4, <1>5
  <2>3. \A i \in 1 .. n + 1 : v.entries[i] = s[i]
    BY <1>5
  <2> HIDE DEF v
  <2> QED BY <2>1, <2>2, <2>3 DEF Tree
<1>7. /\ v.content = w.content /\ (v.timer <=> w.timer)
      /\ v.loading = w.loading /\ v.current = w.current
      /\ v.loading_parameters = w.loading_parameters
      /\ v.internal_nav <=> w.internal_nav
  BY <1>2 DEF Windows
<1> QED BY <1>5, <1>6, <1>7 DEF v

\* browser_window_update touches the history only.
LEMMA UpdateKeeps ==
  ASSUME NEW w \in Windows, Tree(w)
  PROVE  LET v == Update(w)
         IN  v \in Windows /\ Tree(v) /\ Like(v, w) /\ v.content = w.content /\ (v.timer <=> w.timer)
<1>1. w.current # None => w.current \in Handles
  BY DEF Windows
<1> QED BY <1>1, HistoryUpdateKeeps DEF Update, Like

-----------------------------------------------------------------------------
\* A page that is shown comes to its end, or is stopped.
LEMMA ContentDoneKeeps ==
  ASSUME NEW w \in Windows, Tree(w), w.current # None
  PROVE  LET v == ContentDone(w)
         IN  v \in Windows /\ Tree(v) /\ Like(v, w) /\ v.content = w.content
<1> DEFINE u == Update(w)
           shown == [u EXCEPT !.throbbing = FALSE]
           saved == IF w.internal_nav THEN shown ELSE HistoryUpdate(shown, w.current)
           t == saved.timer \/ w.refresh_interval
           v == ContentDone(w)
<1>1. u \in Windows /\ Tree(u) /\ Like(u, w) /\ u.content = w.content /\ w.current \in Handles
  BY UpdateKeeps DEF Windows
<1>2. v = [saved EXCEPT !.timer = t]
  BY DEF ContentDone
<1> HIDE DEF u, v
<1>3. shown \in Windows /\ Tree(shown) /\ Like(shown, w) /\ shown.content = w.content
  BY <1>1 DEF Windows, Tree, Like
<1> HIDE DEF shown
<1>4. saved \in Windows /\ Tree(saved) /\ Like(saved, w) /\ saved.content = w.content
  BY <1>1, <1>3, HistoryUpdateKeeps DEF Like
<1>5. t \in BOOLEAN
  OBVIOUS
<1> HIDE DEF saved, t
<1>6. v \in Windows /\ Tree(v) /\ Like(v, w) /\ v.content = w.content
  BY <1>2, <1>4, <1>5 DEF Windows, Tree, Like
<1> QED BY <1>6 DEF v

\* The page that is shown is done.
LEMMA DoneIsGood ==
  ASSUME NEW w, Good(w), w.current # None
  PROVE  LET v == ContentDone([w EXCEPT !.content[w.current].status = "DONE"])
         IN  /\ Good(v) /\ Like(v, w)
             /\ \A h \in Handles : /\ v.content[h].page = w.content[h].page
                                   /\ v.content[h].about = w.content[h].about
<1> DEFINE u == [w EXCEPT !.content[w.current].status = "DONE"]
           v == ContentDone(u)
<1>0. w \in Windows /\ w.current \in Handles
  BY DEF Good, Windows
<1>1. u \in Windows /\ Tree(u) /\ Like(u, w)
  <2> DEFINE x == [w.content[w.current] EXCEPT !.status = "DONE"]
             c == [w.content EXCEPT ![w.current] = x]
  <2>1. x \in Contents
    BY <1>0 DEF Windows, Contents
  <2>2. c \in [Handles -> Contents] /\ u = [w EXCEPT !.content = c]
    BY <1>0, <2>1 DEF Windows
  <2> HIDE DEF c, u
  <2>3. u \in Windows /\ Like(u, w) /\ u.entries = w.entries /\ u.at = w.at
    BY <1>0, <2>2 DEF Windows, Like
  <2> QED BY <2>3 DEF Good, Tree
<1>2. /\ \A h \in Handles : /\ u.content[h].page = w.content[h].page
                             /\ u.content[h].about = w.content[h].about
      /\ \A h \in Handles \ {w.current} : u.content[h].status = w.content[h].status
      /\ u.content[w.current].status = "DONE"
  BY <1>0 DEF Windows, Contents
<1> HIDE DEF u, v
<1>3. v \in Windows /\ Tree(v) /\ Like(v, w) /\ v.content = u.content
  <2>1. u.current # None
    BY <1>1 DEF Like
  <2> QED BY <1>1, <2>1, ContentDoneKeeps DEF Like, v
<1>4. Good(v)
  <2>1. /\ v.loading = w.loading /\ v.current = w.current /\ v.content = u.content
        /\ v.loading_parameters = w.loading_parameters
        /\ v.internal_nav <=> w.internal_nav
    BY <1>3 DEF Like
  <2>2. Slots(w) /\ Asked(w)
    BY DEF Good
  <2>3. \A h \in Handles : v.content[h].status # "none" => w.content[h].status # "none"
    BY <1>0, <1>2, <2>1, <2>2 DEF Slots
  <2>4. Slots(v)
    <3>1. \A h \in Handles : v.content[h].status # "none" => h = v.loading \/ h = v.current
      BY <2>1, <2>2, <2>3 DEF Slots
    <3>2. v.current # None => v.content[v.current].status \in {"READY", "DONE"}
      BY <1>2, <2>1
    <3>3. v.loading # None => v.content[v.loading].status \in {"fetching", "LOADING"}
      <4>1. w.loading # None => w.loading \in Handles
        BY <1>0 DEF Windows
      <4>2. w.loading # None => w.content[w.loading].status \in {"fetching", "LOADING"}
        BY <2>2 DEF Slots
      <4>3. w.content[w.current].status \in {"READY", "DONE"}
        BY <2>2 DEF Slots
      <4> QED BY <1>2, <2>1, <4>1, <4>2, <4>3
    <3> QED BY <3>1, <3>2, <3>3 DEF Slots
  <2>5. Asked(v)
    <3>1. \A h \in Handles : v.content[h].page = w.content[h].page
                            /\ v.content[h].about = w.content[h].about
      BY <1>2, <2>1
    <3>2. \A h \in Handles : v.content[h].status # "none" =>
             /\ v.content[h].page # None
             /\ v.content[h].page \in Queries => v.content[h].about # None
      BY <2>2, <2>3, <3>1 DEF Asked
    <3>3. v.timer => v.current # None
      BY <2>1
    <3>4. v.internal_nav => v.loading_parameters.page # None
      BY <2>1, <2>2 DEF Asked
    <3>5. v.loading # None =>
             /\ v.loading_parameters.page # None
             /\ v.content[v.loading].page \in Queries => v.internal_nav
      <4>1. w.loading # None => w.loading \in Handles
        BY <1>0 DEF Windows
      <4>2. w.loading # None =>
               /\ w.loading_parameters.page # None
               /\ w.content[w.loading].page \in Queries => w.internal_nav
        BY <2>2 DEF Asked
      <4> QED BY <2>1, <3>1, <4>1, <4>2
    <3>6. v.current # None /\ v.content[v.current].page \in Queries =>
             v.loading_parameters.page # None
      <4>1. w.content[w.current].page \in Queries => w.loading_parameters.page # None
        BY <2>2 DEF Asked
      <4> QED BY <1>0, <2>1, <3>1, <4>1
    <3> QED BY <3>2, <3>3, <3>4, <3>5, <3>6 DEF Asked
  <2> QED BY <1>3, <2>4, <2>5 DEF Good
<1> QED BY <1>2, <1>3, <1>4 DEF v, u

\* Giving a handle up.
LEMMA ReleaseKeeps ==
  ASSUME NEW w \in Windows, Tree(w), NEW h \in Handles
  PROVE  LET v == Release(w, h)
         IN  /\ v \in Windows /\ Tree(v) /\ Like(v, w) /\ (v.timer <=> w.timer)
             /\ v.content[h].status = "none"
             /\ \A g \in Handles \ {h} : v.content[g] = w.content[g]
<1> DEFINE c == [w.content EXCEPT ![h] = NoContent]
           v == Release(w, h)
<1>1. v = [w EXCEPT !.content = c]
  BY DEF Release, Windows
<1>2. c \in [Handles -> Contents] /\ c[h].status = "none" /\ \A g \in Handles \ {h} : c[g] = w.content[g]
  BY Resets DEF Windows
<1> HIDE DEF c, v
<1>3. /\ v \in Windows /\ v.content = c /\ Like(v, w) /\ (v.timer <=> w.timer)
      /\ v.entries = w.entries /\ v.at = w.at
  BY <1>1, <1>2 DEF Windows, Like
<1>4. Tree(v)
  BY <1>3 DEF Tree
<1> QED BY <1>2, <1>3, <1>4 DEF v

\* browser_window_stop leaves nothing loading and the page that is shown in place.
LEMMA StopIsGood ==
  ASSUME NEW w, Good(w)
  PROVE  LET v == Stop(w)
         IN  /\ Good(v) /\ v.loading = None /\ v.current = w.current
             /\ v.loading_parameters = w.loading_parameters
             /\ v.current_parameters = w.current_parameters
             /\ v.internal_nav <=> w.internal_nav
             /\ v.frag = w.frag
             /\ v.current # None =>
                  /\ v.content[v.current].page = w.content[w.current].page
                  /\ v.content[v.current].about = w.content[w.current].about
<1> DEFINE r == Release(w, w.loading)
           dropped == IF w.loading = None THEN w ELSE [r EXCEPT !.loading = None]
           c == [dropped EXCEPT !.content[dropped.current].status = "DONE"]
           aborted == IF w.current # None /\ w.content[w.current].status = "READY"
                      THEN AbortCurrent(dropped) ELSE dropped
           v == Stop(w)
<1>0. w \in Windows /\ w.current \in Handles \cup {None} /\ w.loading \in Handles \cup {None}
  BY DEF Good, Windows
<1>a. v = [aborted EXCEPT !.timer = FALSE, !.throbbing = FALSE]
  BY DEF Stop
<1>b. w.loading # None => w.loading # w.current
  BY DEF Good, Slots
<1> HIDE DEF v
<1>1. /\ Good(dropped) /\ dropped.loading = None /\ dropped.current = w.current
      /\ dropped.loading_parameters = w.loading_parameters
      /\ dropped.current_parameters = w.current_parameters
      /\ dropped.internal_nav <=> w.internal_nav
      /\ dropped.frag = w.frag
      /\ w.current # None => dropped.content[w.current] = w.content[w.current]
  <2>1. CASE w.loading = None
    BY <2>1
  <2>2. CASE w.loading # None
    <3>0. Tree(w)
      BY DEF Good
    <3>1. /\ r \in Windows /\ Tree(r) /\ Like(r, w) /\ (r.timer <=> w.timer)
          /\ r.content[w.loading].status = "none"
          /\ \A g \in Handles \ {w.loading} : r.content[g] = w.content[g]
      BY <1>0, <2>2, <3>0, ReleaseKeeps
    <3> HIDE DEF r
    <3> DEFINE d == [r EXCEPT !.loading = None]
    <3>2. /\ d \in Windows /\ d.loading = None /\ d.content = r.content /\ d.current = w.current
          /\ d.loading_parameters = w.loading_parameters
          /\ d.current_parameters = w.current_parameters
          /\ d.internal_nav <=> w.internal_nav
          /\ d.timer <=> w.timer
          /\ d.frag = w.frag /\ d.entries = r.entries /\ d.at = r.at
      BY <3>1 DEF Windows, Like
    <3>3. dropped = d
      BY <2>2
    <3> HIDE DEF d, dropped
    <3>4. Slots(d)
      BY <1>0, <1>b, <2>2, <3>1, <3>2 DEF Good, Slots
    <3>5. Asked(d)
      BY <1>0, <1>b, <2>2, <3>1, <3>2 DEF Good, Asked
    <3>6. Tree(d)
      BY <3>1, <3>2 DEF Tree
    <3> QED BY <1>0, <1>b, <3>1, <3>2, <3>3, <3>4, <3>5, <3>6 DEF Good
  <2> QED BY <2>1, <2>2
<1> HIDE DEF dropped
<1>2. /\ Good(aborted) /\ Like(aborted, dropped)
      /\ \A h \in Handles : /\ aborted.content[h].page = dropped.content[h].page
                            /\ aborted.content[h].about = dropped.content[h].about
  <2>1. CASE w.current # None /\ aborted = ContentDone(c)
    <3>1. dropped.current # None
      BY <1>1, <2>1
    <3> QED BY <1>1, <2>1, <3>1, DoneIsGood
  <2>2. CASE aborted = dropped
    BY <1>1, <2>2 DEF Like
  <2> QED BY <2>1, <2>2 DEF AbortCurrent
<1> HIDE DEF aborted
<1>3. /\ v \in Windows /\ Like(v, aborted) /\ v.content = aborted.content /\ ~v.timer
      /\ v.entries = aborted.entries /\ v.at = aborted.at
  BY <1>2, <1>a DEF Good, Windows, Like
<1>4. Tree(v)
  BY <1>2, <1>3 DEF Good, Tree
<1>5. Good(v)
  BY <1>2, <1>3, <1>4, LikeGood
<1>6. v.current # None =>
        /\ v.content[v.current].page = w.content[w.current].page
        /\ v.content[v.current].about = w.content[w.current].about
  BY <1>0, <1>1, <1>2, <1>3 DEF Like
<1> QED BY <1>1, <1>2, <1>3, <1>5, <1>6 DEF v, Like

-----------------------------------------------------------------------------
\* Navigation.  With nothing loading there is a handle for the page to be retrieved,
\* and a query page is only retrieved about a page and inside an internal navigation.
LEMMA RetrieveIsGood ==
  ASSUME NEW w, Good(w), w.loading = None, w.loading_parameters.page # None,
         NEW p \in Params, p.page # None,
         p.page \in Queries => w.internal_nav /\ p.about # None
  PROVE  Good(Retrieve(w, p))
<1> DEFINE h == CHOOSE x \in FreeHandles(w) : TRUE
           b == p.history
           asked == [w EXCEPT !.history_add = b]
           x == [page |-> p.page, about |-> p.about, status |-> "fetching"]
           c == [w.content EXCEPT ![h] = x]
           v == [asked EXCEPT !.content = c, !.loading = h, !.throbbing = TRUE]
<1>0. w \in Windows /\ Tree(w) /\ w.current \in Handles \cup {None} /\ None \notin Handles
  BY Distinct DEF Good, Windows
<1>1. h \in Handles /\ w.content[h].status = "none"
  <2>1. PICK g \in Handles : g # w.current
    BY HandlesAssumption
  <2>2. g \in FreeHandles(w)
    BY <1>0, <2>1 DEF FreeHandles, Good, Slots
  <2> QED BY <2>2 DEF FreeHandles
<1>2. b \in BOOLEAN /\ x \in Contents
  BY DEF Params, Contents
<1> HIDE DEF h, b
<1>3. /\ asked \in Windows /\ Like(asked, w) /\ (asked.timer <=> w.timer)
      /\ asked.content = w.content /\ asked.entries = w.entries /\ asked.at = w.at
  BY <1>0, <1>2 DEF Windows, Like
<1>4. Retrieve(w, p) = asked \/ Retrieve(w, p) = v
  <2>1. v = [asked EXCEPT !.content[h] = x, !.loading = h, !.throbbing = TRUE]
    BY <1>3 DEF Windows
  <2> QED BY <2>1 DEF Retrieve, h, b
<1> HIDE DEF asked
<1>5. Good(asked)
  <2>1. Tree(asked)
    BY <1>0, <1>3 DEF Tree
  <2> QED BY <1>3, <2>1, LikeGood
<1>6. /\ c \in [Handles -> Contents] /\ c[h] = x
      /\ \A g \in Handles \ {h} : c[g] = w.content[g]
  BY <1>0, <1>1, <1>2 DEF Windows
<1> HIDE DEF c
<1>7. x.page = p.page /\ x.about = p.about /\ x.status = "fetching"
  OBVIOUS
<1> HIDE DEF x
<1>8. /\ v \in Windows /\ v.content = c /\ v.loading = h /\ v.current = w.current
      /\ v.loading_parameters = w.loading_parameters
      /\ v.internal_nav <=> w.internal_nav
      /\ v.timer <=> w.timer
      /\ v.entries = w.entries /\ v.at = w.at
  BY <1>1, <1>3, <1>6 DEF Windows, Like
<1> HIDE DEF v
<1>9. Slots(v)
  BY <1>0, <1>1, <1>6, <1>7, <1>8 DEF Good, Slots
<1>10. Asked(v)
  BY <1>0, <1>1, <1>6, <1>7, <1>8 DEF Good, Slots, Asked
<1>11. Tree(v)
  BY <1>0, <1>8 DEF Tree
<1> QED BY <1>4, <1>5, <1>8, <1>9, <1>10, <1>11 DEF Good

\* A window without a page that loads takes other parameters and another mode.
LEMMA AimIsGood ==
  ASSUME NEW w, Good(w), w.loading = None,
         NEW v \in Windows, v.loading = None, v.current = w.current, v.content = w.content,
         v.timer => w.timer, v.entries = w.entries, v.at = w.at, v.loading_parameters.page # None
  PROVE  Good(v)
<1>1. Slots(v)
  BY DEF Good, Slots
<1>2. Asked(v)
  BY DEF Good, Asked
<1>3. Tree(v)
  BY DEF Good, Tree
<1> QED BY <1>1, <1>2, <1>3 DEF Good

\* browser_window__reload_current_parameters.
LEMMA ReloadIsGood ==
  ASSUME NEW w, Good(w), w.loading = None
  PROVE  Good(ReloadCurrent(w))
<1> DEFINE cp == w.current_parameters
           p == IF cp.page = None THEN To(Blank, FALSE)
                ELSE [cp EXCEPT !.posted = None, !.history = FALSE]
           v == [w EXCEPT !.internal_nav = FALSE, !.loading_parameters = p,
                          !.current_parameters = NoParams]
<1>0. w \in Windows /\ cp \in PlainParams /\ w.frag \in Pages
  BY DEF Good, Windows
<1>1. p \in PlainParams /\ p.page # None
  <2>1. CASE cp.page = None
    BY <2>1, Resets, Distinct DEF Plain
  <2>2. CASE cp.page # None
    BY <1>0, <2>2 DEF PlainParams, Answers
  <2> QED BY <2>1, <2>2
<1>2. ReloadCurrent(w) = Retrieve(v, p)
  BY DEF ReloadCurrent
<1> HIDE DEF p
<1>3. /\ v \in Windows /\ v.loading = None /\ v.current = w.current /\ v.content = w.content
      /\ v.timer => w.timer
      /\ v.entries = w.entries /\ v.at = w.at /\ v.loading_parameters = p
  BY <1>0, <1>1, Resets DEF Windows
<1> HIDE DEF v
<1>4. Good(v)
  BY <1>1, <1>3, AimIsGood
<1>5. p \in Params /\ p.page \notin Queries
  BY <1>1, Distinct DEF PlainParams, Params, Pages
<1> QED BY <1>1, <1>2, <1>3, <1>4, <1>5, RetrieveIsGood

\* The original parameters are loaded again.
LEMMA LoadAgainIsGood ==
  ASSUME NEW w, Good(w), w.loading = None, w.loading_parameters.page # None
  PROVE  Good(LoadAgain(w))
<1> DEFINE q == w.loading_parameters
           v == [w EXCEPT !.internal_nav = FALSE]
<1>1. /\ w \in Windows /\ q \in PlainParams /\ w.current_parameters \in PlainParams
      /\ w.frag \in Pages
  BY DEF Good, Windows
<1>2. /\ v \in Windows /\ v.loading = None /\ v.current = w.current /\ v.content = w.content
      /\ v.timer => w.timer
      /\ v.entries = w.entries /\ v.at = w.at /\ v.loading_parameters = q
  BY <1>1 DEF Windows
<1>3. LoadAgain(w) = Retrieve(v, q)
  BY DEF LoadAgain
<1>4. q \in Params /\ q.page \notin Queries /\ q.page # None
  BY <1>1, Distinct DEF PlainParams, Params, Pages
<1> HIDE DEF v, q
<1>5. Good(v)
  BY <1>2, <1>4, AimIsGood
<1> QED BY <1>2, <1>3, <1>4, <1>5, RetrieveIsGood

\* The answer to the page about a bad certificate.
LEMMA SslIsGood ==
  ASSUME NEW w, Good(w), w.loading_parameters.page # None, NEW proceed \in BOOLEAN
  PROVE  Good(SslQueryResponse(w, proceed))
<1> DEFINE stopped == IF w.loading = None THEN w ELSE Stop(w)
<1>1. Good(stopped) /\ stopped.loading = None /\ stopped.loading_parameters = w.loading_parameters
  BY StopIsGood
<1> HIDE DEF stopped
<1>2. Good(LoadAgain(stopped)) /\ Good(ReloadCurrent(stopped))
  BY <1>1, LoadAgainIsGood, ReloadIsGood
<1> QED BY <1>2 DEF SslQueryResponse, stopped

\* An answer that a query page can post, and the page it is about.
Answer(w, p) ==
  /\ p \in Params /\ p.page \in Queries /\ p.posted \in Buttons[p.page]
  /\ p.about \in Plain \ {None} /\ w.loading_parameters.page # None

\* What the buttons of the query pages post.
LEMMA AnswersAre ==
  ASSUME NEW q \in Queries, NEW b \in Buttons[q]
  PROVE  /\ b # None
         /\ q = "ssl" => b \in {"proceed", "back"}
         /\ q # "ssl" => b \in {"login", "cancel", "retry", "back"}
BY Distinct DEF Buttons, Queries

\* An answer that was posted is acted on.
LEMMA AnswerIsGood ==
  ASSUME NEW w, Good(w), w.loading = None, NEW p, Answer(w, p)
  PROVE  Good(NavigateInternal(w, p))
<1>0. w \in Windows /\ p.posted # None
  BY AnswersAre DEF Good, Answer
<1>a. /\ p.page = "ssl" => p.posted \in {"proceed", "back"}
      /\ p.page # "ssl" => p.posted \in {"login", "cancel", "retry", "back"}
  BY AnswersAre DEF Answer
<1>1. CASE p.posted = "cancel"
  <2> DEFINE away == To(Blank, FALSE)
             v == [w EXCEPT !.loading_parameters = away, !.internal_nav = TRUE]
  <2>1. away \in PlainParams /\ away.page = Blank /\ Blank # None /\ Blank \in Plain
    BY Resets, Distinct DEF Plain
  <2>2. NavigateInternal(w, p) = Retrieve(v, away)
    BY <1>0, <1>a, <1>1 DEF NavigateInternal
  <2> HIDE DEF away
  <2>3. /\ v \in Windows /\ v.loading = None /\ v.current = w.current /\ v.content = w.content
        /\ v.timer => w.timer
        /\ v.entries = w.entries /\ v.at = w.at /\ v.loading_parameters = away
    BY <1>0, <2>1 DEF Windows
  <2> HIDE DEF v
  <2>4. Good(v)
    BY <2>1, <2>3, AimIsGood
  <2>5. away \in Params /\ away.page \notin Queries
    BY <2>1, Distinct DEF PlainParams, Params, Pages
  <2> QED BY <2>1, <2>2, <2>3, <2>4, <2>5, RetrieveIsGood
<1>2. CASE p.posted \in {"login", "retry"}
  <2>1. NavigateInternal(w, p) = LoadAgain(w)
    BY <1>2, AnswersAre DEF NavigateInternal, Answer
  <2> QED BY <2>1, LoadAgainIsGood DEF Answer
<1>3. CASE p.posted \in {"proceed", "back"} /\ p.page = "ssl"
  <2> DEFINE q == [w.loading_parameters EXCEPT !.page = p.about]
             v == [w EXCEPT !.loading_parameters = q]
             b == p.posted = "proceed"
  <2>1. q \in PlainParams /\ q.page # None
    BY <1>0 DEF Windows, PlainParams, Answer
  <2>2. v = [w EXCEPT !.loading_parameters.page = p.about]
    BY <1>0 DEF Windows
  <2>3. NavigateInternal(w, p) = SslQueryResponse(v, b)
    BY <1>0, <1>3, <2>2 DEF NavigateInternal
  <2> HIDE DEF q
  <2>4. /\ v \in Windows /\ v.loading = None /\ v.current = w.current /\ v.content = w.content
        /\ v.timer => w.timer
        /\ v.entries = w.entries /\ v.at = w.at /\ v.loading_parameters = q
    BY <1>0, <2>1 DEF Windows
  <2> HIDE DEF v
  <2>5. Good(v)
    BY <2>1, <2>4, AimIsGood
  <2>6. b \in BOOLEAN
    OBVIOUS
  <2> HIDE DEF b
  <2> QED BY <2>1, <2>3, <2>4, <2>5, <2>6, SslIsGood
<1>4. CASE p.posted = "back" /\ p.page # "ssl"
  <2>1. NavigateInternal(w, p) = ReloadCurrent(w)
    BY <1>0, <1>4 DEF NavigateInternal
  <2> QED BY <2>1, ReloadIsGood
<1> QED BY <1>a, <1>1, <1>2, <1>3, <1>4

\* A page that was not posted is retrieved.
LEMMA NothingPosted ==
  ASSUME NEW w, NEW p, p.posted = None
  PROVE  NavigateInternal(w, p) = Retrieve(w, p)
BY Distinct DEF NavigateInternal

\* The window before it navigates: the history is saved ...
LEMMA SavedIsGood ==
  ASSUME NEW w, Good(w), w.current # None
  PROVE  LET v == HistoryUpdate(w, w.current)
         IN  Good(v) /\ Like(v, w) /\ v.content = w.content
<1>0. w \in Windows /\ Tree(w) /\ w.current \in Handles
  BY DEF Good, Windows
<1> DEFINE v == HistoryUpdate(w, w.current)
<1>1. v \in Windows /\ Tree(v) /\ Like(v, w) /\ v.content = w.content /\ (v.timer <=> w.timer)
  BY <1>0, HistoryUpdateKeeps
<1> HIDE DEF v
<1>2. Good(v)
  BY <1>1, LikeGood
<1> QED BY <1>1, <1>2 DEF v

\* ... and the fragment taken.
LEMMA FragIsGood ==
  ASSUME NEW w, Good(w), NEW f \in Pages
  PROVE  LET v == [w EXCEPT !.frag = f]
         IN  /\ Good(v) /\ v.current = w.current /\ v.content = w.content
             /\ v.loading_parameters = w.loading_parameters
<1> DEFINE v == [w EXCEPT !.frag = f]
<1>1. /\ v \in Windows /\ v.loading = w.loading /\ v.current = w.current
      /\ v.content = w.content /\ v.loading_parameters = w.loading_parameters
      /\ v.internal_nav <=> w.internal_nav
      /\ v.timer <=> w.timer
      /\ v.entries = w.entries /\ v.at = w.at
  BY DEF Good, Windows
<1> HIDE DEF v
<1>2. Slots(v) /\ Tree(v)
  BY <1>1 DEF Good, Slots, Tree
<1>3. Asked(v)
  BY <1>1 DEF Good, Asked
<1> QED BY <1>1, <1>2, <1>3 DEF Good, v

\* browser_window_navigate to a page of the web.
LEMMA NavigateIsGood ==
  ASSUME NEW w, Good(w), NEW p \in PlainParams, p.page \in Sites \cup {Blank}, p.posted = None,
         NEW save, NEW frag
  PROVE  Good(Navigate(w, p, save, frag))
<1> DEFINE saved == IF save /\ w.current # None THEN HistoryUpdate(w, w.current) ELSE w
           f == IF frag THEN p.page ELSE None
           aimed == [saved EXCEPT !.frag = f]
           same == frag /\ w.current # None /\ Page(w, w.current) = p.page
           added == IF p.history THEN HistoryAdd(aimed, w.current) ELSE aimed
           st == Stop(aimed)
           ready == [st EXCEPT !.internal_nav = FALSE]
           r == [ready EXCEPT !.loading_parameters = p]
<1>0. w \in Windows /\ p.page \notin Queries /\ p.page # None /\ p \in Params
  BY Distinct DEF Good, PlainParams, Params, Pages, Plain
<1>1. Navigate(w, p, save, frag) = IF same THEN Update(added) ELSE NavigateInternal(r, p)
  <2>1. (p.page \in Queries) = FALSE
    BY <1>0
  <2> QED BY <1>0, <2>1 DEF Navigate
<1>2. f \in Pages
  BY <1>0 DEF Plain, Pages
<1>3. Good(aimed) /\ aimed.current = w.current /\ aimed.content = w.content
  <2> HIDE DEF f
  <2>1. Good(saved) /\ Like(saved, w) /\ saved.content = w.content
    BY SavedIsGood DEF Like
  <2> HIDE DEF saved
  <2> QED BY <1>2, <2>1, FragIsGood DEF Like
<1> HIDE DEF aimed
<1>4. CASE same
  <2>1. aimed \in Windows /\ Tree(aimed) /\ w.current \in Handles /\ Page(aimed, w.current) = p.page
    BY <1>0, <1>3, <1>4 DEF Good, Windows, Page
  <2>2. /\ added \in Windows /\ Tree(added) /\ added.content = aimed.content
        /\ added.timer <=> aimed.timer
        /\ added.loading = aimed.loading /\ added.current = aimed.current
        /\ added.loading_parameters = aimed.loading_parameters
        /\ added.internal_nav <=> aimed.internal_nav
    BY <2>1, HistoryAddKeeps
  <2> HIDE DEF added
  <2>3. Good(added)
    BY <1>3, <2>2 DEF Good, Slots, Asked
  <2> DEFINE u == Update(added)
  <2>4. u \in Windows /\ Tree(u) /\ Like(u, added) /\ u.content = added.content /\ (u.timer <=> added.timer)
    BY <2>2, UpdateKeeps
  <2> HIDE DEF u
  <2>5. Good(u)
    BY <2>3, <2>4, LikeGood
  <2> QED BY <1>1, <1>4, <2>5 DEF u
<1>5. CASE ~same
  <2>1. Good(st) /\ st.loading = None
    BY <1>3, StopIsGood
  <2> HIDE DEF st
  <2>2. /\ r \in Windows /\ r.loading = None /\ r.current = st.current /\ r.content = st.content
        /\ r.timer => st.timer
        /\ r.entries = st.entries /\ r.at = st.at /\ r.loading_parameters = p
    BY <2>1 DEF Good, Windows
  <2> HIDE DEF r
  <2>3. Good(r)
    BY <1>0, <2>1, <2>2, AimIsGood
  <2>4. Good(Retrieve(r, p))
    BY <1>0, <2>2, <2>3, RetrieveIsGood
  <2> QED BY <1>1, <1>5, <2>4, NothingPosted
<1> QED BY <1>4, <1>5

\* browser_window_navigate to the answer of the query page that is shown.
LEMMA SubmitIsGood ==
  ASSUME NEW w, Good(w), NEW p, Answer(w, p)
  PROVE  Good(Navigate(w, p, TRUE, FALSE))
<1> DEFINE aimed == [w EXCEPT !.frag = None]
           st == Stop(aimed)
           ready == [st EXCEPT !.internal_nav = TRUE]
<1>0. w \in Windows /\ p.page \in Queries /\ p.posted # None /\ w.loading_parameters.page # None
  BY AnswersAre DEF Good, Answer
<1>1. Navigate(w, p, TRUE, FALSE) = NavigateInternal(ready, p)
  <2>1. (p.page \in Queries) = TRUE
    BY <1>0
  <2> QED BY <1>0, <2>1 DEF Navigate
<1>2. Good(aimed) /\ aimed.loading_parameters = w.loading_parameters
  <2>1. None \in Pages
    BY DEF Pages, Plain
  <2> QED BY <2>1, FragIsGood
<1> HIDE DEF aimed
<1>3. Good(st) /\ st.loading = None /\ st.loading_parameters = w.loading_parameters
  BY <1>2, StopIsGood
<1> HIDE DEF st
<1>4. /\ ready \in Windows /\ ready.loading = None /\ ready.current = st.current
      /\ ready.content = st.content
      /\ ready.timer => st.timer
      /\ ready.entries = st.entries /\ ready.at = st.at
      /\ ready.loading_parameters = w.loading_parameters
  BY <1>3 DEF Good, Windows
<1> HIDE DEF ready
<1>5. Good(ready)
  BY <1>0, <1>3, <1>4, AimIsGood
<1>6. Answer(ready, p)
  BY <1>4 DEF Answer
<1> QED BY <1>1, <1>4, <1>5, <1>6, AnswerIsGood

\* history_go to an entry of the history.
LEMMA HistoryGoIsGood ==
  ASSUME NEW w, Good(w), NEW k \in 1 .. Len(w.entries)
  PROVE  Good(HistoryGo(w, k))
<1> DEFINE saved == IF w.current = None THEN w ELSE HistoryUpdate(w, w.current)
           e == saved.entries[k]
           v == [saved EXCEPT !.at = k]
           t == To(e.page, FALSE)
<1>0. w \in Windows /\ Tree(w) /\ w.current \in Handles \cup {None}
  BY DEF Good, Windows
<1>1. /\ saved \in Windows /\ Tree(saved) /\ Like(saved, w) /\ saved.content = w.content
      /\ saved.timer <=> w.timer
  BY <1>0, HistoryUpdateKeeps DEF Like
<1>2. HistoryGo(w, k) = Navigate(v, t, FALSE, e.frag)
  BY DEF HistoryGo
<1> HIDE DEF saved
<1>3. saved.entries \in Seq(Entries) /\ Len(saved.entries) \in Nat /\ k \in 1 .. Len(saved.entries)
  BY <1>1, LenProperties DEF Windows, Like
<1>4. e \in Entries
  BY <1>3, ElementOfSeq
<1>5. Good(saved)
  BY <1>1, LikeGood
<1>6. /\ v \in Windows /\ Like(v, saved) /\ v.content = saved.content
      /\ v.timer <=> saved.timer
      /\ v.entries = saved.entries /\ v.at = k
  <2>1. k \in Nat
    BY <1>3
  <2> QED BY <1>1, <2>1 DEF Windows, Like
<1> HIDE DEF v
<1>7. Tree(v)
  BY <1>1, <1>3, <1>6 DEF Tree
<1>8. Good(v)
  BY <1>5, <1>6, <1>7, LikeGood
<1>9. /\ e.page \in Sites \cup {Blank} /\ e.page \in Plain /\ e.frag \in BOOLEAN
      /\ FALSE \in BOOLEAN
  BY <1>4 DEF Entries, Plain
<1>10. t \in PlainParams /\ t.page = e.page /\ t.posted = None
  BY <1>9, Resets
<1> HIDE DEF t
<1> QED BY <1>2, <1>8, <1>9, <1>10, NavigateIsGood

-----------------------------------------------------------------------------
\* A window that was just made, and what is left of one that was closed.
LEMMA NewIsGood ==
  ASSUME NEW dialog
  PROVE  Good(NewWindow) /\ Closed([NewWindow EXCEPT !.open = FALSE, !.dialog = dialog])
<1> DEFINE v == [NewWindow EXCEPT !.open = FALSE, !.dialog = dialog]
           c == [h \in Handles |-> NoContent]
<1>1. ASSUME NEW w, w.loading = None, w.current = None, ~w.internal_nav, ~w.timer,
             w.content = c, w.entries = <<>>, w.at = 0
      PROVE  Slots(w) /\ Asked(w) /\ Tree(w)
  <2>1. \A h \in Handles : c[h].status = "none"
    BY Resets
  <2> HIDE DEF c
  <2>2. Len(<<>>) = 0
    BY EmptySeq
  <2> QED BY <1>1, <2>1, <2>2 DEF Slots, Asked, Tree
<1>2. <<>> \in Seq(Entries)
  BY EmptySeq
<1>3. c \in [Handles -> Contents]
  BY Resets
<1>4. NewWindow \in Windows
  <2> HIDE DEF c
  <2> QED BY <1>2, <1>3, Resets DEF NewWindow, Windows, Pages, Plain, c
<1>5. /\ NewWindow.loading = None /\ NewWindow.current = None
      /\ ~NewWindow.internal_nav
      /\ ~NewWindow.timer
      /\ NewWindow.content = c /\ NewWindow.entries = <<>> /\ NewWindow.at = 0
  BY DEF NewWindow
<1>6. /\ v.loading = None /\ v.current = None
      /\ ~v.internal_nav
      /\ ~v.timer
      /\ ~v.open
      /\ v.content = c /\ v.entries = <<>> /\ v.at = 0
  BY DEF NewWindow
<1> HIDE DEF v, c
<1>7. Good(NewWindow) /\ Closed(v)
  BY <1>1, <1>4, <1>5, <1>6 DEF Good, Closed
<1> QED BY <1>7 DEF v

\* The steps of the user, the timer and the front end.
LEMMA UserSteps ==
  ASSUME Good(win), ~Rush, ~StaleAnswers,
         \/ \E site \in Sites, frag \in BOOLEAN : Open(site, frag)
         \/ StopButton \/ Reload \/ BackFromQuery \/ Back \/ Forward
         \/ \E button \in UNION {Buttons[q] : q \in Queries} : Submit(button)
         \/ AnswerLogin \/ Refresh
  PROVE  Good(win')
<1> DEFINE w == win
<1>0. w \in Windows /\ Tree(w) /\ w.current \in Handles \cup {None} /\ TRUE \in BOOLEAN /\ FALSE \in BOOLEAN
  BY DEF Good, Windows
<1>a. ASSUME NEW page \in Sites \cup {Blank}, NEW b \in BOOLEAN, NEW save, NEW frag
      PROVE  Good(Navigate(w, To(page, b), save, frag))
  <2> DEFINE t == To(page, b)
  <2>1. t \in PlainParams /\ t.page = page /\ t.posted = None
    BY Resets DEF Plain
  <2> HIDE DEF t
  <2>2. Good(Navigate(w, t, save, frag))
    BY <2>1, NavigateIsGood
  <2> QED BY <2>2 DEF t
<1>b. \A i \in 1 .. Len(w.entries) : Good(HistoryGo(w, i))
  BY HistoryGoIsGood
<1>1. ASSUME NEW site \in Sites, NEW frag \in BOOLEAN, Open(site, frag) PROVE Good(win')
  BY <1>0, <1>1, <1>a DEF Open
<1>2. CASE StopButton
  BY <1>2, StopIsGood DEF StopButton
<1>3. CASE Reload
  <2> DEFINE page == Page(w, w.current)
             t == To(page, FALSE)
  <2>1. win' = Navigate(w, t, TRUE, FALSE) /\ page \in Pages \ {None}
    BY <1>0, <1>3 DEF Reload, Page, Good, Slots, Asked, Windows, Contents
  <2>2. CASE page \in Queries
    <3>1. t.page = page /\ t.posted = None
      BY <1>0, Resets
    <3> HIDE DEF t
    <3>2. Navigate(w, t, TRUE, FALSE) = w
      BY <2>2, <3>1 DEF Navigate
    <3> QED BY <2>1, <3>2
  <2>3. CASE page \in Sites \cup {Blank}
    BY <1>0, <1>a, <2>1, <2>3
  <2> QED BY <2>1, <2>2, <2>3 DEF Pages, Plain
<1>4. CASE BackFromQuery
  <2>1. w.loading = None
    BY <1>4 DEF BackFromQuery
  <2>2. Good(ReloadCurrent(w))
    BY <2>1, ReloadIsGood
  <2> QED BY <1>0, <1>4, <1>a, <2>2 DEF BackFromQuery
<1>5. CASE Back \/ Forward
  <2>1. w.at \in 1 .. Len(w.entries)
    BY <1>0, <1>5 DEF Back, Forward, Tree
  <2>2. /\ w.entries[w.at].back # 0 => w.entries[w.at].back \in 1 .. Len(w.entries)
        /\ w.entries[w.at].pref # 0 => w.entries[w.at].pref \in 1 .. Len(w.entries)
    BY <1>0, <2>1 DEF Tree
  <2> QED BY <1>5, <1>b, <2>2 DEF Back, Forward
<1>6. ASSUME NEW button, Submit(button) PROVE Good(win')
  <2> DEFINE answer == [page |-> Page(w, w.current), about |-> w.content[w.current].about,
                        posted |-> button, history |-> TRUE]
  <2>1. /\ w.current \in Handles /\ w.current # None
        /\ Page(w, w.current) \in Queries /\ button \in Buttons[Page(w, w.current)]
        /\ win' = Navigate(w, answer, TRUE, FALSE)
    BY <1>0, <1>6 DEF Submit
  <2>2. w.content[w.current].about \in Plain \ {None} /\ w.loading_parameters.page # None
    BY <1>0, <2>1 DEF Good, Slots, Asked, Windows, Contents, Page
  <2>3. button \in Answers
    BY <2>1, AnswersAre DEF Answers
  <2>4. Page(w, w.current) \in Pages
    BY <2>1 DEF Pages
  <2>5. Answer(w, answer)
    BY <2>1, <2>2, <2>3, <2>4 DEF Answer, Params
  <2> HIDE DEF answer
  <2> QED BY <2>1, <2>5, SubmitIsGood
<1>7. CASE AnswerLogin
  <2> DEFINE stopped == IF w.loading = None THEN w ELSE Stop(w)
             v == [stopped EXCEPT !.dialog = FALSE]
  <2>1. w.internal_nav
    BY <1>7 DEF AnswerLogin, CanAnswer, AsksLogin
  <2>2. Good(stopped) /\ stopped.loading = None /\ stopped.loading_parameters = w.loading_parameters
    BY StopIsGood
  <2>3. win' = LoadAgain(v)
    BY <1>7 DEF AnswerLogin
  <2> HIDE DEF stopped
  <2>4. /\ v \in Windows /\ v.loading = None /\ v.current = stopped.current
        /\ v.content = stopped.content
        /\ v.timer => stopped.timer
        /\ v.entries = stopped.entries /\ v.at = stopped.at
        /\ v.loading_parameters = w.loading_parameters
    BY <2>2 DEF Good, Windows
  <2> HIDE DEF v
  <2>5. w.loading_parameters.page # None
    BY <2>1 DEF Good, Asked
  <2>6. Good(v)
    BY <2>2, <2>4, <2>5, AimIsGood
  <2> QED BY <2>3, <2>4, <2>5, <2>6, LoadAgainIsGood
<1>8. CASE Refresh
  <2> DEFINE from == Page(w, w.current)
             to == IF from \in Sites THEN RefreshTo[from] ELSE None
             b == to = from
             v == [w EXCEPT !.timer = FALSE]
  <2>1. win' = (IF to = None THEN v ELSE Navigate(v, To(to, b), TRUE, FALSE))
    BY <1>8 DEF Refresh
  <2>2. to = None \/ to \in Sites
    BY WindowAssumption
  <2>3. b \in BOOLEAN
    OBVIOUS
  <2> HIDE DEF to, b
  <2>4. /\ v \in Windows /\ v.content = w.content /\ ~v.timer /\ Like(v, w)
        /\ v.entries = w.entries /\ v.at = w.at
    BY <1>0 DEF Windows, Like
  <2> HIDE DEF v
  <2>5. Tree(v)
    BY <1>0, <2>4 DEF Tree
  <2>6. Good(v)
    BY <2>4, <2>5, LikeGood
  <2>7. ASSUME to \in Sites PROVE Good(Navigate(v, To(to, b), TRUE, FALSE))
    <3> DEFINE t == To(to, b)
    <3>1. t \in PlainParams /\ t.page = to /\ t.posted = None
      BY <2>3, <2>7, Resets DEF Plain
    <3> HIDE DEF t
    <3>2. Good(Navigate(v, t, TRUE, FALSE))
      BY <2>6, <2>7, <3>1, NavigateIsGood
    <3> QED BY <3>2 DEF t
  <2> QED BY <2>1, <2>2, <2>6, <2>7
<1> QED BY <1>1, <1>2, <1>3, <1>4, <1>5, <1>6, <1>7, <1>8 DEF Good

\* The page that is loaded is shown: the window gives the old page up and, but for a
\* query page, takes the parameters over.
LEMMA ReadyIsGood ==
  ASSUME Good(win), NEW h \in Handles, Ready(h)
  PROVE  Good(win')
<1> DEFINE w == win
           left == IF w.current = None THEN w ELSE Release(w, w.current)
           shown == [left EXCEPT !.content[h].status = "READY", !.current = h, !.loading = None]
           known == IF w.internal_nav THEN shown
                    ELSE [shown EXCEPT !.current_parameters = w.loading_parameters,
                                       !.loading_parameters = NoParams]
           added == IF w.history_add /\ ~w.internal_nav THEN HistoryAdd(known, h) ELSE known
<1>0. w \in Windows /\ Tree(w) /\ w.current \in Handles \cup {None}
  BY DEF Good, Windows
<1>1. w.loading = h /\ w.content[h].status = "LOADING" /\ win' = Update(added) /\ w.current # h
  <2>1. w.loading = h /\ w.content[h].status = "LOADING" /\ win' = Update(added)
    BY DEF Ready, Told
  <2> QED BY <2>1, Distinct DEF Good, Slots
<1>2. /\ left \in Windows /\ Tree(left) /\ Like(left, w) /\ (left.timer <=> w.timer)
      /\ left.content[h] = w.content[h]
      /\ \A g \in Handles \ {h} : left.content[g].status = "none"
  <2>1. CASE w.current = None
    BY <1>0, <1>1, <2>1, Distinct DEF Good, Slots, Like
  <2>2. CASE w.current # None
    <3> DEFINE r == Release(w, w.current)
    <3>1. /\ r \in Windows /\ Tree(r) /\ Like(r, w) /\ (r.timer <=> w.timer)
          /\ r.content[w.current].status = "none"
          /\ \A g \in Handles \ {w.current} : r.content[g] = w.content[g]
      BY <1>0, <2>2, ReleaseKeeps
    <3>2. left = r
      BY <2>2
    <3> HIDE DEF r, left
    <3> QED BY <1>0, <1>1, <2>2, <3>1, <3>2 DEF Good, Slots
  <2> QED BY <2>1, <2>2
<1> HIDE DEF left
<1>3. /\ shown \in Windows /\ Tree(shown) /\ (shown.timer => w.timer)
      /\ shown.current = h /\ shown.loading = None
      /\ shown.loading_parameters = w.loading_parameters
      /\ shown.internal_nav <=> w.internal_nav
      /\ shown.content[h].status = "READY"
      /\ shown.content[h].page = w.content[h].page /\ shown.content[h].about = w.content[h].about
      /\ \A g \in Handles \ {h} : shown.content[g].status = "none"
  <2> DEFINE x == [left.content[h] EXCEPT !.status = "READY"]
             c == [left.content EXCEPT ![h] = x]
  <2>1. /\ x \in Contents /\ x.status = "READY" /\ x.page = w.content[h].page
        /\ x.about = w.content[h].about
    BY <1>2 DEF Windows, Contents
  <2>2. shown = [left EXCEPT !.content = c, !.current = h, !.loading = None]
    BY <1>2 DEF Windows
  <2> HIDE DEF x, shown
  <2>3. /\ c \in [Handles -> Contents] /\ c[h] = x
        /\ \A g \in Handles \ {h} : c[g] = left.content[g]
    BY <1>2, <2>1 DEF Windows
  <2> HIDE DEF c
  <2>4. /\ shown \in Windows /\ (shown.timer <=> left.timer)
        /\ shown.current = h /\ shown.loading = None /\ shown.content = c
        /\ shown.loading_parameters = left.loading_parameters
        /\ shown.internal_nav <=> left.internal_nav
        /\ shown.entries = left.entries /\ shown.at = left.at
    BY <1>2, <2>2, <2>3 DEF Windows
  <2>5. Tree(shown)
    BY <1>2, <2>4 DEF Tree
  <2> QED BY <1>2, <2>1, <2>3, <2>4, <2>5 DEF Like
<1> HIDE DEF shown
<1>4. /\ known \in Windows /\ Tree(known) /\ (known.timer => w.timer)
      /\ known.current = h /\ known.loading = None /\ known.content = shown.content
      /\ known.internal_nav <=> w.internal_nav
      /\ w.internal_nav => known.loading_parameters = w.loading_parameters
  <2>1. CASE w.internal_nav
    BY <1>3, <2>1
  <2>2. CASE ~w.internal_nav
    <3> DEFINE k == [shown EXCEPT !.current_parameters = w.loading_parameters,
                                  !.loading_parameters = NoParams]
    <3>1. /\ k \in Windows /\ (k.timer <=> shown.timer)
          /\ k.current = h /\ k.loading = None /\ k.content = shown.content
          /\ k.internal_nav <=> shown.internal_nav
          /\ k.entries = shown.entries /\ k.at = shown.at
      BY <1>0, <1>3, Resets DEF Windows
    <3>2. known = k
      BY <2>2
    <3> HIDE DEF k, known
    <3>3. Tree(k)
      BY <1>3, <3>1 DEF Tree
    <3> QED BY <1>3, <2>2, <3>1, <3>2, <3>3
  <2> QED BY <2>1, <2>2
<1> HIDE DEF known
<1>5. /\ w.content[h].page # None
      /\ w.content[h].page \in Queries => w.content[h].about # None /\ w.internal_nav
      /\ w.internal_nav => w.loading_parameters.page # None
      /\ w.content[h].page \in Pages
  BY <1>0, <1>1, Distinct DEF Good, Slots, Asked, Windows, Contents
<1>6. Good(known)
  <2>1. Slots(known)
    BY <1>3, <1>4, Distinct DEF Slots
  <2>2. Asked(known)
    BY <1>3, <1>4, <1>5, Distinct DEF Asked
  <2> QED BY <1>4, <2>1, <2>2 DEF Good
<1>7. /\ added \in Windows /\ Tree(added) /\ added.content = known.content
      /\ added.timer <=> known.timer
      /\ added.loading = known.loading /\ added.current = known.current
      /\ added.loading_parameters = known.loading_parameters
      /\ added.internal_nav <=> known.internal_nav
  <2>1. CASE w.history_add /\ ~w.internal_nav
    <3>1. Page(known, h) \in Sites \cup {Blank}
      BY <1>3, <1>4, <1>5, <2>1 DEF Page, Pages, Plain
    <3> QED BY <1>4, <2>1, <3>1, HistoryAddKeeps
  <2>2. CASE ~(w.history_add /\ ~w.internal_nav)
    BY <1>4, <2>2
  <2> QED BY <2>1, <2>2
<1> HIDE DEF added
<1>8. Good(added)
  BY <1>6, <1>7 DEF Good, Slots, Asked
<1> DEFINE u == Update(added)
<1>9. u \in Windows /\ Tree(u) /\ Like(u, added) /\ u.content = added.content /\ (u.timer <=> added.timer)
  BY <1>7, UpdateKeeps
<1> HIDE DEF u
<1>10. Good(u)
  BY <1>8, <1>9, LikeGood
<1> QED BY <1>1, <1>10 DEF u

\* A load that fails gives its handle up for the query page about it.
LEMMA FailureIsGood ==
  ASSUME Good(win), NEW h \in Handles, NEW q \in Queries, win.content[h].page \in Sites,
         win.content[h].status \in {"fetching", "LOADING"}
  PROVE  Good(HandleError(h, q))
<1> DEFINE r == Release(win, h)
           left == [r EXCEPT !.loading = IF @ = h THEN None ELSE @,
                             !.current = IF @ = h /\ win.loading # h THEN None ELSE @,
                             !.internal_nav = TRUE]
           asked == [page |-> q, about |-> Page(win, h), posted |-> None, history |-> TRUE]
           w == NavigateInternal(left, asked)
<1>0. win \in Windows /\ Tree(win) /\ win.current \in Handles \cup {None}
  BY DEF Good, Windows
<1>1. win.loading = h /\ win.current # h
  BY Distinct DEF Good, Slots
<1>2. /\ r \in Windows /\ Tree(r) /\ Like(r, win) /\ (r.timer <=> win.timer)
      /\ r.content[h].status = "none"
      /\ \A g \in Handles \ {h} : r.content[g] = win.content[g]
  BY <1>0, ReleaseKeeps
<1>3. HandleError(h, q) = IF q = "auth" THEN [w EXCEPT !.dialog = TRUE] ELSE w
  BY DEF HandleError
<1> HIDE DEF r
<1>4. left = [r EXCEPT !.loading = None, !.internal_nav = TRUE]
  BY <1>1, <1>2 DEF Like, Windows
<1> HIDE DEF left
<1>5. /\ left \in Windows /\ left.loading = None /\ left.current = win.current
      /\ left.content = r.content
      /\ left.timer <=> win.timer
      /\ left.loading_parameters = win.loading_parameters
      /\ left.internal_nav
      /\ left.entries = r.entries /\ left.at = r.at
  BY <1>2, <1>4 DEF Windows, Like
<1>6. Good(left)
  <2>1. Slots(left)
    BY <1>0, <1>1, <1>2, <1>5 DEF Good, Slots
  <2>2. Asked(left)
    BY <1>0, <1>1, <1>2, <1>5, Distinct DEF Good, Slots, Asked
  <2>3. Tree(left)
    BY <1>2, <1>5 DEF Tree
  <2> QED BY <1>5, <2>1, <2>2, <2>3 DEF Good
<1>7. asked \in Params /\ asked.page = q /\ asked.about = Page(win, h) /\ asked.posted = None
  BY DEF Params, Pages, Plain, Answers, Page
<1>8. q # None /\ Page(win, h) # None /\ win.loading_parameters.page # None
  BY <1>1, Distinct DEF Page, Good, Asked, Plain
<1> HIDE DEF asked
<1>9. Good(w)
  <2>1. w = Retrieve(left, asked)
    BY <1>7, NothingPosted
  <2> HIDE DEF w
  <2> QED BY <1>5, <1>6, <1>7, <1>8, <2>1, RetrieveIsGood
<1> HIDE DEF w
<1> DEFINE v == [w EXCEPT !.dialog = TRUE]
<1>10. /\ v \in Windows /\ Like(v, w) /\ v.content = w.content
       /\ v.timer => w.timer
       /\ v.entries = w.entries /\ v.at = w.at
  BY <1>9 DEF Good, Windows, Like
<1>11. Good(v)
  <2> HIDE DEF v
  <2>1. Tree(v)
    BY <1>9, <1>10 DEF Good, Tree
  <2> QED BY <1>9, <1>10, <2>1, LikeGood
<1> QED BY <1>3, <1>9, <1>11

\* What the cache tells the window.
LEMMA LoadSteps ==
  ASSUME Good(win), NEW h \in Handles,
         \/ Loading(h) \/ AsksRefresh(h) \/ Ready(h) \/ Done(h) \/ Download(h)
         \/ \E q \in Queries : Fails(h, q)
  PROVE  Good(win')
<1>0. win \in Windows /\ Tree(win)
  BY DEF Good
<1>1. CASE Loading(h)
  <2> DEFINE v == [win EXCEPT !.content[h].status = "LOADING", !.refresh_interval = FALSE]
  <2>1. win.loading = h /\ win.content[h].status = "fetching" /\ win' = v /\ win.current # h
    BY <1>1, Distinct DEF Loading, Told, Good, Slots
  <2>2. /\ v \in Windows /\ Tree(v) /\ Like(v, win) /\ (v.timer <=> win.timer)
        /\ v.content[h].status = "LOADING"
        /\ v.content[h].page = win.content[h].page /\ v.content[h].about = win.content[h].about
        /\ \A g \in Handles \ {h} : v.content[g] = win.content[g]
    <3> DEFINE x == [win.content[h] EXCEPT !.status = "LOADING"]
               c == [win.content EXCEPT ![h] = x]
    <3>1. /\ x \in Contents /\ x.status = "LOADING" /\ x.page = win.content[h].page
          /\ x.about = win.content[h].about
      BY <1>0 DEF Windows, Contents
    <3>2. v = [win EXCEPT !.content = c, !.refresh_interval = FALSE]
      BY <1>0 DEF Windows
    <3> HIDE DEF x, v
    <3>3. /\ c \in [Handles -> Contents] /\ c[h] = x
          /\ \A g \in Handles \ {h} : c[g] = win.content[g]
      BY <1>0, <3>1 DEF Windows
    <3> HIDE DEF c
    <3>4. /\ v \in Windows /\ Like(v, win) /\ (v.timer <=> win.timer) /\ v.content = c
          /\ v.entries = win.entries /\ v.at = win.at
      BY <1>0, <3>2, <3>3 DEF Windows, Like
    <3>5. Tree(v)
      BY <1>0, <3>4 DEF Tree
    <3> QED BY <3>1, <3>3, <3>4, <3>5
  <2> HIDE DEF v
  <2>3. Slots(v)
    BY <1>0, <2>1, <2>2 DEF Good, Slots, Like, Windows
  <2>4. Asked(v)
    BY <1>0, <2>1, <2>2 DEF Good, Asked, Like, Windows
  <2> QED BY <2>1, <2>2, <2>3, <2>4 DEF Good
<1>2. CASE AsksRefresh(h)
  <2> DEFINE v == [win EXCEPT !.refresh_interval = TRUE]
  <2>1. win' = v
    BY <1>2 DEF AsksRefresh, Told
  <2>2. /\ v \in Windows /\ Like(v, win) /\ v.content = win.content
        /\ v.timer => win.timer
        /\ v.entries = win.entries /\ v.at = win.at
    BY <1>0 DEF Windows, Like
  <2> HIDE DEF v
  <2>3. Tree(v)
    BY <1>0, <2>2 DEF Tree
  <2> QED BY <2>1, <2>2, <2>3, LikeGood
<1>3. CASE Done(h)
  <2>1. win.current = h /\ win.current # None
        /\ win' = ContentDone([win EXCEPT !.content[win.current].status = "DONE"])
    BY <1>3, Distinct DEF Done, Told
  <2> QED BY <2>1, DoneIsGood
<1>4. CASE Download(h)
  <2> DEFINE r == Release(win, h)
             v == [r EXCEPT !.loading = None, !.throbbing = FALSE]
  <2>1. win.loading = h /\ win.content[h].status = "fetching" /\ win' = v /\ win.current # h
    BY <1>4, Distinct DEF Download, Told, Good, Slots
  <2>2. /\ r \in Windows /\ Tree(r) /\ Like(r, win) /\ (r.timer <=> win.timer)
        /\ r.content[h].status = "none"
        /\ \A g \in Handles \ {h} : r.content[g] = win.content[g]
    BY <1>0, ReleaseKeeps
  <2> HIDE DEF r
  <2>3. /\ v \in Windows /\ v.loading = None /\ v.current = win.current
        /\ v.content = r.content
        /\ v.timer <=> win.timer
        /\ v.loading_parameters = win.loading_parameters
        /\ v.internal_nav <=> win.internal_nav
        /\ v.entries = r.entries /\ v.at = r.at
    BY <2>2 DEF Windows, Like
  <2> HIDE DEF v
  <2>a. Slots(win) /\ Asked(win) /\ win.content \in [Handles -> Contents]
    BY <1>0 DEF Good, Windows
  <2>b. \A g \in Handles : v.content[g].status # "none" =>
           g # h /\ v.content[g] = win.content[g] /\ win.content[g].status # "none"
    BY <2>2, <2>3
  <2>c. win.current # None => win.current \in Handles /\ v.content[win.current] = win.content[win.current]
    BY <1>0, <2>1, <2>2, <2>3 DEF Good, Windows
  <2>4. Slots(v)
    <3>1. \A g \in Handles : v.content[g].status # "none" => g = v.loading \/ g = v.current
      BY <2>1, <2>3, <2>a, <2>b DEF Slots
    <3>2. v.loading = None
      BY <2>3
    <3>3. v.current # None => v.content[v.current].status \in {"READY", "DONE"}
      BY <2>3, <2>a, <2>c DEF Slots
    <3> QED BY <3>1, <3>2, <3>3 DEF Slots
  <2>5. Asked(v)
    <3>1. v.timer => v.current # None
      BY <2>2, <2>3, <2>a DEF Asked
    <3>2. v.internal_nav => v.loading_parameters.page # None
      BY <2>3, <2>a DEF Asked
    <3>3. v.current # None /\ v.content[v.current].page \in Queries =>
             v.loading_parameters.page # None
      BY <2>3, <2>a, <2>c DEF Asked
    <3>4. \A g \in Handles : v.content[g].status # "none" =>
             /\ v.content[g].page # None
             /\ v.content[g].page \in Queries => v.content[g].about # None
      BY <2>a, <2>b DEF Asked
    <3>5. v.loading = None
      BY <2>3
    <3> QED BY <3>1, <3>2, <3>3, <3>4, <3>5 DEF Asked
  <2>6. Tree(v)
    BY <2>2, <2>3 DEF Tree
  <2> QED BY <2>1, <2>3, <2>4, <2>5, <2>6 DEF Good
<1>5. ASSUME NEW q \in Queries, Fails(h, q) PROVE Good(win')
  BY <1>5, FailureIsGood DEF Fails, Told, Page
<1> QED BY <1>1, <1>2, <1>3, <1>4, <1>5, ReadyIsGood

-----------------------------------------------------------------------------
\* Every step keeps the window sound, for a user who does not go back while a query page
\* loads and a login dialog that goes with the page it is about.
LEMMA WindowStep ==
  ASSUME Sound(win), ~Rush, ~StaleAnswers, [Next]_vars
  PROVE  Sound(win')
<1>1. CASE UNCHANGED vars
  BY <1>1 DEF vars
<1>2. CASE Good(win) /\ Next
  <2>1. CASE LoadStep \/ \E h \in Handles : AsksRefresh(h)
    BY <1>2, <2>1, LoadSteps DEF LoadStep, Sound
  <2>2. CASE Destroy
    BY <2>2, NewIsGood DEF Destroy, Sound
  <2> QED BY <1>2, <2>1, <2>2, UserSteps DEF Next, Sound
<1>3. CASE Closed(win) /\ Next
  <2>1. ~win.open
    BY <1>3 DEF Closed
  <2>2. ~LoadStep
    BY <2>1 DEF LoadStep, Loading, Ready, Done, Fails, Download, Told
  <2>3. ~\E h \in Handles : AsksRefresh(h)
    BY <2>1 DEF AsksRefresh, Told
  <2>4. ~(StopButton \/ Reload \/ BackFromQuery \/ Back \/ Forward)
    BY <2>1 DEF StopButton, Reload, BackFromQuery, Back, Forward, Called
  <2>5. ~(AnswerLogin \/ Refresh \/ Destroy)
    BY <2>1 DEF AnswerLogin, Refresh, Destroy, Called
  <2> QED BY <1>3, <2>1, <2>2, <2>3, <2>4, <2>5 DEF Next, Open, Submit, Called
<1> QED BY <1>1, <1>2, <1>3 DEF Sound

\* The window sound in every state.
LEMMA WindowInvariance == ~Rush /\ ~StaleAnswers => (Spec => []Sound(win))
<1> SUFFICES ASSUME ~Rush, ~StaleAnswers PROVE Spec => []Sound(win)
  OBVIOUS
<1>1. Init => Sound(win)
  BY NewIsGood DEF Init, Sound
<1>2. Sound(win) /\ [Next]_vars => Sound(win)'
  BY WindowStep
<1> QED BY <1>1, <1>2, PTL DEF Spec

\* The handles that can call the window back are the two it knows, the one it loads and
\* the one it shows, in the states browser_window_callback asserts.
THEOREM SlotsAlwaysHold == ~Rush /\ ~StaleAnswers => (Spec => []SlotsHold)
<1>1. Sound(win) => SlotsHold
  <2> SUFFICES ASSUME Sound(win) PROVE SlotsHold
    OBVIOUS
  <2>1. /\ win.loading \in Handles \cup {None} /\ win.current \in Handles \cup {None}
        /\ Slots(win)
    BY DEF Sound, Good, Closed, Windows
  <2>2. {h \in Handles : win.content[h].status # "none"} = {win.loading, win.current} \ {None}
    BY <2>1, Distinct DEF Slots
  <2> QED BY <2>1, <2>2 DEF SlotsHold, Slots
<1> QED BY <1>1, WindowInvariance, PTL

\* What may still call into the window finds what the code takes for granted there: the
\* refresh timer a page, and a query page and its login dialog the parameters they are
\* about.
THEOREM PendingAlwaysFinds == ~Rush /\ ~StaleAnswers => (Spec => []PendingFindsPage)
<1> SUFFICES ASSUME ~Rush, ~StaleAnswers PROVE Spec => []PendingFindsPage
  OBVIOUS
<1>1. CanAnswer => win.internal_nav
  BY DEF CanAnswer, AsksLogin
<1>2. Good(win) => PendingFindsPage
  <2> SUFFICES ASSUME Good(win) PROVE PendingFindsPage
    OBVIOUS
  <2>1. win.current # None /\ Page(win, win.current) \in Queries => win.loading_parameters.page # None
    BY DEF Good, Asked, Page
  <2>2. win.open
    BY DEF Good, Windows
  <2> QED BY <1>1, <2>1, <2>2 DEF PendingFindsPage, Good, Asked
<1>3. Closed(win) => PendingFindsPage
  BY <1>1 DEF Closed, PendingFindsPage
<1> QED BY <1>2, <1>3, WindowInvariance, PTL DEF Sound

\* The local history is a tree whatever the user does: no chain of back entries and no
\* chain of forward entries comes round, and none leaves the history (history_go and the
\* loops over the entries in browser_history.c).
THEOREM HistoryIsTree == ~Rush /\ ~StaleAnswers => (Spec => []Tree(win))
<1>1. Sound(win) => Tree(win)
  BY DEF Sound, Good, Closed
<1> QED BY <1>1, WindowInvariance, PTL

=============================================================================
