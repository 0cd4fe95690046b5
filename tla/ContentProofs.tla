---------------------------- MODULE ContentProofs ----------------------------
(***************************************************************************)
(* Proofs about two parts of content/: the load of an HTML document, for   *)
(* any number of items of each kind and any order of their ends; and the   *)
(* backing store under the low-level cache, for any URLs, sizes of the     *)
(* store and objects.                                                      *)
(*                                                                         *)
(* A function of the code is an operator from a document to the set of     *)
(* documents it may leave, and from a store to the stores it may leave;    *)
(* each has a lemma here that says what it keeps.                          *)
(***************************************************************************)
EXTENDS HtmlLoad, BackingStore, FiniteSetTheorems, WellFoundedInduction, TLAPS

-----------------------------------------------------------------------------
Docs ==
  [status : {"LOADING", "READY", "DONE", "ERROR", "destroyed"},
   active : Int, own : BOOLEAN, open : BOOLEAN,
   item : [Items -> {"none", "fetching", "done", "failed", "dropped"}],
   kind : [Added -> {"async", "defer", "sync"}],
   modified : SUBSET Styles, ran : SUBSET Scripts,
   paused : BOOLEAN, parsed : BOOLEAN, begun : BOOLEAN, selecting : BOOLEAN,
   boxing : BOOLEAN, ready : BOOLEAN, aborted : BOOLEAN, user : BOOLEAN,
   told : Seq({"READY", "DONE", "ERROR"}), late : BOOLEAN,
   due : SUBSET Frames, refreshed : SUBSET Frames, timers : SUBSET Scripts]

\* The layout was begun and has failed: the objects were let go and are counted still.
Freed(p) == p.selecting /\ ~p.boxing /\ ~p.ready

Waits(p) == Cardinality(Fetching(p)) + (IF p.own THEN 1 ELSE 0)

\* Only frames inside frames that are waited for make the count too high.
Overlap == "overlap" \in Mishaps

Count(p) ==
  Freed(p) \/ (p.active >= Waits(p) /\ (p.active = Waits(p) \/ Overlap))

\* The parser waits for a synchronous script, has met nothing that the end of the
\* markup tells, and the document's own fetch counts until it ends.
Parser(p) ==
  /\ Sync \cap Fetching(p) # {} => p.paused
  /\ p.parsed => ~p.paused
  /\ p.own => p.item[Quirks] = "none"
  /\ p.open /\ p.status = "LOADING" => p.own

\* When layout begins, everything in the markup has arrived and run.
Layout(p) ==
  /\ p.selecting =>
       /\ p.parsed /\ ~p.own /\ p.item[Base] = "done"
       /\ \A s \in Sync \cup Async \cup Defer :
            p.item[s] # "fetching" /\ (p.item[s] = "done" => s \in p.ran)
       /\ ~p.late => p.modified = {}
  /\ p.boxing => p.selecting /\ ~p.ready
  /\ p.ready => p.selecting
  /\ Freed(p) => p.status \in {"ERROR", "destroyed"}
  /\ \A s \in Sync : p.item[s] = "done" => s \in p.ran

Whole(p) ==
  /\ p.status \in {"READY", "DONE"} => p.ready
  /\ p.status = "DONE" /\ ~p.late => Fetching(p) = {}

Sound(p) == p \in Docs /\ Count(p) /\ Parser(p) /\ Layout(p) /\ Whole(p)

\* What a function may do to the order of scripts.
Orderly(p, q) ==
  /\ p.parsed => q.parsed
  /\ \A s \in (q.ran \ p.ran) \cap Defer : q.parsed
  /\ \A s \in Sync : p.item[s] \in Outcome => q.item[s] \in Outcome
  /\ p.paused => q.paused /\ Unmet(p, Markup) \subseteq Unmet(q, Markup)

\* Two documents alike but for their status and what the client knows.
Alike(p, q) ==
  /\ q.active = p.active /\ q.item = p.item /\ q.modified = p.modified /\ q.ran = p.ran
  /\ q.own <=> p.own
  /\ q.open <=> p.open
  /\ q.paused <=> p.paused
  /\ q.parsed <=> p.parsed
  /\ q.selecting <=> p.selecting
  /\ q.boxing <=> p.boxing
  /\ q.ready <=> p.ready
  /\ q.late <=> p.late

-----------------------------------------------------------------------------
\* An item is of one kind.
LEMMA Kinds ==
  /\ Base # Quirks /\ Base \notin Markup \cup Added \cup Boxed
  /\ Quirks \notin Markup \cup Added \cup Boxed
  /\ Styles \cap Scripts = {} /\ Styles \cap Boxed = {} /\ Scripts \cap Boxed = {}
  /\ Styles \cap Sheets = {} /\ Sheets \cap Scripts = {} /\ Sheets \cap Boxed = {}
  /\ Links \cap Styles = {}
  /\ Sync \cap (Async \cup Defer \cup Added) = {} /\ Async \cap (Defer \cup Added) = {}
  /\ Defer \cap Added = {}
  /\ Items = Scripts \cup Sheets \cup Styles \cup Boxed
  /\ Markup \subseteq Items /\ Markup \cap Boxed = {} /\ Added \cap Markup = {}
  /\ Scripts = Sync \cup Async \cup Defer \cup Added /\ Frames \subseteq Boxed
  /\ Sheets = {Base, Quirks} \cup Links
BY HtmlLoadAssumption DEF Items, Markup, Scripts, Sheets, Boxed

\* Fetches that end and fetches that start, among finitely many.
LEMMA CountMoves ==
  ASSUME NEW F \in SUBSET Items, NEW A \in SUBSET F, NEW B \in SUBSET Items, B \cap F = {}
  PROVE  /\ Cardinality((F \ A) \cup B) = Cardinality(F) - Cardinality(A) + Cardinality(B)
         /\ Cardinality(F) \in Nat /\ Cardinality(A) \in Nat /\ Cardinality(B) \in Nat
<1>1. IsFiniteSet(F) /\ IsFiniteSet(A) /\ IsFiniteSet(B)
  BY HtmlLoadAssumption, FS_Subset
<1>2. Cardinality(F \ A) = Cardinality(F) - Cardinality(F \cap A) /\ F \cap A = A
  BY <1>1, FS_Difference
<1>3. IsFiniteSet(F \ A) /\ (F \ A) \cap B = {}
  BY <1>1, FS_Subset
<1>4. Cardinality((F \ A) \cup B)
        = Cardinality(F \ A) + Cardinality(B) - Cardinality((F \ A) \cap B)
  BY <1>1, <1>3, FS_Union
<1>5. Cardinality((F \ A) \cap B) = 0
  BY <1>3, FS_EmptySet
<1>6. Cardinality(F \ A) = Cardinality(F) - Cardinality(A)
  BY <1>2
<1>7. Cardinality(F) \in Nat /\ Cardinality(A) \in Nat /\ Cardinality(B) \in Nat
  BY <1>1, FS_CardinalityType
<1> QED BY <1>4, <1>5, <1>6, <1>7

\* With nothing to wait for, nothing is fetched.
LEMMA NothingFetched ==
  ASSUME NEW p, Sound(p), p.active = 0, ~Freed(p)
  PROVE  Fetching(p) = {} /\ ~p.own
<1>1. IsFiniteSet(Fetching(p))
  BY HtmlLoadAssumption, FS_Subset DEF Fetching
<1>2. Cardinality(Fetching(p)) \in Nat
  BY <1>1, FS_CardinalityType
<1>3. Cardinality(Fetching(p)) = 0 /\ ~p.own
  <2>1. p.active >= Cardinality(Fetching(p)) + (IF p.own THEN 1 ELSE 0)
    BY DEF Sound, Count, Waits
  <2> QED BY <1>2, <2>1
<1> QED BY <1>1, <1>3, FS_EmptySet

\* The order of scripts that one function keeps and the next keeps, both keep.
LEMMA OrderlyTrans ==
  ASSUME NEW p, NEW q, NEW r, Orderly(p, q), Orderly(q, r)
  PROVE  Orderly(p, r)
BY DEF Orderly

\* Alike documents have met and run the same.
LEMMA AlikeOrderly ==
  ASSUME NEW p, NEW q, Alike(p, q)
  PROVE  Orderly(p, q)
BY DEF Orderly, Alike, Unmet

\* Alike documents count alike, and are as sound when the status fits.
LEMMA AlikeSound ==
  ASSUME NEW p, Sound(p), NEW q \in Docs, Alike(p, q),
         \/ q.status = p.status
         \/ q.status \in {"ERROR", "destroyed"}
         \/ p.status = "READY" /\ q.status = "DONE" /\ p.active = 0
  PROVE  Sound(q) /\ Orderly(p, q)
<1>1. Fetching(q) = Fetching(p) /\ (Freed(q) <=> Freed(p))
  BY DEF Alike, Fetching, Freed
<1>2. Count(q)
  BY <1>1 DEF Sound, Count, Waits, Alike
<1>3. Parser(q)
  BY <1>1 DEF Sound, Parser, Alike
<1>4. Layout(q)
  BY <1>1 DEF Sound, Layout, Alike
<1>5. Whole(q)
  <2>1. CASE q.status = p.status \/ q.status \in {"ERROR", "destroyed"}
    BY <1>1, <2>1 DEF Sound, Whole, Alike
  <2>2. CASE p.status = "READY" /\ q.status = "DONE" /\ p.active = 0
    <3>1. ~Freed(p)
      BY <2>2 DEF Sound, Layout
    <3>2. Fetching(p) = {}
      BY <2>2, <3>1, NothingFetched
    <3> QED BY <1>1, <2>2, <3>2 DEF Sound, Whole, Alike
  <2> QED BY <2>1, <2>2
<1> QED BY <1>2, <1>3, <1>4, <1>5, AlikeOrderly DEF Sound

-----------------------------------------------------------------------------
\* Messages and changes of status.
LEMMA MessagesKeep ==
  ASSUME NEW p \in Docs, NEW msg \in {"READY", "DONE", "ERROR"}
  PROVE  /\ Tell(p, msg) \in Docs /\ Alike(p, Tell(p, msg)) /\ Tell(p, msg).status = p.status
         /\ Failed(p) \in Docs /\ Alike(p, Failed(p)) /\ Failed(p).status = p.status
         /\ SetError(p) \in Docs /\ Alike(p, SetError(p)) /\ SetError(p).status = "ERROR"
<1>1. ASSUME NEW m \in {"READY", "DONE", "ERROR"}
      PROVE  Tell(p, m) \in Docs /\ Alike(p, Tell(p, m)) /\ Tell(p, m).status = p.status
  <2> DEFINE t == Append(p.told, m)
             v == [p EXCEPT !.told = t]
  <2>1. t \in Seq({"READY", "DONE", "ERROR"})
    BY DEF Docs
  <2>2. Tell(p, m) = p \/ Tell(p, m) = v
    BY DEF Tell
  <2> HIDE DEF t
  <2>3. v \in Docs /\ Alike(p, v) /\ v.status = p.status
    BY ZenonT(60), <2>1 DEF Docs, Alike
  <2> QED BY <2>2, <2>3 DEF Alike
<1> DEFINE e == Tell(p, "ERROR")
           no == FALSE
           f == [e EXCEPT !.user = no]
<1>2. e \in Docs /\ Alike(p, e) /\ e.status = p.status
  BY <1>1
<1> HIDE DEF e
<1>3. f \in Docs /\ Alike(p, f) /\ f.status = p.status
  <2>1. no \in BOOLEAN
    OBVIOUS
  <2> HIDE DEF no
  <2>2. f \in Docs /\ Alike(e, f) /\ f.status = e.status
    <3>1. e \in Docs
      BY <1>2
    <3> HIDE DEF e
    <3>2. f \in Docs
      BY <2>1, <3>1 DEF Docs
    <3>3. Alike(e, f) /\ f.status = e.status
      BY <3>1 DEF Docs, Alike
    <3> QED BY <3>2, <3>3
  <2> HIDE DEF f
  <2> QED BY <1>2, <2>2 DEF Alike
<1>4. Failed(p) = f
  BY DEF Failed, e
<1>5. SetError(p) \in Docs /\ Alike(p, SetError(p)) /\ SetError(p).status = "ERROR"
  BY ZenonT(60) DEF SetError, Docs, Alike
<1> QED BY <1>1, <1>3, <1>4, <1>5

\* An error told, an error set, and both.
LEMMA ErrorIsSound ==
  ASSUME NEW p, Sound(p)
  PROVE  /\ Sound(Failed(p)) /\ Orderly(p, Failed(p))
         /\ Sound(SetError(p)) /\ Orderly(p, SetError(p))
         /\ Sound(SetError(Failed(p))) /\ Orderly(p, SetError(Failed(p)))
         /\ Sound(Failed(SetError(p))) /\ Orderly(p, Failed(SetError(p)))
<1>1. ASSUME NEW q, Sound(q)
      PROVE  Sound(Failed(q)) /\ Orderly(q, Failed(q)) /\ Sound(SetError(q)) /\ Orderly(q, SetError(q))
  <2>1. q \in Docs
    BY <1>1 DEF Sound
  <2> QED BY <1>1, <2>1, MessagesKeep, AlikeSound
<1> QED BY <1>1, OrderlyTrans

\* html_proceed_to_done: nothing is waited for.
LEMMA ProceedIsSound ==
  ASSUME NEW p, Sound(p)
  PROVE  Sound(ProceedToDone(p)) /\ Orderly(p, ProceedToDone(p))
<1> DEFINE d == [p EXCEPT !.status = "DONE"]
           v == Tell(d, "DONE")
<1>0. p \in Docs
  BY DEF Sound
<1>1. CASE p.status = "READY" /\ p.active = 0
  <2>1. d \in Docs /\ Alike(p, d) /\ d.status = "DONE"
    BY ZenonT(60), <1>0 DEF Docs, Alike
  <2>2. ProceedToDone(p) = v
    BY <1>1 DEF ProceedToDone, SetDone
  <2> HIDE DEF d
  <2>3. v \in Docs /\ Alike(d, v) /\ v.status = "DONE"
    BY <2>1, MessagesKeep
  <2> HIDE DEF v
  <2>4. Alike(p, v)
    BY <2>1, <2>3 DEF Alike
  <2> QED BY <1>1, <2>2, <2>3, <2>4, AlikeSound
<1>2. CASE ~(p.status = "READY" /\ p.active = 0)
  <2>1. ProceedToDone(p) = p
    BY <1>2 DEF ProceedToDone
  <2> QED BY <2>1 DEF Orderly
<1> QED BY <1>1, <1>2

-----------------------------------------------------------------------------
\* What is met is fetched, but for a style element.
LEMMA MetKeeps ==
  ASSUME NEW p \in Docs, NEW D \in SUBSET Items
  PROVE  LET m == Met(p, D)
         IN  /\ m \in Docs /\ m.active = p.active + Cardinality(D \ Styles)
             /\ \A i \in Items : m.item[i] = IF i \in D \ Styles THEN "fetching" ELSE p.item[i]
             /\ m.modified = p.modified \cup (D \cap Styles) /\ m.ran = p.ran
             /\ m.status = p.status
             /\ m.paused <=> p.paused \/ D \cap Sync # {}
             /\ m.own <=> p.own
             /\ m.open <=> p.open
             /\ m.parsed <=> p.parsed
             /\ m.selecting <=> p.selecting
             /\ m.boxing <=> p.boxing
             /\ m.ready <=> p.ready
             /\ m.late <=> p.late
<1> DEFINE it == [i \in Items |-> IF i \in D \ Styles THEN "fetching" ELSE p.item[i]]
           mo == p.modified \cup (D \cap Styles)
           ac == p.active + Cardinality(D \ Styles)
           pa == p.paused \/ D \cap Sync # {}
           m == Met(p, D)
<1>1. m = [p EXCEPT !.item = it, !.modified = mo, !.active = ac, !.paused = pa]
  BY DEF Met
<1>2. ac \in Int /\ ac = p.active + Cardinality(D \ Styles)
  <2>1. IsFiniteSet(D \ Styles)
    BY HtmlLoadAssumption, FS_Subset
  <2>2. Cardinality(D \ Styles) \in Nat
    BY <2>1, FS_CardinalityType
  <2> QED BY <2>2 DEF Docs
<1>3. pa \in BOOLEAN
  OBVIOUS
<1>4. /\ it \in [Items -> {"none", "fetching", "done", "failed", "dropped"}]
      /\ \A i \in Items : it[i] = IF i \in D \ Styles THEN "fetching" ELSE p.item[i]
  BY DEF Docs
<1>5. mo \in SUBSET Styles
  BY DEF Docs
<1> HIDE DEF it, mo, ac, m
<1>6. pa <=> p.paused \/ D \cap Sync # {}
  OBVIOUS
<1> HIDE DEF pa
<1>7. /\ m \in Docs /\ m.active = ac /\ m.item = it /\ m.modified = mo /\ m.ran = p.ran
      /\ m.status = p.status
      /\ m.paused <=> pa
      /\ m.own <=> p.own
      /\ m.open <=> p.open
      /\ m.parsed <=> p.parsed
      /\ m.selecting <=> p.selecting
      /\ m.boxing <=> p.boxing
      /\ m.ready <=> p.ready
      /\ m.late <=> p.late
  BY <1>1, <1>2, <1>3, <1>4, <1>5 DEF Docs
<1> QED BY <1>2, <1>4, <1>6, <1>7 DEF m, mo

\* Fetches that end and begin are counted.
LEMMA CountKept ==
  ASSUME NEW p, Sound(p), NEW q, NEW A \in SUBSET Fetching(p), NEW B \in SUBSET Items,
         B \cap Fetching(p) = {}, Fetching(q) = (Fetching(p) \ A) \cup B,
         q.active = p.active - Cardinality(A) + Cardinality(B),
         q.own <=> p.own,
         Freed(p) => Freed(q)
  PROVE  Count(q)
<1>1. CASE Freed(p)
  BY <1>1 DEF Count
<1>2. CASE ~Freed(p)
  <2> DEFINE F == Fetching(p)
             G == Fetching(q)
             w == Cardinality(F) + (IF p.own THEN 1 ELSE 0)
  <2>1. p.active >= w /\ (p.active = w \/ Overlap) /\ p.active \in Int
    BY <1>2 DEF Sound, Count, Waits, Docs
  <2>2. A \in SUBSET F /\ F \in SUBSET Items /\ B \cap F = {} /\ G = (F \ A) \cup B
    BY DEF Fetching
  <2> HIDE DEF F, G
  <2>3. Cardinality(G) = Cardinality(F) - Cardinality(A) + Cardinality(B)
        /\ Cardinality(F) \in Nat /\ Cardinality(A) \in Nat /\ Cardinality(B) \in Nat
    <3>1. /\ Cardinality((F \ A) \cup B) = Cardinality(F) - Cardinality(A) + Cardinality(B)
          /\ Cardinality(F) \in Nat /\ Cardinality(A) \in Nat /\ Cardinality(B) \in Nat
      BY <2>2, CountMoves
    <3> QED BY <2>2, <3>1
  <2> DEFINE x == Cardinality(G) + (IF q.own THEN 1 ELSE 0)
  <2>4. q.active - x = p.active - w /\ x \in Int /\ w \in Int /\ q.active \in Int
    BY <2>1, <2>3
  <2>5. x = Waits(q)
    BY DEF G, Waits
  <2> HIDE DEF x, w
  <2>6. q.active >= x /\ (q.active = x \/ Overlap)
    BY <2>1, <2>4
  <2> QED BY <2>5, <2>6 DEF Count
<1> QED BY <1>1, <1>2

\* A document that has met items D since p: by its own fetch, by the parser, or by a
\* script, which is late when the layout was begun.
LEMMA MetIsSound ==
  ASSUME NEW p, Sound(p), p.status # "destroyed", NEW D \in SUBSET Items,
         \A i \in D \ Styles : p.item[i] = "none",
         Base \notin D, Quirks \in D => ~p.own,
         p.parsed => D \cap (Sync \cup Async \cup Defer) = {},
         NEW q \in Docs, q.active = p.active + Cardinality(D \ Styles),
         \A i \in Items : q.item[i] = IF i \in D \ Styles THEN "fetching" ELSE p.item[i],
         q.modified = p.modified \cup (D \cap Styles), q.ran = p.ran,
         q.status = p.status,
         q.paused <=> p.paused \/ D \cap Sync # {},
         q.own <=> p.own,
         q.open <=> p.open,
         q.parsed <=> p.parsed,
         q.selecting <=> p.selecting,
         q.boxing <=> p.boxing,
         q.ready <=> p.ready,
         q.late <=> p.late \/ (p.selecting /\ D # {})
  PROVE  Sound(q)
<1>0. /\ Fetching(p) \in SUBSET Items /\ D \ Styles \in SUBSET Items
      /\ (D \ Styles) \cap Fetching(p) = {}
      /\ Fetching(q) = (Fetching(p) \ {}) \cup (D \ Styles)
  BY DEF Fetching
<1>1. Count(q)
  <2> DEFINE A == {}
             B == D \ Styles
  <2>1. A \in SUBSET Fetching(p) /\ B \in SUBSET Items /\ B \cap Fetching(p) = {}
        /\ Fetching(q) = (Fetching(p) \ A) \cup B
    BY <1>0
  <2>2. q.active = p.active - Cardinality(A) + Cardinality(B)
    <3>1. IsFiniteSet(D \ Styles)
      BY HtmlLoadAssumption, FS_Subset
    <3> QED BY <3>1, FS_EmptySet, FS_CardinalityType DEF Sound, Docs
  <2>3. Freed(p) => Freed(q)
    BY DEF Freed
  <2> HIDE DEF A, B
  <2> QED BY <2>1, <2>2, <2>3, CountKept
<1>2. Parser(q)
  <2>1. Sync \cap Fetching(q) # {} => q.paused
    BY <1>0, Kinds DEF Sound, Parser
  <2>2. q.parsed => ~q.paused
    BY Kinds DEF Sound, Parser
  <2> QED BY <2>1, <2>2, Kinds DEF Sound, Parser
<1>3. Layout(q)
  <2>1. q.selecting =>
          /\ q.parsed /\ ~q.own /\ q.item[Base] = "done"
          /\ \A s \in Sync \cup Async \cup Defer :
               q.item[s] # "fetching" /\ (q.item[s] = "done" => s \in q.ran)
          /\ ~q.late => q.modified = {}
    <3> SUFFICES ASSUME p.selecting
                 PROVE  /\ q.parsed /\ ~q.own /\ q.item[Base] = "done"
                        /\ \A s \in Sync \cup Async \cup Defer :
                             q.item[s] # "fetching" /\ (q.item[s] = "done" => s \in q.ran)
                        /\ ~q.late => q.modified = {}
      OBVIOUS
    <3>1. p.parsed /\ D \cap (Sync \cup Async \cup Defer) = {}
      BY DEF Sound, Layout
    <3>2. \A s \in Sync \cup Async \cup Defer : q.item[s] = p.item[s]
      BY <3>1, Kinds
    <3>3. q.item[Base] = p.item[Base]
      BY Kinds
    <3> QED BY <3>2, <3>3 DEF Sound, Layout
  <2>2. \A s \in Sync : q.item[s] = "done" => s \in q.ran
    BY Kinds DEF Sound, Layout
  <2> QED BY <2>1, <2>2 DEF Sound, Layout, Freed
<1>4. Whole(q)
  <2>1. q.status = "DONE" /\ ~q.late => Fetching(q) = {}
    <3> SUFFICES ASSUME p.status = "DONE", ~q.late PROVE Fetching(q) = {}
      OBVIOUS
    <3>1. p.selecting
      BY DEF Sound, Whole, Layout
    <3> QED BY <1>0, <3>1 DEF Sound, Whole
  <2> QED BY <2>1 DEF Sound, Whole
<1> QED BY <1>1, <1>2, <1>3, <1>4 DEF Sound

\* The parser, up to a synchronous script.
LEMMA ParseIsSound ==
  ASSUME NEW p, Sound(p), p.status # "destroyed", NEW q \in Parse(p)
  PROVE  /\ Sound(q) /\ Orderly(p, q)
         /\ q.status = p.status /\ q.ran = p.ran /\ q.active >= p.active
         /\ q.parsed <=> p.parsed
         /\ q.selecting <=> p.selecting
<1>0. p \in Docs
  BY DEF Sound
<1>1. CASE p.paused \/ p.parsed
  BY <1>0, <1>1 DEF Parse, Orderly, Docs
<1>2. CASE ~p.paused /\ ~p.parsed
  <2>1. PICK D \in SUBSET Unmet(p, Markup) : q = Met(p, D)
    BY <1>2 DEF Parse
  <2>2. /\ D \in SUBSET Items /\ Base \notin D /\ Quirks \notin D
        /\ \A i \in D : p.item[i] = "none"
    BY Kinds DEF Unmet
  <2> DEFINE m == Met(p, D)
  <2>3. /\ m \in Docs /\ m.active = p.active + Cardinality(D \ Styles)
        /\ \A i \in Items : m.item[i] = IF i \in D \ Styles THEN "fetching" ELSE p.item[i]
        /\ m.modified = p.modified \cup (D \cap Styles) /\ m.ran = p.ran
        /\ m.status = p.status
        /\ m.paused <=> p.paused \/ D \cap Sync # {}
        /\ m.own <=> p.own
        /\ m.open <=> p.open
        /\ m.parsed <=> p.parsed
        /\ m.selecting <=> p.selecting
        /\ m.boxing <=> p.boxing
        /\ m.ready <=> p.ready
        /\ m.late <=> p.late
    BY <1>0, <2>2, MetKeeps
  <2> HIDE DEF m
  <2>4. ~p.selecting
    BY <1>2 DEF Sound, Layout
  <2>5. Sound(m)
    BY <1>2, <2>2, <2>3, <2>4, MetIsSound
  <2>6. Orderly(p, m)
    BY <1>2, <2>2, <2>3, Kinds DEF Orderly, Outcome
  <2>7. m.active >= p.active
    <3>1. IsFiniteSet(D \ Styles)
      BY <2>2, HtmlLoadAssumption, FS_Subset
    <3>2. Cardinality(D \ Styles) \in Nat /\ p.active \in Int
      BY <1>0, <3>1, FS_CardinalityType DEF Docs
    <3> QED BY <2>3, <3>2
  <2> QED BY <2>1, <2>3, <2>5, <2>6, <2>7 DEF m
<1> QED BY <1>1, <1>2

-----------------------------------------------------------------------------
\* A sound document that still exists, and what a function may make of it.
Fine(p) == Sound(p) /\ p.status # "destroyed"
Leads(p, q) == Fine(q) /\ Orderly(p, q)

\* One function after another.
LEMMA LeadsTrans ==
  ASSUME NEW p, NEW q, NEW r, Leads(p, q), Leads(q, r)
  PROVE  Leads(p, r)
BY OrderlyTrans DEF Leads

\* Nothing done, an error, and the end.
LEMMA EndsLead ==
  ASSUME NEW p, Fine(p)
  PROVE  /\ Leads(p, p) /\ Leads(p, ProceedToDone(p))
         /\ Leads(p, Failed(p)) /\ Leads(p, SetError(p))
         /\ Leads(p, SetError(Failed(p))) /\ Leads(p, Failed(SetError(p)))
<1>1. p \in Docs /\ Orderly(p, p)
  BY DEF Fine, Sound, Orderly
<1>2. Failed(p).status # "destroyed" /\ SetError(p).status # "destroyed"
  BY <1>1, MessagesKeep DEF Fine
<1>3. SetError(Failed(p)).status # "destroyed" /\ Failed(SetError(p)).status # "destroyed"
  <2>1. Failed(p) \in Docs /\ SetError(p) \in Docs
    BY <1>1, MessagesKeep
  <2> QED BY <1>2, <2>1, MessagesKeep
<1>4. ProceedToDone(p).status # "destroyed"
  <2> DEFINE d == [p EXCEPT !.status = "DONE"]
  <2>1. d \in Docs /\ d.status = "DONE"
    BY <1>1 DEF Docs
  <2>2. ProceedToDone(p) \in {p, Tell(d, "DONE")}
    BY DEF ProceedToDone, SetDone
  <2> HIDE DEF d
  <2>3. Tell(d, "DONE").status = "DONE"
    BY <2>1, MessagesKeep
  <2> QED BY <2>2, <2>3 DEF Fine
<1> QED BY <1>1, <1>2, <1>3, <1>4, ErrorIsSound, ProceedIsSound DEF Leads, Fine

\* Of the scripts of the markup, all that have arrived have run.
AllRun(p) == \A s \in Async \cup Defer : p.item[s] = "done" => s \in p.ran

\* A script that acts.
LEMMA ActLeads ==
  ASSUME NEW p, Fine(p), NEW q \in Act(p)
  PROVE  Leads(p, q) /\ (AllRun(p) => AllRun(q))
<1>0. p \in Docs
  BY DEF Fine, Sound
<1>1. CASE q = p
  BY <1>1, EndsLead
<1>2. CASE q # p
  <2>0. PICK i \in Unmet(p, Added) \cup {s \in Styles \ p.modified : p.item[s] # "none"} :
          \E d \in {Met(p, {i})} \cup {[Met(p, {i}) EXCEPT !.kind[i] = k] : k \in {"async", "defer", "sync"}} :
            q = [d EXCEPT !.late = @ \/ p.selecting]
    <3>1. PICK d \in Insert(p) \cup Modify(p) : q = [d EXCEPT !.late = @ \/ p.selecting]
      BY <1>2 DEF Act
    <3>2. CASE d \in Insert(p)
      <4> DEFINE kinds == IF p.parsed THEN {"async"} ELSE {"async", "defer", "sync"}
      <4>1. PICK i \in Unmet(p, Added), k \in kinds : d = [Met(p, {i}) EXCEPT !.kind[i] = k]
        BY <3>2 DEF Insert
      <4>2. k \in {"async", "defer", "sync"}
        OBVIOUS
      <4>3. d \in {Met(p, {i})} \cup {[Met(p, {i}) EXCEPT !.kind[i] = l] : l \in {"async", "defer", "sync"}}
        BY <4>1, <4>2, Zenon
      <4> QED BY <3>1, <4>3
    <3>3. CASE d \in Modify(p)
      <4>1. PICK i \in {s \in Styles \ p.modified : p.item[s] # "none"} : d = Met(p, {i})
        BY <3>3 DEF Modify
      <4> QED BY <3>1, <4>1
    <3> QED BY <3>1, <3>2, <3>3
  <2>1. PICK d \in {Met(p, {i})} \cup {[Met(p, {i}) EXCEPT !.kind[i] = k] : k \in {"async", "defer", "sync"}} :
          q = [d EXCEPT !.late = @ \/ p.selecting]
    BY <2>0
  <2> DEFINE D == {i}
             m == Met(p, D)
             l == d.late \/ p.selecting
  <2>2. /\ D \in SUBSET Items /\ D # {} /\ Base \notin D /\ Quirks \notin D /\ D \subseteq Added \cup Styles
        /\ D \cap Sync = {} /\ (\A j \in D \ Styles : p.item[j] = "none")
        /\ \A j \in D : j \in Added \/ p.item[j] # "none"
    BY Kinds DEF Unmet, Markup
  <2>3. q = [d EXCEPT !.late = l] /\ (d = m \/ \E k \in {"async", "defer", "sync"} : d = [m EXCEPT !.kind[i] = k])
    BY <2>1
  <2> HIDE DEF D
  <2>4. /\ m \in Docs /\ m.active = p.active + Cardinality(D \ Styles)
        /\ \A j \in Items : m.item[j] = IF j \in D \ Styles THEN "fetching" ELSE p.item[j]
        /\ m.modified = p.modified \cup (D \cap Styles) /\ m.ran = p.ran
        /\ m.status = p.status
        /\ m.paused <=> p.paused \/ D \cap Sync # {}
        /\ m.own <=> p.own
        /\ m.open <=> p.open
        /\ m.parsed <=> p.parsed
        /\ m.selecting <=> p.selecting
        /\ m.boxing <=> p.boxing
        /\ m.ready <=> p.ready
        /\ m.late <=> p.late
    BY <1>0, <2>2, MetKeeps
  <2>a. /\ d \in Docs /\ d.active = m.active /\ d.item = m.item /\ d.modified = m.modified
        /\ d.ran = m.ran /\ d.status = m.status
        /\ d.late <=> m.late
        /\ d.paused <=> m.paused
        /\ d.own <=> m.own
        /\ d.open <=> m.open
        /\ d.parsed <=> m.parsed
        /\ d.selecting <=> m.selecting
        /\ d.boxing <=> m.boxing
        /\ d.ready <=> m.ready
    <3> HIDE DEF m
    <3>1. CASE \E k \in {"async", "defer", "sync"} : d = [m EXCEPT !.kind[i] = k]
      <4>0. PICK k \in {"async", "defer", "sync"} : d = [m EXCEPT !.kind[i] = k]
        BY <3>1
      <4> DEFINE kd == [m.kind EXCEPT ![i] = k]
      <4>1. d = [m EXCEPT !.kind = kd]
        BY <4>0
      <4>2. kd \in [Added -> {"async", "defer", "sync"}]
        BY <2>4 DEF Docs
      <4> HIDE DEF kd
      <4> QED BY <2>4, <4>1, <4>2 DEF Docs
    <3>2. CASE d = m
      BY <2>4, <3>2
    <3> QED BY <2>3, <3>1, <3>2
  <2>5. l \in BOOLEAN /\ (l <=> p.late \/ (p.selecting /\ D # {}))
    BY <2>2, <2>4, <2>a
  <2> HIDE DEF m, l
  <2>6. /\ q \in Docs /\ q.active = m.active /\ q.item = m.item /\ q.modified = m.modified
        /\ q.ran = m.ran /\ q.status = m.status
        /\ q.late <=> l
        /\ q.paused <=> m.paused
        /\ q.own <=> m.own
        /\ q.open <=> m.open
        /\ q.parsed <=> m.parsed
        /\ q.selecting <=> m.selecting
        /\ q.boxing <=> m.boxing
        /\ q.ready <=> m.ready
    BY <2>3, <2>a, <2>5 DEF Docs
  <2>7. Sound(q)
    BY <2>2, <2>4, <2>5, <2>6, Kinds, MetIsSound DEF Fine
  <2>8. Orderly(p, q)
    <3>1. Unmet(p, Markup) \subseteq Unmet(q, Markup)
      BY <2>2, <2>4, <2>6, Kinds DEF Unmet
    <3>2. \A s \in Sync : q.item[s] = p.item[s]
      BY <2>2, <2>4, <2>6, Kinds
    <3> QED BY <2>4, <2>6, <3>1, <3>2 DEF Orderly
  <2>9. AllRun(p) => AllRun(q)
    BY <2>2, <2>4, <2>6, Kinds DEF AllRun
  <2> QED BY <2>4, <2>6, <2>7, <2>8, <2>9 DEF Leads, Fine
<1> QED BY <1>1, <1>2

\* html_script_exec: a deferred script runs only when it is allowed to, and nothing that
\* has arrived is left.
LEMMA ScriptExecLeads ==
  ASSUME NEW p, Fine(p), NEW allowed \in BOOLEAN, allowed => p.parsed,
         NEW q \in ScriptExec(p, allowed)
  PROVE  Leads(p, q) /\ (allowed => AllRun(q))
<1> DEFINE runnable == {s \in AsyncType(p) \cup (IF allowed THEN DeferType(p) ELSE {}) :
                          p.item[s] = "done" /\ s \notin p.ran}
           r == p.ran \cup runnable
           v == [p EXCEPT !.ran = r]
<1>0. p \in Docs
  BY DEF Fine, Sound
<1>1. CASE runnable = {}
  <2>1. q = p
    BY <1>1 DEF ScriptExec
  <2>2. allowed => AllRun(p)
    BY <1>1 DEF AllRun, AsyncType, DeferType
  <2> QED BY <2>1, <2>2, EndsLead
<1>2. CASE runnable # {}
  <2>1. PICK a \in Act(v) : q = ProceedToDone(a)
    BY <1>2 DEF ScriptExec
  <2>2. /\ r \in SUBSET Scripts /\ p.ran \subseteq r
        /\ \A s \in r \ p.ran : s \in Defer => allowed
        /\ allowed => \A s \in Async \cup Defer : p.item[s] = "done" => s \in r
    <3>1. p.ran \in SUBSET Scripts
      BY <1>0 DEF Docs
    <3> QED BY <3>1, Kinds DEF AsyncType, DeferType, Inserted
  <2> HIDE DEF r
  <2>3. /\ v \in Docs /\ v.ran = r /\ v.active = p.active /\ v.item = p.item
        /\ v.modified = p.modified /\ v.status = p.status
        /\ v.own <=> p.own
        /\ v.open <=> p.open
        /\ v.paused <=> p.paused
        /\ v.parsed <=> p.parsed
        /\ v.selecting <=> p.selecting
        /\ v.boxing <=> p.boxing
        /\ v.ready <=> p.ready
        /\ v.late <=> p.late
    <3>a. v \in Docs
      BY <1>0, <2>2 DEF Docs
    <3>b. v.ran = r /\ v.active = p.active /\ v.item = p.item /\ v.modified = p.modified /\ v.status = p.status
      BY <1>0, <2>2 DEF Docs
    <3>c. v.own = p.own /\ v.open = p.open /\ v.paused = p.paused /\ v.parsed = p.parsed
         /\ v.selecting = p.selecting /\ v.boxing = p.boxing /\ v.ready = p.ready /\ v.late = p.late
      BY <1>0, <2>2 DEF Docs
    <3> QED BY <3>a, <3>b, <3>c
  <2> HIDE DEF v
  <2>4. Fetching(v) = Fetching(p) /\ (Freed(v) <=> Freed(p))
    BY <2>3 DEF Fetching, Freed
  <2>5. Count(v) /\ Parser(v)
    BY <2>3, <2>4 DEF Fine, Sound, Count, Waits, Parser
  <2>6. Layout(v)
    BY <2>2, <2>3, <2>4 DEF Fine, Sound, Layout
  <2>7. Whole(v)
    BY <2>3, <2>4 DEF Fine, Sound, Whole
  <2>8. Leads(p, v)
    BY <2>2, <2>3, <2>5, <2>6, <2>7 DEF Leads, Fine, Sound, Orderly, Unmet
  <2>9. allowed => AllRun(v)
    BY <2>2, <2>3 DEF AllRun
  <2>10. Leads(v, a) /\ (AllRun(v) => AllRun(a))
    BY <2>8, ActLeads DEF Leads
  <2>11. Leads(a, ProceedToDone(a))
    BY <2>10, EndsLead DEF Leads
  <2>12. AllRun(a) => AllRun(ProceedToDone(a))
    <3> DEFINE d == [a EXCEPT !.status = "DONE"]
    <3>1. d \in Docs /\ Alike(a, d)
      <4>1. a \in Docs
        BY <2>10 DEF Leads, Fine, Sound
      <4>2. d \in Docs
        BY <4>1 DEF Docs
      <4>3. Alike(a, d)
        BY <4>1 DEF Docs, Alike
      <4> QED BY <4>2, <4>3
    <3>2. ProceedToDone(a) \in {a, Tell(d, "DONE")}
      BY DEF ProceedToDone, SetDone
    <3> HIDE DEF d
    <3>3. Alike(d, Tell(d, "DONE"))
      BY <3>1, MessagesKeep
    <3> QED BY <3>1, <3>2, <3>3 DEF AllRun, Alike
  <2> QED BY <2>1, <2>8, <2>9, <2>10, <2>11, <2>12, LeadsTrans
<1> QED BY <1>1, <1>2

-----------------------------------------------------------------------------
\* The layout is begun when everything in the markup has arrived and run.
LEMMA FinishLeads ==
  ASSUME NEW p, Fine(p), p.parsed, p.active = 0, AllRun(p), NEW q \in FinishConversion(p)
  PROVE  Leads(p, q)
<1> DEFINE l == p.late \/ p.modified # {}
           yes == TRUE
           v == [p EXCEPT !.selecting = yes, !.boxing = yes, !.late = l]
<1>0. p \in Docs /\ yes \in BOOLEAN /\ l \in BOOLEAN
  BY DEF Fine, Sound
<1>1. CASE p.aborted \/ p.selecting \/ p.item[Base] # "done"
  <2>1. q = SetError(Failed(p)) \/ q = p
    BY <1>1 DEF FinishConversion
  <2> QED BY <2>1, EndsLead
<1>2. CASE ~p.aborted /\ ~p.selecting /\ p.item[Base] = "done"
  <2>1. q \in Act(v)
    BY <1>2 DEF FinishConversion
  <2>2. Fetching(p) = {} /\ ~p.own
    BY <1>2, NothingFetched DEF Fine, Freed
  <2>3. l <=> p.late \/ p.modified # {}
    OBVIOUS
  <2> HIDE DEF l
  <2>4. /\ v \in Docs /\ v.ran = p.ran /\ v.active = p.active /\ v.item = p.item
        /\ v.modified = p.modified /\ v.status = p.status
        /\ v.own <=> p.own
        /\ v.open <=> p.open
        /\ v.paused <=> p.paused
        /\ v.parsed <=> p.parsed
        /\ v.selecting
        /\ v.boxing
        /\ v.ready <=> p.ready
        /\ v.late <=> l
    <3> HIDE DEF yes
    <3>1. /\ v \in Docs /\ v.ran = p.ran /\ v.active = p.active /\ v.item = p.item
          /\ v.modified = p.modified /\ v.status = p.status
          /\ v.own <=> p.own
          /\ v.open <=> p.open
          /\ v.paused <=> p.paused
          /\ v.parsed <=> p.parsed
          /\ v.selecting <=> yes
          /\ v.boxing <=> yes
          /\ v.ready <=> p.ready
          /\ v.late <=> l
      BY ZenonT(60), <1>0 DEF Docs
    <3> QED BY <3>1 DEF yes
  <2> HIDE DEF v
  <2>5. Fetching(v) = Fetching(p) /\ ~Freed(v) /\ ~Freed(p)
    BY <1>2, <2>4 DEF Fetching, Freed
  <2>6. Count(v) /\ Parser(v)
    BY <2>4, <2>5 DEF Fine, Sound, Count, Waits, Parser
  <2>7. Layout(v)
    <3>1. \A s \in Sync \cup Async \cup Defer :
            v.item[s] # "fetching" /\ (v.item[s] = "done" => s \in v.ran)
      BY <2>2, <2>4, Kinds DEF Fine, Sound, Layout, AllRun, Fetching
    <3> QED BY <1>2, <2>2, <2>3, <2>4, <2>5, <3>1 DEF Fine, Sound, Layout
  <2>8. Whole(v)
    BY <1>2, <2>4 DEF Fine, Sound, Whole, Layout
  <2>9. Leads(p, v)
    BY <2>4, <2>6, <2>7, <2>8 DEF Leads, Fine, Sound, Orderly, Unmet
  <2>10. Leads(v, q)
    BY <2>1, <2>9, ActLeads DEF Leads
  <2> QED BY <2>9, <2>10, LeadsTrans
<1> QED BY <1>1, <1>2

\* The rest of the markup, when no script is waited for.
LEMMA CompleteParseLeads ==
  ASSUME NEW p, Fine(p), NEW c \in CompleteParse(p)
  PROVE  Leads(p, c.doc)
<1>1. CASE p.parsed
  BY <1>1, EndsLead DEF CompleteParse
<1>2. CASE ~p.parsed
  <2> DEFINE through(r) == [r EXCEPT !.parsed = TRUE]
  <2>0. PICK r \in Parse(p) :
          \/ r.paused /\ c = [doc |-> r, ok |-> TRUE]
          \/ c = [doc |-> Failed(r), ok |-> FALSE]
          \/ ~r.paused /\ c = [doc |-> through(r), ok |-> TRUE]
    BY <1>2 DEF CompleteParse, ParseFails
  <2> HIDE DEF through
  <2>1. r \in Parse(p) /\ (c.doc = r \/ c.doc = Failed(r) \/ (~r.paused /\ c.doc = through(r)))
    BY <2>0
  <2>2. Leads(p, r)
    BY <2>1, ParseIsSound DEF Fine, Leads
  <2>3. CASE c.doc = r
    BY <2>2, <2>3
  <2>a. CASE c.doc = Failed(r)
    <3>1. Leads(r, Failed(r))
      BY <2>2, EndsLead DEF Leads
    <3> QED BY <2>2, <2>a, <3>1, LeadsTrans
  <2>4. CASE ~r.paused /\ c.doc = through(r)
    <3> DEFINE yes == TRUE
               v == [r EXCEPT !.parsed = yes]
    <3>1. r \in Docs /\ yes \in BOOLEAN
      BY <2>2 DEF Leads, Fine, Sound
    <3> HIDE DEF yes
    <3>a. v \in Docs
      BY <3>1 DEF Docs
    <3>b. /\ v.ran = r.ran /\ v.active = r.active /\ v.item = r.item
          /\ v.modified = r.modified /\ v.status = r.status
      BY <3>1 DEF Docs
    <3>c. v.parsed <=> yes
      BY <3>1 DEF Docs
    <3>d. /\ v.own = r.own /\ v.open = r.open /\ v.paused = r.paused
          /\ v.selecting = r.selecting /\ v.boxing = r.boxing
          /\ v.ready = r.ready /\ v.late = r.late
      BY <3>1 DEF Docs
    <3>2. /\ v \in Docs /\ v.ran = r.ran /\ v.active = r.active /\ v.item = r.item
          /\ v.modified = r.modified /\ v.status = r.status
          /\ v.own <=> r.own
          /\ v.open <=> r.open
          /\ v.paused <=> r.paused
          /\ v.parsed <=> yes
          /\ v.selecting <=> r.selecting
          /\ v.boxing <=> r.boxing
          /\ v.ready <=> r.ready
          /\ v.late <=> r.late
      BY <3>a, <3>b, <3>c, <3>d
    <3>3. c.doc = v /\ yes
      BY <2>4 DEF yes, through
    <3> HIDE DEF v
    <3>4. Fetching(v) = Fetching(r) /\ (Freed(v) <=> Freed(r))
      BY <3>2 DEF Fetching, Freed
    <3>5. Count(v) /\ Parser(v)
      BY <2>2, <2>4, <3>2, <3>4 DEF Leads, Fine, Sound, Count, Waits, Parser
    <3>6. Layout(v)
      BY <2>2, <3>2, <3>3, <3>4 DEF Leads, Fine, Sound, Layout
    <3>7. Whole(v)
      BY <2>2, <3>2, <3>4 DEF Leads, Fine, Sound, Whole
    <3>8. Leads(r, v)
      BY <2>2, <3>2, <3>3, <3>5, <3>6, <3>7 DEF Leads, Fine, Sound, Orderly, Unmet
    <3> QED BY <2>2, <3>3, <3>8, LeadsTrans
  <2> QED BY <2>1, <2>3, <2>a, <2>4
<1> QED BY <1>1, <1>2

\* html_begin_conversion, whether or not it returns true, and its callers that do not look.
LEMMA BeginLeads ==
  ASSUME NEW p, Fine(p)
  PROVE  /\ \A b \in BeginConversion(p) : Leads(p, b.doc)
         /\ \A q \in BeginIfCan(p) : Leads(p, q)
<1>1. ASSUME NEW q, Fine(q), q.parsed, CanBegin(q), NEW b \in Converted(q)
      PROVE  Leads(q, b.doc)
  <2> DEFINE yes == TRUE
             v == [q EXCEPT !.begun = yes]
             run == ScriptExec(v, TRUE)
             finished == UNION {IF r.active = 0 THEN FinishConversion(r) ELSE {r} : r \in run}
  <2>1. yes \in BOOLEAN /\ q \in Docs
    BY <1>1 DEF Fine, Sound
  <2>2. v \in Docs /\ Alike(q, v) /\ v.status = q.status
    <3> HIDE DEF yes
    <3>1. v \in Docs
      BY <2>1 DEF Docs
    <3>2. Alike(q, v) /\ v.status = q.status
      BY <2>1 DEF Docs, Alike
    <3> QED BY <3>1, <3>2
  <2>3. (\E r \in finished : b = [doc |-> r, ok |-> TRUE]) \/ (\E r \in run : b = [doc |-> Failed(r), ok |-> FALSE])
    BY <1>1 DEF Converted
  <2> HIDE DEF v
  <2>4. Leads(q, v) /\ v.parsed
    BY <1>1, <2>2, AlikeSound DEF Fine, Leads, Alike
  <2>5. ASSUME NEW r \in run PROVE Leads(q, r) /\ AllRun(r) /\ r.parsed
    <3>1. Leads(v, r) /\ AllRun(r)
      BY <2>4, <2>5, ScriptExecLeads DEF Leads
    <3> QED BY <2>4, <3>1, LeadsTrans DEF Leads, Orderly
  <2>6. ASSUME NEW r \in run, r.active = 0, NEW f \in FinishConversion(r) PROVE Leads(q, f)
    <3>1. Leads(q, r) /\ AllRun(r) /\ r.parsed
      BY <2>5
    <3>2. Leads(r, f)
      BY <2>6, <3>1, FinishLeads DEF Leads
    <3> QED BY <3>1, <3>2, LeadsTrans
  <2> HIDE DEF run
  <2>7. \A r \in finished : Leads(q, r)
    BY <2>5, <2>6
  <2>8. \A r \in run : Leads(q, Failed(r))
    <3>1. ASSUME NEW r \in run PROVE Leads(q, Failed(r))
      <4>1. Leads(q, r)
        BY <2>5
      <4>2. Leads(r, Failed(r))
        BY <4>1, EndsLead DEF Leads
      <4> QED BY <4>1, <4>2, LeadsTrans
    <3> QED BY <3>1
  <2> HIDE DEF finished
  <2> QED BY <2>3, <2>7, <2>8
<1>2. ASSUME NEW b \in BeginConversion(p) PROVE Leads(p, b.doc)
  <2>1. PICK c \in CompleteParse(p) :
          b \in IF ~c.ok \/ ~c.doc.parsed \/ ~CanBegin(c.doc) THEN {c}
                ELSE IF c.doc.aborted THEN {[doc |-> Failed(SetError(c.doc)), ok |-> FALSE]}
                ELSE Converted(c.doc)
    BY <1>2 DEF BeginConversion
  <2> DEFINE q == c.doc
  <2>2. Leads(p, q)
    BY CompleteParseLeads
  <2>3. Leads(q, b.doc)
    <3>1. CASE b = c
      BY <2>2, <3>1, EndsLead DEF Leads
    <3>2. CASE b = [doc |-> Failed(SetError(q)), ok |-> FALSE]
      BY <2>2, <3>2, EndsLead DEF Leads
    <3>3. CASE q.parsed /\ CanBegin(q) /\ b \in Converted(q)
      <4> HIDE DEF q
      <4> QED BY <1>1, <2>2, <3>3 DEF Leads
    <3> QED BY <2>1, <3>1, <3>2, <3>3
  <2> QED BY <2>2, <2>3, LeadsTrans
<1>3. ASSUME NEW q \in BeginIfCan(p) PROVE Leads(p, q)
  BY <1>2, <1>3, EndsLead DEF BeginIfCan
<1> QED BY <1>2, <1>3

-----------------------------------------------------------------------------
\* Fields that the end of a fetch does not touch.
Rest(p, q) ==
  /\ q.modified = p.modified /\ q.status = p.status
  /\ q.own <=> p.own
  /\ q.open <=> p.open
  /\ q.parsed <=> p.parsed
  /\ q.selecting <=> p.selecting
  /\ q.boxing <=> p.boxing
  /\ q.ready <=> p.ready
  /\ q.late <=> p.late

\* A fetch that has ended, and the script of it if it is a synchronous one: the parser goes
\* on when none of the markup is waited for.
LEMMA EndIsFine ==
  ASSUME NEW p, Fine(p), NEW i \in Fetching(p), NEW o \in Outcome,
         NEW q \in Docs, Rest(p, q), q.active = p.active - 1,
         \A j \in Items : q.item[j] = IF j = i THEN o ELSE p.item[j],
         q.ran = p.ran \/ (i \notin Defer /\ q.ran = p.ran \cup {i}),
         i \in Sync => i \in q.ran,
         q.paused => p.paused,
         p.paused /\ ~q.paused => Sync \cap Fetching(p) \subseteq {i}
  PROVE  Fine(q) /\ ((p.paused => q.paused) => Orderly(p, q))
<1>0. p \in Docs /\ p.item[i] = "fetching" /\ i \in Items
  BY DEF Fine, Sound, Fetching
<1>1. Fetching(q) = (Fetching(p) \ {i}) \cup {} /\ Fetching(q) = Fetching(p) \ {i}
  BY <1>0 DEF Fetching, Outcome
<1>2. Count(q)
  <2>1. Cardinality({i}) = 1 /\ Cardinality({}) = 0
    BY FS_Singleton, FS_EmptySet
  <2>2. q.active = p.active - Cardinality({i}) + Cardinality({})
    BY <1>0, <2>1 DEF Docs
  <2> HIDE DEF Outcome
  <2>3. {i} \in SUBSET Fetching(p) /\ {} \in SUBSET Items /\ {} \cap Fetching(p) = {}
    OBVIOUS
  <2>4. Freed(p) => Freed(q)
    BY DEF Freed, Rest
  <2> QED BY <1>1, <2>2, <2>3, <2>4, CountKept DEF Fine, Rest
<1>3. Parser(q)
  BY <1>0, <1>1, Kinds DEF Fine, Sound, Parser, Rest, Outcome
<1>4. Layout(q)
  BY <1>0, Kinds DEF Fine, Sound, Layout, Rest, Outcome, Freed
<1>5. Whole(q)
  BY DEF Fine, Sound, Whole, Rest
<1>6. Fine(q)
  BY <1>2, <1>3, <1>4, <1>5 DEF Fine, Sound, Rest
<1>7. ASSUME p.paused => q.paused PROVE Orderly(p, q)
  <2>2. Unmet(p, Markup) \subseteq Unmet(q, Markup)
    BY <1>0, Kinds DEF Unmet, Rest
  <2>3. \A s \in q.ran \ p.ran : s \notin Defer
    OBVIOUS
  <2> QED BY <1>0, <1>7, <2>2, <2>3, Kinds DEF Orderly, Rest
<1> QED BY <1>6, <1>7

\* The end of a fetch, but that of a synchronous script.
LEMMA EndedLeads ==
  ASSUME Fine(page), NEW i \in Fetching(page) \ Sync, NEW o \in Outcome
  PROVE  Leads(page, Ended(i, o))
<1> DEFINE it == [page.item EXCEPT ![i] = o]
           ac == page.active - 1
           q == Ended(i, o)
<1>0. page \in Docs /\ i \in Items
  BY DEF Fine, Sound, Fetching
<1>1. q = [page EXCEPT !.item = it, !.active = ac]
  BY <1>0 DEF Ended, Now, Docs
<1>2. ac \in Int /\ it \in [Items -> {"none", "fetching", "done", "failed", "dropped"}]
      /\ \A j \in Items : it[j] = IF j = i THEN o ELSE page.item[j]
  BY <1>0 DEF Docs, Outcome
<1> HIDE DEF it, q
<1>3. /\ q \in Docs /\ Rest(page, q) /\ q.active = ac /\ q.item = it /\ q.ran = page.ran
      /\ q.paused <=> page.paused
  <2> HIDE DEF ac
  <2> QED BY <1>0, <1>1, <1>2 DEF Docs, Rest
<1> HIDE DEF Outcome
<1> QED BY <1>2, <1>3, EndIsFine DEF Leads, q

-----------------------------------------------------------------------------
\* What a step of the document keeps: scripts run in order.
InOrder(p, q) ==
  /\ \A s \in (q.ran \ p.ran) \cap Defer : q.parsed
  /\ Waiting(p, q) => Unmet(p, Markup \ p.modified) \subseteq Unmet(q, Markup \ q.modified)

LeadsInOrder(p, q) == Sound(q) /\ InOrder(p, q)

\* What functions keep, steps keep.
LEMMA OrderlyInOrder ==
  ASSUME NEW p, Sound(p), NEW q, Orderly(p, q)
  PROVE  InOrder(p, q)
<1>1. Waiting(p, q) => p.paused
  BY DEF Waiting, Sound, Parser
<1>2. Unmet(p, Markup \ p.modified) = Unmet(p, Markup) /\ Unmet(q, Markup \ q.modified) = Unmet(q, Markup)
  BY DEF Unmet
<1> QED BY <1>1, <1>2 DEF InOrder, Orderly

\* The document's own fetch ends, and the quirks stylesheet may be asked for.
LEMMA DoneSteps ==
  ASSUME Sound(page), Done
  PROVE  LeadsInOrder(page, page')
<1> DEFINE no == FALSE
           p == [page EXCEPT !.open = no]
<1>0. page \in Docs /\ no \in BOOLEAN /\ page.status # "destroyed" /\ page.open
  BY DEF Sound, Done, Exists
<1>1. p \in Docs /\ p.active = page.active /\ p.item = page.item /\ p.modified = page.modified
      /\ p.ran = page.ran /\ p.status = page.status
      /\ (p.own <=> page.own)
      /\ (p.open <=> no)
      /\ (p.paused <=> page.paused)
      /\ (p.parsed <=> page.parsed)
      /\ (p.selecting <=> page.selecting)
      /\ (p.boxing <=> page.boxing)
      /\ (p.ready <=> page.ready)
      /\ (p.late <=> page.late)
  <2> HIDE DEF no
  <2>a. p \in Docs
    BY <1>0 DEF Docs
  <2>b. p.active = page.active /\ p.item = page.item /\ p.modified = page.modified
       /\ p.ran = page.ran /\ p.status = page.status /\ p.open = no
    BY <1>0 DEF Docs
  <2>c. p.own = page.own /\ p.paused = page.paused /\ p.parsed = page.parsed /\ p.selecting = page.selecting
       /\ p.boxing = page.boxing /\ p.ready = page.ready /\ p.late = page.late
    BY <1>0 DEF Docs
  <2> QED BY <2>a, <2>b, <2>c
<1>2. CASE page.status # "LOADING"
  <2>1. page' = p
    BY <1>2 DEF Done
  <2> HIDE DEF p
  <2>2. Fetching(p) = Fetching(page) /\ (Freed(p) <=> Freed(page))
    BY <1>1 DEF Fetching, Freed
  <2>3. Count(p) /\ Parser(p)
    BY <1>1, <2>2 DEF Sound, Count, Waits, Parser
  <2>4. Layout(p) /\ Whole(p)
    BY <1>1, <2>2 DEF Sound, Layout, Whole
  <2>5. Orderly(page, p)
    BY <1>1 DEF Orderly, Unmet
  <2> QED BY <1>1, <2>1, <2>3, <2>4, <2>5, OrderlyInOrder DEF Sound, LeadsInOrder
<1>3. CASE page.status = "LOADING"
  <2> DEFINE D == {Quirks}
             m == Met(p, D)
  <2>1. page' \in Convert(p) \cup Convert(m)
    BY <1>0, <1>3 DEF Done
  <2>2. page.own /\ ~page.selecting /\ ~Freed(page) /\ page.item[Quirks] = "none"
    BY <1>0, <1>3 DEF Sound, Parser, Layout, Freed
  <2>3. /\ D \in SUBSET Items /\ D \ Styles = D /\ D \cap Styles = {}
        /\ D \cap Sync = {} /\ D \cap (Sync \cup Async \cup Defer) = {} /\ Base \notin D
        /\ D \cap Markup = {} /\ \A i \in D : page.item[i] = "none"
    BY <2>2, Kinds
  <2>a. Cardinality(D) = 1
    BY FS_Singleton
  <2>b. Cardinality(D \ Styles) = 1
    BY <2>3, <2>a
  <2> HIDE DEF D
  <2>4. /\ m \in Docs /\ m.active = p.active + 1
        /\ \A i \in Items : m.item[i] = IF i \in D THEN "fetching" ELSE p.item[i]
        /\ m.modified = p.modified /\ m.ran = p.ran
        /\ m.status = p.status
        /\ m.paused <=> p.paused
        /\ m.own <=> p.own
        /\ m.open <=> p.open
        /\ m.parsed <=> p.parsed
        /\ m.selecting <=> p.selecting
        /\ m.boxing <=> p.boxing
        /\ m.ready <=> p.ready
        /\ m.late <=> p.late
    <3>1. /\ m \in Docs /\ m.active = p.active + Cardinality(D \ Styles)
          /\ \A i \in Items : m.item[i] = IF i \in D \ Styles THEN "fetching" ELSE p.item[i]
          /\ m.modified = p.modified \cup (D \cap Styles) /\ m.ran = p.ran
          /\ m.status = p.status
          /\ m.paused <=> p.paused \/ D \cap Sync # {}
          /\ m.own <=> p.own
          /\ m.open <=> p.open
          /\ m.parsed <=> p.parsed
          /\ m.selecting <=> p.selecting
          /\ m.boxing <=> p.boxing
          /\ m.ready <=> p.ready
          /\ m.late <=> p.late
      BY <1>1, <2>3, MetKeeps
    <3> HIDE DEF m, p
    <3>2. m.active = p.active + 1 /\ m.modified = p.modified /\ (m.paused <=> p.paused)
      BY <2>3, <2>b, <3>1
    <3> QED BY <2>3, <3>1, <3>2
  <2> HIDE DEF p, m
  <2> DEFINE W(d) == [d EXCEPT !.active = d.active - 1, !.own = no]
  <2>5. ASSUME NEW d \in Docs
        PROVE  /\ W(d) \in Docs /\ W(d).active = d.active - 1 /\ W(d).item = d.item
               /\ W(d).modified = d.modified /\ W(d).ran = d.ran /\ W(d).status = d.status
               /\ W(d).own <=> no
               /\ W(d).open <=> d.open
               /\ W(d).paused <=> d.paused
               /\ W(d).parsed <=> d.parsed
               /\ W(d).selecting <=> d.selecting
               /\ W(d).boxing <=> d.boxing
               /\ W(d).ready <=> d.ready
               /\ W(d).late <=> d.late
    <3> DEFINE a == d.active - 1
    <3>1. a \in Int
      BY DEF Docs
    <3> HIDE DEF a, no
    <3> DEFINE w == [d EXCEPT !.active = a, !.own = no]
    <3>a. w \in Docs
      BY <1>0, <3>1 DEF Docs
    <3>2. /\ w.active = a /\ w.item = d.item
          /\ w.modified = d.modified /\ w.ran = d.ran /\ w.status = d.status
          /\ w.own <=> no
          /\ w.open <=> d.open
          /\ w.paused <=> d.paused
          /\ w.parsed <=> d.parsed
          /\ w.selecting <=> d.selecting
          /\ w.boxing <=> d.boxing
          /\ w.ready <=> d.ready
          /\ w.late <=> d.late
      BY <1>0, <3>1 DEF Docs
    <3>3. W(d) = w
      BY DEF a
    <3> HIDE DEF w
    <3> QED BY <3>a, <3>2, <3>3 DEF a
  <2> DEFINE u == W(p)
             v == W(m)
  <2>6. /\ u \in Docs /\ u.active = p.active - 1 /\ u.item = p.item
        /\ u.modified = p.modified /\ u.ran = p.ran /\ u.status = p.status
        /\ ~u.own
        /\ u.open <=> p.open
        /\ u.paused <=> p.paused
        /\ u.parsed <=> p.parsed
        /\ u.selecting <=> p.selecting
        /\ u.boxing <=> p.boxing
        /\ u.ready <=> p.ready
        /\ u.late <=> p.late
    BY <1>1, <2>5
  <2>7. /\ v \in Docs /\ v.active = m.active - 1 /\ v.item = m.item
        /\ v.modified = m.modified /\ v.ran = m.ran /\ v.status = m.status
        /\ ~v.own
        /\ v.open <=> m.open
        /\ v.paused <=> m.paused
        /\ v.parsed <=> m.parsed
        /\ v.selecting <=> m.selecting
        /\ v.boxing <=> m.boxing
        /\ v.ready <=> m.ready
        /\ v.late <=> m.late
    BY <2>4, <2>5
  <2>8. ASSUME NEW d, d \in {p, m}, NEW q \in Convert(d), Fine(W(d)) PROVE Leads(W(d), q)
    <3> DEFINE w == W(d)
    <3>1. q \in IF CanBegin(w) THEN {IF b.ok THEN b.doc ELSE SetError(b.doc) : b \in BeginConversion(w)}
                ELSE {w}
      BY <2>8 DEF Convert
    <3> HIDE DEF w
    <3>2. Fine(w)
      BY <2>8 DEF w
    <3>3. CASE CanBegin(w)
      <4>1. PICK b \in BeginConversion(w) : q \in {b.doc, SetError(b.doc)}
        BY <3>1, <3>3
      <4>2. Leads(w, b.doc)
        BY <3>2, BeginLeads
      <4>3. Leads(b.doc, SetError(b.doc))
        BY <4>2, EndsLead DEF Leads
      <4>4. Leads(w, q)
        BY <4>1, <4>2, <4>3, LeadsTrans
      <4> QED BY <4>4 DEF w
    <3>4. CASE ~CanBegin(w)
      <4>1. Leads(w, q)
        BY <3>1, <3>2, <3>4, EndsLead
      <4> QED BY <4>1 DEF w
    <3> QED BY <3>3, <3>4
  <2> HIDE DEF W, u, v
  <2>9. Fine(u) /\ Orderly(page, u)
    <3>1. Fetching(u) = Fetching(page) /\ ~Freed(u)
      BY <1>1, <2>2, <2>6 DEF Fetching, Freed
    <3>2. Count(u)
      <4>1. /\ page.active >= Cardinality(Fetching(page)) + 1
            /\ page.active = Cardinality(Fetching(page)) + 1 \/ Overlap
        BY <2>2 DEF Sound, Count, Waits
      <4>2. IsFiniteSet(Fetching(page))
        BY HtmlLoadAssumption, FS_Subset DEF Fetching
      <4>3. Cardinality(Fetching(page)) \in Nat
        BY <4>2, FS_CardinalityType
      <4>4. Waits(u) = Cardinality(Fetching(page)) /\ u.active = page.active - 1 /\ page.active \in Int
        BY <1>0, <1>1, <2>6, <3>1, <4>3 DEF Waits, Docs
      <4> QED BY <4>1, <4>3, <4>4 DEF Count
    <3>3. Parser(u) /\ Layout(u)
      BY <1>1, <2>2, <2>6, <3>1 DEF Sound, Parser, Layout
    <3>4. Whole(u)
      BY <1>1, <2>6, <3>1 DEF Sound, Whole
    <3>5. Orderly(page, u)
      BY <1>1, <2>6 DEF Orderly, Unmet
    <3> QED BY <1>0, <1>1, <2>6, <3>2, <3>3, <3>4, <3>5 DEF Fine, Sound
  <2>10. Fine(v) /\ Orderly(u, v)
    <3>1. /\ \A i \in D \ Styles : u.item[i] = "none"
          /\ v.modified = u.modified \cup (D \cap Styles)
          /\ v.ran = u.ran /\ v.status = u.status
      BY <1>1, <2>3, <2>4, <2>6, <2>7
    <3>a. v.active = u.active + Cardinality(D \ Styles)
      BY <1>0, <1>1, <2>b, <2>4, <2>6, <2>7 DEF Docs
    <3>2. \A i \in Items : v.item[i] = IF i \in D \ Styles THEN "fetching" ELSE u.item[i]
      BY <2>3, <2>4, <2>6, <2>7
    <3>3. ~u.selecting /\ u.status # "destroyed"
      BY <1>0, <1>1, <2>2, <2>6
    <3>4. Orderly(u, v)
      <4>1. \A i \in Markup : v.item[i] = u.item[i]
        BY <2>3, <3>2, Kinds
      <4>2. Unmet(u, Markup) \subseteq Unmet(v, Markup)
        BY <2>3, <3>1, <4>1 DEF Unmet
      <4> QED BY <2>3, <2>4, <2>6, <2>7, <4>1, <4>2 DEF Orderly, Markup
    <3>5. Sound(v)
      BY <2>3, <2>4, <2>6, <2>7, <2>9, <3>1, <3>a, <3>2, <3>3, MetIsSound DEF Fine
    <3> QED BY <2>4, <2>6, <2>7, <3>3, <3>4, <3>5 DEF Fine
  <2>11. Leads(u, page') \/ Leads(v, page')
    BY <2>1, <2>8, <2>9, <2>10 DEF u, v
  <2>12. Sound(page') /\ Orderly(page, page')
    BY <2>9, <2>10, <2>11, OrderlyTrans DEF Leads, Fine
  <2> QED BY <2>12, OrderlyInOrder DEF LeadsInOrder
<1> QED BY <1>2, <1>3

\* The document's own fetch brings more of the markup, or fails.
LEMMA OwnSteps ==
  ASSUME Sound(page), Own
  PROVE  LeadsInOrder(page, page')
<1>1. CASE Data
  <2>1. Fine(page)
    BY <1>1 DEF Data, Exists, Fine
  <2>2. Sound(page') /\ Orderly(page, page')
    BY <1>1, <2>1, ParseIsSound, EndsLead DEF Data, Fine, Leads
  <2> QED BY <2>2, OrderlyInOrder DEF LeadsInOrder
<1>2. CASE Fail
  <2> DEFINE no == FALSE
             p == [page EXCEPT !.open = no]
             f == Failed(p)
             e == SetError(f)
  <2>1. page \in Docs /\ no \in BOOLEAN /\ page.status # "destroyed" /\ page' = e
    BY <1>2 DEF Sound, Fail, Exists
  <2>2. p \in Docs /\ p.active = page.active /\ p.item = page.item /\ p.modified = page.modified
        /\ p.ran = page.ran /\ p.status = page.status
        /\ (p.own <=> page.own)
        /\ (p.open <=> no)
        /\ (p.paused <=> page.paused)
        /\ (p.parsed <=> page.parsed)
        /\ (p.selecting <=> page.selecting)
        /\ (p.boxing <=> page.boxing)
        /\ (p.ready <=> page.ready)
        /\ (p.late <=> page.late)
    <3> HIDE DEF no
    <3>a. p \in Docs
      BY <2>1 DEF Docs
    <3>b. p.active = page.active /\ p.item = page.item /\ p.modified = page.modified
         /\ p.ran = page.ran /\ p.status = page.status /\ p.open = no
      BY <2>1 DEF Docs
    <3>c. p.own = page.own /\ p.paused = page.paused /\ p.parsed = page.parsed /\ p.selecting = page.selecting
         /\ p.boxing = page.boxing /\ p.ready = page.ready /\ p.late = page.late
      BY <2>1 DEF Docs
    <3> QED BY <3>a, <3>b, <3>c
  <2> HIDE DEF p
  <2>3. Fetching(p) = Fetching(page) /\ (Freed(p) <=> Freed(page))
    BY <2>2 DEF Fetching, Freed
  <2>4. Count(p) /\ Parser(p)
    BY <2>2, <2>3 DEF Sound, Count, Waits, Parser
  <2>5. Layout(p) /\ Whole(p)
    BY <2>2, <2>3 DEF Sound, Layout, Whole
  <2>6. Orderly(page, p) /\ Fine(p)
    BY <2>1, <2>2, <2>4, <2>5 DEF Orderly, Unmet, Fine, Sound
  <2>7. Leads(p, e)
    BY <2>6, EndsLead
  <2>8. Sound(page') /\ Orderly(page, page')
    BY <2>1, <2>6, <2>7, OrderlyTrans DEF Leads, Fine
  <2> QED BY <2>8, OrderlyInOrder DEF LeadsInOrder
<1> QED BY <1>1, <1>2, DoneSteps DEF Own

\* The ends of the other fetches.
LEMMA EndSteps ==
  ASSUME Sound(page), NEW i \in Items, FetchEnds(i)
  PROVE  LeadsInOrder(page, page')
<1>0. page \in Docs /\ Fine(page) /\ i \in Fetching(page)
  BY DEF FetchEnds, SheetEnds, AsyncEnds, DeferEnds, SyncEnds, ObjectEnds, Exists, Sound, Fine
<1>a. ASSUME NEW e, Leads(page, e), Leads(e, page') PROVE LeadsInOrder(page, page')
  BY <1>a, LeadsTrans, OrderlyInOrder DEF Leads, Fine, LeadsInOrder
<1>1. CASE SheetEnds(i) \/ DeferEnds(i)
  <2>1. i \notin Sync
    BY <1>1, Kinds DEF SheetEnds, DeferEnds, DeferType, Inserted
  <2>2. PICK o \in Outcome : page' \in BeginIfCan(Ended(i, o))
    BY <1>1 DEF SheetEnds, DeferEnds
  <2> DEFINE e == Ended(i, o)
  <2>3. Leads(page, e)
    BY <1>0, <2>1, EndedLeads
  <2> HIDE DEF e
  <2>4. page' \in BeginIfCan(e)
    BY <2>2 DEF e
  <2> QED BY <1>a, <2>3, <2>4, BeginLeads DEF Leads
<1>2. CASE AsyncEnds(i)
  <2>1. i \notin Sync
    BY <1>2, Kinds DEF AsyncEnds, AsyncType, Inserted
  <2>2. PICK o \in Outcome :
          page' \in IF CanBegin(Ended(i, o)) THEN BeginIfCan(Ended(i, o))
                    ELSE IF Ended(i, o).begun THEN ScriptExec(Ended(i, o), FALSE) ELSE {Ended(i, o)}
    BY <1>2 DEF AsyncEnds
  <2> DEFINE e == Ended(i, o)
  <2>3. Leads(page, e)
    BY <1>0, <2>1, EndedLeads
  <2>4. page' \in BeginIfCan(e) \/ page' \in ScriptExec(e, FALSE) \/ page' = e
    BY <2>2
  <2> HIDE DEF e
  <2>5. page' \in ScriptExec(e, FALSE) => Leads(e, page')
    BY <2>3, ScriptExecLeads DEF Leads
  <2> QED BY <1>a, <2>3, <2>4, <2>5, BeginLeads, EndsLead DEF Leads
<1>3. CASE SyncEnds(i)
  <2>1. i \in SyncType(page) /\ i \in Scripts /\ i \notin Defer
    BY <1>3, Kinds DEF SyncEnds, SyncType, Inserted
  <2> DEFINE P(o) == [Ended(i, o) EXCEPT !.ran = @ \cup {i},
                                         !.paused = @ /\ SyncType(page) \cap Fetching(page) # {i}]
             Run(o) == IF o = "done" THEN Act(P(o)) ELSE {P(o)}
  <2>2. PICK o \in Outcome :
          page' \in UNION {BeginIfCan(r) : r \in
                      IF page.paused THEN UNION {Parse(q) : q \in Run(o)} ELSE Run(o)}
    BY <1>3 DEF SyncEnds
  <2> DEFINE it == [page.item EXCEPT ![i] = o]
             ac == page.active - 1
             ra == page.ran \cup {i}
             pa == page.paused /\ SyncType(page) \cap Fetching(page) # {i}
             e == [page EXCEPT !.item = it, !.active = ac, !.ran = ra, !.paused = pa]
  <2>3. P(o) = e
    BY <1>0 DEF Ended, Now, Docs
  <2>b. Run(o) = IF o = "done" THEN Act(e) ELSE {e}
    BY <2>3
  <2>4. /\ ac \in Int /\ it \in [Items -> {"none", "fetching", "done", "failed", "dropped"}]
        /\ \A j \in Items : it[j] = IF j = i THEN o ELSE page.item[j]
        /\ ra \in SUBSET Scripts
    BY <1>0, <2>1 DEF Docs, Outcome
  <2>5. /\ pa \in BOOLEAN /\ (pa => page.paused)
        /\ page.paused /\ ~pa => Sync \cap Fetching(page) \subseteq {i}
    BY DEF SyncType
  <2> HIDE DEF it, ra, pa, P, Run
  <2>6. /\ e \in Docs /\ Rest(page, e) /\ e.active = page.active - 1 /\ e.item = it /\ e.ran = ra
        /\ e.paused <=> pa
    <3>1. ac = page.active - 1
      OBVIOUS
    <3> HIDE DEF ac
    <3> QED BY <1>0, <2>4, <2>5, <3>1 DEF Docs, Rest
  <2> HIDE DEF e, Outcome
  <2>7. /\ \A j \in Items : e.item[j] = IF j = i THEN o ELSE page.item[j]
        /\ e.ran = page.ran \cup {i} /\ i \in e.ran
    BY <2>4, <2>6 DEF ra
  <2>8. Fine(e) /\ ((page.paused => e.paused) => Orderly(page, e))
    BY <1>0, <2>1, <2>5, <2>6, <2>7, EndIsFine
  <2>a. PICK q \in Run(o) : \E r \in Parse(q) \cup {q} : page' \in BeginIfCan(r)
    BY <2>2
  <2>9. PICK r \in Parse(q) \cup {q} : page' \in BeginIfCan(r)
    BY <2>a
  <2>10. Leads(e, q)
    BY <2>8, <2>b, ActLeads, EndsLead
  <2>11. Leads(q, r)
    BY <2>9, <2>10, ParseIsSound, EndsLead DEF Leads, Fine
  <2>12. Leads(r, page')
    BY <2>9, <2>11, BeginLeads DEF Leads
  <2>13. Leads(e, page')
    BY <2>10, <2>11, <2>12, LeadsTrans
  <2>14. InOrder(page, page')
    <3>1. CASE page.paused => e.paused
      BY <2>8, <2>13, <3>1, OrderlyTrans, OrderlyInOrder DEF Leads, Fine
    <3>2. CASE page.paused /\ ~e.paused
      <4>1. Sync \cap Fetching(page) \subseteq {i}
        BY <2>5, <2>6, <3>2
      <4>2. i \in Sync => page'.item[i] \in Outcome
        BY <1>0, <2>7, <2>13 DEF Leads, Orderly, Fetching
      <4>3. ~Waiting(page, page')
        BY <4>1, <4>2 DEF Waiting, Fetching, Outcome
      <4>4. \A s \in (page'.ran \ page.ran) \cap Defer : page'.parsed
        BY <2>1, <2>7, <2>13 DEF Leads, Orderly
      <4> QED BY <4>3, <4>4 DEF InOrder
    <3> QED BY <3>1, <3>2
  <2> QED BY <2>13, <2>14 DEF Leads, Fine, LeadsInOrder
<1>4. CASE ObjectEnds(i)
  <2>1. i \notin Sync
    BY <1>4, Kinds DEF ObjectEnds
  <2>2. PICK o \in Outcome : page' = ProceedToDone(Ended(i, o))
    BY <1>4 DEF ObjectEnds
  <2> DEFINE e == Ended(i, o)
  <2>3. Leads(page, e)
    BY <1>0, <2>1, EndedLeads
  <2> HIDE DEF e
  <2>4. page' = ProceedToDone(e)
    BY <2>2 DEF e
  <2> QED BY <1>a, <2>3, <2>4, EndsLead DEF Leads
<1> QED BY <1>1, <1>2, <1>3, <1>4 DEF FetchEnds

-----------------------------------------------------------------------------
\* Style elements that were modified are fetched again: those that were being fetched are
\* counted already.  Of an emptied one only the mark goes, and one that is marked is told of.
LEMMA ModifiedStep ==
  ASSUME Sound(page), ProcessModified
  PROVE  LeadsInOrder(page, page')
<1>1. PICK emptied \in SUBSET page.modified, marked \in SUBSET page.modified :
        page' = Refetched(emptied, marked) \/ page' = Failed(Refetched(emptied, marked))
  BY DEF ProcessModified
<1> DEFINE S == page.modified \ (emptied \cup marked)
           B == {s \in S : page.item[s] # "fetching"}
           it == [i \in Items |-> IF i \in S THEN "fetching"
                                 ELSE IF i \in emptied /\ page.item[i] = "none" THEN "failed"
                                 ELSE page.item[i]]
           ac == page.active + Cardinality(B)
           q == [page EXCEPT !.item = it, !.active = ac, !.modified = marked]
<1>0. /\ page \in Docs /\ page.status # "destroyed" /\ page.modified # {}
      /\ S \in SUBSET Styles /\ emptied \in SUBSET Styles /\ marked \in SUBSET Styles
  BY DEF Sound, ProcessModified, Exists, Docs
<1>2. Refetched(emptied, marked) = q
  BY DEF Refetched
<1>3. B \in SUBSET Items /\ Cardinality(B) \in Nat
  <2>1. B \in SUBSET Items
    BY <1>0, Kinds DEF Markup
  <2>2. IsFiniteSet(B)
    BY <2>1, HtmlLoadAssumption, FS_Subset
  <2> QED BY <2>1, <2>2, FS_CardinalityType
<1>4. /\ it \in [Items -> {"none", "fetching", "done", "failed", "dropped"}]
      /\ \A i \in Items : it[i] = IF i \in S THEN "fetching"
                                  ELSE IF i \in emptied /\ page.item[i] = "none" THEN "failed"
                                  ELSE page.item[i]
      /\ ac \in Int
  <2> HIDE DEF B, S
  <2> QED BY <1>0, <1>3 DEF Docs
<1> HIDE DEF it
<1>5. /\ q \in Docs /\ q.item = it /\ q.active = ac /\ q.modified = marked /\ q.ran = page.ran
      /\ q.status = page.status
      /\ q.own <=> page.own
      /\ q.open <=> page.open
      /\ q.paused <=> page.paused
      /\ q.parsed <=> page.parsed
      /\ q.selecting <=> page.selecting
      /\ q.boxing <=> page.boxing
      /\ q.ready <=> page.ready
      /\ q.late <=> page.late
  <2> HIDE DEF ac, S
  <2> QED BY ZenonT(60), <1>0, <1>4 DEF Docs
<1> HIDE DEF q
<1>6. Fetching(q) = (Fetching(page) \ {}) \cup B /\ B \cap Fetching(page) = {}
  BY <1>0, <1>4, <1>5, Kinds DEF Fetching, Markup
<1>7. Count(q)
  <2>1. q.active = page.active - Cardinality({}) + Cardinality(B)
    BY <1>0, <1>3, <1>5, FS_EmptySet DEF Docs
  <2> HIDE DEF B
  <2>2. {} \in SUBSET Fetching(page)
    OBVIOUS
  <2>3. Freed(page) => Freed(q)
    BY <1>5 DEF Freed
  <2> QED BY <1>3, <1>5, <1>6, <2>1, <2>2, <2>3, CountKept
<1>8. \A s \in Scripts \cup Sheets \cup Boxed : q.item[s] = page.item[s]
  BY <1>0, <1>4, <1>5, Kinds
<1>9. Parser(q)
  <2>1. Sync \cap Fetching(q) = Sync \cap Fetching(page)
    BY <1>8, Kinds DEF Fetching
  <2> QED BY <1>5, <1>8, <2>1, Kinds DEF Sound, Parser
<1>10. Layout(q)
  BY <1>5, <1>8, Kinds DEF Sound, Layout, Freed
<1>11. Whole(q)
  BY <1>0, <1>5 DEF Sound, Whole, Layout
<1>12. Fine(q) /\ InOrder(page, q)
  <2>1. Unmet(page, Markup \ page.modified) \subseteq Unmet(q, Markup \ q.modified)
    BY <1>0, <1>4, <1>5, Kinds DEF Unmet
  <2>2. q.ran \ page.ran = {}
    BY <1>5
  <2> QED BY <1>0, <1>5, <1>7, <1>9, <1>10, <1>11, <2>1, <2>2 DEF Fine, Sound, InOrder
<1>13. CASE page' = q
  BY <1>12, <1>13 DEF LeadsInOrder, Fine
<1>14. CASE page' = Failed(q)
  <2>1. Sound(Failed(q)) /\ Alike(q, Failed(q))
    BY <1>5, <1>12, ErrorIsSound, MessagesKeep DEF Fine
  <2>2. InOrder(page, Failed(q))
    BY <1>12, <2>1 DEF InOrder, Alike, Waiting, Unmet, Fetching
  <2> QED BY <1>14, <2>1, <2>2 DEF LeadsInOrder
<1> QED BY <1>1, <1>2, <1>13, <1>14

\* A timer runs a script again.
LEMMA TimerStep ==
  ASSUME Sound(page), ScriptActs
  PROVE  LeadsInOrder(page, page')
<1>1. PICK s \in page.ran \ page.timers : page' \in Act([page EXCEPT !.timers = @ \cup {s}])
  BY DEF ScriptActs
<1> DEFINE t == page.timers \cup {s}
           q == [page EXCEPT !.timers = t]
<1>2. page \in Docs /\ page.status # "destroyed" /\ t \in SUBSET Scripts
  BY DEF Sound, ScriptActs, Exists, Docs
<1>3. page' \in Act(q)
  BY <1>1
<1> HIDE DEF t
<1>4. q \in Docs /\ Alike(page, q) /\ q.status = page.status
  <2>1. q \in Docs
    BY <1>2 DEF Docs
  <2>2. Alike(page, q) /\ q.status = page.status
    BY <1>2 DEF Docs, Alike
  <2> QED BY <2>1, <2>2
<1> HIDE DEF q
<1>5. Sound(q) /\ Orderly(page, q)
  BY <1>4, AlikeSound
<1>6. Leads(q, page')
  BY <1>2, <1>3, <1>4, <1>5, ActLeads DEF Fine
<1> QED BY <1>5, <1>6, OrderlyTrans, OrderlyInOrder DEF Leads, Fine, LeadsInOrder

\* An object is fetched: one that the layout meets, or a frame that is loaded again.
LEMMA ObjectFetched ==
  ASSUME NEW p, Sound(p), NEW i \in Boxed, NEW q \in Docs,
         \A j \in Items : q.item[j] = IF j = i THEN "fetching" ELSE p.item[j],
         \/ q.active = IF p.item[i] = "fetching" THEN p.active ELSE p.active + 1
         \/ Overlap /\ q.active = p.active + 1,
         q.modified = p.modified, q.ran = p.ran,
         q.own <=> p.own,
         q.open <=> p.open,
         q.paused <=> p.paused,
         q.parsed <=> p.parsed,
         q.selecting <=> p.selecting,
         q.boxing <=> p.boxing,
         q.ready <=> p.ready,
         q.late <=> p.late,
         \/ q.status = p.status /\ p.boxing
         \/ q.status = "READY" /\ p.status \in {"READY", "DONE"}
  PROVE  Sound(q) /\ InOrder(p, q)
<1> DEFINE B == {i} \ Fetching(p)
<1>0. p \in Docs /\ i \in Items
  BY Kinds DEF Sound
<1>1. /\ B \in SUBSET Items /\ B \cap Fetching(p) = {} /\ {} \in SUBSET Fetching(p)
      /\ Fetching(q) = (Fetching(p) \ {}) \cup B
  BY <1>0 DEF Fetching
<1>a. Cardinality({}) = 0
  BY FS_EmptySet
<1>b. Freed(p) => Freed(q)
  BY DEF Freed
<1>2. ASSUME q.active = IF p.item[i] = "fetching" THEN p.active ELSE p.active + 1
      PROVE  Count(q)
  <2>1. q.active = p.active - Cardinality({}) + Cardinality(B)
    <3>1. CASE p.item[i] = "fetching"
      <4>1. B = {}
        BY <1>0, <3>1 DEF Fetching
      <4> HIDE DEF B
      <4>2. Cardinality(B) = 0
        BY <4>1, FS_EmptySet
      <4> QED BY <1>0, <1>2, <1>a, <3>1, <4>2 DEF Docs
    <3>2. CASE p.item[i] # "fetching"
      <4>1. B = {i}
        BY <3>2 DEF Fetching
      <4> HIDE DEF B
      <4>2. Cardinality(B) = 1
        BY <4>1, FS_Singleton
      <4> QED BY <1>0, <1>2, <1>a, <3>2, <4>2 DEF Docs
    <3> QED BY <3>1, <3>2
  <2> HIDE DEF B
  <2> QED BY <1>1, <1>b, <2>1, CountKept
<1>3. Count(q)
  <2>1. CASE p.item[i] = "fetching" /\ Overlap /\ q.active = p.active + 1
    <3>1. Fetching(q) = Fetching(p)
      BY <1>1, <2>1 DEF Fetching
    <3>2. Waits(p) \in Int /\ Waits(q) = Waits(p) /\ p.active \in Int
      <4>1. IsFiniteSet(Fetching(p))
        BY <1>0, HtmlLoadAssumption, FS_Subset DEF Fetching
      <4>2. Cardinality(Fetching(p)) \in Nat
        BY <4>1, FS_CardinalityType
      <4> QED BY <1>0, <3>1, <4>2 DEF Waits, Docs
    <3> QED BY <1>b, <2>1, <3>2 DEF Sound, Count
  <2>2. CASE q.active = IF p.item[i] = "fetching" THEN p.active ELSE p.active + 1
    BY <1>2, <2>2
  <2> QED BY <2>1, <2>2
<1>4. \A s \in Scripts \cup Sheets \cup Styles : q.item[s] = p.item[s]
  BY Kinds
<1>5. Parser(q)
  <2>1. Sync \cap Fetching(q) = Sync \cap Fetching(p)
    BY <1>4, Kinds DEF Fetching
  <2> QED BY <1>4, <2>1, Kinds DEF Sound, Parser
<1>6. Layout(q)
  <2>1. Freed(q) => q.status \in {"ERROR", "destroyed"}
    BY DEF Sound, Layout, Freed
  <2> QED BY <1>4, <2>1, Kinds DEF Sound, Layout
<1>7. Whole(q)
  BY DEF Sound, Whole, Layout
<1>8. Orderly(p, q)
  BY <1>4, Kinds DEF Orderly, Unmet, Markup
<1> QED BY <1>3, <1>5, <1>6, <1>7, <1>8, OrderlyInOrder DEF Sound

\* The handles of some objects are let go, and those that were fetched count no more.
LEMMA ObjectsGone ==
  ASSUME NEW p, Sound(p), NEW D \in SUBSET Boxed, NEW gone, gone = D \cap Fetching(p), NEW q \in Docs,
         \A j \in Items : q.item[j] = IF j \in D THEN "dropped" ELSE p.item[j],
         q.active = p.active - Cardinality(gone),
         q.modified = p.modified, q.ran = p.ran, q.status = p.status,
         q.own <=> p.own,
         q.open <=> p.open,
         q.paused <=> p.paused,
         q.parsed <=> p.parsed,
         q.selecting <=> p.selecting,
         q.boxing <=> p.boxing,
         q.ready <=> p.ready,
         q.late <=> p.late
  PROVE  Sound(q) /\ Orderly(p, q)
<1>0. p \in Docs /\ gone \in SUBSET Fetching(p) /\ Cardinality(gone) \in Nat
  <2>1. IsFiniteSet(gone)
    BY HtmlLoadAssumption, FS_Subset DEF Fetching
  <2> QED BY <2>1, FS_CardinalityType DEF Sound
<1>1. Fetching(q) = (Fetching(p) \ gone) \cup {}
  BY DEF Fetching
<1>2. Count(q)
  <2>1. q.active = p.active - Cardinality(gone) + Cardinality({})
    BY <1>0, FS_EmptySet DEF Docs
  <2>2. {} \in SUBSET Items /\ {} \cap Fetching(p) = {}
    OBVIOUS
  <2>3. Freed(p) => Freed(q)
    BY DEF Freed
  <2> QED BY <1>0, <1>1, <2>1, <2>2, <2>3, CountKept
<1>3. \A s \in Scripts \cup Sheets \cup Styles : q.item[s] = p.item[s]
  BY Kinds
<1>4. Parser(q)
  <2>1. Sync \cap Fetching(q) = Sync \cap Fetching(p)
    BY <1>3, Kinds DEF Fetching
  <2> QED BY <1>3, <2>1, Kinds DEF Sound, Parser
<1>5. Layout(q)
  BY <1>3, Kinds DEF Sound, Layout, Freed
<1>6. Whole(q)
  BY <1>1 DEF Sound, Whole
<1> QED BY <1>2, <1>3, <1>4, <1>5, <1>6, Kinds DEF Sound, Orderly, Unmet, Markup

\* The layout meets an object.
LEMMA BoxStep ==
  ASSUME Sound(page), NEW i \in Items, BoxObject(i)
  PROVE  LeadsInOrder(page, page')
<1> DEFINE it == [page.item EXCEPT ![i] = "fetching"]
<1>0. page \in Docs /\ i \in Boxed
  BY Kinds DEF Sound, BoxObject, Unmet
<1>1. /\ it \in [Items -> {"none", "fetching", "done", "failed", "dropped"}]
      /\ \A j \in Items : it[j] = IF j = i THEN "fetching" ELSE page.item[j]
  BY <1>0 DEF Docs
<1> DEFINE ac == page.active + 1
           q == [page EXCEPT !.item = it, !.active = ac]
<1>2. page' = q /\ page.boxing /\ page.item[i] = "none"
  BY <1>0 DEF BoxObject, Now, Unmet, Docs
<1>3. ac \in Int
  BY <1>0 DEF Docs
<1> HIDE DEF it
<1>4. /\ q \in Docs /\ q.item = it /\ q.active = ac /\ q.modified = page.modified /\ q.ran = page.ran
      /\ q.status = page.status
      /\ q.own <=> page.own
      /\ q.open <=> page.open
      /\ q.paused <=> page.paused
      /\ q.parsed <=> page.parsed
      /\ q.selecting <=> page.selecting
      /\ q.boxing <=> page.boxing
      /\ q.ready <=> page.ready
      /\ q.late <=> page.late
  <2> HIDE DEF ac
  <2> QED BY ZenonT(60), <1>0, <1>1, <1>3 DEF Docs
<1> HIDE DEF q
<1> QED BY <1>0, <1>1, <1>2, <1>4, ObjectFetched DEF LeadsInOrder

\* The refresh of a frame is scheduled; the frame is loaded again, or is lost; and a frame
\* inside it is loaded again, which may count the outer one twice.
LEMMA FrameSteps ==
  ASSUME Sound(page), "early" \notin Mishaps, NEW i \in Frames,
         FrameAsks(i) \/ Refresh(i) \/ Nested(i)
  PROVE  LeadsInOrder(page, page')
<1>0. /\ page \in Docs /\ i \in Boxed /\ i \in Items /\ page.status # "destroyed"
      /\ Refreshable = {"READY", "DONE"}
  BY Kinds DEF Sound, FrameAsks, Refresh, Nested, Exists, Refreshable
<1> DEFINE it == [page.item EXCEPT ![i] = "fetching"]
           gone == [page.item EXCEPT ![i] = "dropped"]
           less == page.due \ {i}
           more == page.due \cup {i}
           re == page.refreshed \cup {i}
<1>1. /\ it \in [Items -> {"none", "fetching", "done", "failed", "dropped"}]
      /\ \A j \in Items : it[j] = IF j = i THEN "fetching" ELSE page.item[j]
      /\ gone \in [Items -> {"none", "fetching", "done", "failed", "dropped"}]
      /\ \A j \in Items : gone[j] = IF j \in {i} THEN "dropped" ELSE page.item[j]
      /\ less \in SUBSET Frames /\ more \in SUBSET Frames /\ re \in SUBSET Frames
  BY <1>0 DEF Docs
<1> DEFINE once == IF page.item[i] = "fetching" THEN page.active ELSE page.active + 1
           twice == page.active + 1
           down == page.active - Cardinality({i} \cap Fetching(page))
           ready == "READY"
           asked == [page EXCEPT !.due = more]
           ignored == [page EXCEPT !.due = less]
           again(n) == [page EXCEPT !.due = less, !.refreshed = re, !.active = n, !.item = it, !.status = ready]
           lost(n) == [page EXCEPT !.due = less, !.refreshed = re, !.active = n, !.item = gone]
           nested(n) == [page EXCEPT !.item = it, !.active = n, !.status = ready, !.refreshed = re]
<1>2. once \in Int /\ twice \in Int /\ down \in Int
      /\ down = IF page.item[i] = "fetching" THEN page.active - 1 ELSE page.active
  <2>1. CASE page.item[i] = "fetching"
    <3>1. {i} \cap Fetching(page) = {i}
      BY <1>0, <2>1 DEF Fetching
    <3>2. Cardinality({i} \cap Fetching(page)) = 1
      BY <3>1, FS_Singleton
    <3> QED BY <1>0, <2>1, <3>2 DEF Docs
  <2>2. CASE page.item[i] # "fetching"
    <3>1. {i} \cap Fetching(page) = {}
      BY <2>2 DEF Fetching
    <3>2. Cardinality({i} \cap Fetching(page)) = 0
      BY <3>1, FS_EmptySet
    <3> QED BY <1>0, <2>2, <3>2 DEF Docs
  <2> QED BY <2>1, <2>2
<1>3. \/ page' = asked
      \/ page' = ignored
      \/ page' = again(once) /\ page.status \in {"READY", "DONE"}
      \/ page' = lost(down)
      \/ page' = nested(twice) /\ page.status \in {"READY", "DONE"}
         /\ (page.item[i] = "done" \/ Overlap)
  <2>1. CASE FrameAsks(i)
    BY <2>1 DEF FrameAsks
  <2>2. CASE Refresh(i)
    <3> DEFINE n == IF page.item[i] = "fetching" THEN page.active - 1 ELSE page.active
               p == [page EXCEPT !.due = less, !.refreshed = re, !.active = n]
    <3>1. \/ page' = ignored
          \/ page' = [Now(p, i, "fetching") EXCEPT !.active = n + 1, !.status = ready]
          \/ page' = Now(p, i, "dropped")
      BY <1>0, <2>2 DEF Refresh, Now, Docs
    <3>2. n + 1 = once
      BY <1>0 DEF Docs
    <3>3. Now(p, i, "dropped") = lost(n)
      BY <1>0 DEF Now, Docs
    <3>4. [Now(p, i, "fetching") EXCEPT !.active = once, !.status = ready] = again(once)
      <4> HIDE DEF once
      <4> QED BY <1>0 DEF Now, Docs
    <3>5. page.status \in {"READY", "DONE"}
      BY <1>0, <2>2 DEF Refresh
    <3>6. n = down
      BY <1>2
    <3> HIDE DEF n, once, down, it, gone, less, re, p
    <3> QED BY <3>1, <3>2, <3>3, <3>4, <3>5, <3>6
  <2>3. CASE Nested(i)
    <3>1. page.ready
      BY <2>3 DEF Nested
    <3> QED BY <1>0, <2>3, <3>1 DEF Nested, Now, Docs, Overlap
  <2> QED BY <2>1, <2>2, <2>3
<1> HIDE DEF it, gone, less, more, re
<1> DEFINE As(q) == /\ q.modified = page.modified /\ q.ran = page.ran
                    /\ q.own <=> page.own
                    /\ q.open <=> page.open
                    /\ q.paused <=> page.paused
                    /\ q.parsed <=> page.parsed
                    /\ q.selecting <=> page.selecting
                    /\ q.boxing <=> page.boxing
                    /\ q.ready <=> page.ready
                    /\ q.late <=> page.late
<1>4. CASE page' = asked \/ page' = ignored
  <2>1. asked \in Docs /\ Alike(page, asked) /\ asked.status = page.status
    <3>1. asked \in Docs
      BY <1>0, <1>1 DEF Docs
    <3>2. Alike(page, asked) /\ asked.status = page.status
      BY <1>0 DEF Docs, Alike
    <3> QED BY <3>1, <3>2
  <2>a. ignored \in Docs /\ Alike(page, ignored) /\ ignored.status = page.status
    <3>1. ignored \in Docs
      BY <1>0, <1>1 DEF Docs
    <3>2. Alike(page, ignored) /\ ignored.status = page.status
      BY <1>0 DEF Docs, Alike
    <3> QED BY <3>1, <3>2
  <2> HIDE DEF asked, ignored
  <2>2. Sound(page') /\ Orderly(page, page')
    BY <1>4, <2>1, <2>a, AlikeSound
  <2> QED BY <2>2, OrderlyInOrder DEF LeadsInOrder
<1>5. CASE page' = again(once) /\ page.status \in {"READY", "DONE"}
  <2> DEFINE q == again(once)
  <2>1. q \in Docs /\ q.item = it /\ q.active = once /\ q.status = ready /\ As(q)
    <3> HIDE DEF once
    <3> QED BY ZenonT(60), <1>0, <1>1, <1>2 DEF Docs
  <2>2. page' = q /\ page.status \in {"READY", "DONE"}
    BY <1>5
  <2>3. once = (IF page.item[i] = "fetching" THEN page.active ELSE page.active + 1) /\ ready = "READY"
    OBVIOUS
  <2> HIDE DEF q, once, ready
  <2>4. LeadsInOrder(page, q)
    BY <1>0, <1>1, <2>1, <2>2, <2>3, ObjectFetched DEF LeadsInOrder
  <2> QED BY <2>2, <2>4
<1>6. CASE page' = lost(down)
  <2> DEFINE q == lost(down)
  <2>1. q \in Docs /\ q.item = gone /\ q.active = down /\ q.status = page.status /\ As(q)
    <3> HIDE DEF down
    <3> QED BY ZenonT(60), <1>0, <1>1, <1>2 DEF Docs
  <2>2. {i} \in SUBSET Boxed /\ page' = q
    BY <1>0, <1>6
  <2> HIDE DEF q
  <2>3. Sound(q) /\ Orderly(page, q)
    BY <1>1, <2>1, <2>2, ObjectsGone
  <2> QED BY <2>2, <2>3, OrderlyInOrder DEF LeadsInOrder
<1>7. CASE page' = nested(twice) /\ page.status \in {"READY", "DONE"} /\ (page.item[i] = "done" \/ Overlap)
  <2> DEFINE q == nested(twice)
  <2>1. q \in Docs /\ q.item = it /\ q.active = twice /\ q.status = ready /\ As(q)
    <3> HIDE DEF twice
    <3> QED BY ZenonT(60), <1>0, <1>1, <1>2 DEF Docs
  <2>2. page' = q /\ page.status \in {"READY", "DONE"} /\ (page.item[i] = "done" \/ Overlap)
    BY <1>7
  <2>3. twice = page.active + 1 /\ ready = "READY"
    OBVIOUS
  <2> HIDE DEF q, twice, ready
  <2>4. LeadsInOrder(page, q)
    BY <1>0, <1>1, <2>1, <2>2, <2>3, ObjectFetched DEF LeadsInOrder
  <2> QED BY <2>2, <2>4
<1> QED BY <1>3, <1>4, <1>5, <1>6, <1>7

\* The layout ends: the document is READY, or the objects are let go and it is in error.
LEMMA LayoutStep ==
  ASSUME Sound(page), BoxDone
  PROVE  LeadsInOrder(page, page')
<1> DEFINE no == FALSE
           yes == TRUE
           p == [page EXCEPT !.boxing = no]
           g == FreeObjects(p)
           w == [p EXCEPT !.ready = yes]
<1>0. /\ page \in Docs /\ page.boxing /\ page.selecting /\ ~page.ready /\ page.status # "destroyed"
      /\ no \in BOOLEAN /\ yes \in BOOLEAN
  BY DEF Sound, Layout, BoxDone, Exists
<1>1. page' = SetError(Failed(g)) \/ page' = ProceedToDone(SetReady(w))
  BY DEF BoxDone
<1>2. /\ p \in Docs /\ p.item = page.item /\ p.active = page.active /\ p.modified = page.modified
      /\ p.ran = page.ran /\ p.status = page.status
      /\ p.own <=> page.own
      /\ p.open <=> page.open
      /\ p.paused <=> page.paused
      /\ p.parsed <=> page.parsed
      /\ p.selecting <=> page.selecting
      /\ p.boxing <=> no
      /\ p.ready <=> page.ready
      /\ p.late <=> page.late
  <2> HIDE DEF no, yes
  <2> QED BY <1>0 DEF Docs
<1>3. CASE page' = SetError(Failed(g))
  <2> DEFINE it == [i \in Items |-> IF i \in Boxed /\ HasContent(p, i) THEN "dropped" ELSE p.item[i]]
             du == {i \in p.due : ~HasContent(p, i)}
             f == Failed(g)
             e == SetError(f)
  <2>1. g = [p EXCEPT !.item = it, !.due = du]
    BY DEF FreeObjects
  <2> HIDE DEF p, g
  <2>2. /\ it \in [Items -> {"none", "fetching", "done", "failed", "dropped"}]
        /\ \A i \in Items \ Boxed : it[i] = page.item[i]
        /\ du \in SUBSET Frames
    BY <1>2 DEF Docs
  <2> HIDE DEF it, du
  <2>3. /\ g \in Docs /\ g.item = it /\ g.modified = p.modified /\ g.ran = p.ran
        /\ g.own <=> p.own
        /\ g.open <=> p.open
        /\ g.paused <=> p.paused
        /\ g.parsed <=> p.parsed
        /\ g.selecting <=> p.selecting
        /\ g.boxing <=> p.boxing
        /\ g.ready <=> p.ready
        /\ g.late <=> p.late
    BY <1>2, <2>1, <2>2 DEF Docs
  <2>4. f \in Docs /\ Alike(g, f)
    BY <2>3, MessagesKeep
  <2> HIDE DEF f
  <2>5. e \in Docs /\ Alike(f, e) /\ e.status = "ERROR"
    BY <2>4, MessagesKeep
  <2> HIDE DEF e
  <2>6. /\ e.item = it /\ e.modified = page.modified /\ e.ran = page.ran
        /\ e.own <=> page.own
        /\ e.open <=> page.open
        /\ e.paused <=> page.paused
        /\ e.parsed <=> page.parsed
        /\ e.selecting <=> page.selecting
        /\ ~e.boxing
        /\ e.ready <=> page.ready
        /\ e.late <=> page.late
    BY <1>2, <2>3, <2>4, <2>5 DEF Alike
  <2>7. \A s \in Scripts \cup Sheets \cup Styles : e.item[s] = page.item[s]
    BY <2>2, <2>6, Kinds
  <2>8. Count(e)
    BY <1>0, <2>6 DEF Count, Freed
  <2>9. Parser(e)
    <3>1. Sync \cap Fetching(e) = Sync \cap Fetching(page)
      BY <2>7, Kinds DEF Fetching
    <3> QED BY <2>5, <2>6, <2>7, <3>1, Kinds DEF Sound, Parser
  <2>10. Layout(e)
    BY <1>0, <2>5, <2>6, <2>7, Kinds DEF Sound, Layout
  <2>11. Whole(e)
    BY <2>5 DEF Whole
  <2>12. Orderly(page, e)
    BY <2>6, <2>7, Kinds DEF Orderly, Unmet, Markup
  <2> QED BY <1>3, <2>5, <2>8, <2>9, <2>10, <2>11, <2>12, OrderlyInOrder DEF Sound, LeadsInOrder, e, f
<1>4. CASE page' = ProceedToDone(SetReady(w))
  <2> DEFINE x == [w EXCEPT !.status = "READY"]
             y == Tell(x, "READY")
  <2> HIDE DEF p, g
  <2>1. /\ x \in Docs /\ x.item = page.item /\ x.active = page.active /\ x.modified = page.modified
        /\ x.ran = page.ran /\ x.status = "READY"
        /\ x.own <=> page.own
        /\ x.open <=> page.open
        /\ x.paused <=> page.paused
        /\ x.parsed <=> page.parsed
        /\ x.selecting <=> page.selecting
        /\ x.boxing <=> no
        /\ x.ready <=> yes
        /\ x.late <=> page.late
    <3> HIDE DEF no, yes
    <3>1. /\ w \in Docs /\ w.item = p.item /\ w.active = p.active /\ w.modified = p.modified
          /\ w.ran = p.ran
          /\ w.own <=> p.own
          /\ w.open <=> p.open
          /\ w.paused <=> p.paused
          /\ w.parsed <=> p.parsed
          /\ w.selecting <=> p.selecting
          /\ w.boxing <=> p.boxing
          /\ w.ready <=> yes
          /\ w.late <=> p.late
      <4>a. w \in Docs
        BY <1>0, <1>2 DEF Docs
      <4>b. w.item = p.item /\ w.active = p.active /\ w.modified = p.modified
           /\ w.ran = p.ran /\ w.ready = yes
        BY <1>0, <1>2 DEF Docs
      <4>c. w.own = p.own /\ w.open = p.open /\ w.paused = p.paused /\ w.parsed = p.parsed
           /\ w.selecting = p.selecting /\ w.boxing = p.boxing /\ w.late = p.late
        BY <1>0, <1>2 DEF Docs
      <4> QED BY <4>a, <4>b, <4>c
    <3> HIDE DEF w
    <3>2. /\ x \in Docs /\ x.item = w.item /\ x.active = w.active /\ x.modified = w.modified
          /\ x.ran = w.ran /\ x.status = "READY"
          /\ x.own <=> w.own
          /\ x.open <=> w.open
          /\ x.paused <=> w.paused
          /\ x.parsed <=> w.parsed
          /\ x.selecting <=> w.selecting
          /\ x.boxing <=> w.boxing
          /\ x.ready <=> w.ready
          /\ x.late <=> w.late
      <4>a. x \in Docs
        BY <3>1 DEF Docs
      <4>b. x.item = w.item /\ x.active = w.active /\ x.modified = w.modified
           /\ x.ran = w.ran /\ x.status = "READY"
        BY <3>1 DEF Docs
      <4>c. x.own = w.own /\ x.open = w.open /\ x.paused = w.paused /\ x.parsed = w.parsed
           /\ x.selecting = w.selecting /\ x.boxing = w.boxing /\ x.ready = w.ready /\ x.late = w.late
        BY <3>1 DEF Docs
      <4> QED BY <4>a, <4>b, <4>c
    <3> QED BY <1>2, <3>1, <3>2
  <2>2. SetReady(w) = y
    BY DEF SetReady
  <2> HIDE DEF w, x
  <2>3. y \in Docs /\ Alike(x, y) /\ y.status = "READY"
    BY <2>1, MessagesKeep
  <2> HIDE DEF y
  <2>4. Alike(x, y) /\ Sound(x)
    <3>1. Fetching(x) = Fetching(page) /\ ~Freed(x) /\ ~Freed(page)
      BY <1>0, <2>1 DEF Fetching, Freed
    <3>2. Count(x) /\ Parser(x)
      BY <1>0, <2>1, <3>1 DEF Sound, Count, Waits, Parser
    <3>3. Layout(x) /\ Whole(x)
      BY <1>0, <2>1, <3>1 DEF Sound, Layout, Whole
    <3> QED BY <2>1, <2>3, <3>2, <3>3 DEF Sound
  <2>5. Orderly(page, x)
    BY <2>1 DEF Orderly, Unmet
  <2>6. Fine(y) /\ Orderly(x, y)
    BY <2>1, <2>3, <2>4, AlikeSound DEF Fine
  <2>7. Leads(y, ProceedToDone(y))
    BY <2>6, EndsLead
  <2>8. Sound(page') /\ Orderly(page, page')
    BY <1>4, <2>2, <2>5, <2>6, <2>7, OrderlyTrans DEF Leads, Fine
  <2> QED BY <2>8, OrderlyInOrder DEF LeadsInOrder
<1> QED BY <1>1, <1>3, <1>4

\* The client stops the load or lets the document go, and the cache destroys it.
LEMMA ClientSteps ==
  ASSUME Sound(page), Stop \/ Release \/ Clean
  PROVE  LeadsInOrder(page, page')
<1>0. page \in Docs /\ TRUE \in BOOLEAN /\ FALSE \in BOOLEAN
  BY DEF Sound
<1>1. CASE (Stop /\ page.status = "LOADING") \/ Release \/ Clean
  <2> DEFINE no == FALSE
             yes == TRUE
             a == [page EXCEPT !.aborted = yes, !.user = no]
             du == IF page.ready THEN {i \in page.due : ~HasContent(page, i)} ELSE page.due
             b == [page EXCEPT !.user = no, !.due = du]
             c == [page EXCEPT !.status = "destroyed"]
  <2>1. page' = a \/ page' = b \/ page' = c
    BY <1>1 DEF Stop, Release, Clean
  <2>2. no \in BOOLEAN /\ yes \in BOOLEAN /\ du \in SUBSET Frames
    BY <1>0 DEF Docs
  <2> HIDE DEF no, yes, du
  <2>a. a \in Docs /\ b \in Docs
    BY <1>0, <2>2 DEF Docs
  <2>3. Alike(page, a) /\ a.status = page.status
    BY <1>0 DEF Docs, Alike
  <2>4. Alike(page, b) /\ b.status = page.status
    BY <1>0 DEF Docs, Alike
  <2>5. c \in Docs /\ Alike(page, c) /\ c.status = "destroyed"
    BY ZenonT(60), <1>0 DEF Docs, Alike
  <2> HIDE DEF a, b, c
  <2>6. Sound(page') /\ Orderly(page, page')
    BY <2>1, <2>a, <2>3, <2>4, <2>5, AlikeSound
  <2> QED BY <2>6, OrderlyInOrder DEF LeadsInOrder
<1>2. CASE Stop /\ page.status = "READY"
  <2>1. PICK held \in SUBSET Frames : page' = ProceedToDone(AbortObjects(page, held))
    BY <1>2 DEF Stop
  <2> DEFINE gone == Fetching(page) \cap (Boxed \ held)
             it == [i \in Items |-> IF i \in gone THEN "dropped" ELSE page.item[i]]
             ac == page.active - Cardinality(gone)
             q == [page EXCEPT !.item = it, !.active = ac]
  <2>2. AbortObjects(page, held) = q
    BY DEF AbortObjects
  <2>3. gone \in SUBSET Boxed /\ gone = gone \cap Fetching(page) /\ Cardinality(gone) \in Nat
    <3>1. IsFiniteSet(gone)
      BY HtmlLoadAssumption, FS_Subset DEF Fetching
    <3> QED BY <3>1, FS_CardinalityType
  <2> HIDE DEF gone
  <2>4. /\ it \in [Items -> {"none", "fetching", "done", "failed", "dropped"}]
        /\ \A i \in Items : it[i] = IF i \in gone THEN "dropped" ELSE page.item[i]
        /\ ac \in Int
    BY <1>0, <2>3 DEF Docs
  <2> HIDE DEF it
  <2>5. /\ q \in Docs /\ q.item = it /\ q.active = ac /\ q.modified = page.modified /\ q.ran = page.ran
        /\ q.status = page.status
        /\ q.own <=> page.own
        /\ q.open <=> page.open
        /\ q.paused <=> page.paused
        /\ q.parsed <=> page.parsed
        /\ q.selecting <=> page.selecting
        /\ q.boxing <=> page.boxing
        /\ q.ready <=> page.ready
        /\ q.late <=> page.late
    <3> HIDE DEF ac
    <3> QED BY ZenonT(60), <1>0, <2>4 DEF Docs
  <2> HIDE DEF q
  <2>12. Fine(q) /\ Orderly(page, q)
    <3>1. Sound(q) /\ Orderly(page, q)
      BY <2>3, <2>4, <2>5, ObjectsGone
    <3> QED BY <1>2, <2>5, <3>1 DEF Fine
  <2>13. Leads(q, ProceedToDone(q))
    BY <2>12, EndsLead
  <2>14. Sound(page') /\ Orderly(page, page')
    BY <2>1, <2>2, <2>12, <2>13, OrderlyTrans DEF Leads, Fine
  <2> QED BY <2>14, OrderlyInOrder DEF LeadsInOrder
<1> QED BY <1>1, <1>2 DEF Stop

-----------------------------------------------------------------------------
\* Every step keeps the document sound and its scripts in order.
LEMMA LoadStep ==
  ASSUME Sound(page), "early" \notin Mishaps, [Next]_page
  PROVE  LeadsInOrder(page, page')
<1>1. CASE UNCHANGED page
  BY <1>1 DEF LeadsInOrder, InOrder
<1>2. CASE Next
  BY <1>2, OwnSteps, EndSteps, BoxStep, FrameSteps, ModifiedStep, TimerStep, LayoutStep, ClientSteps DEF Next
<1> QED BY <1>1, <1>2

\* The document as it is created.
LEMMA InitIsSound == Init => Sound(page)
<1> SUFFICES ASSUME Init PROVE Sound(page)
  OBVIOUS
<1> DEFINE it == [i \in Items |-> IF i = Base THEN "fetching" ELSE "none"]
           no == FALSE
           yes == TRUE
           none == {}
           told == <<>>
           kd == [i \in Added |-> "async"]
<1>1. /\ kd \in [Added -> {"async", "defer", "sync"}] /\ it \in [Items -> {"none", "fetching", "done", "failed", "dropped"}]
      /\ \A i \in Items : it[i] = IF i = Base THEN "fetching" ELSE "none"
      /\ no \in BOOLEAN /\ yes \in BOOLEAN /\ none \in SUBSET Styles /\ none \in SUBSET Scripts
      /\ none \in SUBSET Frames /\ told \in Seq({"READY", "DONE", "ERROR"})
  OBVIOUS
<1>2. page = [status |-> "LOADING", active |-> 2, own |-> yes, open |-> yes, item |-> it,
              kind |-> kd, due |-> none, modified |-> none, ran |-> none, paused |-> no, parsed |-> no, begun |-> no,
              selecting |-> no, boxing |-> no, ready |-> no, aborted |-> no, user |-> yes,
              told |-> told, late |-> no, refreshed |-> none, timers |-> none]
  BY DEF Init
<1> HIDE DEF it, no, yes, none, told, kd
<1>3. /\ page \in Docs /\ page.status = "LOADING" /\ page.active = 2 /\ page.item = it
      /\ page.own <=> yes
      /\ page.paused <=> no
      /\ page.parsed <=> no
      /\ page.selecting <=> no
      /\ page.boxing <=> no
      /\ page.ready <=> no
  BY <1>1, <1>2 DEF Docs
<1>4. page.own /\ ~page.paused /\ ~page.parsed /\ ~page.selecting /\ ~page.boxing /\ ~page.ready
  BY <1>3 DEF no, yes
<1>5. Fetching(page) = {Base} /\ Base \notin Sync
  BY <1>1, <1>3, Kinds DEF Fetching
<1>6. Count(page)
  <2>1. Cardinality(Fetching(page)) = 1
    BY <1>5, FS_Singleton
  <2> QED BY <1>3, <1>4, <2>1 DEF Count, Waits
<1>7. Parser(page) /\ Layout(page) /\ Whole(page)
  BY <1>1, <1>3, <1>4, <1>5, Kinds DEF Parser, Layout, Whole, Freed
<1> QED BY <1>3, <1>6, <1>7 DEF Sound

\* The document sound in every state.
LEMMA LoadInvariance == "early" \notin Mishaps => (Spec => []Sound(page))
<1> SUFFICES ASSUME "early" \notin Mishaps PROVE Spec => []Sound(page)
  OBVIOUS
<1>1. Sound(page) /\ [Next]_page => Sound(page)'
  BY LoadStep DEF LeadsInOrder
<1> QED BY <1>1, InitIsSound, PTL DEF Spec

\* The count of the fetches a document waits for is exact, through failures, replaced
\* sheets, aborts and frames that are loaded again, when no frame inside a frame is loaded
\* again while the outer one is waited for, and no frame before READY.
THEOREM CountIsExact == "early" \notin Mishaps /\ "overlap" \notin Mishaps => (Spec => []ActiveExact)
<1> SUFFICES ASSUME "early" \notin Mishaps, "overlap" \notin Mishaps PROVE Spec => []ActiveExact
  OBVIOUS
<1>1. Sound(page) => ActiveExact
  BY DEF Sound, Count, Waits, Overlap, Layout, ActiveExact, Counting, Awaited
<1> QED BY <1>1, LoadInvariance, PTL

\* It is never too low, whatever else goes wrong.
THEOREM CountCovers == "early" \notin Mishaps => (Spec => []ActiveCovers)
<1> SUFFICES ASSUME "early" \notin Mishaps PROVE Spec => []ActiveCovers
  OBVIOUS
<1>1. Sound(page) => ActiveCovers
  BY DEF Sound, Count, Waits, Layout, ActiveCovers, Counting, Awaited
<1> QED BY <1>1, LoadInvariance, PTL

\* A document that is READY has its layout and has run every script of the markup that
\* arrived, and a DONE one has its objects, when no frame is refreshed before.
THEOREM ReadyIsWhole == "early" \notin Mishaps => (Spec => []WholeWhenReady)
<1> SUFFICES ASSUME "early" \notin Mishaps PROVE Spec => []WholeWhenReady
  OBVIOUS
<1>1. Sound(page) => WholeWhenReady
  BY DEF Sound, Whole, Layout, Parser, WholeWhenReady
<1> QED BY <1>1, LoadInvariance, PTL

\* Deferred scripts run when the parse is complete, and the parser meets nothing more while
\* a synchronous script is waited for.
THEOREM ScriptsInOrder == "early" \notin Mishaps => (Spec => ScriptOrder)
<1> SUFFICES ASSUME "early" \notin Mishaps PROVE Spec => ScriptOrder
  OBVIOUS
<1>1. Sound(page) /\ [Next]_page =>
        [/\ \A s \in (page'.ran \ page.ran) \cap Defer : page'.parsed
         /\ Waiting(page, page') =>
              Unmet(page, Markup \ page.modified) \subseteq Unmet(page', Markup \ page'.modified)]_page
  BY LoadStep DEF LeadsInOrder, InOrder
<1> QED BY <1>1, LoadInvariance, PTL DEF Spec, ScriptOrder

-----------------------------------------------------------------------------
\* Sums over the entries of the store.

\* A set of numbers that is not empty has a least.
LEMMA LeastExists ==
  ASSUME NEW S, S \subseteq Nat, S # {}
  PROVE  \E n \in S : \A m \in S : n <= m
<1>1. \E x \in S : \A y \in S : ~(<<y, x>> \in OpToRel(<, Nat))
  BY WFMin, NatLessThanWellFounded
<1>2. \A x, y \in Nat : ~(<<y, x>> \in OpToRel(<, Nat)) => x <= y
  BY DEF OpToRel
<1> QED BY <1>1, <1>2

\* The function that adds up the sizes of entries, one entry after the other.
First(s) == CHOOSE x \in s : TRUE
Adds(f, entries, s) == IF s = {} THEN 0 ELSE Total(entries[First(s)]) + f[s \ {First(s)}]
AddsUp(f, entries, S) == f = [s \in SUBSET S |-> Adds(f, entries, s)]
UpTo(S, n) == {s \in SUBSET S : Cardinality(s) <= n}
AddsUpTo(f, entries, S, n) == f = [s \in UpTo(S, n) |-> Adds(f, entries, s)]

\* MapThenSumSet, unfolded to the function that it chooses.
LEMMA TotalIsIteration ==
  ASSUME NEW entries, NEW S
  PROVE  TotalOf(entries, S) = (CHOOSE f : AddsUp(f, entries, S))[S]
BY DEF TotalOf, MapThenSumSet, MapThenFoldSet, AddsUp, Adds, First

\* The element taken away next, and what remains.
LEMMA FirstProperties ==
  ASSUME NEW S, IsFiniteSet(S), S # {}
  PROVE  /\ First(S) \in S /\ IsFiniteSet(S \ {First(S)}) /\ Cardinality(S) \in Nat
         /\ Cardinality(S \ {First(S)}) \in Nat
         /\ Cardinality(S \ {First(S)}) = Cardinality(S) - 1
<1>1. First(S) \in S
  BY DEF First
<1> QED BY <1>1, FS_RemoveElement, FS_CardinalityType

\* The sums of the subsets can be written as a function.
LEMMA IterationExists ==
  ASSUME NEW entries, NEW S, IsFiniteSet(S)
  PROVE  \E f : AddsUp(f, entries, S)
<1> DEFINE bad == {n \in Nat : ~\E f : AddsUpTo(f, entries, S, n)}
<1>1. \A s \in SUBSET S : IsFiniteSet(s) /\ Cardinality(s) \in Nat /\ Cardinality(s) <= Cardinality(S)
  BY FS_Subset, FS_CardinalityType
<1>2. bad = {}
  <2> SUFFICES ASSUME bad # {} PROVE FALSE
    OBVIOUS
  <2>1. PICK n \in bad : \A m \in bad : n <= m
    BY LeastExists
  <2>2. CASE n = 0
    <3> DEFINE f == [s \in UpTo(S, 0) |-> 0]
    <3>1. \A s \in UpTo(S, 0) : s = {}
      BY <1>1, FS_EmptySet DEF UpTo
    <3>2. AddsUpTo(f, entries, S, 0)
      BY <3>1 DEF AddsUpTo, Adds
    <3> QED BY <2>1, <2>2, <3>2
  <2>3. CASE n # 0
    <3>1. n - 1 \in Nat /\ n - 1 \notin bad
      BY <2>1, <2>3
    <3>2. PICK f : AddsUpTo(f, entries, S, n - 1)
      BY <3>1
    <3> DEFINE g == [s \in UpTo(S, n) |-> Adds(f, entries, s)]
    <3>3. ASSUME NEW s \in UpTo(S, n) PROVE Adds(g, entries, s) = Adds(f, entries, s)
      <4>1. CASE s = {}
        BY <4>1 DEF Adds
      <4>2. CASE s # {}
        <5> DEFINE r == s \ {First(s)}
        <5>1. r \in UpTo(S, n - 1) /\ r \in UpTo(S, n)
          BY <1>1, <2>1, <3>3, <4>2, FirstProperties DEF UpTo
        <5>2. f[r] = Adds(f, entries, r)
          <6> HIDE DEF r
          <6> QED BY <3>2, <5>1 DEF AddsUpTo
        <5>3. g[r] = Adds(f, entries, r)
          BY <5>1
        <5> QED BY <4>2, <5>2, <5>3 DEF Adds
      <4> QED BY <4>1, <4>2
    <3>4. AddsUpTo(g, entries, S, n)
      BY <3>3 DEF AddsUpTo
    <3> QED BY <2>1, <3>4
  <2> QED BY <2>2, <2>3
<1>3. Cardinality(S) \in Nat
  BY FS_CardinalityType
<1>4. PICK f : AddsUpTo(f, entries, S, Cardinality(S))
  BY <1>2, <1>3
<1>5. UpTo(S, Cardinality(S)) = SUBSET S
  BY <1>1 DEF UpTo
<1> QED BY <1>4, <1>5 DEF AddsUpTo, AddsUp

\* The sizes of entries are numbers, and do not depend on how they are added up.
LEMMA IterationSame ==
  ASSUME NEW a, NEW b, NEW S, NEW T, IsFiniteSet(S), IsFiniteSet(T),
         NEW f, NEW g, AddsUp(f, a, S), AddsUp(g, b, T),
         NEW s \in SUBSET S, s \in SUBSET T,
         \A u \in s : Total(a[u]) \in Nat /\ Total(a[u]) = Total(b[u])
  PROVE  f[s] \in Nat /\ f[s] = g[s]
<1> DEFINE wrong == {r \in SUBSET s : ~(f[r] \in Nat /\ f[r] = g[r])}
           bad == {n \in Nat : \E r \in wrong : Cardinality(r) = n}
<1>1. \A r \in SUBSET s : IsFiniteSet(r) /\ Cardinality(r) \in Nat
  BY FS_Subset, FS_CardinalityType
<1> SUFFICES ASSUME s \in wrong PROVE FALSE
  OBVIOUS
<1>2. PICK n \in bad : \A m \in bad : n <= m
  <2>1. bad # {} /\ bad \subseteq Nat
    BY <1>1
  <2> HIDE DEF bad
  <2> QED BY <2>1, LeastExists
<1>3. PICK r \in wrong : Cardinality(r) = n
  BY <1>2
<1>4. f[r] = Adds(f, a, r) /\ g[r] = Adds(g, b, r)
  BY <1>3 DEF AddsUp
<1>5. r # {}
  BY <1>3, <1>4 DEF Adds
<1> DEFINE q == r \ {First(r)}
<1>6. q \in SUBSET s /\ Cardinality(q) \in Nat /\ Cardinality(q) < n /\ First(r) \in s
  BY <1>1, <1>2, <1>3, <1>5, FirstProperties
<1>7. q \notin wrong
  <2> HIDE DEF wrong, q
  <2> QED BY <1>2, <1>6
<1>8. f[q] \in Nat /\ f[q] = g[q]
  BY <1>6, <1>7
<1>9. Total(a[First(r)]) \in Nat /\ Total(a[First(r)]) = Total(b[First(r)])
  BY <1>6
<1>10. f[r] = Total(a[First(r)]) + f[q] /\ g[r] = Total(b[First(r)]) + g[q]
  BY <1>4, <1>5 DEF Adds
<1>11. f[r] \in Nat /\ f[r] = g[r]
  <2> HIDE DEF q
  <2> QED BY <1>8, <1>9, <1>10
<1> QED BY <1>3, <1>11

\* That function adds an element in whatever order it is met.
LEMMA IterationAdds ==
  ASSUME NEW a, NEW S, IsFiniteSet(S), NEW f, AddsUp(f, a, S),
         \A u \in S : Total(a[u]) \in Nat,
         NEW s \in SUBSET S, NEW x \in S, x \notin s
  PROVE  f[s \union {x}] = f[s] + Total(a[x])
<1> DEFINE Right(r) == \A y \in S \ r : f[r \union {y}] = f[r] + Total(a[y])
           bad == {n \in Nat : \E r \in SUBSET S : ~Right(r) /\ Cardinality(r) = n}
<1>1. \A r \in SUBSET S : IsFiniteSet(r) /\ Cardinality(r) \in Nat /\ f[r] \in Nat
  BY FS_Subset, FS_CardinalityType, IterationSame
<1> SUFFICES ASSUME ~Right(s) PROVE FALSE
  OBVIOUS
<1>2. PICK n \in bad : \A m \in bad : n <= m
  <2>1. bad # {} /\ bad \subseteq Nat
    BY <1>1
  <2> HIDE DEF bad
  <2> QED BY <2>1, LeastExists
<1>3. PICK r \in SUBSET S : ~Right(r) /\ Cardinality(r) = n
  BY <1>2
<1>4. PICK y \in S \ r : f[r \union {y}] # f[r] + Total(a[y])
  BY <1>3
<1> DEFINE both == r \union {y}
           c == First(both)
<1>5. both \in SUBSET S /\ both # {} /\ c \in both
  BY <1>1, <1>3, <1>4, FirstProperties
<1>6. f[both] = Total(a[c]) + f[both \ {c}]
  BY <1>5 DEF AddsUp, Adds
<1>7. c # y
  <2> SUFFICES ASSUME c = y PROVE FALSE
    OBVIOUS
  <2>1. both \ {c} = r
    BY <1>4
  <2>2. f[r] \in Nat /\ Total(a[y]) \in Nat
    BY <1>1, <1>4
  <2>3. f[both] = Total(a[y]) + f[r]
    BY <1>6, <2>1
  <2>4. f[both] = f[r] + Total(a[y])
    <3> HIDE DEF both
    <3> QED BY <2>2, <2>3
  <2> QED BY <1>4, <2>4
<1>8. c \in r
  BY <1>5, <1>7
<1> DEFINE q == r \ {c}
<1>9. q \in SUBSET S /\ Cardinality(q) \in Nat /\ Cardinality(q) < n
  <2>1. IsFiniteSet(r) /\ Cardinality(r) \in Nat /\ Cardinality(r) = n
    BY <1>1, <1>3
  <2>2. Cardinality(q) = Cardinality(r) - 1
    <3> HIDE DEF c
    <3> QED BY <1>8, <2>1, FS_RemoveElement
  <2>3. q \in SUBSET S /\ Cardinality(q) \in Nat
    BY <1>1, <1>3
  <2> HIDE DEF q
  <2> QED BY <2>1, <2>2, <2>3
<1>10. Right(q)
  <2> HIDE DEF Right, q
  <2> QED BY <1>2, <1>9
<1>11. both \ {c} = q \union {y} /\ r = q \union {c} /\ c \in S \ q /\ y \in S \ q
  BY <1>4, <1>7, <1>8
<1> HIDE DEF q, c, both
<1>12. f[both \ {c}] = f[q] + Total(a[y]) /\ f[r] = f[q] + Total(a[c])
  BY <1>10, <1>11
<1>13. f[q] \in Nat /\ Total(a[y]) \in Nat /\ Total(a[c]) \in Nat
  BY <1>1, <1>4, <1>9, <1>11
<1>14. f[both] = f[r] + Total(a[y])
  BY <1>6, <1>12, <1>13
<1> QED BY <1>4, <1>14 DEF both

\* What total_alloc is made of.
LEMMA TotalOfNone ==
  ASSUME NEW a PROVE TotalOf(a, {}) = 0
<1>1. IsFiniteSet({})
  BY FS_EmptySet
<1>2. AddsUp(CHOOSE f : AddsUp(f, a, {}), a, {})
  BY <1>1, IterationExists
<1> QED BY <1>2, TotalIsIteration DEF AddsUp, Adds

\* Entries of the same sizes have the same total, a number.
LEMMA TotalOfSame ==
  ASSUME NEW a, NEW b, NEW S, IsFiniteSet(S),
         \A u \in S : Total(a[u]) \in Nat /\ Total(a[u]) = Total(b[u])
  PROVE  TotalOf(a, S) \in Nat /\ TotalOf(a, S) = TotalOf(b, S)
<1> DEFINE f == CHOOSE x : AddsUp(x, a, S)
           g == CHOOSE x : AddsUp(x, b, S)
<1>1. AddsUp(f, a, S) /\ AddsUp(g, b, S)
  BY IterationExists
<1>2. TotalOf(a, S) = f[S] /\ TotalOf(b, S) = g[S]
  BY TotalIsIteration
<1> HIDE DEF f, g
<1>3. f[S] \in Nat /\ f[S] = g[S]
  BY <1>1, IterationSame
<1> QED BY <1>2, <1>3

\* One entry more adds its size.
LEMMA TotalOfOneMore ==
  ASSUME NEW a, NEW S, IsFiniteSet(S), NEW x, x \notin S,
         \A u \in S \union {x} : Total(a[u]) \in Nat
  PROVE  TotalOf(a, S \union {x}) = TotalOf(a, S) + Total(a[x])
<1> DEFINE T == S \union {x}
           f == CHOOSE h : AddsUp(h, a, T)
           g == CHOOSE h : AddsUp(h, a, S)
<1>1. IsFiniteSet(T)
  BY FS_AddElement
<1>2. AddsUp(f, a, T) /\ AddsUp(g, a, S)
  <2> HIDE DEF T
  <2> QED BY <1>1, IterationExists
<1>3. TotalOf(a, T) = f[T] /\ TotalOf(a, S) = g[S]
  BY TotalIsIteration
<1>4. S \in SUBSET T /\ x \in T /\ \A u \in T : Total(a[u]) \in Nat
  OBVIOUS
<1> HIDE DEF f, g
<1>5. f[S \union {x}] = f[S] + Total(a[x])
  <2> HIDE DEF T
  <2>1. AddsUp(f, a, T) /\ IsFiniteSet(T) /\ x \notin S
    BY <1>1, <1>2
  <2>2. S \in SUBSET T /\ x \in T
    BY <1>4
  <2>3. \A u \in T : Total(a[u]) \in Nat
    BY <1>4
  <2>4. \A s \in SUBSET T, y \in T : y \notin s => f[s \union {y}] = f[s] + Total(a[y])
    BY <2>1, <2>3, IterationAdds
  <2> QED BY <2>1, <2>2, <2>4
<1>6. f[S] = g[S]
  <2> HIDE DEF T
  <2> QED BY <1>1, <1>2, <1>4, IterationSame
<1> QED BY <1>3, <1>5, <1>6

\* Without some entries their sizes are missing.
LEMMA TotalOfRest ==
  ASSUME NEW a, NEW S, IsFiniteSet(S), \A u \in S : Total(a[u]) \in Nat,
         NEW gone \in SUBSET S
  PROVE  TotalOf(a, S \ gone) = TotalOf(a, S) - TotalOf(a, gone)
<1> DEFINE Right(r) == TotalOf(a, S \ r) = TotalOf(a, S) - TotalOf(a, r)
           bad == {n \in Nat : \E r \in SUBSET S : ~Right(r) /\ Cardinality(r) = n}
<1>1. \A r \in SUBSET S : IsFiniteSet(r) /\ Cardinality(r) \in Nat /\ TotalOf(a, r) \in Nat
  BY FS_Subset, FS_CardinalityType, TotalOfSame
<1> SUFFICES ASSUME ~Right(gone) PROVE FALSE
  OBVIOUS
<1>2. PICK n \in bad : \A m \in bad : n <= m
  <2>1. bad # {} /\ bad \subseteq Nat
    BY <1>1
  <2> HIDE DEF bad
  <2> QED BY <2>1, LeastExists
<1>3. PICK r \in SUBSET S : ~Right(r) /\ Cardinality(r) = n
  BY <1>2
<1>4. CASE r = {}
  <2>1. TotalOf(a, r) = 0 /\ S \ r = S /\ TotalOf(a, S) \in Nat
    BY <1>1, <1>4, TotalOfNone
  <2>2. TotalOf(a, S) = TotalOf(a, S) - 0
    BY <2>1
  <2>3. TotalOf(a, S \ r) = TotalOf(a, S) - TotalOf(a, r)
    BY <2>1, <2>2
  <2> QED BY <1>3, <2>3
<1>5. CASE r # {}
  <2>1. PICK x \in r : TRUE
    BY <1>5
  <2> DEFINE q == r \ {x}
  <2>2. q \in SUBSET S /\ IsFiniteSet(q) /\ Cardinality(q) \in Nat /\ Cardinality(q) = n - 1 /\ n \in Nat
    BY <1>1, <1>3, <2>1, FS_RemoveElement
  <2>3. Right(q)
    <3>1. Cardinality(q) \notin bad
      <4> HIDE DEF bad, q
      <4> QED BY <1>2, <2>2
    <3> HIDE DEF Right
    <3> QED BY <2>2, <3>1
  <2>4. r = q \union {x} /\ x \notin q /\ S \ q = (S \ r) \union {x} /\ x \notin S \ r /\ x \in S
    BY <2>1
  <2>5. S \ r \in SUBSET S /\ S \ q \in SUBSET S /\ IsFiniteSet(S \ r)
    BY <1>1
  <2> HIDE DEF q
  <2>6. TotalOf(a, r) = TotalOf(a, q) + Total(a[x])
    BY <2>2, <2>4, TotalOfOneMore
  <2>7. TotalOf(a, S \ q) = TotalOf(a, S \ r) + Total(a[x])
    BY <2>4, <2>5, TotalOfOneMore
  <2>8. /\ TotalOf(a, r) \in Nat /\ TotalOf(a, q) \in Nat /\ Total(a[x]) \in Nat /\ TotalOf(a, S) \in Nat
        /\ TotalOf(a, S \ q) \in Nat /\ TotalOf(a, S \ r) \in Nat
    BY <1>1, <2>2, <2>4, <2>5
  <2>9. TotalOf(a, S \ q) = TotalOf(a, S) - TotalOf(a, q)
    BY <2>3
  <2>10. TotalOf(a, S \ r) = TotalOf(a, S) - TotalOf(a, r)
    BY <2>6, <2>7, <2>8, <2>9
  <2> QED BY <1>3, <2>10
<1> QED BY <1>4, <1>5

-----------------------------------------------------------------------------
\* The types of the backing store, and how entries go (invalidate_entry).

Stored == Contents \union {None}
ElementType == [ref : Nat, val : Stored \union {Garbled}, size : Nat, block : 0 .. LastBlock]
EntryType == [invalid : BOOLEAN, elem : [Elems -> ElementType]]
Tables == UNION {[D -> EntryType] : D \in SUBSET Urls}
Stores == [entries : Tables, used : [Elems -> SUBSET Blocks], total : Int,
           entriesDirty : BOOLEAN, blocksDirty : BOOLEAN, timer : BOOLEAN,
           blocks : [Elems -> [Blocks -> Stored]], files : [Elems -> [Range(Hash) -> Stored]]]

\* The entries of a table.
LEMMA TableType ==
  ASSUME NEW f \in Tables
  PROVE  /\ DOMAIN f \subseteq Urls /\ f = [u \in DOMAIN f |-> f[u]]
         /\ \A u \in DOMAIN f : f[u] \in EntryType
BY DEF Tables

\* A function from URLs to entries is a table.
LEMMA TableMade ==
  ASSUME NEW D \in SUBSET Urls, NEW f, f \in [D -> EntryType]
  PROVE  f \in Tables /\ DOMAIN f = D
BY DEF Tables

\* The elements of an entry.
LEMMA ElementsType ==
  ASSUME NEW f \in Tables, NEW u \in DOMAIN f, NEW e \in Elems
  PROVE  /\ u \in Urls
         /\ f[u] \in EntryType /\ f[u].elem[e] \in ElementType
         /\ f[u].elem[e].ref \in Nat /\ f[u].elem[e].size \in Nat
         /\ f[u].elem[e].block \in 0 .. LastBlock
         /\ f[u].elem[e].val \in Stored \union {Garbled}
BY TableType DEF EntryType, ElementType

\* The size of an entry is a number.
LEMMA TotalType ==
  ASSUME NEW f \in Tables, NEW u \in DOMAIN f
  PROVE  Total(f[u]) \in Nat
<1>1. "data" \in Elems /\ "meta" \in Elems
  BY DEF Elems
<1>2. f[u].elem["data"].size \in Nat /\ f[u].elem["meta"].size \in Nat
  BY <1>1, ElementsType
<1> QED BY <1>2 DEF Total

\* A store whose accounts are exact.
ValueFor(e) == IF e = "meta" THEN Contents ELSE Contents \union {Garbled}
HeldHasValue(f) == \A u \in DOMAIN f, e \in Elems : f[u].elem[e].ref > 0 => f[u].elem[e].val \in ValueFor(e)
MetaFits(f) == \A u \in DOMAIN f : f[u].elem["meta"].size <= 1
GoodTable(f) == f \in Tables /\ IsFiniteSet(DOMAIN f) /\ HeldHasValue(f) /\ MetaFits(f)
Good(s) == s \in Stores /\ GoodTable(s.entries) /\ s.total = TotalOf(s.entries, DOMAIN s.entries)

NoShare(f, used) ==
  \A u \in DOMAIN f, e \in Elems :
     f[u].elem[e].block # 0 =>
       /\ f[u].elem[e].block \in used[e]
       /\ \A w \in DOMAIN f : f[w].elem[e].block = f[u].elem[e].block => w = u

RefAt(s, u, e) == IF u \in DOMAIN s.entries THEN s.entries[u].elem[e].ref ELSE 0
RefsAs(s, t) == \A u \in Urls, e \in Elems : RefAt(t, u, e) = RefAt(s, u, e)

SameElements(f, g) ==
  \A u \in DOMAIN f, e \in Elems :
     /\ f[u].elem[e].block = g[u].elem[e].block
     /\ f[u].elem[e].size = g[u].elem[e].size

OneName == \A u, w \in Urls : Hash[u] = Hash[w] => u = w

\* A store of which entries may be gone.
Shrinks(s, t) ==
  /\ Good(t)
  /\ DOMAIN t.entries \subseteq DOMAIN s.entries
  /\ SameElements(t.entries, s.entries)
  /\ NoShare(s.entries, s.used) => NoShare(t.entries, t.used)
  /\ t.blocks = s.blocks
  /\ \A e \in Elems : t.used[e] \subseteq s.used[e]
  /\ \A e \in Elems, h \in Range(Hash) : t.files[e][h] \in {s.files[e][h], None}
  /\ OneName => \A u \in DOMAIN t.entries, e \in Elems : t.files[e][Hash[u]] = s.files[e][Hash[u]]
  /\ t.blocksDirty = s.blocksDirty
  /\ s.entriesDirty => t.entriesDirty

Marked(f) == \A u \in DOMAIN f : f[u].invalid => OnLoan(f[u])

\* Entries may go one after the other.
LEMMA ShrinksTrans ==
  ASSUME NEW r, NEW s, NEW t, Shrinks(r, s), Shrinks(s, t)
  PROVE  Shrinks(r, t)
<1>1. SameElements(t.entries, r.entries)
  BY DEF Shrinks, SameElements
<1>2. \A e \in Elems, h \in Range(Hash) : t.files[e][h] \in {r.files[e][h], None}
  BY DEF Shrinks
<1>3. OneName => \A u \in DOMAIN t.entries, e \in Elems : t.files[e][Hash[u]] = r.files[e][Hash[u]]
  BY DEF Shrinks
<1> QED BY <1>1, <1>2, <1>3 DEF Shrinks

\* invalidate_entry: entries go or are marked, and no reference count changes.
LEMMA InvalidateEntriesShrinks ==
  ASSUME NEW s, Good(s), NEW us \in SUBSET DOMAIN s.entries
  PROVE  /\ Shrinks(s, InvalidateEntries(s, us)) /\ RefsAs(s, InvalidateEntries(s, us))
         /\ InvalidateEntries(s, us).entriesDirty = s.entriesDirty
         /\ \A u \in DOMAIN InvalidateEntries(s, us).entries :
               InvalidateEntries(s, us).entries[u].elem = s.entries[u].elem
         /\ (\A w \in DOMAIN s.entries \ us : s.entries[w].invalid => OnLoan(s.entries[w]))
              => Marked(InvalidateEntries(s, us).entries)
<1> DEFINE t == InvalidateEntries(s, us)
           gone == Removable(s, us)
           left == DOMAIN s.entries \ gone
           Mark(u) == IF u \in us THEN [s.entries[u] EXCEPT !.invalid = TRUE] ELSE s.entries[u]
           Unlinked(e, h) == \E u \in gone : s.entries[u].elem[e].block = 0 /\ Hash[u] = h
<1>1. s \in Stores /\ s.entries \in Tables /\ IsFiniteSet(DOMAIN s.entries) /\ gone \in SUBSET DOMAIN s.entries
      /\ left \in SUBSET Urls
  BY TableType DEF Good, GoodTable, Removable
<1>2. /\ t.entries = [u \in left |-> Mark(u)]
      /\ t.used = [e \in Elems |-> s.used[e] \ {s.entries[u].elem[e].block : u \in gone}]
      /\ t.files = [e \in Elems |-> [h \in Range(Hash) |-> IF Unlinked(e, h) THEN None ELSE s.files[e][h]]]
      /\ t.total = s.total - TotalOf(s.entries, gone)
      /\ t.blocks = s.blocks /\ t.blocksDirty = s.blocksDirty /\ t.entriesDirty = s.entriesDirty
      /\ t.timer = s.timer
  BY <1>1 DEF InvalidateEntries, Stores
<1>3. \A u \in left : Mark(u) \in EntryType /\ Mark(u).elem = s.entries[u].elem
                      /\ Mark(u).invalid = (u \in us \/ s.entries[u].invalid)
  <2> SUFFICES ASSUME NEW u \in left
               PROVE  /\ Mark(u) \in EntryType /\ Mark(u).elem = s.entries[u].elem
                      /\ Mark(u).invalid = (u \in us \/ s.entries[u].invalid)
    OBVIOUS
  <2>1. s.entries[u] \in EntryType
    BY <1>1, TableType
  <2>2. CASE u \in us
    BY <2>1, <2>2 DEF EntryType
  <2>3. CASE u \notin us
    BY <2>1, <2>3 DEF EntryType
  <2> QED BY <2>2, <2>3
<1> HIDE DEF Mark
<1>4. t.entries \in Tables /\ DOMAIN t.entries = left
  <2> HIDE DEF t, left
  <2>1. t.entries \in [left -> EntryType]
    BY <1>2, <1>3
  <2> QED BY <1>1, <2>1, TableMade
<1>5. \A u \in left : t.entries[u].elem = s.entries[u].elem
  BY <1>2, <1>3
<1>6. GoodTable(t.entries)
  <2>1. IsFiniteSet(left)
    BY <1>1, FS_Subset
  <2> QED BY <1>4, <1>5, <2>1 DEF Good, GoodTable, HeldHasValue, MetaFits
<1>7. t.total = TotalOf(t.entries, DOMAIN t.entries)
  <2>1. \A u \in DOMAIN s.entries : Total(s.entries[u]) \in Nat
    BY <1>1, TotalType
  <2>2. TotalOf(s.entries, left) = TotalOf(s.entries, DOMAIN s.entries) - TotalOf(s.entries, gone)
    BY <1>1, <2>1, TotalOfRest
  <2>3. IsFiniteSet(left)
    BY <1>1, FS_Subset
  <2>4. \A u \in left : Total(t.entries[u]) \in Nat /\ Total(t.entries[u]) = Total(s.entries[u])
    BY <1>5, <2>1 DEF Total
  <2>5. TotalOf(t.entries, left) = TotalOf(s.entries, left)
    BY <2>3, <2>4, TotalOfSame
  <2> QED BY <1>2, <1>4, <2>2, <2>5 DEF Good
<1>8. t \in Stores
  <2>1. t.used \in [Elems -> SUBSET Blocks]
    BY <1>1, <1>2 DEF Stores
  <2>2. t.files \in [Elems -> [Range(Hash) -> Stored]]
    BY <1>1, <1>2 DEF Stores, Stored
  <2>3. s.total - TotalOf(s.entries, gone) \in Int
    <3>1. TotalOf(s.entries, gone) \in Nat
      BY <1>1, TotalType, TotalOfSame, FS_Subset
    <3>2. s.total \in Int
      BY <1>1 DEF Stores
    <3> QED BY <3>1, <3>2
  <2>4. t = [s EXCEPT !.entries = t.entries, !.used = t.used, !.files = t.files, !.total = t.total]
    BY <1>1, <1>2 DEF InvalidateEntries, Stores
  <2> HIDE DEF t
  <2> QED BY <1>1, <1>2, <1>4, <2>1, <2>2, <2>3, <2>4 DEF Stores
<1>9. NoShare(s.entries, s.used) => NoShare(t.entries, t.used)
  <2> SUFFICES ASSUME NoShare(s.entries, s.used),
                      NEW u \in left, NEW e \in Elems, s.entries[u].elem[e].block # 0
               PROVE  /\ s.entries[u].elem[e].block \in t.used[e]
                      /\ \A w \in left : s.entries[w].elem[e].block = s.entries[u].elem[e].block => w = u
    BY <1>4, <1>5 DEF NoShare
  <2>1. u \in DOMAIN s.entries /\ u \notin gone
    OBVIOUS
  <2>2. s.entries[u].elem[e].block \notin {s.entries[w].elem[e].block : w \in gone}
    BY <1>1, <2>1 DEF NoShare
  <2>3. s.entries[u].elem[e].block \in s.used[e]
    BY <2>1 DEF NoShare
  <2>4. \A w \in DOMAIN s.entries : s.entries[w].elem[e].block = s.entries[u].elem[e].block => w = u
    BY <2>1 DEF NoShare
  <2>5. t.used = [d \in Elems |-> s.used[d] \ {s.entries[w].elem[d].block : w \in gone}]
    BY <1>2, Zenon
  <2> HIDE DEF t
  <2>6. s.entries[u].elem[e].block \in t.used[e]
    <3> DEFINE F(d) == s.used[d] \ {s.entries[w].elem[d].block : w \in gone}
    <3>1. t.used = [d \in Elems |-> F(d)]
      BY <2>5
    <3>2. s.entries[u].elem[e].block \in F(e)
      BY <2>2, <2>3, Zenon
    <3> HIDE DEF F
    <3> QED BY <3>1, <3>2
  <2>7. \A w \in left : w \in DOMAIN s.entries
    OBVIOUS
  <2> QED BY <2>4, <2>6, <2>7
<1>10. OneName => \A u \in DOMAIN t.entries, e \in Elems : t.files[e][Hash[u]] = s.files[e][Hash[u]]
  <2> SUFFICES ASSUME OneName, NEW u \in left, NEW e \in Elems
               PROVE  t.files[e][Hash[u]] = s.files[e][Hash[u]]
    BY <1>4
  <2>1. Hash[u] \in Range(Hash) /\ u \in Urls
    BY <1>1, StoreAssumption DEF Range
  <2>2. ~Unlinked(e, Hash[u])
    <3>1. \A w \in gone : w \in Urls /\ w # u
      BY <1>1, TableType
    <3> QED BY <2>1, <3>1 DEF OneName
  <2> QED BY <1>2, <2>1, <2>2
<1>11. \A e \in Elems, h \in Range(Hash) : t.files[e][h] \in {s.files[e][h], None}
  BY <1>2
<1>12. Shrinks(s, t)
  <2>1. SameElements(t.entries, s.entries)
    BY <1>4, <1>5 DEF SameElements
  <2>2. \A e \in Elems : t.used[e] \subseteq s.used[e]
    BY <1>2
  <2> QED BY <1>2, <1>4, <1>6, <1>7, <1>8, <1>9, <1>10, <1>11, <2>1, <2>2 DEF Shrinks, Good
<1>13. RefsAs(s, t)
  <2> SUFFICES ASSUME NEW u \in Urls, NEW e \in Elems PROVE RefAt(t, u, e) = RefAt(s, u, e)
    BY DEF RefsAs
  <2>1. CASE u \in left
    BY <1>4, <1>5, <2>1 DEF RefAt
  <2>2. CASE u \in gone
    <3>1. s.entries[u].elem[e].ref = 0
      <4>1. ~(s.entries[u].elem[e].ref > 0)
        BY <2>2 DEF Removable, OnLoan
      <4>2. s.entries[u].elem[e].ref \in Nat
        BY <1>1, <2>2, ElementsType
      <4> QED BY <4>1, <4>2
    <3> QED BY <1>1, <1>4, <2>2, <3>1 DEF RefAt
  <2>3. CASE u \notin DOMAIN s.entries
    BY <1>4, <2>3 DEF RefAt
  <2> QED BY <2>1, <2>2, <2>3
<1>14. (\A w \in DOMAIN s.entries \ us : s.entries[w].invalid => OnLoan(s.entries[w])) => Marked(t.entries)
  <2> SUFFICES ASSUME \A w \in DOMAIN s.entries \ us : s.entries[w].invalid => OnLoan(s.entries[w]),
                      NEW u \in left, t.entries[u].invalid
               PROVE  OnLoan(t.entries[u])
    BY <1>4 DEF Marked
  <2>1. OnLoan(s.entries[u])
    <3>1. u \in us \/ s.entries[u].invalid
      BY <1>2, <1>3
    <3> QED BY <3>1 DEF Removable
  <2> QED BY <1>5, <2>1 DEF OnLoan
<1> QED BY <1>2, <1>4, <1>5, <1>12, <1>13, <1>14

-----------------------------------------------------------------------------
\* An element of an entry is changed, and with it the loans.

\* None need go.
LEMMA ShrinksSelf ==
  ASSUME NEW s, Good(s) PROVE Shrinks(s, s)
<1>1. SameElements(s.entries, s.entries)
  BY DEF SameElements
<1> QED BY <1>1 DEF Shrinks

\* The bookkeeping changes flags only.
LEMMA TouchedFacts ==
  ASSUME NEW s \in Stores
  PROVE  /\ Touched(s) \in Stores /\ Touched(s).entries = s.entries /\ Touched(s).used = s.used
         /\ Touched(s).blocks = s.blocks /\ Touched(s).files = s.files /\ Touched(s).total = s.total
         /\ Touched(s).blocksDirty = s.blocksDirty /\ Touched(s).entriesDirty
BY DEF Touched, Stores

\* The same, in those terms.
LEMMA TouchedShrinks ==
  ASSUME NEW s, Good(s) PROVE Shrinks(s, Touched(s)) /\ RefsAs(s, Touched(s))
<1>1. s \in Stores
  BY DEF Good
<1>2. SameElements(Touched(s).entries, s.entries)
  BY <1>1, TouchedFacts DEF SameElements
<1>3. Good(Touched(s))
  BY <1>1, TouchedFacts DEF Good
<1>4. RefsAs(s, Touched(s))
  BY <1>1, TouchedFacts DEF RefsAs, RefAt
<1> QED BY <1>1, <1>2, <1>3, <1>4, TouchedFacts DEF Shrinks

\* The entry that is there or is made.
LEMMA EntryOfType ==
  ASSUME NEW s \in Stores, NEW u \in Urls
  PROVE  EntryOf(s, u) \in EntryType
<1>1. CASE u \in DOMAIN s.entries
  BY <1>1, TableType DEF EntryOf, Stores
<1>2. CASE u \notin DOMAIN s.entries
  <2>1. EmptyElement \in ElementType
    BY StoreAssumption DEF EmptyElement, ElementType, Stored
  <2> QED BY <1>2, <2>1 DEF EntryOf, EmptyEntry, EntryType
<1> QED BY <1>1, <1>2

\* Only one element of one entry becomes another.
LEMMA WithElementFacts ==
  ASSUME NEW s \in Stores, NEW u \in Urls, NEW e \in Elems, NEW x \in ElementType
  PROVE  LET t == WithElement(s, u, e, x)
         IN  /\ t \in Stores /\ DOMAIN t.entries = DOMAIN s.entries \union {u}
             /\ \A w \in DOMAIN s.entries \ {u} : t.entries[w] = s.entries[w]
             /\ t.entries[u].elem[e] = x /\ t.entries[u].invalid = EntryOf(s, u).invalid
             /\ \A d \in Elems \ {e} : t.entries[u].elem[d] = EntryOf(s, u).elem[d]
             /\ t.used = s.used /\ t.total = s.total /\ t.blocks = s.blocks /\ t.files = s.files
             /\ t.blocksDirty = s.blocksDirty /\ t.entriesDirty = s.entriesDirty
<1> DEFINE t == WithElement(s, u, e, x)
           D == DOMAIN s.entries \union {u}
           en == [EntryOf(s, u) EXCEPT !.elem = [@ EXCEPT ![e] = x]]
           Made(w) == IF w = u THEN en ELSE s.entries[w]
<1>1. s.entries \in Tables /\ D \in SUBSET Urls
  <2>1. s.entries \in Tables
    BY DEF Stores
  <2> QED BY <2>1, TableType
<1>2. /\ t.entries = [w \in D |-> Made(w)]
      /\ t.used = s.used /\ t.total = s.total /\ t.blocks = s.blocks /\ t.files = s.files
      /\ t.blocksDirty = s.blocksDirty /\ t.entriesDirty = s.entriesDirty /\ t.timer = s.timer
  BY DEF WithElement, Stores
<1>3. /\ en \in EntryType /\ en.elem[e] = x /\ en.invalid = EntryOf(s, u).invalid
      /\ \A d \in Elems \ {e} : en.elem[d] = EntryOf(s, u).elem[d]
  BY EntryOfType DEF EntryType
<1> HIDE DEF en
<1>4. \A w \in D : Made(w) \in EntryType
  BY <1>1, <1>3, TableType
<1>5. t.entries \in Tables /\ DOMAIN t.entries = D
  <2> HIDE DEF t, D, Made
  <2>1. t.entries \in [D -> EntryType]
    BY <1>2, <1>4
  <2> QED BY <1>1, <2>1, TableMade
<1>6. t.entries[u] = en /\ \A w \in DOMAIN s.entries \ {u} : t.entries[w] = s.entries[w]
  BY <1>2
<1>7. t \in Stores
  <2>1. t = [s EXCEPT !.entries = t.entries]
    BY <1>2 DEF WithElement
  <2> HIDE DEF t
  <2> QED BY <1>5, <2>1 DEF Stores
<1> QED BY <1>2, <1>3, <1>5, <1>6, <1>7

RefsMove(s, t, u, e, n) ==
  \A w \in Urls, d \in Elems : RefAt(t, w, d) = IF w = u /\ d = e THEN n ELSE RefAt(s, w, d)

\* Whether blocks are shared depends on the blocks alone.
LEMMA NoShareSame ==
  ASSUME NEW f, NEW g, DOMAIN g = DOMAIN f,
         \A w \in DOMAIN f, d \in Elems : g[w].elem[d].block = f[w].elem[d].block,
         NEW used, NoShare(f, used)
  PROVE  NoShare(g, used)
<1> SUFFICES ASSUME NEW w \in DOMAIN f, NEW d \in Elems, g[w].elem[d].block # 0
             PROVE  /\ g[w].elem[d].block \in used[d]
                    /\ \A y \in DOMAIN f : g[y].elem[d].block = g[w].elem[d].block => y = w
  BY DEF NoShare
<1> QED BY DEF NoShare

\* A loan of an element begins, changes or ends.
Relent(s, t, u, e, n, v) ==
  /\ Shrinks(s, t) /\ RefsMove(s, t, u, e, n) /\ t.entriesDirty
  /\ DOMAIN t.entries = DOMAIN s.entries
  /\ \A w \in DOMAIN s.entries : t.entries[w].invalid = s.entries[w].invalid
  /\ t.entries[u].elem[e].val = v
  /\ t.files = s.files /\ t.used = s.used
  /\ \A w \in DOMAIN s.entries, d \in Elems : w # u \/ d # e =>
        t.entries[w].elem[d] = s.entries[w].elem[d]

\* The reference count of one element and its memory change, and nothing else.
LEMMA RelentShrinks ==
  ASSUME NEW s, Good(s), NEW u \in DOMAIN s.entries, NEW e \in Elems,
         NEW n \in Nat, NEW v \in Stored \union {Garbled}, n > 0 => v \in ValueFor(e),
         NEW x, x = [s.entries[u].elem[e] EXCEPT !.ref = n, !.val = v],
         NEW t, t = Touched(WithElement(s, u, e, x))
  PROVE  Relent(s, t, u, e, n, v)
<1> DEFINE r == WithElement(s, u, e, x)
           en == s.entries[u].elem[e]
<1>0. t = Touched(r)
  OBVIOUS
<1>1. s \in Stores /\ s.entries \in Tables /\ u \in Urls /\ en \in ElementType
  BY ElementsType DEF Good, Stores
<1>2. x \in ElementType /\ x.ref = n /\ x.val = v /\ x.size = en.size /\ x.block = en.block
  BY <1>1 DEF ElementType
<1>3. EntryOf(s, u) = s.entries[u]
  BY DEF EntryOf
<1>4. /\ r \in Stores /\ DOMAIN r.entries = DOMAIN s.entries \union {u}
      /\ \A w \in DOMAIN s.entries \ {u} : r.entries[w] = s.entries[w]
      /\ r.entries[u].elem[e] = x /\ r.entries[u].invalid = s.entries[u].invalid
      /\ \A d \in Elems \ {e} : r.entries[u].elem[d] = s.entries[u].elem[d]
      /\ r.used = s.used /\ r.total = s.total /\ r.blocks = s.blocks /\ r.files = s.files
      /\ r.blocksDirty = s.blocksDirty /\ r.entriesDirty = s.entriesDirty
  <2>1. s \in Stores /\ u \in Urls /\ x \in ElementType
    BY <1>1, <1>2
  <2> QED BY <1>3, <2>1, WithElementFacts
<1> HIDE DEF r
<1>5. /\ t \in Stores /\ t.entries = r.entries /\ t.used = s.used /\ t.blocks = s.blocks
      /\ t.files = s.files /\ t.total = s.total /\ t.blocksDirty = s.blocksDirty /\ t.entriesDirty
  BY <1>0, <1>4, TouchedFacts
<1>6. DOMAIN t.entries = DOMAIN s.entries
  BY <1>4, <1>5
<1>7. \A w \in DOMAIN s.entries, d \in Elems : w # u \/ d # e => t.entries[w].elem[d] = s.entries[w].elem[d]
  BY <1>4, <1>5
<1>8. t.entries[u].elem[e] = x
  BY <1>4, <1>5
<1>9. \A w \in DOMAIN s.entries, d \in Elems :
         t.entries[w].elem[d].size = s.entries[w].elem[d].size
         /\ t.entries[w].elem[d].block = s.entries[w].elem[d].block
  BY <1>2, <1>7, <1>8
<1>10. RefsMove(s, t, u, e, n)
  BY <1>2, <1>6, <1>7, <1>8 DEF RefsMove, RefAt
<1>11. \A w \in DOMAIN s.entries : t.entries[w].invalid = s.entries[w].invalid
  BY <1>4, <1>5
<1>12. Good(t)
  <2>1. GoodTable(t.entries)
    <3>1. t.entries \in Tables
      BY <1>5 DEF Stores
    <3>2. MetaFits(t.entries)
      BY <1>6, <1>9 DEF MetaFits, Good, GoodTable, Elems
    <3>3. HeldHasValue(t.entries)
      <4> SUFFICES ASSUME NEW w \in DOMAIN s.entries, NEW d \in Elems, t.entries[w].elem[d].ref > 0
                   PROVE  t.entries[w].elem[d].val \in ValueFor(d)
        BY <1>6 DEF HeldHasValue
      <4>1. CASE w = u /\ d = e
        BY <1>2, <1>8, <4>1
      <4>2. CASE w # u \/ d # e
        BY <1>7, <4>2 DEF Good, GoodTable, HeldHasValue
      <4> QED BY <4>1, <4>2
    <3> QED BY <1>6, <3>1, <3>2, <3>3 DEF Good, GoodTable
  <2>2. t.total = TotalOf(t.entries, DOMAIN t.entries)
    <3>1. \A w \in DOMAIN s.entries : Total(s.entries[w]) \in Nat /\ Total(s.entries[w]) = Total(t.entries[w])
      BY <1>1, <1>9, TotalType DEF Total, Elems
    <3>2. TotalOf(s.entries, DOMAIN s.entries) = TotalOf(t.entries, DOMAIN s.entries)
      BY <3>1, TotalOfSame DEF Good, GoodTable
    <3> QED BY <1>5, <1>6, <3>2 DEF Good
  <2> QED BY <1>5, <2>1, <2>2 DEF Good
<1>13. NoShare(s.entries, s.used) => NoShare(t.entries, t.used)
  <2>1. NoShare(s.entries, s.used) => NoShare(t.entries, s.used)
    <3>1. \A w \in DOMAIN s.entries, d \in Elems : t.entries[w].elem[d].block = s.entries[w].elem[d].block
      BY <1>9
    <3> DEFINE f == s.entries
               g == t.entries
    <3>2. DOMAIN g = DOMAIN f
      BY <1>6
    <3> HIDE DEF f, g
    <3>3. NoShare(f, s.used) => NoShare(g, s.used)
      BY <3>1, <3>2, NoShareSame DEF f, g
    <3> QED BY <3>3 DEF f, g
  <2> QED BY <1>5, <2>1
<1>14. Shrinks(s, t)
  <2>1. SameElements(t.entries, s.entries)
    BY <1>6, <1>9 DEF SameElements
  <2> QED BY <1>5, <1>6, <1>12, <1>13, <2>1 DEF Shrinks
<1> QED BY <1>2, <1>5, <1>6, <1>7, <1>8, <1>10, <1>11, <1>14 DEF Relent

-----------------------------------------------------------------------------
\* fetch, release, invalidate and store_evict.

\* What is on loan is something.
LEMMA NoneIsNoValue ==
  ASSUME NEW e PROVE None \notin ValueFor(e)
BY StoreAssumption DEF ValueFor

\* What is on disc was stored, but for data that shares its blocks.
LEMMA OnDiscType ==
  ASSUME NEW s \in Stores, NEW u \in DOMAIN s.entries, NEW e \in Elems
  PROVE  /\ OnDisc(s, u, e) \in Stored \union {Garbled}
         /\ s.entries[u].elem[e].size <= 1 =>
              /\ OnDisc(s, u, e) \in Stored
              /\ s.entries[u].elem[e].size = 0 => OnDisc(s, u, e) = None
              /\ s.entries[u].elem[e].size # 0 =>
                   OnDisc(s, u, e) = IF s.entries[u].elem[e].block = 0 THEN s.files[e][Hash[u]]
                                     ELSE s.blocks[e][s.entries[u].elem[e].block]
<1> DEFINE en == s.entries[u].elem[e]
           parts == {s.blocks[e][b] : b \in Blocks \intersect (en.block .. (en.block + en.size - 1))}
<1>1. s.entries \in Tables /\ u \in Urls /\ en \in ElementType /\ en.size \in Nat /\ en.block \in 0 .. LastBlock
  BY ElementsType DEF Stores
<1>2. s.files[e][Hash[u]] \in Stored
  <2>1. Hash[u] \in Range(Hash)
    BY <1>1, StoreAssumption DEF Range
  <2> QED BY <2>1 DEF Stores
<1>3. \A c \in parts : c \in Stored
  BY DEF Stores
<1>4. OnDisc(s, u, e) = IF en.size = 0 THEN None ELSE IF en.block = 0 THEN s.files[e][Hash[u]]
                        ELSE IF \E c \in parts : parts = {c} THEN CHOOSE c \in parts : TRUE ELSE Garbled
  BY DEF OnDisc
<1>5. OnDisc(s, u, e) \in Stored \union {Garbled}
  <2> HIDE DEF en, parts
  <2>1. (\E c \in parts : parts = {c}) => (CHOOSE c \in parts : TRUE) \in parts
    OBVIOUS
  <2> QED BY <1>2, <1>3, <1>4, <2>1 DEF Stored
<1>6. ASSUME en.size = 1, en.block # 0 PROVE OnDisc(s, u, e) = s.blocks[e][en.block]
  <2>1. en.block \in Blocks /\ en.block .. (en.block + en.size - 1) = {en.block}
    BY <1>1, <1>6 DEF Blocks
  <2>2. parts = {s.blocks[e][en.block]}
    BY <2>1
  <2>3. (\E c \in parts : parts = {c}) /\ (CHOOSE c \in parts : TRUE) = s.blocks[e][en.block]
    <3> HIDE DEF parts
    <3> QED BY <2>2
  <2> HIDE DEF parts
  <2> QED BY <1>4, <1>6, <2>3
<1>7. en.size <= 1 => en.size = 0 \/ en.size = 1
  BY <1>1
<1>8. en.size <= 1 => OnDisc(s, u, e) \in Stored
  <2>1. en.block # 0 => s.blocks[e][en.block] \in Stored
    BY <1>1, StoreAssumption DEF Stores, Blocks
  <2> HIDE DEF parts
  <2> QED BY <1>2, <1>4, <1>6, <1>7, <2>1 DEF Stored
<1> HIDE DEF parts
<1> QED BY <1>4, <1>5, <1>6, <1>7, <1>8

\* fetch.
LEMMA FetchFacts ==
  ASSUME NEW s, Good(s), NEW u \in Urls, NEW e \in Elems, NEW r \in Fetch(s, u, e)
  PROVE  /\ Shrinks(s, r.st)
         /\ r.val \in Stored \union {Garbled}
         /\ r.val = None => RefsAs(s, r.st) /\ r.st.entries = s.entries
         /\ r.val # None => r.val \in ValueFor(e)
         /\ r.val # None => /\ RefsMove(s, r.st, u, e, RefAt(s, u, e) + 1)
                            /\ u \in DOMAIN s.entries
                            /\ RefAt(s, u, e) = 0 => r.val = OnDisc(s, u, e)
                            /\ RefAt(s, u, e) > 0 => r.val = s.entries[u].elem[e].val
                            /\ r.st.entries[u].elem[e].val = r.val
         /\ DOMAIN r.st.entries = DOMAIN s.entries
         /\ \A w \in DOMAIN s.entries : r.st.entries[w].invalid = s.entries[w].invalid
         /\ \A w \in DOMAIN s.entries, d \in Elems : w # u \/ d # e =>
               r.st.entries[w].elem[d] = s.entries[w].elem[d]
         /\ r.st.files = s.files /\ r.st.used = s.used
         /\ r.st.entriesDirty \/ r.st = s
<1>1. CASE u \notin DOMAIN s.entries
  <2>1. r.st = s /\ r.val = None
    BY <1>1 DEF Fetch
  <2> QED BY <2>1, ShrinksSelf DEF RefsAs, Stored
<1>2. CASE u \in DOMAIN s.entries
  <2> DEFINE en == s.entries[u].elem[e]
             c == OnDisc(s, u, e)
             Lent(n, v) == [st |-> Touched(WithElement(s, u, e, [en EXCEPT !.ref = n, !.val = v])), val |-> v]
             fails == [st |-> Touched(s), val |-> None]
  <2>1. s \in Stores /\ s.entries \in Tables /\ en \in ElementType /\ en.ref \in Nat
        /\ en.val \in Stored \union {Garbled}
        /\ RefAt(s, u, e) = en.ref /\ (en.ref > 0 => en.val \in ValueFor(e)) /\ c \in Stored \union {Garbled}
        /\ (c # None => c \in ValueFor(e))
    <3>1. s \in Stores /\ s.entries \in Tables /\ en \in ElementType /\ en.ref \in Nat
          /\ en.val \in Stored \union {Garbled}
          /\ RefAt(s, u, e) = en.ref /\ (en.ref > 0 => en.val \in ValueFor(e)) /\ c \in Stored \union {Garbled}
      BY <1>2, ElementsType, OnDiscType DEF Good, GoodTable, HeldHasValue, Stores, RefAt
    <3>2. CASE e = "meta"
      <4>1. en.size <= 1
        BY <1>2, <3>2 DEF Good, GoodTable, MetaFits
      <4>2. c \in Stored
        BY <1>2, <3>1, <4>1, OnDiscType
      <4> QED BY <3>1, <3>2, <4>2 DEF ValueFor, Stored
    <3>3. CASE e # "meta"
      BY <3>1, <3>3 DEF ValueFor, Stored
    <3> QED BY <3>1, <3>2, <3>3
  <2>2. \/ en.ref > 0 /\ r = Lent(en.ref + 1, en.val)
        \/ ~(en.ref > 0) /\ c # None /\ r = Lent(1, c)
        \/ r = fails
    BY <1>2 DEF Fetch
  <2>3. CASE r = fails
    <3>1. r.st = Touched(s) /\ r.val = None
      BY <2>3
    <3> QED BY <2>1, <3>1, TouchedShrinks, TouchedFacts DEF Stored
  <2>4. ASSUME NEW n \in Nat, n > 0, NEW v \in Stored \union {Garbled}, v \in ValueFor(e), r = Lent(n, v), n = en.ref + 1,
               en.ref = 0 => v = c, en.ref > 0 => v = en.val
        PROVE  r.val = v /\ Relent(s, r.st, u, e, n, v)
    <3> DEFINE x == [en EXCEPT !.ref = n, !.val = v]
    <3>1. r.st = Touched(WithElement(s, u, e, x)) /\ r.val = v
      BY <2>4
    <3> HIDE DEF Lent
    <3> QED BY <1>2, <2>4, <3>1, RelentShrinks
  <2>5. CASE en.ref > 0 /\ r = Lent(en.ref + 1, en.val)
    <3>1. en.ref + 1 \in Nat /\ en.ref + 1 > 0
      BY <2>1, <2>5
    <3> HIDE DEF Lent, c
    <3>2. r.val = en.val /\ Relent(s, r.st, u, e, en.ref + 1, en.val)
      <4> HIDE DEF en
      <4>1. /\ en.val \in Stored \union {Garbled} /\ en.val \in ValueFor(e) /\ r = Lent(en.ref + 1, en.val)
            /\ en.ref = 0 => en.val = c
        BY <2>1, <2>5
      <4> QED BY <2>4, <3>1, <4>1
    <3>3. r.val # None /\ r.val \in ValueFor(e) /\ RefAt(s, u, e) # 0 /\ r.val \in Stored \union {Garbled}
      <4> HIDE DEF en
      <4>1. en.ref # 0 /\ en.val \in ValueFor(e) /\ en.val # None
        <5>1. None \notin ValueFor(e)
          BY NoneIsNoValue
        <5> QED BY <2>1, <2>5, <5>1
      <4> QED BY <2>1, <3>2, <4>1
    <3> QED BY <1>2, <2>1, <3>2, <3>3 DEF Relent
  <2>6. CASE ~(en.ref > 0) /\ c # None /\ r = Lent(1, c)
    <3>1. en.ref = 0
      BY <2>1, <2>6
    <3> HIDE DEF Lent, c
    <3>2. r.val = c /\ Relent(s, r.st, u, e, 1, c)
      BY <2>1, <2>4, <2>6, <3>1
    <3>3. r.val # None /\ r.val \in ValueFor(e) /\ RefAt(s, u, e) = 0 /\ r.val \in Stored \union {Garbled}
      BY <2>1, <2>6, <3>1, <3>2
    <3>4. RefAt(s, u, e) + 1 = 1
      BY <3>3
    <3> QED BY <1>2, <2>1, <3>2, <3>3, <3>4 DEF Relent, c
  <2> QED BY <2>2, <2>3, <2>5, <2>6
<1> QED BY <1>1, <1>2

\* release.
LEMMA ReleaseFacts ==
  ASSUME NEW s, Good(s), NEW u \in Urls, NEW e \in Elems,
         NEW t, t = ReleaseElement(s, u, e)
  PROVE  /\ Shrinks(s, t)
         /\ RefsMove(s, t, u, e, IF RefAt(s, u, e) > 0 THEN RefAt(s, u, e) - 1 ELSE 0)
         /\ \A w \in DOMAIN t.entries, d \in Elems :
               w # u \/ d # e \/ RefAt(t, u, e) > 0 => t.entries[w].elem[d].val = s.entries[w].elem[d].val
         /\ Marked(s.entries) => Marked(t.entries)
         /\ t.entriesDirty \/ t = s
<1>0. s \in Stores /\ s.entries \in Tables
  BY DEF Good, Stores
<1>1. CASE u \notin DOMAIN s.entries
  <2>1. t = s /\ RefAt(s, u, e) = 0
    BY <1>1 DEF ReleaseElement, RefAt
  <2> QED BY <2>1, ShrinksSelf DEF RefsMove
<1>2. CASE u \in DOMAIN s.entries
  <2> DEFINE en == s.entries[u].elem[e]
             n == IF en.ref > 0 THEN en.ref - 1 ELSE 0
             v == IF en.ref = 1 THEN None ELSE en.val
             x == IF en.ref = 0 THEN en
                  ELSE [en EXCEPT !.ref = @ - 1, !.val = IF en.ref = 1 THEN None ELSE @]
             m == Touched(WithElement(s, u, e, x))
  <2>1. en \in ElementType /\ en.ref \in Nat /\ en.val \in Stored \union {Garbled}
        /\ RefAt(s, u, e) = en.ref /\ (en.ref > 0 => en.val \in ValueFor(e))
    BY <1>0, <1>2, ElementsType DEF Good, GoodTable, HeldHasValue, RefAt
  <2>2. n \in Nat /\ v \in Stored \union {Garbled} /\ (n > 0 => v \in ValueFor(e)) /\ (n > 0 => v = en.val)
    BY <2>1 DEF Stored
  <2>21. x = [s.entries[u].elem[e] EXCEPT !.ref = n, !.val = v]
    <3>1. CASE en.ref = 0
      <4>1. n = en.ref /\ v = en.val /\ x = en
        BY <3>1
      <4>2. en = [en EXCEPT !.ref = en.ref, !.val = en.val]
        BY <2>1 DEF ElementType
      <4> HIDE DEF x, n, v
      <4> QED BY <4>1, <4>2
    <3>2. CASE en.ref # 0
      <4>1. en.ref > 0
        BY <2>1, <3>2
      <4> QED BY <2>1, <3>2, <4>1
    <3> QED BY <3>1, <3>2
  <2>3. t = IF s.entries[u].invalid THEN InvalidateEntry(m, u) ELSE m
    BY <1>2 DEF ReleaseElement
  <2> HIDE DEF x, n, v
  <2>4. /\ Shrinks(s, m) /\ RefsMove(s, m, u, e, n) /\ m.entriesDirty
        /\ DOMAIN m.entries = DOMAIN s.entries
        /\ \A w \in DOMAIN s.entries : m.entries[w].invalid = s.entries[w].invalid
        /\ m.entries[u].elem[e].val = v
        /\ \A w \in DOMAIN s.entries, d \in Elems : w # u \/ d # e =>
              m.entries[w].elem[d] = s.entries[w].elem[d]
    <3>1. Relent(s, m, u, e, n, v)
      BY <1>2, <2>2, <2>21, RelentShrinks
    <3> HIDE DEF m
    <3> QED BY <3>1 DEF Relent
  <2> HIDE DEF m
  <2>5. Good(m)
    BY <2>4 DEF Shrinks
  <2>6. \A w \in DOMAIN s.entries : w # u => (OnLoan(m.entries[w]) <=> OnLoan(s.entries[w]))
    BY <2>4 DEF OnLoan
  <2>7. RefAt(m, u, e) = n
    BY <2>4 DEF RefsMove
  <2>8. \A w \in DOMAIN m.entries, d \in Elems :
           w # u \/ d # e \/ n > 0 => m.entries[w].elem[d].val = s.entries[w].elem[d].val
    BY <2>2, <2>4
  <2>9. n = IF RefAt(s, u, e) > 0 THEN RefAt(s, u, e) - 1 ELSE 0
    BY <2>1 DEF n
  <2>10. CASE ~s.entries[u].invalid
    <3>1. t = m
      BY <2>3, <2>10
    <3>2. Marked(s.entries) => Marked(t.entries)
      <4> SUFFICES ASSUME Marked(s.entries), NEW w \in DOMAIN m.entries, m.entries[w].invalid
                   PROVE  OnLoan(m.entries[w])
        BY <3>1 DEF Marked
      <4> QED BY <2>4, <2>6, <2>10 DEF Marked
    <3> QED BY <2>4, <2>7, <2>8, <2>9, <3>1, <3>2
  <2>11. CASE s.entries[u].invalid
    <3>1. t = InvalidateEntries(m, {u}) /\ {u} \in SUBSET DOMAIN m.entries
      BY <1>2, <2>3, <2>4, <2>11 DEF InvalidateEntry
    <3>2. /\ Shrinks(m, t) /\ RefsAs(m, t) /\ t.entriesDirty = m.entriesDirty
          /\ (\A w \in DOMAIN m.entries \ {u} : m.entries[w].invalid => OnLoan(m.entries[w])) => Marked(t.entries)
          /\ \A w \in DOMAIN t.entries : t.entries[w].elem = m.entries[w].elem
      BY <2>5, <3>1, InvalidateEntriesShrinks
    <3>3. Shrinks(s, t)
      BY <2>4, <3>2, ShrinksTrans
    <3>4. RefsMove(s, t, u, e, n)
      BY <2>4, <3>2 DEF RefsMove, RefsAs
    <3>5. Marked(s.entries) => Marked(t.entries)
      BY <2>4, <2>6, <3>2 DEF Marked
    <3>6. RefAt(t, u, e) = n /\ DOMAIN t.entries \subseteq DOMAIN m.entries
      BY <2>7, <3>2 DEF RefsAs, Shrinks
    <3> QED BY <2>4, <2>8, <2>9, <3>2, <3>3, <3>4, <3>5, <3>6
  <2> QED BY <2>10, <2>11
<1> QED BY <1>1, <1>2

\* invalidate.
LEMMA InvalidateFacts ==
  ASSUME NEW s, Good(s), NEW u \in Urls,
         NEW t, t = Invalidate(s, u)
  PROVE  /\ Shrinks(s, t) /\ RefsAs(s, t)
         /\ \A w \in DOMAIN t.entries : t.entries[w].elem = s.entries[w].elem
         /\ Marked(s.entries) => Marked(t.entries)
         /\ t.entriesDirty \/ t = s
<1>1. CASE u \notin DOMAIN s.entries
  BY <1>1, ShrinksSelf DEF Invalidate, RefsAs
<1>2. CASE u \in DOMAIN s.entries
  <2> DEFINE m == Touched(s)
  <2>1. Good(m) /\ Shrinks(s, m) /\ RefsAs(s, m) /\ m.entries = s.entries /\ m.entriesDirty
    BY TouchedShrinks, TouchedFacts DEF Shrinks, Good
  <2>2. t = InvalidateEntries(m, {u})
    BY <1>2 DEF Invalidate, InvalidateEntry
  <2> HIDE DEF m
  <2>3. /\ Shrinks(m, t) /\ RefsAs(m, t) /\ t.entriesDirty = m.entriesDirty
        /\ (\A w \in DOMAIN m.entries \ {u} : m.entries[w].invalid => OnLoan(m.entries[w])) => Marked(t.entries)
        /\ \A w \in DOMAIN t.entries : t.entries[w].elem = m.entries[w].elem
    <3>1. {u} \in SUBSET DOMAIN m.entries
      BY <1>2, <2>1
    <3> QED BY <2>1, <2>2, <3>1, InvalidateEntriesShrinks
  <2>4. Shrinks(s, t)
    BY <2>1, <2>3, ShrinksTrans
  <2>5. RefsAs(s, t)
    BY <2>1, <2>3 DEF RefsAs
  <2>6. Marked(s.entries) => Marked(t.entries)
    BY <2>1, <2>3 DEF Marked
  <2> QED BY <2>1, <2>3, <2>4, <2>5, <2>6
<1> QED BY <1>1, <1>2

\* store_evict.
LEMMA EvictedFacts ==
  ASSUME NEW s, Good(s), NEW t \in Evicted(s)
  PROVE  /\ Shrinks(s, t) /\ RefsAs(s, t)
         /\ \A w \in DOMAIN t.entries : t.entries[w].elem = s.entries[w].elem
         /\ Marked(s.entries) => Marked(t.entries)
         /\ t.entriesDirty = s.entriesDirty
<1>1. CASE t = s
  BY <1>1, ShrinksSelf DEF RefsAs
<1>2. ASSUME NEW us \in SUBSET DOMAIN s.entries, t = InvalidateEntries(s, us)
      PROVE  Shrinks(s, t) /\ RefsAs(s, t)
         /\ (\A w \in DOMAIN t.entries : t.entries[w].elem = s.entries[w].elem)
         /\ (Marked(s.entries) => Marked(t.entries)) /\ t.entriesDirty = s.entriesDirty
  BY <1>2, InvalidateEntriesShrinks DEF Marked
<1>3. t = s \/ \E us \in SUBSET DOMAIN s.entries : t = InvalidateEntries(s, us)
  BY DEF Evicted, Evictable
<1> QED BY <1>1, <1>2, <1>3

-----------------------------------------------------------------------------
\* alloc_block and set_store_entry.

\* alloc_block gives out a free block or none.
LEMMA AllocBlockFacts ==
  ASSUME NEW s \in Stores, NEW e \in Elems
  PROVE  /\ AllocBlock(s, e) \in 0 .. LastBlock
         /\ AllocBlock(s, e) # 0 => AllocBlock(s, e) \in Blocks \ s.used[e]
<1> DEFINE S == Blocks \ s.used[e]
<1>1. s.used[e] \in SUBSET Blocks /\ Blocks \subseteq 0 .. LastBlock
  BY StoreAssumption DEF Stores, Blocks
<1>2. CASE s.used[e] = Blocks
  BY <1>2, StoreAssumption DEF AllocBlock
<1>3. CASE s.used[e] # Blocks
  <2>1. S # {} /\ S \subseteq Nat
    <3>1. S # {}
      BY <1>1, <1>3
    <3>2. Blocks \subseteq Nat
      BY StoreAssumption DEF Blocks
    <3> QED BY <3>1, <3>2
  <2>2. \E n \in S : \A m \in S : n <= m
    BY <2>1, LeastExists
  <2>3. Min(S) \in S
    BY <2>2 DEF Min
  <2>4. AllocBlock(s, e) = Min(S)
    BY <1>3 DEF AllocBlock
  <2> HIDE DEF S
  <2>5. AllocBlock(s, e) \in S
    BY <2>3, <2>4
  <2> QED BY <1>1, <2>5 DEF S
<1> QED BY <1>2, <1>3

\* The sizes of elements.
LEMMA SizeOfType ==
  ASSUME NEW u \in Urls, NEW c \in Contents, c[1] = u, NEW e \in Elems
  PROVE  /\ SizeOf(c, e) \in Nat /\ SizeOf(c, e) # 0
         /\ e = "meta" => SizeOf(c, e) = 1
         /\ e # "meta" => SizeOf(c, e) = Size[u][c[2]]
<1>1. Size[u][c[2]] \in Nat \ {0}
  <2>1. c[2] \in Versions
    BY DEF Contents
  <2> QED BY <2>1, StoreAssumption
<1> QED BY <1>1 DEF SizeOf, Elems

\* The table g has element e of the entry of u set, and is f but for that.
SetsElement(f, g, u, e) ==
  /\ DOMAIN g = DOMAIN f \union {u}
  /\ \A w \in DOMAIN f \ {u} : g[w] = f[w]
  /\ \A d \in Elems \ {e} :
        g[u].elem[d].size = IF u \in DOMAIN f THEN f[u].elem[d].size ELSE 0

\* The accounts after an element was set.
LEMMA TotalAfterSet ==
  ASSUME NEW f \in Tables, IsFiniteSet(DOMAIN f), NEW u \in Urls, NEW e \in Elems,
         NEW g \in Tables, SetsElement(f, g, u, e)
  PROVE  TotalOf(g, DOMAIN g) =
           TotalOf(f, DOMAIN f) - (IF u \in DOMAIN f THEN f[u].elem[e].size ELSE 0) + g[u].elem[e].size
<1> DEFINE old == IF u \in DOMAIN f THEN f[u].elem[e].size ELSE 0
           D == DOMAIN f \ {u}
<1>0. /\ DOMAIN g = DOMAIN f \union {u}
      /\ \A w \in DOMAIN f \ {u} : g[w] = f[w]
      /\ \A d \in Elems \ {e} :
            g[u].elem[d].size = IF u \in DOMAIN f THEN f[u].elem[d].size ELSE 0
  BY DEF SetsElement
<1>1. IsFiniteSet(D) /\ u \notin D /\ DOMAIN g = D \union {u}
  BY <1>0, FS_Subset
<1>2. \A w \in DOMAIN f : Total(f[w]) \in Nat
  BY TotalType
<1>3. \A w \in DOMAIN g : Total(g[w]) \in Nat
  BY TotalType
<1>4. TotalOf(g, DOMAIN g) = TotalOf(g, D) + Total(g[u])
  BY <1>1, <1>3, TotalOfOneMore
<1>5. \A w \in D : Total(g[w]) = Total(f[w])
  BY <1>0 DEF Total
<1>6. TotalOf(f, D) \in Nat /\ TotalOf(f, D) = TotalOf(g, D)
  BY <1>1, <1>2, <1>5, TotalOfSame
<1>7. Total(g[u]) \in Nat /\ g[u].elem[e].size \in Nat
  BY <1>1, <1>3, ElementsType
<1>8. CASE u \in DOMAIN f
  <2>1. TotalOf(f, D \union {u}) = TotalOf(f, D) + Total(f[u])
    BY <1>1, <1>2, <1>8, TotalOfOneMore
  <2>2. D \union {u} = DOMAIN f
    BY <1>8
  <2>3. Total(f[u]) \in Nat
    BY <1>2, <1>8
  <2>4. f[u].elem[e].size \in Nat
    BY <1>8, ElementsType
  <2>5. Total(g[u]) = Total(f[u]) - f[u].elem[e].size + g[u].elem[e].size
    <3>1. "data" \in Elems /\ "meta" \in Elems /\ e \in {"data", "meta"} /\ u \in DOMAIN g
      BY <1>1 DEF Elems
    <3>2. /\ f[u].elem["data"].size \in Nat /\ f[u].elem["meta"].size \in Nat
          /\ g[u].elem["data"].size \in Nat /\ g[u].elem["meta"].size \in Nat
      BY <1>8, <3>1, ElementsType
    <3>3. CASE e = "data"
      <4>1. g[u].elem["meta"].size = f[u].elem["meta"].size
        BY <1>0, <1>8, <3>1, <3>3
      <4> QED BY <3>2, <3>3, <4>1 DEF Total
    <3>4. CASE e = "meta"
      <4>1. g[u].elem["data"].size = f[u].elem["data"].size
        BY <1>0, <1>8, <3>1, <3>4
      <4> QED BY <3>2, <3>4, <4>1 DEF Total
    <3> QED BY <3>1, <3>3, <3>4
  <2> HIDE DEF D
  <2>6. old = f[u].elem[e].size
    BY <1>8
  <2>7. TotalOf(f, DOMAIN f) = TotalOf(f, D) + Total(f[u])
    BY <2>1, <2>2
  <2> QED BY <1>4, <1>6, <1>7, <2>3, <2>4, <2>5, <2>6, <2>7
<1>9. CASE u \notin DOMAIN f
  <2>1. D = DOMAIN f /\ old = 0
    BY <1>9
  <2>2. Total(g[u]) = g[u].elem[e].size
    <3>1. "data" \in Elems /\ "meta" \in Elems /\ e \in {"data", "meta"} /\ u \in DOMAIN g
      BY <1>1 DEF Elems
    <3>2. g[u].elem["data"].size \in Nat /\ g[u].elem["meta"].size \in Nat
      BY <3>1, ElementsType
    <3>3. CASE e = "data"
      <4>1. g[u].elem["meta"].size = 0
        BY <1>0, <1>9, <3>1, <3>3
      <4> QED BY <3>2, <3>3, <4>1 DEF Total
    <3>4. CASE e = "meta"
      <4>1. g[u].elem["data"].size = 0
        BY <1>0, <1>9, <3>1, <3>4
      <4> QED BY <3>2, <3>4, <4>1 DEF Total
    <3> QED BY <3>1, <3>3, <3>4
  <2> HIDE DEF D
  <2>3. TotalOf(f, DOMAIN f) \in Nat /\ TotalOf(f, DOMAIN f) = TotalOf(g, D)
    BY <1>6, <2>1
  <2> QED BY <1>4, <1>7, <2>1, <2>2, <2>3
<1> QED BY <1>8, <1>9

\* What set_store_entry does to the tables.
IsSet(s, t, u, e, c) ==
  /\ DOMAIN t.entries = DOMAIN s.entries \union {u}
  /\ \A w \in DOMAIN s.entries, d \in Elems : w # u \/ d # e => t.entries[w].elem[d] = s.entries[w].elem[d]
  /\ u \notin DOMAIN s.entries => \A d \in Elems \ {e} : t.entries[u].elem[d] = EmptyElement
  /\ \A w \in DOMAIN s.entries : t.entries[w].invalid = s.entries[w].invalid
  /\ u \notin DOMAIN s.entries => ~t.entries[u].invalid
  /\ LET x == t.entries[u].elem[e]
     IN  /\ x.ref = 1 /\ x.val = c /\ x.size = SizeOf(c, e)
         /\ x.size = 1 /\ x.block # 0 => x.block \in Blocks \ s.used[e]
         /\ x.size # 1 => x.block = EntryOf(s, u).elem[e].block
         /\ x.size = 1 /\ x.block # 0 => x.block \in t.used[e]
  /\ \A d \in Elems : s.used[d] \subseteq t.used[d]
  /\ t.entriesDirty /\ (s.blocksDirty => t.blocksDirty)
  /\ ~t.blocksDirty => \A d \in Elems : t.used[d] \subseteq s.used[d]

\* set_store_entry keeps the accounts and changes one element.
LEMMA SetEntryFacts ==
  ASSUME NEW s, Good(s), NEW u \in Urls, NEW e \in Elems, NEW c \in Contents, c[1] = u,
         NEW t, t = SetEntry(s, u, e, c)
  PROVE  /\ Good(t) /\ IsSet(s, t, u, e, c) /\ t.blocks = s.blocks /\ t.files = s.files
<1> DEFINE old == EntryOf(s, u).elem[e]
           size == SizeOf(c, e)
           small == size = 1
           block == IF small THEN AllocBlock(s, e) ELSE old.block
           x == [ref |-> 1, val |-> c, size |-> size, block |-> block]
           used == IF small THEN [s.used EXCEPT ![e] = @ \union ({block} \ {0})] ELSE s.used
           r == WithElement(s, u, e, x)
           m == Touched(r)
<1>1. s \in Stores /\ s.entries \in Tables /\ IsFiniteSet(DOMAIN s.entries)
  BY DEF Good, GoodTable
<1>2. size \in Nat /\ size # 0 /\ (e = "meta" => size = 1)
  BY SizeOfType
<1>3. old \in ElementType /\ old.size \in Nat /\ old.block \in 0 .. LastBlock
  BY <1>1, EntryOfType DEF EntryType, ElementType
<1>4. block \in 0 .. LastBlock /\ (small /\ block # 0 => block \in Blocks \ s.used[e])
  BY <1>1, <1>3, AllocBlockFacts
<1>5. t = [m EXCEPT !.total = @ - old.size + size,
                    !.used = used,
                    !.blocksDirty = @ \/ (small /\ block # 0)]
  BY DEF SetEntry
<1> HIDE DEF old, size, block, used
<1>6. x \in ElementType /\ x.ref = 1 /\ x.val = c /\ x.size = size /\ x.block = block
  BY <1>2, <1>4 DEF ElementType, Stored
<1> HIDE DEF x
<1>7. /\ r \in Stores /\ DOMAIN r.entries = DOMAIN s.entries \union {u}
      /\ \A w \in DOMAIN s.entries \ {u} : r.entries[w] = s.entries[w]
      /\ r.entries[u].elem[e] = x /\ r.entries[u].invalid = EntryOf(s, u).invalid
      /\ \A d \in Elems \ {e} : r.entries[u].elem[d] = EntryOf(s, u).elem[d]
      /\ r.used = s.used /\ r.total = s.total /\ r.blocks = s.blocks /\ r.files = s.files
      /\ r.blocksDirty = s.blocksDirty /\ r.entriesDirty = s.entriesDirty
  BY <1>1, <1>6, WithElementFacts
<1> HIDE DEF r
<1>8. /\ m \in Stores /\ m.entries = r.entries /\ m.used = s.used /\ m.blocks = s.blocks
      /\ m.files = s.files /\ m.total = s.total /\ m.blocksDirty = s.blocksDirty /\ m.entriesDirty
  BY <1>7, TouchedFacts
<1> HIDE DEF m
<1>9. /\ t.entries = r.entries /\ t.blocks = s.blocks /\ t.files = s.files /\ t.entriesDirty
      /\ t.total = s.total - old.size + size
      /\ t.used = used
      /\ t.blocksDirty = (s.blocksDirty \/ (small /\ block # 0))
      /\ t.timer = m.timer
  <2>1. /\ t.entries = m.entries /\ t.blocks = m.blocks /\ t.files = m.files
        /\ t.entriesDirty = m.entriesDirty /\ t.timer = m.timer
    BY <1>5, <1>8 DEF Stores
  <2>2. t.total = m.total - old.size + size
    BY <1>5, <1>8 DEF Stores
  <2>3. t.used = used
    BY <1>5, <1>8 DEF Stores
  <2>4. t.blocksDirty = (m.blocksDirty \/ (small /\ block # 0))
    BY <1>5, <1>8 DEF Stores
  <2> QED BY <1>8, <2>1, <2>2, <2>3, <2>4
<1>10. t.used \in [Elems -> SUBSET Blocks]
  <2>1. s.used \in [Elems -> SUBSET Blocks]
    BY <1>1 DEF Stores
  <2>2. small => {block} \ {0} \subseteq Blocks
    BY <1>4 DEF Blocks
  <2> QED BY <1>9, <2>1, <2>2 DEF used
<1>11. t.total \in Int
  <2>1. s.total \in Int
    BY <1>1 DEF Stores
  <2> QED BY <1>2, <1>3, <1>9, <2>1
<1>12. t \in Stores
  <2>1. t = [m EXCEPT !.total = t.total, !.used = t.used, !.blocksDirty = t.blocksDirty]
    BY <1>5, <1>8, <1>9 DEF Stores
  <2>2. t.blocksDirty \in BOOLEAN
    BY <1>1, <1>9 DEF Stores
  <2> QED BY <1>8, <1>10, <1>11, <2>1, <2>2 DEF Stores
<1>13. t.entries \in Tables /\ DOMAIN t.entries = DOMAIN s.entries \union {u} /\ t.entries[u].elem[e] = x
  BY <1>7, <1>9 DEF Stores
<1>14. \A w \in DOMAIN s.entries, d \in Elems : w # u \/ d # e => t.entries[w].elem[d] = s.entries[w].elem[d]
  BY <1>7, <1>9 DEF EntryOf
<1>15. u \notin DOMAIN s.entries => (\A d \in Elems \ {e} : t.entries[u].elem[d] = EmptyElement) /\ ~t.entries[u].invalid
  <2> SUFFICES ASSUME u \notin DOMAIN s.entries
               PROVE  (\A d \in Elems \ {e} : t.entries[u].elem[d] = EmptyElement) /\ ~t.entries[u].invalid
    OBVIOUS
  <2>1. EntryOf(s, u) = EmptyEntry
    BY DEF EntryOf
  <2>2. ~EmptyEntry.invalid /\ \A d \in Elems : EmptyEntry.elem[d] = EmptyElement
    BY DEF EmptyEntry
  <2> QED BY <1>7, <1>9, <2>1, <2>2
<1>16. GoodTable(t.entries)
  <2>1. IsFiniteSet(DOMAIN t.entries)
    BY <1>1, <1>13, FS_AddElement
  <2>2. HeldHasValue(t.entries)
    <3> SUFFICES ASSUME NEW w \in DOMAIN t.entries, NEW d \in Elems, t.entries[w].elem[d].ref > 0
                 PROVE  t.entries[w].elem[d].val \in ValueFor(d)
      BY DEF HeldHasValue
    <3>1. CASE w = u /\ d = e
      BY <1>6, <1>13, <3>1 DEF ValueFor
    <3>2. CASE (w # u \/ d # e) /\ w \in DOMAIN s.entries
      BY <1>14, <3>2 DEF Good, GoodTable, HeldHasValue
    <3>3. CASE w = u /\ d # e /\ u \notin DOMAIN s.entries
      BY <1>15, <3>3 DEF EmptyElement
    <3> QED BY <1>13, <3>1, <3>2, <3>3
  <2>3. MetaFits(t.entries)
    <3> SUFFICES ASSUME NEW w \in DOMAIN t.entries PROVE t.entries[w].elem["meta"].size <= 1
      BY DEF MetaFits
    <3>0. "meta" \in Elems
      BY DEF Elems
    <3>1. CASE w = u /\ e = "meta"
      BY <1>2, <1>6, <1>13, <3>1
    <3>2. CASE (w # u \/ e # "meta") /\ w \in DOMAIN s.entries
      BY <1>14, <3>0, <3>2 DEF Good, GoodTable, MetaFits
    <3>3. CASE w = u /\ e # "meta" /\ u \notin DOMAIN s.entries
      BY <1>15, <3>0, <3>3 DEF EmptyElement
    <3> QED BY <1>13, <3>1, <3>2, <3>3
  <2> QED BY <1>13, <2>1, <2>2, <2>3 DEF GoodTable
<1>17. t.total = TotalOf(t.entries, DOMAIN t.entries)
  <2>1. u \notin DOMAIN s.entries => old.size = 0
    BY DEF old, EntryOf, EmptyEntry, EmptyElement
  <2>2. u \in DOMAIN s.entries => old.size = s.entries[u].elem[e].size
    BY DEF old, EntryOf
  <2>3. \A d \in Elems \ {e} : t.entries[u].elem[d].size = IF u \in DOMAIN s.entries THEN s.entries[u].elem[d].size ELSE 0
    BY <1>14, <1>15 DEF EmptyElement
  <2>4. \A w \in DOMAIN s.entries \ {u} : t.entries[w] = s.entries[w]
    BY <1>7, <1>9
  <2>5. TotalOf(t.entries, DOMAIN t.entries) = TotalOf(s.entries, DOMAIN s.entries) - old.size + t.entries[u].elem[e].size
    <3> DEFINE f == s.entries
               g == t.entries
               k == old.size
    <3>1. /\ f \in Tables /\ IsFiniteSet(DOMAIN f) /\ k \in Nat /\ g \in Tables
          /\ DOMAIN g = DOMAIN f \union {u}
          /\ (u \notin DOMAIN f => k = 0) /\ (u \in DOMAIN f => k = f[u].elem[e].size)
          /\ \A w \in DOMAIN f \ {u} : g[w] = f[w]
          /\ \A d \in Elems \ {e} : g[u].elem[d].size = IF u \in DOMAIN f THEN f[u].elem[d].size ELSE 0
      BY <1>1, <1>3, <1>13, <2>1, <2>2, <2>3, <2>4
    <3> HIDE DEF f, g, k
    <3>2. TotalOf(g, DOMAIN g) = TotalOf(f, DOMAIN f) - k + g[u].elem[e].size
      <4>1. k = IF u \in DOMAIN f THEN f[u].elem[e].size ELSE 0
        BY <3>1
      <4>2. TotalOf(g, DOMAIN g) =
              TotalOf(f, DOMAIN f) - (IF u \in DOMAIN f THEN f[u].elem[e].size ELSE 0) + g[u].elem[e].size
        BY <3>1, TotalAfterSet DEF SetsElement
      <4> QED BY <4>1, <4>2
    <3> QED BY <3>2 DEF f, g, k
  <2> QED BY <1>6, <1>9, <1>13, <2>5 DEF Good
<1>18. Good(t)
  BY <1>12, <1>16, <1>17 DEF Good
<1>19. \A w \in DOMAIN s.entries : t.entries[w].invalid = s.entries[w].invalid
  BY <1>7, <1>9 DEF EntryOf
<1>20. /\ \A d \in Elems : s.used[d] \subseteq t.used[d]
       /\ small /\ block # 0 => block \in t.used[e]
       /\ ~t.blocksDirty => \A d \in Elems : t.used[d] \subseteq s.used[d]
  <2>1. s.used \in [Elems -> SUBSET Blocks]
    BY <1>1 DEF Stores
  <2> QED BY <1>9, <2>1 DEF used
<1>21. IsSet(s, t, u, e, c)
  <2>1. /\ x.ref = 1 /\ x.val = c /\ x.size = SizeOf(c, e)
        /\ x.size = 1 /\ x.block # 0 => x.block \in Blocks \ s.used[e]
        /\ x.size # 1 => x.block = EntryOf(s, u).elem[e].block
        /\ x.size = 1 /\ x.block # 0 => x.block \in t.used[e]
    <3>1. x.size = 1 => x.block = block /\ small
      BY <1>6
    <3>2. x.size # 1 => x.block = EntryOf(s, u).elem[e].block
      BY <1>6 DEF block, old
    <3>3. x.size = SizeOf(c, e)
      BY <1>6 DEF size
    <3> QED BY <1>4, <1>6, <1>20, <3>1, <3>2, <3>3
  <2>2. t.entriesDirty /\ (s.blocksDirty => t.blocksDirty)
    BY <1>9
  <2> QED BY <1>13, <1>14, <1>15, <1>19, <1>20, <2>1, <2>2 DEF IsSet
<1> QED BY <1>9, <1>18, <1>21

-----------------------------------------------------------------------------
\* store, of one element.

\* The block it takes was nobody's.
LEMMA SetKeepsBlocksApart ==
  ASSUME NEW s, Good(s), NEW u \in Urls, NEW e \in Elems, NEW c,
         NEW t, IsSet(s, t, u, e, c), NoShare(s.entries, s.used)
  PROVE  NoShare(t.entries, t.used)
<1> DEFINE x == t.entries[u].elem[e]
<1> SUFFICES ASSUME NEW w \in DOMAIN t.entries, NEW d \in Elems, t.entries[w].elem[d].block # 0
             PROVE  /\ t.entries[w].elem[d].block \in t.used[d]
                    /\ \A y \in DOMAIN t.entries : t.entries[y].elem[d].block = t.entries[w].elem[d].block => y = w
  BY DEF NoShare
<1>1. /\ DOMAIN t.entries = DOMAIN s.entries \union {u}
      /\ \A y \in DOMAIN s.entries, g \in Elems : y # u \/ g # e => t.entries[y].elem[g].block = s.entries[y].elem[g].block
      /\ \A g \in Elems : s.used[g] \subseteq t.used[g]
  BY DEF IsSet
<1>2. u \notin DOMAIN s.entries => \A g \in Elems \ {e} : t.entries[u].elem[g].block = 0
  BY DEF IsSet, EmptyElement
<1>3. x.block # 0 => /\ x.block \in t.used[e]
                     /\ \A y \in DOMAIN s.entries \ {u} : s.entries[y].elem[e].block # x.block
  <2> SUFFICES ASSUME x.block # 0
               PROVE  /\ x.block \in t.used[e]
                      /\ \A y \in DOMAIN s.entries \ {u} : s.entries[y].elem[e].block # x.block
    OBVIOUS
  <2>1. CASE x.size = 1
    <3>1. x.block \notin s.used[e] /\ x.block \in t.used[e]
      BY <2>1 DEF IsSet
    <3> QED BY <3>1 DEF NoShare
  <2>2. CASE x.size # 1
    <3>1. x.block = EntryOf(s, u).elem[e].block
      BY <2>2 DEF IsSet
    <3>2. u \in DOMAIN s.entries /\ x.block = s.entries[u].elem[e].block
      BY <3>1 DEF EntryOf, EmptyEntry, EmptyElement
    <3>3. x.block \in s.used[e]
      BY <3>2 DEF NoShare
    <3>4. \A y \in DOMAIN s.entries : s.entries[y].elem[e].block = x.block => y = u
      BY <3>2 DEF NoShare
    <3> QED BY <1>1, <3>3, <3>4
  <2> QED BY <2>1, <2>2
<1> HIDE DEF x
<1>4. CASE w = u /\ d = e
  BY <1>1, <1>3, <1>4 DEF x
<1>5. CASE w \in DOMAIN s.entries /\ (w # u \/ d # e)
  <2>1. t.entries[w].elem[d].block = s.entries[w].elem[d].block
    BY <1>1, <1>5
  <2>2. /\ s.entries[w].elem[d].block \in s.used[d]
        /\ \A y \in DOMAIN s.entries : s.entries[y].elem[d].block = s.entries[w].elem[d].block => y = w
    BY <1>5, <2>1 DEF NoShare
  <2>3. ASSUME NEW y \in DOMAIN t.entries, t.entries[y].elem[d].block = t.entries[w].elem[d].block PROVE y = w
    <3>1. CASE y \in DOMAIN s.entries /\ (y # u \/ d # e)
      BY <1>1, <2>1, <2>2, <2>3, <3>1
    <3>2. CASE y = u /\ d = e
      BY <1>3, <1>5, <2>1, <2>3, <3>2 DEF x
    <3>3. CASE y = u /\ d # e /\ u \notin DOMAIN s.entries
      BY <1>2, <2>3, <3>3
    <3> QED BY <1>1, <3>1, <3>2, <3>3
  <2> QED BY <1>1, <2>1, <2>2, <2>3
<1>6. CASE w = u /\ d # e /\ u \notin DOMAIN s.entries
  BY <1>2, <1>6
<1> QED BY <1>1, <1>4, <1>5, <1>6

\* The element is on loan once, and its entry is not marked by this.
LEMMA SetMovesRefs ==
  ASSUME NEW s, NEW u \in Urls, NEW e \in Elems, NEW c, NEW t, IsSet(s, t, u, e, c)
  PROVE  /\ RefsMove(s, t, u, e, 1)
         /\ Marked(s.entries) => Marked(t.entries)
<1>1. /\ DOMAIN t.entries = DOMAIN s.entries \union {u}
      /\ \A y \in DOMAIN s.entries, g \in Elems : y # u \/ g # e => t.entries[y].elem[g].ref = s.entries[y].elem[g].ref
      /\ t.entries[u].elem[e].ref = 1
      /\ \A w \in DOMAIN s.entries : t.entries[w].invalid = s.entries[w].invalid
      /\ u \notin DOMAIN s.entries => ~t.entries[u].invalid
  BY DEF IsSet
<1>2. u \notin DOMAIN s.entries => \A g \in Elems \ {e} : t.entries[u].elem[g].ref = 0
  BY DEF IsSet, EmptyElement
<1>3. RefsMove(s, t, u, e, 1)
  BY <1>1, <1>2 DEF RefsMove, RefAt
<1>4. Marked(s.entries) => Marked(t.entries)
  <2> SUFFICES ASSUME Marked(s.entries), NEW w \in DOMAIN t.entries, t.entries[w].invalid
               PROVE  OnLoan(t.entries[w])
    BY DEF Marked
  <2>1. CASE w = u
    BY <1>1, <2>1 DEF OnLoan
  <2>2. CASE w # u
    <3>1. OnLoan(s.entries[w])
      BY <1>1, <2>2 DEF Marked
    <3> QED BY <1>1, <2>2, <3>1 DEF OnLoan
  <2> QED BY <2>1, <2>2
<1> QED BY <1>3, <1>4

\* The value of an entry was written where the entry says: in its block or in its file.
IsWritten(s, t, u, e, en) ==
  /\ t \in Stores /\ t.entries = s.entries /\ t.used = s.used /\ t.total = s.total
  /\ t.entriesDirty = s.entriesDirty /\ t.blocksDirty = s.blocksDirty
  /\ en.block # 0 =>
       /\ t.files = s.files
       /\ \A d \in Elems, b \in Blocks : t.blocks[d][b] =
            IF d = e /\ b \in en.block .. (en.block + en.size - 1) THEN en.val ELSE s.blocks[d][b]
  /\ en.block = 0 =>
       /\ t.blocks = s.blocks
       /\ \A d \in Elems, h \in Range(Hash) : t.files[d][h] =
            IF d = e /\ h = Hash[u] THEN en.val ELSE s.files[d][h]

\* What the write changes on disc.
LEMMA WrittenFacts ==
  ASSUME NEW s \in Stores, NEW u \in Urls, NEW e \in Elems, NEW en, en.val \in Stored,
         NEW t, t = Written(s, u, e, en)
  PROVE  IsWritten(s, t, u, e, en)
<1>1. CASE en.block # 0
  <2> DEFINE row == [b \in Blocks |-> IF b \in en.block .. (en.block + en.size - 1) THEN en.val ELSE s.blocks[e][b]]
             bs == [s.blocks EXCEPT ![e] = row]
  <2>1. t = [s EXCEPT !.blocks = bs]
    BY <1>1 DEF Written
  <2>2. s.blocks \in [Elems -> [Blocks -> Stored]]
    BY DEF Stores
  <2>3. row \in [Blocks -> Stored]
    BY <2>2
  <2>4. bs \in [Elems -> [Blocks -> Stored]] /\ \A d \in Elems : bs[d] = IF d = e THEN row ELSE s.blocks[d]
    <3> HIDE DEF row
    <3> QED BY <2>2, <2>3
  <2>5. \A d \in Elems, b \in Blocks : bs[d][b] =
           IF d = e /\ b \in en.block .. (en.block + en.size - 1) THEN en.val ELSE s.blocks[d][b]
    <3> HIDE DEF bs
    <3> QED BY <2>4
  <2> HIDE DEF bs
  <2>6. /\ t \in Stores /\ t.entries = s.entries /\ t.used = s.used /\ t.total = s.total
        /\ t.entriesDirty = s.entriesDirty /\ t.blocksDirty = s.blocksDirty /\ t.files = s.files
        /\ t.blocks = bs
    BY <2>1, <2>4 DEF Stores
  <2> QED BY <1>1, <2>5, <2>6 DEF IsWritten
<1>2. CASE en.block = 0
  <2> DEFINE row == [h \in Range(Hash) |-> IF h = Hash[u] THEN en.val ELSE s.files[e][h]]
             fs == [s.files EXCEPT ![e] = row]
  <2>1. t = [s EXCEPT !.files = fs]
    BY <1>2 DEF Written
  <2>2. s.files \in [Elems -> [Range(Hash) -> Stored]]
    BY DEF Stores
  <2>3. row \in [Range(Hash) -> Stored]
    BY <2>2
  <2>4. fs \in [Elems -> [Range(Hash) -> Stored]] /\ \A d \in Elems : fs[d] = IF d = e THEN row ELSE s.files[d]
    <3> HIDE DEF row
    <3> QED BY <2>2, <2>3
  <2>5. \A d \in Elems, h \in Range(Hash) : fs[d][h] = IF d = e /\ h = Hash[u] THEN en.val ELSE s.files[d][h]
    <3> HIDE DEF fs
    <3> QED BY <2>4
  <2> HIDE DEF fs
  <2>6. /\ t \in Stores /\ t.entries = s.entries /\ t.used = s.used /\ t.total = s.total
        /\ t.entriesDirty = s.entriesDirty /\ t.blocksDirty = s.blocksDirty /\ t.blocks = s.blocks
        /\ t.files = fs
    BY <2>1, <2>4 DEF Stores
  <2> QED BY <1>2, <2>5, <2>6 DEF IsWritten
<1> QED BY <1>1, <1>2

\* An element of u was set and written.
IsPut(s, t, u, e, c) ==
  /\ Good(t) /\ IsSet(s, t, u, e, c)
  /\ LET x == t.entries[u].elem[e]
     IN  /\ x.block # 0 =>
              /\ t.files = s.files
              /\ \A d \in Elems, b \in Blocks : t.blocks[d][b] =
                   IF d = e /\ b \in x.block .. (x.block + x.size - 1) THEN c ELSE s.blocks[d][b]
         /\ x.block = 0 =>
              /\ t.blocks = s.blocks
              /\ \A d \in Elems, h \in Range(Hash) : t.files[d][h] = IF d = e /\ h = Hash[u] THEN c ELSE s.files[d][h]

\* Set and written.
LEMMA PutFacts ==
  ASSUME NEW s, Good(s), NEW u \in Urls, NEW e \in Elems, NEW c \in Contents, c[1] = u,
         NEW m, m = SetEntry(s, u, e, c),
         NEW t, t = Written(m, u, e, m.entries[u].elem[e])
  PROVE  IsPut(s, t, u, e, c)
<1> DEFINE x == m.entries[u].elem[e]
<1>1. Good(m) /\ IsSet(s, m, u, e, c) /\ m.blocks = s.blocks /\ m.files = s.files /\ m \in Stores
  <2>1. Good(m) /\ IsSet(s, m, u, e, c) /\ m.blocks = s.blocks /\ m.files = s.files
    BY SetEntryFacts
  <2> QED BY <2>1 DEF Good
<1>2. x.val = c /\ x.val \in Stored
  BY <1>1 DEF IsSet, Stored
<1> HIDE DEF x
<1>3. t = Written(m, u, e, x)
  BY DEF x
<1>4. /\ t \in Stores /\ t.entries = m.entries /\ t.used = m.used /\ t.total = m.total
      /\ t.entriesDirty = m.entriesDirty /\ t.blocksDirty = m.blocksDirty
      /\ x.block # 0 =>
           /\ t.files = m.files
           /\ \A d \in Elems, b \in Blocks : t.blocks[d][b] =
                IF d = e /\ b \in x.block .. (x.block + x.size - 1) THEN x.val ELSE m.blocks[d][b]
      /\ x.block = 0 =>
           /\ t.blocks = m.blocks
           /\ \A d \in Elems, h \in Range(Hash) : t.files[d][h] =
                IF d = e /\ h = Hash[u] THEN x.val ELSE m.files[d][h]
  <2>1. m \in Stores /\ x.val \in Stored /\ t = Written(m, u, e, x)
    BY <1>1, <1>2, <1>3
  <2>2. IsWritten(m, t, u, e, x)
    BY SMT, <2>1, WrittenFacts
  <2> QED BY <2>2 DEF IsWritten
<1>5. Good(t)
  <2>1. t \in Stores /\ t.entries = m.entries /\ t.total = m.total
    BY <1>4, Zenon
  <2>2. GoodTable(m.entries) /\ m.total = TotalOf(m.entries, DOMAIN m.entries)
    <3>1. Good(m)
      BY <1>1, Zenon
    <3> QED BY <3>1, Zenon DEF Good
  <2> QED BY <2>1, <2>2, Zenon DEF Good
<1>6. IsSet(s, t, u, e, c)
  <2>1. /\ t.entries = m.entries /\ t.used = m.used
        /\ t.entriesDirty = m.entriesDirty /\ t.blocksDirty = m.blocksDirty
    BY <1>4
  <2>2. IsSet(s, m, u, e, c)
    BY <1>1
  <2> QED BY <2>1, <2>2 DEF IsSet
<1>7. t.entries[u].elem[e] = x
  BY <1>4 DEF x
<1> QED BY <1>1, <1>2, <1>4, <1>5, <1>6, <1>7 DEF IsPut

\* store.
LEMMA StoreCases ==
  ASSUME NEW s, Good(s), NEW u \in Urls, NEW e \in Elems, NEW c \in Contents, c[1] = u,
         NEW r \in Store(s, u, e, c)
  PROVE  \E ev \in Evicted(s) :
           /\ Good(ev) /\ Shrinks(s, ev) /\ RefsAs(s, ev)
           /\ \/ ~r.ok /\ r.st = ev /\ RefAt(s, u, e) > 0
              \/ ~r.ok /\ "write" \in Faults /\ RefAt(s, u, e) = 0
                 /\ Good(r.st) /\ IsSet(ev, r.st, u, e, c)
              \/ r.ok /\ RefAt(s, u, e) = 0 /\ IsPut(ev, r.st, u, e, c)
<1>1. PICK ev \in Evicted(s) :
        r \in IF u \in DOMAIN ev.entries /\ ev.entries[u].elem[e].ref > 0
           THEN {[st |-> ev, ok |-> FALSE]}
           ELSE LET set == SetEntry(ev, u, e, c)
                IN  {[st |-> Written(set, u, e, set.entries[u].elem[e]), ok |-> TRUE]}
                    \union (IF "write" \in Faults THEN {[st |-> set, ok |-> FALSE]} ELSE {})
  BY DEF Store
<1>2. Good(ev) /\ Shrinks(s, ev) /\ RefsAs(s, ev)
  <2>1. Shrinks(s, ev) /\ RefsAs(s, ev)
    BY EvictedFacts
  <2> QED BY <2>1 DEF Shrinks
<1>3. RefAt(ev, u, e) = RefAt(s, u, e)
  BY <1>2 DEF RefsAs
<1>4. CASE u \in DOMAIN ev.entries /\ ev.entries[u].elem[e].ref > 0
  <2>1. ~r.ok /\ r.st = ev
    BY <1>1, <1>4
  <2>2. RefAt(s, u, e) > 0
    BY <1>3, <1>4 DEF RefAt
  <2> QED BY <1>2, <2>1, <2>2
<1>5. CASE ~(u \in DOMAIN ev.entries /\ ev.entries[u].elem[e].ref > 0)
  <2>1. RefAt(s, u, e) = 0
    <3>1. u \in DOMAIN ev.entries => ev.entries[u].elem[e].ref \in Nat
      BY <1>2, ElementsType DEF Good, GoodTable
    <3> QED BY <1>3, <1>5, <3>1 DEF RefAt
  <2> DEFINE set == SetEntry(ev, u, e, c)
  <2>2. CASE r = [st |-> Written(set, u, e, set.entries[u].elem[e]), ok |-> TRUE]
    <3>1. IsPut(ev, r.st, u, e, c)
      <4>1. r.st = Written(set, u, e, set.entries[u].elem[e])
        BY <2>2
      <4> QED BY <1>2, <4>1, PutFacts
    <3> QED BY <1>2, <2>1, <2>2, <3>1
  <2>3. CASE "write" \in Faults /\ r = [st |-> set, ok |-> FALSE]
    <3>1. Good(r.st) /\ IsSet(ev, r.st, u, e, c)
      <4>1. r.st = SetEntry(ev, u, e, c)
        BY <2>3
      <4> QED BY <1>2, <4>1, SetEntryFacts
    <3> QED BY <1>2, <2>1, <2>3, <3>1
  <2> QED BY <1>1, <1>5, <2>2, <2>3
<1> QED BY <1>4, <1>5

-----------------------------------------------------------------------------
\* What never takes anything new into the store.

\* What is on loan is what the disc holds.
Honest(s) == \A u \in DOMAIN s.entries, e \in Elems :
  s.entries[u].elem[e].ref > 0 => s.entries[u].elem[e].val = OnDisc(s, u, e)

\* A call of the store other than store: entries may be gone, and what is left is as good.
Softens(s, t) ==
  /\ Shrinks(s, t)
  /\ OneName /\ Honest(s) => Honest(t)
  /\ Marked(s.entries) => Marked(t.entries)
  /\ t.entriesDirty \/ t.entries = s.entries

\* Where entries have only gone, the others are on disc as before; the names of files must
\* differ.
LEMMA DiscKept ==
  ASSUME NEW s, NEW t, Shrinks(s, t), OneName, NEW u \in DOMAIN t.entries, NEW e \in Elems
  PROVE  OnDisc(t, u, e) = OnDisc(s, u, e)
<1>1. /\ t.entries[u].elem[e].size = s.entries[u].elem[e].size
      /\ t.entries[u].elem[e].block = s.entries[u].elem[e].block
      /\ t.blocks = s.blocks /\ t.files[e][Hash[u]] = s.files[e][Hash[u]]
  BY DEF Shrinks, SameElements
<1> QED BY <1>1 DEF OnDisc

\* To change nothing is such a step,
LEMMA SoftensSelf ==
  ASSUME NEW s, Good(s) PROVE Softens(s, s)
BY ShrinksSelf DEF Softens

\* and so are two of them.
LEMMA SoftensTrans ==
  ASSUME NEW r, NEW s, NEW t, Softens(r, s), Softens(s, t)
  PROVE  Softens(r, t)
<1>1. Shrinks(r, t)
  BY ShrinksTrans DEF Softens
<1>2. s.entriesDirty => t.entriesDirty
  BY DEF Softens, Shrinks
<1> QED BY <1>1, <1>2 DEF Softens

\* They keep the accounts.
LEMMA SoftensGood ==
  ASSUME NEW s, NEW t, Softens(s, t) PROVE Good(t)
BY DEF Softens, Shrinks

\* fetch takes nothing new in.
LEMMA FetchSoftens ==
  ASSUME NEW s, Good(s), NEW u \in Urls, NEW e \in Elems, NEW r \in Fetch(s, u, e)
  PROVE  Softens(s, r.st)
<1>1. /\ Shrinks(s, r.st) /\ DOMAIN r.st.entries = DOMAIN s.entries
      /\ \A w \in DOMAIN s.entries : r.st.entries[w].invalid = s.entries[w].invalid
      /\ \A w \in DOMAIN s.entries, d \in Elems : w # u \/ d # e => r.st.entries[w].elem[d] = s.entries[w].elem[d]
      /\ r.st.entriesDirty \/ r.st = s
  BY FetchFacts
<1>2. CASE r.val = None
  <2>1. r.st.entries = s.entries
    BY <1>2, FetchFacts
  <2>2. OneName /\ Honest(s) => Honest(r.st)
    <3>1. OneName => \A w \in DOMAIN s.entries, d \in Elems : OnDisc(r.st, w, d) = OnDisc(s, w, d)
      BY <1>1, DiscKept
    <3> QED BY <2>1, <3>1 DEF Honest
  <2> QED BY <1>1, <2>1, <2>2 DEF Softens
<1>3. CASE r.val # None
  <2>1. /\ RefsMove(s, r.st, u, e, RefAt(s, u, e) + 1) /\ u \in DOMAIN s.entries
        /\ RefAt(s, u, e) = 0 => r.val = OnDisc(s, u, e)
        /\ RefAt(s, u, e) > 0 => r.val = s.entries[u].elem[e].val
        /\ r.st.entries[u].elem[e].val = r.val
    BY <1>3, FetchFacts
  <2>2. OneName => \A w \in DOMAIN s.entries, d \in Elems : OnDisc(r.st, w, d) = OnDisc(s, w, d)
    BY <1>1, DiscKept
  <2>3. RefAt(s, u, e) \in Nat /\ RefAt(s, u, e) = s.entries[u].elem[e].ref
    BY <2>1, ElementsType DEF RefAt, Good, GoodTable
  <2>4. OneName /\ Honest(s) => Honest(r.st)
    <3> SUFFICES ASSUME OneName, Honest(s), NEW w \in DOMAIN s.entries, NEW d \in Elems,
                        r.st.entries[w].elem[d].ref > 0
                 PROVE  r.st.entries[w].elem[d].val = OnDisc(r.st, w, d)
      BY <1>1 DEF Honest
    <3>1. CASE w = u /\ d = e
      <4>1. r.val = OnDisc(s, u, e)
        <5>1. RefAt(s, u, e) = 0 \/ RefAt(s, u, e) > 0
          BY <2>3
        <5> QED BY <2>1, <2>3, <5>1 DEF Honest
      <4> QED BY <2>1, <2>2, <3>1, <4>1
    <3>2. CASE w # u \/ d # e
      BY <1>1, <2>2, <3>2 DEF Honest
    <3> QED BY <3>1, <3>2
  <2>5. Marked(s.entries) => Marked(r.st.entries)
    <3> SUFFICES ASSUME Marked(s.entries), NEW w \in DOMAIN s.entries, s.entries[w].invalid
                 PROVE  OnLoan(r.st.entries[w])
      BY <1>1 DEF Marked
    <3>1. PICK d \in Elems : s.entries[w].elem[d].ref > 0
      BY DEF Marked, OnLoan
    <3>2. CASE w = u /\ d = e
      <4>1. RefAt(r.st, u, e) = RefAt(s, u, e) + 1
        BY <2>1 DEF RefsMove
      <4>2. r.st.entries[u].elem[e].ref > 0
        BY <1>1, <2>1, <2>3, <4>1 DEF RefAt
      <4> QED BY <3>2, <4>2 DEF OnLoan
    <3>3. CASE w # u \/ d # e
      <4>1. r.st.entries[w].elem[d] = s.entries[w].elem[d]
        BY <1>1, <3>3
      <4> QED BY <3>1, <4>1 DEF OnLoan
    <3> QED BY <3>2, <3>3
  <2> QED BY <1>1, <2>4, <2>5 DEF Softens
<1> QED BY <1>2, <1>3

\* Nor does release.
LEMMA ReleaseSoftens ==
  ASSUME NEW s, Good(s), NEW u \in Urls, NEW e \in Elems,
         NEW t, t = ReleaseElement(s, u, e)
  PROVE  Softens(s, t)
<1>1. /\ Shrinks(s, t)
      /\ RefsMove(s, t, u, e, IF RefAt(s, u, e) > 0 THEN RefAt(s, u, e) - 1 ELSE 0)
      /\ \A w \in DOMAIN t.entries, d \in Elems :
            w # u \/ d # e \/ RefAt(t, u, e) > 0 => t.entries[w].elem[d].val = s.entries[w].elem[d].val
      /\ Marked(s.entries) => Marked(t.entries)
      /\ t.entriesDirty \/ t = s
  BY ReleaseFacts
<1>2. OneName /\ Honest(s) => Honest(t)
  <2> SUFFICES ASSUME OneName, Honest(s), NEW w \in DOMAIN t.entries, NEW d \in Elems,
                      t.entries[w].elem[d].ref > 0
               PROVE  t.entries[w].elem[d].val = OnDisc(t, w, d)
    BY DEF Honest
  <2>1. w \in DOMAIN s.entries /\ OnDisc(t, w, d) = OnDisc(s, w, d) /\ w \in Urls
    <3>1. w \in DOMAIN s.entries
      BY <1>1 DEF Shrinks
    <3> QED BY <1>1, <3>1, DiscKept, ElementsType DEF Good, GoodTable
  <2>2. RefAt(t, w, d) > 0
    BY DEF RefAt
  <2>3. t.entries[w].elem[d].val = s.entries[w].elem[d].val
    BY <1>1, <2>2
  <2>4. s.entries[w].elem[d].ref > 0
    <3>1. RefAt(s, w, d) \in Nat /\ RefAt(s, w, d) = s.entries[w].elem[d].ref
      BY <2>1, ElementsType DEF RefAt, Good, GoodTable
    <3>2. RefAt(s, w, d) > 0
      <4>1. CASE w = u /\ d = e
        BY <1>1, <2>1, <2>2, <3>1, <4>1 DEF RefsMove
      <4>2. CASE w # u \/ d # e
        BY <1>1, <2>1, <2>2, <4>2 DEF RefsMove
      <4> QED BY <4>1, <4>2
    <3> QED BY <3>1, <3>2
  <2> QED BY <2>1, <2>3, <2>4 DEF Honest
<1> QED BY <1>1, <1>2 DEF Softens

\* Memory that shows what is on disc does so when entries have gone.
LEMMA SameValuesHonest ==
  ASSUME NEW s, Good(s), NEW t, Shrinks(s, t), OneName, Honest(s),
         \A w \in DOMAIN t.entries : t.entries[w].elem = s.entries[w].elem
  PROVE  Honest(t)
<1> SUFFICES ASSUME NEW w \in DOMAIN t.entries, NEW d \in Elems, t.entries[w].elem[d].ref > 0
             PROVE  t.entries[w].elem[d].val = OnDisc(t, w, d)
  BY DEF Honest
<1>1. w \in DOMAIN s.entries /\ OnDisc(t, w, d) = OnDisc(s, w, d)
  BY DiscKept DEF Shrinks
<1> QED BY <1>1 DEF Honest

\* Nor does invalidate take anything in.
LEMMA InvalidateSoftens ==
  ASSUME NEW s, Good(s), NEW u \in Urls, NEW t, t = Invalidate(s, u)
  PROVE  Softens(s, t)
<1>1. /\ Shrinks(s, t)
      /\ \A w \in DOMAIN t.entries : t.entries[w].elem = s.entries[w].elem
      /\ Marked(s.entries) => Marked(t.entries)
      /\ t.entriesDirty \/ t = s
  BY InvalidateFacts
<1> QED BY <1>1, SameValuesHonest DEF Softens

\* Nor store_evict.
LEMMA EvictedHonest ==
  ASSUME NEW s, Good(s), NEW t \in Evicted(s), OneName, Honest(s)
  PROVE  Honest(t)
BY EvictedFacts, SameValuesHonest

-----------------------------------------------------------------------------
\* The invariant of the accounts, and the objects of the cache.

Object == [url : Urls \union {None}, ver : Nat, at : Nat, state : {"free", "fetch", "ram", "disc"},
           data : {"none", "own", "loan"}, used : BOOLEAN, fresh : BOOLEAN, cand : Objs \union {None}]

FineObjects(obs) ==
  /\ obs \in [Objs -> Object]
  /\ \A o \in Objs : obs[o].state # "free" => obs[o].url \in Urls /\ obs[o].ver \in Versions

StoreTypes ==
  /\ Good(st)
  /\ saved \in [entries : Tables, used : [Elems -> SUBSET Blocks]] /\ GoodTable(saved.entries)
  /\ \A u \in DOMAIN saved.entries, e \in Elems : saved.entries[u].elem[e].ref = 0
  /\ FineObjects(obj) /\ version \in [Urls -> Nat] /\ kept \in BOOLEAN
  /\ writing \in Objs \union {None} /\ (writing # None => obj[writing].state = "ram")

Phases ==
  /\ phase \in {"up", "finalising", "closing", "down"} /\ maint \in 0 .. 2
  /\ phase = "closing" => maint # 0
  /\ phase \in {"finalising", "down"} => maint = 0
  /\ writing # None => phase = "up" /\ maint = 0
  /\ phase \in {"closing", "down"} => \A o \in Objs : obj[o].state = "free"

BlocksApart == kept => NoShare(st.entries, st.used)

\* What is saved is what the store holds, whenever that is needed.
SavedAs == DOMAIN saved.entries = DOMAIN st.entries /\ SameElements(saved.entries, st.entries)
UsedSaved == \A e \in Elems : st.used[e] \subseteq saved.used[e]
Filed ==
  kept =>
    /\ ~st.entriesDirty => saved.entries = st.entries
    /\ ~st.blocksDirty => UsedSaved
    /\ phase = "closing" /\ maint = 2 => SavedAs
    /\ phase = "down" => SavedAs /\ UsedSaved

Accounting == StoreTypes /\ Phases /\ BlocksApart /\ Filed

MetaFree(s) == \A u \in Urls : RefAt(s, u, "meta") = 0

\* A step that takes nothing new into the store.
Gentle ==
  /\ Softens(st, st') /\ (MetaFree(st) => MetaFree(st'))
  /\ phase \in {"up", "finalising"} /\ maint = 0 /\ writing = None
  /\ writing' = None /\ UNCHANGED <<disc, last>>

\* What LoadData may do to an object and its URL's data.
DataLoaded(s, x, r) ==
         /\ Softens(s, r.st) /\ r.x \in Object
         /\ x.state # "disc" \/ x.data # "none" => r.st = s /\ r.x = x /\ r.ok
         /\ x.state = "disc" /\ x.data = "none" =>
              /\ r.ok => r.x = [x EXCEPT !.data = "loan"]
                         /\ RefsMove(s, r.st, x.url, "data", RefAt(s, x.url, "data") + 1)
              /\ ~r.ok => r.x = x /\ RefsAs(s, r.st)
         /\ \A u \in Urls : RefAt(r.st, u, "meta") = RefAt(s, u, "meta")
         /\ r.x.url = x.url /\ r.x.ver = x.ver /\ r.x.state = x.state /\ r.x.fresh = x.fresh

\* llcache_retrieve_persisted_data takes one loan, or none.
LEMMA LoadDataFacts ==
  ASSUME NEW s, Good(s), NEW x \in Object, x.url \in Urls, NEW r \in LoadData(s, x)
  PROVE  DataLoaded(s, x, r)
<1>1. CASE x.state # "disc" \/ x.data # "none"
  <2>1. r.st = s /\ r.x = x /\ r.ok
    BY <1>1 DEF LoadData
  <2> QED BY <1>1, <2>1, SoftensSelf DEF DataLoaded
<1>2. CASE x.state = "disc" /\ x.data = "none"
  <2>0. "data" \in Elems /\ "meta" \in Elems /\ "data" # "meta"
    BY DEF Elems
  <2>1. PICK f \in Fetch(s, x.url, "data") :
           r = [st |-> f.st, x |-> [x EXCEPT !.data = IF f.val = None THEN "none" ELSE "loan"], ok |-> f.val # None]
    BY <1>2 DEF LoadData
  <2>2. Softens(s, f.st)
    BY <2>0, FetchSoftens
  <2>3. /\ f.val = None => RefsAs(s, f.st)
        /\ f.val # None => RefsMove(s, f.st, x.url, "data", RefAt(s, x.url, "data") + 1)
    BY <2>0, FetchFacts
  <2>4. CASE f.val = None
    <3>1. r.st = f.st /\ ~r.ok /\ r.x = [x EXCEPT !.data = "none"]
      BY <2>1, <2>4
    <3>2. r.x = x
      BY <1>2, <3>1 DEF Object
    <3>3. \A u \in Urls : RefAt(f.st, u, "meta") = RefAt(s, u, "meta")
      BY <2>0, <2>3, <2>4 DEF RefsAs
    <3> QED BY <1>2, <2>2, <2>3, <2>4, <3>1, <3>2, <3>3 DEF DataLoaded
  <2>5. CASE f.val # None
    <3>1. r.st = f.st /\ r.ok /\ r.x = [x EXCEPT !.data = "loan"]
      BY <2>1, <2>5
    <3>2. r.x \in Object /\ r.x.url = x.url /\ r.x.ver = x.ver /\ r.x.state = x.state /\ r.x.fresh = x.fresh
      BY <3>1 DEF Object
    <3>3. \A u \in Urls : RefAt(f.st, u, "meta") = RefAt(s, u, "meta")
      BY <2>0, <2>3, <2>5 DEF RefsMove
    <3> QED BY <1>2, <2>2, <2>3, <2>5, <3>1, <3>2, <3>3 DEF DataLoaded
  <2> QED BY <2>4, <2>5
<1> QED BY <1>1, <1>2

\* The object of a new fetch.
LEMMA NewFetchType ==
  ASSUME NEW u \in Urls, NEW cand \in Objs \union {None}, version \in [Urls -> Nat]
  PROVE  /\ NewFetch(u, cand) \in Object /\ NewFetch(u, cand).url = u
         /\ NewFetch(u, cand).ver = version[u] + 1 /\ NewFetch(u, cand).at = version[u] + 1
         /\ NewFetch(u, cand).state = "fetch" /\ NewFetch(u, cand).data = "none"
         /\ NewFetch(u, cand).cand = cand /\ NewFetch(u, cand).used /\ ~NewFetch(u, cand).fresh
<1>1. version[u] + 1 \in Nat
  OBVIOUS
<1> QED BY <1>1 DEF NewFetch, Free, Object

\* A fetch that starts leaves objects and versions of their types.
LEMMA StartFetchFine ==
  ASSUME NEW u \in Urls, NEW o \in Objs, NEW obs, FineObjects(obs), NEW cand \in Objs \union {None},
         version \in [Urls -> Nat], StartFetch(u, o, obs, cand)
  PROVE  FineObjects(obj') /\ version' \in [Urls -> Nat]
<1>1. NewFetch(u, cand) \in Object /\ NewFetch(u, cand).url = u /\ NewFetch(u, cand).ver = version[u] + 1
  BY NewFetchType
<1>2. obj' = [obs EXCEPT ![o] = NewFetch(u, cand)] /\ version' = [version EXCEPT ![u] = @ + 1]
      /\ version[u] + 1 \in Versions
  BY DEF StartFetch
<1>3. FineObjects(obj')
  BY <1>1, <1>2 DEF FineObjects
<1>4. version' \in [Urls -> Nat]
  BY <1>2
<1> QED BY <1>3, <1>4

\* One object becomes another.
LEMMA UpdateFine ==
  ASSUME NEW obs, FineObjects(obs), NEW o \in Objs, NEW x \in Object, x.state # "free" => x.url \in Urls /\ x.ver \in Versions
  PROVE  FineObjects([obs EXCEPT ![o] = x])
BY DEF FineObjects

\* llcache_object_retrieve_from_cache, for the types and the metadata.
LEMMA UseNewestFacts ==
  ASSUME NEW s, Good(s), NEW u \in Urls, NEW o \in Objs, NEW x \in Object, x.url \in Urls, x.ver \in Versions,
         FineObjects(obj), version \in [Urls -> Nat], UseNewest(u, s, o, x)
  PROVE  /\ Softens(s, st') /\ FineObjects(obj') /\ version' \in [Urls -> Nat]
         /\ \A w \in Urls : RefAt(st', w, "meta") = RefAt(s, w, "meta")
<1>1. PICK r \in LoadData(s, x) :
        /\ st' = r.st
        /\ \/ /\ r.ok /\ IsFresh(x)
              /\ obj' = [obj EXCEPT ![o] = [r.x EXCEPT !.used = TRUE]]
              /\ UNCHANGED version
           \/ /\ r.ok /\ ~IsFresh(x)
              /\ \E p \in FreeSlots \ {o} : StartFetch(u, p, [obj EXCEPT ![o] = r.x], o)
           \/ ~r.ok /\ StartFetch(u, o, obj, None)
  BY DEF UseNewest
<1>2. /\ Softens(s, r.st) /\ r.x \in Object
      /\ \A w \in Urls : RefAt(r.st, w, "meta") = RefAt(s, w, "meta")
      /\ r.x.url = x.url /\ r.x.ver = x.ver
  <2>1. DataLoaded(s, x, r)
    BY <1>1, LoadDataFacts
  <2> QED BY <2>1 DEF DataLoaded
<1>3. CASE obj' = [obj EXCEPT ![o] = [r.x EXCEPT !.used = TRUE]] /\ UNCHANGED version
  <2> DEFINE y == [r.x EXCEPT !.used = TRUE]
  <2>1. y \in Object /\ y.url = x.url /\ y.ver = x.ver
    BY <1>2 DEF Object
  <2> HIDE DEF y
  <2>2. FineObjects([obj EXCEPT ![o] = y])
    BY <2>1, UpdateFine
  <2> QED BY <1>1, <1>2, <1>3, <2>2 DEF y
<1>4. ASSUME NEW p \in FreeSlots \ {o}, StartFetch(u, p, [obj EXCEPT ![o] = r.x], o)
      PROVE  FineObjects(obj') /\ version' \in [Urls -> Nat]
  <2>1. FineObjects([obj EXCEPT ![o] = r.x])
    BY <1>2, UpdateFine
  <2>2. p \in Objs
    BY DEF FreeSlots
  <2> QED BY <1>4, <2>1, <2>2, StartFetchFine
<1>5. CASE StartFetch(u, o, obj, None)
  BY <1>1, <1>2, <1>5, StartFetchFine
<1> QED BY <1>1, <1>2, <1>3, <1>4, <1>5

\* llcache_process_metadata gives back what it has fetched.
LEMMA ProcessedFacts ==
  ASSUME NEW s, Good(s), NEW u \in Urls, NEW r \in Fetch(s, u, "meta"),
         NEW t, t = Processed(u, r)
  PROVE  Softens(s, t) /\ RefsAs(s, t)
<1>0. "meta" \in Elems
  BY DEF Elems
<1>1. Softens(s, r.st) /\ Good(r.st)
  BY <1>0, FetchSoftens, SoftensGood
<1>2. CASE r.val = None
  <2>1. t = r.st
    BY <1>2 DEF Processed
  <2> QED BY <1>0, <1>1, <1>2, <2>1, FetchFacts
<1>3. CASE r.val # None
  <2>1. t = ReleaseElement(r.st, u, "meta")
    BY <1>3 DEF Processed
  <2>2. Softens(r.st, t)
    BY <1>0, <1>1, <2>1, ReleaseSoftens
  <2>3. RefsMove(r.st, t, u, "meta", IF RefAt(r.st, u, "meta") > 0 THEN RefAt(r.st, u, "meta") - 1 ELSE 0)
    BY <1>0, <1>1, <2>1, ReleaseFacts
  <2>4. RefsMove(s, r.st, u, "meta", RefAt(s, u, "meta") + 1)
    BY <1>0, <1>3, FetchFacts
  <2>5. RefAt(s, u, "meta") \in Nat
    <3>1. u \in DOMAIN s.entries => s.entries[u].elem["meta"].ref \in Nat
      BY <1>0, ElementsType DEF Good, GoodTable
    <3> QED BY <3>1 DEF RefAt
  <2>6. RefAt(r.st, u, "meta") = RefAt(s, u, "meta") + 1
    BY <1>0, <2>4 DEF RefsMove
  <2>7. RefsMove(r.st, t, u, "meta", RefAt(s, u, "meta"))
    BY <2>3, <2>5, <2>6
  <2>8. RefsAs(s, t)
    BY <2>4, <2>7 DEF RefsAs, RefsMove
  <2> QED BY <1>1, <2>2, <2>8, SoftensTrans
<1> QED BY <1>2, <1>3

\* The metadata that is taken for that of a URL names a version of it.
LEMMA OwnMetadataFacts ==
  ASSUME NEW s, Good(s), NEW u \in Urls, NEW r \in Fetch(s, u, "meta"), OwnMetadata(u, r.val)
  PROVE  r.val[1] = u /\ r.val[2] \in Versions /\ r.val[2] \in Nat
<1>1. r.val # None /\ r.val[1] = u
  BY DEF OwnMetadata
<1>2. r.val \in ValueFor("meta")
  BY <1>1, FetchFacts DEF Elems
<1>3. r.val \in Urls \X Versions
  BY <1>2 DEF ValueFor, Contents
<1> QED BY <1>1, <1>3, ObjsAssumption

-----------------------------------------------------------------------------
\* The steps of the cache that take nothing new into the store.

MetaAs(s, t) == \A u \in Urls : RefAt(t, u, "meta") = RefAt(s, u, "meta")
MemTyped == FineObjects(obj) /\ version \in [Urls -> Nat]

\* llcache_object_destroy gives back data at most.
LEMMA DestroyedFacts ==
  ASSUME NEW s, Good(s), NEW x, x.url \in Urls, NEW t, t = Destroyed(s, x)
  PROVE  Softens(s, t) /\ MetaAs(s, t)
<1>0. "data" \in Elems /\ "meta" \in Elems /\ "data" # "meta"
  BY DEF Elems
<1>1. CASE x.data = "loan"
  <2>1. t = ReleaseElement(s, x.url, "data")
    BY <1>1 DEF Destroyed
  <2>2. Softens(s, t)
    BY <1>0, <2>1, ReleaseSoftens
  <2>3. RefsMove(s, t, x.url, "data", IF RefAt(s, x.url, "data") > 0 THEN RefAt(s, x.url, "data") - 1 ELSE 0)
    BY <1>0, <2>1, ReleaseFacts
  <2> QED BY <1>0, <2>2, <2>3 DEF RefsMove, MetaAs
<1>2. CASE x.data # "loan"
  <2>1. t = s
    BY <1>2 DEF Destroyed
  <2> QED BY <2>1, SoftensSelf DEF MetaAs
<1> QED BY <1>1, <1>2

\* When a step of the cache is gentle.
LEMMA GentleWhen ==
  ASSUME Turn \/ (phase = "finalising" /\ Phases), Softens(st, st'), MetaAs(st, st'),
         UNCHANGED <<writing, disc, last>>
  PROVE  Gentle
<1>1. MetaFree(st) => MetaFree(st')
  BY DEF MetaAs, MetaFree
<1>2. phase \in {"up", "finalising"} /\ maint = 0 /\ writing = None
  BY DEF Turn, Phases
<1> QED BY <1>1, <1>2 DEF Gentle

\* A retrieval takes nothing new into the store, with an object in memory
LEMMA RetrieveKnownGentle ==
  ASSUME Accounting, NEW u \in Urls, RetrieveKnown(u)
  PROVE  Gentle /\ MemTyped'
<1>1. PICK o \in Newest(u) : UseNewest(u, st, o, obj[o])
  BY DEF RetrieveKnown
<1>2. o \in Objs /\ obj[o].state # "free" /\ obj[o].url = u
  BY <1>1 DEF Newest, Listed
<1>3. Good(st) /\ FineObjects(obj) /\ version \in [Urls -> Nat]
  BY DEF Accounting, StoreTypes
<1>4. obj[o] \in Object /\ obj[o].ver \in Versions
  BY <1>2, <1>3 DEF FineObjects
<1>5. /\ Softens(st, st') /\ FineObjects(obj') /\ version' \in [Urls -> Nat]
      /\ \A w \in Urls : RefAt(st', w, "meta") = RefAt(st, w, "meta")
  BY <1>1, <1>2, <1>3, <1>4, UseNewestFacts
<1>6. Turn /\ UNCHANGED <<writing, disc, last>>
  BY DEF RetrieveKnown
<1>7. Gentle
  BY <1>5, <1>6, GentleWhen DEF MetaAs
<1> QED BY <1>5, <1>7 DEF MemTyped

\* The object that is made of stored metadata.
LEMMA FoundType ==
  ASSUME NEW u \in Urls, NEW v, v \in Versions, v \in Nat, NEW f \in BOOLEAN,
         NEW x, x = [Free EXCEPT !.url = u, !.ver = v, !.at = v, !.state = "disc", !.fresh = f]
  PROVE  /\ x \in Object /\ x.url = u /\ x.ver = v /\ x.at = v /\ x.state = "disc" /\ x.data = "none"
         /\ x.fresh = f /\ ~x.used /\ x.cand = None
BY DEF Object, Free

\* or without.
LEMMA RetrieveUnknownGentle ==
  ASSUME Accounting, NEW u \in Urls, RetrieveUnknown(u)
  PROVE  Gentle /\ MemTyped'
<1>1. PICK o \in FreeSlots, r \in Fetch(st, u, "meta"), f \in BOOLEAN :
        \/ /\ OwnMetadata(u, r.val)
           /\ UseNewest(u, Processed(u, r), o,
                 [Free EXCEPT !.url = u, !.ver = r.val[2], !.at = r.val[2],
                              !.state = "disc", !.fresh = f])
        \/ /\ ~OwnMetadata(u, r.val)
           /\ st' = Processed(u, r)
           /\ StartFetch(u, o, obj, None)
  BY DEF RetrieveUnknown
<1>2. o \in Objs /\ Good(st) /\ FineObjects(obj) /\ version \in [Urls -> Nat]
  BY <1>1 DEF FreeSlots, Accounting, StoreTypes
<1>3. Turn /\ UNCHANGED <<writing, disc, last>>
  BY DEF RetrieveUnknown
<1> DEFINE s == Processed(u, r)
<1>4. Softens(st, s) /\ RefsAs(st, s) /\ Good(s)
  <2>1. Softens(st, s) /\ RefsAs(st, s)
    BY <1>1, <1>2, ProcessedFacts
  <2> QED BY <2>1, SoftensGood
<1> HIDE DEF s
<1>5. MetaAs(st, s)
  BY <1>4 DEF RefsAs, MetaAs, Elems
<1>6. CASE OwnMetadata(u, r.val) /\ UseNewest(u, s, o, [Free EXCEPT !.url = u, !.ver = r.val[2], !.at = r.val[2],
                                                                   !.state = "disc", !.fresh = f])
  <2> DEFINE x == [Free EXCEPT !.url = u, !.ver = r.val[2], !.at = r.val[2], !.state = "disc", !.fresh = f]
  <2>1. r.val[2] \in Versions /\ r.val[2] \in Nat
    BY <1>1, <1>2, <1>6, OwnMetadataFacts
  <2>2. x \in Object /\ x.url = u /\ x.ver = r.val[2]
    BY <1>1, <2>1 DEF Object, Free
  <2>3. UseNewest(u, s, o, x)
    BY <1>6
  <2> HIDE DEF x
  <2>4. /\ Softens(s, st') /\ FineObjects(obj') /\ version' \in [Urls -> Nat]
        /\ \A w \in Urls : RefAt(st', w, "meta") = RefAt(s, w, "meta")
    BY <1>2, <1>4, <2>1, <2>2, <2>3, UseNewestFacts
  <2>5. Softens(st, st') /\ MetaAs(st, st')
    BY <1>4, <1>5, <2>4, SoftensTrans DEF MetaAs
  <2> QED BY <1>3, <2>4, <2>5, GentleWhen DEF MemTyped
<1>7. CASE st' = s /\ StartFetch(u, o, obj, None)
  <2>1. FineObjects(obj') /\ version' \in [Urls -> Nat]
    BY <1>2, <1>7, StartFetchFine
  <2>2. Softens(st, st') /\ MetaAs(st, st')
    BY <1>4, <1>5, <1>7
  <2> QED BY <1>3, <2>1, <2>2, GentleWhen DEF MemTyped
<1> QED BY <1>1, <1>6, <1>7 DEF s

\* The actions that change the objects alone.
LEMMA ObjectsAloneGentle ==
  ASSUME Accounting, NEW o \in Objs,
         FetchFinishes(o) \/ FetchNotModified(o) \/ FetchFails(o) \/ Leave(o) \/ Expire(o)
         \/ DropBacked(o) \/ DropFresh(o)
  PROVE  Gentle /\ MemTyped'
<1>1. Good(st) /\ FineObjects(obj) /\ version \in [Urls -> Nat]
  BY DEF Accounting, StoreTypes
<1>2. Turn /\ UNCHANGED <<st, writing, version, disc, last>>
  BY DEF FetchFinishes, FetchNotModified, FetchFails, Leave, Expire, DropBacked, DropFresh
<1>3. Gentle
  <2>1. Softens(st, st') /\ MetaAs(st, st')
    BY <1>1, <1>2, SoftensSelf DEF MetaAs
  <2> QED BY <1>2, <2>1, GentleWhen
<1>4. obj \in [Objs -> Object] /\ obj[o] \in Object
  BY <1>1 DEF FineObjects
<1>5. FineObjects(obj')
  <2>1. CASE FetchFinishes(o)
    <3>1. PICK f \in BOOLEAN : obj' = [obj EXCEPT ![o] = [@ EXCEPT !.state = "ram", !.data = "own", !.fresh = f, !.cand = None]]
      BY <2>1 DEF FetchFinishes
    <3> DEFINE x == [obj[o] EXCEPT !.state = "ram", !.data = "own", !.fresh = f, !.cand = None]
    <3>2. x \in Object /\ x.url = obj[o].url /\ x.ver = obj[o].ver
      BY <1>4 DEF Object
    <3>3. obj[o].state # "free"
      BY <2>1 DEF FetchFinishes
    <3>4. obj[o].url \in Urls /\ obj[o].ver \in Versions
      BY <1>1, <3>3 DEF FineObjects
    <3>5. obj' = [obj EXCEPT ![o] = x]
      BY <3>1
    <3> HIDE DEF x
    <3> QED BY <1>1, <3>2, <3>4, <3>5, UpdateFine
  <2>2. CASE FetchNotModified(o)
    <3> DEFINE x == [obj[o] EXCEPT !.state = "ram", !.at = 0, !.used = FALSE, !.cand = None]
               y(p) == [obj[p] EXCEPT !.fresh = TRUE, !.at = obj[o].at, !.used = @ \/ obj[o].used]
    <3>1. obj' = [p \in Objs |-> IF p = o THEN x ELSE IF p = obj[o].cand THEN y(p) ELSE obj[p]]
      BY <2>2 DEF FetchNotModified
    <3>2. x \in Object /\ x.url = obj[o].url /\ x.ver = obj[o].ver
      BY <1>4 DEF Object
    <3>3. obj[o].url \in Urls /\ obj[o].ver \in Versions
      BY <1>1, <2>2 DEF FineObjects, FetchNotModified
    <3>4. \A p \in Objs : y(p) \in Object /\ y(p).url = obj[p].url /\ y(p).ver = obj[p].ver /\ y(p).state = obj[p].state
      <4> SUFFICES ASSUME NEW p \in Objs
                   PROVE  y(p) \in Object /\ y(p).url = obj[p].url /\ y(p).ver = obj[p].ver
                          /\ y(p).state = obj[p].state
        OBVIOUS
      <4>1. obj[p] \in Object /\ obj[o].at \in Nat /\ obj[o].used \in BOOLEAN
        BY <1>4 DEF Object
      <4> QED BY <4>1 DEF Object
    <3> HIDE DEF x, y
    <3> QED BY <1>1, <3>1, <3>2, <3>3, <3>4 DEF FineObjects
  <2>3. CASE FetchFails(o)
    <3> DEFINE x == [obj[o] EXCEPT !.state = "ram", !.at = 0, !.cand = None]
    <3>1. obj' = [obj EXCEPT ![o] = x] /\ obj[o].state # "free"
      BY <2>3 DEF FetchFails
    <3>2. x \in Object /\ x.url = obj[o].url /\ x.ver = obj[o].ver
      BY <1>4 DEF Object
    <3>3. obj[o].url \in Urls /\ obj[o].ver \in Versions
      BY <1>1, <3>1 DEF FineObjects
    <3> HIDE DEF x
    <3> QED BY <1>1, <3>1, <3>2, <3>3, UpdateFine
  <2>4. CASE Leave(o)
    <3> DEFINE x == [obj[o] EXCEPT !.used = FALSE]
    <3>1. obj' = [obj EXCEPT ![o] = x]
      BY <2>4 DEF Leave
    <3>2. x \in Object /\ x.url = obj[o].url /\ x.ver = obj[o].ver /\ x.state = obj[o].state
      BY <1>4 DEF Object
    <3>3. obj[o].state # "free" => obj[o].url \in Urls /\ obj[o].ver \in Versions
      BY <1>1 DEF FineObjects
    <3> HIDE DEF x
    <3> QED BY <1>1, <3>1, <3>2, <3>3, UpdateFine
  <2>5. CASE Expire(o)
    <3> DEFINE x == [obj[o] EXCEPT !.fresh = FALSE]
    <3>1. obj' = [obj EXCEPT ![o] = x]
      BY <2>5 DEF Expire
    <3>2. x \in Object /\ x.url = obj[o].url /\ x.ver = obj[o].ver /\ x.state = obj[o].state
      BY <1>4 DEF Object
    <3>3. obj[o].state # "free" => obj[o].url \in Urls /\ obj[o].ver \in Versions
      BY <1>1 DEF FineObjects
    <3> HIDE DEF x
    <3> QED BY <1>1, <3>1, <3>2, <3>3, UpdateFine
  <2>6. CASE DropBacked(o) \/ DropFresh(o)
    <3>1. obj' = [obj EXCEPT ![o] = Free]
      BY <2>6 DEF DropBacked, DropFresh
    <3>2. Free \in Object /\ Free.state = "free"
      BY DEF Free, Object
    <3> HIDE DEF Free
    <3> QED BY <1>1, <3>1, <3>2, UpdateFine
  <2> QED BY <2>1, <2>2, <2>3, <2>4, <2>5, <2>6
<1> QED BY <1>2, <1>3, <1>5, <1>1 DEF MemTyped

\* An object is dropped.
LEMMA DroppingFine ==
  ASSUME NEW o \in Objs, FineObjects(obj) PROVE FineObjects([obj EXCEPT ![o] = Free])
<1>1. Free \in Object /\ Free.state = "free"
  BY DEF Free, Object
<1> QED BY <1>1, UpdateFine

\* The turns of llcache_clean take nothing new into the store.
LEMMA DiscardStaleGentle ==
  ASSUME Accounting, NEW o \in Objs, DiscardStale(o)
  PROVE  Gentle /\ MemTyped'
<1> DEFINE x == obj[o]
           s == IF x.state = "disc" THEN Invalidate(st, x.url) ELSE st
<1>1. Good(st) /\ FineObjects(obj) /\ version \in [Urls -> Nat]
  BY DEF Accounting, StoreTypes
<1>2. Turn /\ st' = Destroyed(s, x) /\ obj' = [obj EXCEPT ![o] = Free]
      /\ UNCHANGED <<writing, version, disc, last>>
  BY DEF DiscardStale
<1>3. x.url \in Urls
  <2>1. x.state # "free"
    BY DEF DiscardStale, Stale, Idle
  <2> QED BY <1>1, <2>1 DEF FineObjects
<1>4. Softens(st, s) /\ MetaAs(st, s)
  <2>1. CASE x.state = "disc"
    <3>1. s = Invalidate(st, x.url)
      BY <2>1
    <3> HIDE DEF s, x
    <3>2. Softens(st, s)
      BY <1>1, <1>3, <3>1, InvalidateSoftens
    <3>3. RefsAs(st, s)
      BY <1>1, <1>3, <3>1, InvalidateFacts
    <3> QED BY <3>2, <3>3 DEF RefsAs, MetaAs, Elems
  <2>2. CASE x.state # "disc"
    <3>1. s = st
      BY <2>2
    <3> HIDE DEF s, x
    <3> QED BY <1>1, <3>1, SoftensSelf DEF MetaAs
  <2> QED BY <2>1, <2>2
<1> HIDE DEF s, x
<1>5. Softens(s, st') /\ MetaAs(s, st')
  BY <1>2, <1>3, <1>4, SoftensGood, DestroyedFacts
<1>6. Softens(st, st') /\ MetaAs(st, st')
  BY <1>4, <1>5, SoftensTrans DEF MetaAs
<1> QED BY <1>1, <1>2, <1>6, GentleWhen, DroppingFine DEF MemTyped

\* The second of them.
LEMMA ReleaseDataGentle ==
  ASSUME Accounting, NEW o \in Objs, ReleaseData(o)
  PROVE  Gentle /\ MemTyped'
<1>0. "data" \in Elems /\ "meta" \in Elems /\ "data" # "meta"
  BY DEF Elems
<1>1. Good(st) /\ FineObjects(obj) /\ version \in [Urls -> Nat] /\ obj[o] \in Object
  BY DEF Accounting, StoreTypes, FineObjects
<1>2. /\ Turn /\ obj[o].state = "disc" /\ st' = ReleaseElement(st, obj[o].url, "data")
      /\ obj' = [obj EXCEPT ![o].data = "none"] /\ UNCHANGED <<writing, version, disc, last>>
  BY DEF ReleaseData
<1>3. obj[o].url \in Urls /\ obj[o].ver \in Versions
  BY <1>1, <1>2 DEF FineObjects
<1>4. Softens(st, st')
  BY <1>0, <1>1, <1>2, <1>3, ReleaseSoftens
<1>5. MetaAs(st, st')
  <2>1. RefsMove(st, st', obj[o].url, "data", IF RefAt(st, obj[o].url, "data") > 0 THEN RefAt(st, obj[o].url, "data") - 1 ELSE 0)
    BY <1>0, <1>1, <1>2, <1>3, ReleaseFacts
  <2> QED BY <1>0, <2>1 DEF RefsMove, MetaAs
<1>6. FineObjects(obj')
  <2> DEFINE x == [obj[o] EXCEPT !.data = "none"]
  <2>1. obj' = [obj EXCEPT ![o] = x]
    BY <1>2
  <2>2. x \in Object /\ x.url = obj[o].url /\ x.ver = obj[o].ver
    BY <1>1 DEF Object
  <2> HIDE DEF x
  <2> QED BY <1>1, <1>3, <2>1, <2>2, UpdateFine
<1> QED BY <1>1, <1>2, <1>4, <1>5, <1>6, GentleWhen DEF MemTyped

\* Nor does the end of the cache.
LEMMA DestroyCachedGentle ==
  ASSUME Accounting, NEW o \in Objs, DestroyCached(o)
  PROVE  Gentle /\ MemTyped'
<1>1. Good(st) /\ FineObjects(obj) /\ version \in [Urls -> Nat] /\ Phases
  BY DEF Accounting, StoreTypes
<1>2. /\ phase = "finalising" /\ obj[o].state # "free" /\ st' = Destroyed(st, obj[o])
      /\ obj' = [obj EXCEPT ![o] = Free] /\ UNCHANGED <<writing, version, disc, last>>
  BY DEF DestroyCached
<1>3. obj[o].url \in Urls
  BY <1>1, <1>2 DEF FineObjects
<1>4. Softens(st, st') /\ MetaAs(st, st')
  BY <1>1, <1>2, <1>3, DestroyedFacts
<1> QED BY <1>1, <1>2, <1>4, GentleWhen, DroppingFine DEF MemTyped

\* What a step is.
LEMMA GentleSteps ==
  ASSUME Accounting, StoreNext
  PROVE  \/ Gentle /\ MemTyped'
         \/ \E o \in Objs : PersistData(o) \/ PersistMeta(o)
         \/ Maintenance \/ EntriesReplaced \/ BlocksReplaced
         \/ Finalise \/ StoreFinalised \/ Kill \/ Start
<1>1. CASE \E u \in Urls : RetrieveKnown(u) \/ RetrieveUnknown(u)
  BY <1>1, RetrieveKnownGentle, RetrieveUnknownGentle
<1>2. ASSUME NEW o \in Objs,
         \/ FetchFinishes(o) \/ FetchNotModified(o) \/ FetchFails(o)
         \/ Leave(o) \/ Expire(o) \/ DropBacked(o) \/ DropFresh(o)
      PROVE Gentle /\ MemTyped'
  BY <1>2, ObjectsAloneGentle
<1>3. ASSUME NEW o \in Objs, DiscardStale(o) \/ ReleaseData(o) \/ DestroyCached(o)
      PROVE Gentle /\ MemTyped'
  BY <1>3, DiscardStaleGentle, ReleaseDataGentle, DestroyCachedGentle
<1> QED BY <1>1, <1>2, <1>3 DEF StoreNext

-----------------------------------------------------------------------------
\* The two stores of write_backing_store.

Accounted(s, t) ==
  /\ Good(t)
  /\ NoShare(s.entries, s.used) => NoShare(t.entries, t.used)
  /\ s.entriesDirty => t.entriesDirty
  /\ s.blocksDirty => t.blocksDirty
  /\ ~t.blocksDirty => \A e \in Elems : t.used[e] \subseteq s.used[e]
  /\ \/ t.entriesDirty \/ t.entries = s.entries
     \/ \E u \in DOMAIN s.entries : OnLoan(s.entries[u])

\* Steps that take nothing in keep the accounts of a store,
LEMMA SoftensAccounted ==
  ASSUME NEW s, NEW t, Softens(s, t) PROVE Accounted(s, t)
BY DEF Softens, Shrinks, Accounted

\* also after a step that does,
LEMMA AccountedSoftens ==
  ASSUME NEW s, NEW m, NEW t, Accounted(s, m), Softens(m, t) PROVE Accounted(s, t)
<1>1. /\ Good(t) /\ (NoShare(m.entries, m.used) => NoShare(t.entries, t.used))
      /\ (m.entriesDirty => t.entriesDirty) /\ t.blocksDirty = m.blocksDirty
      /\ \A e \in Elems : t.used[e] \subseteq m.used[e]
      /\ t.entriesDirty \/ t.entries = m.entries
  BY DEF Softens, Shrinks
<1>2. ~t.blocksDirty => \A e \in Elems : t.used[e] \subseteq s.used[e]
  BY <1>1 DEF Accounted
<1> QED BY <1>1, <1>2 DEF Accounted

\* and so does store.
LEMMA StoreAccounted ==
  ASSUME NEW s, Good(s), NEW u \in Urls, NEW e \in Elems, NEW c \in Contents, c[1] = u,
         NEW r \in Store(s, u, e, c)
  PROVE  Accounted(s, r.st)
<1>1. PICK ev \in Evicted(s) :
        /\ Good(ev) /\ Shrinks(s, ev) /\ RefsAs(s, ev)
        /\ \/ ~r.ok /\ r.st = ev /\ RefAt(s, u, e) > 0
           \/ ~r.ok /\ "write" \in Faults /\ RefAt(s, u, e) = 0
              /\ Good(r.st) /\ IsSet(ev, r.st, u, e, c)
           \/ r.ok /\ RefAt(s, u, e) = 0 /\ IsPut(ev, r.st, u, e, c)
  BY StoreCases
<1>2. /\ (NoShare(s.entries, s.used) => NoShare(ev.entries, ev.used))
      /\ (s.entriesDirty => ev.entriesDirty) /\ ev.blocksDirty = s.blocksDirty
      /\ \A d \in Elems : ev.used[d] \subseteq s.used[d]
  BY <1>1 DEF Shrinks
<1>3. CASE r.st = ev /\ RefAt(s, u, e) > 0
  <2>1. u \in DOMAIN s.entries /\ OnLoan(s.entries[u])
    BY <1>3 DEF RefAt, OnLoan
  <2> QED BY <1>1, <1>2, <1>3, <2>1 DEF Accounted
<1>4. CASE Good(r.st) /\ IsSet(ev, r.st, u, e, c)
  <2>1. NoShare(ev.entries, ev.used) => NoShare(r.st.entries, r.st.used)
    BY <1>1, <1>4, SetKeepsBlocksApart
  <2>2. /\ r.st.entriesDirty /\ (ev.blocksDirty => r.st.blocksDirty)
        /\ ~r.st.blocksDirty => \A d \in Elems : r.st.used[d] \subseteq ev.used[d]
    BY <1>4 DEF IsSet
  <2>3. ~r.st.blocksDirty => \A d \in Elems : r.st.used[d] \subseteq s.used[d]
    BY <1>2, <2>2
  <2> QED BY <1>2, <1>4, <2>1, <2>2, <2>3 DEF Accounted
<1> QED BY <1>1, <1>3, <1>4 DEF IsPut

\* What then holds of the whole.
LEMMA AccountedKeeps ==
  ASSUME Accounting, Accounted(st, st'), phase \in {"up", "finalising"}, maint = 0,
         UNCHANGED disc
  PROVE  Good(st)' /\ BlocksApart' /\ Filed'
<1>1. Good(st)'
  BY DEF Accounted
<1>2. UNCHANGED <<saved, maint, phase, starts, kept>>
  BY DEF disc
<1>3. BlocksApart'
  BY <1>2 DEF Accounted, Accounting, BlocksApart
<1>4. Filed'
  <2> SUFFICES ASSUME kept
               PROVE  /\ ~st'.entriesDirty => saved.entries = st'.entries
                      /\ ~st'.blocksDirty => \A e \in Elems : st'.used[e] \subseteq saved.used[e]
    BY <1>2 DEF Filed, UsedSaved
  <2>1. ~st'.entriesDirty => saved.entries = st'.entries
    <3> SUFFICES ASSUME ~st'.entriesDirty PROVE saved.entries = st'.entries
      OBVIOUS
    <3>1. saved.entries = st.entries
      BY DEF Accounted, Accounting, Filed
    <3>2. \A u \in DOMAIN st.entries : ~OnLoan(st.entries[u])
      BY <3>1 DEF Accounting, StoreTypes, OnLoan
    <3> QED BY <3>1, <3>2 DEF Accounted
  <2>2. ~st'.blocksDirty => \A e \in Elems : st'.used[e] \subseteq saved.used[e]
    <3> SUFFICES ASSUME ~st'.blocksDirty, NEW e \in Elems PROVE st'.used[e] \subseteq saved.used[e]
      OBVIOUS
    <3>1. ~st.blocksDirty /\ st'.used[e] \subseteq st.used[e]
      BY DEF Accounted
    <3> QED BY <3>1 DEF Accounting, Filed, UsedSaved
  <2> QED BY <2>1, <2>2
<1> QED BY <1>1, <1>3, <1>4

\* What an object holds can be stored.
LEMMA ContentType ==
  ASSUME FineObjects(obj), NEW o \in Objs, obj[o].state # "free"
  PROVE  Content(o) \in Contents /\ Content(o)[1] = obj[o].url /\ obj[o].url \in Urls /\ Content(o) # None
<1>1. obj[o].url \in Urls /\ obj[o].ver \in Versions
  BY DEF FineObjects
<1>2. Content(o) \in Contents /\ Content(o)[1] = obj[o].url
  BY <1>1 DEF Content, Contents
<1> QED BY <1>1, <1>2, StoreAssumption

\* The first store of write_backing_store.
LEMMA PersistDataFacts ==
  ASSUME Accounting, NEW o \in Objs, PersistData(o)
  PROVE  /\ Accounted(st, st') /\ UNCHANGED <<obj, version, disc>>
         /\ phase = "up" /\ maint = 0 /\ writing' \in {o, None} /\ obj[o].state = "ram"
<1>1. Good(st) /\ FineObjects(obj)
  BY DEF Accounting, StoreTypes
<1>2. obj[o].state = "ram" /\ phase = "up" /\ maint = 0 /\ UNCHANGED <<obj, version, disc>>
  BY DEF PersistData, Persistable, Turn
<1>3. PICK r \in Store(st, obj[o].url, "data", Content(o)) : st' = r.st /\ writing' = IF r.ok THEN o ELSE None
  BY DEF PersistData
<1>4. Accounted(st, st')
  <2>1. obj[o].state # "free" /\ "data" \in Elems
    BY <1>2 DEF Elems
  <2>2. Content(o) \in Contents /\ Content(o)[1] = obj[o].url /\ obj[o].url \in Urls
    BY <1>1, <2>1, ContentType
  <2> QED BY <1>1, <1>3, <2>1, <2>2, StoreAccounted
<1> QED BY <1>2, <1>3, <1>4

\* The second.
LEMMA PersistMetaFacts ==
  ASSUME Accounting, NEW o \in Objs, PersistMeta(o)
  PROVE  /\ Accounted(st, st') /\ UNCHANGED <<version, disc>>
         /\ obj' \in {obj, OnDiscNow(o)}
         /\ phase = "up" /\ maint = 0 /\ writing' = None /\ obj[o].state = "ram"
<1>1. Good(st) /\ FineObjects(obj)
  BY DEF Accounting, StoreTypes
<1>2. writing = o /\ writing' = None /\ UNCHANGED <<version, disc>>
  BY DEF PersistMeta
<1>3. obj[o].state = "ram" /\ phase = "up" /\ maint = 0
  <2>1. writing # None
    BY <1>2, ObjsAssumption
  <2> QED BY <1>2, <2>1 DEF Accounting, StoreTypes, Phases
<1>4. PICK r \in MetaStores(o) :
         IF r.ok
         THEN st' = r.st /\ obj' = OnDiscNow(o)
         ELSE st' = Invalidate(r.st, obj[o].url) /\ UNCHANGED obj
  BY DEF PersistMeta
<1>5. Content(o) \in Contents /\ Content(o)[1] = obj[o].url /\ obj[o].url \in Urls /\ "meta" \in Elems
  BY <1>1, <1>3, ContentType DEF Elems
<1>6. Accounted(st, r.st)
  <2>1. CASE r.st = st
    BY <1>1, <2>1, SoftensSelf, SoftensAccounted
  <2>2. CASE \E q \in Store(st, obj[o].url, "meta", Content(o)) : r.st = ReleaseElement(q.st, obj[o].url, "meta")
    <3>1. PICK q \in Store(st, obj[o].url, "meta", Content(o)) : r.st = ReleaseElement(q.st, obj[o].url, "meta")
      BY <2>2
    <3>2. Accounted(st, q.st)
      BY <1>1, <1>5, <3>1, StoreAccounted
    <3>3. Softens(q.st, r.st)
      BY <1>5, <3>1, <3>2, ReleaseSoftens DEF Accounted
    <3> QED BY <3>2, <3>3, AccountedSoftens
  <2> QED BY <1>4, <2>1, <2>2 DEF MetaStores
<1>7. Accounted(st, st')
  <2>1. CASE r.ok
    BY <1>4, <1>6, <2>1
  <2>2. CASE ~r.ok
    <3>1. Softens(r.st, st')
      BY <1>4, <1>5, <1>6, <2>2, InvalidateSoftens DEF Accounted
    <3> QED BY <1>6, <3>1, AccountedSoftens
  <2> QED BY <2>1, <2>2
<1> QED BY <1>2, <1>3, <1>4, <1>7

\* The object that was written.
LEMMA OnDiscNowFine ==
  ASSUME FineObjects(obj), NEW o \in Objs, obj[o].state = "ram"
  PROVE  FineObjects(OnDiscNow(o))
<1> DEFINE x == [obj[o] EXCEPT !.state = "disc", !.data = "loan"]
<1>1. obj[o] \in Object /\ obj[o].url \in Urls /\ obj[o].ver \in Versions
  BY DEF FineObjects
<1>2. x \in Object /\ x.url = obj[o].url /\ x.ver = obj[o].ver
  BY <1>1 DEF Object
<1>3. OnDiscNow(o) = [obj EXCEPT ![o] = x]
  BY DEF OnDiscNow
<1> HIDE DEF x
<1>4. FineObjects([obj EXCEPT ![o] = x])
  BY <1>1, <1>2, UpdateFine
<1> QED BY <1>3, <1>4

-----------------------------------------------------------------------------
\* The control files, the start and the end; the accounts stay exact.

\* A store that was never used has no entry.
LEMMA EmptyTable ==
  /\ FreshStore.entries \in Tables /\ DOMAIN FreshStore.entries = {} /\ GoodTable(FreshStore.entries)
  /\ TotalOf(FreshStore.entries, {}) = 0
<1>1. FreshStore.entries = <<>>
  BY DEF FreshStore
<1>2. DOMAIN << >> = {}
  OBVIOUS
<1>3. << >> \in [{} -> EntryType]
  OBVIOUS
<1>4. FreshStore.entries \in Tables /\ DOMAIN FreshStore.entries = {}
  BY <1>1, <1>2, <1>3, TableMade
<1>5. GoodTable(FreshStore.entries)
  BY <1>4, FS_EmptySet DEF GoodTable, HeldHasValue, MetaFits
<1> QED BY <1>4, <1>5, TotalOfNone

\* It is a store.
LEMMA FreshStoreType == FreshStore \in Stores
<1>1. FreshStore.entries \in Tables
  BY EmptyTable
<1>2. FreshStore = [entries |-> FreshStore.entries, used |-> FreshStore.used, total |-> 0, entriesDirty |-> FALSE,
                    blocksDirty |-> FALSE, timer |-> FALSE, blocks |-> FreshStore.blocks, files |-> FreshStore.files]
  BY DEF FreshStore
<1>3. FreshStore.used \in [Elems -> SUBSET Blocks]
  BY DEF FreshStore
<1>4. FreshStore.blocks \in [Elems -> [Blocks -> Stored]]
  BY DEF FreshStore, Stored
<1>5. FreshStore.files \in [Elems -> [Range(Hash) -> Stored]]
  BY DEF FreshStore, NoFiles, Stored
<1> HIDE DEF FreshStore
<1>6. \A a \in Tables, b \in [Elems -> SUBSET Blocks], c \in [Elems -> [Blocks -> Stored]],
         d \in [Elems -> [Range(Hash) -> Stored]] :
           [entries |-> a, used |-> b, total |-> 0, entriesDirty |-> FALSE,
            blocksDirty |-> FALSE, timer |-> FALSE, blocks |-> c, files |-> d] \in Stores
  BY DEF Stores
<1> DEFINE a == FreshStore.entries
           b == FreshStore.used
           c == FreshStore.blocks
           d == FreshStore.files
<1>7. /\ a \in Tables /\ b \in [Elems -> SUBSET Blocks] /\ c \in [Elems -> [Blocks -> Stored]]
      /\ d \in [Elems -> [Range(Hash) -> Stored]]
      /\ FreshStore = [entries |-> a, used |-> b, total |-> 0, entriesDirty |-> FALSE,
                       blocksDirty |-> FALSE, timer |-> FALSE, blocks |-> c, files |-> d]
  BY <1>1, <1>2, <1>3, <1>4, <1>5
<1> HIDE DEF a, b, c, d
<1> QED BY <1>6, <1>7

\* The accounts hold at first.
LEMMA AccountingInit ==
  ASSUME StoreInit PROVE Accounting
<1>1. st = FreshStore /\ saved = NoControlFiles /\ maint = 0 /\ phase = "up" /\ writing = None /\ kept = TRUE
      /\ obj = [o \in Objs |-> Free] /\ version = [u \in Urls |-> 0]
  BY DEF StoreInit
<1>2. Good(st) /\ st.entries = FreshStore.entries /\ DOMAIN st.entries = {}
  <2>1. FreshStore.total = 0
    BY DEF FreshStore
  <2> QED BY <1>1, <2>1, EmptyTable, FreshStoreType DEF Good
<1>3. /\ saved.entries = FreshStore.entries /\ saved.used = FreshStore.used
      /\ saved \in [entries : Tables, used : [Elems -> SUBSET Blocks]]
  <2>1. FreshStore.used \in [Elems -> SUBSET Blocks] /\ FreshStore.entries \in Tables
    BY EmptyTable, FreshStoreType DEF Stores
  <2> QED BY <1>1, <2>1 DEF NoControlFiles
<1>4. FineObjects(obj)
  <2>1. Free \in Object /\ Free.state = "free"
    BY DEF Free, Object
  <2> HIDE DEF Free
  <2> QED BY <1>1, <2>1 DEF FineObjects
<1>5. StoreTypes
  BY <1>1, <1>2, <1>3, <1>4, EmptyTable DEF StoreTypes
<1>6. Phases
  BY <1>1 DEF Phases
<1>7. BlocksApart
  BY <1>2 DEF BlocksApart, NoShare
<1>8. Filed
  BY <1>1, <1>2, <1>3 DEF Filed, UsedSaved
<1> QED BY <1>5, <1>6, <1>7, <1>8 DEF Accounting

\* The control file of the entries is removed before it is replaced.
LEMMA EmptySaved ==
  ASSUME saved \in [entries : Tables, used : [Elems -> SUBSET Blocks]], GoodTable(saved.entries),
         \A u \in DOMAIN saved.entries, e \in Elems : saved.entries[u].elem[e].ref = 0,
         NEW s, ControlFilesBegin(s)
  PROVE  /\ saved' \in [entries : Tables, used : [Elems -> SUBSET Blocks]] /\ GoodTable(saved'.entries)
         /\ \A u \in DOMAIN saved'.entries, e \in Elems : saved'.entries[u].elem[e].ref = 0
         /\ maint' = 1 /\ saved'.used = saved.used /\ (~s.entriesDirty => saved' = saved)
<1>1. maint' = 1 /\ saved' = IF s.entriesDirty THEN [saved EXCEPT !.entries = NoControlFiles.entries] ELSE saved
  BY DEF ControlFilesBegin
<1>2. CASE ~s.entriesDirty
  BY <1>1, <1>2
<1>3. CASE s.entriesDirty
  <2>1. NoControlFiles.entries \in Tables /\ GoodTable(NoControlFiles.entries)
        /\ DOMAIN NoControlFiles.entries = {}
    BY EmptyTable DEF NoControlFiles
  <2> HIDE DEF NoControlFiles
  <2>2. saved'.entries = NoControlFiles.entries /\ saved'.used = saved.used
        /\ saved' \in [entries : Tables, used : [Elems -> SUBSET Blocks]]
    BY <1>1, <1>3, <2>1
  <2> QED BY <1>1, <1>3, <2>1, <2>2
<1> QED BY <1>2, <1>3

\* The timer is no part of what the store holds.
LEMMA TimerSoftens ==
  ASSUME NEW s, Good(s), NEW t, t = [s EXCEPT !.timer = FALSE]
  PROVE  /\ Softens(s, t) /\ t.entries = s.entries /\ t.entriesDirty = s.entriesDirty
         /\ t.blocksDirty = s.blocksDirty
         /\ t.used = s.used /\ t.files = s.files
<1>1. s \in Stores
  BY DEF Good
<1>2. /\ t \in Stores /\ t.entries = s.entries /\ t.entriesDirty = s.entriesDirty
      /\ t.blocksDirty = s.blocksDirty
      /\ t.used = s.used /\ t.blocks = s.blocks /\ t.files = s.files /\ t.total = s.total
  BY <1>1 DEF Stores
<1>3. Good(t)
  BY <1>2 DEF Good
<1>4. SameElements(t.entries, s.entries)
  BY <1>2 DEF SameElements
<1>5. Shrinks(s, t)
  BY <1>2, <1>3, <1>4 DEF Shrinks
<1>6. Honest(s) => Honest(t)
  <2>1. \A w \in DOMAIN s.entries, d \in Elems : OnDisc(t, w, d) = OnDisc(s, w, d)
    BY <1>2 DEF OnDisc
  <2> SUFFICES ASSUME Honest(s), NEW w \in DOMAIN t.entries, NEW d \in Elems, t.entries[w].elem[d].ref > 0
               PROVE  t.entries[w].elem[d].val = OnDisc(t, w, d)
    BY DEF Honest
  <2>2. t.entries = s.entries
    BY <1>2
  <2>3. w \in DOMAIN s.entries /\ s.entries[w].elem[d].ref > 0
    BY <2>2
  <2> QED BY <2>1, <2>2, <2>3 DEF Honest
<1> QED BY <1>2, <1>5, <1>6 DEF Softens

\* The maintenance keeps the accounts,
LEMMA MaintenanceKeeps ==
  ASSUME Accounting, Maintenance PROVE Accounting'
<1>1. /\ Good(st) /\ FineObjects(obj) /\ StoreTypes /\ phase = "up" /\ maint = 0 /\ writing = None
      /\ st' = [st EXCEPT !.timer = FALSE] /\ ControlFilesBegin(st)
      /\ UNCHANGED <<obj, writing, version, phase, kept>>
  BY DEF Accounting, StoreTypes, Maintenance, Turn, mem
<1>2. /\ saved' \in [entries : Tables, used : [Elems -> SUBSET Blocks]] /\ GoodTable(saved'.entries)
      /\ \A u \in DOMAIN saved'.entries, e \in Elems : saved'.entries[u].elem[e].ref = 0
      /\ maint' = 1 /\ saved'.used = saved.used /\ (~st.entriesDirty => saved' = saved)
  BY <1>1, EmptySaved DEF StoreTypes
<1>3. /\ Softens(st, st') /\ st'.entries = st.entries /\ st'.entriesDirty = st.entriesDirty
      /\ st'.blocksDirty = st.blocksDirty /\ st'.used = st.used
  BY <1>1, TimerSoftens
<1>4. StoreTypes'
  BY <1>1, <1>2, <1>3, SoftensGood DEF StoreTypes, FineObjects
<1>5. Phases'
  BY <1>1, <1>2 DEF Phases
<1>6. BlocksApart'
  BY <1>1, <1>3 DEF Accounting, BlocksApart
<1>7. Filed'
  BY <1>1, <1>2, <1>3 DEF Accounting, Filed, UsedSaved
<1> QED BY <1>4, <1>5, <1>6, <1>7 DEF Accounting

\* and so does the end of the store.
LEMMA StoreFinalisedKeeps ==
  ASSUME Accounting, StoreFinalised PROVE Accounting'
<1>1. /\ Good(st) /\ FineObjects(obj) /\ StoreTypes /\ phase = "finalising" /\ maint = 0 /\ writing = None
      /\ phase' = "closing" /\ \A o \in Objs : obj[o].state = "free"
      /\ st' = [st EXCEPT !.timer = FALSE] /\ ControlFilesBegin(st) /\ UNCHANGED <<obj, writing, version, kept>>
  BY DEF Accounting, StoreTypes, StoreFinalised, Phases, mem
<1>2. /\ saved' \in [entries : Tables, used : [Elems -> SUBSET Blocks]] /\ GoodTable(saved'.entries)
      /\ \A u \in DOMAIN saved'.entries, e \in Elems : saved'.entries[u].elem[e].ref = 0
      /\ maint' = 1 /\ saved'.used = saved.used /\ (~st.entriesDirty => saved' = saved)
  BY <1>1, EmptySaved DEF StoreTypes
<1>3. /\ Softens(st, st') /\ st'.entries = st.entries /\ st'.entriesDirty = st.entriesDirty
      /\ st'.blocksDirty = st.blocksDirty /\ st'.used = st.used
  BY <1>1, TimerSoftens
<1>4. StoreTypes'
  BY <1>1, <1>2, <1>3, SoftensGood DEF StoreTypes, FineObjects
<1>5. Phases'
  BY <1>1, <1>2 DEF Phases
<1>6. BlocksApart'
  BY <1>1, <1>3 DEF Accounting, BlocksApart
<1>7. Filed'
  BY <1>1, <1>2, <1>3 DEF Accounting, Filed, UsedSaved
<1> QED BY <1>4, <1>5, <1>6, <1>7 DEF Accounting

\* The entries that are saved are those of the store, without loans.
LEMMA AtRestTable ==
  ASSUME Good(st), NEW f, f = [u \in DOMAIN st.entries |-> AtRest(st.entries[u])]
  PROVE  /\ f \in Tables /\ GoodTable(f) /\ DOMAIN f = DOMAIN st.entries /\ SameElements(f, st.entries)
         /\ \A u \in DOMAIN f, e \in Elems : f[u].elem[e].ref = 0
         /\ \A u \in DOMAIN f : f[u].invalid = st.entries[u].invalid
<1>1. st.entries \in Tables /\ DOMAIN st.entries \in SUBSET Urls
  BY TableType DEF Good, GoodTable
<1>2. ASSUME NEW u \in DOMAIN st.entries
      PROVE  /\ AtRest(st.entries[u]) \in EntryType /\ AtRest(st.entries[u]).invalid = st.entries[u].invalid
             /\ \A e \in Elems : /\ AtRest(st.entries[u]).elem[e].ref = 0
                                 /\ AtRest(st.entries[u]).elem[e].size = st.entries[u].elem[e].size
                                 /\ AtRest(st.entries[u]).elem[e].block = st.entries[u].elem[e].block
  <2> DEFINE en == st.entries[u]
             y(e) == [en.elem[e] EXCEPT !.ref = 0, !.val = None]
  <2>1. en \in EntryType /\ \A e \in Elems : en.elem[e] \in ElementType
    BY <1>1, TableType DEF EntryType
  <2>2. \A e \in Elems : y(e) \in ElementType /\ y(e).ref = 0 /\ y(e).size = en.elem[e].size /\ y(e).block = en.elem[e].block
    BY <2>1 DEF ElementType, Stored
  <2>3. AtRest(en) = [en EXCEPT !.elem = [e \in Elems |-> y(e)]]
    BY DEF AtRest
  <2> HIDE DEF y, en
  <2>4. AtRest(en) \in EntryType /\ AtRest(en).invalid = en.invalid /\ \A e \in Elems : AtRest(en).elem[e] = y(e)
    BY <2>1, <2>2, <2>3 DEF EntryType
  <2> QED BY <2>2, <2>4 DEF en
<1>3. f \in [DOMAIN st.entries -> EntryType]
  <2> HIDE DEF AtRest
  <2> QED BY <1>2
<1>4. f \in Tables /\ DOMAIN f = DOMAIN st.entries
  BY <1>1, <1>3, TableMade
<1>5. \A u \in DOMAIN f : f[u] = AtRest(st.entries[u])
  <2> HIDE DEF AtRest
  <2> QED BY <1>4
<1>6. \A u \in DOMAIN f, e \in Elems : f[u].elem[e].ref = 0
  BY <1>2, <1>4, <1>5
<1>7. SameElements(f, st.entries)
  BY <1>2, <1>4, <1>5 DEF SameElements
<1>8. GoodTable(f)
  <2>1. MetaFits(f)
    BY <1>4, <1>7 DEF Good, GoodTable, MetaFits, SameElements, Elems
  <2>2. HeldHasValue(f)
    BY <1>6 DEF HeldHasValue
  <2> QED BY <1>4, <2>1, <2>2 DEF Good, GoodTable
<1> QED BY <1>2, <1>4, <1>5, <1>6, <1>7, <1>8

\* Once they are saved they are what the store holds.
LEMMA EntriesReplacedKeeps ==
  ASSUME Accounting, EntriesReplaced PROVE Accounting'
<1>1. /\ Good(st) /\ FineObjects(obj) /\ StoreTypes /\ Phases /\ maint = 1 /\ maint' = 2
      /\ saved' = [entries |-> IF st.entriesDirty THEN [u \in DOMAIN st.entries |-> AtRest(st.entries[u])] ELSE saved.entries,
                   used |-> IF st.blocksDirty THEN NoControlFiles.used ELSE saved.used]
      /\ UNCHANGED <<st, obj, writing, version, phase, kept>>
  BY DEF Accounting, StoreTypes, EntriesReplaced, mem
<1>2. writing = None /\ phase \in {"up", "closing"}
  BY <1>1 DEF Phases
<1>3. saved'.used = IF st.blocksDirty THEN NoControlFiles.used ELSE saved.used
  BY <1>1
<1>4. NoControlFiles.used \in [Elems -> SUBSET Blocks]
  BY DEF NoControlFiles, FreshStore
<1>5. /\ saved'.entries \in Tables /\ GoodTable(saved'.entries)
      /\ \A u \in DOMAIN saved'.entries, e \in Elems : saved'.entries[u].elem[e].ref = 0
      /\ (~st.entriesDirty => saved'.entries = saved.entries)
      /\ (kept => SavedAs')
  <2>1. CASE st.entriesDirty
    <3>1. saved'.entries = [u \in DOMAIN st.entries |-> AtRest(st.entries[u])]
      BY <1>1, <2>1
    <3>2. /\ saved'.entries \in Tables /\ GoodTable(saved'.entries) /\ DOMAIN saved'.entries = DOMAIN st.entries
          /\ SameElements(saved'.entries, st.entries)
          /\ \A u \in DOMAIN saved'.entries, e \in Elems : saved'.entries[u].elem[e].ref = 0
      BY <1>1, <3>1, AtRestTable
    <3> QED BY <1>1, <2>1, <3>2 DEF SavedAs
  <2>2. CASE ~st.entriesDirty
    <3>1. saved'.entries = saved.entries
      BY <1>1, <2>2
    <3>2. kept => saved.entries = st.entries
      BY <2>2 DEF Accounting, Filed
    <3> QED BY <1>1, <3>1, <3>2 DEF StoreTypes, GoodTable, SavedAs, SameElements
  <2> QED BY <2>1, <2>2
<1>6. saved' \in [entries : Tables, used : [Elems -> SUBSET Blocks]]
  BY <1>1, <1>3, <1>4, <1>5 DEF StoreTypes
<1>7. StoreTypes'
  BY <1>1, <1>5, <1>6 DEF StoreTypes, FineObjects
<1>8. Phases'
  BY <1>1, <1>2 DEF Phases
<1>9. BlocksApart'
  BY <1>1 DEF Accounting, BlocksApart
<1>10. Filed'
  <2>1. kept /\ ~st.blocksDirty => UsedSaved'
    BY <1>1, <1>3 DEF Accounting, Filed, UsedSaved
  <2>2. kept /\ ~st.entriesDirty => saved'.entries = st.entries
    BY <1>5 DEF Accounting, Filed
  <2> QED BY <1>1, <1>2, <1>5, <2>1, <2>2 DEF Filed
<1> QED BY <1>7, <1>8, <1>9, <1>10 DEF Accounting

\* Then the use maps are.
LEMMA BlocksReplacedKeeps ==
  ASSUME Accounting, BlocksReplaced PROVE Accounting'
<1>1. /\ Good(st) /\ FineObjects(obj) /\ StoreTypes /\ Phases /\ maint = 2 /\ maint' = 0
      /\ saved' = IF st.blocksDirty THEN [saved EXCEPT !.used = st.used] ELSE saved
      /\ phase' = IF phase = "closing" THEN "down" ELSE phase
      /\ UNCHANGED <<st, obj, writing, version, kept>>
  BY DEF Accounting, StoreTypes, BlocksReplaced, mem
<1>2. writing = None /\ phase \in {"up", "closing"}
  BY <1>1 DEF Phases
<1>3. /\ saved'.entries = saved.entries /\ saved' \in [entries : Tables, used : [Elems -> SUBSET Blocks]]
      /\ (kept => UsedSaved')
  <2>1. st.used \in [Elems -> SUBSET Blocks] /\ saved \in [entries : Tables, used : [Elems -> SUBSET Blocks]]
    BY <1>1 DEF Good, Stores, StoreTypes
  <2>2. CASE st.blocksDirty
    BY <1>1, <2>1, <2>2 DEF UsedSaved
  <2>3. CASE ~st.blocksDirty
    BY <1>1, <2>1, <2>3 DEF UsedSaved, Accounting, Filed
  <2> QED BY <2>2, <2>3
<1>4. StoreTypes'
  BY <1>1, <1>3 DEF StoreTypes, FineObjects
<1>5. Phases'
  BY <1>1, <1>2 DEF Phases
<1>6. BlocksApart'
  BY <1>1 DEF Accounting, BlocksApart
<1>7. Filed'
  <2>1. kept /\ phase = "closing" => SavedAs'
    BY <1>1, <1>3 DEF Accounting, Filed, SavedAs
  <2>2. kept /\ ~st.entriesDirty => saved'.entries = st.entries
    BY <1>3 DEF Accounting, Filed
  <2> QED BY <1>1, <1>2, <1>3, <2>1, <2>2 DEF Filed
<1> QED BY <1>4, <1>5, <1>6, <1>7 DEF Accounting

\* A store that starts takes its entries and use maps from the control files.
LEMMA StartFacts ==
  ASSUME Accounting, Start
  PROVE  /\ Good(st') /\ st'.entries = saved.entries /\ st'.used = saved.used /\ ~st'.entriesDirty
         /\ ~st'.blocksDirty
         /\ st'.blocks = st.blocks /\ st'.files = st.files
<1>1. /\ StoreTypes /\ st \in Stores
      /\ st' = [FreshStore EXCEPT !.entries = saved.entries, !.used = saved.used,
                  !.total = TotalOf(saved.entries, DOMAIN saved.entries), !.blocks = st.blocks, !.files = st.files]
  BY DEF Accounting, StoreTypes, Good, Start
<1>2. /\ saved.entries \in Tables /\ saved.used \in [Elems -> SUBSET Blocks] /\ GoodTable(saved.entries)
  BY <1>1 DEF StoreTypes
<1>3. TotalOf(saved.entries, DOMAIN saved.entries) \in Int
  <2>1. \A u \in DOMAIN saved.entries : Total(saved.entries[u]) \in Nat
    BY <1>2, TotalType
  <2>2. TotalOf(saved.entries, DOMAIN saved.entries) \in Nat
    BY <1>2, <2>1, TotalOfSame DEF GoodTable
  <2> QED BY <2>2
<1>4. st'.entriesDirty = FreshStore.entriesDirty /\ st'.blocksDirty = FreshStore.blocksDirty
  BY <1>1, FreshStoreType DEF Stores
<1>5. ~FreshStore.entriesDirty /\ ~FreshStore.blocksDirty
  BY DEF FreshStore
<1> HIDE DEF FreshStore
<1>6. /\ st' \in Stores /\ st'.entries = saved.entries /\ st'.used = saved.used
      /\ st'.total = TotalOf(saved.entries, DOMAIN saved.entries)
      /\ st'.blocks = st.blocks /\ st'.files = st.files
  BY <1>1, <1>2, <1>3, FreshStoreType DEF Stores
<1> QED BY <1>2, <1>4, <1>5, <1>6 DEF Good

\* They are what the last run of the program left.
LEMMA StartKeeps ==
  ASSUME Accounting, Start PROVE Accounting'
<1>1. /\ Good(st') /\ st'.entries = saved.entries /\ st'.used = saved.used /\ ~st'.entriesDirty
      /\ ~st'.blocksDirty
  BY StartFacts
<1>2. /\ StoreTypes /\ Phases /\ phase = "down" /\ phase' = "up"
      /\ UNCHANGED <<saved, maint, obj, writing, version, kept>>
  BY DEF Accounting, Start, mem
<1>3. StoreTypes'
  BY <1>1, <1>2 DEF StoreTypes, FineObjects
<1>4. Phases'
  BY <1>2 DEF Phases
<1>5. BlocksApart'
  <2> SUFFICES ASSUME kept PROVE NoShare(saved.entries, saved.used)
    BY <1>1, <1>2 DEF BlocksApart
  <2>1. SavedAs /\ UsedSaved /\ NoShare(st.entries, st.used)
    BY <1>2 DEF Accounting, Filed, BlocksApart
  <2>2. NoShare(saved.entries, st.used)
    <3> DEFINE f == st.entries
               g == saved.entries
    <3>1. DOMAIN g = DOMAIN f /\ NoShare(f, st.used)
          /\ \A w \in DOMAIN f, d \in Elems : g[w].elem[d].block = f[w].elem[d].block
      BY <2>1 DEF SavedAs, SameElements
    <3> HIDE DEF f, g
    <3>2. NoShare(g, st.used)
      BY <3>1, NoShareSame
    <3> QED BY <3>2 DEF g
  <2> QED BY <2>1, <2>2 DEF NoShare, UsedSaved
<1>6. Filed'
  BY <1>1, <1>2 DEF Filed, UsedSaved
<1> QED BY <1>3, <1>4, <1>5, <1>6 DEF Accounting

\* A program that is killed leaves what is on disc.
LEMMA KillKeeps ==
  ASSUME Accounting, Kill PROVE Accounting'
<1>1. /\ StoreTypes /\ Phases /\ phase' = "down" /\ maint' = 0 /\ obj' = [o \in Objs |-> Free]
      /\ writing' = None
      /\ kept' = FALSE /\ UNCHANGED <<st, saved, version>>
  BY DEF Accounting, Kill
<1>2. Free \in Object /\ Free.state = "free"
  BY DEF Free, Object
<1> HIDE DEF Free
<1>3. FineObjects(obj')
  BY <1>1, <1>2 DEF FineObjects
<1>4. StoreTypes'
  BY <1>1, <1>3 DEF StoreTypes
<1>5. Phases'
  BY <1>1, <1>2 DEF Phases
<1> QED BY <1>1, <1>4, <1>5 DEF Accounting, BlocksApart, Filed

\* The end begins.
LEMMA FinaliseKeeps ==
  ASSUME Accounting, Finalise PROVE Accounting'
<1>1. /\ StoreTypes /\ phase = "up" /\ maint = 0 /\ writing = None /\ phase' = "finalising"
      /\ UNCHANGED <<st, obj, writing, version, saved, maint, kept>>
  BY DEF Accounting, Finalise, Turn, mem
<1>2. StoreTypes'
  BY <1>1 DEF StoreTypes, FineObjects
<1>3. Phases'
  BY <1>1 DEF Phases
<1>4. BlocksApart'
  BY <1>1 DEF Accounting, BlocksApart
<1>5. Filed'
  BY <1>1 DEF Accounting, Filed, UsedSaved
<1> QED BY <1>2, <1>3, <1>4, <1>5 DEF Accounting

\* A step of the cache that keeps the accounts of the store.
LEMMA AccountedStep ==
  ASSUME Accounting, Accounted(st, st'), phase \in {"up", "finalising"}, maint = 0, UNCHANGED disc,
         FineObjects(obj'), version' \in [Urls -> Nat],
         writing' = None \/ (writing' \in Objs /\ obj'[writing'].state = "ram" /\ phase = "up")
  PROVE  Accounting'
<1>1. Good(st') /\ BlocksApart' /\ Filed'
  BY AccountedKeeps
<1>2. UNCHANGED <<saved, maint, phase, kept>> /\ StoreTypes /\ Phases
  BY DEF disc, Accounting
<1>3. StoreTypes'
  BY <1>1, <1>2 DEF StoreTypes
<1>4. Phases'
  BY <1>2 DEF Phases
<1> QED BY <1>1, <1>3, <1>4 DEF Accounting

\* Every step keeps the accounts.
LEMMA AccountingStep ==
  ASSUME Accounting, [StoreNext]_storeVars PROVE Accounting'
<1>1. CASE UNCHANGED storeVars
  <2>1. UNCHANGED <<st, saved, maint, phase, obj, writing, version, kept>>
    BY <1>1 DEF storeVars, mem, disc
  <2> QED BY <2>1 DEF Accounting, StoreTypes, FineObjects, Phases, BlocksApart, Filed, UsedSaved, SavedAs
<1>2. CASE Gentle /\ MemTyped'
  <2>1. /\ Softens(st, st') /\ phase \in {"up", "finalising"} /\ maint = 0 /\ writing' = None /\ UNCHANGED disc
        /\ FineObjects(obj') /\ version' \in [Urls -> Nat]
    BY <1>2 DEF Gentle, MemTyped
  <2> QED BY <2>1, SoftensAccounted, AccountedStep
<1>3. ASSUME NEW o \in Objs, PersistData(o) PROVE Accounting'
  <2>1. /\ Accounted(st, st') /\ UNCHANGED <<obj, version, disc>>
        /\ phase = "up" /\ maint = 0 /\ writing' \in {o, None} /\ obj[o].state = "ram"
    BY <1>3, PersistDataFacts
  <2>2. FineObjects(obj) /\ version \in [Urls -> Nat]
    BY DEF Accounting, StoreTypes
  <2>3. FineObjects(obj')
    BY <2>1, <2>2 DEF FineObjects
  <2> QED BY <2>1, <2>2, <2>3, AccountedStep
<1>4. ASSUME NEW o \in Objs, PersistMeta(o) PROVE Accounting'
  <2>1. /\ Accounted(st, st') /\ UNCHANGED <<version, disc>>
        /\ obj' \in {obj, OnDiscNow(o)}
        /\ phase = "up" /\ maint = 0 /\ writing' = None /\ obj[o].state = "ram"
    BY <1>4, PersistMetaFacts
  <2>2. FineObjects(obj) /\ version \in [Urls -> Nat]
    BY DEF Accounting, StoreTypes
  <2>3. FineObjects(obj')
    <3>1. CASE obj' = obj
      BY <2>2, <3>1 DEF FineObjects
    <3>2. CASE obj' = OnDiscNow(o)
      BY <2>1, <2>2, <3>2, OnDiscNowFine
    <3> QED BY <2>1, <3>1, <3>2
  <2> QED BY <2>1, <2>2, <2>3, AccountedStep
<1> QED BY <1>1, <1>2, <1>3, <1>4, GentleSteps, MaintenanceKeeps, EntriesReplacedKeeps, BlocksReplacedKeeps,
           FinaliseKeeps, StoreFinalisedKeeps, KillKeeps, StartKeeps

\* total_alloc, which decides on eviction, is always the size of all the
\* entries, after a crash too; and until the program is killed no two entries
\* share a block, nor is one in use marked free.
THEOREM AccountsStayExact == StoreSpec => []AccountsExact
<1>1. StoreInit => Accounting
  BY AccountingInit
<1>2. Accounting /\ [StoreNext]_storeVars => Accounting'
  BY AccountingStep
<1>3. Accounting => AccountsExact
  BY DEF Accounting, StoreTypes, Good, BlocksApart, NoShare, AccountsExact, Owned
<1> QED BY <1>1, <1>2, <1>3, PTL DEF StoreSpec

-----------------------------------------------------------------------------
\* What is on disc under an entry, when the sizes of a URL do not change.

SteadySize == \A u \in Urls, v, w \in Versions : Size[u][v] = 1 <=> Size[u][w] = 1

Small(u, e) == e = "meta" \/ \A v \in Versions : Size[u][v] = 1
Fits(f) == \A u \in DOMAIN f, e \in Elems :
  f[u].elem[e].block # 0 => Small(u, e) /\ f[u].elem[e].size = 1

\* Elements in blocks fit them when entries have gone.
LEMMA FitsKept ==
  ASSUME NEW f, NEW g, DOMAIN f \subseteq DOMAIN g, SameElements(f, g), Fits(g)
  PROVE  Fits(f)
BY DEF Fits, SameElements

\* Memory on loan shows what is on disc.
LEMMA ReadableIsDisc ==
  ASSUME NEW s, Honest(s), NEW u \in DOMAIN s.entries, NEW e \in Elems
  PROVE  Readable(s, <<u, e>>) = OnDisc(s, u, e)
BY DEF Readable, Honest

\* What is on disc is whole,
LEMMA DiscType ==
  ASSUME NEW s, Good(s), Fits(s.entries), NEW u \in DOMAIN s.entries, NEW e \in Elems
  PROVE  OnDisc(s, u, e) \in Stored
<1> DEFINE en == s.entries[u].elem[e]
<1>1. s \in Stores /\ en.size \in Nat /\ u \in Urls
  BY ElementsType DEF Good, GoodTable
<1>2. CASE en.block = 0
  <2>1. Hash[u] \in Range(Hash)
    BY <1>1, StoreAssumption DEF Range
  <2>2. s.files[e][Hash[u]] \in Stored
    BY <1>1, <2>1 DEF Stores
  <2>3. OnDisc(s, u, e) = IF en.size = 0 THEN None ELSE s.files[e][Hash[u]]
    BY <1>2 DEF OnDisc
  <2> QED BY <2>2, <2>3 DEF Stored
<1>3. CASE en.block # 0
  <2>1. en.size <= 1
    BY <1>3 DEF Fits
  <2> QED BY <1>1, <2>1, OnDiscType
<1> QED BY <1>2, <1>3

\* and so is what can be read.
LEMMA ReadableType ==
  ASSUME NEW s, Good(s), Honest(s), Fits(s.entries), NEW k \in Keys
  PROVE  Readable(s, k) \in Stored
<1>1. PICK u \in Urls, e \in Elems : k = <<u, e>>
  BY DEF Keys
<1>2. CASE u \notin DOMAIN s.entries
  BY <1>1, <1>2 DEF Readable, Stored
<1>3. CASE u \in DOMAIN s.entries
  BY <1>1, <1>3, ReadableIsDisc, DiscType
<1> QED BY <1>2, <1>3

\* A key may no longer be readable, but never reads as something else.
LEMMA ReadableFades ==
  ASSUME NEW s, NEW t, Shrinks(s, t), Honest(s), Honest(t), OneName, NEW k \in Keys
  PROVE  Readable(t, k) \in {Readable(s, k), None}
<1>1. PICK u \in Urls, e \in Elems : k = <<u, e>>
  BY DEF Keys
<1>2. CASE u \notin DOMAIN t.entries
  BY <1>1, <1>2 DEF Readable
<1>3. CASE u \in DOMAIN t.entries
  <2>1. u \in DOMAIN s.entries
    BY <1>3 DEF Shrinks
  <2> QED BY <1>1, <1>3, <2>1, ReadableIsDisc, DiscKept
<1> QED BY <1>2, <1>3

\* What store writes is found under its key, and nothing else has changed.
LEMMA PutOnDisc ==
  ASSUME NEW s, Good(s), NoShare(s.entries, s.used), Fits(s.entries), OneName, SteadySize,
         NEW u \in Urls, NEW e \in Elems, NEW c \in Contents, c[1] = u,
         NEW t, IsPut(s, t, u, e, c)
  PROVE  /\ Fits(t.entries) /\ OnDisc(t, u, e) = c
         /\ \A w \in DOMAIN s.entries, d \in Elems : w # u \/ d # e => OnDisc(t, w, d) = OnDisc(s, w, d)
         /\ u \notin DOMAIN s.entries => \A d \in Elems \ {e} : OnDisc(t, u, d) = None
<1> DEFINE x == t.entries[u].elem[e]
<1>1. /\ DOMAIN t.entries = DOMAIN s.entries \union {u}
      /\ \A w \in DOMAIN s.entries, d \in Elems : w # u \/ d # e => t.entries[w].elem[d] = s.entries[w].elem[d]
      /\ u \notin DOMAIN s.entries => \A d \in Elems \ {e} : t.entries[u].elem[d] = EmptyElement
      /\ x.ref = 1 /\ x.val = c /\ x.size = SizeOf(c, e)
      /\ x.size = 1 /\ x.block # 0 => x.block \in Blocks \ s.used[e]
      /\ x.size # 1 => x.block = EntryOf(s, u).elem[e].block
      /\ Good(t)
  BY DEF IsPut, IsSet
<1>2. /\ x.block # 0 =>
           /\ t.files = s.files
           /\ \A d \in Elems, b \in Blocks : t.blocks[d][b] =
                IF d = e /\ b \in x.block .. (x.block + x.size - 1) THEN c ELSE s.blocks[d][b]
      /\ x.block = 0 =>
           /\ t.blocks = s.blocks
           /\ \A d \in Elems, h \in Range(Hash) : t.files[d][h] = IF d = e /\ h = Hash[u] THEN c ELSE s.files[d][h]
  BY DEF IsPut
<1>3. /\ x.size \in Nat /\ x.size # 0 /\ c[2] \in Versions
      /\ e = "meta" => x.size = 1
      /\ e # "meta" => x.size = Size[u][c[2]]
  BY <1>1, SizeOfType DEF Contents
<1> HIDE DEF x
\* What is in a block is of size 1.
<1>4. x.block # 0 => x.size = 1 /\ Small(u, e)
  <2> SUFFICES ASSUME x.block # 0 PROVE x.size = 1 /\ Small(u, e)
    OBVIOUS
  <2>1. CASE x.size = 1
    BY <1>3, <2>1 DEF Small, SteadySize
  <2>2. CASE x.size # 1
    <3>1. EntryOf(s, u).elem[e].block # 0
      BY <1>1, <2>2
    <3>2. u \in DOMAIN s.entries /\ s.entries[u].elem[e].block # 0
      BY <3>1 DEF EntryOf, EmptyEntry, EmptyElement
    <3>3. Small(u, e)
      BY <3>2 DEF Fits
    <3> QED BY <1>3, <2>2, <3>3 DEF Small
  <2> QED BY <2>1, <2>2
<1>5. Fits(t.entries)
  <2> SUFFICES ASSUME NEW w \in DOMAIN t.entries, NEW d \in Elems, t.entries[w].elem[d].block # 0
               PROVE  Small(w, d) /\ t.entries[w].elem[d].size = 1
    BY DEF Fits
  <2>1. CASE w = u /\ d = e
    BY <1>4, <2>1 DEF x
  <2>2. CASE w \in DOMAIN s.entries /\ (w # u \/ d # e)
    BY <1>1, <2>2 DEF Fits
  <2>3. CASE w = u /\ d # e /\ u \notin DOMAIN s.entries
    BY <1>1, <2>3 DEF EmptyElement
  <2> QED BY <1>1, <2>1, <2>2, <2>3
<1>6. Hash[u] \in Range(Hash) /\ \A w \in Urls : Hash[w] \in Range(Hash) /\ (Hash[w] = Hash[u] => w = u)
  BY StoreAssumption DEF Range, OneName
<1>7. t \in Stores /\ s \in Stores /\ u \in DOMAIN t.entries /\ x.block \in 0 .. LastBlock
  BY <1>1, ElementsType DEF Good, GoodTable, x
<1>8. OnDisc(t, u, e) = c
  <2>1. CASE x.block = 0
    <3>1. OnDisc(t, u, e) = t.files[e][Hash[u]]
      BY <1>3, <2>1 DEF OnDisc, x
    <3> QED BY <1>2, <1>6, <2>1, <3>1
  <2>2. CASE x.block # 0
    <3>1. x.size = 1
      BY <1>4, <2>2
    <3>2. x.block \in Blocks /\ x.block \in x.block .. (x.block + x.size - 1)
      BY <1>7, <2>2, <3>1, StoreAssumption DEF Blocks
    <3>3. t.blocks[e][x.block] = c
      BY <1>2, <2>2, <3>2
    <3>4. OnDisc(t, u, e) = t.blocks[e][x.block]
      <4>1. t.entries[u].elem[e].size <= 1 /\ t.entries[u].elem[e].size # 0 /\ t.entries[u].elem[e].block # 0
            /\ x.block = t.entries[u].elem[e].block
        BY <2>2, <3>1 DEF x
      <4> QED BY <1>7, <4>1, OnDiscType
    <3> QED BY <3>3, <3>4
  <2> QED BY <2>1, <2>2
<1>9. ASSUME NEW w \in DOMAIN s.entries, NEW d \in Elems, w # u \/ d # e
      PROVE  OnDisc(t, w, d) = OnDisc(s, w, d)
  <2> DEFINE y == s.entries[w].elem[d]
  <2>1. t.entries[w].elem[d] = y /\ w \in Urls /\ w \in DOMAIN t.entries
    BY <1>1, <1>9, ElementsType DEF Good, GoodTable
  <2>2. CASE y.block = 0
    <3>1. t.files[d][Hash[w]] = s.files[d][Hash[w]]
      <4>1. CASE x.block # 0
        BY <1>2, <4>1
      <4>2. CASE x.block = 0
        BY <1>2, <1>6, <1>9, <2>1, <4>2
      <4> QED BY <4>1, <4>2
    <3> QED BY <2>1, <2>2, <3>1 DEF OnDisc
  <2>3. CASE y.block # 0
    <3>1. y.size = 1 /\ y.block \in Blocks /\ y.block \in s.used[d]
      <4>1. y.block \in 0 .. LastBlock
        BY ElementsType DEF Good, GoodTable
      <4> QED BY <2>3, <4>1, StoreAssumption DEF Fits, NoShare, Blocks
    <3>2. t.blocks[d][y.block] = s.blocks[d][y.block]
      <4>1. CASE x.block = 0
        BY <1>2, <4>1
      <4>2. CASE x.block # 0 /\ d # e
        BY <1>2, <3>1, <4>2
      <4>3. CASE x.block # 0 /\ d = e
        <5>1. x.size = 1 /\ x.block \notin s.used[e]
          BY <1>1, <1>4, <4>3
        <5>2. y.block # x.block
          BY <3>1, <4>3, <5>1
        <5>3. ~(y.block \in x.block .. (x.block + x.size - 1))
          BY <1>7, <3>1, <5>1, <5>2 DEF Blocks
        <5> QED BY <1>2, <3>1, <4>3, <5>3
      <4> QED BY <4>1, <4>2, <4>3
    <3>3. OnDisc(s, w, d) = s.blocks[d][y.block]
      <4>1. s.entries[w].elem[d].size <= 1 /\ s.entries[w].elem[d].size # 0 /\ s.entries[w].elem[d].block # 0
        BY <2>3, <3>1
      <4> QED BY <1>7, <4>1, OnDiscType
    <3>4. OnDisc(t, w, d) = t.blocks[d][y.block]
      <4>1. t.entries[w].elem[d].size <= 1 /\ t.entries[w].elem[d].size # 0 /\ t.entries[w].elem[d].block # 0
            /\ t.entries[w].elem[d].block = y.block
        BY <2>1, <2>3, <3>1
      <4> HIDE DEF y
      <4> QED BY <1>7, <2>1, <4>1, OnDiscType
    <3> QED BY <3>2, <3>3, <3>4
  <2> QED BY <2>2, <2>3
<1>10. ASSUME u \notin DOMAIN s.entries, NEW d \in Elems \ {e} PROVE OnDisc(t, u, d) = None
  BY <1>1, <1>10 DEF OnDisc, EmptyElement
<1> QED BY <1>5, <1>8, <1>9, <1>10

\* The same, of what can be read.
LEMMA PutReadable ==
  ASSUME NEW s, Good(s), NoShare(s.entries, s.used), Fits(s.entries), Honest(s), OneName, SteadySize,
         NEW u \in Urls, NEW e \in Elems, NEW c \in Contents, c[1] = u,
         NEW t, IsPut(s, t, u, e, c)
  PROVE  /\ Honest(t) /\ Readable(t, <<u, e>>) = c
         /\ \A k \in Keys \ {<<u, e>>} : Readable(t, k) = Readable(s, k)
<1>1. /\ OnDisc(t, u, e) = c
      /\ \A w \in DOMAIN s.entries, d \in Elems : w # u \/ d # e => OnDisc(t, w, d) = OnDisc(s, w, d)
      /\ u \notin DOMAIN s.entries => \A d \in Elems \ {e} : OnDisc(t, u, d) = None
  BY PutOnDisc
<1>2. /\ DOMAIN t.entries = DOMAIN s.entries \union {u}
      /\ \A w \in DOMAIN s.entries, d \in Elems : w # u \/ d # e => t.entries[w].elem[d] = s.entries[w].elem[d]
      /\ u \notin DOMAIN s.entries => \A d \in Elems \ {e} : t.entries[u].elem[d].ref = 0
      /\ t.entries[u].elem[e].val = c
  BY DEF IsPut, IsSet, EmptyElement
<1>3. Honest(t)
  <2> SUFFICES ASSUME NEW w \in DOMAIN t.entries, NEW d \in Elems, t.entries[w].elem[d].ref > 0
               PROVE  t.entries[w].elem[d].val = OnDisc(t, w, d)
    BY DEF Honest
  <2>1. CASE w = u /\ d = e
    BY <1>1, <1>2, <2>1
  <2>2. CASE w \in DOMAIN s.entries /\ (w # u \/ d # e)
    BY <1>1, <1>2, <2>2 DEF Honest
  <2>3. CASE w = u /\ d # e /\ u \notin DOMAIN s.entries
    BY <1>2, <2>3
  <2> QED BY <1>2, <2>1, <2>2, <2>3
<1>4. Readable(t, <<u, e>>) = c
  BY <1>1, <1>2, <1>3, ReadableIsDisc
<1>5. ASSUME NEW w \in Urls, NEW d \in Elems, w # u \/ d # e
      PROVE  Readable(t, <<w, d>>) = Readable(s, <<w, d>>)
  <2>1. CASE w \in DOMAIN s.entries
    <3>1. Readable(t, <<w, d>>) = OnDisc(t, w, d) /\ Readable(s, <<w, d>>) = OnDisc(s, w, d)
      BY <1>2, <1>3, <2>1, ReadableIsDisc
    <3> QED BY <1>1, <1>5, <2>1, <3>1
  <2>2. CASE w \notin DOMAIN t.entries
    BY <1>2, <2>2 DEF Readable
  <2>3. CASE w = u /\ d # e /\ u \notin DOMAIN s.entries
    <3>1. Readable(t, <<w, d>>) = OnDisc(t, w, d)
      BY <1>2, <1>3, <2>3, ReadableIsDisc
    <3>2. Readable(s, <<w, d>>) = None
      BY <2>3 DEF Readable
    <3> QED BY <1>1, <2>3, <3>1, <3>2
  <2> QED BY <1>2, <1>5, <2>1, <2>2, <2>3
<1>6. \A k \in Keys \ {<<u, e>>} : Readable(t, k) = Readable(s, k)
  BY <1>5 DEF Keys
<1> QED BY <1>3, <1>4, <1>6

-----------------------------------------------------------------------------
\* The contract of the store.

\* A store whose blocks are apart, each element in the one that fits it, and whose loans are of what is there.
SoundStore(s) == Good(s) /\ NoShare(s.entries, s.used) /\ Fits(s.entries) /\ Honest(s)
Fades(s, t, ks) == \A k \in ks : Readable(t, k) \in {Readable(s, k), None}

\* A step that takes nothing new in keeps a store sound, and its shelf may fade.
LEMMA SoundSoftens ==
  ASSUME OneName, NEW s, SoundStore(s), NEW t, Softens(s, t)
  PROVE  SoundStore(t) /\ Fades(s, t, Keys)
<1>1. /\ Shrinks(s, t) /\ Good(t) /\ Honest(t) /\ Honest(s) /\ NoShare(t.entries, t.used)
      /\ SameElements(t.entries, s.entries) /\ DOMAIN t.entries \subseteq DOMAIN s.entries
  BY DEF Softens, Shrinks, SoundStore
<1>2. Fits(t.entries)
  BY <1>1, FitsKept DEF SoundStore
<1>3. Fades(s, t, Keys)
  BY <1>1, ReadableFades DEF Fades
<1> QED BY <1>1, <1>2, <1>3 DEF SoundStore

\* store keeps it sound and puts its value on the shelf.
LEMMA SoundStored ==
  ASSUME OneName, SteadySize, "write" \notin Faults,
         NEW s, SoundStore(s), NEW u \in Urls, NEW e \in Elems, NEW c \in Contents, c[1] = u,
         NEW r \in Store(s, u, e, c)
  PROVE  /\ SoundStore(r.st) /\ Fades(s, r.st, Keys \ {<<u, e>>})
         /\ r.ok => Readable(r.st, <<u, e>>) = c
         /\ ~r.ok => Fades(s, r.st, Keys)
<1>0. Good(s) /\ Honest(s) /\ Fits(s.entries)
  BY DEF SoundStore
<1>1. PICK ev \in Evicted(s) :
        /\ Good(ev) /\ Shrinks(s, ev) /\ RefsAs(s, ev)
        /\ \/ ~r.ok /\ r.st = ev /\ RefAt(s, u, e) > 0
           \/ ~r.ok /\ "write" \in Faults /\ RefAt(s, u, e) = 0
              /\ Good(r.st) /\ IsSet(ev, r.st, u, e, c)
           \/ r.ok /\ RefAt(s, u, e) = 0 /\ IsPut(ev, r.st, u, e, c)
  BY <1>0, StoreCases
<1>2. Honest(ev)
  BY <1>0, <1>1, EvictedHonest
<1>3. SoundStore(ev)
  <2>1. /\ SameElements(ev.entries, s.entries) /\ DOMAIN ev.entries \subseteq DOMAIN s.entries
        /\ NoShare(ev.entries, ev.used)
    BY <1>1 DEF Shrinks, SoundStore
  <2>2. Fits(ev.entries)
    BY <1>0, <2>1, FitsKept
  <2> QED BY <1>1, <1>2, <2>1, <2>2 DEF SoundStore
<1>4. Fades(s, ev, Keys)
  BY <1>0, <1>1, <1>2, ReadableFades DEF Fades
<1>5. CASE ~r.ok /\ r.st = ev
  BY <1>3, <1>4, <1>5 DEF Fades
<1>6. CASE r.ok /\ IsPut(ev, r.st, u, e, c)
  <2>1. /\ Honest(r.st) /\ Readable(r.st, <<u, e>>) = c
        /\ \A k \in Keys \ {<<u, e>>} : Readable(r.st, k) = Readable(ev, k)
    BY <1>3, <1>6, PutReadable DEF SoundStore
  <2>2. Fits(r.st.entries)
    BY <1>3, <1>6, PutOnDisc DEF SoundStore
  <2>3. Good(r.st) /\ NoShare(r.st.entries, r.st.used)
    <3>1. Good(r.st) /\ IsSet(ev, r.st, u, e, c)
      BY <1>6 DEF IsPut
    <3>2. Good(ev) /\ NoShare(ev.entries, ev.used)
      BY <1>3 DEF SoundStore
    <3> QED BY <3>1, <3>2, SetKeepsBlocksApart
  <2>4. SoundStore(r.st)
    BY <2>1, <2>2, <2>3 DEF SoundStore
  <2>5. Fades(s, r.st, Keys \ {<<u, e>>})
    BY <1>4, <2>1 DEF Fades
  <2> QED BY <1>6, <2>1, <2>4, <2>5
<1> QED BY <1>1, <1>5, <1>6

Contracting == Accounting /\ (kept => SoundStore(st))

\* What a step does to the store, seen from outside.
Forgets == SoundStore(st') /\ Fades(st, st', Keys) /\ UNCHANGED <<last, kept>>
StoresOf(u, e, c) ==
  /\ u \in Urls /\ e \in Elems /\ c \in Contents
  /\ SoundStore(st') /\ Fades(st, st', Keys \ {<<u, e>>}) /\ Readable(st', <<u, e>>) \in {c, None}
  /\ last' = [last EXCEPT ![<<u, e>>] = c] /\ UNCHANGED kept

\* The first store of write_backing_store is a step of the contract.
LEMMA PersistDataShelf ==
  ASSUME OneName, SteadySize, "write" \notin Faults, Contracting, kept, NEW o \in Objs, PersistData(o)
  PROVE  Forgets \/ \E u \in Urls, e \in Elems, c \in Contents : StoresOf(u, e, c)
<1>1. SoundStore(st) /\ FineObjects(obj)
  BY DEF Contracting, Accounting, StoreTypes
<1>2. PICK r \in Store(st, obj[o].url, "data", Content(o)) :
         /\ st' = r.st
         /\ last' = IF r.ok THEN [last EXCEPT ![<<obj[o].url, "data">>] = Content(o)] ELSE last
  BY DEF PersistData
<1>3. Content(o) \in Contents /\ Content(o)[1] = obj[o].url /\ obj[o].url \in Urls /\ "data" \in Elems
  <2>1. obj[o].state # "free"
    BY DEF PersistData, Persistable
  <2> QED BY <1>1, <2>1, ContentType DEF Elems
<1>4. UNCHANGED kept
  BY DEF PersistData, disc
<1>5. /\ SoundStore(r.st) /\ Fades(st, r.st, Keys \ {<<obj[o].url, "data">>})
      /\ r.ok => Readable(r.st, <<obj[o].url, "data">>) = Content(o)
      /\ ~r.ok => Fades(st, r.st, Keys)
  BY <1>1, <1>2, <1>3, SoundStored
<1>6. CASE r.ok
  <2>1. StoresOf(obj[o].url, "data", Content(o))
    BY <1>2, <1>3, <1>4, <1>5, <1>6 DEF StoresOf
  <2> QED BY <1>3, <2>1
<1>7. CASE ~r.ok
  BY <1>2, <1>4, <1>5, <1>7 DEF Forgets
<1> QED BY <1>6, <1>7

\* So is the second.
LEMMA PersistMetaShelf ==
  ASSUME OneName, SteadySize, "write" \notin Faults, Contracting, kept, NEW o \in Objs, PersistMeta(o)
  PROVE  Forgets \/ \E u \in Urls, e \in Elems, c \in Contents : StoresOf(u, e, c)
<1>1. SoundStore(st) /\ Good(st) /\ FineObjects(obj)
  BY DEF Contracting, Accounting, StoreTypes
<1>2. obj[o].state = "ram" /\ UNCHANGED kept
  <2>1. obj[o].state = "ram" /\ UNCHANGED disc
    BY PersistMetaFacts DEF Contracting
  <2> QED BY <2>1 DEF disc
<1>3. Content(o) \in Contents /\ Content(o)[1] = obj[o].url /\ obj[o].url \in Urls /\ "meta" \in Elems
  BY <1>1, <1>2, ContentType DEF Elems
<1> DEFINE u == obj[o].url
           c == Content(o)
<1>4. PICK r \in MetaStores(o) :
         IF r.ok
         THEN st' = r.st /\ last' = [last EXCEPT ![<<obj[o].url, "meta">>] = Content(o)]
         ELSE st' = Invalidate(r.st, obj[o].url) /\ UNCHANGED last
  BY DEF PersistMeta
<1>5. /\ SoundStore(r.st) /\ Fades(st, r.st, Keys \ {<<u, "meta">>})
      /\ r.ok => Readable(r.st, <<u, "meta">>) \in {c, None}
      /\ ~r.ok => Fades(st, r.st, Keys)
  <2>1. CASE r.st = st /\ ~r.ok
    BY <1>1, <2>1 DEF Fades
  <2>2. CASE \E q \in Store(st, obj[o].url, "meta", Content(o)) : r.st = ReleaseElement(q.st, obj[o].url, "meta") /\ r.ok = q.ok
    <3>1. PICK q \in Store(st, obj[o].url, "meta", Content(o)) : r.st = ReleaseElement(q.st, obj[o].url, "meta") /\ r.ok = q.ok
      BY <2>2
    <3>2. /\ SoundStore(q.st) /\ Fades(st, q.st, Keys \ {<<u, "meta">>})
          /\ q.ok => Readable(q.st, <<u, "meta">>) = c
          /\ ~q.ok => Fades(st, q.st, Keys)
      BY <1>1, <1>3, <3>1, SoundStored
    <3>3. SoundStore(r.st) /\ Fades(q.st, r.st, Keys)
      <4>1. Softens(q.st, r.st)
        BY <1>3, <3>1, <3>2, ReleaseSoftens DEF SoundStore
      <4> QED BY <3>2, <4>1, SoundSoftens
    <3>4. <<u, "meta">> \in Keys
      BY <1>3 DEF Keys
    <3> QED BY <3>1, <3>2, <3>3, <3>4 DEF Fades
  <2> QED BY <1>4, <2>1, <2>2 DEF MetaStores
<1>6. CASE r.ok
  <2>1. StoresOf(u, "meta", c)
    BY <1>2, <1>3, <1>4, <1>5, <1>6 DEF StoresOf
  <2> QED BY <1>3, <2>1
<1>7. CASE ~r.ok
  <2>1. st' = Invalidate(r.st, u) /\ UNCHANGED last
    BY <1>4, <1>7
  <2>2. Softens(r.st, st')
    BY <1>3, <1>5, <2>1, InvalidateSoftens DEF SoundStore
  <2>3. SoundStore(st') /\ Fades(r.st, st', Keys)
    BY <1>5, <2>2, SoundSoftens
  <2>4. Fades(st, st', Keys)
    BY <1>5, <1>7, <2>3 DEF Fades
  <2> QED BY <1>2, <2>1, <2>3, <2>4 DEF Forgets
<1> QED BY <1>6, <1>7

\* A start brings back what was there.
LEMMA StartShelf ==
  ASSUME Contracting, kept, Start
  PROVE  Forgets
<1>1. /\ Good(st') /\ st'.entries = saved.entries /\ st'.used = saved.used
      /\ st'.blocks = st.blocks /\ st'.files = st.files
  BY StartFacts DEF Contracting
<1>2. /\ SavedAs /\ UsedSaved /\ \A u \in DOMAIN saved.entries, e \in Elems : saved.entries[u].elem[e].ref = 0
      /\ SoundStore(st) /\ UNCHANGED <<last, kept>>
  BY DEF Contracting, Accounting, StoreTypes, Filed, Start
<1>3. Accounting' /\ kept'
  BY <1>2, StartKeeps DEF Contracting
<1>4. NoShare(st'.entries, st'.used)
  BY <1>3 DEF Accounting, BlocksApart
<1>5. Fits(st'.entries)
  BY <1>1, <1>2, FitsKept DEF SoundStore, SavedAs
<1>6. Honest(st')
  BY <1>1, <1>2 DEF Honest
<1>7. \A u \in DOMAIN st.entries, e \in Elems : OnDisc(st', u, e) = OnDisc(st, u, e)
  <2> SUFFICES ASSUME NEW u \in DOMAIN st.entries, NEW e \in Elems PROVE OnDisc(st', u, e) = OnDisc(st, u, e)
    OBVIOUS
  <2>1. /\ st'.entries[u].elem[e].size = st.entries[u].elem[e].size
        /\ st'.entries[u].elem[e].block = st.entries[u].elem[e].block
    BY <1>1, <1>2 DEF SavedAs, SameElements
  <2> QED BY <1>1, <2>1 DEF OnDisc
<1>8. Fades(st, st', Keys)
  <2> SUFFICES ASSUME NEW u \in Urls, NEW e \in Elems
               PROVE  Readable(st', <<u, e>>) \in {Readable(st, <<u, e>>), None}
    BY DEF Fades, Keys
  <2>1. CASE u \in DOMAIN st.entries
    <3>1. u \in DOMAIN st'.entries
      BY <1>1, <1>2, <2>1 DEF SavedAs
    <3>2. Readable(st', <<u, e>>) = OnDisc(st', u, e) /\ Readable(st, <<u, e>>) = OnDisc(st, u, e)
      BY <1>2, <1>6, <2>1, <3>1, ReadableIsDisc DEF SoundStore
    <3> QED BY <1>7, <2>1, <3>2
  <2>2. CASE u \notin DOMAIN st.entries
    BY <1>1, <1>2, <2>2 DEF Readable, SavedAs
  <2> QED BY <2>1, <2>2
<1> QED BY <1>1, <1>2, <1>4, <1>5, <1>6, <1>8 DEF Forgets, SoundStore

\* Every step does what the contract allows, or the program is killed.
LEMMA ShelfSteps ==
  ASSUME OneName, SteadySize, "write" \notin Faults, Contracting, kept, StoreNext
  PROVE  Forgets \/ (\E u \in Urls, e \in Elems, c \in Contents : StoresOf(u, e, c)) \/ ~kept'
<1>1. SoundStore(st) /\ Accounting
  BY DEF Contracting
<1>2. ASSUME Softens(st, st'), UNCHANGED <<last, kept>> PROVE Forgets
  BY <1>1, <1>2, SoundSoftens DEF Forgets
<1>3. CASE Gentle
  BY <1>2, <1>3 DEF Gentle, disc
<1>4. CASE Maintenance \/ StoreFinalised
  <2>1. st' = [st EXCEPT !.timer = FALSE] /\ UNCHANGED <<last, kept>>
    BY <1>4 DEF Maintenance, StoreFinalised
  <2>2. Softens(st, st')
    BY <1>1, <2>1, TimerSoftens DEF SoundStore
  <2> QED BY <1>2, <2>1, <2>2
<1>5. CASE EntriesReplaced \/ BlocksReplaced \/ Finalise
  <2>1. UNCHANGED <<st, last, kept>>
    BY <1>5 DEF EntriesReplaced, BlocksReplaced, Finalise
  <2> QED BY <1>1, <1>2, <2>1, SoftensSelf DEF SoundStore
<1>6. CASE Kill
  BY <1>6 DEF Kill
<1>7. CASE Start
  BY <1>7, StartShelf
<1> QED BY <1>1, <1>3, <1>4, <1>5, <1>6, <1>7, GentleSteps, PersistDataShelf, PersistMetaShelf

\* A program that was killed once was.
LEMMA NeverKeptAgain == ASSUME StoreNext, Accounting PROVE kept' => kept
<1>1. CASE \E o \in Objs : PersistData(o) \/ PersistMeta(o)
  BY <1>1 DEF PersistData, PersistMeta, disc
<1>2. CASE Gentle
  BY <1>2 DEF Gentle, disc
<1> QED BY <1>1, <1>2, GentleSteps DEF Maintenance, EntriesReplaced, BlocksReplaced, Finalise, StoreFinalised, Kill, Start

\* Every step keeps the store sound,
LEMMA ContractingStep ==
  ASSUME OneName, SteadySize, "write" \notin Faults, Contracting, [StoreNext]_storeVars
  PROVE  Contracting'
<1>1. Accounting'
  BY AccountingStep DEF Contracting
<1>2. CASE UNCHANGED storeVars
  BY <1>1, <1>2 DEF Contracting, storeVars, disc
<1>3. CASE StoreNext
  <2> SUFFICES ASSUME kept' PROVE SoundStore(st')
    BY <1>1 DEF Contracting
  <2>1. kept
    BY <1>3, NeverKeptAgain DEF Contracting
  <2> QED BY <1>3, <2>1, ShelfSteps DEF Forgets, StoresOf
<1> QED BY <1>2, <1>3

\* which it is at first.
LEMMA ContractingInit == ASSUME StoreInit PROVE Contracting
<1>1. Accounting
  BY AccountingInit
<1>2. DOMAIN st.entries = {} /\ kept
  BY EmptyTable DEF StoreInit
<1>3. SoundStore(st)
  BY <1>1, <1>2 DEF Accounting, StoreTypes, BlocksApart, SoundStore, Fits, Honest
<1> QED BY <1>1, <1>3 DEF Contracting

\* Every step is one of the contract or leaves its state alone.
LEMMA ContractStep ==
  ASSUME OneName, SteadySize, "write" \notin Faults, Contracting, [StoreNext]_storeVars
  PROVE  [Contract!Next]_(Contract!vars)
<1>1. CASE UNCHANGED storeVars
  <2>1. UNCHANGED <<st, last, kept>>
    BY <1>1 DEF storeVars, disc
  <2>2. UNCHANGED shelf
    BY <2>1 DEF shelf
  <2> QED BY <2>1, <2>2 DEF Contract!vars
<1>2. CASE StoreNext /\ ~kept
  <2>1. kept' = FALSE
    <3>1. kept' \in BOOLEAN
      <4>1. Accounting'
        BY AccountingStep DEF Contracting
      <4> QED BY <4>1 DEF Accounting, StoreTypes
    <3> QED BY <1>2, <3>1, NeverKeptAgain DEF Contracting
  <2> QED BY <2>1 DEF Contract!Next, Contract!Killed
<1>3. CASE StoreNext /\ kept
  <2>1. \A k \in Keys : shelf[k] = Readable(st, k) /\ shelf'[k] = Readable(st', k)
    BY DEF shelf
  <2>2. kept \in BOOLEAN /\ kept' \in BOOLEAN
    <3>1. Accounting'
      BY AccountingStep DEF Contracting
    <3> QED BY <3>1 DEF Contracting, Accounting, StoreTypes
  <2>3. ASSUME SoundStore(st') PROVE shelf' \in [Keys -> Contents \union {None}]
    <3>1. \A k \in Keys : Readable(st', k) \in Contents \union {None}
      BY <2>3, ReadableType DEF SoundStore, Stored
    <3>2. shelf' = [k \in Keys |-> Readable(st', k)]
      BY DEF shelf
    <3> QED BY <3>1, <3>2
  <2>4. CASE Forgets
    <3>1. shelf' \in [Keys -> Contents \union {None}] /\ UNCHANGED <<last, kept>>
      BY <2>3, <2>4 DEF Forgets
    <3>2. Contract!Fades(Keys)
      BY <2>1, <2>4 DEF Forgets, Fades, Contract!Fades
    <3>3. Contract!Forget
      BY <1>3, <3>1, <3>2 DEF Contract!Forget
    <3> QED BY <3>3 DEF Contract!Next
  <2>5. ASSUME NEW u \in Urls, NEW e \in Elems, NEW c \in Contents, StoresOf(u, e, c)
        PROVE  Contract!Next
    <3>1. /\ shelf' \in [Keys -> Contents \union {None}] /\ UNCHANGED kept
          /\ last' = [last EXCEPT ![<<u, e>>] = c]
      BY <2>3, <2>5 DEF StoresOf
    <3>2. <<u, e>> \in Keys
      BY DEF Keys
    <3>3. shelf'[<<u, e>>] \in {c, None}
      BY <2>1, <2>5, <3>2 DEF StoresOf
    <3>4. Contract!Fades(Keys \ {<<u, e>>})
      BY <2>1, <2>5 DEF StoresOf, Fades, Contract!Fades
    <3>5. Contract!Store(<<u, e>>, c)
      BY <1>3, <3>1, <3>3, <3>4 DEF Contract!Store
    <3> QED BY <3>2, <3>5 DEF Contract!Next
  <2>6. CASE ~kept'
    BY <2>2, <2>6 DEF Contract!Next, Contract!Killed
  <2> QED BY <1>3, <2>4, <2>5, <2>6, ShelfSteps
<1> QED BY <1>1, <1>2, <1>3

\* What is read under a URL is what was last stored under it or nothing,
\* through eviction, failed reads, failed allocations, restarts and control
\* files that are written later than the data. The hypotheses exclude what was
\* found to break it: two URLs of one file name, a URL whose data fits a block
\* at one time and not at another, and a write to disc that fails.
THEOREM StoreImplementsContract ==
  ASSUME OneName, SteadySize, "write" \notin Faults
  PROVE  StoreSpec => ImplementsContract
<1>1. StoreInit => Contracting
  BY ContractingInit
<1>2. StoreInit => Contract!Init
  <2> SUFFICES ASSUME StoreInit PROVE Contract!Init
    OBVIOUS
  <2>1. DOMAIN st.entries = {} /\ kept = TRUE /\ last = [k \in Keys |-> None]
    BY EmptyTable DEF StoreInit
  <2>2. shelf = [k \in Keys |-> None]
    BY <2>1 DEF shelf, Readable
  <2> QED BY <2>1, <2>2 DEF Contract!Init
<1>3. Contracting /\ [StoreNext]_storeVars => Contracting' /\ [Contract!Next]_(Contract!vars)
  BY ContractingStep, ContractStep
<1> QED BY <1>1, <1>2, <1>3, PTL DEF StoreSpec, ImplementsContract, Contract!Spec

-----------------------------------------------------------------------------
\* Data and metadata are of one version.

NoLostWrites == "write" \notin Faults /\ "memory" \notin Faults

\* There are two elements.
LEMMA BothElems == "data" \in Elems /\ "meta" \in Elems /\ "data" # "meta"
BY DEF Elems

\* References are counted of what is there.
LEMMA RefAtNat ==
  ASSUME NEW s, Good(s), NEW u \in Urls, NEW e \in Elems
  PROVE  RefAt(s, u, e) \in Nat /\ (RefAt(s, u, e) > 0 => u \in DOMAIN s.entries)
<1>1. u \in DOMAIN s.entries => s.entries[u].elem[e].ref \in Nat
  BY ElementsType DEF Good, GoodTable
<1> QED BY <1>1 DEF RefAt

\* The first store of write_backing_store.
LEMMA DataStored ==
  ASSUME Accounting, NoLostWrites, NEW o \in Objs, PersistData(o)
  PROVE  \E ev \in Evicted(st) :
           /\ Good(ev) /\ Shrinks(st, ev) /\ RefsAs(st, ev)
           /\ \/ writing' = None /\ st' = ev
              \/ /\ writing' = o /\ RefAt(st, obj[o].url, "data") = 0
                 /\ IsPut(ev, st', obj[o].url, "data", Content(o))
<1>1. Good(st) /\ FineObjects(obj)
  BY DEF Accounting, StoreTypes
<1>2. Content(o) \in Contents /\ Content(o)[1] = obj[o].url /\ obj[o].url \in Urls /\ "data" \in Elems
  <2>1. obj[o].state # "free"
    BY DEF PersistData, Persistable
  <2> QED BY <1>1, <2>1, ContentType DEF Elems
<1>3. PICK r \in Store(st, obj[o].url, "data", Content(o)) : st' = r.st /\ writing' = IF r.ok THEN o ELSE None
  BY DEF PersistData
<1>4. PICK ev \in Evicted(st) :
        /\ Good(ev) /\ Shrinks(st, ev) /\ RefsAs(st, ev)
        /\ \/ ~r.ok /\ r.st = ev /\ RefAt(st, obj[o].url, "data") > 0
           \/ ~r.ok /\ "write" \in Faults /\ RefAt(st, obj[o].url, "data") = 0
              /\ Good(r.st) /\ IsSet(ev, r.st, obj[o].url, "data", Content(o))
           \/ r.ok /\ RefAt(st, obj[o].url, "data") = 0 /\ IsPut(ev, r.st, obj[o].url, "data", Content(o))
  BY <1>1, <1>2, <1>3, StoreCases
<1> QED BY <1>3, <1>4 DEF NoLostWrites

\* The second, which cannot fail.
LEMMA MetaStored ==
  ASSUME Accounting, NoLostWrites, MetaFree(st), NEW o \in Objs, PersistMeta(o)
  PROVE  \E ev, q :
           /\ ev \in Evicted(st) /\ Good(ev) /\ Shrinks(st, ev) /\ RefsAs(st, ev)
           /\ IsPut(ev, q, obj[o].url, "meta", Content(o))
           /\ st' = ReleaseElement(q, obj[o].url, "meta") /\ obj' = OnDiscNow(o)
<1>1. Good(st) /\ FineObjects(obj)
  BY DEF Accounting, StoreTypes
<1>2. Content(o) \in Contents /\ Content(o)[1] = obj[o].url /\ obj[o].url \in Urls /\ "meta" \in Elems
  <2>1. obj[o].state # "free"
    BY PersistMetaFacts
  <2> QED BY <1>1, <2>1, ContentType DEF Elems
<1>3. PICK r \in MetaStores(o) :
         IF r.ok
         THEN st' = r.st /\ obj' = OnDiscNow(o)
         ELSE st' = Invalidate(r.st, obj[o].url) /\ UNCHANGED obj
  BY DEF PersistMeta
<1>4. PICK q \in Store(st, obj[o].url, "meta", Content(o)) :
         r.st = ReleaseElement(q.st, obj[o].url, "meta") /\ r.ok = q.ok
  BY <1>3 DEF MetaStores, NoLostWrites
<1>5. PICK ev \in Evicted(st) :
        /\ Good(ev) /\ Shrinks(st, ev) /\ RefsAs(st, ev)
        /\ \/ ~q.ok /\ q.st = ev /\ RefAt(st, obj[o].url, "meta") > 0
           \/ ~q.ok /\ "write" \in Faults /\ RefAt(st, obj[o].url, "meta") = 0
              /\ Good(q.st) /\ IsSet(ev, q.st, obj[o].url, "meta", Content(o))
           \/ q.ok /\ RefAt(st, obj[o].url, "meta") = 0 /\ IsPut(ev, q.st, obj[o].url, "meta", Content(o))
  BY <1>1, <1>2, <1>4, StoreCases
<1>6. RefAt(st, obj[o].url, "meta") = 0
  BY <1>2 DEF MetaFree
<1>7. q.ok /\ IsPut(ev, q.st, obj[o].url, "meta", Content(o))
  BY <1>5, <1>6 DEF NoLostWrites
<1> QED BY <1>3, <1>4, <1>5, <1>7

\* The loans after it: those of before.
LEMMA MetaStoredRefs ==
  ASSUME NEW s, NEW ev, Good(ev), RefsAs(s, ev), MetaFree(s), NEW u \in Urls, NEW c,
         NEW q, IsPut(ev, q, u, "meta", c), NEW t, t = ReleaseElement(q, u, "meta")
  PROVE  RefsAs(s, t) /\ Softens(q, t) /\ (Marked(ev.entries) => Marked(t.entries))
<1>1. Good(q) /\ IsSet(ev, q, u, "meta", c)
  BY DEF IsPut
<1>2. RefsMove(ev, q, u, "meta", 1) /\ (Marked(ev.entries) => Marked(q.entries))
  BY <1>1, BothElems, SetMovesRefs
<1>3. Softens(q, t) /\ RefsMove(q, t, u, "meta", IF RefAt(q, u, "meta") > 0 THEN RefAt(q, u, "meta") - 1 ELSE 0)
  BY <1>1, BothElems, ReleaseSoftens, ReleaseFacts
<1>4. RefAt(q, u, "meta") = 1
  BY <1>2, BothElems DEF RefsMove
<1>5. RefsMove(q, t, u, "meta", 0)
  BY <1>3, <1>4
<1>6. RefsAs(s, t)
  BY <1>2, <1>5, BothElems DEF RefsAs, RefsMove, MetaFree
<1> QED BY <1>2, <1>3, <1>6 DEF Softens

\* The elements of an entry are of one version, but for the entry in the middle of write_backing_store.
Matched ==
  \A u \in DOMAIN st.entries :
    IF writing # None /\ obj[writing].url = u THEN OnDisc(st, u, "data") = Content(writing)
    ELSE OnDisc(st, u, "data") = OnDisc(st, u, "meta")
WritingLent == writing # None => RefAt(st, obj[writing].url, "data") > 0
MetaReleased == MetaFree(st) /\ WritingLent
Versioned == Contracting /\ MetaReleased /\ (kept => Matched)

\* Data and metadata match when entries have gone.
LEMMA MatchedShrinks ==
  ASSUME OneName, kept => Matched, Shrinks(st, st'), kept' => kept, writing = None, writing' = None
  PROVE  kept' => Matched'
<1> SUFFICES ASSUME kept, Matched, NEW u \in DOMAIN st'.entries
             PROVE  OnDisc(st', u, "data") = OnDisc(st', u, "meta")
  BY DEF Matched
<1>1. u \in DOMAIN st.entries
  BY DEF Shrinks
<1>2. OnDisc(st', u, "data") = OnDisc(st, u, "data") /\ OnDisc(st', u, "meta") = OnDisc(st, u, "meta")
  BY BothElems, DiscKept
<1> QED BY <1>1, <1>2 DEF Matched

\* No metadata is on loan between two steps, and the data that is being written is.
LEMMA MetaReleasedStep ==
  ASSUME Accounting, NoLostWrites, MetaReleased, [StoreNext]_storeVars
  PROVE  MetaReleased'
<1>0. Good(st) /\ FineObjects(obj) /\ writing \in Objs \union {None} /\ MetaFree(st)
  BY DEF Accounting, StoreTypes, MetaReleased
<1>1. CASE UNCHANGED storeVars
  BY <1>1 DEF storeVars, mem, MetaReleased, MetaFree, RefAt, WritingLent
<1>2. CASE Gentle
  BY <1>2 DEF Gentle, MetaReleased, WritingLent
<1>3. ASSUME NEW o \in Objs, PersistData(o) PROVE MetaReleased'
  <2>1. PICK ev \in Evicted(st) :
           /\ Good(ev) /\ Shrinks(st, ev) /\ RefsAs(st, ev)
           /\ \/ writing' = None /\ st' = ev
              \/ /\ writing' = o /\ RefAt(st, obj[o].url, "data") = 0
                 /\ IsPut(ev, st', obj[o].url, "data", Content(o))
    BY <1>3, DataStored
  <2>2. obj[o].url \in Urls /\ UNCHANGED obj
    <3>1. obj[o].state # "free" /\ UNCHANGED obj
      BY <1>3, PersistDataFacts
    <3> QED BY <1>0, <3>1 DEF FineObjects
  <2>3. MetaFree(ev)
    BY <1>0, <2>1, BothElems DEF RefsAs, MetaFree
  <2>4. CASE writing' = None /\ st' = ev
    BY <2>3, <2>4 DEF MetaReleased, WritingLent
  <2>5. CASE writing' = o /\ IsPut(ev, st', obj[o].url, "data", Content(o))
    <3>1. RefsMove(ev, st', obj[o].url, "data", 1)
      BY <2>2, <2>5, BothElems, SetMovesRefs DEF IsPut
    <3> QED BY <2>2, <2>3, <2>5, <3>1, BothElems DEF RefsMove, MetaFree, MetaReleased, WritingLent
  <2> QED BY <2>1, <2>4, <2>5
<1>4. ASSUME NEW o \in Objs, PersistMeta(o) PROVE MetaReleased'
  <2>1. PICK ev, q :
           /\ ev \in Evicted(st) /\ Good(ev) /\ Shrinks(st, ev) /\ RefsAs(st, ev)
           /\ IsPut(ev, q, obj[o].url, "meta", Content(o))
           /\ st' = ReleaseElement(q, obj[o].url, "meta") /\ obj' = OnDiscNow(o)
    BY <1>0, <1>4, MetaStored
  <2>2. obj[o].url \in Urls /\ writing' = None
    <3>1. obj[o].state # "free" /\ writing' = None
      BY <1>4, PersistMetaFacts
    <3> QED BY <1>0, <3>1 DEF FineObjects
  <2>3. RefsAs(st, st')
    BY <1>0, <2>1, <2>2, MetaStoredRefs
  <2> QED BY <1>0, <2>2, <2>3, BothElems DEF RefsAs, MetaFree, MetaReleased, WritingLent
<1>5. CASE Maintenance \/ StoreFinalised
  <2>1. st' = [st EXCEPT !.timer = FALSE] /\ UNCHANGED <<obj, writing>>
    BY <1>5 DEF Maintenance, StoreFinalised, mem
  <2>2. st'.entries = st.entries
    BY <1>0, <2>1, TimerSoftens
  <2> QED BY <2>1, <2>2 DEF MetaReleased, MetaFree, WritingLent, RefAt
<1>6. CASE EntriesReplaced \/ BlocksReplaced \/ Finalise
  <2>1. UNCHANGED <<st, obj, writing>>
    BY <1>6 DEF EntriesReplaced, BlocksReplaced, Finalise, mem
  <2> QED BY <2>1 DEF MetaReleased, MetaFree, WritingLent, RefAt
<1>7. CASE Kill
  BY <1>7 DEF Kill, MetaReleased, MetaFree, WritingLent, RefAt
<1>8. CASE Start
  <2>1. st'.entries = saved.entries
    BY <1>8, StartFacts
  <2>2. writing' = None
    BY <1>8, ObjsAssumption DEF Accounting, Phases, Start, mem
  <2> QED BY <2>1, <2>2, BothElems DEF MetaReleased, MetaFree, WritingLent, RefAt, Accounting, StoreTypes
<1> QED BY <1>1, <1>2, <1>3, <1>4, <1>5, <1>6, <1>7, <1>8, GentleSteps

\* Every step keeps data and metadata matched.
LEMMA MatchedStep ==
  ASSUME OneName, SteadySize, NoLostWrites, Versioned, StoreNext
  PROVE  kept' => Matched'
<1>0. /\ Accounting /\ Good(st) /\ FineObjects(obj) /\ writing \in Objs \union {None} /\ MetaFree(st) /\ WritingLent
      /\ (kept => SoundStore(st)) /\ (kept => Matched) /\ (kept' => kept)
  BY NeverKeptAgain DEF Versioned, Contracting, Accounting, StoreTypes, MetaReleased
<1>1. CASE Gentle
  BY <1>0, <1>1, MatchedShrinks DEF Gentle, Softens
<1>2. ASSUME NEW o \in Objs, PersistData(o), kept' PROVE Matched'
  <2>1. PICK ev \in Evicted(st) :
           /\ Good(ev) /\ Shrinks(st, ev) /\ RefsAs(st, ev)
           /\ \/ writing' = None /\ st' = ev
              \/ /\ writing' = o /\ RefAt(st, obj[o].url, "data") = 0
                 /\ IsPut(ev, st', obj[o].url, "data", Content(o))
    BY <1>0, <1>2, DataStored DEF NoLostWrites
  <2>2. obj[o].url \in Urls /\ UNCHANGED obj /\ writing = None
        /\ Content(o) \in Contents /\ Content(o)[1] = obj[o].url
    <3>1. obj[o].state # "free" /\ UNCHANGED obj
      BY <1>0, <1>2, PersistDataFacts
    <3> QED BY <1>0, <1>2, <3>1, ContentType DEF PersistData, Turn
  <2>3. CASE writing' = None /\ st' = ev
    BY <1>0, <1>2, <2>1, <2>2, <2>3, MatchedShrinks
  <2>4. CASE writing' = o /\ IsPut(ev, st', obj[o].url, "data", Content(o))
    <3> DEFINE u == obj[o].url
    <3>1. Good(ev) /\ NoShare(ev.entries, ev.used) /\ Fits(ev.entries)
      <4>1. /\ SameElements(ev.entries, st.entries) /\ DOMAIN ev.entries \subseteq DOMAIN st.entries
            /\ NoShare(ev.entries, ev.used) /\ Fits(st.entries)
        BY <1>0, <1>2, <2>1 DEF Shrinks, SoundStore
      <4> QED BY <2>1, <4>1, FitsKept
    <3>2. /\ OnDisc(st', u, "data") = Content(o)
          /\ \A w \in DOMAIN ev.entries, d \in Elems : w # u \/ d # "data" => OnDisc(st', w, d) = OnDisc(ev, w, d)
      BY <2>2, <2>4, <3>1, BothElems, PutOnDisc
    <3>3. DOMAIN st'.entries = DOMAIN ev.entries \union {u}
      BY <2>4 DEF IsPut, IsSet
    <3>4. ASSUME NEW w \in DOMAIN st'.entries, w # u PROVE OnDisc(st', w, "data") = OnDisc(st', w, "meta")
      <4>1. w \in DOMAIN ev.entries /\ w \in DOMAIN st.entries
        BY <2>1, <3>3, <3>4 DEF Shrinks
      <4>2. OnDisc(st', w, "data") = OnDisc(ev, w, "data") /\ OnDisc(st', w, "meta") = OnDisc(ev, w, "meta")
        BY <3>2, <3>4, <4>1, BothElems
      <4>3. OnDisc(ev, w, "data") = OnDisc(st, w, "data") /\ OnDisc(ev, w, "meta") = OnDisc(st, w, "meta")
        BY <2>1, <4>1, BothElems, DiscKept
      <4> QED BY <1>0, <1>2, <2>2, <4>1, <4>2, <4>3 DEF Matched
    <3>5. Content(o)' = Content(o)
      BY <2>2 DEF Content
    <3>6. writing' # None /\ obj'[writing'].url = u
      BY <2>2, <2>4, ObjsAssumption
    <3> QED BY <2>4, <3>2, <3>4, <3>5, <3>6 DEF Matched
  <2> QED BY <2>1, <2>3, <2>4
<1>3. ASSUME NEW o \in Objs, PersistMeta(o), kept' PROVE Matched'
  <2>1. PICK ev, q :
           /\ ev \in Evicted(st) /\ Good(ev) /\ Shrinks(st, ev) /\ RefsAs(st, ev)
           /\ IsPut(ev, q, obj[o].url, "meta", Content(o))
           /\ st' = ReleaseElement(q, obj[o].url, "meta") /\ obj' = OnDiscNow(o)
    BY <1>0, <1>3, MetaStored DEF NoLostWrites
  <2>2. obj[o].url \in Urls /\ writing = o /\ writing' = None /\ writing # None
        /\ Content(o) \in Contents /\ Content(o)[1] = obj[o].url
    <3>1. obj[o].state # "free" /\ writing' = None
      BY <1>0, <1>3, PersistMetaFacts
    <3> QED BY <1>0, <1>3, <3>1, ContentType, ObjsAssumption DEF PersistMeta
  <2> DEFINE u == obj[o].url
  <2>3. Good(ev) /\ NoShare(ev.entries, ev.used) /\ Fits(ev.entries)
    <4>1. /\ SameElements(ev.entries, st.entries) /\ DOMAIN ev.entries \subseteq DOMAIN st.entries
          /\ NoShare(ev.entries, ev.used) /\ Fits(st.entries)
      BY <1>0, <1>3, <2>1 DEF Shrinks, SoundStore
    <4> QED BY <2>1, <4>1, FitsKept
  <2>4. /\ OnDisc(q, u, "meta") = Content(o)
        /\ \A w \in DOMAIN ev.entries, d \in Elems : w # u \/ d # "meta" => OnDisc(q, w, d) = OnDisc(ev, w, d)
        /\ DOMAIN q.entries = DOMAIN ev.entries \union {u}
    <3>1. DOMAIN q.entries = DOMAIN ev.entries \union {u}
      BY <2>1 DEF IsPut, IsSet
    <3> QED BY <2>1, <2>2, <2>3, <3>1, BothElems, PutOnDisc
  <2>5. u \in DOMAIN ev.entries
    <3>1. RefAt(ev, u, "data") > 0
      BY <1>0, <2>1, <2>2, BothElems DEF RefsAs, WritingLent
    <3> QED BY <2>1, <2>2, <3>1, BothElems, RefAtNat
  <2>6. Shrinks(q, st')
    BY <1>0, <2>1, <2>2, MetaStoredRefs DEF Softens
  <2>7. ASSUME NEW w \in DOMAIN st'.entries PROVE OnDisc(st', w, "data") = OnDisc(st', w, "meta")
    <3>1. w \in DOMAIN ev.entries /\ w \in DOMAIN st.entries
      BY <2>1, <2>4, <2>5, <2>6 DEF Shrinks
    <3>2. OnDisc(st', w, "data") = OnDisc(q, w, "data") /\ OnDisc(st', w, "meta") = OnDisc(q, w, "meta")
      BY <2>6, BothElems, DiscKept
    <3>3. OnDisc(ev, w, "data") = OnDisc(st, w, "data") /\ OnDisc(ev, w, "meta") = OnDisc(st, w, "meta")
      BY <2>1, <3>1, BothElems, DiscKept
    <3>4. CASE w = u
      <4>1. OnDisc(st, u, "data") = Content(o)
        BY <1>0, <1>3, <2>2, <3>1, <3>4 DEF Matched
      <4> QED BY <2>4, <3>1, <3>2, <3>3, <3>4, <4>1, BothElems
    <3>5. CASE w # u
      <4>1. OnDisc(st, w, "data") = OnDisc(st, w, "meta")
        BY <1>0, <1>3, <2>2, <3>1, <3>5 DEF Matched
      <4> QED BY <2>4, <3>1, <3>2, <3>3, <3>5, <4>1, BothElems
    <3> QED BY <3>4, <3>5
  <2> QED BY <2>2, <2>7 DEF Matched
<1>4. CASE Maintenance \/ StoreFinalised
  <2>1. st' = [st EXCEPT !.timer = FALSE] /\ writing' = writing /\ writing = None
    BY <1>0, <1>4 DEF Maintenance, StoreFinalised, mem, Turn, Accounting, Phases
  <2>2. Shrinks(st, st')
    BY <1>0, <2>1, TimerSoftens DEF Softens
  <2> QED BY <1>0, <2>1, <2>2, MatchedShrinks
<1>5. CASE EntriesReplaced \/ BlocksReplaced \/ Finalise
  <2>1. UNCHANGED <<st, obj, writing>> /\ writing = None
    BY <1>0, <1>5 DEF EntriesReplaced, BlocksReplaced, Finalise, mem, Turn, Accounting, Phases
  <2> QED BY <1>0, <2>1, ShrinksSelf, MatchedShrinks
<1>6. CASE Kill
  BY <1>6 DEF Kill
<1>7. CASE Start
  <2>1. /\ st'.entries = saved.entries /\ st'.blocks = st.blocks /\ st'.files = st.files
    BY <1>0, <1>7, StartFacts
  <2>2. writing' = None /\ writing = None
    BY <1>0, <1>7, ObjsAssumption DEF Accounting, Phases, Start, mem
  <2> SUFFICES ASSUME kept, NEW u \in DOMAIN st'.entries
               PROVE  OnDisc(st', u, "data") = OnDisc(st', u, "meta")
    BY <1>0, <2>2 DEF Matched
  <2>3. SavedAs /\ Matched
    BY <1>0, <1>7 DEF Accounting, Filed, Start
  <2>4. u \in DOMAIN st.entries /\ \A d \in Elems : OnDisc(st', u, d) = OnDisc(st, u, d)
    <3>1. u \in DOMAIN st.entries
      BY <2>1, <2>3 DEF SavedAs
    <3> SUFFICES ASSUME NEW d \in Elems PROVE OnDisc(st', u, d) = OnDisc(st, u, d)
      BY <3>1
    <3>2. /\ st'.entries[u].elem[d].size = st.entries[u].elem[d].size
          /\ st'.entries[u].elem[d].block = st.entries[u].elem[d].block
      BY <2>1, <2>3, <3>1 DEF SavedAs, SameElements
    <3> QED BY <2>1, <3>2 DEF OnDisc
  <2> QED BY <2>2, <2>3, <2>4, BothElems DEF Matched
<1> QED BY <1>1, <1>2, <1>3, <1>4, <1>5, <1>6, <1>7, <1>0, GentleSteps

\* They match at first.
LEMMA MetaReleasedInit == ASSUME StoreInit PROVE MetaReleased /\ Matched
<1>1. DOMAIN st.entries = {} /\ writing = None
  BY EmptyTable DEF StoreInit
<1> QED BY <1>1 DEF MetaReleased, MetaFree, RefAt, WritingLent, Matched

\* Data and metadata that can both be read are of one version of their URL,
\* under the same hypotheses and with memory to write the metadata into.
THEOREM StoresOneVersion ==
  ASSUME OneName, SteadySize, NoLostWrites
  PROVE  StoreSpec => []SameVersion
<1>1. StoreInit => Versioned
  BY ContractingInit, MetaReleasedInit DEF Versioned
<1>2. Versioned /\ [StoreNext]_storeVars => Versioned'
  <2> SUFFICES ASSUME Versioned, [StoreNext]_storeVars PROVE Versioned'
    OBVIOUS
  <2>1. Contracting' /\ MetaReleased'
    BY ContractingStep, MetaReleasedStep DEF Versioned, NoLostWrites, Contracting
  <2>2. kept' => Matched'
    <3>1. CASE UNCHANGED storeVars
      BY <3>1 DEF storeVars, mem, disc, Versioned, Matched, Content
    <3> QED BY <3>1, MatchedStep
  <2> QED BY <2>1, <2>2 DEF Versioned
<1>3. Versioned => SameVersion
  <2> SUFFICES ASSUME Versioned, kept, writing = None, NEW u \in Urls,
                      shelf[<<u, "data">>] # None, shelf[<<u, "meta">>] # None
               PROVE  shelf[<<u, "data">>] = shelf[<<u, "meta">>]
    BY DEF SameVersion
  <2>1. \A e \in Elems : shelf[<<u, e>>] = Readable(st, <<u, e>>)
    BY DEF shelf, Keys
  <2>2. u \in DOMAIN st.entries
    BY <2>1, BothElems DEF Readable
  <2>3. Readable(st, <<u, "data">>) = OnDisc(st, u, "data")
        /\ Readable(st, <<u, "meta">>) = OnDisc(st, u, "meta")
    BY <2>2, BothElems, ReadableIsDisc DEF Versioned, Contracting, SoundStore
  <2> QED BY <2>1, <2>2, <2>3, BothElems DEF Versioned, Matched
<1> QED BY <1>1, <1>2, <1>3, PTL DEF StoreSpec

-----------------------------------------------------------------------------
\* The objects of one URL, in the order they were fetched.

(* The objects of one URL, parametrised by a state obs of the objects, the     *)
(* versions vers that were fetched and the object wr being written.            *)
Same(obs, o, p) == o # p /\ obs[o].state # "free" /\ obs[p].state # "free" /\ obs[o].url = obs[p].url
HasCandidate(obs, c) == \E q \in Objs : obs[q].cand = c

Shape(x, vers) ==
  /\ x.state # "free" => x.url \in Urls /\ x.ver \in 1 .. vers[x.url] /\ x.at <= vers[x.url]
  /\ x.state = "fetch" => x.data = "none" /\ ~x.fresh
  /\ x.state = "ram" => x.data # "loan"
  /\ x.state = "disc" => x.data # "own" /\ x.at > 0
  /\ x.cand # None => x.state = "fetch"
  /\ IsFresh(x) /\ x.state # "free" => x.at > 0
Shapes(obs, vers) == \A o \in Objs : Shape(obs[o], vers)

\* The most recent object of a URL is known, and a fresh one is the most recent.
Ordered(obs) ==
  \A o, p \in Objs : Same(obs, o, p) =>
    /\ obs[o].at > 0 => obs[o].at # obs[p].at
    /\ IsFresh(obs[o]) => obs[p].at < obs[o].at

\* Once an object is on disc, no older one has its data on loan.
OldNotLent(obs, wr) ==
  \A o, p \in Objs :
    Same(obs, o, p) /\ (obs[o].state = "disc" \/ wr = o) /\ obs[p].at < obs[o].at => obs[p].data # "loan"

\* A candidate is the most recent object but for the fetch that revalidates it.
CandidatesNewest(obs) ==
  \A q, c \in Objs : obs[q].cand = c =>
    /\ Same(obs, q, c) /\ obs[c].state # "fetch"
    /\ \A p \in Objs : Same(obs, p, q) => obs[p].at <= obs[c].at

InUseLoaded(obs) ==
  \A o \in Objs : obs[o].state = "disc" /\ (obs[o].used \/ HasCandidate(obs, o)) => obs[o].data = "loan"

ObjectsOrdered(obs, vers, wr, ph) ==
  /\ obs \in [Objs -> Object] /\ vers \in [Urls -> Nat]
  /\ Shapes(obs, vers) /\ Ordered(obs) /\ OldNotLent(obs, wr)
  /\ (ph = "up" => CandidatesNewest(obs)) /\ InUseLoaded(obs)

\* An object changes but does not become more recent, or is gone.
Ages(y, x) ==
  \/ x.state = "free"
  \/ /\ y.state # "free" /\ x.url = y.url /\ x.at \in {y.at, 0}
     /\ IsFresh(x) => IsFresh(y) /\ x.at = y.at

Newer(obs, o) == \A p \in Objs : Same(obs, o, p) => obs[p].at <= obs[o].at

\* The change of one object that keeps the order.
Allowed(obs, o, x, wr, wn, ph) ==
  /\ Ages(obs[o], x)
  /\ x.state # "free" /\ x.data = "loan" => x.at = obs[o].at /\ (obs[o].data = "loan" \/ Newer(obs, o))
  /\ x.state # "free" /\ (x.state = "disc" \/ wn = o) => obs[o].state = "disc" \/ wr = o
  /\ wn \in {wr, None}
  /\ x.cand \in {obs[o].cand, None}
  /\ ph = "up" /\ HasCandidate(obs, o) => x.state \notin {"free", "fetch"} /\ x.at = obs[o].at
  /\ x.state = "disc" /\ (x.used \/ HasCandidate(obs, o)) => x.data = "loan"

\* The order of the objects is kept by a change that makes none more recent.
LEMMA ChangeOrdered ==
  ASSUME NEW obs \in [Objs -> Object], NEW o \in Objs, NEW x \in Object, Ages(obs[o], x), Ordered(obs),
         NEW new, new = [obs EXCEPT ![o] = x]
  PROVE  Ordered(new)
<1> SUFFICES ASSUME NEW p \in Objs, NEW q \in Objs, Same(new, p, q)
             PROVE  /\ new[p].at > 0 => new[p].at # new[q].at
                    /\ IsFresh(new[p]) => new[q].at < new[p].at
  BY DEF Ordered
<1>1. \A r \in Objs : obs[r] \in Object /\ obs[r].at \in Nat
  BY DEF Object
<1>2. x.at \in Nat
  BY DEF Object
<1>3. CASE p # o /\ q # o
  <2>1. new[p] = obs[p] /\ new[q] = obs[q]
    BY <1>3
  <2>2. Same(obs, p, q)
    BY <2>1 DEF Same
  <2> QED BY <2>1, <2>2 DEF Ordered
<1>4. CASE p = o
  <2>1. new[p] = x /\ new[q] = obs[q] /\ q # o
    BY <1>4 DEF Same
  <2>2. Same(obs, p, q)
    BY <1>4, <2>1 DEF Same, Ages
  <2>3. x.state # "free"
    BY <2>1 DEF Same
  <2>4. x.at \in {obs[o].at, 0} /\ (IsFresh(x) => IsFresh(obs[o]) /\ x.at = obs[o].at)
    BY <2>3 DEF Ages
  <2>5. /\ obs[o].at > 0 => obs[o].at # obs[q].at
        /\ IsFresh(obs[o]) => obs[q].at < obs[o].at
    BY <1>4, <2>2 DEF Ordered
  <2> QED BY <1>1, <1>2, <2>1, <2>4, <2>5
<1>5. CASE q = o /\ p # o
  <2>1. new[q] = x /\ new[p] = obs[p]
    BY <1>5
  <2>2. x.state # "free"
    BY <2>1 DEF Same
  <2>3. Same(obs, p, q)
    BY <1>5, <2>1 DEF Same, Ages
  <2>4. x.at \in {obs[o].at, 0}
    BY <2>2 DEF Ages
  <2>5. /\ obs[p].at > 0 => obs[p].at # obs[o].at
        /\ IsFresh(obs[p]) => obs[o].at < obs[p].at
    BY <1>5, <2>3 DEF Ordered
  <2> QED BY <1>1, <1>2, <2>1, <2>4, <2>5
<1> QED BY <1>3, <1>4, <1>5

\* The older objects stay unlent.
LEMMA ChangeNotLent ==
  ASSUME NEW obs \in [Objs -> Object], NEW o \in Objs, NEW x \in Object, NEW wr, NEW wn, NEW ph,
         None \notin Objs,
         Allowed(obs, o, x, wr, wn, ph), OldNotLent(obs, wr),
         NEW new, new = [obs EXCEPT ![o] = x]
  PROVE  OldNotLent(new, wn)
<1> SUFFICES ASSUME NEW p \in Objs, NEW q \in Objs, Same(new, p, q), new[p].state = "disc" \/ wn = p,
                    new[q].at < new[p].at, new[q].data = "loan"
             PROVE  FALSE
  BY DEF OldNotLent
<1>1. \A r \in Objs : obs[r] \in Object /\ obs[r].at \in Nat
  BY DEF Object
<1>2. x.at \in Nat
  BY DEF Object
<1>3. CASE p # o /\ q # o
  <2>1. new[p] = obs[p] /\ new[q] = obs[q]
    BY <1>3
  <2>2. Same(obs, p, q) /\ (obs[p].state = "disc" \/ wr = p)
    BY <2>1 DEF Same, Allowed
  <2> QED BY <2>1, <2>2 DEF OldNotLent
<1>4. CASE p = o
  <2>1. new[p] = x /\ new[q] = obs[q] /\ q # o
    BY <1>4 DEF Same
  <2>2. x.state # "free"
    BY <2>1 DEF Same
  <2>3. Same(obs, p, q) /\ x.at \in {obs[o].at, 0}
    BY <1>4, <2>1, <2>2 DEF Same, Ages, Allowed
  <2>4. obs[o].state = "disc" \/ wr = o
    BY <1>4, <2>1, <2>2 DEF Allowed
  <2>5. obs[q].at < obs[o].at
    BY <1>1, <1>2, <2>1, <2>3
  <2> QED BY <1>4, <2>1, <2>3, <2>4, <2>5 DEF OldNotLent
<1>5. CASE q = o /\ p # o
  <2>1. new[q] = x /\ new[p] = obs[p]
    BY <1>5
  <2>2. x.state # "free" /\ x.data = "loan"
    BY <2>1 DEF Same
  <2>3. x.at = obs[o].at /\ (obs[o].data = "loan" \/ Newer(obs, o)) /\ (obs[p].state = "disc" \/ wr = p)
    BY <1>5, <2>1, <2>2 DEF Allowed
  <2>4. Same(obs, p, o) /\ Same(obs, o, p)
    BY <1>5, <2>1, <2>2 DEF Same, Ages, Allowed
  <2>5. obs[o].data # "loan"
    BY <1>5, <2>1, <2>3, <2>4 DEF OldNotLent
  <2>6. obs[p].at <= obs[o].at
    BY <2>3, <2>4, <2>5 DEF Newer
  <2> QED BY <1>1, <2>1, <2>3, <2>6
<1> QED BY <1>3, <1>4, <1>5

\* Candidates stay the most recent, and what is used is loaded.
LEMMA ChangeCandidates ==
  ASSUME NEW obs \in [Objs -> Object], NEW o \in Objs, NEW x \in Object, NEW wr, NEW wn, NEW ph,
         None \notin Objs, x.cand # None => x.state = "fetch",
         Allowed(obs, o, x, wr, wn, ph),
         NEW new, new = [obs EXCEPT ![o] = x]
  PROVE  /\ ph = "up" /\ CandidatesNewest(obs) => CandidatesNewest(new)
         /\ InUseLoaded(obs) => InUseLoaded(new)
<1>0. \A r \in Objs : new[r] = IF r = o THEN x ELSE obs[r]
  OBVIOUS
<1>1. \A r \in Objs : obs[r] \in Object /\ obs[r].at \in Nat
  BY DEF Object
<1>2. x.at \in Nat
  BY DEF Object
<1>3. \A q, c \in Objs : new[q].cand = c => obs[q].cand = c
  BY <1>0 DEF Allowed
<1>4. ASSUME ph = "up", CandidatesNewest(obs), NEW q \in Objs, NEW c \in Objs, new[q].cand = c
      PROVE  /\ Same(new, q, c) /\ new[c].state # "fetch"
             /\ \A p \in Objs : Same(new, p, q) => new[p].at <= new[c].at
  <2>1. /\ obs[q].cand = c /\ Same(obs, q, c) /\ obs[c].state # "fetch"
        /\ \A p \in Objs : Same(obs, p, q) => obs[p].at <= obs[c].at
    BY <1>3, <1>4 DEF CandidatesNewest
  <2>2. HasCandidate(obs, c)
    BY <2>1 DEF HasCandidate
  <2>3. new[c].state \notin {"free", "fetch"} /\ new[c].at = obs[c].at /\ new[c].url = obs[c].url
    <3>1. CASE c # o
      BY <1>0, <2>1, <3>1 DEF Same
    <3>2. CASE c = o
      <4>1. x.state \notin {"free", "fetch"} /\ x.at = obs[o].at
        BY <1>4, <2>2, <3>2 DEF Allowed
      <4> QED BY <1>0, <3>2, <4>1 DEF Allowed, Ages
    <3> QED BY <3>1, <3>2
  <2>4. new[q].state # "free" /\ new[q].url = obs[q].url
    <3>1. CASE q # o
      BY <1>0, <2>1, <3>1 DEF Same
    <3>2. CASE q = o
      <4>1. x.cand # None
        BY <1>0, <1>4, <3>2
      <4>2. x.state # "free"
        BY <4>1
      <4> QED BY <1>0, <3>2, <4>2 DEF Allowed, Ages
    <3> QED BY <3>1, <3>2
  <2>5. ASSUME NEW p \in Objs, Same(new, p, q) PROVE new[p].at <= new[c].at
    <3>1. Same(obs, p, q) /\ (new[p].at = obs[p].at \/ new[p].at = 0)
      <4>1. CASE p # o
        BY <1>0, <2>1, <2>4, <2>5, <4>1 DEF Same
      <4>2. CASE p = o
        <5>1. x.state # "free"
          BY <1>0, <2>5, <4>2 DEF Same
        <5> QED BY <1>0, <2>1, <2>4, <2>5, <4>2, <5>1 DEF Same, Allowed, Ages
      <4> QED BY <4>1, <4>2
    <3> QED BY <1>1, <2>1, <2>3, <3>1
  <2> QED BY <2>1, <2>3, <2>4, <2>5 DEF Same
<1>5. ASSUME InUseLoaded(obs), NEW p \in Objs, new[p].state = "disc", new[p].used \/ HasCandidate(new, p)
      PROVE  new[p].data = "loan"
  <2>1. HasCandidate(new, p) => HasCandidate(obs, p)
    BY <1>3 DEF HasCandidate
  <2>2. CASE p = o
    <3>1. x.used \/ HasCandidate(obs, o)
      BY <1>0, <1>5, <2>1, <2>2
    <3> QED BY <1>0, <1>5, <2>2, <3>1 DEF Allowed
  <2>3. CASE p # o
    BY <1>0, <1>5, <2>1, <2>3 DEF InUseLoaded
  <2> QED BY <2>2, <2>3
<1> QED BY <1>4, <1>5 DEF CandidatesNewest, InUseLoaded

\* So an allowed change keeps all of it.
LEMMA ChangeKeeps ==
  ASSUME NEW obs, NEW vers, NEW wr, NEW wn, NEW ph, ObjectsOrdered(obs, vers, wr, ph),
         NEW o \in Objs, NEW x \in Object, Shape(x, vers), Allowed(obs, o, x, wr, wn, ph),
         NEW new, new = [obs EXCEPT ![o] = x]
  PROVE  ObjectsOrdered(new, vers, wn, ph)
<1>1. obs \in [Objs -> Object] /\ new \in [Objs -> Object] /\ Ages(obs[o], x)
  BY DEF ObjectsOrdered, Allowed
<1>2. Shapes(new, vers)
  BY DEF Shapes, ObjectsOrdered
<1>3. Ordered(new)
  BY <1>1, ChangeOrdered DEF ObjectsOrdered
<1>4. OldNotLent(new, wn)
  BY <1>1, ChangeNotLent, ObjsAssumption DEF ObjectsOrdered
<1>5. (ph = "up" => CandidatesNewest(new)) /\ InUseLoaded(new)
  <2>1. (ph = "up" => CandidatesNewest(obs)) /\ InUseLoaded(obs)
    BY DEF ObjectsOrdered
  <2>2. x.cand # None => x.state = "fetch"
    BY DEF Shape
  <2>3. None \notin Objs
    BY ObjsAssumption
  <2>4. (ph = "up" /\ CandidatesNewest(obs) => CandidatesNewest(new)) /\ (InUseLoaded(obs) => InUseLoaded(new))
    BY <1>1, <2>2, <2>3, ChangeCandidates
  <2> QED BY <2>1, <2>4
<1> QED BY <1>1, <1>2, <1>3, <1>4, <1>5 DEF ObjectsOrdered

-----------------------------------------------------------------------------
\* The answer that nothing was modified.

\* Objects have a time.
LEMMA ObjectAt ==
  ASSUME NEW obs \in [Objs -> Object] PROVE \A r \in Objs : obs[r] \in Object /\ obs[r].at \in Nat
BY DEF Object

\* A fetch starts.
LEMMA FetchKeeps ==
  ASSUME NEW obs, NEW vers, ObjectsOrdered(obs, vers, None, "up"),
         NEW u \in Urls, NEW o \in Objs, NEW cand \in Objs \union {None},
         NEW y \in Object, y.url = u, y.ver = vers[u] + 1, y.at = vers[u] + 1,
         y.state = "fetch", y.data = "none", ~y.fresh, y.cand = cand,
         obs[o].state = "free" \/ obs[o].url = u,
         \A p \in Objs \ {o} : obs[p].state # "free" /\ obs[p].url = u => ~IsFresh(obs[p]),
         cand # None =>
           /\ cand # o /\ obs[cand].state \in {"ram", "disc"} /\ obs[cand].url = u
           /\ \A p \in Objs \ {o} : Same(obs, p, cand) => obs[p].at <= obs[cand].at
           /\ obs[cand].state = "disc" => obs[cand].data = "loan",
         NEW new, new = [obs EXCEPT ![o] = y], NEW vn, vn = [vers EXCEPT ![u] = @ + 1]
  PROVE  ObjectsOrdered(new, vn, None, "up")
<1>0. /\ obs \in [Objs -> Object] /\ vers \in [Urls -> Nat] /\ None \notin Objs
      /\ \A r \in Objs : new[r] = IF r = o THEN y ELSE obs[r]
  BY ObjsAssumption DEF ObjectsOrdered
<1>1. \A r \in Objs : obs[r] \in Object /\ obs[r].at \in Nat
  BY <1>0, ObjectAt
<1>2. new \in [Objs -> Object] /\ vn \in [Urls -> Nat] /\ vers[u] \in Nat
      /\ vn[u] = vers[u] + 1 /\ \A w \in Urls \ {u} : vn[w] = vers[w]
  BY <1>0
<1>3. \A p \in Objs : obs[p].state # "free" /\ obs[p].url = u => obs[p].at <= vers[u]
  BY DEF ObjectsOrdered, Shapes, Shape
<1>4. Shapes(new, vn)
  <2> SUFFICES ASSUME NEW p \in Objs PROVE Shape(new[p], vn)
    BY DEF Shapes
  <2>1. CASE p = o
    BY <1>0, <1>2, <2>1 DEF Shape
  <2>2. CASE p # o
    <3>1. new[p] = obs[p] /\ Shape(obs[p], vers) /\ obs[p].url \in Urls \union {None} /\ obs[p].ver \in Nat
          /\ obs[p].at \in Nat
      BY <1>0, <2>2 DEF ObjectsOrdered, Shapes, Object
    <3>2. ASSUME obs[p].state # "free"
          PROVE  obs[p].url \in Urls /\ obs[p].ver \in 1 .. vn[obs[p].url] /\ obs[p].at <= vn[obs[p].url]
      <4>1. obs[p].url \in Urls /\ obs[p].ver \in 1 .. vers[obs[p].url] /\ obs[p].at <= vers[obs[p].url]
        BY <3>1, <3>2 DEF Shape
      <4>2. CASE obs[p].url = u
        BY <1>2, <3>1, <4>1, <4>2
      <4>3. CASE obs[p].url \in Urls \ {u}
        BY <1>2, <4>1, <4>3
      <4> QED BY <4>1, <4>2, <4>3
    <3> QED BY <3>1, <3>2 DEF Shape
  <2> QED BY <2>1, <2>2
<1>5. Ordered(new)
  <2> SUFFICES ASSUME NEW p \in Objs, NEW q \in Objs, Same(new, p, q)
               PROVE  /\ new[p].at > 0 => new[p].at # new[q].at
                      /\ IsFresh(new[p]) => new[q].at < new[p].at
    BY DEF Ordered
  <2>1. CASE p # o /\ q # o
    <3>1. new[p] = obs[p] /\ new[q] = obs[q] /\ Same(obs, p, q)
      BY <1>0, <2>1 DEF Same
    <3> QED BY <3>1 DEF ObjectsOrdered, Ordered
  <2>2. CASE p = o
    <3>1. new[p] = y /\ new[q] = obs[q] /\ obs[q].state # "free" /\ obs[q].url = u
      BY <1>0, <2>2 DEF Same
    <3> QED BY <1>1, <1>2, <1>3, <3>1
  <2>3. CASE q = o /\ p # o
    <3>1. new[q] = y /\ new[p] = obs[p] /\ obs[p].state # "free" /\ obs[p].url = u
      BY <1>0, <2>3 DEF Same
    <3>2. ~IsFresh(new[p])
      BY <2>3, <3>1
    <3> QED BY <1>1, <1>2, <1>3, <3>1, <3>2
  <2> QED BY <2>1, <2>2, <2>3
<1>6. OldNotLent(new, None)
  <2> SUFFICES ASSUME NEW p \in Objs, NEW q \in Objs, Same(new, p, q), new[p].state = "disc", new[q].at < new[p].at
               PROVE  new[q].data # "loan"
    BY <1>0 DEF OldNotLent
  <2>1. p # o
    BY <1>0
  <2>2. CASE q # o
    <3>1. new[p] = obs[p] /\ new[q] = obs[q] /\ Same(obs, p, q)
      BY <1>0, <2>1, <2>2 DEF Same
    <3> QED BY <3>1 DEF ObjectsOrdered, OldNotLent
  <2>3. CASE q = o
    BY <1>0, <2>3
  <2> QED BY <2>2, <2>3
<1>7. \A q \in Objs \ {o} : obs[q].state = "fetch" => obs[q].url # u
  BY DEF IsFresh
<1>8. CandidatesNewest(new)
  <2> SUFFICES ASSUME NEW q \in Objs, NEW c \in Objs, new[q].cand = c
               PROVE  /\ Same(new, q, c) /\ new[c].state # "fetch"
                      /\ \A p \in Objs : Same(new, p, q) => new[p].at <= new[c].at
    BY DEF CandidatesNewest
  <2>1. CASE q = o
    <3>1. c = cand /\ cand # None
      BY <1>0, <2>1
    <3>2. /\ c # o /\ obs[c].state \in {"ram", "disc"} /\ obs[c].url = u
          /\ \A p \in Objs \ {o} : Same(obs, p, c) => obs[p].at <= obs[c].at
      BY <3>1
    <3>3. new[c] = obs[c]
      BY <1>0, <3>2
    <3>4. Same(new, q, c)
      BY <1>0, <2>1, <3>2, <3>3 DEF Same
    <3>5. ASSUME NEW p \in Objs, Same(new, p, q) PROVE new[p].at <= new[c].at
      <4>1. p # o /\ new[p] = obs[p] /\ (p = c \/ Same(obs, p, c))
        BY <1>0, <2>1, <3>2, <3>5 DEF Same
      <4> QED BY <1>1, <3>2, <3>3, <4>1
    <3> QED BY <3>2, <3>3, <3>4, <3>5
  <2>2. CASE q # o
    <3>1. obs[q].cand = c /\ c # None /\ new[q] = obs[q]
      BY <1>0, <2>2
    <3>2. /\ Same(obs, q, c) /\ obs[c].state # "fetch"
          /\ \A p \in Objs : Same(obs, p, q) => obs[p].at <= obs[c].at
      BY <3>1 DEF ObjectsOrdered, CandidatesNewest
    <3>3. obs[q].url # u
      <4>1. obs[q].state = "fetch"
        BY <3>1 DEF ObjectsOrdered, Shapes, Shape
      <4> QED BY <1>7, <2>2, <4>1
    <3>4. c # o
      BY <3>2, <3>3 DEF Same
    <3>5. ASSUME NEW p \in Objs, Same(new, p, q) PROVE new[p].at <= new[c].at
      <4>1. p # o
        BY <1>0, <3>1, <3>3, <3>5 DEF Same
      <4> QED BY <1>0, <3>1, <3>2, <3>4, <3>5, <4>1 DEF Same
    <3> QED BY <1>0, <3>1, <3>2, <3>4, <3>5 DEF Same
  <2> QED BY <2>1, <2>2
<1>9. InUseLoaded(new)
  <2> SUFFICES ASSUME NEW p \in Objs, new[p].state = "disc", new[p].used \/ HasCandidate(new, p)
               PROVE  new[p].data = "loan"
    BY DEF InUseLoaded
  <2>1. p # o /\ new[p] = obs[p]
    BY <1>0
  <2>2. CASE obs[p].used \/ HasCandidate(obs, p)
    BY <2>1, <2>2 DEF ObjectsOrdered, InUseLoaded
  <2>3. CASE HasCandidate(new, p) /\ ~HasCandidate(obs, p)
    <3>1. PICK q \in Objs : new[q].cand = p
      BY <2>3 DEF HasCandidate
    <3>2. q = o
      BY <1>0, <2>3, <3>1 DEF HasCandidate
    <3>3. p = cand /\ cand # None
      BY <1>0, <3>1, <3>2
    <3> QED BY <2>1, <3>3
  <2> QED BY <2>1, <2>2, <2>3
<1> QED BY <1>2, <1>4, <1>5, <1>6, <1>8, <1>9 DEF ObjectsOrdered

\* A candidate turns out to be current.
LEMMA NotModifiedKeeps ==
  ASSUME NEW obs, NEW vers, ObjectsOrdered(obs, vers, None, "up"), NEW o \in Objs, NEW c \in Objs,
         obs[o].state = "fetch", obs[o].cand = c,
         NEW x \in Object, x.state = "ram", x.at = 0, x.cand = None, x.url = obs[o].url, x.ver = obs[o].ver,
         x.data = obs[o].data, x.fresh = obs[o].fresh,
         NEW z \in Object, z.state = obs[c].state, z.at = obs[o].at, z.cand = obs[c].cand, z.url = obs[c].url,
         z.ver = obs[c].ver, z.data = obs[c].data, z.fresh,
         NEW new \in [Objs -> Object], new[o] = x, c # o => new[c] = z, \A r \in Objs \ {o, c} : new[r] = obs[r]
  PROVE  ObjectsOrdered(new, vers, None, "up")
<1>0. /\ obs \in [Objs -> Object] /\ vers \in [Urls -> Nat] /\ None \notin Objs
      /\ Ordered(obs) /\ Shapes(obs, vers) /\ OldNotLent(obs, None) /\ CandidatesNewest(obs) /\ InUseLoaded(obs)
  BY ObjsAssumption DEF ObjectsOrdered
<1>1. \A r \in Objs : obs[r] \in Object /\ obs[r].at \in Nat
  BY <1>0, ObjectAt
<1>2. /\ Same(obs, o, c) /\ obs[c].state # "fetch" /\ obs[c].state # "free" /\ c # o
      /\ \A p \in Objs : Same(obs, p, o) => obs[p].at <= obs[c].at
  BY <1>0 DEF CandidatesNewest, Same
<1>3. /\ new[o] = x /\ new[c] = z /\ \A r \in Objs \ {o, c} : new[r] = obs[r]
  BY <1>2
<1>6. x.data = "none" /\ ~x.fresh /\ obs[c].cand = None /\ obs[o].at > 0 /\ obs[o].at <= vers[obs[o].url]
  <2>1. Shape(obs[o], vers) /\ Shape(obs[c], vers)
    BY <1>0 DEF Shapes
  <2>2. obs[c].cand = None
    BY <1>2, <2>1 DEF Shape
  <2> QED BY <2>1, <2>2 DEF Shape, IsFresh
<1>7. \A p \in Objs : Same(obs, o, p) => obs[p].at < obs[o].at /\ ~IsFresh(obs[p])
  <2> SUFFICES ASSUME NEW p \in Objs, Same(obs, o, p) PROVE obs[p].at < obs[o].at /\ ~IsFresh(obs[p])
    OBVIOUS
  <2>1. obs[p].at < obs[o].at
    BY <1>0 DEF Ordered, IsFresh
  <2>2. Same(obs, p, o)
    BY DEF Same
  <2>3. IsFresh(obs[p]) => obs[o].at < obs[p].at
    BY <1>0, <2>2 DEF Ordered
  <2> QED BY <1>1, <2>1, <2>3
<1> HIDE DEF IsFresh
<1>8. ~IsFresh(x)
  BY <1>6 DEF IsFresh
<1>9. Shapes(new, vers)
  <2>1. Shape(obs[o], vers) /\ Shape(obs[c], vers)
    BY <1>0 DEF Shapes
  <2>2. Shape(x, vers)
    <3>1. x.url \in Urls /\ x.ver \in 1 .. vers[x.url]
      BY <2>1 DEF Shape
    <3>2. 0 <= vers[x.url]
      BY <1>0, <3>1
    <3> QED BY <1>6, <1>8, <3>1, <3>2 DEF Shape
  <2>3. Shape(z, vers)
    <3>1. obs[c].url \in Urls /\ obs[c].ver \in 1 .. vers[obs[c].url] /\ obs[c].url = obs[o].url
      BY <1>2, <2>1 DEF Shape, Same
    <3>2. (obs[c].state = "ram" => obs[c].data # "loan") /\ (obs[c].state = "disc" => obs[c].data # "own")
      BY <2>1 DEF Shape
    <3> QED BY <1>2, <1>6, <3>1, <3>2 DEF Shape
  <2> QED BY <1>0, <1>3, <2>2, <2>3 DEF Shapes
<1>10. \A p, q \in Objs : Same(new, p, q) <=> Same(obs, p, q)
  BY <1>2, <1>3 DEF Same
<1>11. \A p \in Objs : Same(obs, c, p) => p = o \/ Same(obs, o, p)
  BY <1>2 DEF Same
<1>12. Ordered(new)
  <2> SUFFICES ASSUME NEW p \in Objs, NEW q \in Objs, Same(obs, p, q)
               PROVE  /\ new[p].at > 0 => new[p].at # new[q].at
                      /\ IsFresh(new[p]) => new[q].at < new[p].at
    BY <1>10 DEF Ordered
  <2>0. p # q /\ Same(obs, q, p)
    BY DEF Same
  <2>1. CASE p = o
    BY <1>3, <1>8, <2>1
  <2>2. CASE p = c
    <3>1. CASE q = o
      BY <1>1, <1>3, <1>6, <2>2, <3>1
    <3>2. CASE q # o
      <4>1. obs[q].at < obs[o].at
        BY <1>7, <1>11, <2>2, <3>2
      <4> QED BY <1>1, <1>3, <2>0, <2>2, <3>2, <4>1
    <3> QED BY <3>1, <3>2
  <2>3. CASE p \notin {o, c}
    <3>1. CASE q = o
      <4>1. ~IsFresh(obs[p])
        BY <1>7, <2>0, <3>1
      <4> QED BY <1>1, <1>3, <2>3, <3>1, <4>1
    <3>2. CASE q = c
      <4>1. Same(obs, o, p)
        BY <1>11, <2>0, <2>3, <3>2
      <4>2. obs[p].at < obs[o].at /\ ~IsFresh(obs[p])
        BY <1>7, <4>1
      <4> QED BY <1>1, <1>3, <2>3, <3>2, <4>2
    <3>3. CASE q \notin {o, c}
      BY <1>0, <1>3, <2>3, <3>3 DEF Ordered
    <3> QED BY <3>1, <3>2, <3>3
  <2> QED BY <2>1, <2>2, <2>3
<1>13. OldNotLent(new, None)
  <2> SUFFICES ASSUME NEW p \in Objs, NEW q \in Objs, Same(obs, p, q), new[p].state = "disc", new[q].at < new[p].at,
                      new[q].data = "loan"
               PROVE  FALSE
    BY <1>0, <1>10 DEF OldNotLent
  <2>0. p # q /\ p # o /\ q # o /\ Same(obs, q, p)
    BY <1>3, <1>6 DEF Same
  <2>1. CASE p = c
    <3>1. new[q] = obs[q] /\ obs[c].state = "disc"
      BY <1>3, <2>0, <2>1
    <3>2. Same(obs, q, o) /\ Same(obs, c, q)
      BY <1>2, <2>0, <2>1 DEF Same
    <3>3. obs[q].at <= obs[c].at
      BY <1>2, <3>2
    <3>4. obs[c].at > 0
      BY <1>0, <3>1 DEF Shapes, Shape
    <3>5. obs[c].at # obs[q].at
      BY <1>0, <3>2, <3>4 DEF Ordered
    <3>6. obs[q].at < obs[c].at
      BY <1>1, <3>3, <3>5
    <3> QED BY <1>0, <2>1, <3>1, <3>2, <3>6 DEF OldNotLent
  <2>2. CASE p # c
    <3>1. new[p] = obs[p]
      BY <1>3, <2>0, <2>2
    <3>2. CASE q # c
      BY <1>0, <1>3, <2>0, <3>1, <3>2 DEF OldNotLent
    <3>3. CASE q = c
      <4>1. Same(obs, o, p)
        BY <1>11, <2>0, <3>3
      <4>2. obs[p].at < obs[o].at
        BY <1>7, <4>1
      <4> QED BY <1>1, <1>3, <3>1, <3>3, <4>2
    <3> QED BY <3>2, <3>3
  <2> QED BY <2>1, <2>2
<1>14. \A q, d \in Objs : new[q].cand = d => obs[q].cand = d /\ q \notin {o, c}
  BY <1>0, <1>3, <1>6
<1>15. CandidatesNewest(new)
  <2> SUFFICES ASSUME NEW q \in Objs, NEW d \in Objs, new[q].cand = d
               PROVE  /\ Same(new, q, d) /\ new[d].state # "fetch"
                      /\ \A p \in Objs : Same(new, p, q) => new[p].at <= new[d].at
    BY DEF CandidatesNewest
  <2>1. obs[q].cand = d /\ q \notin {o, c}
    BY <1>14
  <2>2. /\ Same(obs, q, d) /\ obs[d].state # "fetch"
        /\ \A p \in Objs : Same(obs, p, q) => obs[p].at <= obs[d].at
    BY <1>0, <2>1 DEF CandidatesNewest
  <2>3. IsFresh(obs[q])
    <3>1. obs[q].cand # None
      BY <1>0, <2>1
    <3> QED BY <1>0, <3>1 DEF Shapes, Shape, IsFresh
  <2>4. obs[q].url # obs[o].url
    <3>1. ~Same(obs, o, q)
      BY <1>7, <2>3
    <3> QED BY <2>1, <2>2, <3>1 DEF Same
  <2>5. \A p \in Objs : p = q \/ p = d \/ Same(obs, p, q) => new[p] = obs[p]
    BY <1>2, <1>3, <2>2, <2>4 DEF Same
  <2> QED BY <1>10, <2>2, <2>5
<1>16. InUseLoaded(new)
  <2> SUFFICES ASSUME NEW p \in Objs, new[p].state = "disc", new[p].used \/ HasCandidate(new, p)
               PROVE  new[p].data = "loan"
    BY DEF InUseLoaded
  <2>1. p # o
    BY <1>3
  <2>2. CASE p = c
    <3>1. HasCandidate(obs, c)
      BY DEF HasCandidate
    <3> QED BY <1>0, <1>3, <2>2, <3>1 DEF InUseLoaded
  <2>3. CASE p # c
    <3>1. HasCandidate(new, p) => HasCandidate(obs, p)
      BY <1>14 DEF HasCandidate
    <3> QED BY <1>0, <1>3, <2>1, <2>3, <3>1 DEF InUseLoaded
  <2> QED BY <2>2, <2>3
<1> QED BY <1>0, <1>9, <1>12, <1>13, <1>15, <1>16 DEF ObjectsOrdered

-----------------------------------------------------------------------------
\* The loans, counted.

Borrows(obs, wr, o) == obs[o].state # "free" /\ (obs[o].data = "loan" \/ wr = o)
Borrowers(obs, wr, u) == {o \in Objs : Borrows(obs, wr, o) /\ obs[o].url = u}
LoansCounted(s, obs, wr) == \A u \in Urls : RefAt(s, u, "data") = Cardinality(Borrowers(obs, wr, u))
DataAs(s, t) == \A u \in Urls : RefAt(t, u, "data") = RefAt(s, u, "data")
BorrowsAs(obs, wr, new, wn, o) ==
  (Borrows(new, wn, o) <=> Borrows(obs, wr, o)) /\ (Borrows(obs, wr, o) => new[o].url = obs[o].url)
AllBorrowAs(obs, wr, new, wn) == \A o \in Objs : BorrowsAs(obs, wr, new, wn, o)
OthersBorrowAs(obs, wr, new, wn, o) == \A p \in Objs \ {o} : BorrowsAs(obs, wr, new, wn, p)

\* Nobody takes or ends a loan.
LEMMA LoansSame ==
  ASSUME NEW s, NEW t, DataAs(s, t), NEW obs, NEW new, NEW wr, NEW wn, LoansCounted(s, obs, wr),
         AllBorrowAs(obs, wr, new, wn)
  PROVE  LoansCounted(t, new, wn)
<1> SUFFICES ASSUME NEW u \in Urls PROVE RefAt(t, u, "data") = Cardinality(Borrowers(new, wn, u))
  BY DEF LoansCounted
<1>1. Borrowers(new, wn, u) = Borrowers(obs, wr, u)
  BY DEF Borrowers, BorrowsAs, AllBorrowAs, OthersBorrowAs
<1> QED BY <1>1 DEF LoansCounted, DataAs

\* The borrowers can be counted.
LEMMA BorrowersFinite ==
  ASSUME NEW obs, NEW wr, NEW u
  PROVE  IsFiniteSet(Borrowers(obs, wr, u)) /\ Cardinality(Borrowers(obs, wr, u)) \in Nat
<1>1. Borrowers(obs, wr, u) \subseteq Objs /\ IsFiniteSet(Objs)
  BY ObjsAssumption DEF Borrowers
<1>2. IsFiniteSet(Borrowers(obs, wr, u))
  BY <1>1, FS_Subset
<1> QED BY <1>2, FS_CardinalityType

\* One object takes a loan.
LEMMA LoanTaken ==
  ASSUME NEW s, NEW t, NEW u \in Urls, RefsMove(s, t, u, "data", RefAt(s, u, "data") + 1),
         NEW obs, NEW new, NEW wr, NEW wn, LoansCounted(s, obs, wr), NEW o \in Objs,
         ~Borrows(obs, wr, o), Borrows(new, wn, o), new[o].url = u,
         OthersBorrowAs(obs, wr, new, wn, o)
  PROVE  LoansCounted(t, new, wn)
<1> SUFFICES ASSUME NEW w \in Urls PROVE RefAt(t, w, "data") = Cardinality(Borrowers(new, wn, w))
  BY DEF LoansCounted
<1>1. RefAt(t, w, "data") = IF w = u THEN RefAt(s, u, "data") + 1 ELSE RefAt(s, w, "data")
  BY BothElems DEF RefsMove
<1>2. CASE w = u
  <2>1. Borrowers(new, wn, u) = Borrowers(obs, wr, u) \union {o} /\ o \notin Borrowers(obs, wr, u)
    BY DEF Borrowers, BorrowsAs, AllBorrowAs, OthersBorrowAs
  <2>2. Cardinality(Borrowers(new, wn, u)) = Cardinality(Borrowers(obs, wr, u)) + 1
    BY <2>1, BorrowersFinite, FS_AddElement
  <2> QED BY <1>1, <1>2, <2>2 DEF LoansCounted
<1>3. CASE w # u
  <2>1. Borrowers(new, wn, w) = Borrowers(obs, wr, w)
    BY <1>3 DEF Borrowers, BorrowsAs, OthersBorrowAs
  <2> QED BY <1>1, <1>3, <2>1 DEF LoansCounted
<1> QED BY <1>2, <1>3

\* One object ends its loan.
LEMMA LoanEnded ==
  ASSUME NEW s, NEW t, NEW u \in Urls,
         RefsMove(s, t, u, "data", IF RefAt(s, u, "data") > 0 THEN RefAt(s, u, "data") - 1 ELSE 0),
         NEW obs, NEW new, NEW wr, NEW wn, LoansCounted(s, obs, wr), NEW o \in Objs,
         Borrows(obs, wr, o), obs[o].url = u, ~Borrows(new, wn, o),
         OthersBorrowAs(obs, wr, new, wn, o)
  PROVE  LoansCounted(t, new, wn)
<1> SUFFICES ASSUME NEW w \in Urls PROVE RefAt(t, w, "data") = Cardinality(Borrowers(new, wn, w))
  BY DEF LoansCounted
<1>1. RefAt(t, w, "data") = IF w # u THEN RefAt(s, w, "data")
                            ELSE IF RefAt(s, u, "data") > 0 THEN RefAt(s, u, "data") - 1 ELSE 0
  BY BothElems DEF RefsMove
<1>2. CASE w = u
  <2>1. Borrowers(new, wn, u) = Borrowers(obs, wr, u) \ {o} /\ o \in Borrowers(obs, wr, u)
    BY DEF Borrowers, BorrowsAs, AllBorrowAs, OthersBorrowAs
  <2>2. Cardinality(Borrowers(new, wn, u)) = Cardinality(Borrowers(obs, wr, u)) - 1
    <3>1. IsFiniteSet(Borrowers(obs, wr, u))
      BY BorrowersFinite
    <3>2. Cardinality(Borrowers(obs, wr, u) \ {o}) = Cardinality(Borrowers(obs, wr, u)) - 1
      BY <2>1, <3>1, FS_RemoveElement
    <3> QED BY <2>1, <3>2
  <2>3. Cardinality(Borrowers(new, wn, u)) \in Nat /\ Cardinality(Borrowers(obs, wr, u)) \in Nat
    BY BorrowersFinite
  <2>4. RefAt(s, u, "data") = Cardinality(Borrowers(obs, wr, u))
    BY DEF LoansCounted
  <2> QED BY <1>1, <1>2, <2>2, <2>3, <2>4
<1>3. CASE w # u
  <2>1. Borrowers(new, wn, w) = Borrowers(obs, wr, w)
    BY <1>3 DEF Borrowers, BorrowsAs, OthersBorrowAs
  <2> QED BY <1>1, <1>3, <2>1 DEF LoansCounted
<1> QED BY <1>2, <1>3

\* With no loan counted nobody borrows.
LEMMA NobodyBorrows ==
  ASSUME NEW s, NEW obs, NEW wr, LoansCounted(s, obs, wr), NEW u \in Urls, RefAt(s, u, "data") = 0
  PROVE  \A o \in Objs : Borrows(obs, wr, o) => obs[o].url # u
<1>1. Cardinality(Borrowers(obs, wr, u)) = 0
  BY DEF LoansCounted
<1>2. Borrowers(obs, wr, u) = {}
  BY <1>1, BorrowersFinite, FS_EmptySet
<1> QED BY <1>2 DEF Borrowers

\* Nothing changes,
LEMMA DataAsSelf == ASSUME NEW s PROVE DataAs(s, s)
BY DEF DataAs

\* as when no count does.
LEMMA DataAsRefs == ASSUME NEW s, NEW t, RefsAs(s, t) PROVE DataAs(s, t)
BY BothElems DEF DataAs, RefsAs

\* The most recent object of a URL gets its data, or does not.
Held(s, obs, vers) == ObjectsOrdered(obs, vers, None, "up") /\ LoansCounted(s, obs, None)

\* The most recent object may take its data on loan.
LEMMA LoanHeld ==
  ASSUME NEW s, NEW t, NEW obs, NEW vers, Held(s, obs, vers), NEW o \in Objs,
         obs[o].state = "disc", obs[o].data = "none", obs[o].url \in Urls, Newer(obs, o),
         NEW y \in Object, y.at = obs[o].at, y.state = "disc", y.fresh = obs[o].fresh, y.url = obs[o].url,
         y.ver = obs[o].ver, y.cand = obs[o].cand, y.data = "loan",
         RefsMove(s, t, y.url, "data", RefAt(s, y.url, "data") + 1),
         NEW mid, mid = [obs EXCEPT ![o] = y]
  PROVE  Held(t, mid, vers)
<1>0. ObjectsOrdered(obs, vers, None, "up") /\ LoansCounted(s, obs, None)
  BY DEF Held
<1>1. obs \in [Objs -> Object] /\ Shape(obs[o], vers)
  BY <1>0 DEF ObjectsOrdered, Shapes
<1>2. Shape(y, vers)
  BY <1>1 DEF Shape, IsFresh
<1>3. Allowed(obs, o, y, None, None, "up")
  <2>1. Ages(obs[o], y)
    BY DEF Ages, IsFresh
  <2> QED BY <2>1, ObjsAssumption DEF Allowed
<1>4. ObjectsOrdered(mid, vers, None, "up")
  BY <1>0, <1>2, <1>3, ChangeKeeps
<1>5. mid[o] = y /\ \A p \in Objs \ {o} : mid[p] = obs[p]
  BY <1>1
<1>6. ~Borrows(obs, None, o) /\ Borrows(mid, None, o) /\ mid[o].url = y.url /\ y.url \in Urls
  BY <1>5, ObjsAssumption DEF Borrows
<1>7. OthersBorrowAs(obs, None, mid, None, o)
  BY <1>5 DEF OthersBorrowAs, BorrowsAs, Borrows
<1>8. LoansCounted(t, mid, None)
  BY <1>0, <1>6, <1>7, LoanTaken
<1> QED BY <1>4, <1>8 DEF Held

Loaded(obs, vers, x, r, mid) ==
  /\ r.ok => Held(r.st, mid, vers) /\ (r.x.state = "disc" => r.x.data = "loan")
  /\ ~r.ok => Held(r.st, obs, vers) /\ x.state = "disc"
  /\ r.x.at = x.at /\ r.x.state = x.state /\ r.x.fresh = x.fresh /\ r.x.url = x.url
  /\ r.x \in Object /\ r.x.ver = x.ver /\ r.x.cand = x.cand

\* llcache_retrieve_persisted_data, for the most recent object of its URL.
LEMMA LoadedHeld ==
  ASSUME NEW s, Good(s), NEW obs, NEW vers, Held(s, obs, vers), NEW o \in Objs,
         NEW x, x = obs[o], x.state # "free", x.url \in Urls, Newer(obs, o),
         NEW r, r \in LoadData(s, x), NEW mid, mid = [obs EXCEPT ![o] = r.x]
  PROVE  Loaded(obs, vers, x, r, mid)
<1>0. ObjectsOrdered(obs, vers, None, "up") /\ LoansCounted(s, obs, None)
  BY DEF Held
<1>1. obs \in [Objs -> Object] /\ x \in Object /\ Shape(x, vers)
  BY <1>0 DEF ObjectsOrdered, Shapes
<1>2. DataLoaded(s, x, r)
  BY <1>1, LoadDataFacts
<1>3. CASE x.state # "disc" \/ x.data # "none"
  <2>1. r.st = s /\ r.x = x /\ r.ok
    BY <1>2, <1>3 DEF DataLoaded
  <2>2. mid = obs
    BY <1>1, <2>1
  <2>3. x.state = "disc" => x.data = "loan"
    BY <1>1, <1>3 DEF Shape, Object
  <2> QED BY <1>1, <2>1, <2>2, <2>3 DEF Loaded
<1>4. CASE x.state = "disc" /\ x.data = "none" /\ r.ok
  <2>1. r.x = [x EXCEPT !.data = "loan"] /\ RefsMove(s, r.st, x.url, "data", RefAt(s, x.url, "data") + 1)
    BY <1>2, <1>4 DEF DataLoaded
  <2>2. /\ r.x \in Object /\ r.x.at = x.at /\ r.x.state = x.state /\ r.x.fresh = x.fresh /\ r.x.url = x.url
        /\ r.x.ver = x.ver /\ r.x.cand = x.cand /\ r.x.data = "loan"
    BY <1>1, <2>1 DEF Object
  <2>3. Held(r.st, mid, vers)
    BY <1>4, <2>1, <2>2, LoanHeld
  <2> QED BY <1>4, <2>2, <2>3 DEF Loaded
<1>5. CASE x.state = "disc" /\ x.data = "none" /\ ~r.ok
  <2>1. r.x = x /\ RefsAs(s, r.st)
    BY <1>2, <1>5 DEF DataLoaded
  <2>2. LoansCounted(r.st, obs, None)
    <3>1. AllBorrowAs(obs, None, obs, None)
      BY DEF AllBorrowAs, BorrowsAs
    <3> QED BY <1>0, <2>1, <3>1, LoansSame, DataAsRefs
  <2> QED BY <1>0, <1>1, <1>5, <2>1, <2>2 DEF Held, Loaded
<1> QED BY <1>3, <1>4, <1>5

-----------------------------------------------------------------------------
\* llcache_object_retrieve_from_cache, for the most recent object.

OthersStale(obs, u, o) == \A p \in Objs \ {o} : obs[p].state # "free" /\ obs[p].url = u => ~IsFresh(obs[p])

\* The others of its URL are not fresh.
LEMMA NewestAlone ==
  ASSUME NEW obs \in [Objs -> Object], Ordered(obs), NEW o \in Objs, obs[o].state # "free", Newer(obs, o)
  PROVE  OthersStale(obs, obs[o].url, o)
<1> SUFFICES ASSUME NEW p \in Objs \ {o}, obs[p].state # "free", obs[p].url = obs[o].url, IsFresh(obs[p])
             PROVE  FALSE
  BY DEF OthersStale
<1>1. Same(obs, p, o) /\ Same(obs, o, p)
  BY DEF Same
<1>2. obs[o].at < obs[p].at /\ obs[p].at <= obs[o].at
  BY <1>1 DEF Ordered, Newer
<1> QED BY <1>2, ObjectAt

\* A fetch starts for a URL none of whose other objects is fresh.
LEMMA StartHeld ==
  ASSUME NEW s, NEW obs, Held(s, obs, version), NEW u \in Urls, NEW o \in Objs, NEW cand \in Objs \union {None},
         StartFetch(u, o, obs, cand), OthersStale(obs, u, o),
         obs[o].state = "free" \/ (obs[o].url = u /\ obs[o].data # "loan"),
         cand # None =>
           /\ cand # o /\ obs[cand].state \in {"ram", "disc"} /\ obs[cand].url = u
           /\ \A p \in Objs \ {o} : Same(obs, p, cand) => obs[p].at <= obs[cand].at
           /\ obs[cand].state = "disc" => obs[cand].data = "loan"
  PROVE  Held(s, obj', version')
<1> DEFINE y == NewFetch(u, cand)
<1>0. ObjectsOrdered(obs, version, None, "up") /\ LoansCounted(s, obs, None)
  BY DEF Held
<1>1. obs \in [Objs -> Object] /\ version \in [Urls -> Nat]
  BY <1>0 DEF ObjectsOrdered
<1>2. /\ y \in Object /\ y.url = u /\ y.ver = version[u] + 1 /\ y.at = version[u] + 1
      /\ y.state = "fetch" /\ y.data = "none" /\ y.cand = cand /\ ~y.fresh
  BY <1>1, NewFetchType
<1>3. obj' = [obs EXCEPT ![o] = y] /\ version' = [version EXCEPT ![u] = @ + 1]
  BY DEF StartFetch
<1> HIDE DEF y
<1>4. ObjectsOrdered(obj', version', None, "up")
  BY <1>0, <1>2, <1>3, FetchKeeps DEF OthersStale
<1>5. LoansCounted(s, obj', None)
  <2>1. obj'[o] = y /\ \A p \in Objs \ {o} : obj'[p] = obs[p]
    BY <1>1, <1>3
  <2>2. AllBorrowAs(obs, None, obj', None)
    BY <1>2, <2>1, ObjsAssumption DEF AllBorrowAs, BorrowsAs, Borrows
  <2> QED BY <1>0, <2>2, LoansSame, DataAsSelf
<1> QED BY <1>4, <1>5 DEF Held

\* An object that has its data is used.
LEMMA UsedHeld ==
  ASSUME NEW s, NEW obs, NEW vers, Held(s, obs, vers), NEW o \in Objs, obs[o].state # "free",
         obs[o].state = "disc" => obs[o].data = "loan",
         NEW y \in Object, y = [obs[o] EXCEPT !.used = TRUE], NEW new, new = [obs EXCEPT ![o] = y]
  PROVE  Held(s, new, vers)
<1>0. ObjectsOrdered(obs, vers, None, "up") /\ LoansCounted(s, obs, None)
  BY DEF Held
<1>1. obs \in [Objs -> Object] /\ Shape(obs[o], vers) /\ CandidatesNewest(obs)
  BY <1>0 DEF ObjectsOrdered, Shapes
<1>2. /\ y.at = obs[o].at /\ y.state = obs[o].state /\ y.fresh = obs[o].fresh /\ y.url = obs[o].url
      /\ y.ver = obs[o].ver /\ y.cand = obs[o].cand /\ y.data = obs[o].data
  BY <1>1 DEF Object
<1>3. Shape(y, vers) /\ IsFresh(y) = IsFresh(obs[o])
  BY <1>1, <1>2 DEF Shape, IsFresh
<1>4. HasCandidate(obs, o) => obs[o].state # "fetch"
  BY <1>1 DEF HasCandidate, CandidatesNewest
<1>5. Allowed(obs, o, y, None, None, "up")
  BY <1>2, <1>3, <1>4, ObjsAssumption DEF Allowed, Ages
<1>6. ObjectsOrdered(new, vers, None, "up")
  BY <1>0, <1>3, <1>5, ChangeKeeps
<1>7. LoansCounted(s, new, None)
  <2>1. new[o] = y /\ \A p \in Objs \ {o} : new[p] = obs[p]
    BY <1>1
  <2>2. AllBorrowAs(obs, None, new, None)
    BY <1>2, <2>1, ObjsAssumption DEF AllBorrowAs, BorrowsAs, Borrows
  <2> QED BY <1>0, <2>2, LoansSame, DataAsSelf
<1> QED BY <1>6, <1>7 DEF Held

\* llcache_object_retrieve_from_cache keeps the loans counted.
LEMMA UseNewestHeld ==
  ASSUME NEW s, Good(s), NEW u \in Urls, NEW o \in Objs, NEW x, obj \in [Objs -> Object],
         NEW obs, obs = [obj EXCEPT ![o] = x], x.state # "free", x.url = u, Newer(obs, o),
         Held(s, obs, version), UseNewest(u, s, o, x)
  PROVE  Held(st', obj', version')
<1>1. PICK r \in LoadData(s, x) :
        /\ st' = r.st
        /\ \/ /\ r.ok /\ IsFresh(x)
              /\ obj' = [obj EXCEPT ![o] = [r.x EXCEPT !.used = TRUE]]
              /\ UNCHANGED version
           \/ /\ r.ok /\ ~IsFresh(x)
              /\ \E p \in FreeSlots \ {o} : StartFetch(u, p, [obj EXCEPT ![o] = r.x], o)
           \/ ~r.ok /\ StartFetch(u, o, obj, None)
  BY DEF UseNewest
<1> DEFINE mid == [obs EXCEPT ![o] = r.x]
<1>2. obs[o] = x /\ obs \in [Objs -> Object] /\ Ordered(obs) /\ CandidatesNewest(obs)
  BY DEF Held, ObjectsOrdered
<1>a. mid = [obs EXCEPT ![o] = r.x]
  OBVIOUS
<1> HIDE DEF mid
<1>3. /\ r.ok => Held(r.st, mid, version) /\ (r.x.state = "disc" => r.x.data = "loan")
      /\ ~r.ok => Held(r.st, obs, version) /\ x.state = "disc"
      /\ r.x.at = x.at /\ r.x.state = x.state /\ r.x.fresh = x.fresh /\ r.x.url = x.url
      /\ r.x \in Object /\ r.x.ver = x.ver /\ r.x.cand = x.cand
  <2>1. Loaded(obs, version, x, r, mid)
    BY <1>a, <1>1, <1>2, LoadedHeld
  <2> QED BY <2>1 DEF Loaded
<1>4. mid[o] = r.x /\ (\A p \in Objs \ {o} : mid[p] = obs[p] /\ obs[p] = obj[p])
      /\ mid = [obj EXCEPT ![o] = r.x]
  BY <1>a, <1>2
<1>5. OthersStale(obs, u, o)
  BY <1>2, NewestAlone
<1>6. CASE r.ok /\ IsFresh(x) /\ obj' = [obj EXCEPT ![o] = [r.x EXCEPT !.used = TRUE]] /\ UNCHANGED version
  <2> DEFINE y == [r.x EXCEPT !.used = TRUE]
  <2>1. y \in Object /\ y = [mid[o] EXCEPT !.used = TRUE]
    BY <1>3, <1>4 DEF Object
  <2>2. obj' = [mid EXCEPT ![o] = y]
    BY <1>4, <1>6
  <2> HIDE DEF y
  <2>3. Held(r.st, mid, version) /\ mid[o].state # "free" /\ (mid[o].state = "disc" => mid[o].data = "loan")
    BY <1>3, <1>4, <1>6
  <2>4. Held(r.st, obj', version)
    BY <2>1, <2>2, <2>3, UsedHeld
  <2> QED BY <1>1, <1>6, <2>4
<1>7. ASSUME r.ok, ~IsFresh(x), NEW p \in FreeSlots \ {o}, StartFetch(u, p, [obj EXCEPT ![o] = r.x], o)
      PROVE  Held(r.st, obj', version')
  <2>1. p \in Objs /\ obj[p].state = "free" /\ p # o /\ mid[p].state = "free" /\ StartFetch(u, p, mid, o)
    BY <1>4, <1>7 DEF FreeSlots
  <2>2. OthersStale(mid, u, p)
    <3> SUFFICES ASSUME NEW q \in Objs \ {p}, mid[q].state # "free", mid[q].url = u PROVE ~IsFresh(mid[q])
      BY DEF OthersStale
    <3>1. CASE q = o
      BY <1>3, <1>4, <1>7, <3>1 DEF IsFresh
    <3>2. CASE q # o
      BY <1>4, <1>5, <3>2 DEF OthersStale
    <3> QED BY <3>1, <3>2
  <2>3. /\ mid[o].state \in {"ram", "disc"} /\ mid[o].url = u
        /\ mid[o].state = "disc" => mid[o].data = "loan"
    <3>1. x.state # "fetch" /\ x \in Object
      BY <1>2, <1>7 DEF IsFresh
    <3> QED BY <1>3, <1>4, <1>7, <3>1 DEF Object
  <2>4. \A q \in Objs \ {p} : Same(mid, q, o) => mid[q].at <= mid[o].at
    <3> SUFFICES ASSUME NEW q \in Objs \ {p}, Same(mid, q, o) PROVE mid[q].at <= mid[o].at
      OBVIOUS
    <3>1. q # o /\ mid[q] = obs[q] /\ Same(obs, o, q)
      BY <1>2, <1>3, <1>4 DEF Same
    <3> QED BY <1>2, <1>3, <1>4, <3>1 DEF Newer
  <2>5. Held(r.st, mid, version)
    BY <1>3, <1>7
  <2> QED BY <2>1, <2>2, <2>3, <2>4, <2>5, StartHeld
<1>8. CASE ~r.ok /\ StartFetch(u, o, obj, None)
  <2>1. /\ obj' = [obs EXCEPT ![o] = NewFetch(u, None)] /\ version' = [version EXCEPT ![u] = @ + 1]
        /\ version[u] + 1 \in Versions
    BY <1>8 DEF StartFetch
  <2>2. StartFetch(u, o, obs, None)
    BY <2>1 DEF StartFetch
  <2>3. x.data # "loan"
    BY <1>1, <1>8 DEF LoadData
  <2>4. Held(r.st, obs, version) /\ obs[o].url = u /\ obs[o].data # "loan"
    BY <1>2, <1>3, <1>8, <2>3
  <2> QED BY <1>1, <1>5, <2>2, <2>4, StartHeld
<1> QED BY <1>1, <1>6, <1>7, <1>8

-----------------------------------------------------------------------------
\* What is stored was fetched.

\* What is stored was fetched.
WasFetched(c, vers) == c # None => c[2] \in 1 .. vers[c[1]]
Recent(s, vers) ==
  \A e \in Elems : /\ \A b \in Blocks : WasFetched(s.blocks[e][b], vers)
                   /\ \A h \in Range(Hash) : WasFetched(s.files[e][h], vers)
Later(vers, vn) == \A u \in Urls : vers[u] <= vn[u]

\* What was fetched was fetched,
LEMMA WasFetchedLater ==
  ASSUME NEW vers \in [Urls -> Nat], NEW vn \in [Urls -> Nat], Later(vers, vn), NEW c \in Stored, WasFetched(c, vers)
  PROVE  WasFetched(c, vn)
<1> SUFFICES ASSUME c # None PROVE c[2] \in 1 .. vn[c[1]]
  BY DEF WasFetched
<1>1. c[1] \in Urls
  BY DEF Stored, Contents
<1>2. c[2] \in 1 .. vers[c[1]] /\ vers[c[1]] <= vn[c[1]] /\ vers[c[1]] \in Nat /\ vn[c[1]] \in Nat
  BY <1>1 DEF WasFetched, Later
<1> QED BY <1>2

\* also when entries have gone.
LEMMA RecentLater ==
  ASSUME NEW s, Good(s), NEW t, Shrinks(s, t), NEW vers \in [Urls -> Nat], NEW vn \in [Urls -> Nat], Later(vers, vn),
         Recent(s, vers)
  PROVE  Recent(t, vn)
<1> SUFFICES ASSUME NEW e \in Elems
             PROVE  /\ \A b \in Blocks : WasFetched(t.blocks[e][b], vn)
                    /\ \A h \in Range(Hash) : WasFetched(t.files[e][h], vn)
  BY DEF Recent
<1>1. s \in Stores /\ t.blocks = s.blocks
  BY DEF Good, Shrinks
<1>2. ASSUME NEW b \in Blocks PROVE WasFetched(t.blocks[e][b], vn)
  <2>1. s.blocks[e][b] \in Stored /\ WasFetched(s.blocks[e][b], vers)
    BY <1>1 DEF Stores, Recent
  <2> QED BY <1>1, <2>1, WasFetchedLater
<1>3. ASSUME NEW h \in Range(Hash) PROVE WasFetched(t.files[e][h], vn)
  <2>1. s.files[e][h] \in Stored /\ WasFetched(s.files[e][h], vers)
    BY <1>1 DEF Stores, Recent
  <2>2. WasFetched(s.files[e][h], vn)
    BY <2>1, WasFetchedLater
  <2>3. t.files[e][h] \in {s.files[e][h], None}
    BY DEF Shrinks
  <2> QED BY <2>2, <2>3 DEF WasFetched
<1> QED BY <1>2, <1>3

\* What is stored now was fetched.
LEMMA RecentPut ==
  ASSUME NEW s, NEW t, NEW u, NEW e, NEW c, IsPut(s, t, u, e, c), NEW vers, Recent(s, vers), WasFetched(c, vers)
  PROVE  Recent(t, vers)
<1> DEFINE x == t.entries[u].elem[e]
<1>1. /\ x.block # 0 => t.files = s.files /\ \A d \in Elems, b \in Blocks : t.blocks[d][b] \in {c, s.blocks[d][b]}
      /\ x.block = 0 => t.blocks = s.blocks /\ \A d \in Elems, h \in Range(Hash) : t.files[d][h] \in {c, s.files[d][h]}
  BY DEF IsPut
<1> HIDE DEF x
<1>2. /\ \A d \in Elems, b \in Blocks : t.blocks[d][b] \in {c, s.blocks[d][b]}
      /\ \A d \in Elems, h \in Range(Hash) : t.files[d][h] \in {c, s.files[d][h]}
  BY <1>1
<1> HIDE DEF WasFetched
<1> QED BY <1>2 DEF Recent

\* The version that metadata found in the store names.
LEMMA FoundRecent ==
  ASSUME NEW s, Good(s), MetaFree(s), NEW vers, Recent(s, vers), NEW u \in Urls, NEW r \in Fetch(s, u, "meta"),
         OwnMetadata(u, r.val)
  PROVE  r.val[2] \in 1 .. vers[u]
<1>1. r.val # None /\ r.val[1] = u
  BY DEF OwnMetadata
<1>2. u \in DOMAIN s.entries /\ r.val = OnDisc(s, u, "meta") /\ s \in Stores
  <2>1. RefAt(s, u, "meta") = 0
    BY DEF MetaFree
  <2> QED BY <1>1, <2>1, BothElems, FetchFacts DEF Good
<1> DEFINE en == s.entries[u].elem["meta"]
<1>3. en.size <= 1 /\ en.size \in Nat /\ en.block \in 0 .. LastBlock /\ Hash[u] \in Range(Hash)
  <2>1. s.entries \in Tables
    BY <1>2 DEF Stores
  <2>2. Hash[u] \in Range(Hash)
    BY StoreAssumption DEF Range
  <2> QED BY <1>2, <2>1, <2>2, BothElems, ElementsType DEF Good, GoodTable, MetaFits
<1>4. en.size # 0 /\ r.val = IF en.block = 0 THEN s.files["meta"][Hash[u]] ELSE s.blocks["meta"][en.block]
  BY <1>1, <1>2, <1>3, BothElems, OnDiscType
<1>5. en.block # 0 => en.block \in Blocks
  BY <1>3, StoreAssumption DEF Blocks
<1> HIDE DEF en
<1>6. WasFetched(r.val, vers)
  BY <1>3, <1>4, <1>5, BothElems DEF Recent
<1> QED BY <1>1, <1>6 DEF WasFetched

\* An object is made of what the store holds, the first of its URL.
LEMMA FoundHeld ==
  ASSUME NEW s, Held(s, obj, version), NEW u \in Urls, Listed(u) = {}, NEW o \in Objs, obj[o].state = "free",
         NEW x \in Object, x.url = u, x.ver \in 1 .. version[u], x.at = x.ver, x.state = "disc", x.data = "none",
         ~x.used, x.cand = None, NEW obs, obs = [obj EXCEPT ![o] = x]
  PROVE  Held(s, obs, version) /\ Newer(obs, o) /\ obs[o] = x
<1>0. /\ ObjectsOrdered(obj, version, None, "up") /\ LoansCounted(s, obj, None) /\ None \notin Objs
      /\ obj \in [Objs -> Object] /\ version \in [Urls -> Nat]
  BY ObjsAssumption DEF Held, ObjectsOrdered
<1>1. obs \in [Objs -> Object] /\ obs[o] = x /\ \A p \in Objs \ {o} : obs[p] = obj[p]
  BY <1>0
<1>2. \A p \in Objs : obj[p].state # "free" => obj[p].url # u
  BY DEF Listed
<1>3. \A p, q \in Objs : Same(obs, p, q) => p # o /\ q # o /\ Same(obj, p, q)
  BY <1>1, <1>2 DEF Same
<1>4. \A p, q \in Objs : Same(obj, p, q) => p # o /\ q # o /\ Same(obs, p, q)
  BY <1>1 DEF Same
<1>5. Shapes(obs, version)
  <2>1. Shape(x, version)
    BY <1>0 DEF Shape
  <2> QED BY <1>0, <1>1, <2>1 DEF ObjectsOrdered, Shapes
<1>6. Ordered(obs)
  BY <1>0, <1>1, <1>3 DEF ObjectsOrdered, Ordered
<1>7. OldNotLent(obs, None)
  BY <1>0, <1>1, <1>3 DEF ObjectsOrdered, OldNotLent
<1>8. \A q, c \in Objs : obs[q].cand = c => obj[q].cand = c /\ q # o /\ c # o
  <2> SUFFICES ASSUME NEW q \in Objs, NEW c \in Objs, obs[q].cand = c PROVE obj[q].cand = c /\ q # o /\ c # o
    OBVIOUS
  <2>1. q # o /\ obj[q].cand = c
    BY <1>0, <1>1
  <2>2. obj[c].state # "free"
    BY <1>0, <2>1 DEF ObjectsOrdered, CandidatesNewest, Same
  <2> QED BY <2>1, <2>2
<1>9. CandidatesNewest(obs)
  <2> SUFFICES ASSUME NEW q \in Objs, NEW c \in Objs, obs[q].cand = c
               PROVE  /\ Same(obs, q, c) /\ obs[c].state # "fetch"
                      /\ \A p \in Objs : Same(obs, p, q) => obs[p].at <= obs[c].at
    BY DEF CandidatesNewest
  <2>1. obj[q].cand = c /\ q # o /\ c # o
    BY <1>8
  <2>2. /\ Same(obj, q, c) /\ obj[c].state # "fetch"
        /\ \A p \in Objs : Same(obj, p, q) => obj[p].at <= obj[c].at
    BY <1>0, <2>1 DEF ObjectsOrdered, CandidatesNewest
  <2> QED BY <1>1, <1>3, <1>4, <2>1, <2>2
<1>10. InUseLoaded(obs)
  <2> SUFFICES ASSUME NEW p \in Objs, obs[p].state = "disc", obs[p].used \/ HasCandidate(obs, p)
               PROVE  obs[p].data = "loan"
    BY DEF InUseLoaded
  <2>1. p # o /\ (HasCandidate(obs, p) => HasCandidate(obj, p))
    BY <1>1, <1>8 DEF HasCandidate
  <2> QED BY <1>0, <1>1, <2>1 DEF ObjectsOrdered, InUseLoaded
<1>11. AllBorrowAs(obj, None, obs, None)
  BY <1>0, <1>1 DEF AllBorrowAs, BorrowsAs, Borrows
<1>12. LoansCounted(s, obs, None)
  BY <1>0, <1>11, LoansSame, DataAsSelf
<1>13. ObjectsOrdered(obs, version, None, "up")
  BY <1>0, <1>1, <1>5, <1>6, <1>7, <1>9, <1>10 DEF ObjectsOrdered
<1>14. Newer(obs, o)
  BY <1>3 DEF Newer
<1> QED BY <1>1, <1>12, <1>13, <1>14 DEF Held

-----------------------------------------------------------------------------
\* The retrievals, and an object that is dropped.

\* A retrieval keeps the loans counted, with an object in memory
LEMMA RetrieveKnownHeld ==
  ASSUME Accounting, Held(st, obj, version), NEW u \in Urls, RetrieveKnown(u)
  PROVE  Held(st', obj', version')
<1>1. PICK o \in Newest(u) : UseNewest(u, st, o, obj[o])
  BY DEF RetrieveKnown
<1>2. o \in Objs /\ obj[o].state # "free" /\ obj[o].url = u
  BY <1>1 DEF Newest, Listed
<1>3. Good(st) /\ obj \in [Objs -> Object]
  BY DEF Accounting, StoreTypes, FineObjects
<1>4. Newer(obj, o)
  BY <1>1, <1>2 DEF Newest, Listed, Newer, Same
<1>5. obj = [obj EXCEPT ![o] = obj[o]]
  BY <1>3
<1> QED BY <1>1, <1>2, <1>3, <1>4, <1>5, UseNewestHeld

\* or without.
LEMMA RetrieveUnknownHeld ==
  ASSUME Accounting, MetaFree(st), Recent(st, version), Held(st, obj, version), NEW u \in Urls, RetrieveUnknown(u)
  PROVE  Held(st', obj', version')
<1>1. PICK o \in FreeSlots, r \in Fetch(st, u, "meta"), f \in BOOLEAN :
        \/ /\ OwnMetadata(u, r.val)
           /\ UseNewest(u, Processed(u, r), o,
                 [Free EXCEPT !.url = u, !.ver = r.val[2], !.at = r.val[2],
                              !.state = "disc", !.fresh = f])
        \/ /\ ~OwnMetadata(u, r.val)
           /\ st' = Processed(u, r)
           /\ StartFetch(u, o, obj, None)
  BY DEF RetrieveUnknown
<1>2. /\ o \in Objs /\ obj[o].state = "free" /\ Good(st) /\ obj \in [Objs -> Object]
      /\ version \in [Urls -> Nat]
      /\ Listed(u) = {}
  BY <1>1 DEF FreeSlots, Accounting, StoreTypes, FineObjects, RetrieveUnknown
<1> DEFINE s == Processed(u, r)
<1>3. RefsAs(st, s) /\ Good(s)
  <2>1. Softens(st, s) /\ RefsAs(st, s)
    BY <1>1, <1>2, ProcessedFacts
  <2> QED BY <2>1, SoftensGood
<1> HIDE DEF s
<1>4. Held(s, obj, version)
  <2>1. AllBorrowAs(obj, None, obj, None)
    BY DEF AllBorrowAs, BorrowsAs
  <2> QED BY <1>3, <2>1, LoansSame, DataAsRefs DEF Held
<1>5. ASSUME OwnMetadata(u, r.val),
             UseNewest(u, s, o, [Free EXCEPT !.url = u, !.ver = r.val[2], !.at = r.val[2], !.state = "disc", !.fresh = f])
      PROVE  Held(st', obj', version')
  <2> DEFINE x == [Free EXCEPT !.url = u, !.ver = r.val[2], !.at = r.val[2], !.state = "disc", !.fresh = f]
             obs == [obj EXCEPT ![o] = x]
  <2>1. r.val[2] \in Versions /\ r.val[2] \in Nat /\ r.val[2] \in 1 .. version[u]
    BY <1>1, <1>2, <1>5, OwnMetadataFacts, FoundRecent
  <2>2. /\ x \in Object /\ x.url = u /\ x.ver \in 1 .. version[u] /\ x.at = x.ver /\ x.state = "disc"
        /\ x.data = "none"
        /\ ~x.used /\ x.cand = None /\ x.state # "free"
    BY <2>1 DEF Object, Free
  <2>3. UseNewest(u, s, o, x)
    BY <1>5
  <2> HIDE DEF x
  <2>4. obs = [obj EXCEPT ![o] = x]
    OBVIOUS
  <2> HIDE DEF obs
  <2>5. Held(s, obs, version) /\ Newer(obs, o)
    BY <1>2, <1>4, <2>2, <2>4, FoundHeld
  <2> QED BY <1>2, <1>3, <2>2, <2>3, <2>4, <2>5, UseNewestHeld
<1>6. ASSUME st' = s, StartFetch(u, o, obj, None) PROVE Held(st', obj', version')
  <2>1. OthersStale(obj, u, o)
    BY <1>2 DEF OthersStale, Listed
  <2> QED BY <1>2, <1>4, <1>6, <2>1, StartHeld
<1> QED BY <1>1, <1>5, <1>6 DEF s

\* Time only goes forward.
LEMMA VersionsGrow ==
  ASSUME version \in [Urls -> Nat], StoreNext
  PROVE  Later(version, version') /\ version' \in [Urls -> Nat]
<1>1. ASSUME UNCHANGED version PROVE Later(version, version') /\ version' \in [Urls -> Nat]
  BY <1>1 DEF Later
<1>2. ASSUME NEW u \in Urls, NEW o, NEW obs, NEW cand, StartFetch(u, o, obs, cand)
      PROVE  Later(version, version') /\ version' \in [Urls -> Nat]
  <2>1. version' = [version EXCEPT ![u] = @ + 1]
    BY <1>2 DEF StartFetch
  <2> QED BY <2>1 DEF Later
<1>3. ASSUME NEW u \in Urls, NEW s, NEW o, NEW x, UseNewest(u, s, o, x)
      PROVE  Later(version, version') /\ version' \in [Urls -> Nat]
  <2>1. \/ UNCHANGED version
        \/ \E p, obs, cand : StartFetch(u, p, obs, cand)
    BY <1>3 DEF UseNewest
  <2> QED BY <1>1, <1>2, <2>1
<1>4. ASSUME NEW u \in Urls, RetrieveKnown(u) \/ RetrieveUnknown(u)
      PROVE  Later(version, version') /\ version' \in [Urls -> Nat]
  <2>1. (\E s, o, x : UseNewest(u, s, o, x)) \/ (\E o, obs, cand : StartFetch(u, o, obs, cand))
    BY <1>4 DEF RetrieveKnown, RetrieveUnknown
  <2> QED BY <1>2, <1>3, <2>1
<1>5. ASSUME NEW o \in Objs,
         \/ FetchFinishes(o) \/ FetchNotModified(o) \/ FetchFails(o)
         \/ Leave(o) \/ Expire(o)
         \/ PersistData(o) \/ PersistMeta(o)
         \/ DiscardStale(o) \/ ReleaseData(o) \/ DropBacked(o) \/ DropFresh(o)
         \/ DestroyCached(o)
      PROVE UNCHANGED version
  BY <1>5 DEF FetchFinishes, FetchNotModified, FetchFails, Leave, Expire, PersistData, PersistMeta,
       DiscardStale, ReleaseData, DropBacked, DropFresh, DestroyCached
<1>6. CASE Maintenance \/ EntriesReplaced \/ BlocksReplaced \/ Finalise \/ StoreFinalised \/ Kill \/ Start
  BY <1>1, <1>6 DEF Maintenance, EntriesReplaced, BlocksReplaced, Finalise, StoreFinalised, Kill, Start, mem
<1> QED BY <1>1, <1>4, <1>5, <1>6 DEF StoreNext

\* One object changes, and the loans with it at most.
Counted(s, obs, vers, ph) == ObjectsOrdered(obs, vers, None, ph) /\ LoansCounted(s, obs, None)

\* A change of one object that neither takes nor ends a loan.
LEMMA ChangeCounted ==
  ASSUME NEW s, NEW t, NEW obs, NEW vers, NEW ph, Counted(s, obs, vers, ph), DataAs(s, t),
         NEW o \in Objs, NEW x \in Object, Shape(x, vers), Allowed(obs, o, x, None, None, ph),
         Borrows(obs, None, o) => x.state # "free" /\ x.data = "loan",
         ~Borrows(obs, None, o) => x.state = "free" \/ x.data # "loan",
         NEW new, new = [obs EXCEPT ![o] = x]
  PROVE  Counted(t, new, vers, ph)
<1>1. ObjectsOrdered(obs, vers, None, ph) /\ LoansCounted(s, obs, None)
  BY DEF Counted
<1>2. ObjectsOrdered(new, vers, None, ph)
  BY <1>1, ChangeKeeps
<1>3. obs \in [Objs -> Object]
  BY <1>1 DEF ObjectsOrdered
<1>4. new[o] = x /\ \A p \in Objs \ {o} : new[p] = obs[p]
  BY <1>3
<1>5. Ages(obs[o], x)
  BY DEF Allowed
<1>6. AllBorrowAs(obs, None, new, None)
  BY <1>4, <1>5, ObjsAssumption DEF AllBorrowAs, BorrowsAs, Borrows, Ages
<1>7. LoansCounted(t, new, None)
  BY <1>1, <1>6, LoansSame
<1> QED BY <1>2, <1>7 DEF Counted

\* The object that is not there.
LEMMA FreeObject == Free \in Object /\ Free.state = "free" /\ Free.cand = None /\ ~Free.fresh /\ ~Free.used
BY DEF Free, Object

\* One that is no candidate may be dropped.
LEMMA FreeAllowed ==
  ASSUME NEW obs, NEW vers, NEW ph, NEW o \in Objs, ph = "up" => ~HasCandidate(obs, o)
  PROVE  Shape(Free, vers) /\ Allowed(obs, o, Free, None, None, ph)
<1> HIDE DEF Free
<1> QED BY FreeObject, ObjsAssumption DEF Shape, Allowed, Ages, IsFresh

\* An object is dropped whose data, if on loan, is given back.
LEMMA DropCounted ==
  ASSUME NEW s, Good(s), NEW obs, NEW vers, NEW ph, Counted(s, obs, vers, ph), NEW o \in Objs, obs[o].state # "free",
         ph = "up" => ~HasCandidate(obs, o),
         NEW t, t = Destroyed(s, obs[o]), NEW new, new = [obs EXCEPT ![o] = Free]
  PROVE  Counted(t, new, vers, ph)
<1>1. ObjectsOrdered(obs, vers, None, ph) /\ LoansCounted(s, obs, None)
  BY DEF Counted
<1>2. obs \in [Objs -> Object] /\ obs[o].url \in Urls
  BY <1>1 DEF ObjectsOrdered, Shapes, Shape
<1>3. Shape(Free, vers) /\ Allowed(obs, o, Free, None, None, ph) /\ Free \in Object /\ Free.state = "free"
  BY FreeAllowed, FreeObject
<1> HIDE DEF Free
<1>4. CASE obs[o].data # "loan"
  <2>1. t = s
    BY <1>4 DEF Destroyed
  <2>2. ~Borrows(obs, None, o)
    BY <1>4, ObjsAssumption DEF Borrows
  <2> QED BY <1>3, <2>1, <2>2, ChangeCounted, DataAsSelf
<1>5. CASE obs[o].data = "loan"
  <2>1. t = ReleaseElement(s, obs[o].url, "data")
    BY <1>5 DEF Destroyed
  <2>2. RefsMove(s, t, obs[o].url, "data",
                 IF RefAt(s, obs[o].url, "data") > 0 THEN RefAt(s, obs[o].url, "data") - 1 ELSE 0)
    BY <1>2, <2>1, BothElems, ReleaseFacts
  <2>3. new[o] = Free /\ \A p \in Objs \ {o} : new[p] = obs[p]
    BY <1>2
  <2>4. Borrows(obs, None, o) /\ ~Borrows(new, None, o)
    BY <1>3, <1>5, <2>3 DEF Borrows
  <2>5. OthersBorrowAs(obs, None, new, None, o)
    BY <2>3 DEF OthersBorrowAs, BorrowsAs, Borrows
  <2>6. LoansCounted(t, new, None)
    BY <1>1, <1>2, <2>2, <2>4, <2>5, LoanEnded
  <2>7. ObjectsOrdered(new, vers, None, ph)
    BY <1>1, <1>3, ChangeKeeps
  <2> QED BY <2>6, <2>7 DEF Counted
<1> QED BY <1>4, <1>5

-----------------------------------------------------------------------------
\* The steps of objects in memory, and llcache_clean.

\* A fetch is nobody's candidate.
LEMMA FetchIsNoCandidate ==
  ASSUME NEW obs, CandidatesNewest(obs), NEW o \in Objs, obs[o].state = "fetch" PROVE ~HasCandidate(obs, o)
BY DEF CandidatesNewest, HasCandidate

\* What is in no candidate's place is none.
LEMMA NoCandidate ==
  ASSUME NEW o \in Objs, o \notin Candidates PROVE ~HasCandidate(obj, o)
BY DEF Candidates, HasCandidate

\* The actions that change one object in memory.
LEMMA MemoryCounted ==
  ASSUME Counted(st, obj, version, "up"), NEW o \in Objs,
         FetchFinishes(o) \/ FetchFails(o) \/ Leave(o) \/ Expire(o)
  PROVE  Counted(st', obj', version', "up")
<1>0. /\ ObjectsOrdered(obj, version, None, "up") /\ obj \in [Objs -> Object] /\ Shape(obj[o], version)
      /\ CandidatesNewest(obj)
      /\ InUseLoaded(obj) /\ obj[o] \in Object
  BY DEF Counted, ObjectsOrdered, Shapes
<1>1. UNCHANGED <<st, version>>
  BY DEF FetchFinishes, FetchFails, Leave, Expire
<1>2. ASSUME NEW x \in Object, obj' = [obj EXCEPT ![o] = x], Shape(x, version), x.data # "loan" \/ x.data = obj[o].data,
             x.state # "free" <=> obj[o].state # "free", obj[o].data = "loan" => x.data = "loan",
             Allowed(obj, o, x, None, None, "up")
      PROVE  Counted(st', obj', version', "up")
  <2>1. /\ Borrows(obj, None, o) => x.state # "free" /\ x.data = "loan"
        /\ ~Borrows(obj, None, o) => x.state = "free" \/ x.data # "loan"
    BY <1>2, ObjsAssumption DEF Borrows
  <2>2. Counted(st, obj', version, "up")
    BY <1>2, <2>1, ChangeCounted, DataAsSelf
  <2> QED BY <1>1, <2>2
<1>3. CASE FetchFinishes(o)
  <2>1. PICK f \in BOOLEAN : obj' = [obj EXCEPT ![o] = [@ EXCEPT !.state = "ram", !.data = "own", !.fresh = f, !.cand = None]]
    BY <1>3 DEF FetchFinishes
  <2> DEFINE x == [obj[o] EXCEPT !.state = "ram", !.data = "own", !.fresh = f, !.cand = None]
  <2>2. obj[o].state = "fetch" /\ obj[o].data = "none" /\ obj[o].at > 0
    BY <1>0, <1>3 DEF FetchFinishes, Shape, IsFresh
  <2>3. /\ x \in Object /\ x.url = obj[o].url /\ x.ver = obj[o].ver /\ x.at = obj[o].at /\ x.state = "ram"
        /\ x.data = "own"
        /\ x.cand = None /\ obj' = [obj EXCEPT ![o] = x]
    BY <1>0, <2>1 DEF Object
  <2> HIDE DEF x
  <2>4. Shape(x, version) /\ Ages(obj[o], x)
    BY <1>0, <2>2, <2>3 DEF Shape, Ages, IsFresh
  <2>5. ~HasCandidate(obj, o)
    BY <1>0, <2>2, FetchIsNoCandidate
  <2>6. Allowed(obj, o, x, None, None, "up")
    BY <2>2, <2>3, <2>4, <2>5, ObjsAssumption DEF Allowed
  <2> QED BY <1>2, <2>2, <2>3, <2>4, <2>6
<1>4. CASE FetchFails(o)
  <2> DEFINE x == [obj[o] EXCEPT !.state = "ram", !.at = 0, !.cand = None]
  <2>1. obj' = [obj EXCEPT ![o] = x] /\ obj[o].state = "fetch"
    BY <1>4 DEF FetchFails
  <2>2. obj[o].data = "none" /\ obj[o].at > 0 /\ ~obj[o].fresh
    BY <1>0, <2>1 DEF Shape, IsFresh
  <2>3. /\ x \in Object /\ x.url = obj[o].url /\ x.ver = obj[o].ver /\ x.at = 0 /\ x.state = "ram"
        /\ x.data = "none"
        /\ x.cand = None /\ ~x.fresh
    BY <1>0, <2>2 DEF Object
  <2> HIDE DEF x
  <2>4. Ages(obj[o], x) /\ ~IsFresh(x)
    BY <2>1, <2>3 DEF Ages, IsFresh
  <2>5. Shape(x, version)
    <3>1. obj[o].url \in Urls /\ obj[o].ver \in 1 .. version[obj[o].url] /\ version[obj[o].url] \in Nat
      BY <1>0, <2>1 DEF Shape, ObjectsOrdered
    <3>2. 0 <= version[obj[o].url]
      BY <3>1
    <3> QED BY <2>3, <2>4, <3>1, <3>2 DEF Shape
  <2>6. ~HasCandidate(obj, o)
    BY <1>0, <2>1, FetchIsNoCandidate
  <2>7. Allowed(obj, o, x, None, None, "up")
    BY <2>3, <2>4, <2>6, ObjsAssumption DEF Allowed
  <2> QED BY <1>2, <2>1, <2>2, <2>3, <2>5, <2>7
<1>5. CASE Leave(o)
  <2> DEFINE x == [obj[o] EXCEPT !.used = FALSE]
  <2>1. obj' = [obj EXCEPT ![o] = x]
    BY <1>5 DEF Leave
  <2>2. /\ x \in Object /\ x.url = obj[o].url /\ x.ver = obj[o].ver /\ x.at = obj[o].at
        /\ x.state = obj[o].state
        /\ x.data = obj[o].data /\ x.cand = obj[o].cand /\ x.fresh = obj[o].fresh /\ ~x.used
    BY <1>0 DEF Object
  <2> HIDE DEF x
  <2>3. Shape(x, version) /\ Ages(obj[o], x)
    BY <1>0, <2>2 DEF Shape, Ages, IsFresh
  <2>4. HasCandidate(obj, o) => obj[o].state \notin {"free", "fetch"}
    BY <1>0 DEF HasCandidate, CandidatesNewest, Same
  <2>5. Allowed(obj, o, x, None, None, "up")
    BY <1>0, <2>2, <2>3, <2>4, ObjsAssumption DEF Allowed, InUseLoaded
  <2> QED BY <1>2, <2>1, <2>2, <2>3, <2>5
<1>6. CASE Expire(o)
  <2> DEFINE x == [obj[o] EXCEPT !.fresh = FALSE]
  <2>1. obj' = [obj EXCEPT ![o] = x]
    BY <1>6 DEF Expire
  <2>2. /\ x \in Object /\ x.url = obj[o].url /\ x.ver = obj[o].ver /\ x.at = obj[o].at
        /\ x.state = obj[o].state
        /\ x.data = obj[o].data /\ x.cand = obj[o].cand /\ ~x.fresh /\ x.used = obj[o].used
    BY <1>0 DEF Object
  <2> HIDE DEF x
  <2>3. Shape(x, version) /\ Ages(obj[o], x)
    BY <1>0, <2>2 DEF Shape, Ages, IsFresh
  <2>4. HasCandidate(obj, o) => obj[o].state \notin {"free", "fetch"}
    BY <1>0 DEF HasCandidate, CandidatesNewest, Same
  <2>5. Allowed(obj, o, x, None, None, "up")
    BY <1>0, <2>2, <2>3, <2>4, ObjsAssumption DEF Allowed, InUseLoaded
  <2> QED BY <1>2, <2>1, <2>2, <2>3, <2>5
<1> QED BY <1>3, <1>4, <1>5, <1>6

\* llcache_fetch_notmodified.
LEMMA NotModifiedCounted ==
  ASSUME Counted(st, obj, version, "up"), NEW o \in Objs, FetchNotModified(o)
  PROVE  Counted(st', obj', version', "up")
<1>0. /\ ObjectsOrdered(obj, version, None, "up") /\ obj \in [Objs -> Object] /\ CandidatesNewest(obj)
      /\ LoansCounted(st, obj, None)
      /\ obj[o] \in Object
  BY DEF Counted, ObjectsOrdered
<1>1. obj[o].state = "fetch" /\ obj[o].cand # None /\ UNCHANGED <<st, version>>
  BY DEF FetchNotModified
<1>2. obj[o].cand \in Objs
  BY <1>0, <1>1 DEF Object
<1> DEFINE c == obj[o].cand
           x == [obj[o] EXCEPT !.state = "ram", !.at = 0, !.used = FALSE, !.cand = None]
           z == [obj[c] EXCEPT !.fresh = TRUE, !.at = obj[o].at, !.used = @ \/ obj[o].used]
<1>3. /\ x \in Object /\ x.state = "ram" /\ x.at = 0 /\ x.cand = None /\ x.url = obj[o].url
      /\ x.ver = obj[o].ver
      /\ x.data = obj[o].data /\ x.fresh = obj[o].fresh
  BY <1>0 DEF Object
<1>4. /\ z \in Object /\ z.state = obj[c].state /\ z.at = obj[o].at /\ z.cand = obj[c].cand
      /\ z.url = obj[c].url
      /\ z.ver = obj[c].ver /\ z.data = obj[c].data /\ z.fresh
  <2>1. obj[c] \in Object /\ obj[o].at \in Nat /\ obj[o].used \in BOOLEAN
    BY <1>0, <1>2 DEF Object
  <2> QED BY <2>1 DEF Object
<1>5. obj' = [p \in Objs |-> IF p = o THEN x ELSE IF p = c THEN z ELSE obj[p]]
  BY DEF FetchNotModified
<1> HIDE DEF x, z
<1>6. obj'[o] = x /\ (c # o => obj'[c] = z) /\ (\A r \in Objs \ {o, c} : obj'[r] = obj[r])
      /\ obj' \in [Objs -> Object]
  BY <1>0, <1>2, <1>3, <1>4, <1>5
<1>7. c # o
  BY <1>0, <1>2 DEF CandidatesNewest, Same
<1> HIDE DEF c
<1>8. c \in Objs /\ obj[o].cand = c
  BY <1>2 DEF c
<1>9. ObjectsOrdered(obj', version, None, "up")
  BY <1>0, <1>1, <1>3, <1>4, <1>6, <1>8, NotModifiedKeeps
<1>10. obj[o].data = "none"
  BY <1>0, <1>1 DEF ObjectsOrdered, Shapes, Shape
<1>11. AllBorrowAs(obj, None, obj', None)
  BY <1>1, <1>3, <1>4, <1>6, <1>7, <1>8, <1>10, ObjsAssumption DEF AllBorrowAs, BorrowsAs, Borrows
<1>12. LoansCounted(st, obj', None)
  BY <1>0, <1>11, LoansSame, DataAsSelf
<1> QED BY <1>1, <1>9, <1>12 DEF Counted

\* llcache_clean, and the end of the cache.
LEMMA CleanCounted ==
  ASSUME Accounting, Counted(st, obj, version, phase), NEW o \in Objs,
         DiscardStale(o) \/ DropBacked(o) \/ DropFresh(o) \/ DestroyCached(o)
  PROVE  Counted(st', obj', version', phase)
<1>0. Good(st) /\ obj[o] \in Object /\ obj \in [Objs -> Object]
  BY DEF Accounting, StoreTypes, FineObjects
<1>1. /\ obj[o].state # "free" /\ obj' = [obj EXCEPT ![o] = Free] /\ UNCHANGED version
      /\ phase = "up" => o \notin Candidates
  BY DEF DiscardStale, DropBacked, DropFresh, DestroyCached, Stale, Idle
<1>2. obj[o].url \in Urls /\ Shape(obj[o], version)
  BY <1>1 DEF Counted, ObjectsOrdered, Shapes, Shape
<1>3. phase = "up" => ~HasCandidate(obj, o)
  BY <1>1, NoCandidate
<1>4. ASSUME NEW s, Good(s), RefsAs(st, s), st' = Destroyed(s, obj[o]) PROVE Counted(st', obj', version', phase)
  <2>1. AllBorrowAs(obj, None, obj, None)
    BY DEF AllBorrowAs, BorrowsAs
  <2>2. Counted(s, obj, version, phase)
    BY <1>4, <2>1, LoansSame, DataAsRefs DEF Counted
  <2>3. Counted(st', obj', version, phase)
    BY <1>1, <1>3, <1>4, <2>2, DropCounted
  <2> QED BY <1>1, <2>3
<1>5. RefsAs(st, st)
  BY DEF RefsAs
<1>6. CASE DiscardStale(o)
  <2>1. st' = Destroyed(IF obj[o].state = "disc" THEN Invalidate(st, obj[o].url) ELSE st, obj[o])
    BY <1>6 DEF DiscardStale
  <2>2. CASE obj[o].state = "disc"
    <3>1. st' = Destroyed(Invalidate(st, obj[o].url), obj[o])
      BY <2>1, <2>2
    <3>2. Good(Invalidate(st, obj[o].url)) /\ RefsAs(st, Invalidate(st, obj[o].url))
      BY <1>0, <1>2, InvalidateFacts, InvalidateSoftens, SoftensGood
    <3> QED BY <1>4, <3>1, <3>2
  <2>3. CASE obj[o].state # "disc"
    <3>1. st' = Destroyed(st, obj[o])
      BY <2>1, <2>3
    <3> QED BY <1>0, <1>4, <1>5, <3>1
  <2> QED BY <2>2, <2>3
<1>7. CASE DropBacked(o) \/ DropFresh(o)
  <2>1. obj[o].data # "loan" /\ UNCHANGED st
    BY <1>2, <1>7 DEF DropBacked, DropFresh, Shape
  <2>2. st' = Destroyed(st, obj[o])
    BY <2>1 DEF Destroyed
  <2> QED BY <1>0, <1>4, <1>5, <2>2
<1>8. CASE DestroyCached(o)
  <2>1. st' = Destroyed(st, obj[o])
    BY <1>8 DEF DestroyCached
  <2> QED BY <1>0, <1>4, <1>5, <2>1
<1> QED BY <1>6, <1>7, <1>8

\* The data of a backed object is released whether or not it was on loan to it.
LEMMA ReleaseDataCounted ==
  ASSUME Accounting, Counted(st, obj, version, "up"), NEW o \in Objs, ReleaseData(o)
  PROVE  Counted(st', obj', version', "up")
<1>0. /\ ObjectsOrdered(obj, version, None, "up") /\ LoansCounted(st, obj, None) /\ obj[o] \in Object
      /\ obj \in [Objs -> Object]
      /\ Good(st) /\ Shape(obj[o], version)
  BY DEF Counted, ObjectsOrdered, Shapes, Accounting, StoreTypes
<1> DEFINE x == [obj[o] EXCEPT !.data = "none"]
<1>1. /\ obj' = [obj EXCEPT ![o] = x] /\ UNCHANGED version /\ obj[o].state = "disc" /\ ~obj[o].used
      /\ o \notin Candidates
      /\ st' = ReleaseElement(st, obj[o].url, "data") /\ NoneStale
  BY DEF ReleaseData, Idle
<1>2. /\ x \in Object /\ x.url = obj[o].url /\ x.ver = obj[o].ver /\ x.at = obj[o].at /\ x.state = "disc"
      /\ x.data = "none" /\ x.cand = obj[o].cand /\ x.fresh = obj[o].fresh /\ ~x.used
  BY <1>0, <1>1 DEF Object
<1> HIDE DEF x
<1>3. ~HasCandidate(obj, o)
  BY <1>1, NoCandidate
<1>4. Shape(x, version) /\ Allowed(obj, o, x, None, None, "up")
  <2>1. Shape(x, version) /\ Ages(obj[o], x)
    BY <1>0, <1>1, <1>2 DEF Shape, Ages, IsFresh
  <2> QED BY <1>1, <1>2, <1>3, <2>1, ObjsAssumption DEF Allowed
<1>5. obj[o].url \in Urls
  BY <1>0, <1>1 DEF Shape
<1>6. RefsMove(st, st', obj[o].url, "data",
               IF RefAt(st, obj[o].url, "data") > 0 THEN RefAt(st, obj[o].url, "data") - 1 ELSE 0)
  BY <1>0, <1>1, <1>5, BothElems, ReleaseFacts
<1>7. CASE obj[o].data = "loan"
  <2>1. obj'[o] = x /\ \A p \in Objs \ {o} : obj'[p] = obj[p]
    BY <1>0, <1>1
  <2>2. Borrows(obj, None, o) /\ ~Borrows(obj', None, o)
    BY <1>1, <1>2, <1>7, <2>1, ObjsAssumption DEF Borrows
  <2>3. OthersBorrowAs(obj, None, obj', None, o)
    BY <2>1 DEF OthersBorrowAs, BorrowsAs, Borrows
  <2>4. LoansCounted(st', obj', None)
    BY <1>0, <1>5, <1>6, <2>2, <2>3, LoanEnded
  <2>5. ObjectsOrdered(obj', version, None, "up")
    BY <1>0, <1>1, <1>2, <1>4, ChangeKeeps
  <2> QED BY <1>1, <2>4, <2>5 DEF Counted
<1>8. CASE obj[o].data # "loan"
  <2>1. obj[o].fresh
    BY <1>1 DEF NoneStale, Stale, Idle, ReleaseData
  <2>2. \A p \in Objs : Borrows(obj, None, p) => obj[p].url # obj[o].url
    <3> SUFFICES ASSUME NEW p \in Objs, Borrows(obj, None, p), obj[p].url = obj[o].url PROVE FALSE
      OBVIOUS
    <3>1. obj[p].data = "loan" /\ Same(obj, o, p)
      BY <1>1, <1>8, ObjsAssumption DEF Borrows, Same
    <3>2. obj[p].at < obj[o].at
      BY <1>0, <2>1, <3>1 DEF ObjectsOrdered, Ordered, IsFresh
    <3> QED BY <1>0, <1>1, <3>1, <3>2 DEF ObjectsOrdered, OldNotLent
  <2>3. RefAt(st, obj[o].url, "data") = 0
    <3>1. Borrowers(obj, None, obj[o].url) = {}
      BY <2>2 DEF Borrowers
    <3> QED BY <1>0, <1>5, <3>1, FS_EmptySet DEF LoansCounted
  <2>4. DataAs(st, st')
    BY <1>6, <2>3, BothElems DEF RefsMove, DataAs
  <2>5. ~Borrows(obj, None, o) /\ x.data # "loan"
    BY <1>2, <1>8, ObjsAssumption DEF Borrows
  <2>6. Counted(st', obj', version, "up")
    BY <1>1, <1>2, <1>4, <2>4, <2>5, ChangeCounted
  <2> QED BY <1>1, <2>6
<1> QED BY <1>7, <1>8

-----------------------------------------------------------------------------
\* write_backing_store; what is lent.

MarkedSaved == kept /\ (phase = "down" \/ (phase = "closing" /\ maint = 2)) => Marked(saved.entries)
WritingFresh == writing # None => obj[writing].fresh
Loans == phase # "down" => LoansCounted(st, obj, writing)
Lending ==
  /\ Accounting /\ MetaReleased /\ Recent(st, version) /\ ObjectsOrdered(obj, version, writing, phase)
  /\ Loans /\ (kept => Marked(st.entries)) /\ MarkedSaved /\ WritingFresh

\* What Lending adds to the invariants of before, but for the saved files.
Lent == /\ Recent(st, version) /\ ObjectsOrdered(obj, version, writing, phase)
        /\ Loans /\ (kept => Marked(st.entries)) /\ WritingFresh

\* A step that takes nothing new into the store, and counts its loans, keeps what is lent.
LEMMA GentleLent ==
  ASSUME Lending, StoreNext, Gentle, Counted(st', obj', version', phase)
  PROVE  Lent' /\ MarkedSaved'
<1>1. /\ Softens(st, st') /\ phase \in {"up", "finalising"} /\ maint = 0 /\ writing = None /\ writing' = None
      /\ UNCHANGED <<saved, maint, phase, kept>>
  BY DEF Gentle, disc
<1>2. Recent(st', version')
  <2>1. Good(st) /\ version \in [Urls -> Nat] /\ Recent(st, version) /\ Shrinks(st, st')
    BY <1>1 DEF Lending, Accounting, StoreTypes, Softens
  <2> QED BY <2>1, VersionsGrow, RecentLater
<1>3. kept' => Marked(st'.entries)
  BY <1>1 DEF Lending, Softens
<1>4. ObjectsOrdered(obj', version', writing', phase') /\ LoansCounted(st', obj', writing')
  BY <1>1 DEF Counted
<1> QED BY <1>1, <1>2, <1>3, <1>4 DEF Lent, Loans, WritingFresh, MarkedSaved

\* Those steps do count them.
LEMMA GentleCounted ==
  ASSUME Lending,
         \/ \E u \in Urls : RetrieveKnown(u) \/ RetrieveUnknown(u)
         \/ \E o \in Objs :
              \/ FetchFinishes(o) \/ FetchNotModified(o) \/ FetchFails(o)
              \/ Leave(o) \/ Expire(o)
              \/ DiscardStale(o) \/ ReleaseData(o) \/ DropBacked(o) \/ DropFresh(o)
              \/ DestroyCached(o)
  PROVE  Gentle /\ Counted(st', obj', version', phase)
<1>0. Accounting /\ MetaFree(st) /\ Recent(st, version) /\ ObjectsOrdered(obj, version, writing, phase)
      /\ (phase # "down" => LoansCounted(st, obj, writing))
  BY DEF Lending, MetaReleased, Loans
<1>1. Turn => phase = "up" /\ Counted(st, obj, version, "up") /\ Held(st, obj, version)
  BY <1>0 DEF Turn, Counted, Held
<1>2. ASSUME NEW u \in Urls, RetrieveKnown(u) \/ RetrieveUnknown(u)
      PROVE  Gentle /\ Counted(st', obj', version', phase)
  <2>1. Turn
    BY <1>2 DEF RetrieveKnown, RetrieveUnknown
  <2>2. Gentle
    BY <1>0, <1>2, RetrieveKnownGentle, RetrieveUnknownGentle
  <2>3. Held(st', obj', version')
    BY <1>0, <1>1, <1>2, <2>1, RetrieveKnownHeld, RetrieveUnknownHeld
  <2> QED BY <1>1, <2>1, <2>2, <2>3 DEF Held, Counted
<1>3. ASSUME NEW o \in Objs, FetchFinishes(o) \/ FetchFails(o) \/ Leave(o) \/ Expire(o) \/ FetchNotModified(o)
      PROVE  Gentle /\ Counted(st', obj', version', phase)
  <2>1. Turn
    BY <1>3 DEF FetchFinishes, FetchFails, Leave, Expire, FetchNotModified
  <2>2. Gentle
    BY <1>0, <1>3, ObjectsAloneGentle
  <2> QED BY <1>1, <1>3, <2>1, <2>2, MemoryCounted, NotModifiedCounted
<1>4. ASSUME NEW o \in Objs, DiscardStale(o) \/ DropBacked(o) \/ DropFresh(o) \/ DestroyCached(o)
      PROVE  Gentle /\ Counted(st', obj', version', phase)
  <2>1. Gentle
    BY <1>0, <1>4, DiscardStaleGentle, ObjectsAloneGentle, DestroyCachedGentle
  <2>2. Counted(st, obj, version, phase)
    <3>1. phase # "down" /\ writing = None
      BY <2>1 DEF Gentle
    <3> QED BY <1>0, <3>1 DEF Counted
  <2> QED BY <1>0, <1>4, <2>1, <2>2, CleanCounted
<1>5. ASSUME NEW o \in Objs, ReleaseData(o) PROVE Gentle /\ Counted(st', obj', version', phase)
  <2>1. Turn
    BY <1>5 DEF ReleaseData
  <2> QED BY <1>0, <1>1, <1>5, <2>1, ReleaseDataGentle, ReleaseDataCounted
<1> QED BY <1>2, <1>3, <1>4, <1>5

\* write_backing_store.
LEMMA PersistDataLent ==
  ASSUME Lending, NoLostWrites, NEW o \in Objs, PersistData(o)
  PROVE  Lent' /\ MarkedSaved'
<1>0. /\ Accounting /\ Good(st) /\ ObjectsOrdered(obj, version, None, "up") /\ LoansCounted(st, obj, None)
      /\ version \in [Urls -> Nat] /\ obj \in [Objs -> Object] /\ phase = "up" /\ writing = None
      /\ Persistable(o) /\ UNCHANGED <<obj, version, disc>> /\ Recent(st, version)
      /\ (kept => Marked(st.entries))
  BY DEF Lending, Loans, Accounting, StoreTypes, ObjectsOrdered, PersistData, Turn
<1>1. PICK ev \in Evicted(st) :
         /\ Good(ev) /\ Shrinks(st, ev) /\ RefsAs(st, ev)
         /\ \/ writing' = None /\ st' = ev
            \/ /\ writing' = o /\ RefAt(st, obj[o].url, "data") = 0
               /\ IsPut(ev, st', obj[o].url, "data", Content(o))
  BY <1>0, DataStored
<1>2. Marked(st.entries) => Marked(ev.entries)
  BY <1>0, EvictedFacts
<1>3. Recent(ev, version)
  <2>1. Later(version, version)
    BY <1>0 DEF Later
  <2> QED BY <1>0, <1>1, <2>1, RecentLater
<1>4. LoansCounted(ev, obj, None)
  <2>1. AllBorrowAs(obj, None, obj, None)
    BY DEF AllBorrowAs, BorrowsAs
  <2> QED BY <1>0, <1>1, <2>1, LoansSame, DataAsRefs
<1>5. Shape(obj[o], version) /\ obj[o].state = "ram" /\ obj[o].fresh /\ obj[o].url \in Urls
      /\ obj[o].data # "loan"
  BY <1>0 DEF Persistable, ObjectsOrdered, Shapes, Shape
<1>6. UNCHANGED <<phase, kept, obj, version, maint, saved>>
  BY <1>0 DEF disc
<1>7. CASE writing' = None /\ st' = ev
  BY <1>0, <1>2, <1>3, <1>4, <1>6, <1>7 DEF Lent, Loans, WritingFresh, MarkedSaved
<1>8. CASE writing' = o /\ RefAt(st, obj[o].url, "data") = 0 /\ IsPut(ev, st', obj[o].url, "data", Content(o))
  <2> DEFINE u == obj[o].url
  <2>1. RefsMove(ev, st', u, "data", 1) /\ (Marked(ev.entries) => Marked(st'.entries))
    BY <1>5, <1>8, BothElems, SetMovesRefs DEF IsPut
  <2>2. RefAt(ev, u, "data") = 0
    BY <1>1, <1>5, <1>8, BothElems DEF RefsAs
  <2>3. \A p \in Objs : Borrows(obj, None, p) => obj[p].url # u
    BY <1>4, <1>5, <2>2, NobodyBorrows
  <2>4. OldNotLent(obj, o)
    <3> SUFFICES ASSUME NEW q \in Objs, NEW p \in Objs, Same(obj, q, p), obj[q].state = "disc" \/ o = q,
                        obj[p].at < obj[q].at, obj[p].data = "loan"
                 PROVE  FALSE
      BY DEF OldNotLent
    <3>1. CASE q = o
      BY <2>3, <3>1 DEF Same, Borrows
    <3>2. CASE q # o
      BY <1>0, <3>2 DEF ObjectsOrdered, OldNotLent
    <3> QED BY <3>1, <3>2
  <2>5. ObjectsOrdered(obj, version, o, "up")
    BY <1>0, <2>4 DEF ObjectsOrdered
  <2>6. LoansCounted(st', obj, o)
    <3>1. ~Borrows(obj, None, o) /\ Borrows(obj, o, o)
      BY <1>5, ObjsAssumption DEF Borrows
    <3>2. OthersBorrowAs(obj, None, obj, o, o)
      BY ObjsAssumption DEF OthersBorrowAs, BorrowsAs, Borrows
    <3>3. RefsMove(ev, st', u, "data", RefAt(ev, u, "data") + 1)
      BY <2>1, <2>2
    <3> QED BY <1>4, <1>5, <3>1, <3>2, <3>3, LoanTaken
  <2>7. Recent(st', version)
    <3>1. WasFetched(Content(o), version)
      BY <1>5 DEF WasFetched, Content, Shape
    <3> QED BY <1>3, <1>8, <3>1, RecentPut
  <2> QED BY <1>0, <1>2, <1>5, <1>6, <1>8, <2>1, <2>5, <2>6, <2>7 DEF Lent, Loans, WritingFresh, MarkedSaved
<1> QED BY <1>1, <1>7, <1>8

\* The metadata is stored and given back, and the object is on disc.
LEMMA PersistMetaLent ==
  ASSUME Lending, NoLostWrites, NEW o \in Objs, PersistMeta(o)
  PROVE  Lent' /\ MarkedSaved'
<1>0. /\ Accounting /\ Good(st) /\ ObjectsOrdered(obj, version, o, phase) /\ MetaFree(st)
      /\ version \in [Urls -> Nat] /\ obj \in [Objs -> Object] /\ obj[o] \in Object /\ phase = "up"
      /\ LoansCounted(st, obj, o)
      /\ writing = o /\ o # None /\ writing' = None /\ UNCHANGED <<version, phase, kept, maint, saved>>
      /\ Recent(st, version)
      /\ (kept => Marked(st.entries)) /\ obj[o].fresh /\ obj[o].state = "ram"
  <2>1. writing = o /\ o # None /\ writing' = None /\ UNCHANGED <<version, phase, kept, maint, saved>>
    BY ObjsAssumption DEF PersistMeta, disc
  <2>2. phase = "up" /\ obj[o].fresh /\ obj[o].state = "ram"
    BY <2>1 DEF Lending, WritingFresh, Accounting, Phases, StoreTypes
  <2> QED BY <2>1, <2>2 DEF Lending, Loans, Accounting, StoreTypes, ObjectsOrdered, MetaReleased
<1>1. PICK ev, q :
         /\ ev \in Evicted(st) /\ Good(ev) /\ Shrinks(st, ev) /\ RefsAs(st, ev)
         /\ IsPut(ev, q, obj[o].url, "meta", Content(o))
         /\ st' = ReleaseElement(q, obj[o].url, "meta") /\ obj' = OnDiscNow(o)
  BY <1>0, MetaStored
<1>2. Shape(obj[o], version) /\ obj[o].url \in Urls /\ obj[o].at > 0 /\ IsFresh(obj[o])
  BY <1>0 DEF ObjectsOrdered, Shapes, Shape, IsFresh
<1>3. RefsAs(st, st') /\ Softens(q, st') /\ (Marked(ev.entries) => Marked(st'.entries))
  BY <1>0, <1>1, <1>2, MetaStoredRefs
<1>4. Marked(st.entries) => Marked(st'.entries)
  BY <1>0, <1>1, <1>3, EvictedFacts
<1>5. Recent(st', version)
  <2>1. Later(version, version)
    BY <1>0 DEF Later
  <2>2. Recent(ev, version)
    BY <1>0, <1>1, <2>1, RecentLater
  <2>3. WasFetched(Content(o), version)
    BY <1>0, <1>2 DEF WasFetched, Content, Shape
  <2>4. Recent(q, version) /\ Good(q)
    BY <1>1, <2>2, <2>3, RecentPut DEF IsPut
  <2> QED BY <1>0, <1>3, <2>1, <2>4, RecentLater DEF Softens
<1> DEFINE x == [obj[o] EXCEPT !.state = "disc", !.data = "loan"]
<1>6. obj' = [obj EXCEPT ![o] = x]
  BY <1>1 DEF OnDiscNow
<1>7. /\ x \in Object /\ x.url = obj[o].url /\ x.ver = obj[o].ver /\ x.at = obj[o].at /\ x.state = "disc"
      /\ x.data = "loan" /\ x.cand = obj[o].cand /\ x.fresh
  BY <1>0 DEF Object
<1> HIDE DEF x
<1>8. Shape(x, version) /\ Ages(obj[o], x)
  BY <1>0, <1>2, <1>7 DEF Shape, Ages, IsFresh
<1>9. Newer(obj, o)
  <2> SUFFICES ASSUME NEW p \in Objs, Same(obj, o, p) PROVE obj[p].at <= obj[o].at
    BY DEF Newer
  <2>1. obj[p].at < obj[o].at
    BY <1>0, <1>2 DEF ObjectsOrdered, Ordered
  <2> QED BY <1>0, <2>1, ObjectAt
<1>10. Allowed(obj, o, x, o, None, phase)
  BY <1>0, <1>7, <1>8, <1>9 DEF Allowed
<1>11. ObjectsOrdered(obj', version, None, phase)
  BY <1>0, <1>6, <1>7, <1>8, <1>10, ChangeKeeps
<1>12. LoansCounted(st', obj', None)
  <2>1. obj'[o] = x /\ \A p \in Objs \ {o} : obj'[p] = obj[p]
    BY <1>0, <1>6
  <2>2. AllBorrowAs(obj, o, obj', None)
    BY <1>0, <1>7, <2>1, ObjsAssumption DEF AllBorrowAs, BorrowsAs, Borrows
  <2> QED BY <1>0, <1>3, <2>2, LoansSame, DataAsRefs
<1> QED BY <1>0, <1>4, <1>5, <1>11, <1>12 DEF Lent, Loans, WritingFresh, MarkedSaved

-----------------------------------------------------------------------------
\* The control files, the start and the end; loans are kept.

AllFree(obs) == \A o \in Objs : obs[o].state = "free"

\* With no object there is nothing to keep in order, nor a loan.
LEMMA FreeOrderly ==
  ASSUME NEW obs \in [Objs -> Object], NEW vers \in [Urls -> Nat], NEW wr, NEW ph, AllFree(obs),
         \A o \in Objs : obs[o].cand = None
  PROVE  ObjectsOrdered(obs, vers, wr, ph)
<1>1. Shapes(obs, vers)
  BY DEF Shapes, Shape, AllFree
<1>2. Ordered(obs) /\ OldNotLent(obs, wr)
  BY DEF Ordered, OldNotLent, Same, AllFree
<1>3. CandidatesNewest(obs) /\ InUseLoaded(obs)
  BY ObjsAssumption DEF CandidatesNewest, InUseLoaded, AllFree
<1> QED BY <1>1, <1>2, <1>3 DEF ObjectsOrdered

\* With no object no data may be on loan.
LEMMA FreeLoans ==
  ASSUME NEW s, NEW obs, NEW wr, AllFree(obs)
  PROVE  LoansCounted(s, obs, wr) <=> \A u \in Urls : RefAt(s, u, "data") = 0
<1>1. \A u \in Urls : Borrowers(obs, wr, u) = {}
  BY DEF Borrowers, Borrows, AllFree
<1> QED BY <1>1, FS_EmptySet DEF LoansCounted

\* Without loans no entry is marked.
LEMMA MarkedUnlent ==
  ASSUME NEW f, Marked(f), \A u \in DOMAIN f, e \in Elems : f[u].elem[e].ref = 0
  PROVE  \A u \in DOMAIN f : ~f[u].invalid
BY DEF Marked, OnLoan

\* Nothing happens.
LEMMA StoreStillLent ==
  ASSUME Lending, UNCHANGED storeVars
  PROVE  Lent' /\ MarkedSaved'
<1>1. UNCHANGED <<st, saved, maint, phase, obj, writing, version, kept>>
  BY DEF storeVars, mem, disc
<1> QED BY <1>1 DEF Lending, Lent, Loans, MarkedSaved, WritingFresh

\* The control files begin to be replaced.
LEMMA FilesBegunLent ==
  ASSUME Lending, Maintenance \/ StoreFinalised
  PROVE  Lent' /\ MarkedSaved'
<1>1. /\ Good(st) /\ st' = [st EXCEPT !.timer = FALSE] /\ UNCHANGED <<obj, writing, version, kept>>
      /\ maint' = 1 /\ phase' \in {phase, "closing"} /\ phase \in {"up", "finalising"}
  BY DEF Lending, Accounting, StoreTypes, Maintenance, StoreFinalised, ControlFilesBegin, Turn, mem
<1>2. st'.entries = st.entries /\ Shrinks(st, st')
  BY <1>1, TimerSoftens DEF Softens
<1>3. Recent(st', version')
  <2>1. version \in [Urls -> Nat] /\ Later(version, version) /\ Recent(st, version)
    BY DEF Lending, Accounting, StoreTypes, Later
  <2> QED BY <1>1, <1>2, <2>1, RecentLater
<1>4. ObjectsOrdered(obj', version', writing', phase')
  BY <1>1 DEF Lending, ObjectsOrdered
<1>5. LoansCounted(st', obj', writing')
  BY <1>1, <1>2 DEF Lending, Loans, LoansCounted, RefAt
<1> QED BY <1>1, <1>2, <1>3, <1>4, <1>5 DEF Lending, Lent, Loans, MarkedSaved, WritingFresh

\* The end begins.
LEMMA FinaliseLent ==
  ASSUME Lending, Finalise
  PROVE  Lent' /\ MarkedSaved'
<1>1. phase = "up" /\ phase' = "finalising" /\ UNCHANGED <<st, saved, maint, obj, writing, version, kept>>
  BY DEF Finalise, Turn, mem
<1>2. ObjectsOrdered(obj', version', writing', phase')
  BY <1>1 DEF Lending, ObjectsOrdered
<1> QED BY <1>1, <1>2 DEF Lending, Lent, Loans, MarkedSaved, WritingFresh

\* The entries that are written when the program ends are those of a store all of
\* whose loans have ended.
LEMMA EntriesReplacedLent ==
  ASSUME Lending, EntriesReplaced
  PROVE  Lent' /\ MarkedSaved'
<1>1. /\ Good(st) /\ UNCHANGED <<st, obj, writing, version, phase, kept>> /\ maint = 1
      /\ saved'.entries = IF st.entriesDirty THEN [u \in DOMAIN st.entries |-> AtRest(st.entries[u])] ELSE saved.entries
  BY DEF Lending, Accounting, StoreTypes, EntriesReplaced, mem
<1>2. Lent'
  BY <1>1 DEF Lending, Lent, Loans, WritingFresh
<1> SUFFICES ASSUME kept, phase \in {"down", "closing"} PROVE Marked(saved'.entries)
  BY <1>1, <1>2 DEF MarkedSaved
<1>3. phase = "closing" /\ AllFree(obj)
  BY <1>1 DEF Lending, Accounting, Phases, AllFree
<1>4. \A u \in Urls, e \in Elems : RefAt(st, u, e) = 0
  <2>1. \A u \in Urls : RefAt(st, u, "data") = 0
    BY <1>3, FreeLoans DEF Lending, Loans
  <2> QED BY <2>1 DEF Lending, MetaReleased, MetaFree, Elems
<1>5. \A u \in DOMAIN st.entries : ~st.entries[u].invalid
  <2>1. DOMAIN st.entries \subseteq Urls
    BY <1>1, TableType DEF Good, GoodTable
  <2>2. \A u \in DOMAIN st.entries, e \in Elems : st.entries[u].elem[e].ref = 0
    BY <1>4, <2>1 DEF RefAt
  <2> QED BY <2>2, MarkedUnlent DEF Lending
<1>6. CASE st.entriesDirty
  BY <1>1, <1>5, <1>6, AtRestTable DEF Marked
<1>7. CASE ~st.entriesDirty
  <2>1. saved'.entries = st.entries
    BY <1>1, <1>7 DEF Lending, Accounting, Filed
  <2> QED BY <1>5, <2>1 DEF Marked
<1> QED BY <1>6, <1>7

\* The use maps are saved.
LEMMA BlocksReplacedLent ==
  ASSUME Lending, BlocksReplaced
  PROVE  Lent' /\ MarkedSaved'
<1>1. /\ UNCHANGED <<st, obj, writing, version, kept>> /\ maint = 2
      /\ phase' = IF phase = "closing" THEN "down" ELSE phase
      /\ saved'.entries = saved.entries
  <2>1. saved \in [entries : Tables, used : [Elems -> SUBSET Blocks]]
    BY DEF Lending, Accounting, StoreTypes
  <2> QED BY <2>1 DEF BlocksReplaced, mem
<1>2. phase \in {"up", "closing"} /\ maint' = 0
  BY <1>1 DEF Lending, Accounting, Phases, BlocksReplaced
<1>3. ObjectsOrdered(obj', version', writing', phase')
  BY <1>1 DEF Lending, ObjectsOrdered
<1>4. Lent'
  BY <1>1, <1>2, <1>3 DEF Lending, Lent, Loans, WritingFresh
<1>5. MarkedSaved'
  BY <1>1, <1>2 DEF Lending, MarkedSaved
<1> QED BY <1>4, <1>5

\* The program is killed, and its loans with it.
LEMMA KillLent ==
  ASSUME Lending, Kill
  PROVE  Lent' /\ MarkedSaved'
<1>1. /\ UNCHANGED <<st, version>> /\ phase' = "down" /\ kept' = FALSE /\ writing' = None
      /\ obj' = [o \in Objs |-> Free] /\ version \in [Urls -> Nat]
  BY DEF Lending, Accounting, StoreTypes, Kill
<1>2. ObjectsOrdered(obj', version', writing', phase')
  <2> HIDE DEF Free
  <2>1. obj' \in [Objs -> Object] /\ AllFree(obj') /\ \A o \in Objs : obj'[o].cand = None
    BY <1>1, FreeObject DEF AllFree
  <2> QED BY <1>1, <2>1, FreeOrderly
<1> QED BY <1>1, <1>2 DEF Lending, Lent, Loans, MarkedSaved, WritingFresh

\* A store that starts has lent nothing, and no entry of it is marked.
LEMMA StartLent ==
  ASSUME Lending, Start
  PROVE  Lent' /\ MarkedSaved'
<1>1. /\ st'.entries = saved.entries /\ st'.blocks = st.blocks /\ st'.files = st.files
      /\ phase = "down" /\ phase' = "up" /\ UNCHANGED <<saved, maint, obj, writing, version, kept>>
      /\ \A u \in DOMAIN saved.entries, e \in Elems : saved.entries[u].elem[e].ref = 0
  BY StartFacts DEF Lending, Accounting, StoreTypes, Start, mem
<1>2. writing = None /\ maint = 0 /\ AllFree(obj) /\ obj \in [Objs -> Object] /\ version \in [Urls -> Nat]
      /\ (kept => Marked(saved.entries))
  BY <1>1 DEF Lending, Accounting, StoreTypes, FineObjects, Phases, AllFree, MarkedSaved
<1>3. ObjectsOrdered(obj', version', writing', phase')
  <2>1. \A o \in Objs : obj[o].cand = None
    BY <1>2 DEF Lending, ObjectsOrdered, Shapes, Shape, AllFree
  <2> QED BY <1>1, <1>2, <2>1, FreeOrderly
<1>4. LoansCounted(st', obj', writing')
  <2>1. \A u \in Urls : RefAt(st', u, "data") = 0
    BY <1>1, BothElems DEF RefAt
  <2> QED BY <1>1, <1>2, <2>1, FreeLoans
<1>5. Recent(st', version')
  BY <1>1 DEF Lending, Recent
<1> QED BY <1>1, <1>2, <1>3, <1>4, <1>5 DEF Lent, Loans, MarkedSaved, WritingFresh

\* Nothing is lent at first.
LEMMA LendingInit == ASSUME StoreInit PROVE Lending
<1>1. Accounting /\ MetaReleased
  BY AccountingInit, MetaReleasedInit
<1>2. /\ st = FreshStore /\ phase = "up" /\ writing = None /\ maint = 0
      /\ obj = [o \in Objs |-> Free] /\ version \in [Urls -> Nat] /\ DOMAIN st.entries = {}
  BY EmptyTable DEF StoreInit
<1>3. ObjectsOrdered(obj, version, writing, phase) /\ AllFree(obj)
  <2> HIDE DEF Free
  <2>1. obj \in [Objs -> Object] /\ AllFree(obj) /\ \A o \in Objs : obj[o].cand = None
    BY <1>2, FreeObject DEF AllFree
  <2> QED BY <1>2, <2>1, FreeOrderly
<1>4. Loans
  <2>1. \A u \in Urls : RefAt(st, u, "data") = 0
    BY <1>2 DEF RefAt
  <2> QED BY <1>3, <2>1, FreeLoans DEF Loans
<1>5. Recent(st, version)
  <2>1. /\ \A e \in Elems, b \in Blocks : st.blocks[e][b] = None
        /\ \A e \in Elems, h \in Range(Hash) : st.files[e][h] = None
    BY <1>2 DEF FreshStore, NoFiles
  <2> QED BY <2>1 DEF Recent, WasFetched
<1> QED BY <1>1, <1>2, <1>3, <1>4, <1>5 DEF Lending, Marked, MarkedSaved, WritingFresh

\* Every step keeps what is lent in order.
LEMMA LendingStep ==
  ASSUME Lending, NoLostWrites, [StoreNext]_storeVars
  PROVE  Lending'
<1>1. Accounting' /\ MetaReleased'
  BY AccountingStep, MetaReleasedStep DEF Lending
<1> SUFFICES Lent' /\ MarkedSaved'
  BY <1>1 DEF Lending, Lent
<1>2. ASSUME NEW o \in Objs, PersistData(o) PROVE Lent' /\ MarkedSaved'
  BY <1>2, PersistDataLent
<1>3. ASSUME NEW o \in Objs, PersistMeta(o) PROVE Lent' /\ MarkedSaved'
  BY <1>3, PersistMetaLent
<1>4. ASSUME StoreNext,
             \/ \E u \in Urls : RetrieveKnown(u) \/ RetrieveUnknown(u)
             \/ \E o \in Objs :
                  \/ FetchFinishes(o) \/ FetchNotModified(o) \/ FetchFails(o)
                  \/ Leave(o) \/ Expire(o)
                  \/ DiscardStale(o) \/ ReleaseData(o) \/ DropBacked(o) \/ DropFresh(o)
                  \/ DestroyCached(o)
      PROVE  Lent' /\ MarkedSaved'
  BY <1>4, GentleCounted, GentleLent
<1> QED BY <1>2, <1>3, <1>4, StoreStillLent, FilesBegunLent, FinaliseLent, EntriesReplacedLent, BlocksReplacedLent,
           KillLent, StartLent DEF StoreNext

\* The reference count of an element is the number of objects that use its
\* memory, an object in use or under revalidation has its data, and an entry
\* marked invalid lives only as long as a loan of it. A write that fails leaves
\* its loan for ever, which is why none may.
THEOREM LoansAreKept ==
  ASSUME NoLostWrites
  PROVE  StoreSpec => []LoansMatch
<1>1. StoreInit => Lending
  BY LendingInit
<1>2. Lending /\ [StoreNext]_storeVars => Lending'
  BY LendingStep
<1>3. Lending => LoansMatch
  <2> SUFFICES ASSUME Lending, phase # "down" PROVE
        /\ kept => \A u \in DOMAIN st.entries : st.entries[u].invalid => OnLoan(st.entries[u])
        /\ \A u \in Urls :
             /\ Ref(u, "data") = Cardinality({o \in Listed(u) : obj[o].data = "loan" \/ writing = o})
             /\ Ref(u, "meta") = 0
        /\ \A o \in Objs :
             obj[o].state = "disc" /\ (obj[o].used \/ o \in Candidates) => obj[o].data = "loan"
    BY DEF LoansMatch
  <2>1. kept => \A u \in DOMAIN st.entries : st.entries[u].invalid => OnLoan(st.entries[u])
    BY DEF Lending, Marked
  <2>2. ASSUME NEW u \in Urls
        PROVE  /\ Ref(u, "data") = Cardinality({o \in Listed(u) : obj[o].data = "loan" \/ writing = o})
               /\ Ref(u, "meta") = 0
    <3>1. Ref(u, "data") = RefAt(st, u, "data") /\ Ref(u, "meta") = RefAt(st, u, "meta")
      BY DEF Ref, RefAt
    <3>2. {o \in Listed(u) : obj[o].data = "loan" \/ writing = o} = Borrowers(obj, writing, u)
      BY DEF Listed, Borrowers, Borrows
    <3> QED BY <3>1, <3>2 DEF Lending, Loans, LoansCounted, MetaReleased, MetaFree
  <2>3. ASSUME NEW o \in Objs, obj[o].state = "disc", obj[o].used \/ o \in Candidates PROVE obj[o].data = "loan"
    BY <2>3 DEF Lending, ObjectsOrdered, InUseLoaded, HasCandidate, Candidates
  <2> QED BY <2>1, <2>2, <2>3
<1> QED BY <1>1, <1>2, <1>3, PTL DEF StoreSpec
=============================================================================
