------------------------------- MODULE FsStore -------------------------------
(***************************************************************************)
(* content/fs_backing_store.c: the store that keeps objects of the         *)
(* low-level cache on disc, as operators from one state of the store to    *)
(* the next.  BackingStore puts them together with the cache that calls    *)
(* them.                                                                   *)
(*                                                                         *)
(* An entry has two elements, data and metadata.  An element that fits     *)
(* lives in a numbered block of a block file, any other in a file named by *)
(* a hash of the URL.  An element whose memory is out on loan (ref > 0) is *)
(* not removed: its entry is marked invalid until the loan ends.           *)
(***************************************************************************)
EXTENDS Integers, FiniteSets, FiniteSetsExt, Functions, TLC

CONSTANTS
    Urls,
    Versions,       \* what a URL has been at different times
    None,
    Size,           \* Size[u][v]: blocks the data of a version takes
    Hash,           \* Hash[u]: the name of a URL's files
    LastBlock,      \* blocks 1 .. LastBlock of each block file
    Limit,          \* store.limit
    Hysteresis,     \* store.hysteresis
    Faults          \* of "read", "write", "memory", "kill": what may go wrong

Elems == {"data", "meta"}
Keys == Urls \X Elems
Contents == Urls \X Versions
Blocks == 1 .. LastBlock
Garbled == <<"garbled">>

ASSUME StoreAssumption ==
    /\ Size \in [Urls -> [Versions -> Nat \ {0}]]
    /\ DOMAIN Hash = Urls
    /\ LastBlock \in Nat /\ Limit \in Nat /\ Hysteresis \in Nat
    /\ None \notin Urls \union Contents \union {Garbled}
    /\ Faults \subseteq {"read", "write", "memory", "kill"}

\* Metadata always fits a block.
SizeOf(c, e) == IF e = "data" THEN Size[c[1]][c[2]] ELSE 1

EmptyElement == [ref |-> 0, val |-> None, size |-> 0, block |-> 0]
EmptyEntry == [invalid |-> FALSE, elem |-> [e \in Elems |-> EmptyElement]]
NoFiles == [e \in Elems |-> [h \in Range(Hash) |-> None]]

\* A store that has never been used, as initialise leaves it.
FreshStore ==
    [entries |-> <<>>,                          \* URL to entry
     used |-> [e \in Elems |-> {}],             \* the use maps
     total |-> 0,                               \* total_alloc
     entriesDirty |-> FALSE, blocksDirty |-> FALSE,
     timer |-> FALSE,                           \* control_maintenance is scheduled
     blocks |-> [e \in Elems |-> [b \in Blocks |-> None]],
     files |-> NoFiles]

Total(en) == en.elem["data"].size + en.elem["meta"].size
TotalOf(entries, us) == MapThenSumSet(LAMBDA u : Total(entries[u]), us)
OnLoan(en) == \E e \in Elems : en.elem[e].ref > 0

RemovableAlways(st, us) == us
Removable(st, us) == {u \in us : ~OnLoan(st.entries[u])}

\* invalidate_entry for each of some entries: those without a loan are removed with
\* their blocks and files (invalidate_element), the others marked.
InvalidateEntries(st, us) ==
    LET gone == Removable(st, us)
        Unlinked(e, h) == \E u \in gone : st.entries[u].elem[e].block = 0 /\ Hash[u] = h
    IN  [st EXCEPT
            !.entries = [u \in DOMAIN st.entries \ gone |->
                IF u \in us THEN [st.entries[u] EXCEPT !.invalid = TRUE] ELSE st.entries[u]],
            !.used = [e \in Elems |-> st.used[e] \ {st.entries[u].elem[e].block : u \in gone}],
            !.files = [e \in Elems |-> [h \in Range(Hash) |->
                IF Unlinked(e, h) THEN None ELSE st.files[e][h]]],
            !.total = @ - TotalOf(st.entries, gone)]

InvalidateEntry(st, u) == InvalidateEntries(st, {u})

-----------------------------------------------------------------------------
\* compar, without the use count and the time of use: entries with data on
\* loan come last, before them those with metadata on loan.
Rank(en) == (IF en.elem["data"].ref > 0 THEN 2 ELSE 0) + (IF en.elem["meta"].ref > 0 THEN 1 ELSE 0)

\* What store_evict may take: entries in the order of compar, up to the one
\* that brings what they hold above the hysteresis.
Evictable(st) ==
    {us \in SUBSET DOMAIN st.entries :
        /\ \A u \in us, w \in DOMAIN st.entries \ us : Rank(st.entries[u]) <= Rank(st.entries[w])
        /\ us = DOMAIN st.entries \/ TotalOf(st.entries, us) > Hysteresis
        /\ us # {} => \E last \in us :
              /\ \A u \in us : Rank(st.entries[u]) <= Rank(st.entries[last])
              /\ TotalOf(st.entries, us \ {last}) <= Hysteresis}

\* store_evict.
Evicted(st) ==
    IF st.total < Limit THEN {st} ELSE {InvalidateEntries(st, us) : us \in Evictable(st)}

\* The bookkeeping of get_store_entry and set_store_entry.
Touched(st) == [st EXCEPT !.entriesDirty = TRUE, !.timer = TRUE]

AllocFirst(st, e) == Min(Blocks)

\* alloc_block: the lowest free block, 0 when there is none.
AllocBlock(st, e) == IF st.used[e] = Blocks THEN 0 ELSE Min(Blocks \ st.used[e])

\* The disc after an element was written from memory; data that is larger than
\* its block runs into the blocks behind.
Written(st, u, e, en) ==
    IF en.block # 0
    THEN [st EXCEPT !.blocks = [@ EXCEPT ![e] = [b \in Blocks |->
            IF b \in en.block .. (en.block + en.size - 1) THEN en.val ELSE st.blocks[e][b]]]]
    ELSE [st EXCEPT !.files = [@ EXCEPT ![e] = [h \in Range(Hash) |->
            IF h = Hash[u] THEN en.val ELSE st.files[e][h]]]]

\* The entry of u, as hashmap_insert makes it when there is none.
EntryOf(st, u) == IF u \in DOMAIN st.entries THEN st.entries[u] ELSE EmptyEntry

\* Element e of the entry of u becomes x.
WithElement(st, u, e, x) ==
    [st EXCEPT !.entries = [w \in DOMAIN st.entries \union {u} |->
        IF w = u THEN [EntryOf(st, u) EXCEPT !.elem = [@ EXCEPT ![e] = x]] ELSE st.entries[w]]]

\* set_store_entry for an element that is not on loan: the element, and the use maps.
SetEntry(st, u, e, c) ==
    LET old == EntryOf(st, u).elem[e]
        small == SizeOf(c, e) = 1
        block == IF small THEN AllocBlock(st, e) ELSE old.block
        element == [ref |-> 1, val |-> c, size |-> SizeOf(c, e), block |-> block]
        used == IF small THEN [st.used EXCEPT ![e] = @ \union ({block} \ {0})] ELSE st.used
    IN  [Touched(WithElement(st, u, e, element)) EXCEPT
            !.total = @ - old.size + SizeOf(c, e),
            !.used = used,
            !.blocksDirty = @ \/ (small /\ block # 0)]

\* store: the states it may leave and whether it succeeds.  The memory handed over
\* is on loan from then on, even when the write to disc fails.
Store(st, u, e, c) ==
    UNION {IF u \in DOMAIN ev.entries /\ ev.entries[u].elem[e].ref > 0
           THEN {[st |-> ev, ok |-> FALSE]}
           ELSE LET set == SetEntry(ev, u, e, c)
                IN  {[st |-> Written(set, u, e, set.entries[u].elem[e]), ok |-> TRUE]}
                    \union (IF "write" \in Faults THEN {[st |-> set, ok |-> FALSE]} ELSE {})
           : ev \in Evicted(st)}

\* What store_read_block and store_read_file find on disc; of an element that was
\* never stored they read no byte.
OnDisc(st, u, e) ==
    LET en == st.entries[u].elem[e]
        parts == {st.blocks[e][b] : b \in Blocks \intersect (en.block .. (en.block + en.size - 1))}
    IN  IF en.size = 0 THEN None
        ELSE IF en.block = 0 THEN st.files[e][Hash[u]]
        ELSE IF \E c \in parts : parts = {c} THEN CHOOSE c \in parts : TRUE ELSE Garbled

\* fetch: the states it may leave and what it returns, None for an error.
Fetch(st, u, e) ==
    IF u \notin DOMAIN st.entries THEN {[st |-> st, val |-> None]}
    ELSE LET en == st.entries[u].elem[e]
             c == OnDisc(st, u, e)
             Lent(n, v) == [st |-> Touched(WithElement(st, u, e, [en EXCEPT !.ref = n, !.val = v])),
                            val |-> v]
             fails == {[st |-> Touched(st), val |-> None]}
         IN  IF en.ref > 0 THEN {Lent(en.ref + 1, en.val)}
             ELSE IF c = None THEN fails
             ELSE {Lent(1, c)} \union (IF "read" \in Faults THEN fails ELSE {})

\* release: the loan ends with its last reference, and with it an entry that was
\* invalidated in the meantime.
ReleaseElement(st, u, e) ==
    IF u \notin DOMAIN st.entries THEN st
    ELSE LET en == st.entries[u].elem[e]
             less == [en EXCEPT !.ref = @ - 1, !.val = IF en.ref = 1 THEN None ELSE @]
             t == Touched(WithElement(st, u, e, IF en.ref = 0 THEN en ELSE less))
         IN  IF st.entries[u].invalid THEN InvalidateEntry(t, u) ELSE t

\* invalidate.
Invalidate(st, u) ==
    IF u \notin DOMAIN st.entries THEN st ELSE InvalidateEntry(Touched(st), u)

\* What fetch would return for a key, were nothing to go wrong.
Readable(st, k) ==
    IF k[1] \notin DOMAIN st.entries THEN None
    ELSE IF st.entries[k[1]].elem[k[2]].ref > 0 THEN st.entries[k[1]].elem[k[2]].val
    ELSE OnDisc(st, k[1], k[2])

=============================================================================
