---------------------------- MODULE StoreContract ----------------------------
(***************************************************************************)
(* What a backing store promises the low-level cache (struct               *)
(* gui_llcache_table in content/backing_store.h): a shelf that returns for *)
(* a URL what was last stored under that URL, or nothing.  It may forget   *)
(* an element whenever it likes; it never shows one that was not stored.   *)
(* The promise ends when the program is killed.                            *)
(***************************************************************************)
CONSTANTS
    Keys,       \* a URL and an element, data or metadata
    Contents,   \* what is stored
    None        \* nothing is found; no content

VARIABLES
    shelf,      \* what fetch would return for each key
    last,       \* what was last stored under each key
    kept        \* whether the promise still stands

vars == <<shelf, last, kept>>

Init ==
    /\ shelf = [k \in Keys |-> None]
    /\ last = [k \in Keys |-> None]
    /\ kept = TRUE

\* Each key in ks is as it was, or forgotten.
Fades(ks) == \A k \in ks : shelf'[k] \in {shelf[k], None}

Store(k, c) ==
    /\ kept
    /\ last' = [last EXCEPT ![k] = c]
    /\ shelf' \in [Keys -> Contents \union {None}]
    /\ shelf'[k] \in {c, None}
    /\ Fades(Keys \ {k})
    /\ UNCHANGED kept

\* Eviction, invalidation, a restart.
Forget ==
    /\ kept
    /\ shelf' \in [Keys -> Contents \union {None}]
    /\ Fades(Keys)
    /\ UNCHANGED <<last, kept>>

Killed == kept' = FALSE

Next == (\E k \in Keys, c \in Contents : Store(k, c)) \/ Forget \/ Killed

Spec == Init /\ [][Next]_vars
==============================================================================
