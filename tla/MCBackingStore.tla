--------------------------- MODULE MCBackingStore ---------------------------
(* BackingStore with two URLs.                                              *)
EXTENDS BackingStore

CONSTANTS u1, u2, o1, o2, o3

MCUrls == {u1, u2}
MCObjs == {o1, o2}
MCObjs3 == {o1, o2, o3}
MCHash == [u \in MCUrls |-> u]
MCSymmetry == Permutations(MCUrls) \union Permutations(MCObjs)
\* Data that fits a block; with one block the second element goes to a file.
MCSize == [u \in MCUrls |-> [v \in Versions |-> 1]]
\* Two URLs of one hash, and data that outgrows its block.
MCHashSame == [u \in MCUrls |-> u1]
MCSizeGrows == [u \in MCUrls |-> [v \in Versions |-> v]]
MCSizeBig == [u \in MCUrls |-> [v \in Versions |-> 2]]
=============================================================================
