------------------------------ MODULE MCLLCache ------------------------------
(***************************************************************************)
(* Instances of LLCache for TLC.                                           *)
(***************************************************************************)
EXTENDS LLCache, TLC

CONSTANTS o1, o2, o3, u1, u2

Identities == Permutations({o1, o2, o3}) \union Permutations({u1, u2})
TwoIdentities == Permutations({o1, o2}) \union Permutations({u1, u2})
==============================================================================
