----------------------------- MODULE MCHLCache -----------------------------
(* The high-level cache on small instances. *)
EXTENDS HLCache, TLC

MCSymmetry == Permutations(Handles)

=============================================================================
