---------------------------- MODULE MCWebfsFetch ----------------------------
(* WebfsFetch with two fetches on one host and one on another.              *)
EXTENDS WebfsFetch, TLC

CONSTANTS f1, f2, f3, h1, h2

MCFetches2 == {f1, f2}
MCFetches3 == {f1, f2, f3}
MCHosts == {h1, h2}
MCHost2 == [f \in {f1, f2} |-> h1]
MCHost3 == (f1 :> h1) @@ (f2 :> h1) @@ (f3 :> h2)
=============================================================================
