------------------------------- MODULE MCFetch -------------------------------
(* A small instance of Fetch: two fetches on one host, one on another.      *)
EXTENDS Fetch, TLC

CONSTANTS f1, f2, f3, h1, h2

MCFetches == {f1, f2, f3}
MCHosts == {h1, h2}
MCHost == (f1 :> h1) @@ (f2 :> h1) @@ (f3 :> h2)
==============================================================================
