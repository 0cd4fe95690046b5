----------------------------- MODULE MCCurlFetch -----------------------------
(* CurlFetch with two fetches on one host.                                  *)
EXTENDS CurlFetch

CONSTANTS f1, f2, h1

MCFetches == {f1, f2}
MCHosts == {h1}
MCHost == [f \in {f1, f2} |-> h1]
MCAbortable == {f1, f2}
==============================================================================
