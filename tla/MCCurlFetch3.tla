---------------------------- MODULE MCCurlFetch3 ----------------------------
(* CurlFetch with three fetches on one host that serves one at a time.      *)
EXTENDS CurlFetch

CONSTANTS f1, f2, f3, h1

MCFetches == {f1, f2, f3}
MCHosts == {h1}
MCHost == [f \in MCFetches |-> h1]
==============================================================================
