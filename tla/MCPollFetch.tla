----------------------------- MODULE MCPollFetch -----------------------------
(* PollFetch with three fetches of two fetchers, whose URLs have no host:   *)
(* fetch.c counts NULL as one host.                                         *)
EXTENDS PollFetch

CONSTANTS f1, f2, f3, h1

MCFetches == {f1, f2, f3}
MCHosts == {h1}
MCHost == [f \in {f1, f2, f3} |-> h1]
MCFetcherd == [f \in {f1, f2, f3} |-> IF f = f3 THEN 2 ELSE 1]
=============================================================================
