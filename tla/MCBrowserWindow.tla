-------------------------- MODULE MCBrowserWindow --------------------------
(* Two sites: "a" refreshes itself to "b"; "b" lingers when it is stopped. *)
EXTENDS BrowserWindow, TLC
CONSTANTS h1, h2, h3, a, b, blank, mail
Refreshing == (a :> b) @@ (b :> None) @@ (mail :> None)
=============================================================================
