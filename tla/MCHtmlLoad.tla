----------------------------- MODULE MCHtmlLoad -----------------------------
(* The load of an HTML document on small instances. *)
EXTENDS HtmlLoad, TLC
=============================================================================
