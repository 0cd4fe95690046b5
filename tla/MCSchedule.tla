------------------------------ MODULE MCSchedule ------------------------------
(* Schedule with three callbacks.                                            *)
EXTENDS Schedule

CONSTANTS c1, c2, c3

MCCallbacks == {c1, c2, c3}
===============================================================================
