--------------------------- MODULE MCProcessExit ----------------------------
(* One command and the signals that may interrupt it. *)
EXTENDS ProcessExit

CONSTANTS s1, s2
TwoSignals == {s1, s2}
=============================================================================
