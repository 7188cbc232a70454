-------------------------------- MODULE MCLog --------------------------------
(* TLC instance of Log: two writers of two entries each, and shutdown at   *)
(* any time.                                                               *)
EXTENDS Log, TLC

CONSTANTS w1, w2

TwoWriters == {w1, w2}
==============================================================================
