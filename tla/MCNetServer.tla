----------------------------- MODULE MCNetServer -----------------------------
(* TLC instances of NetServer; the configurations choose the mode.          *)
EXTENDS NetServer, TLC

CONSTANTS c1, c2, f1, w1, w2

OneConn == {c1}
TwoConns == {c1, c2}
OneFd == {f1}
OneWorker == {w1}
TwoWorkers == {w1, w2}
ReactorOnly == {TRUE}
EdgeOnly == {TRUE}
Both == BOOLEAN
Symmetry == Permutations(TwoConns) \cup Permutations(TwoWorkers)

(* What happens after a race is not followed: no invariant but TypeOK speaks *)
(* of it.                                                                   *)
NotRaced == ~raced
==============================================================================
