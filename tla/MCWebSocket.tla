----------------------------- MODULE MCWebSocket -----------------------------
(* TLC instance of WebSocket: a second client may get the number of the    *)
(* first, or stay beside it.                                               *)
EXTENDS WebSocket, TLC

CONSTANTS c1, c2, f1, f2, s1, s2, w1, w2

TwoConns == {c1, c2}
TwoFds == {f1, f2}
TwoSessions == {s1, s2}
TwoWorkers == {w1, w2}
Sym == Permutations(TwoConns) \cup Permutations(TwoFds)
         \cup Permutations(TwoSessions) \cup Permutations(TwoWorkers)
=============================================================================
