---------------------------- MODULE MCTimerManager ----------------------------
(* TLC instance of TimerManager: two ids, timeouts 1 and 2, up to three    *)
(* nodes, so that replaced nodes sit in the heap beside current ones.         *)
EXTENDS TimerManager, TLC

CONSTANTS i1, i2, a1, a2, a3, a4

TwoIds == {i1, i2}
FourAddrs == {a1, a2, a3, a4}
TwoTimeouts == {1, 2}
===============================================================================
