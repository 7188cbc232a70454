---------------------------- MODULE MCSqlConnPool ----------------------------
(* TLC instances of SqlConnPool: four workers share two handles, so that   *)
(* two of them can wait at once, and serve three transactions and an       *)
(* autocommitted insert; or two workers with a handle each.                *)
EXTENDS SqlConnPool, TLC

CONSTANTS w1, w2, w3, w4, h1, h2, t1, t2, t3, p1

TwoWorkers == {w1, w2}
FourWorkers == {w1, w2, w3, w4}
TwoHandles == {h1, h2}
TwoTx == {t1, t2}
ThreeTx == {t1, t2, t3}
OneAuto == {p1}
Sym == Permutations(FourWorkers) \cup Permutations(TwoHandles) \cup Permutations(ThreeTx)
==============================================================================
