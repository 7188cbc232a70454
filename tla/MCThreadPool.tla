---------------------------- MODULE MCThreadPool ----------------------------
(* TLC instance of ThreadPool: two workers, two threads that submit tasks, *)
(* three submissions, shutdown at any time.                                *)
EXTENDS ThreadPool, TLC

CONSTANTS w1, w2, c1, c2, t1, t2

const_Workers == {w1, w2}
const_Callers == {c1, c2}
const_Tasks == {t1, t2}
=============================================================================
