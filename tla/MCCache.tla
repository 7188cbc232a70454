------------------------------- MODULE MCCache -------------------------------
(* TLC instance of Cache: two threads.  In LRU_ONLY there is one key more  *)
(* than the LRUCache has room for, so that the order of eviction matters;  *)
(* in LRU_REDIS, where the states are many, there are two keys, enough for *)
(* two threads to take each other's reply, and an LRUCache with room for   *)
(* none, one or both.                                                      *)
EXTENDS Cache, TLC

CONSTANTS t1, t2, k1, k2, k3, v1, v2

TwoThreads == {t1, t2}
ThreeKeys == {k1, k2, k3}
TwoValues == {v1, v2}
SomeSetups ==
  {[mode |-> m, capacity |-> c, used |-> ThreeKeys] :
     <<m, c>> \in {<<"LRU_ONLY", 0>>, <<"LRU_ONLY", 2>>, <<"REDIS_ONLY", 0>>}}
  \cup [mode : {"LRU_REDIS"}, capacity : 0..2, used : {{k1, k2}}]
Sym == Permutations(TwoThreads) \cup Permutations({k1, k2}) \cup Permutations(TwoValues)
=============================================================================
