-------------------------------- MODULE Cache --------------------------------
(***************************************************************************)
(* src/src/cache: CacheAdapter in front of an LRUCache and a RedisClient,  *)
(* used by several threads.  Every LRUCache operation runs under its own   *)
(* mutex; a Redis operation is a redisCommand on the one redisContext that *)
(* all threads share, and no lock is held around it or around a call of    *)
(* the adapter.  redisCommand puts the command into the output buffer of   *)
(* the context, sends it, and then takes the next reply from the context's *)
(* reader, whoever's reply that is: two steps here.                        *)
(*                                                                         *)
(* hiredis contexts are not made for two threads.  A thread that sends     *)
(* while another one waits races on the output buffer, whose content goes  *)
(* out once, twice or not at all; from then on the replies in the reader   *)
(* need not be those of the threads that take them.                        *)
(*                                                                         *)
(* Redis is external: a store that carries out commands in the order they  *)
(* arrive or refuses one with an error reply, and a connection that may    *)
(* break at any time; hiredis then answers every waiting and every later   *)
(* command with a null reply, and RedisClient never reconnects.            *)
(***************************************************************************)
EXTENDS Integers, Sequences, SequencesExt

CONSTANTS
  Threads,    \* the adapter's callers
  Keys,
  Values,
  Setups,     \* the combinations that are tried of a CacheMode, an lru_capacity
              \* and the set of keys that the callers use
  MaxAnswers, \* bound: no command goes out twice with this many in the reader
  None,       \* no value: a miss, an absent key
  Found,      \* contains returned true
  Failed,     \* a Redis command got no proper reply
  Unknown     \* no claim is made about the key

Modes == {"LRU_ONLY", "REDIS_ONLY", "LRU_REDIS"}

ASSUME SetupsProper == Setups \subseteq [mode : Modes, capacity : Nat, used : SUBSET Keys]
ASSUME Marks == /\ {None, Found, Failed, Unknown} \cap Values = {}
                /\ None \notin {Found, Failed, Unknown} /\ Found # Failed

VARIABLES
  m_mode,      \* CacheMode
  m_capacity,  \* of the LRUCache
  used,        \* the keys the callers use
  m_items,     \* its list of key-value pairs, the most recent first
  m_index,     \* the keys of its hash map
  link,        \* m_connected was set by RedisClient's constructor, and the
               \* hiredis context still works
  answers,     \* the replies of Redis that redisCommand has yet to take
  store,       \* what Redis holds
  pc,          \* where each thread is in its call
  call,        \* its call: operation, key, the value to set or found in Redis
  ret,         \* what the call that ended in the last step returned
  (* History *)
  recent,      \* the keys by their last put or hit in the LRUCache
  crossed,     \* a command was sent while another thread waited for a reply
  alone,       \* no conflicting call on the same key overlapped this one
  truth        \* what a get must find; Unknown after overlap or failure, and
               \* for every key once a command crossed another

lru == <<m_items, m_index, recent>>
redis == <<link, answers, store, crossed>>
config == <<m_mode, m_capacity, used>>
vars == <<config, lru, redis, pc, call, ret, alone, truth>>

HasLru == m_mode \in {"LRU_ONLY", "LRU_REDIS"}
HasRedis == m_mode \in {"REDIS_ONLY", "LRU_REDIS"}
Calls == [op : {"get", "erase", "contains"}, k : Keys, v : {None}]
           \cup [op : {"set"}, k : Keys, v : Values]
Clear == [op |-> "clear", k |-> None, v |-> None]
Writes(c) == c.op \in {"set", "erase"}

(* CacheAdapter::init with the constructors of LRUCache and RedisClient;   *)
(* the store may hold what an earlier process left.                        *)
Init ==
  /\ \E s \in Setups : m_mode = s.mode /\ m_capacity = s.capacity /\ used = s.used
  /\ m_items = <<>> /\ m_index = {} /\ recent = <<>>
  /\ link \in (IF HasRedis THEN BOOLEAN ELSE {FALSE})
  /\ store \in {[k \in Keys |-> None]}
               \cup {f \in [Keys -> Values \cup {None}] :
                       HasRedis /\ \A k \in Keys : f[k] # None <=> k \in used}
  /\ answers = <<>> /\ crossed = FALSE
  /\ pc = [t \in Threads |-> "idle"]
  /\ call = [t \in Threads |-> Clear]
  /\ ret = None
  /\ alone = [t \in Threads |-> TRUE]
  /\ truth = store

-----------------------------------------------------------------------------
(* LRUCache *)

Without(items, k) == RemoveFirstMatch(items, LAMBDA e : e[1] = k)
WithoutKey(keys, k) == RemoveFirst(keys, k)
ItemOf(k) == CHOOSE e \in ToSet(m_items) : e[1] = k

(* splice: the node goes to the front of the list.                         *)
ToFront(k, v) ==
  /\ m_items' = <<<<k, v>>>> \o Without(m_items, k)
  /\ recent' = <<k>> \o WithoutKey(recent, k)

(* Slip: the evicted node stays in the map.                                *)
LruPutKeepsIndex(k, v) ==
  IF m_capacity = 0 THEN UNCHANGED lru
  ELSE IF k \in m_index THEN ToFront(k, v) /\ UNCHANGED m_index
  ELSE /\ m_items' = <<<<k, v>>>> \o (IF Len(m_items) >= m_capacity
                                     THEN Front(m_items) ELSE m_items)
       /\ m_index' = m_index \cup {k}
       /\ recent' = <<k>> \o WithoutKey(recent, k)

(* LRUCache::put: update, or insert after evicting the last node.          *)
LruPut(k, v) ==
  \/ m_capacity = 0 /\ UNCHANGED lru
  \/ m_capacity > 0 /\ k \in m_index /\ ToFront(k, v) /\ UNCHANGED m_index
  \/ LET full == Len(m_items) >= m_capacity
         last == Last(m_items)
     IN  /\ m_capacity > 0 /\ k \notin m_index
         /\ m_index' = (IF full THEN m_index \ {last[1]} ELSE m_index) \cup {k}
         /\ m_items' = <<<<k, v>>>> \o (IF full THEN Front(m_items) ELSE m_items)
         /\ recent' = <<k>> \o WithoutKey(recent, k)

(* Slip: a hit leaves the node where it is.                                *)
LruHitStays(k) ==
  UNCHANGED <<m_items, m_index>> /\ recent' = <<k>> \o WithoutKey(recent, k)

(* LRUCache::get on a hit.                                                 *)
LruHit(k) == ToFront(k, ItemOf(k)[2]) /\ UNCHANGED m_index

(* LRUCache::erase.                                                        *)
LruErase(k) ==
  /\ m_items' = Without(m_items, k)
  /\ m_index' = m_index \ {k}
  /\ recent' = WithoutKey(recent, k)

(* LRUCache::clear.                                                        *)
LruClear == m_items' = <<>> /\ m_index' = {} /\ recent' = <<>>

-----------------------------------------------------------------------------
(* CacheAdapter *)

(* A call ends; a write that ran alone and reached every layer decides     *)
(* what gets must find from now on.                                        *)
Finish(t, v) ==
  LET c == call[t] IN
  /\ pc' = [pc EXCEPT ![t] = "idle"]
  /\ ret' = v
  /\ truth' = IF Writes(c)
              THEN [truth EXCEPT ![c.k] = IF alone[t] /\ v # Failed /\ ~crossed THEN c.v ELSE Unknown]
              ELSE truth
  /\ call' = [call EXCEPT ![t] = Clear]
  /\ alone' = [alone EXCEPT ![t] = TRUE]
  /\ UNCHANGED config

GoTo(t, label) ==
  /\ pc' = [pc EXCEPT ![t] = label]
  /\ ret' = None
  /\ UNCHANGED <<config, call, alone, truth>>

(* A thread enters get, set, erase, contains or clear.                     *)
Enter(t, c) ==
  LET rivals == {u \in Threads : /\ pc[u] # "idle" /\ call[u].k = c.k
                                 /\ Writes(c) \/ Writes(call[u])}
  IN  /\ pc[t] = "idle" /\ c.k \in used \cup {None}
      /\ call' = [call EXCEPT ![t] = c]
      /\ pc' = [pc EXCEPT ![t] = IF HasLru THEN "lru" ELSE "redis"]
      /\ alone' = [u \in Threads |-> IF u = t THEN rivals = {}
                                     ELSE alone[u] /\ u \notin rivals]
      /\ truth' = IF Writes(c) THEN [truth EXCEPT ![c.k] = Unknown] ELSE truth
      /\ ret' = None
      /\ UNCHANGED <<config, lru, redis>>

(* After the LRUCache step: on to Redis, or the end of the call.           *)
NextLayer(t, v) ==
  IF HasRedis /\ v = None THEN GoTo(t, "redis") ELSE Finish(t, v)

(* get, first layer.                                                       *)
GetLru(t) ==
  LET k == call[t].k IN
  /\ pc[t] = "lru" /\ call[t].op = "get"
  /\ \/ k \in m_index /\ LruHit(k) /\ Finish(t, ItemOf(k)[2])
     \/ k \notin m_index /\ UNCHANGED lru /\ NextLayer(t, None)
  /\ UNCHANGED redis

(* set, first layer.                                                       *)
SetLru(t) ==
  /\ pc[t] = "lru" /\ call[t].op = "set"
  /\ LruPut(call[t].k, call[t].v)
  /\ NextLayer(t, None)
  /\ UNCHANGED redis

(* Slip: only Redis is told.                                               *)
EraseLruSkipped(t) ==
  /\ pc[t] = "lru" /\ call[t].op = "erase"
  /\ UNCHANGED <<lru, redis>>
  /\ NextLayer(t, None)

(* erase, first layer.                                                     *)
EraseLru(t) ==
  /\ pc[t] = "lru" /\ call[t].op = "erase"
  /\ LruErase(call[t].k)
  /\ NextLayer(t, None)
  /\ UNCHANGED redis

(* contains, first layer.                                                  *)
ContainsLru(t) ==
  /\ pc[t] = "lru" /\ call[t].op = "contains"
  /\ NextLayer(t, IF call[t].k \in m_index THEN Found ELSE None)
  /\ UNCHANGED <<lru, redis>>

(* clear: Redis is left alone.                                             *)
ClearLru(t) ==
  /\ call[t].op = "clear"
  /\ \/ pc[t] = "lru" /\ LruClear
     \/ pc[t] = "redis" /\ UNCHANGED lru
  /\ Finish(t, None)
  /\ UNCHANGED redis

(* What a command does to the store, and what Redis replies.               *)
Apply(c) == IF Writes(c) THEN [store EXCEPT ![c.k] = c.v] ELSE store
Answer(c) ==
  LET old == store[c.k] IN
  CASE c.op = "get" -> [type |-> IF old = None THEN "nil" ELSE "string", v |-> old]
    [] c.op = "set" -> [type |-> "status", v |-> None]
    [] OTHER -> [type |-> "integer", v |-> IF old = None THEN None ELSE Found]
ErrorAnswer == [type |-> "error", v |-> None]

(* redisCommand up to the sending.                                         *)
Sends(t, answer, result) ==
  LET racing == \E u \in Threads : pc[u] = "await" IN
  /\ pc[t] = "redis" /\ call[t].op # "clear" /\ link
  /\ pc' = [pc EXCEPT ![t] = "await"]
  /\ ret' = None
  /\ crossed' = (crossed \/ racing)
  /\ truth' = IF racing THEN [k \in Keys |-> Unknown] ELSE truth
  /\ \E copies \in IF racing THEN 0..2 ELSE {1} :
       /\ copies = 2 => Len(answers) < MaxAnswers
       /\ answers' = answers \o [i \in 1..copies |-> answer]
       /\ store' = IF copies = 0 THEN store ELSE result
  /\ UNCHANGED <<config, lru, link, call, alone>>

(* The command is carried out, or refused with nothing done.               *)
RedisSend(t) == Sends(t, Answer(call[t]), Apply(call[t]))
RedisRefuses(t) == Sends(t, ErrorAnswer, store)

(* What RedisClient::get, set, del and exists make of a reply.             *)
Wanted(c) == CASE c.op = "get" -> {"string", "nil"}
               [] c.op = "set" -> {"status"}
               [] OTHER -> {"integer"}
Read(c, answer) ==
  IF answer.type \notin Wanted(c) THEN Failed
  ELSE IF c.op = "erase" THEN None ELSE answer.v

(* redisCommand takes the next reply.  A get that finds the key goes on to *)
(* the backfill when there is an LRUCache.                                 *)
RedisReply(t) ==
  LET c == call[t]
      v == Read(c, Head(answers))
      found == c.op = "get" /\ v \in Values /\ HasLru
  IN  /\ pc[t] = "await" /\ link /\ answers # <<>>
      /\ answers' = Tail(answers)
      /\ \/ /\ found
            /\ pc' = [pc EXCEPT ![t] = "backfill"]
            /\ call' = [call EXCEPT ![t] = [op |-> "get", k |-> c.k, v |-> v]]
            /\ ret' = None
            /\ UNCHANGED <<config, alone, truth>>
         \/ ~found /\ Finish(t, v)
      /\ UNCHANGED <<lru, link, store, crossed>>

(* The connection breaks; what was not taken from the reader is lost.      *)
RedisBreaks ==
  /\ link
  /\ link' = FALSE /\ answers' = <<>>
  /\ ret' = None
  /\ UNCHANGED <<config, lru, store, crossed, pc, call, alone, truth>>

(* There is no connection: the call returns at once, or a null reply.      *)
RedisDown(t) ==
  /\ pc[t] \in {"redis", "await"} /\ call[t].op # "clear" /\ ~link
  /\ Finish(t, Failed)
  /\ UNCHANGED <<lru, redis>>

(* get, last step: what Redis returned goes into the LRUCache.             *)
Backfill(t) ==
  /\ pc[t] = "backfill"
  /\ LruPut(call[t].k, call[t].v)
  /\ Finish(t, call[t].v)
  /\ UNCHANGED redis

Next == \E t \in Threads :
  \/ \E c \in Calls \cup {Clear} : Enter(t, c)
  \/ GetLru(t) \/ SetLru(t) \/ EraseLru(t) \/ ContainsLru(t) \/ ClearLru(t)
  \/ RedisSend(t) \/ RedisRefuses(t) \/ RedisReply(t) \/ RedisBreaks \/ RedisDown(t)
  \/ Backfill(t)

Spec == Init /\ [][Next]_vars

-----------------------------------------------------------------------------
(* The list and the hash map of LRUCache, which every operation updates    *)
(* separately, always hold the same keys, each in one node, and never more *)
(* of them than the capacity, whatever calls interleave.                   *)
IndexMatchesList ==
  /\ Len(m_items) <= m_capacity
  /\ IsInjective([i \in DOMAIN m_items |-> m_items[i][1]])
  /\ m_index = {m_items[i][1] : i \in DOMAIN m_items}

(* What the LRUCache holds are the keys used last, in the order of their   *)
(* last put or hit: eviction by put never takes a key that was used after  *)
(* one it keeps.                                                           *)
KeepsMostRecent ==
  /\ Len(m_items) <= Len(recent)
  /\ \A i \in DOMAIN m_items : m_items[i][1] = recent[i]

(* What a thread may be told about a key whose proper content is known.    *)
Faithful(c, v, known) ==
  CASE v = Failed -> TRUE
    [] v = None -> known = None \/ m_mode = "LRU_ONLY"
    [] OTHER -> IF c.op = "get" THEN v = known ELSE known # None

(* CacheAdapter updates the LRUCache and Redis one after the other and     *)
(* get writes back what it read.  Even so, a get or contains whose key no  *)
(* write overlaps answers with the last write, provided that write         *)
(* overlapped no other call on the key and Redis carried it out: overlap   *)
(* (a backfill that lands after a set, two sets that reach the layers in   *)
(* opposite orders) or a failed command makes the layers differ, and the   *)
(* next undisturbed write repairs it.  The exception is RedisClient: once  *)
(* two threads were inside redisCommand at once, nothing is claimed any    *)
(* more, not even for calls on different keys, since each may have taken   *)
(* the other's reply and put it into the LRUCache under its own key.       *)
FreshRead ==
  [][\A t \in Threads :
       LET c == call[t] IN
       (/\ pc[t] # "idle" /\ pc'[t] = "idle" /\ alone[t]
        /\ c.op \in {"get", "contains"} /\ truth[c.k] # Unknown)
       => Faithful(c, ret', truth[c.k])]_vars
=============================================================================
