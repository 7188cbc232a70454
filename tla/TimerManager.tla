----------------------------- MODULE TimerManager -----------------------------
(***************************************************************************)
(* src/src/timer: TimerManager keeps every TimerNode ever added in a heap  *)
(* ordered by expiry and, per id, the node that counts.  Adding a timer    *)
(* for an id that has one leaves the old node in the heap; tick recognises *)
(* it later, because the map holds another pointer (lazy deletion).        *)
(*                                                                         *)
(* tick holds m_mutex from its first look at the heap to its last, so      *)
(* addTimer waits for it; the clock does not, and tick reads it afresh for *)
(* every node.  Pointers are addresses: one is taken again only when no    *)
(* node has it.                                                            *)
(***************************************************************************)
EXTENDS Integers

CONSTANTS
  Ids,          \* timer ids
  Timeouts,     \* values of timeout_ms
  Addrs,        \* addresses of TimerNodes
  NoTimer,      \* no entry in m_timer_map
  MaxTime       \* bound: the clock stops there

ASSUME TimeoutsPositive == Timeouts \subseteq Nat \ {0}
ASSUME MaxTimeNat == MaxTime \in Nat

Node == [addr : Addrs, id : Ids, expire : Nat, interval : Timeouts, repeat : BOOLEAN]

ASSUME NoTimerIsNoNode ==
  /\ NoTimer \notin Node
  /\ NoTimer \notin [expire : Nat, interval : Timeouts, repeat : BOOLEAN]

VARIABLES
  now,            \* steady_clock
  m_timer_heap,   \* the nodes in the priority queue
  m_timer_map,    \* id -> its current node, or NoTimer
  ticking,        \* tick holds m_mutex
  last            \* history: the last callback run: [id, due, at]

vars == <<now, m_timer_heap, m_timer_map, ticking, last>>

Init ==
  /\ now = 0
  /\ m_timer_heap = {}
  /\ m_timer_map = [id \in Ids |-> NoTimer]
  /\ ticking = FALSE
  /\ last = NoTimer

-----------------------------------------------------------------------------
FreeAddrs == Addrs \ {n.addr : n \in m_timer_heap}

(* Which of them the allocator takes makes no difference.                  *)
NewAddr == CHOOSE a \in FreeAddrs : TRUE

(* The TimerNode constructor.                                              *)
NewNode(id, t, r) ==
  [addr |-> NewAddr, id |-> id, expire |-> now + t, interval |-> t, repeat |-> r]

(* Slip: the comparison of TimerCmp is turned round.                       *)
TopsMax == {n \in m_timer_heap : \A m \in m_timer_heap : n.expire >= m.expire}

(* The nodes m_timer_heap.top() may return: the order of ties is the       *)
(* heap's business.                                                        *)
Tops == {n \in m_timer_heap : \A m \in m_timer_heap : n.expire <= m.expire}

Advance ==
  /\ now < MaxTime
  /\ now' = now + 1
  /\ UNCHANGED <<m_timer_heap, m_timer_map, ticking, last>>

(* One address stays free for the renewal of a repeating timer (a bound of *)
(* the model, not of the code).                                            *)
AddTimer(id, t, r) ==
  /\ ~ticking
  /\ \E a, b \in FreeAddrs : a # b
  /\ m_timer_map' = [m_timer_map EXCEPT ![id] = NewNode(id, t, r)]
  /\ m_timer_heap' = m_timer_heap \cup {NewNode(id, t, r)}
  /\ UNCHANGED <<now, ticking, last>>

TickStart ==
  /\ ~ticking
  /\ ticking' = TRUE
  /\ UNCHANGED <<now, m_timer_heap, m_timer_map, last>>

(* Slip: count(fd) is checked, but not that the map's node is this one.    *)
TickFireAny(n) ==
  /\ ticking
  /\ n.expire <= now
  /\ m_timer_map[n.id] # NoTimer
  /\ ~n.repeat
  /\ last' = [id |-> n.id, due |-> n.expire, at |-> now]
  /\ m_timer_map' = [m_timer_map EXCEPT ![n.id] = NoTimer]
  /\ m_timer_heap' = m_timer_heap \ {n}
  /\ UNCHANGED <<now, ticking>>

(* An expired one-shot timer that is the current one of its id: run the    *)
(* callback, forget the id, pop the node.                                  *)
TickFire(n) ==
  /\ ticking
  /\ n.expire <= now
  /\ m_timer_map[n.id] = n
  /\ ~n.repeat
  /\ last' = [id |-> n.id, due |-> n.expire, at |-> now]
  /\ m_timer_map' = [m_timer_map EXCEPT ![n.id] = NoTimer]
  /\ m_timer_heap' = m_timer_heap \ {n}
  /\ UNCHANGED <<now, ticking>>

(* Slip: pop() comes last and takes the renewed node with it.              *)
TickRenewLost(n) ==
  /\ ticking
  /\ n.expire <= now
  /\ m_timer_map[n.id] = n
  /\ n.repeat
  /\ last' = [id |-> n.id, due |-> n.expire, at |-> now]
  /\ FreeAddrs # {}
  /\ m_timer_map' = [m_timer_map EXCEPT ![n.id] = NewNode(n.id, n.interval, TRUE)]
  /\ m_timer_heap' = m_timer_heap \ {n}
  /\ UNCHANGED <<now, ticking>>

(* The same for a repeating timer: a new node is pushed, and pop() after   *)
(* it still removes the old one, which expires earlier.                    *)
TickRenew(n) ==
  /\ ticking
  /\ n.expire <= now
  /\ m_timer_map[n.id] = n
  /\ n.repeat
  /\ last' = [id |-> n.id, due |-> n.expire, at |-> now]
  /\ FreeAddrs # {}
  /\ m_timer_map' = [m_timer_map EXCEPT ![n.id] = NewNode(n.id, n.interval, TRUE)]
  /\ m_timer_heap' = (m_timer_heap \cup {NewNode(n.id, n.interval, TRUE)}) \ {n}
  /\ UNCHANGED <<now, ticking>>

(* Slip: a stale node is skipped with continue, before pop().              *)
TickSkipNoPop(n) ==
  /\ ticking
  /\ n.expire <= now
  /\ m_timer_map[n.id] # n
  /\ UNCHANGED vars

(* An expired node that was replaced or whose id is gone: just pop it.     *)
TickSkip(n) ==
  /\ ticking
  /\ n.expire <= now
  /\ m_timer_map[n.id] # n
  /\ m_timer_heap' = m_timer_heap \ {n}
  /\ UNCHANGED <<now, m_timer_map, ticking, last>>

(* The heap is empty or its top has not expired.                           *)
TickEnd ==
  /\ ticking
  /\ m_timer_heap = {} \/ \E n \in Tops : n.expire > now
  /\ ticking' = FALSE
  /\ UNCHANGED <<now, m_timer_heap, m_timer_map, last>>

TickNode(n) == TickFire(n) \/ TickRenew(n) \/ TickSkip(n)

Tick == TickStart \/ TickEnd \/ \E n \in Tops : TickNode(n)

Next ==
  \/ Advance
  \/ \E id \in Ids, t \in Timeouts, r \in BOOLEAN : AddTimer(id, t, r)
  \/ Tick

Spec == Init /\ [][Next]_vars

(* The owner keeps calling tick, as the event loop does while it has       *)
(* events, and every call runs to its end.                                 *)
FairSpec == Spec /\ WF_vars(Tick)

(* TimerManager::isExpired, read without the lock.                         *)
IsExpired(id) ==
  m_timer_map[id] = NoTimer \/ m_timer_map[id].expire <= now

-----------------------------------------------------------------------------
(* Types; the map files every node under the id it was made for.            *)
TypeOK ==
  /\ now \in Nat
  /\ m_timer_heap \subseteq Node
  /\ m_timer_map \in [Ids -> Node \cup {NoTimer}]
  /\ \A id \in Ids : m_timer_map[id] # NoTimer => m_timer_map[id].id = id
  /\ ticking \in BOOLEAN

(* A timer that counts is never dropped from the heap, whatever refreshes,  *)
(* renewals and lazy deletions happen around it (lines 22-24, 45-64).       *)
LiveInHeap == \A id \in Ids : m_timer_map[id] # NoTimer => m_timer_map[id] \in m_timer_heap

(* When tick returns, no timer that counts is due: looking only at the top  *)
(* of the heap (lines 31-69) is enough, though stale nodes are mixed in.    *)
NothingDueAfterTick ==
  [][ticking /\ ~ticking' =>
       \A id \in Ids : m_timer_map[id] # NoTimer => m_timer_map[id].expire > now]_vars

(* Replaced timers never fire, current ones never early and in order of     *)
(* their deadlines: the heap with lazy deletion implements DeadlineMap.     *)
Abs(n) == IF n = NoTimer THEN NoTimer
          ELSE [expire |-> n.expire, interval |-> n.interval, repeat |-> n.repeat]

DM == INSTANCE DeadlineMap WITH deadline <- [id \in Ids |-> Abs(m_timer_map[id])]

ImplementsDeadlineMap == DM!DSpec

(* If tick keeps being called, a timer that is due fires, is replaced, or   *)
(* is set again.                                                            *)
DueFires ==
  \A id \in Ids, e \in 1..MaxTime :
    (m_timer_map[id] # NoTimer /\ m_timer_map[id].expire = e /\ IsExpired(id))
      ~> (m_timer_map[id] = NoTimer \/ m_timer_map[id].expire # e)
===============================================================================
