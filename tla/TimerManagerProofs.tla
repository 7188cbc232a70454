-------------------------- MODULE TimerManagerProofs --------------------------
(***************************************************************************)
(* TimerManager for any ids, timeouts and clock: a timer that counts stays *)
(* in the heap, tick leaves nothing due behind, and the heap with lazy     *)
(* deletion implements DeadlineMap.                                        *)
(***************************************************************************)
EXTENDS TimerManager, TLAPS

Inv == TypeOK /\ LiveInHeap

(* A node made now is a node, and expires later than anything that is due. *)
LEMMA NewNodeType ==
  ASSUME now \in Nat, NEW id \in Ids, NEW t \in Timeouts, NEW r \in BOOLEAN,
         FreeAddrs # {}
  PROVE  /\ NewNode(id, t, r) \in Node
         /\ NewNode(id, t, r).id = id
         /\ NewNode(id, t, r).expire > now
<1>1. NewAddr \in Addrs
  BY DEF NewAddr, FreeAddrs
<1>2. t \in Nat \ {0}
  BY TimeoutsPositive
<1>3. now + t \in Nat /\ now + t > now
  BY <1>2
<1>4. QED
  BY <1>1, <1>3 DEF NewNode, Node

(* The two facts a step on one node of the heap relies on: the map files a  *)
(* node under its own id only, and never a node of another id.              *)
LEMMA OtherIds ==
  ASSUME TypeOK, NEW n \in Node, NEW j \in Ids, j # n.id
  PROVE  m_timer_map[j] # n
BY NoTimerIsNoNode DEF TypeOK

LEMMA StepInv == Inv /\ [Next]_vars => Inv'
<1> SUFFICES ASSUME Inv, [Next]_vars PROVE Inv'
  OBVIOUS
<1> USE NoTimerIsNoNode DEF Inv, TypeOK, LiveInHeap
<1>1. CASE Advance
  BY <1>1 DEF Advance
<1>2. ASSUME NEW id \in Ids, NEW t \in Timeouts, NEW r \in BOOLEAN, AddTimer(id, t, r)
      PROVE  Inv'
  <2>1. /\ NewNode(id, t, r) \in Node
        /\ NewNode(id, t, r).id = id
    BY <1>2, NewNodeType DEF AddTimer
  <2> DEFINE m == NewNode(id, t, r)
  <2>2. /\ m_timer_map' = [m_timer_map EXCEPT ![id] = m]
        /\ m_timer_heap' = m_timer_heap \cup {m}
        /\ now' = now /\ ticking' = ticking
    BY <1>2 DEF AddTimer
  <2> HIDE DEF m
  <2>3. m \in Node /\ m.id = id
    BY <2>1 DEF m
  <2>4. QED
    BY <2>2, <2>3
<1>3. CASE TickStart
  BY <1>3 DEF TickStart
<1>4. ASSUME NEW n \in Tops, TickFire(n)
      PROVE  Inv'
  <2>1. n \in Node /\ n.id \in Ids
    BY DEF Tops, Node
  <2>2. \A j \in Ids : j # n.id => m_timer_map[j] # n
    BY <2>1, OtherIds
  <2>3. QED
    BY <1>4, <2>1, <2>2 DEF TickFire
<1>5. ASSUME NEW n \in Tops, TickRenew(n)
      PROVE  Inv'
  <2>1. n \in Node /\ n.id \in Ids /\ n.interval \in Timeouts /\ n.expire \in Nat
    BY DEF Tops, Node
  <2>2. \A j \in Ids : j # n.id => m_timer_map[j] # n
    BY <2>1, OtherIds
  <2> DEFINE m == NewNode(n.id, n.interval, TRUE)
  <2>3. m \in Node /\ m.id = n.id /\ m.expire > now
    BY <1>5, <2>1, NewNodeType DEF TickRenew
  <2>4. /\ m_timer_map' = [m_timer_map EXCEPT ![n.id] = m]
        /\ m_timer_heap' = (m_timer_heap \cup {m}) \ {n}
        /\ n.expire <= now
        /\ now' = now /\ ticking' = ticking
    BY <1>5 DEF TickRenew
  <2> HIDE DEF m
  <2>5. m # n
    <3>1. m.expire \in Nat
      BY <2>3 DEF Node
    <3>2. QED
      BY <2>1, <2>3, <2>4, <3>1
  <2>6. QED
    BY <2>1, <2>2, <2>3, <2>4, <2>5
<1>6. ASSUME NEW n \in Tops, TickSkip(n)
      PROVE  Inv'
  <2>1. n \in Node /\ n.id \in Ids
    BY DEF Tops, Node
  <2>2. \A j \in Ids : m_timer_map[j] # n
    BY <1>6, <2>1, OtherIds DEF TickSkip
  <2>3. QED
    BY <1>6, <2>1, <2>2 DEF TickSkip
<1>7. CASE TickEnd
  BY <1>7 DEF TickEnd
<1>8. CASE UNCHANGED vars
  BY <1>8 DEF vars
<1>9. QED
  BY <1>1, <1>2, <1>3, <1>4, <1>5, <1>6, <1>7, <1>8 DEF Next, Tick, TickNode

LEMMA Invariance == Spec => []Inv
<1>1. Init => Inv
  <2> SUFFICES ASSUME Init PROVE Inv
    OBVIOUS
  <2>1. /\ m_timer_map = [id \in Ids |-> NoTimer]
        /\ \A id \in Ids : m_timer_map[id] = NoTimer
    BY DEF Init
  <2>2. ticking \in BOOLEAN
    BY DEF Init
  <2>3. now \in Nat /\ m_timer_heap \subseteq Node
    BY DEF Init
  <2>4. m_timer_map \in [Ids -> Node \cup {NoTimer}]
    BY <2>1
  <2>5. TypeOK
    BY <2>1, <2>2, <2>3, <2>4 DEF TypeOK
  <2>6. LiveInHeap
    BY <2>1 DEF LiveInHeap
  <2>7. QED
    BY <2>5, <2>6 DEF Inv
<1>2. QED
  BY <1>1, StepInv, PTL DEF Spec

(* A timer that counts is in the heap, always.                              *)
THEOREM LiveTimersStay == Spec => []LiveInHeap
<1>1. Inv => LiveInHeap
  BY DEF Inv
<1>2. QED
  BY <1>1, Invariance, PTL

-------------------------------------------------------------------------------
(* The top of the heap bounds every timer that counts.                      *)
LEMMA TopIsEarliest ==
  ASSUME Inv, NEW n \in Tops, NEW j \in Ids, m_timer_map[j] # NoTimer
  PROVE  n.expire <= m_timer_map[j].expire
BY DEF Inv, LiveInHeap, Tops

(* When the loop of tick ends, no timer that counts is due.                *)
LEMMA NothingDue ==
  ASSUME Inv, TickEnd, NEW j \in Ids, m_timer_map[j] # NoTimer
  PROVE  m_timer_map[j].expire > now
<1>1. m_timer_map[j] \in m_timer_heap /\ m_timer_map[j].expire \in Nat /\ now \in Nat
  BY DEF Inv, LiveInHeap, TypeOK, Node
<1>2. PICK n \in Tops : n.expire > now
  BY <1>1 DEF TickEnd
<1>3. n.expire \in Nat /\ n.expire <= m_timer_map[j].expire
  BY TopIsEarliest DEF Tops, Inv, TypeOK, Node
<1>4. QED
  BY <1>1, <1>2, <1>3

(* tick returns only when no timer that counts is due.                      *)
THEOREM TickLeavesNothingDue == Spec => NothingDueAfterTick
<1> DEFINE A == ticking /\ ~ticking' =>
                  \A id \in Ids : m_timer_map[id] # NoTimer => m_timer_map[id].expire > now
<1>1. Inv /\ [Next]_vars => [A]_vars
  <2> SUFFICES ASSUME Inv, [Next]_vars, ticking, ~ticking'
               PROVE  \A id \in Ids : m_timer_map[id] # NoTimer => m_timer_map[id].expire > now
    BY DEF A
  <2>1. TickEnd
    BY DEF Next, Tick, TickNode, Advance, AddTimer, TickStart, TickFire, TickRenew, TickSkip, vars
  <2>2. QED
    BY <2>1, NothingDue
<1>2. QED
  BY <1>1, Invariance, PTL DEF Spec, NothingDueAfterTick

-------------------------------------------------------------------------------
(* Each step of the heap is a step, or none, of the map of deadlines.       *)
DeadlineOf == [id \in Ids |-> Abs(m_timer_map[id])]

LEMMA AbsNode ==
  ASSUME NEW n \in Node
  PROVE  /\ Abs(n) # NoTimer
         /\ Abs(n).expire = n.expire
         /\ Abs(n).interval = n.interval
         /\ Abs(n).repeat = n.repeat
<1>1. n # NoTimer
  BY NoTimerIsNoNode
<1>2. Abs(n) \in [expire : Nat, interval : Timeouts, repeat : BOOLEAN]
  BY <1>1 DEF Abs, Node
<1>3. QED
  BY <1>1, <1>2, NoTimerIsNoNode DEF Abs

LEMMA AbsNewNode ==
  ASSUME now \in Nat, NEW id \in Ids, NEW t \in Timeouts, NEW r \in BOOLEAN,
         FreeAddrs # {}
  PROVE  Abs(NewNode(id, t, r)) = [expire |-> now + t, interval |-> t, repeat |-> r]
<1>1. NewNode(id, t, r) # NoTimer
  BY NewNodeType, NoTimerIsNoNode
<1>2. QED
  BY <1>1 DEF Abs, NewNode

(* Firing the node at the top is firing the earliest deadline.              *)
LEMMA TopFires ==
  ASSUME Inv, NEW n \in Tops, n.expire <= now, m_timer_map[n.id] = n
  PROVE  /\ n.id \in Ids
         /\ DeadlineOf[n.id] # NoTimer
         /\ DeadlineOf[n.id].expire = n.expire
         /\ DeadlineOf[n.id].interval = n.interval
         /\ DeadlineOf[n.id].repeat = n.repeat
         /\ \A j \in Ids : DeadlineOf[j] # NoTimer => n.expire <= DeadlineOf[j].expire
<1>1. n \in Node /\ n.id \in Ids
  BY DEF Tops, Inv, TypeOK, Node
<1>2. DeadlineOf[n.id] = Abs(n)
  BY <1>1 DEF DeadlineOf
<1>3. ASSUME NEW j \in Ids, DeadlineOf[j] # NoTimer
      PROVE  n.expire <= DeadlineOf[j].expire
  <2>1. m_timer_map[j] # NoTimer /\ m_timer_map[j] \in Node
    BY <1>3 DEF DeadlineOf, Abs, Inv, TypeOK
  <2>2. DeadlineOf[j].expire = m_timer_map[j].expire
    BY <2>1, AbsNode DEF DeadlineOf
  <2>3. QED
    BY <2>1, <2>2, TopIsEarliest
<1>4. QED
  BY <1>1, <1>2, <1>3, AbsNode

LEMMA StepSimulates == Inv /\ [Next]_vars => [DM!DNext]_(DM!dvars)
<1> SUFFICES ASSUME Inv, [Next]_vars PROVE DM!DNext \/ UNCHANGED DM!dvars
  OBVIOUS
<1>1. CASE Advance
  BY <1>1 DEF Advance, DM!DNext, DM!Pass
<1>2. ASSUME NEW id \in Ids, NEW t \in Timeouts, NEW r \in BOOLEAN, AddTimer(id, t, r)
      PROVE  DM!Set(id, t, r)
  <2>1. /\ m_timer_map' = [m_timer_map EXCEPT ![id] = NewNode(id, t, r)]
        /\ FreeAddrs # {} /\ now \in Nat
        /\ now' = now /\ last' = last
        /\ m_timer_map \in [Ids -> Node \cup {NoTimer}]
    BY <1>2 DEF AddTimer, Inv, TypeOK
  <2> DEFINE v == [expire |-> now + t, interval |-> t, repeat |-> r]
  <2>2. Abs(NewNode(id, t, r)) = v
    BY <2>1, AbsNewNode
  <2> HIDE DEF v
  <2>3. DeadlineOf' = [DeadlineOf EXCEPT ![id] = v]
    BY <2>1, <2>2 DEF DeadlineOf
  <2>4. QED
    BY <2>1, <2>3 DEF DM!Set, DM!Deadline, DeadlineOf, v
<1>3. ASSUME NEW n \in Tops, TickFire(n)
      PROVE  n.id \in Ids /\ DM!Fire(n.id)
  <2>1. /\ n.expire <= now /\ m_timer_map[n.id] = n /\ ~n.repeat
        /\ last' = [id |-> n.id, due |-> n.expire, at |-> now]
        /\ m_timer_map' = [m_timer_map EXCEPT ![n.id] = NoTimer]
        /\ now' = now
        /\ m_timer_map \in [Ids -> Node \cup {NoTimer}]
    BY <1>3 DEF TickFire, Inv, TypeOK
  <2>2. /\ n.id \in Ids
        /\ DeadlineOf[n.id] # NoTimer
        /\ DeadlineOf[n.id].expire = n.expire
        /\ DeadlineOf[n.id].repeat = n.repeat
        /\ \A j \in Ids : DeadlineOf[j] # NoTimer => n.expire <= DeadlineOf[j].expire
    BY <2>1, TopFires
  <2>3. DeadlineOf' = [DeadlineOf EXCEPT ![n.id] = NoTimer]
    BY <2>1, <2>2 DEF DeadlineOf, Abs
  <2>4. QED
    BY <2>1, <2>2, <2>3 DEF DM!Fire, DeadlineOf
<1>4. ASSUME NEW n \in Tops, TickRenew(n)
      PROVE  n.id \in Ids /\ DM!Fire(n.id)
  <2>1. /\ n.expire <= now /\ m_timer_map[n.id] = n /\ n.repeat
        /\ last' = [id |-> n.id, due |-> n.expire, at |-> now]
        /\ m_timer_map' = [m_timer_map EXCEPT ![n.id] = NewNode(n.id, n.interval, TRUE)]
        /\ FreeAddrs # {} /\ now \in Nat
        /\ now' = now
        /\ m_timer_map \in [Ids -> Node \cup {NoTimer}]
        /\ n.interval \in Timeouts
    BY <1>4 DEF TickRenew, Inv, TypeOK, Tops, Node
  <2>2. /\ n.id \in Ids
        /\ DeadlineOf[n.id] # NoTimer
        /\ DeadlineOf[n.id].expire = n.expire
        /\ DeadlineOf[n.id].interval = n.interval
        /\ DeadlineOf[n.id].repeat = n.repeat
        /\ \A j \in Ids : DeadlineOf[j] # NoTimer => n.expire <= DeadlineOf[j].expire
    BY <2>1, TopFires
  <2> DEFINE v == [expire |-> now + n.interval, interval |-> n.interval, repeat |-> TRUE]
  <2>3. Abs(NewNode(n.id, n.interval, TRUE)) = v
    BY <2>1, <2>2, AbsNewNode
  <2> HIDE DEF v
  <2>4. DeadlineOf' = [DeadlineOf EXCEPT ![n.id] = v]
    BY <2>1, <2>2, <2>3 DEF DeadlineOf
  <2>5. QED
    BY <2>1, <2>2, <2>4 DEF DM!Fire, DM!Deadline, DeadlineOf, v
<1>5. ASSUME \/ TickStart
             \/ TickEnd
             \/ \E n \in Tops : TickSkip(n)
             \/ UNCHANGED vars
      PROVE  UNCHANGED DM!dvars
  BY <1>5 DEF TickStart, TickEnd, TickSkip, vars, DM!dvars
<1>6. QED
  BY <1>1, <1>2, <1>3, <1>4, <1>5 DEF Next, Tick, TickNode, DM!DNext

(* The heap with lazy deletion implements the map of deadlines.             *)
THEOREM HeapImplementsMap == Spec => ImplementsDeadlineMap
<1>1. Init => DM!DInit
  <2> SUFFICES ASSUME Init PROVE DM!DInit
    OBVIOUS
  <2>1. \A id \in Ids : Abs(m_timer_map[id]) = NoTimer
    BY DEF Init, Abs
  <2>2. QED
    BY <2>1 DEF Init, DM!DInit
<1>2. QED
  BY <1>1, StepSimulates, Invariance, PTL DEF Spec, ImplementsDeadlineMap, DM!DSpec
===============================================================================
