-------------------------- MODULE SqlConnPoolProofs --------------------------
(***************************************************************************)
(* Proofs about SqlConnPool, for any number of workers, handles and        *)
(* requests: handles are conserved and closed at exit, a free handle has   *)
(* no sleeping waiter without a notification, no transaction is inherited  *)
(* with a handle, and replies agree with the table.                        *)
(***************************************************************************)
EXTENDS SqlConnPool, SequenceTheorems, FiniteSetTheorems, TLAPS

(* The sessions MySQL may have for a handle.                               *)
LEMMA SessionValues ==
  /\ NoTx \in Session /\ NoTx.up /\ ~NoTx.tx /\ NoTx.rows = {}
  /\ Dead \in Session /\ ~Dead.up /\ ~Dead.tx /\ Dead.rows = {}
  /\ \A R \in SUBSET Requests :
       InTx(R) \in Session /\ InTx(R).up /\ InTx(R).tx /\ InTx(R).rows = R
<1>1. NoTx \in Session /\ NoTx.up /\ ~NoTx.tx /\ NoTx.rows = {}
  BY DEF NoTx, Session
<1>2. Dead \in Session /\ ~Dead.up /\ ~Dead.tx /\ Dead.rows = {}
  BY DEF Dead, Session
<1>3. ASSUME NEW R \in SUBSET Requests
      PROVE  InTx(R) \in Session /\ InTx(R).up /\ InTx(R).tx /\ InTx(R).rows = R
  BY DEF InTx, Session
<1>4. QED
  BY <1>1, <1>2, <1>3

LEMMA SessionFields ==
  ASSUME NEW s \in Session
  PROVE  s.up \in BOOLEAN /\ s.tx \in BOOLEAN /\ s.rows \in SUBSET Requests
BY DEF Session

(* notify_one moves the notifier to its reply and at most one sleeper back  *)
(* to the test for a free handle.                                           *)
LEMMA NotifyOneEffect ==
  ASSUME pc \in [Workers -> WorkerPC], NEW w \in Workers, pc[w] = "release", NotifyOne(w)
  PROVE  /\ pc' \in [Workers -> WorkerPC]
         /\ pc'[w] = "reply"
         /\ \A v \in Workers : v # w =>
              pc'[v] = pc[v] \/ (pc[v] = "sleep" /\ pc'[v] = "get")
<1>1. CASE Sleepers = {}
  <2>1. pc' = [pc EXCEPT ![w] = "reply"]
    BY <1>1 DEF NotifyOne
  <2>2. pc' \in [Workers -> WorkerPC]
    BY <2>1 DEF WorkerPC
  <2>3. pc'[w] = "reply" /\ \A v \in Workers : v # w => pc'[v] = pc[v]
    BY <2>1
  <2>4. QED
    BY <2>2, <2>3
<1>2. CASE Sleepers # {}
  <2>1. PICK s \in Workers :
          pc[s] = "sleep" /\ pc' = [pc EXCEPT ![w] = "reply", ![s] = "get"]
    BY <1>2 DEF NotifyOne, Sleepers
  <2>2. s # w
    BY <2>1
  <2>3. pc' \in [Workers -> WorkerPC]
    BY <2>1 DEF WorkerPC
  <2>4. pc'[w] = "reply" /\ pc'[s] = "get" /\ pc[s] = "sleep"
    BY <2>1, <2>2
  <2>5. \A v \in Workers : v # w /\ v # s => pc'[v] = pc[v]
    BY <2>1
  <2>6. QED
    BY <2>3, <2>4, <2>5
<1>3. QED
  BY <1>1, <1>2

-----------------------------------------------------------------------------
(* Types *)

LEMMA TypeInit == Init => TypeOK
<1> SUFFICES ASSUME Init PROVE TypeOK
  OBVIOUS
<1>1. m_conn_queue \in Seq(Handles) /\ m_free_conn \in Int
  <2>1. Cardinality(Handles) \in Nat
    BY SetsFinite, FS_CardinalityType
  <2>2. m_conn_queue \in [1..Cardinality(Handles) -> Handles]
    BY DEF Init, SetToSeqs
  <2>3. m_conn_queue \in Seq(Handles)
    BY <2>1, <2>2, SeqDef
  <2>4. QED
    BY <2>3, LenProperties DEF Init
<1>3. session \in [Handles -> Session]
  BY SessionValues DEF Init
<1>4. QED
  BY <1>1, <1>3, NoneIsNothing DEF Init, TypeOK, WorkerPC, MainPC, Holding

LEMMA TypeStep == TypeOK /\ [Next]_vars => TypeOK'
<1> SUFFICES ASSUME TypeOK, [Next]_vars PROVE TypeOK'
  OBVIOUS
<1> USE NoneIsNothing DEF TypeOK, WorkerPC, MainPC, Holding, pool, work, mysql
<1>1. ASSUME NEW w \in Workers, NEW r \in Requests, Start(w, r)
      PROVE  TypeOK'
  BY <1>1 DEF Start
<1>2. ASSUME NEW w \in Workers, GetConn(w)
      PROVE  TypeOK'
  <2>1. Head(m_conn_queue) \in Handles /\ Tail(m_conn_queue) \in Seq(Handles)
    BY <1>2, HeadTailProperties DEF GetConn
  <2>2. QED
    BY <1>2, <2>1 DEF GetConn
<1>3. ASSUME NEW w \in Workers, GetWait(w) \/ Spurious(w)
      PROVE  TypeOK'
  BY <1>3 DEF GetWait, Spurious
<1>4. ASSUME Terminate, table' \subseteq Requests
      PROVE  TypeOK'
  BY SessionValues, <1>4 DEF Terminate
<1>5. ASSUME NEW w \in Workers, Begin(w)
      PROVE  TypeOK'
  <2>1. CASE ~session[conn[w]].up
    BY <1>4, <1>5, <2>1 DEF Begin
  <2>2. CASE session[conn[w]].up
    <3>1. conn[w] \in Handles
      BY <1>5 DEF Begin
    <3>2. session' \in [Handles -> Session] /\ table' \subseteq Requests
      BY SessionValues, SessionFields, <1>5, <2>2, <3>1 DEF Begin
    <3>3. QED
      BY <1>5, <2>2, <3>2 DEF Begin
  <2>3. QED
    BY <2>1, <2>2
<1>6. ASSUME NEW w \in Workers, Insert(w)
      PROVE  TypeOK'
  <2>1. conn[w] \in Handles /\ req[w] \in Requests
    BY <1>6 DEF Insert
  <2>2. session[conn[w]].rows \cup {req[w]} \in SUBSET Requests
    BY <2>1, SessionFields
  <2> DEFINE R == session[conn[w]].rows \cup {req[w]}
  <2>3. InTx(R) \in Session
    BY SessionValues, <2>2
  <2>4. session' \in [Handles -> Session] /\ table' \subseteq Requests
    <3>1. session' = [session EXCEPT ![conn[w]] = InTx(R)] \/ session' = session
      BY <1>6 DEF Insert
    <3>2. session' \in [Handles -> Session]
      BY <2>3, <3>1
    <3>3. table' \subseteq Requests
      BY <1>6, <2>1 DEF Insert
    <3>4. QED
      BY <3>2, <3>3
  <2>5. /\ UNCHANGED <<m_conn_queue, m_free_conn, closed, req, conn, todo, reply, main>>
        /\ pc[w] = "insert"
        /\ \/ pc' = [pc EXCEPT ![w] = "decide"] /\ result' = result
           \/ pc' = [pc EXCEPT ![w] = "release"] /\ result' = [result EXCEPT ![w] = "ok"]
    BY <1>6 DEF Insert
  <2>6. QED
    BY <2>4, <2>5
<1>7. ASSUME NEW w \in Workers, InsertFails(w)
      PROVE  TypeOK'
  BY <1>7 DEF InsertFails, Unwind
<1>8. ASSUME NEW w \in Workers, InsertAnswerLost(w)
      PROVE  TypeOK'
  BY SessionValues, <1>8 DEF InsertAnswerLost, Unwind
<1>9. ASSUME NEW w \in Workers, Decide(w)
      PROVE  TypeOK'
  BY <1>9 DEF Decide
<1>10. ASSUME NEW w \in Workers, Commit(w)
       PROVE  TypeOK'
  <2>1. conn[w] \in Handles
    BY <1>10 DEF Commit
  <2>2. session' \in [Handles -> Session] /\ table' \subseteq Requests
    BY <1>10, <2>1, SessionValues, SessionFields DEF Commit
  <2>3. QED
    BY <1>10, <2>2 DEF Commit
<1>11. ASSUME NEW w \in Workers, CommitFails(w) \/ CommitAnswerLost(w)
       PROVE  TypeOK'
  <2>1. conn[w] \in Handles
    BY <1>11 DEF CommitFails, CommitAnswerLost
  <2>2. table' \subseteq Requests
    BY <1>11, <2>1, SessionFields DEF CommitFails, CommitAnswerLost
  <2>3. QED
    BY <1>4, <1>11, <2>2 DEF CommitFails, CommitAnswerLost
<1>12. ASSUME NEW w \in Workers, Rollback(w)
       PROVE  TypeOK'
  BY SessionValues, <1>12 DEF Rollback
<1>13. ASSUME NEW w \in Workers, Release(w)
       PROVE  TypeOK'
  <2>1. m_conn_queue' \in Seq(Handles) /\ m_free_conn' \in Int
    BY <1>13, AppendProperties DEF Release
  <2>2. /\ pc[w] = "release" /\ conn' = [conn EXCEPT ![w] = None]
        /\ req' = req /\ req[w] # None
        /\ UNCHANGED <<result, closed, session, table, todo, reply, main>>
    BY <1>13 DEF Release
  <2>3. conn' \in [Workers -> Handles \cup {None}]
    BY <2>2
  <2>4. /\ pc' \in [Workers -> WorkerPC]
        /\ pc'[w] = "reply"
        /\ \A v \in Workers : v # w =>
              pc'[v] = pc[v] \/ (pc[v] = "sleep" /\ pc'[v] = "get")
    BY <1>13, <2>2, NotifyOneEffect DEF Release
  <2>5. \A v \in Workers : (conn'[v] # None) <=> (pc'[v] \in Holding)
    BY <2>2, <2>4
  <2>6. \A v \in Workers : (req'[v] # None) <=> (pc'[v] \notin {"idle", "exited"})
    BY <2>2, <2>4
  <2>7. QED
    BY <2>1, <2>2, <2>3, <2>4, <2>5, <2>6
<1>14. ASSUME NEW w \in Workers, Reply(w)
       PROVE  TypeOK'
  BY <1>14 DEF Reply
<1>15. ASSUME NEW w \in Workers, WorkerExit(w)
       PROVE  TypeOK'
  BY <1>15 DEF WorkerExit
<1>16. ASSUME NEW h \in Handles, ConnLost(h)
       PROVE  TypeOK'
  BY SessionValues, <1>16 DEF ConnLost
<1>17. ASSUME Drain PROVE closed' \subseteq Handles /\ m_conn_queue' \in Seq(Handles)
  BY <1>17, EmptySeq DEF Drain, ToSet
<1>18. CASE Main
  BY <1>17, <1>18 DEF Main, ShutdownPool, StopThreads, Exit, Drain
<1>19. CASE UNCHANGED vars
  BY <1>19 DEF vars
<1>20. QED
  BY <1>1, <1>2, <1>3, <1>5, <1>6, <1>7, <1>8, <1>9, <1>10, <1>11, <1>12, <1>13,
     <1>14, <1>15, <1>16, <1>18, <1>19 DEF Next, WorkerStep

(* Types; a worker has a handle exactly between getConn and releaseConn.    *)
THEOREM TypeCorrect == Spec => []TypeOK
BY TypeInit, TypeStep, PTL DEF Spec

-----------------------------------------------------------------------------
(* No lost wake-up *)

Getters == {w \in Workers : pc[w] = "get"}

LEMMA GettersFinite ==
  /\ IsFiniteSet(Getters) /\ Cardinality(Getters) \in Nat
  /\ IsFiniteSet(Getters') /\ Cardinality(Getters') \in Nat
<1>1. Getters \in SUBSET Workers /\ Getters' \in SUBSET Workers
  BY DEF Getters
<1>2. QED
  BY <1>1, SetsFinite, FS_Subset, FS_CardinalityType

(* A worker that joins those on their way to a handle, and one that leaves. *)
LEMMA GetterJoins ==
  ASSUME NEW w \in Workers, pc[w] # "get", Getters' = Getters \cup {w}
  PROVE  Cardinality(Getters') = Cardinality(Getters) + 1
<1>1. w \notin Getters
  BY DEF Getters
<1>2. QED
  BY <1>1, GettersFinite, FS_AddElement

LEMMA GetterLeaves ==
  ASSUME NEW w \in Workers, pc[w] = "get", Getters' = Getters \ {w}
  PROVE  Cardinality(Getters') = Cardinality(Getters) - 1
<1>1. w \in Getters
  BY DEF Getters
<1>2. QED
  BY <1>1, GettersFinite, FS_RemoveElement

LEMMA WaiterStep == TypeOK /\ NoLostWaiter /\ [Next]_vars => NoLostWaiter'
<1> SUFFICES ASSUME TypeOK, NoLostWaiter, [Next]_vars, Sleepers' # {}
             PROVE  Len(m_conn_queue') <= Cardinality(Getters')
  BY DEF NoLostWaiter, Getters
<1>1. /\ Len(m_conn_queue) \in Nat
      /\ Cardinality(Getters) \in Nat /\ Cardinality(Getters') \in Nat
      /\ Sleepers # {} => Len(m_conn_queue) <= Cardinality(Getters)
  BY GettersFinite, LenProperties DEF TypeOK, NoLostWaiter, Getters
<1>2. pc \in [Workers -> WorkerPC] /\ m_conn_queue \in Seq(Handles)
  BY DEF TypeOK
<1>3. ASSUME NEW w \in Workers, pc[w] # "get", pc' = [pc EXCEPT ![w] = "get"],
             m_conn_queue' = m_conn_queue, pc[w] = "sleep" \/ Sleepers' = Sleepers
      PROVE  Len(m_conn_queue') <= Cardinality(Getters')
  <2>1. Getters' = Getters \cup {w}
    BY <1>2, <1>3 DEF Getters
  <2>2. Sleepers # {}
    BY <1>3 DEF Sleepers
  <2>3. Cardinality(Getters') = Cardinality(Getters) + 1
    BY <1>3, <2>1, GetterJoins
  <2>4. QED
    BY <1>1, <1>3, <2>2, <2>3
<1>4. ASSUME NEW w \in Workers, NEW r \in Requests, Start(w, r)
      PROVE  Len(m_conn_queue') <= Cardinality(Getters')
  <2>1. /\ pc[w] = "idle" /\ pc' = [pc EXCEPT ![w] = "get"]
        /\ m_conn_queue' = m_conn_queue
    BY <1>4 DEF Start, pool
  <2>2. Sleepers' = Sleepers
    BY <1>2, <2>1 DEF Sleepers
  <2>3. QED
    BY <1>3, <2>1, <2>2
<1>5. ASSUME NEW w \in Workers, Spurious(w)
      PROVE  Len(m_conn_queue') <= Cardinality(Getters')
  BY <1>3, <1>5 DEF Spurious, pool
<1>6. ASSUME NEW w \in Workers, GetConn(w)
      PROVE  Len(m_conn_queue') <= Cardinality(Getters')
  <2>1. /\ pc[w] = "get" /\ m_conn_queue # <<>> /\ m_conn_queue' = Tail(m_conn_queue)
        /\ pc' = [pc EXCEPT ![w] = "begin"] \/ pc' = [pc EXCEPT ![w] = "insert"]
    BY <1>6 DEF GetConn
  <2>2. Getters' = Getters \ {w} /\ Sleepers' = Sleepers
    BY <1>2, <2>1 DEF Getters, Sleepers
  <2>3. Len(m_conn_queue') = Len(m_conn_queue) - 1
    BY <1>2, <2>1, HeadTailProperties
  <2>4. Cardinality(Getters') = Cardinality(Getters) - 1
    BY <2>1, <2>2, GetterLeaves
  <2>5. QED
    BY <1>1, <2>2, <2>3, <2>4
<1>7. ASSUME m_conn_queue' = <<>>
      PROVE  Len(m_conn_queue') <= Cardinality(Getters')
  BY <1>1, <1>7
<1>8. ASSUME NEW w \in Workers, GetWait(w)
      PROVE  Len(m_conn_queue') <= Cardinality(Getters')
  BY <1>7, <1>8 DEF GetWait, pool
<1>9. ASSUME NEW w \in Workers, Release(w)
      PROVE  Len(m_conn_queue') <= Cardinality(Getters')
  <2>1. pc[w] = "release" /\ conn[w] \in Handles /\ NotifyOne(w)
    BY <1>9 DEF Release, TypeOK, Holding
  <2>2. Len(m_conn_queue') = Len(m_conn_queue) + 1
    BY <1>2, <1>9, <2>1, AppendProperties DEF Release
  <2>3. Sleepers # {}
    <3>1. pc' \in [Workers -> WorkerPC] /\ pc'[w] = "reply"
      BY <1>2, <2>1, NotifyOneEffect
    <3>2. \A v \in Workers : v # w => pc'[v] = pc[v] \/ (pc[v] = "sleep" /\ pc'[v] = "get")
      BY <1>2, <2>1, NotifyOneEffect
    <3>3. PICK v \in Workers : pc'[v] = "sleep"
      BY DEF Sleepers
    <3>4. pc[v] = "sleep"
      BY <3>1, <3>2, <3>3
    <3>5. QED
      BY <3>4 DEF Sleepers
  <2>4. PICK s \in Workers :
          pc[s] = "sleep" /\ pc' = [pc EXCEPT ![w] = "reply", ![s] = "get"]
    BY <2>1, <2>3 DEF NotifyOne, Sleepers
  <2>5. Getters' = Getters \cup {s}
    <3>1. s # w /\ pc'[w] = "reply" /\ pc'[s] = "get"
      BY <1>2, <2>1, <2>4
    <3>2. \A v \in Workers : v # w /\ v # s => pc'[v] = pc[v]
      BY <1>2, <2>4
    <3>3. QED
      BY <2>1, <3>1, <3>2 DEF Getters
  <2>6. Cardinality(Getters') = Cardinality(Getters) + 1
    BY <2>4, <2>5, GetterJoins
  <2>7. QED
    BY <1>1, <2>2, <2>3, <2>6
<1>10. ASSUME m_conn_queue' = m_conn_queue,
              pc' = pc \/ \E w \in Workers, x \in WorkerPC \ {"get", "sleep"} :
                            /\ pc[w] \notin {"get", "sleep"}
                            /\ pc' = [pc EXCEPT ![w] = x]
       PROVE  Len(m_conn_queue') <= Cardinality(Getters')
  <2>1. Getters' = Getters
    BY <1>2, <1>10 DEF Getters
  <2>2. Sleepers' = Sleepers
    BY <1>2, <1>10 DEF Sleepers
  <2>3. QED
    BY <1>1, <1>10, <2>1, <2>2
<1>11. ASSUME NEW w \in Workers,
              \/ Insert(w) \/ InsertFails(w) \/ InsertAnswerLost(w) \/ Decide(w)
              \/ Commit(w) \/ Rollback(w) \/ Reply(w) \/ WorkerExit(w)
       PROVE  Len(m_conn_queue') <= Cardinality(Getters')
  <2>1. m_conn_queue' = m_conn_queue /\ pc[w] \notin {"get", "sleep"}
    BY <1>11 DEF Insert, InsertFails, InsertAnswerLost, Decide, Commit, Rollback, Reply,
                 WorkerExit, pool
  <2>2. \E x \in WorkerPC \ {"get", "sleep"} : pc' = [pc EXCEPT ![w] = x]
    BY <1>11 DEF Insert, InsertFails, InsertAnswerLost, Decide, Commit, Rollback, Reply,
                 WorkerExit, WorkerPC, Unwind
  <2>3. QED
    BY <1>10, <2>1, <2>2
<1>12. ASSUME NEW w \in Workers, Begin(w) \/ CommitFails(w) \/ CommitAnswerLost(w)
       PROVE  Len(m_conn_queue') <= Cardinality(Getters')
  <2>1. m_conn_queue' = m_conn_queue /\ pc[w] \notin {"get", "sleep"}
    BY <1>12 DEF Begin, CommitFails, CommitAnswerLost, Terminate, pool
  <2>2. pc' = pc \/ pc' = [pc EXCEPT ![w] = "insert"]
    BY <1>12 DEF Begin, CommitFails, CommitAnswerLost, Terminate, work
  <2>3. "insert" \in WorkerPC \ {"get", "sleep"}
    BY DEF WorkerPC
  <2>4. QED
    BY <1>10, <2>1, <2>2, <2>3
<1>13. ASSUME NEW h \in Handles, ConnLost(h)
       PROVE  Len(m_conn_queue') <= Cardinality(Getters')
  BY <1>10, <1>13 DEF ConnLost, pool, work
<1>14. CASE Main
  <2>1. pc' = pc /\ (m_conn_queue' = <<>> \/ m_conn_queue' = m_conn_queue)
    BY <1>14 DEF Main, ShutdownPool, StopThreads, Exit, Drain, work, pool
  <2>2. QED
    BY <1>7, <1>10, <2>1
<1>15. CASE UNCHANGED vars
  BY <1>10, <1>15 DEF vars
<1>16. QED
  BY <1>4, <1>5, <1>6, <1>8, <1>9, <1>11, <1>12, <1>13, <1>14, <1>15
     DEF Next, WorkerStep

(* Whenever a handle is free and a worker sleeps for want of one, as many   *)
(* workers are on their way as handles are free: notify_one in releaseConn  *)
(* loses no wake-up, spurious wake-ups and shutdown included.               *)
THEOREM NoWaiterLost == Spec => []NoLostWaiter
<1>1. Init => NoLostWaiter
  BY DEF Init, NoLostWaiter, Sleepers
<1>2. QED
  BY <1>1, WaiterStep, TypeCorrect, PTL DEF Spec

-----------------------------------------------------------------------------
(* Every handle is in one place *)

Distinct(q) == \A i, j \in DOMAIN q : q[i] = q[j] => i = j

(* What m_conn_queue.front with pop does to a queue without repetitions ... *)
LEMMA PopFront ==
  ASSUME NEW q \in Seq(Handles), q # <<>>, Distinct(q)
  PROVE  /\ Head(q) \in Handles /\ Head(q) \in ToSet(q)
         /\ Distinct(Tail(q))
         /\ ToSet(Tail(q)) = ToSet(q) \ {Head(q)}
         /\ Len(Tail(q)) = Len(q) - 1
<1>1. /\ Len(q) \in Nat \ {0} /\ DOMAIN q = 1..Len(q)
      /\ Head(q) = q[1] /\ Head(q) \in Handles
      /\ Tail(q) \in Seq(Handles) /\ Len(Tail(q)) = Len(q) - 1
      /\ \A i \in 1..Len(Tail(q)) : Tail(q)[i] = q[i + 1]
  BY EmptySeq, LenProperties, HeadTailProperties
<1>2. DOMAIN Tail(q) = 1..(Len(q) - 1)
  BY <1>1, LenProperties
<1>3. Distinct(Tail(q))
  BY <1>1, <1>2 DEF Distinct
<1>4. ASSUME NEW h \in ToSet(Tail(q))
      PROVE  h \in ToSet(q) \ {Head(q)}
  <2>1. PICK i \in 1..(Len(q) - 1) : h = q[i + 1]
    BY <1>1, <1>2 DEF ToSet
  <2>2. i + 1 \in DOMAIN q /\ 1 \in DOMAIN q /\ i + 1 # 1
    BY <1>1
  <2>3. QED
    BY <1>1, <2>1, <2>2 DEF ToSet, Distinct
<1>5. ASSUME NEW h \in ToSet(q) \ {Head(q)}
      PROVE  h \in ToSet(Tail(q))
  <2>1. PICK i \in 1..Len(q) : h = q[i]
    BY <1>1 DEF ToSet
  <2>2. i # 1 /\ i - 1 \in 1..(Len(q) - 1)
    BY <1>1, <1>5, <2>1
  <2>3. h = Tail(q)[i - 1]
    BY <1>1, <2>1, <2>2
  <2>4. QED
    BY <1>2, <2>2, <2>3 DEF ToSet
<1>6. Head(q) \in ToSet(q)
  BY <1>1 DEF ToSet
<1>7. QED
  BY <1>1, <1>3, <1>4, <1>5, <1>6

(* ... and push of a handle that is not in it.                              *)
LEMMA PushBack ==
  ASSUME NEW q \in Seq(Handles), NEW h \in Handles, Distinct(q), h \notin ToSet(q)
  PROVE  /\ Distinct(Append(q, h))
         /\ ToSet(Append(q, h)) = ToSet(q) \cup {h}
         /\ Len(Append(q, h)) = Len(q) + 1
<1> DEFINE a == Append(q, h)
<1>1. /\ Len(q) \in Nat /\ DOMAIN q = 1..Len(q)
      /\ a \in Seq(Handles) /\ Len(a) = Len(q) + 1
      /\ \A i \in 1..Len(q) : a[i] = q[i]
      /\ a[Len(q) + 1] = h
  BY LenProperties, AppendProperties
<1>2. DOMAIN a = 1..(Len(q) + 1)
  BY <1>1, LenProperties
<1> HIDE DEF a
<1>3. \A i \in 1..Len(q) : q[i] # h
  BY <1>1 DEF ToSet
<1>4. Distinct(a)
  <2> SUFFICES ASSUME NEW i \in DOMAIN a, NEW j \in DOMAIN a, a[i] = a[j]
               PROVE  i = j
    BY DEF Distinct
  <2>1. CASE i \in 1..Len(q) /\ j \in 1..Len(q)
    BY <1>1, <2>1 DEF Distinct
  <2>2. CASE i = Len(q) + 1 \/ j = Len(q) + 1
    BY <1>1, <1>2, <1>3, <2>2
  <2>3. QED
    BY <1>1, <1>2, <2>1, <2>2
<1>5. ASSUME NEW x \in ToSet(a)
      PROVE  x \in ToSet(q) \cup {h}
  <2>1. PICK i \in 1..(Len(q) + 1) : x = a[i]
    BY <1>2 DEF ToSet
  <2>2. CASE i \in 1..Len(q)
    BY <1>1, <2>1, <2>2 DEF ToSet
  <2>3. CASE i = Len(q) + 1
    BY <1>1, <2>1, <2>3
  <2>4. QED
    BY <1>1, <2>2, <2>3
<1>6. ASSUME NEW x \in ToSet(q) \cup {h}
      PROVE  x \in ToSet(a)
  <2>1. CASE x = h
    BY <1>1, <1>2, <2>1 DEF ToSet
  <2>2. CASE x \in ToSet(q)
    <3>1. PICK i \in 1..Len(q) : x = q[i]
      BY <1>1, <2>2 DEF ToSet
    <3>2. x = a[i] /\ i \in DOMAIN a
      BY <1>1, <1>2, <3>1
    <3>3. QED
      BY <3>2 DEF ToSet
  <2>3. QED
    BY <2>1, <2>2
<1>7. ToSet(a) = ToSet(q) \cup {h}
  BY <1>5, <1>6
<1>8. QED
  BY <1>1, <1>4, <1>7 DEF a

(* init fills the queue with all the handles.                               *)
LEMMA InitialQueue ==
  ASSUME NEW q \in SetToSeqs(Handles)
  PROVE  q \in Seq(Handles) /\ Distinct(q) /\ ToSet(q) = Handles
<1> DEFINE n == Cardinality(Handles)
<1>1. n \in Nat /\ Cardinality(1..n) = n /\ IsFiniteSet(1..n)
  BY SetsFinite, FS_CardinalityType, FS_Interval
<1>2. q \in [1..n -> Handles] /\ \A i, j \in 1..n : i # j => q[i] # q[j]
  BY DEF SetToSeqs
<1>3. q \in Injection(1..n, Handles)
  BY <1>2 DEF Injection, IsInjective
<1>4. q \in Surjection(1..n, Handles)
  BY <1>1, <1>3, SetsFinite, FS_Injection
<1>5. \A h \in Handles : \E i \in 1..n : q[i] = h
  BY <1>4 DEF Surjection
<1>6. DOMAIN q = 1..n
  BY <1>2
<1>7. ToSet(q) = Handles
  BY <1>2, <1>5, <1>6 DEF ToSet
<1>8. q \in Seq(Handles)
  BY <1>1, <1>2, SeqDef
<1>9. QED
  BY <1>2, <1>6, <1>7, <1>8 DEF Distinct

(* OnePlace in the words of the lemmas above.                               *)
LEMMA Places ==
  OnePlace <=>
    /\ m_free_conn = Len(m_conn_queue) /\ Distinct(m_conn_queue)
    /\ \A v, w \in Workers : conn[v] = conn[w] => v = w \/ conn[v] = None
    /\ \A h \in Handles :
         /\ h \in ToSet(m_conn_queue) \/ (\E w \in Workers : conn[w] = h) \/ h \in closed
         /\ h \in ToSet(m_conn_queue) => h \notin closed /\ \A w \in Workers : conn[w] # h
         /\ h \in closed => \A w \in Workers : conn[w] # h
BY DEF OnePlace, Distinct

LEMMA PlacesStep == TypeOK /\ OnePlace /\ [Next]_vars => OnePlace'
<1> SUFFICES ASSUME TypeOK, OnePlace, [Next]_vars PROVE OnePlace'
  OBVIOUS
<1> DEFINE q == m_conn_queue
<1>1. /\ q \in Seq(Handles) /\ m_free_conn = Len(q) /\ Distinct(q)
      /\ conn \in [Workers -> Handles \cup {None}] /\ Len(q) \in Nat
      /\ None \notin Handles
  BY Places, LenProperties, NoneIsNothing DEF TypeOK
<1>2. \A v, w \in Workers : conn[v] = conn[w] => v = w \/ conn[v] = None
  BY Places
<1>3. \A h \in Handles :
        /\ h \in ToSet(q) \/ (\E w \in Workers : conn[w] = h) \/ h \in closed
        /\ h \in ToSet(q) => h \notin closed /\ \A w \in Workers : conn[w] # h
        /\ h \in closed => \A w \in Workers : conn[w] # h
  BY Places
<1>4. ASSUME m_free_conn' = Len(m_conn_queue'), Distinct(m_conn_queue'),
             \A v, w \in Workers : conn'[v] = conn'[w] => v = w \/ conn'[v] = None,
             \A h \in Handles :
               /\ h \in ToSet(m_conn_queue') \/ (\E w \in Workers : conn'[w] = h) \/ h \in closed'
               /\ h \in ToSet(m_conn_queue') => h \notin closed' /\ \A w \in Workers : conn'[w] # h
               /\ h \in closed' => \A w \in Workers : conn'[w] # h
      PROVE  OnePlace'
  BY <1>4 DEF OnePlace, Distinct
<1> HIDE DEF q
<1>5. ASSUME NEW w \in Workers, GetConn(w)
      PROVE  OnePlace'
  <2>1. /\ q # <<>> /\ conn[w] = None
        /\ conn' = [conn EXCEPT ![w] = Head(q)]
        /\ m_conn_queue' = Tail(q) /\ m_free_conn' = m_free_conn - 1
        /\ closed' = closed
    BY <1>5 DEF GetConn, TypeOK, Holding, q
  <2>2. /\ Head(q) \in Handles /\ Head(q) \in ToSet(q) /\ Distinct(Tail(q))
        /\ ToSet(Tail(q)) = ToSet(q) \ {Head(q)} /\ Len(Tail(q)) = Len(q) - 1
    BY <1>1, <2>1, PopFront
  <2>3. m_free_conn' = Len(m_conn_queue') /\ Distinct(m_conn_queue')
    BY <1>1, <2>1, <2>2
  <2>4. \A v \in Workers : conn'[v] = IF v = w THEN Head(q) ELSE conn[v]
    BY <1>1, <2>1
  <2>5. \A v \in Workers : conn[v] # Head(q)
    BY <1>3, <2>2
  <2>6. \A u, v \in Workers : conn'[u] = conn'[v] => u = v \/ conn'[u] = None
    BY <1>2, <2>4, <2>5
  <2>7. ASSUME NEW h \in Handles
        PROVE  /\ h \in ToSet(m_conn_queue') \/ (\E v \in Workers : conn'[v] = h) \/ h \in closed'
               /\ h \in ToSet(m_conn_queue') => h \notin closed' /\ \A v \in Workers : conn'[v] # h
               /\ h \in closed' => \A v \in Workers : conn'[v] # h
    <3>1. CASE h = Head(q)
      BY <1>3, <2>1, <2>2, <2>4, <3>1
    <3>2. CASE h # Head(q)
      <4>1. h \in ToSet(m_conn_queue') <=> h \in ToSet(q)
        BY <2>1, <2>2, <3>2
      <4>2. \A v \in Workers : conn'[v] = h <=> conn[v] = h
        BY <1>1, <2>1, <2>4, <3>2
      <4>3. QED
        BY <1>3, <2>1, <4>1, <4>2
    <3>3. QED
      BY <3>1, <3>2
  <2>8. QED
    BY <1>4, <2>3, <2>6, <2>7
<1>6. ASSUME NEW w \in Workers, Release(w)
      PROVE  OnePlace'
  <2> DEFINE k == conn[w]
  <2>1. /\ k \in Handles
        /\ conn' = [conn EXCEPT ![w] = None]
        /\ m_conn_queue' = Append(q, k) /\ m_free_conn' = m_free_conn + 1
        /\ closed' = closed
    BY <1>6 DEF Release, TypeOK, Holding, q
  <2>2. k \notin ToSet(q) /\ k \notin closed
    BY <1>3, <2>1
  <2>3. \A v \in Workers : conn'[v] = IF v = w THEN None ELSE conn[v]
    BY <1>1, <2>1
  <2>4. \A v \in Workers : v # w => conn[v] # k
    BY <1>1, <1>2, <2>1
  <2> HIDE DEF k
  <2>5. /\ Distinct(Append(q, k)) /\ ToSet(Append(q, k)) = ToSet(q) \cup {k}
        /\ Len(Append(q, k)) = Len(q) + 1
    BY <1>1, <2>1, <2>2, PushBack
  <2>6. m_free_conn' = Len(m_conn_queue') /\ Distinct(m_conn_queue')
    BY <1>1, <2>1, <2>5
  <2>7. \A u, v \in Workers : conn'[u] = conn'[v] => u = v \/ conn'[u] = None
    BY <1>2, <2>3
  <2>8. ASSUME NEW h \in Handles
        PROVE  /\ h \in ToSet(m_conn_queue') \/ (\E v \in Workers : conn'[v] = h) \/ h \in closed'
               /\ h \in ToSet(m_conn_queue') => h \notin closed' /\ \A v \in Workers : conn'[v] # h
               /\ h \in closed' => \A v \in Workers : conn'[v] # h
    <3>1. CASE h = k
      BY <1>1, <2>1, <2>2, <2>3, <2>4, <2>5, <3>1
    <3>2. CASE h # k
      <4>1. h \in ToSet(m_conn_queue') <=> h \in ToSet(q)
        BY <2>1, <2>5, <3>2
      <4>2. \A v \in Workers : conn'[v] = h <=> conn[v] = h
        BY <1>1, <2>3, <3>2 DEF k
      <4>3. QED
        BY <1>3, <2>1, <4>1, <4>2
    <3>3. QED
      BY <3>1, <3>2
  <2>9. QED
    BY <1>4, <2>6, <2>7, <2>8
<1>7. ASSUME Drain, conn' = conn
      PROVE  OnePlace'
  <2>1. /\ m_conn_queue' = <<>> /\ m_free_conn' = 0 /\ closed' = closed \cup ToSet(q)
        /\ Len(<<>>) = 0 /\ Distinct(<<>>) /\ ToSet(<<>>) = {}
    BY <1>7, EmptySeq DEF Drain, Distinct, ToSet, q
  <2>2. QED
    BY <1>2, <1>3, <1>4, <1>7, <2>1
<1>8. ASSUME UNCHANGED <<m_conn_queue, m_free_conn, closed, conn>>
      PROVE  OnePlace'
  BY <1>8 DEF OnePlace
<1>9. ASSUME NEW w \in Workers, NEW r \in Requests, Start(w, r)
      PROVE  OnePlace'
  BY <1>8, <1>9 DEF Start, pool
<1>10. ASSUME NEW w \in Workers,
              \/ GetWait(w) \/ Insert(w) \/ InsertFails(w) \/ InsertAnswerLost(w)
              \/ Decide(w) \/ Commit(w) \/ Rollback(w) \/ Reply(w) \/ WorkerExit(w)
              \/ Spurious(w)
       PROVE  OnePlace'
  BY <1>8, <1>10
     DEF GetWait, Insert, InsertFails, InsertAnswerLost, Decide, Commit, Rollback, Reply,
         WorkerExit, Spurious, pool
<1>11. ASSUME NEW w \in Workers, Begin(w) \/ CommitFails(w) \/ CommitAnswerLost(w)
       PROVE  OnePlace'
  BY <1>8, <1>11 DEF Begin, CommitFails, CommitAnswerLost, Terminate, pool, work
<1>12. ASSUME NEW h \in Handles, ConnLost(h)
       PROVE  OnePlace'
  BY <1>8, <1>12 DEF ConnLost, pool, work
<1>13. CASE Main
  BY <1>7, <1>8, <1>13 DEF Main, ShutdownPool, StopThreads, Exit, pool, work
<1>14. CASE UNCHANGED vars
  BY <1>8, <1>14 DEF vars
<1>15. QED
  BY <1>5, <1>6, <1>9, <1>10, <1>11, <1>12, <1>13, <1>14 DEF Next, WorkerStep

LEMMA PlacesKept == Spec => []OnePlace
<1>1. Init => OnePlace
  <2> SUFFICES ASSUME Init PROVE OnePlace
    OBVIOUS
  <2>1. /\ m_free_conn = Len(m_conn_queue) /\ closed = {}
        /\ m_conn_queue \in SetToSeqs(Handles)
        /\ \A w \in Workers : conn[w] = None
    BY DEF Init
  <2>2. Distinct(m_conn_queue) /\ ToSet(m_conn_queue) = Handles
    BY <2>1, InitialQueue
  <2>3. QED
    BY <2>1, <2>2, NoneIsNothing, Places
<1>2. QED
  BY <1>1, PlacesStep, TypeCorrect, PTL DEF Spec

AllClosed == main = "exited" => closed = Handles

(* When the workers are joined nobody holds a handle, so the last drain     *)
(* finds all that are open.                                                 *)
LEMMA ClosedAtExit == TypeOK /\ OnePlace /\ AllClosed /\ [Next]_vars => AllClosed'
<1> SUFFICES ASSUME TypeOK, OnePlace, AllClosed, [Next]_vars PROVE AllClosed'
  OBVIOUS
<1>1. CASE Exit
  <2>1. \A w \in Workers : conn[w] = None
    BY <1>1 DEF Exit, TypeOK, Holding
  <2>2. \A h \in Handles : h \in ToSet(m_conn_queue) \/ h \in closed
    BY <2>1, Places, NoneIsNothing
  <2>3. closed' = closed \cup ToSet(m_conn_queue)
    BY <1>1 DEF Exit, Drain
  <2>4. closed' \subseteq Handles
    BY <2>3 DEF TypeOK, ToSet
  <2>5. QED
    BY <2>2, <2>3, <2>4 DEF AllClosed
<1>2. CASE main' # "exited"
  BY <1>2 DEF AllClosed
<1>3. CASE UNCHANGED <<main, closed>>
  BY <1>3 DEF AllClosed
<1>4. ASSUME NEW w \in Workers, WorkerStep(w) \/ Spurious(w)
      PROVE  UNCHANGED <<main, closed>> \/ main' # "exited"
  BY <1>4 DEF WorkerStep, GetConn, GetWait, Begin, Insert, InsertFails,
              InsertAnswerLost, Decide, Commit, CommitFails, CommitAnswerLost, Rollback,
              Release, Reply, WorkerExit, Spurious, Terminate, pool
<1>5. QED
  BY <1>1, <1>2, <1>3, <1>4 DEF Next, Start, ConnLost, Main, ShutdownPool, StopThreads,
                                vars, pool

(* Every handle is free, borrowed by one worker, or closed, and never two   *)
(* of these, whatever borrows, releases and shutdowns interleave; a process *)
(* that ends in order has closed them all.                                  *)
THEOREM HandlesConserved == Spec => []HandlesAccounted
<1>1. Init => AllClosed
  BY DEF Init, AllClosed
<1>2. OnePlace /\ AllClosed => HandlesAccounted
  BY DEF AllClosed, HandlesAccounted
<1>3. QED
  BY <1>1, <1>2, ClosedAtExit, PlacesKept, TypeCorrect, PTL DEF Spec

-----------------------------------------------------------------------------
(* Transactions *)

(* What MySQL may have in the session s of the handle that a worker at p    *)
(* holds for request r.                                                     *)
Fits(p, r, s) ==
  /\ s.tx => /\ s.up /\ r \in TxRequests /\ s.rows \subseteq {r}
             /\ p \in {"insert", "decide", "commit", "rollback"}
  /\ ~s.tx => s.rows = {}
  /\ p \in {"begin", "decide", "commit", "rollback"} => r \in TxRequests
  /\ p \in {"insert", "decide", "commit"} /\ r \in TxRequests /\ s.up => s.tx
  /\ p \in {"decide", "commit"} /\ s.up => s.rows = {r}

Clean(s) == ~s.tx /\ s.rows = {}

(* Borrowed handles have the session their borrower expects, and handles    *)
(* that nobody holds have no transaction: inductive, unlike                 *)
(* TxBelongsToHolder, which says nothing of what an insert without a        *)
(* transaction finds.                                                       *)
SessionsFit ==
  /\ \A w \in Workers : pc[w] \in Holding => Fits(pc[w], req[w], session[conn[w]])
  /\ \A h \in Handles : (\A w \in Workers : conn[w] # h) => Clean(session[h])

(* A worker has its handle for itself.                                      *)
LEMMA SoleHolder ==
  ASSUME TypeOK, OnePlace, NEW w \in Workers, pc[w] \in Holding
  PROVE  /\ conn[w] \in Handles
         /\ \A v \in Workers : v # w => conn[v] # conn[w]
<1>1. conn[w] # None /\ conn[w] \in Handles
  BY DEF TypeOK
<1>2. QED
  BY <1>1, Places

(* A step of a worker that keeps its handle and changes no other session.   *)
LEMMA HolderSteps ==
  ASSUME TypeOK, OnePlace, SessionsFit,
         NEW w \in Workers, NEW x \in Holding, NEW s,
         pc[w] \in Holding, pc' = [pc EXCEPT ![w] = x],
         req' = req, conn' = conn,
         session' = [session EXCEPT ![conn[w]] = s], Fits(x, req[w], s)
  PROVE  SessionsFit'
<1>1. /\ conn[w] \in Handles
      /\ \A v \in Workers : v # w => conn[v] # conn[w]
  BY SoleHolder
<1>2. \A h \in Handles : h # conn[w] => session'[h] = session[h]
  BY <1>1 DEF TypeOK
<1>3. session'[conn[w]] = s
  BY <1>1 DEF TypeOK
<1>4. pc'[w] = x /\ \A v \in Workers : v # w => pc'[v] = pc[v]
  BY DEF TypeOK
<1>5. ASSUME NEW v \in Workers, pc'[v] \in Holding
      PROVE  Fits(pc'[v], req'[v], session'[conn'[v]])
  <2>1. CASE v = w
    BY <1>3, <1>4, <2>1
  <2>2. CASE v # w
    <3>1. pc[v] \in Holding /\ pc'[v] = pc[v]
      BY <1>4, <1>5, <2>2
    <3>2. conn[v] \in Handles /\ conn[v] # conn[w]
      BY <1>1, <2>2, <3>1, SoleHolder
    <3>3. Fits(pc[v], req[v], session[conn[v]])
      BY <3>1 DEF SessionsFit
    <3>4. QED
      BY <1>2, <3>1, <3>2, <3>3
  <2>3. QED
    BY <2>1, <2>2
<1>6. ASSUME NEW h \in Handles, \A v \in Workers : conn'[v] # h
      PROVE  Clean(session'[h])
  <2>1. h # conn[w] /\ \A v \in Workers : conn[v] # h
    BY <1>6
  <2>2. Clean(session[h])
    BY <2>1 DEF SessionsFit
  <2>3. QED
    BY <1>2, <2>1, <2>2
<1>7. QED
  BY <1>5, <1>6 DEF SessionsFit

(* A step that leaves handles and sessions alone, and the request of every  *)
(* worker that holds a handle.                                              *)
LEMMA OthersStep ==
  ASSUME SessionsFit, conn' = conn, session' = session,
         \A v \in Workers : pc'[v] \in Holding => pc'[v] = pc[v] /\ req'[v] = req[v]
  PROVE  SessionsFit'
<1>1. ASSUME NEW v \in Workers, pc'[v] \in Holding
      PROVE  Fits(pc'[v], req'[v], session'[conn'[v]])
  <2>1. Fits(pc[v], req[v], session[conn[v]])
    BY <1>1 DEF SessionsFit
  <2>2. QED
    BY <1>1, <2>1
<1>2. \A h \in Handles : (\A w \in Workers : conn'[w] # h) => Clean(session'[h])
  BY DEF SessionsFit
<1>3. QED
  BY <1>1, <1>2 DEF SessionsFit

(* Sessions that die, one or all, fit every worker that had them before.    *)
LEMMA DeadFits ==
  /\ Clean(Dead)
  /\ \A p \in Holding : \A r, s : Fits(p, r, s) => Fits(p, r, Dead)
BY SessionValues DEF Clean, Fits

LEMMA SessionsStep ==
  TypeOK /\ OnePlace /\ SessionsFit /\ [Next]_vars => SessionsFit'
<1> SUFFICES ASSUME TypeOK, OnePlace, SessionsFit, [Next]_vars
             PROVE  SessionsFit'
  OBVIOUS
<1>1. ASSUME NEW w \in Workers, pc[w] \in Holding
      PROVE  /\ conn[w] \in Handles /\ session[conn[w]] \in Session
             /\ session[conn[w]].up \in BOOLEAN /\ session[conn[w]].tx \in BOOLEAN
             /\ session[conn[w]].rows \in SUBSET Requests
             /\ req[w] \in Requests
             /\ Fits(pc[w], req[w], session[conn[w]])
  <2>1. conn[w] \in Handles
    BY <1>1, SoleHolder
  <2>2. session[conn[w]] \in Session
    BY <2>1 DEF TypeOK
  <2>3. req[w] \in Requests
    BY <1>1 DEF TypeOK, Holding
  <2>4. Fits(pc[w], req[w], session[conn[w]])
    BY <1>1 DEF SessionsFit
  <2>5. QED
    BY <2>1, <2>2, <2>3, <2>4, SessionFields
\* The process ends: every session dies.
<1>2. ASSUME Terminate
      PROVE  SessionsFit'
  <2>1. /\ pc' = pc /\ req' = req /\ conn' = conn
        /\ \A h \in Handles : session'[h] = Dead
    BY <1>2 DEF Terminate, work
  <2>2. ASSUME NEW w \in Workers, pc'[w] \in Holding
        PROVE  Fits(pc'[w], req'[w], session'[conn'[w]])
    <3>1. conn[w] \in Handles /\ Fits(pc[w], req[w], session[conn[w]])
      BY <1>1, <2>1, <2>2
    <3>2. Fits(pc[w], req[w], Dead)
      BY <2>1, <2>2, <3>1, DeadFits
    <3>3. QED
      BY <2>1, <3>1, <3>2
  <2>3. QED
    BY <2>1, <2>2, DeadFits DEF SessionsFit
<1>3. ASSUME NEW k \in Handles, ConnLost(k)
      PROVE  SessionsFit'
  <2>1. pc' = pc /\ req' = req /\ conn' = conn
    BY <1>3 DEF ConnLost, work
  <2>2. \A h \in Handles : session'[h] = session[h] \/ session'[h] = Dead
    BY <1>3 DEF ConnLost, TypeOK
  <2>3. ASSUME NEW w \in Workers, pc'[w] \in Holding
        PROVE  Fits(pc'[w], req'[w], session'[conn'[w]])
    <3>1. conn[w] \in Handles /\ Fits(pc[w], req[w], session[conn[w]])
      BY <1>1, <2>1, <2>3
    <3>2. Fits(pc[w], req[w], Dead)
      BY <2>1, <2>3, <3>1, DeadFits
    <3>3. QED
      BY <2>1, <2>2, <3>1, <3>2
  <2>4. QED
    BY <2>1, <2>2, <2>3, DeadFits DEF SessionsFit
\* The worker works with its handle.
<1>4. ASSUME NEW w \in Workers, Begin(w)
      PROVE  SessionsFit'
  <2>1. pc[w] = "begin" /\ pc[w] \in Holding
    BY <1>4 DEF Begin, Holding
  <2>2. CASE ~session[conn[w]].up
    BY <1>2, <1>4, <2>2 DEF Begin
  <2>3. CASE session[conn[w]].up
    <3>1. /\ pc' = [pc EXCEPT ![w] = "insert"] /\ req' = req /\ conn' = conn
          /\ session' = [session EXCEPT ![conn[w]] = InTx({})]
      BY <1>4, <2>3 DEF Begin
    <3>2. req[w] \in TxRequests
      BY <1>1, <2>1 DEF Fits
    <3>3. "insert" \in Holding /\ Fits("insert", req[w], InTx({}))
      BY <3>2, SessionValues DEF Fits, Holding
    <3>4. QED
      BY <2>1, <3>1, <3>3, HolderSteps
  <2>4. QED
    BY <2>2, <2>3
<1>5. ASSUME NEW w \in Workers, NEW x \in Holding, pc[w] \in Holding,
             pc' = [pc EXCEPT ![w] = x], req' = req, conn' = conn, session' = session,
             Fits(x, req[w], session[conn[w]])
      PROVE  SessionsFit'
  <2>1. session' = [session EXCEPT ![conn[w]] = session[conn[w]]]
    BY <1>1, <1>5 DEF TypeOK
  <2>2. QED
    BY <1>5, <2>1, HolderSteps
<1>6. ASSUME NEW w \in Workers, Insert(w)
      PROVE  SessionsFit'
  <2>1. /\ pc[w] = "insert" /\ pc[w] \in Holding
        /\ req' = req /\ conn' = conn /\ session[conn[w]].up
    BY <1>6 DEF Insert, Holding
  <2>2. CASE session[conn[w]].tx
    <3>1. /\ req[w] \in TxRequests
          /\ session[conn[w]].rows \cup {req[w]} = {req[w]}
      BY <1>1, <2>1, <2>2 DEF Fits
    <3>2. /\ session' = [session EXCEPT ![conn[w]] = InTx({req[w]})]
          /\ pc' = [pc EXCEPT ![w] = "decide"]
      BY <1>6, <2>2, <3>1, OneDao DEF Insert
    <3>3. "decide" \in Holding /\ Fits("decide", req[w], InTx({req[w]}))
      BY <1>1, <2>1, <3>1, SessionValues DEF Fits, Holding
    <3>4. QED
      BY <2>1, <3>2, <3>3, HolderSteps
  <2>3. CASE ~session[conn[w]].tx
    <3>1. req[w] \notin TxRequests /\ session[conn[w]].rows = {}
      BY <1>1, <2>1, <2>3 DEF Fits
    <3>2. session' = session /\ pc' = [pc EXCEPT ![w] = "release"]
      BY <1>6, <2>3, <3>1 DEF Insert
    <3>3. Fits("release", req[w], session[conn[w]])
      BY <2>3, <3>1 DEF Fits
    <3>4. QED
      BY <1>5, <2>1, <3>2, <3>3 DEF Holding
  <2>4. QED
    BY <2>2, <2>3
<1>7. ASSUME NEW w \in Workers, InsertFails(w)
      PROVE  SessionsFit'
  <2>1. /\ pc[w] = "insert" /\ pc[w] \in Holding
        /\ req' = req /\ conn' = conn /\ session' = session
        /\ pc' = [pc EXCEPT ![w] = Unwind(w)]
    BY <1>7 DEF InsertFails, Holding, mysql
  <2>2. Unwind(w) \in Holding /\ Fits(Unwind(w), req[w], session[conn[w]])
    BY <1>1, <2>1 DEF Fits, Unwind, Holding
  <2>3. QED
    BY <1>5, <2>1, <2>2
<1>8. ASSUME NEW w \in Workers, InsertAnswerLost(w)
      PROVE  SessionsFit'
  <2>1. /\ pc[w] = "insert" /\ pc[w] \in Holding
        /\ req' = req /\ conn' = conn /\ session' = [session EXCEPT ![conn[w]] = Dead]
        /\ pc' = [pc EXCEPT ![w] = Unwind(w)]
    BY <1>8 DEF InsertAnswerLost, Holding
  <2>2. Unwind(w) \in Holding /\ Fits(Unwind(w), req[w], Dead)
    BY SessionValues DEF Fits, Unwind, Holding
  <2>3. QED
    BY <2>1, <2>2, HolderSteps
<1>9. ASSUME NEW w \in Workers, Decide(w)
      PROVE  SessionsFit'
  <2>1. /\ pc[w] = "decide" /\ pc[w] \in Holding
        /\ req' = req /\ conn' = conn /\ session' = session
    BY <1>9 DEF Decide, Holding, mysql
  <2>2. PICK x \in {"rollback", "commit"} : pc' = [pc EXCEPT ![w] = x]
    BY <1>9 DEF Decide
  <2>3. x \in Holding /\ Fits(x, req[w], session[conn[w]])
    BY <1>1, <2>1 DEF Fits, Holding
  <2>4. QED
    BY <1>5, <2>1, <2>2, <2>3
<1>10. ASSUME NEW w \in Workers, Commit(w)
       PROVE  SessionsFit'
  <2>1. /\ pc[w] = "commit" /\ pc[w] \in Holding
        /\ req' = req /\ conn' = conn /\ session' = [session EXCEPT ![conn[w]] = NoTx]
        /\ pc' = [pc EXCEPT ![w] = "release"]
    BY <1>10 DEF Commit, Holding
  <2>2. "release" \in Holding /\ Fits("release", req[w], NoTx)
    BY SessionValues DEF Fits, Holding
  <2>3. QED
    BY <2>1, <2>2, HolderSteps
<1>11. ASSUME NEW w \in Workers, Rollback(w)
       PROVE  SessionsFit'
  <2>1. /\ pc[w] = "rollback" /\ pc[w] \in Holding
        /\ req' = req /\ conn' = conn /\ pc' = [pc EXCEPT ![w] = "release"]
    BY <1>11 DEF Rollback, Holding
  <2>2. PICK s \in {NoTx, Dead} : session' = [session EXCEPT ![conn[w]] = s]
    BY <1>11 DEF Rollback
  <2>3. "release" \in Holding /\ Fits("release", req[w], s)
    BY <2>2, SessionValues DEF Fits, Holding
  <2>4. QED
    BY <2>1, <2>2, <2>3, HolderSteps
\* A handle changes hands: its session is clean.
<1>12. ASSUME NEW w \in Workers, GetConn(w)
       PROVE  SessionsFit'
  <2> DEFINE k == Head(m_conn_queue)
  <2>1. /\ pc[w] = "get" /\ m_conn_queue # <<>> /\ conn' = [conn EXCEPT ![w] = k]
        /\ req' = req /\ session' = session
    BY <1>12 DEF GetConn, mysql
  <2>2. k \in Handles /\ k \in ToSet(m_conn_queue)
    BY <2>1, PopFront, Places DEF TypeOK
  <2>3. \A v \in Workers : conn[v] # k
    BY <2>2, Places
  <2>4. Clean(session[k])
    BY <2>2, <2>3 DEF SessionsFit
  <2>5. /\ pc'[w] = IF req[w] \in TxRequests THEN "begin" ELSE "insert"
        /\ \A v \in Workers : v # w => pc'[v] = pc[v]
    BY <1>12 DEF GetConn, TypeOK
  <2> HIDE DEF k
  <2>6. conn'[w] = k /\ \A v \in Workers : v # w => conn'[v] = conn[v]
    BY <2>1 DEF TypeOK
  <2>7. conn[w] = None
    BY <2>1 DEF TypeOK, Holding
  <2>8. Fits(pc'[w], req[w], session[k])
    BY <2>4, <2>5 DEF Fits, Clean
  <2>9. ASSUME NEW v \in Workers, pc'[v] \in Holding
        PROVE  Fits(pc'[v], req'[v], session'[conn'[v]])
    <3>1. CASE v = w
      BY <2>1, <2>6, <2>8, <3>1
    <3>2. CASE v # w
      <4>1. pc'[v] = pc[v] /\ conn'[v] = conn[v]
        BY <2>5, <2>6, <3>2
      <4>2. Fits(pc[v], req[v], session[conn[v]])
        BY <2>9, <4>1 DEF SessionsFit
      <4>3. QED
        BY <2>1, <4>1, <4>2
    <3>3. QED
      BY <3>1, <3>2
  <2>10. ASSUME NEW h \in Handles, \A v \in Workers : conn'[v] # h
         PROVE  Clean(session'[h])
    <3>1. \A v \in Workers : conn[v] # h
      BY <2>6, <2>7, <2>10, NoneIsNothing
    <3>2. QED
      BY <2>1, <3>1 DEF SessionsFit
  <2>11. QED
    BY <2>9, <2>10 DEF SessionsFit
<1>13. ASSUME NEW w \in Workers, Release(w)
       PROVE  SessionsFit'
  <2>1. /\ pc[w] = "release" /\ pc[w] \in Holding /\ NotifyOne(w)
        /\ conn' = [conn EXCEPT ![w] = None] /\ req' = req /\ session' = session
    BY <1>13 DEF Release, mysql, Holding
  <2>2. Clean(session[conn[w]])
    BY <1>1, <2>1 DEF Fits, Clean
  <2>3. /\ pc'[w] = "reply"
        /\ \A v \in Workers : v # w =>
              pc'[v] = pc[v] \/ (pc[v] = "sleep" /\ pc'[v] = "get")
    BY <2>1, NotifyOneEffect DEF TypeOK
  <2>4. conn'[w] = None /\ \A v \in Workers : v # w => conn'[v] = conn[v]
    BY <2>1 DEF TypeOK
  <2>5. ASSUME NEW v \in Workers, pc'[v] \in Holding
        PROVE  Fits(pc'[v], req'[v], session'[conn'[v]])
    <3>1. v # w /\ pc'[v] = pc[v] /\ conn'[v] = conn[v]
      BY <2>3, <2>4, <2>5 DEF Holding
    <3>2. Fits(pc[v], req[v], session[conn[v]])
      BY <2>5, <3>1 DEF SessionsFit
    <3>3. QED
      BY <2>1, <3>1, <3>2
  <2>6. ASSUME NEW h \in Handles, \A v \in Workers : conn'[v] # h
        PROVE  Clean(session'[h])
    <3>1. CASE h = conn[w]
      BY <2>1, <2>2, <3>1
    <3>2. CASE h # conn[w]
      <4>1. \A v \in Workers : conn[v] # h
        BY <2>4, <2>6, <3>2
      <4>2. QED
        BY <2>1, <4>1 DEF SessionsFit
    <3>3. QED
      BY <3>1, <3>2
  <2>7. QED
    BY <2>5, <2>6 DEF SessionsFit
\* Nobody's handle or session changes.
<1>14. ASSUME NEW w \in Workers, NEW r \in Requests, Start(w, r)
       PROVE  SessionsFit'
  <2>1. conn' = conn /\ session' = session
    BY <1>14 DEF Start, mysql
  <2>2. \A v \in Workers : pc'[v] \in Holding => pc'[v] = pc[v] /\ req'[v] = req[v]
    BY <1>14 DEF Start, TypeOK, Holding
  <2>3. QED
    BY <2>1, <2>2, OthersStep
<1>15. ASSUME NEW w \in Workers,
              GetWait(w) \/ Spurious(w) \/ Reply(w) \/ WorkerExit(w)
       PROVE  SessionsFit'
  <2>1. conn' = conn /\ session' = session
    BY <1>15 DEF GetWait, Spurious, Reply, WorkerExit, mysql
  <2>2. \A v \in Workers : pc'[v] \in Holding => pc'[v] = pc[v]
    BY <1>15 DEF GetWait, Spurious, Reply, WorkerExit, TypeOK, Holding
  <2>3. \A v \in Workers : pc'[v] \in Holding => req'[v] = req[v]
    BY <1>15 DEF GetWait, Spurious, Reply, WorkerExit, TypeOK, Holding
  <2>4. QED
    BY <2>1, <2>2, <2>3, OthersStep
<1>16. ASSUME UNCHANGED <<pc, req, conn, session>>
       PROVE  SessionsFit'
  BY <1>16, OthersStep
<1>17. ASSUME NEW w \in Workers, CommitFails(w) \/ CommitAnswerLost(w)
       PROVE  SessionsFit'
  BY <1>2, <1>17 DEF CommitFails, CommitAnswerLost
<1>18. CASE Main
  BY <1>16, <1>18 DEF Main, ShutdownPool, StopThreads, Exit, work, mysql
<1>19. CASE UNCHANGED vars
  BY <1>16, <1>19 DEF vars
<1>20. QED
  BY <1>3, <1>4, <1>6, <1>7, <1>8, <1>9, <1>10, <1>11, <1>12, <1>13, <1>14, <1>15, <1>17,
     <1>18, <1>19 DEF Next, WorkerStep

LEMMA SessionsInit == Init => SessionsFit
<1> SUFFICES ASSUME Init PROVE SessionsFit
  OBVIOUS
<1>1. /\ \A w \in Workers : pc[w] = "idle"
      /\ \A h \in Handles : session[h] = NoTx
  BY DEF Init
<1>2. QED
  BY <1>1, SessionValues DEF SessionsFit, Clean, Holding

(* An open transaction is that of the one worker that holds the handle, and *)
(* has that worker's row at most: a handle is never handed on with a        *)
(* transaction left in it, whatever fails and whenever connections die.     *)
THEOREM TransactionsBelong == Spec => []TxBelongsToHolder
<1>1. TypeOK /\ OnePlace /\ SessionsFit => TxBelongsToHolder
  <2> SUFFICES ASSUME TypeOK, OnePlace, SessionsFit,
                      NEW h \in Handles, session[h].tx
               PROVE  \E w \in Workers :
                        /\ conn[w] = h
                        /\ pc[w] \in {"insert", "decide", "commit", "rollback"}
                        /\ session[h].rows \subseteq {req[w]}
    BY DEF TxBelongsToHolder
  <2>1. PICK w \in Workers : conn[w] = h
    BY DEF SessionsFit, Clean
  <2>2. pc[w] \in Holding
    BY <2>1, NoneIsNothing DEF TypeOK
  <2>3. Fits(pc[w], req[w], session[h])
    BY <2>1, <2>2 DEF SessionsFit
  <2>4. QED
    BY <2>1, <2>3 DEF Fits
<1>2. QED
  BY <1>1, SessionsInit, SessionsStep, TypeCorrect, PlacesKept, PTL DEF Spec

-----------------------------------------------------------------------------
(* Replies *)

Returning == {"rollback", "release", "reply"}

(* Each request is waiting, served by one worker, or answered, and what the *)
(* DAO is about to return agrees with the table.  A process that was ended  *)
(* by a lost answer to COMMIT has the row and no result.                    *)
RequestsOnce ==
  /\ \A r \in todo : reply[r] = "none" /\ r \notin table /\ \A w \in Workers : req[w] # r
  /\ \A v, w \in Workers : req[v] = req[w] => v = w \/ req[v] = None
  /\ \A w \in Workers : req[w] # None => reply[req[w]] = "none"

ResultsTrue ==
  /\ \A w \in Workers : pc[w] \notin Returning => result[w] = "none"
  /\ \A w \in Workers : result[w] = "ok" => req[w] \in table
  /\ main # "terminated" =>
       \A w \in Workers : req[w] \in TxRequests /\ result[w] # "ok" => req[w] \notin table

Served == RequestsOnce /\ ResultsTrue /\ ReplyTruthful

(* A step in which worker w writes at most the row of its own request, and  *)
(* leaves with a result that agrees with the table.                         *)
LEMMA ServingStep ==
  ASSUME TypeOK, Served, NEW w \in Workers, NEW x, NEW y, req[w] # None,
         pc' = [pc EXCEPT ![w] = x], result' = [result EXCEPT ![w] = y],
         UNCHANGED <<req, todo, reply, main>>,
         table' = table \/ table' = table \cup {req[w]},
         x \notin Returning => y = "none",
         y = "ok" => req[w] \in table',
         req[w] \in TxRequests /\ y # "ok" => req[w] \notin table'
  PROVE  Served'
<1>1. /\ pc'[w] = x /\ \A v \in Workers : v # w => pc'[v] = pc[v]
      /\ result'[w] = y /\ \A v \in Workers : v # w => result'[v] = result[v]
  BY DEF TypeOK
<1>2. \A v \in Workers : v # w => req[v] # req[w]
  BY DEF Served, RequestsOnce
<1>3. reply[req[w]] = "none" /\ req[w] \notin todo
  BY DEF Served, RequestsOnce
<1>4. \A v \in Workers : v # w => (req[v] \in table' <=> req[v] \in table)
  BY <1>2
<1>5. \A r \in Requests : r # req[w] => (r \in table' <=> r \in table)
  OBVIOUS
<1>6. RequestsOnce'
  <2>1. \A r \in todo : reply[r] = "none" /\ r \notin table' /\ \A v \in Workers : req[v] # r
    BY <1>3, <1>5 DEF Served, RequestsOnce, TypeOK
  <2>2. QED
    BY <2>1 DEF Served, RequestsOnce
<1>7. ResultsTrue'
  <2>1. \A v \in Workers : pc'[v] \notin Returning => result'[v] = "none"
    BY <1>1 DEF Served, ResultsTrue
  <2>2. \A v \in Workers : result'[v] = "ok" => req[v] \in table'
    BY <1>1, <1>4 DEF Served, ResultsTrue
  <2>3. main # "terminated" =>
          \A v \in Workers : req[v] \in TxRequests /\ result'[v] # "ok" => req[v] \notin table'
    BY <1>1, <1>4 DEF Served, ResultsTrue
  <2>4. QED
    BY <2>1, <2>2, <2>3 DEF ResultsTrue
<1>8. ReplyTruthful'
  BY <1>3, <1>5 DEF Served, ReplyTruthful, Requests
<1>9. QED
  BY <1>6, <1>7, <1>8 DEF Served

(* A step that writes no row and returns no result.                         *)
LEMMA NothingServed ==
  ASSUME Served, UNCHANGED <<req, result, table, todo, reply>>,
         \A v \in Workers : pc'[v] \notin Returning => pc[v] \notin Returning,
         main' # "terminated" => main # "terminated"
  PROVE  Served'
<1>1. RequestsOnce'
  BY DEF Served, RequestsOnce
<1>2. ResultsTrue'
  BY DEF Served, ResultsTrue
<1>3. ReplyTruthful'
  BY DEF Served, ReplyTruthful
<1>4. QED
  BY <1>1, <1>2, <1>3 DEF Served

(* An exception ends the process, the row of w written or not.              *)
LEMMA TerminateServed ==
  ASSUME TypeOK, Served, NEW w \in Workers, req[w] # None, Terminate,
         table' = table \/ table' = table \cup {req[w]}
  PROVE  Served'
<1>1. UNCHANGED <<pc, req, result, todo, reply>> /\ main' = "terminated"
  BY DEF Terminate, work
<1>2. reply[req[w]] = "none" /\ req[w] \notin todo
  BY DEF Served, RequestsOnce
<1>3. \A r \in Requests : r # req[w] => (r \in table' <=> r \in table)
  OBVIOUS
<1>4. RequestsOnce'
  <2>1. \A r \in todo : reply[r] = "none" /\ r \notin table' /\ \A v \in Workers : req[v] # r
    BY <1>2, <1>3 DEF Served, RequestsOnce, TypeOK
  <2>2. QED
    BY <1>1, <2>1 DEF Served, RequestsOnce
<1>5. ResultsTrue'
  BY <1>1 DEF Served, ResultsTrue
<1>6. ReplyTruthful'
  BY <1>1, <1>2, <1>3 DEF Served, ReplyTruthful, Requests
<1>7. QED
  BY <1>4, <1>5, <1>6 DEF Served

LEMMA ServedStep == TypeOK /\ SessionsFit /\ Served /\ [Next]_vars => Served'
<1> SUFFICES ASSUME TypeOK, SessionsFit, Served, [Next]_vars
             PROVE  Served'
  OBVIOUS
<1>1. ASSUME NEW w \in Workers, pc[w] \in Holding
      PROVE  req[w] # None /\ req[w] \in Requests /\ Fits(pc[w], req[w], session[conn[w]])
  BY <1>1 DEF TypeOK, Holding, SessionsFit
<1>2. ASSUME NEW w \in Workers, pc[w] \notin Returning
      PROVE  result[w] = "none"
  BY <1>2 DEF Served, ResultsTrue
<1>3. ASSUME NEW w \in Workers, Alive, req[w] \in TxRequests, result[w] # "ok"
      PROVE  req[w] \notin table
  BY <1>3 DEF Served, ResultsTrue, Alive
<1>4. ASSUME NEW w \in Workers, NEW x, req[w] # None, pc' = [pc EXCEPT ![w] = x],
             UNCHANGED <<result, req, table, todo, reply, main>>,
             x \notin Returning => pc[w] \notin Returning
      PROVE  Served'
  <2>1. \A v \in Workers : pc'[v] \notin Returning => pc[v] \notin Returning
    BY <1>4 DEF TypeOK
  <2>2. QED
    BY <1>4, <2>1, NothingServed
<1>5. ASSUME NEW w \in Workers, Begin(w)
      PROVE  Served'
  <2>1. pc[w] = "begin" /\ pc[w] \in Holding /\ pc[w] \notin Returning
    BY <1>5 DEF Begin, Holding, Returning
  <2>2. session[conn[w]].rows = {} /\ req[w] # None
    BY <1>1, <2>1 DEF Fits
  <2>3. CASE session[conn[w]].up
    <3>1. /\ pc' = [pc EXCEPT ![w] = "insert"]
          /\ UNCHANGED <<result, req, todo, reply, main>>
          /\ table' = table \cup session[conn[w]].rows
      BY <1>5, <2>3 DEF Begin
    <3>2. table' = table
      BY <2>2, <3>1
    <3>3. QED
      BY <1>4, <2>1, <2>2, <3>1, <3>2
  <2>4. CASE ~session[conn[w]].up
    BY <1>5, <2>2, <2>4, TerminateServed DEF Begin
  <2>5. QED
    BY <2>3, <2>4
<1>6. ASSUME NEW w \in Workers, Insert(w)
      PROVE  Served'
  <2>1. /\ Alive /\ pc[w] = "insert" /\ pc[w] \in Holding /\ pc[w] \notin Returning
        /\ UNCHANGED <<req, todo, reply, main>> /\ session[conn[w]].up
    BY <1>6 DEF Insert, Holding, Returning
  <2>2. req[w] # None /\ Fits("insert", req[w], session[conn[w]])
    BY <1>1, <2>1
  <2>3. CASE session[conn[w]].tx
    <3>1. req[w] \in TxRequests /\ req[w] \notin AutoRequests
      BY <2>2, <2>3, OneDao DEF Fits
    <3>2. table' = table /\ result' = result /\ pc' = [pc EXCEPT ![w] = "decide"]
      BY <1>6, <2>3, <3>1 DEF Insert
    <3>3. QED
      BY <1>4, <2>1, <2>2, <3>2
  <2>4. CASE ~session[conn[w]].tx
    <3>1. req[w] \notin TxRequests
      BY <2>1, <2>2, <2>4 DEF Fits
    <3>2. /\ table' = table \cup {req[w]} /\ pc' = [pc EXCEPT ![w] = "release"]
          /\ result' = [result EXCEPT ![w] = "ok"]
      BY <1>6, <2>4, <3>1 DEF Insert
    <3>3. "release" \in Returning
      BY DEF Returning
    <3>4. QED
      BY <2>1, <2>2, <3>1, <3>2, <3>3, ServingStep
  <2>5. QED
    BY <2>3, <2>4
<1>7. ASSUME NEW w \in Workers, InsertFails(w)
      PROVE  Served'
  <2>1. /\ Alive /\ pc[w] = "insert" /\ pc[w] \in Holding /\ pc[w] \notin Returning
        /\ UNCHANGED <<req, table, todo, reply, main>>
        /\ pc' = [pc EXCEPT ![w] = Unwind(w)]
        /\ result' = [result EXCEPT ![w] = "failed"]
    BY <1>7 DEF InsertFails, Holding, Returning, mysql
  <2>2. Unwind(w) \in Returning
    BY DEF Unwind, Returning
  <2>3. req[w] \in TxRequests => req[w] \notin table
    BY <1>2, <1>3, <2>1
  <2>4. req[w] # None
    BY <1>1, <2>1
  <2>5. QED
    BY <2>1, <2>2, <2>3, <2>4, ServingStep
<1>8. ASSUME NEW w \in Workers, InsertAnswerLost(w)
      PROVE  Served'
  <2>1. /\ pc[w] = "insert" /\ pc[w] \in Holding
        /\ UNCHANGED <<req, todo, reply, main>> /\ table' = table \cup {req[w]}
        /\ pc' = [pc EXCEPT ![w] = Unwind(w)]
        /\ result' = [result EXCEPT ![w] = "failed"]
        /\ session[conn[w]].up /\ ~session[conn[w]].tx
    BY <1>8 DEF InsertAnswerLost, Holding
  <2>2. Unwind(w) \in Returning
    BY DEF Unwind, Returning
  <2>3. req[w] # None /\ req[w] \notin TxRequests
    BY <1>1, <2>1 DEF Fits
  <2>4. QED
    BY <2>1, <2>2, <2>3, ServingStep
<1>9. ASSUME NEW w \in Workers, Decide(w)
      PROVE  Served'
  <2>1. /\ Alive /\ pc[w] = "decide" /\ pc[w] \in Holding /\ pc[w] \notin Returning
        /\ UNCHANGED <<req, table, todo, reply, main>>
    BY <1>9 DEF Decide, Holding, Returning, mysql
  <2>2. req[w] # None
    BY <1>1, <2>1
  <2>3. CASE pc' = [pc EXCEPT ![w] = "commit"] /\ result' = result
    BY <1>4, <2>1, <2>2, <2>3
  <2>4. CASE /\ pc' = [pc EXCEPT ![w] = "rollback"]
             /\ result' = [result EXCEPT ![w] = "failed"]
    <3>1. "rollback" \in Returning
      BY DEF Returning
    <3>2. req[w] \in TxRequests => req[w] \notin table
      BY <1>2, <1>3, <2>1
    <3>3. QED
      BY <2>1, <2>2, <2>4, <3>1, <3>2, ServingStep
  <2>5. QED
    BY <1>9, <2>3, <2>4 DEF Decide
<1>10. ASSUME NEW w \in Workers, Commit(w)
       PROVE  Served'
  <2>1. /\ pc[w] = "commit" /\ pc[w] \in Holding /\ session[conn[w]].up
        /\ UNCHANGED <<req, todo, reply, main>>
        /\ table' = table \cup session[conn[w]].rows
        /\ pc' = [pc EXCEPT ![w] = "release"]
        /\ result' = [result EXCEPT ![w] = "ok"]
    BY <1>10 DEF Commit, Holding
  <2>2. req[w] # None /\ session[conn[w]].rows = {req[w]}
    BY <1>1, <2>1 DEF Fits
  <2>3. "release" \in Returning
    BY DEF Returning
  <2>4. table' = table \cup {req[w]} /\ req[w] \in table'
    BY <2>1, <2>2
  <2>5. QED
    BY <2>1, <2>2, <2>3, <2>4, ServingStep
<1>11. ASSUME NEW w \in Workers, CommitFails(w) \/ CommitAnswerLost(w)
       PROVE  Served'
  <2>1. pc[w] = "commit" /\ pc[w] \in Holding /\ Terminate
    BY <1>11 DEF CommitFails, CommitAnswerLost, Holding
  <2>2. req[w] # None /\ (session[conn[w]].up => session[conn[w]].rows = {req[w]})
    BY <1>1, <2>1 DEF Fits
  <2>3. table' = table \/ table' = table \cup {req[w]}
    BY <1>11, <2>2 DEF CommitFails, CommitAnswerLost
  <2>4. QED
    BY <2>1, <2>2, <2>3, TerminateServed
<1>12. ASSUME NEW w \in Workers, Rollback(w)
       PROVE  Served'
  <2>1. /\ pc[w] \in Holding
        /\ UNCHANGED <<result, req, table, todo, reply, main>>
        /\ pc' = [pc EXCEPT ![w] = "release"]
    BY <1>12 DEF Rollback, Holding
  <2>2. req[w] # None /\ "release" \in Returning
    BY <1>1, <2>1 DEF Returning
  <2>3. QED
    BY <1>4, <2>1, <2>2
<1>13. ASSUME NEW w \in Workers, Release(w)
       PROVE  Served'
  <2>1. pc[w] = "release" /\ NotifyOne(w) /\ UNCHANGED <<result, req, table, todo, reply, main>>
    BY <1>13 DEF Release, mysql
  <2>2. /\ pc'[w] = "reply"
        /\ \A v \in Workers : v # w =>
              pc'[v] = pc[v] \/ (pc[v] = "sleep" /\ pc'[v] = "get")
    BY <2>1, NotifyOneEffect DEF TypeOK
  <2>3. \A v \in Workers : pc'[v] \notin Returning => pc[v] \notin Returning
    BY <2>2 DEF Returning
  <2>4. QED
    BY <2>1, <2>3, NothingServed
<1>14. ASSUME NEW w \in Workers, NEW r \in Requests, Start(w, r)
       PROVE  Served'
  <2>1. /\ pc[w] = "idle" /\ r \in todo /\ todo' = todo \ {r}
        /\ req' = [req EXCEPT ![w] = r] /\ pc' = [pc EXCEPT ![w] = "get"]
        /\ UNCHANGED <<result, table, reply, main>>
    BY <1>14 DEF Start, mysql
  <2>2. /\ reply[r] = "none" /\ r \notin table
        /\ \A v \in Workers : req[v] # r
    BY <2>1 DEF Served, RequestsOnce
  <2>3. req'[w] = r /\ \A v \in Workers : v # w => req'[v] = req[v]
    BY <2>1 DEF TypeOK
  <2>4. pc'[w] = "get" /\ \A v \in Workers : v # w => pc'[v] = pc[v]
    BY <2>1 DEF TypeOK
  <2>5. result[w] = "none"
    BY <1>2, <2>1 DEF Returning
  <2>6. RequestsOnce'
    <3>1. \A s \in todo' : reply[s] = "none" /\ s \notin table /\ \A v \in Workers : req'[v] # s
      BY <2>1, <2>3 DEF Served, RequestsOnce
    <3>2. \A u, v \in Workers : req'[u] = req'[v] => u = v \/ req'[u] = None
      BY <2>2, <2>3 DEF Served, RequestsOnce
    <3>3. \A v \in Workers : req'[v] # None => reply[req'[v]] = "none"
      BY <2>2, <2>3 DEF Served, RequestsOnce
    <3>4. QED
      BY <2>1, <3>1, <3>2, <3>3 DEF RequestsOnce
  <2>7. ResultsTrue'
    <3>1. \A v \in Workers : pc'[v] \notin Returning => result[v] = "none"
      BY <2>4, <2>5 DEF Served, ResultsTrue
    <3>2. \A v \in Workers : result[v] = "ok" => req'[v] \in table
      BY <2>3, <2>5 DEF Served, ResultsTrue
    <3>3. main # "terminated" =>
            \A v \in Workers : req'[v] \in TxRequests /\ result[v] # "ok" => req'[v] \notin table
      BY <2>2, <2>3 DEF Served, ResultsTrue
    <3>4. QED
      BY <2>1, <3>1, <3>2, <3>3 DEF ResultsTrue
  <2>8. ReplyTruthful'
    BY <2>1 DEF Served, ReplyTruthful
  <2>9. QED
    BY <2>6, <2>7, <2>8 DEF Served
<1>15. ASSUME NEW w \in Workers, Reply(w)
       PROVE  Served'
  <2>1. /\ Alive /\ pc[w] = "reply" /\ reply' = [reply EXCEPT ![req[w]] = result[w]]
        /\ req' = [req EXCEPT ![w] = None] /\ result' = [result EXCEPT ![w] = "none"]
        /\ UNCHANGED <<table, todo, main>>
    BY <1>15 DEF Reply, mysql
  <2>2. req[w] # None /\ req[w] \in Requests
    BY <2>1 DEF TypeOK
  <2>3. /\ req'[w] = None /\ \A v \in Workers : v # w => req'[v] = req[v]
        /\ result'[w] = "none" /\ \A v \in Workers : v # w => result'[v] = result[v]
    BY <2>1 DEF TypeOK
  <2>4. /\ reply'[req[w]] = result[w]
        /\ \A r \in Requests : r # req[w] => reply'[r] = reply[r]
    BY <2>1, <2>2 DEF TypeOK
  <2>5. \A v \in Workers : v # w => pc'[v] = pc[v]
    BY <1>15 DEF Reply, TypeOK
  <2>6. req[w] \notin todo /\ \A v \in Workers : v # w => req[v] # req[w]
    BY <2>2 DEF Served, RequestsOnce
  <2>7. None \notin Requests
    BY NoneIsNothing
  <2>8. RequestsOnce'
    <3>1. ASSUME NEW s \in todo
          PROVE  reply'[s] = "none" /\ s \notin table /\ \A v \in Workers : req'[v] # s
      <4>1. s \in Requests /\ s # req[w] /\ s # None
        BY <2>6, <2>7, <3>1 DEF TypeOK
      <4>2. QED
        BY <2>3, <2>4, <4>1 DEF Served, RequestsOnce
    <3>2. \A u, v \in Workers : req'[u] = req'[v] => u = v \/ req'[u] = None
      BY <2>3 DEF Served, RequestsOnce
    <3>3. ASSUME NEW v \in Workers, req'[v] # None
          PROVE  reply'[req'[v]] = "none"
      <4>1. v # w /\ req'[v] = req[v] /\ req[v] # None
        BY <2>3, <3>3
      <4>2. req[v] \in Requests /\ req[v] # req[w]
        BY <2>6, <4>1 DEF TypeOK
      <4>3. reply[req[v]] = "none"
        BY <4>1 DEF Served, RequestsOnce
      <4>4. QED
        BY <2>4, <4>1, <4>2, <4>3
    <3>4. QED
      BY <2>1, <3>1, <3>2, <3>3 DEF RequestsOnce
  <2>9. ResultsTrue'
    <3>1. \A v \in Workers : pc'[v] \notin Returning => result'[v] = "none"
      BY <2>3, <2>5 DEF Served, ResultsTrue
    <3>2. \A v \in Workers : result'[v] = "ok" => req'[v] \in table
      BY <2>3 DEF Served, ResultsTrue
    <3>3. main # "terminated" =>
            \A v \in Workers : req'[v] \in TxRequests /\ result'[v] # "ok" => req'[v] \notin table
      BY <2>3, <2>7 DEF Served, ResultsTrue, Requests
    <3>4. QED
      BY <2>1, <3>1, <3>2, <3>3 DEF ResultsTrue
  <2>10. ReplyTruthful'
    <3>1. result[w] = "ok" => req[w] \in table
      BY DEF Served, ResultsTrue
    <3>2. result[w] = "failed" /\ req[w] \in TxRequests => req[w] \notin table
      BY <1>3, <2>1
    <3>3. QED
      BY <2>1, <2>4, <3>1, <3>2 DEF Served, ReplyTruthful, Requests
  <2>11. QED
    BY <2>8, <2>9, <2>10 DEF Served
<1>16. ASSUME NEW w \in Workers, GetConn(w) \/ GetWait(w) \/ Spurious(w) \/ WorkerExit(w)
       PROVE  Served'
  <2>1. UNCHANGED <<result, req, table, todo, reply, main>>
    BY <1>16 DEF GetConn, GetWait, Spurious, WorkerExit, mysql
  <2>2. \A v \in Workers : pc'[v] \notin Returning => pc[v] \notin Returning
    BY <1>16 DEF GetConn, GetWait, Spurious, WorkerExit, TypeOK, Returning
  <2>3. QED
    BY <2>1, <2>2, NothingServed
<1>17. ASSUME NEW h \in Handles, ConnLost(h)
       PROVE  Served'
  BY <1>17, NothingServed DEF ConnLost, work
<1>18. CASE Main
  <2>1. /\ UNCHANGED <<pc, result, req, table, todo, reply>>
        /\ main # "terminated"
    BY <1>18 DEF Main, ShutdownPool, StopThreads, Exit, work, mysql
  <2>2. QED
    BY <2>1, NothingServed
<1>19. CASE UNCHANGED vars
  BY <1>19, NothingServed DEF vars
<1>20. QED
  BY <1>5, <1>6, <1>7, <1>8, <1>9, <1>10, <1>11, <1>12, <1>13, <1>14, <1>15, <1>16, <1>17,
     <1>18, <1>19 DEF Next, WorkerStep

LEMMA ServedInit == Init => Served
<1> SUFFICES ASSUME Init PROVE Served
  OBVIOUS
<1>1. /\ \A w \in Workers : req[w] = None /\ result[w] = "none"
      /\ \A r \in Requests : reply[r] = "none"
      /\ todo = Requests /\ table = {}
  BY DEF Init
<1>2. None \notin Requests
  BY NoneIsNothing
<1>3. RequestsOnce
  BY <1>1, <1>2 DEF RequestsOnce
<1>4. ResultsTrue
  BY <1>1 DEF ResultsTrue
<1>5. ReplyTruthful
  BY <1>1 DEF ReplyTruthful, Requests
<1>6. QED
  BY <1>3, <1>4, <1>5 DEF Served

(* A client that is told "ok" has its row committed, and a client of a      *)
(* transaction that is told "failed" has not: for any number of workers,    *)
(* handles and requests, and any pattern of lost connections and shutdown.  *)
THEOREM RepliesTruthful == Spec => []ReplyTruthful
<1>1. Served => ReplyTruthful
  BY DEF Served
<1>2. QED
  BY <1>1, ServedInit, ServedStep, SessionsInit, SessionsStep, TypeCorrect, PlacesKept,
     PTL DEF Spec
==============================================================================
