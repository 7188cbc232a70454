-------------------------- MODULE ThreadPoolProofs --------------------------
(***************************************************************************)
(* ThreadPool for any number of workers, callers and submissions: types    *)
(* and mutual exclusion, FIFO delivery without loss, no lost wake-up, and  *)
(* no worker left asleep by shutdown.                                      *)
(***************************************************************************)
EXTENDS ThreadPool, SequenceTheorems, FiniteSetTheorems, TLAPS

-----------------------------------------------------------------------------
(* Types and the ownership of m_mutex hold in every reachable state.       *)
THEOREM TypeCorrect == Spec => []TypeOK
<1>1. Init => TypeOK
  <2> SUFFICES ASSUME Init PROVE TypeOK
    OBVIOUS
  <2>1. <<>> \in Seq(Tasks)
    BY EmptySeq
  <2>2. m_mutex = Free /\ \A w \in Workers : wpc[w] = "loop"
    BY DEF Init
  <2>3. LockHolder
    BY <2>2, FreeIsNoWorker DEF LockHolder
  <2>4. QED
    BY <2>1, <2>3 DEF Init, TypeOK, WorkerPC
<1>2. TypeOK /\ [Next]_vars => TypeOK'
  <2> SUFFICES ASSUME TypeOK, [Next]_vars PROVE TypeOK'
    OBVIOUS
  <2> USE FreeIsNoWorker DEF TypeOK, LockHolder, WorkerPC
  <2>1. ASSUME NEW c \in Callers, NEW t \in Tasks, AddTask(c, t)
        PROVE  TypeOK'
    BY <2>1 DEF AddTask
  <2>2. ASSUME NEW c \in Callers, AddTaskNotify(c)
        PROVE  TypeOK'
    BY <2>2 DEF AddTaskNotify, WakeOne, Waiting
  <2>3. ASSUME NEW w \in Workers, WorkerLoop(w)
        PROVE  TypeOK'
    BY <2>3 DEF WorkerLoop
  <2>4. ASSUME NEW w \in Workers, WorkerLock(w)
        PROVE  TypeOK'
    BY <2>4 DEF WorkerLock
  <2>5. ASSUME NEW w \in Workers, WorkerPredFalse(w)
        PROVE  TypeOK'
    BY <2>5 DEF WorkerPredFalse
  <2>6. ASSUME NEW w \in Workers, WorkerSleep(w)
        PROVE  TypeOK'
    BY <2>6 DEF WorkerSleep
  <2>7. ASSUME NEW w \in Workers, WorkerReturn(w)
        PROVE  TypeOK'
    BY <2>7 DEF WorkerReturn
  <2>8. ASSUME NEW w \in Workers, WorkerTake(w)
        PROVE  TypeOK'
    <3>1. Head(m_tasks) \in Tasks /\ Tail(m_tasks) \in Seq(Tasks)
      BY <2>8, HeadTailProperties DEF WorkerTake
    <3>2. QED
      BY <2>8, <3>1 DEF WorkerTake
  <2>9. ASSUME NEW w \in Workers, WorkerFinish(w)
        PROVE  TypeOK'
    BY <2>9 DEF WorkerFinish
  <2>10. ASSUME NEW w \in Workers, SpuriousWakeup(w)
         PROVE  TypeOK'
    BY <2>10 DEF SpuriousWakeup
  <2>11. CASE ShutdownStop
    BY <2>11 DEF ShutdownStop
  <2>12. CASE ShutdownNotifyAll
    BY <2>12 DEF ShutdownNotifyAll
  <2>13. CASE ShutdownJoin
    BY <2>13 DEF ShutdownJoin
  <2>14. CASE UNCHANGED vars
    BY <2>14 DEF vars
  <2>15. QED
    BY <2>1, <2>2, <2>3, <2>4, <2>5, <2>6, <2>7, <2>8, <2>9, <2>10, <2>11,
       <2>12, <2>13, <2>14
       DEF Next, WorkerStep, ShutdownStep
<1>3. QED
  BY <1>1, <1>2, PTL DEF Spec

-----------------------------------------------------------------------------
(* The queue discipline.  Only the two steps that touch the queue matter:  *)
(* a push appends to both sides of the equation, a pop moves the front     *)
(* task across the concatenation.                                          *)
LEMMA MoveAcross ==
  ASSUME NEW S, NEW a \in Seq(S), NEW q \in Seq(S), q # <<>>
  PROVE  Append(a, Head(q)) \o Tail(q) = a \o q
<1>1. Head(q) \in S /\ Tail(q) \in Seq(S) /\ q = <<Head(q)>> \o Tail(q)
  BY HeadTailProperties
<1>2. Append(a, Head(q)) = a \o <<Head(q)>>
  BY <1>1, AppendIsConcat
<1>3. <<Head(q)>> \in Seq(S)
  BY <1>1
<1>4. (a \o <<Head(q)>>) \o Tail(q) = a \o (<<Head(q)>> \o Tail(q))
  BY <1>1, <1>3, ConcatAssociative
<1>5. QED
  BY <1>1, <1>2, <1>4

LEMMA AppendAcross ==
  ASSUME NEW S, NEW a \in Seq(S), NEW q \in Seq(S), NEW t \in S
  PROVE  a \o Append(q, t) = Append(a \o q, t)
<1>1. <<t>> \in Seq(S) /\ a \o q \in Seq(S)
  BY ConcatProperties
<1>2. Append(q, t) = q \o <<t>> /\ Append(a \o q, t) = (a \o q) \o <<t>>
  BY <1>1, AppendIsConcat
<1>3. a \o (q \o <<t>>) = (a \o q) \o <<t>>
  BY <1>1, ConcatAssociative
<1>4. QED
  BY <1>2, <1>3

(* No task is lost, taken twice or reordered, in any run of the pool.      *)
THEOREM QueueIsFifo == Spec => []TakenInOrder
<1>1. Init => TakenInOrder
  BY ConcatEmptySeq DEF Init, TakenInOrder
<1>2. TypeOK /\ TakenInOrder /\ [Next]_vars => TakenInOrder'
  <2> SUFFICES ASSUME TypeOK, TakenInOrder, [Next]_vars
               PROVE  TakenInOrder'
    OBVIOUS
  <2>1. ASSUME NEW c \in Callers, NEW t \in Tasks, AddTask(c, t)
        PROVE  TakenInOrder'
    BY <2>1, AppendAcross DEF AddTask, TakenInOrder, TypeOK
  <2>2. ASSUME NEW w \in Workers, WorkerTake(w)
        PROVE  TakenInOrder'
    BY <2>2, MoveAcross DEF WorkerTake, TakenInOrder, TypeOK
  <2>3. ASSUME UNCHANGED <<m_tasks, submitted, started>>
        PROVE  TakenInOrder'
    BY <2>3 DEF TakenInOrder
  <2>4. QED
    BY <2>1, <2>2, <2>3
       DEF Next, vars, WorkerStep, ShutdownStep, AddTaskNotify, WorkerLoop,
           WorkerLock, WorkerPredFalse, WorkerSleep, WorkerReturn,
           WorkerFinish, SpuriousWakeup, ShutdownStop, ShutdownNotifyAll,
           ShutdownJoin
<1>3. QED
  BY <1>1, <1>2, TypeCorrect, PTL DEF Spec

-----------------------------------------------------------------------------
(* shutdown and the sleepers.  The flag is only ever set while the mutex   *)
(* is free, so no worker is then between predicate and sleep; afterwards   *)
(* the predicate is true and only earlier sleepers are left, until         *)
(* notify_all.                                                             *)
StopInv ==
  /\ spc # "idle" <=> m_stop
  /\ m_stop => \A w \in Workers : wpc[w] # "block"
  /\ spc \in {"join", "done"} => \A w \in Workers : wpc[w] # "waiting"

LEMMA StopInvariant == Spec => []StopInv
<1>1. Init => StopInv
  BY DEF Init, StopInv
<1>2. TypeOK /\ StopInv /\ [Next]_vars => StopInv'
  <2> SUFFICES ASSUME TypeOK, StopInv, [Next]_vars
               PROVE  StopInv'
    OBVIOUS
  <2> USE DEF StopInv, TypeOK
  <2>1. ASSUME NEW c \in Callers, NEW t \in Tasks, AddTask(c, t)
        PROVE  StopInv'
    BY <2>1 DEF AddTask
  <2>2. ASSUME NEW c \in Callers, AddTaskNotify(c)
        PROVE  StopInv'
    BY <2>2 DEF AddTaskNotify, WakeOne, Waiting
  <2>3. ASSUME NEW w \in Workers, WorkerStep(w) \/ WorkerLock(w) \/ SpuriousWakeup(w)
        PROVE  StopInv'
    BY <2>3 DEF WorkerStep, WorkerLoop, WorkerLock, WorkerPredFalse, WorkerSleep,
                WorkerReturn, WorkerTake, WorkerFinish, SpuriousWakeup
  <2>4. CASE ShutdownStop
    BY <2>4, FreeIsNoWorker DEF ShutdownStop, LockHolder
  <2>5. CASE ShutdownStep
    BY <2>5 DEF ShutdownStep, ShutdownNotifyAll, ShutdownJoin
  <2>6. CASE UNCHANGED vars
    BY <2>6 DEF vars
  <2>7. QED
    BY <2>1, <2>2, <2>3, <2>4, <2>5, <2>6 DEF Next
<1>3. QED
  BY <1>1, <1>2, TypeCorrect, PTL DEF Spec

(* After notify_all no worker sleeps or is about to, in any run.           *)
THEOREM StopWakesEverybody == Spec => []NoSleeperAfterStop
<1>1. TypeOK /\ StopInv => NoSleeperAfterStop
  BY DEF StopInv, NoSleeperAfterStop, TypeOK
<1>2. QED
  BY <1>1, TypeCorrect, StopInvariant, PTL

-----------------------------------------------------------------------------
(* Wake-ups.  The counting bound is preserved because a take consumes one  *)
(* task and one coming worker, a notification turns a pending call into a  *)
(* coming worker, and a worker goes to sleep only over an empty queue; the *)
(* queue stays empty between its predicate and its sleep, since it holds   *)
(* the mutex all the while.                                                *)
BlockedOverEmpty ==
  \A w \in Workers : wpc[w] = "block" => m_tasks = <<>>

WakeInv == BlockedOverEmpty /\ EveryTaskHasAWorker

LEMMA CountsFinite ==
  /\ IsFiniteSet(Coming) /\ Cardinality(Coming) \in Nat
  /\ IsFiniteSet(Pending) /\ Cardinality(Pending) \in Nat
<1>1. Coming \in SUBSET Workers /\ Pending \in SUBSET Callers
  BY DEF Coming, Pending
<1>2. IsFiniteSet(Coming) /\ IsFiniteSet(Pending)
  BY <1>1, FS_Subset, WorkersFinite, CallersFinite
<1>3. QED
  BY <1>2, FS_CardinalityType

LEMMA WakeStep == TypeOK /\ StopInv /\ WakeInv /\ [Next]_vars => WakeInv'
<1> SUFFICES ASSUME TypeOK, StopInv, WakeInv, [Next]_vars
             PROVE  WakeInv'
  OBVIOUS
<1>len. Len(m_tasks) \in Nat
  BY LenProperties DEF TypeOK
<1>cnt. /\ IsFiniteSet(Coming) /\ Cardinality(Coming) \in Nat
        /\ IsFiniteSet(Pending) /\ Cardinality(Pending) \in Nat
  BY CountsFinite
<1>add. \A x : x \notin Coming => Cardinality(Coming \cup {x}) = Cardinality(Coming) + 1
  BY <1>cnt, FS_AddElement
<1>rem. \A x \in Coming : Cardinality(Coming \ {x}) = Cardinality(Coming) - 1
  BY <1>cnt, FS_RemoveElement
<1>padd. \A x : x \notin Pending => Cardinality(Pending \cup {x}) = Cardinality(Pending) + 1
  BY <1>cnt, FS_AddElement
<1>prem. \A x \in Pending : Cardinality(Pending \ {x}) = Cardinality(Pending) - 1
  BY <1>cnt, FS_RemoveElement
<1>1. ASSUME NEW c \in Callers, NEW t \in Tasks, AddTask(c, t)
      PROVE  WakeInv'
  <2>1. c \notin Pending /\ Pending' = Pending \cup {c}
    BY <1>1 DEF AddTask, Pending, TypeOK
  <2>2. Coming' = Coming /\ Waiting' = Waiting
    BY <1>1 DEF AddTask, Coming, Waiting
  <2>3. Len(m_tasks') = Len(m_tasks) + 1
    BY <1>1, AppendProperties DEF AddTask, TypeOK
  <2>4. EveryTaskHasAWorker'
    BY <1>1, <2>1, <2>2, <2>3, <1>len, <1>cnt, <1>padd
       DEF AddTask, WakeInv, EveryTaskHasAWorker
  <2>5. BlockedOverEmpty'
    BY <1>1, FreeIsNoWorker DEF AddTask, BlockedOverEmpty, TypeOK, LockHolder
  <2>6. QED
    BY <2>4, <2>5 DEF WakeInv
<1>2. ASSUME NEW c \in Callers, AddTaskNotify(c)
      PROVE  WakeInv'
  <2>1. c \in Pending /\ Pending' = Pending \ {c}
    BY <1>2 DEF AddTaskNotify, Pending, TypeOK
  <2>2. CASE Waiting = {}
    <3>1. wpc' = wpc
      BY <1>2, <2>2 DEF AddTaskNotify, WakeOne
    <3>2. QED
      BY <1>2, <2>2, <3>1 DEF AddTaskNotify, WakeInv, EveryTaskHasAWorker,
                              BlockedOverEmpty, Waiting
  <2>3. CASE Waiting # {}
    <3>1. PICK w \in Waiting : wpc' = [wpc EXCEPT ![w] = "lock"]
      BY <1>2, <2>3 DEF AddTaskNotify, WakeOne
    <3>2. w \notin Coming /\ Coming' = Coming \cup {w}
      BY <3>1 DEF Coming, Waiting, TypeOK
    <3>3. EveryTaskHasAWorker'
      BY <1>2, <2>1, <2>3, <3>2, <1>len, <1>cnt, <1>add, <1>prem
         DEF AddTaskNotify, WakeInv, EveryTaskHasAWorker
    <3>4. BlockedOverEmpty'
      BY <1>2, <3>1 DEF AddTaskNotify, WakeInv, BlockedOverEmpty, TypeOK, Waiting
    <3>5. QED
      BY <3>3, <3>4 DEF WakeInv
  <2>4. QED
    BY <2>2, <2>3
<1>3. ASSUME NEW w \in Workers, WorkerLoop(w)
      PROVE  WakeInv'
  <2>1. ~m_stop => Coming' = Coming
    BY <1>3 DEF WorkerLoop, Coming, TypeOK
  <2>2. Waiting' = Waiting /\ Pending' = Pending
    BY <1>3 DEF WorkerLoop, Waiting, Pending, TypeOK
  <2>3. BlockedOverEmpty'
    BY <1>3 DEF WorkerLoop, WakeInv, BlockedOverEmpty, TypeOK
  <2>4. QED
    BY <1>3, <2>1, <2>2, <2>3 DEF WorkerLoop, WakeInv, EveryTaskHasAWorker
<1>4. ASSUME NEW w \in Workers, WorkerLock(w)
      PROVE  WakeInv'
  <2>1. Coming' = Coming /\ Waiting' = Waiting /\ Pending' = Pending
    BY <1>4 DEF WorkerLock, Coming, Waiting, Pending, TypeOK
  <2>2. BlockedOverEmpty'
    BY <1>4 DEF WorkerLock, WakeInv, BlockedOverEmpty, TypeOK
  <2>3. QED
    BY <1>4, <2>1, <2>2 DEF WorkerLock, WakeInv, EveryTaskHasAWorker
<1>5. ASSUME NEW w \in Workers,
             WorkerPredFalse(w) \/ WorkerSleep(w) \/ WorkerReturn(w)
      PROVE  WakeInv'
  <2>1. m_tasks = <<>> /\ m_tasks' = <<>>
    BY <1>5 DEF WorkerPredFalse, WorkerSleep, WorkerReturn, WakeInv, BlockedOverEmpty
  <2>2. Cardinality(Coming)' \in Nat /\ Cardinality(Pending)' \in Nat
    <3>1. Coming' \in SUBSET Workers /\ Pending' \in SUBSET Callers
      BY DEF Coming, Pending
    <3>2. QED
      BY <3>1, FS_Subset, FS_CardinalityType, WorkersFinite, CallersFinite
  <2>3. QED
    BY <2>1, <2>2, EmptySeq DEF WakeInv, EveryTaskHasAWorker, BlockedOverEmpty
<1>6. ASSUME NEW w \in Workers, WorkerTake(w)
      PROVE  WakeInv'
  <2>1. w \in Coming /\ Coming' = Coming \ {w}
    BY <1>6 DEF WorkerTake, Coming, TypeOK
  <2>2. Waiting' = Waiting /\ Pending' = Pending
    BY <1>6 DEF WorkerTake, Waiting, Pending, TypeOK
  <2>3. Len(m_tasks') = Len(m_tasks) - 1
    BY <1>6, HeadTailProperties DEF WorkerTake, TypeOK
  <2>4. EveryTaskHasAWorker'
    BY <1>6, <2>1, <2>2, <2>3, <1>len, <1>cnt, <1>rem
       DEF WorkerTake, WakeInv, EveryTaskHasAWorker
  <2>5. BlockedOverEmpty'
    BY <1>6 DEF WorkerTake, WakeInv, BlockedOverEmpty, TypeOK, LockHolder
  <2>6. QED
    BY <2>4, <2>5 DEF WakeInv
<1>7. ASSUME NEW w \in Workers, WorkerFinish(w) \/ SpuriousWakeup(w)
      PROVE  WakeInv'
  <2>1. w \notin Coming /\ Coming' = Coming \cup {w}
    BY <1>7 DEF WorkerFinish, SpuriousWakeup, Coming, TypeOK
  <2>2. Waiting' \subseteq Waiting /\ Pending' = Pending
    BY <1>7 DEF WorkerFinish, SpuriousWakeup, Waiting, Pending, TypeOK
  <2>3. BlockedOverEmpty'
    BY <1>7 DEF WorkerFinish, SpuriousWakeup, WakeInv, BlockedOverEmpty, TypeOK
  <2>4. EveryTaskHasAWorker'
    BY <1>7, <2>1, <2>2, <1>len, <1>cnt, <1>add
       DEF WorkerFinish, SpuriousWakeup, WakeInv, EveryTaskHasAWorker
  <2>5. QED
    BY <2>3, <2>4 DEF WakeInv
<1>8. CASE ShutdownStop \/ ShutdownStep
  <2>1. m_stop' = TRUE
    BY <1>8 DEF ShutdownStop, ShutdownStep, ShutdownNotifyAll, ShutdownJoin,
                StopInv, TypeOK
  <2>2. BlockedOverEmpty'
    BY <1>8 DEF ShutdownStop, ShutdownStep, ShutdownNotifyAll, ShutdownJoin,
                WakeInv, BlockedOverEmpty, TypeOK
  <2>3. QED
    BY <2>1, <2>2 DEF WakeInv, EveryTaskHasAWorker
<1>9. CASE UNCHANGED vars
  BY <1>9 DEF vars, WakeInv, EveryTaskHasAWorker, BlockedOverEmpty, Coming,
              Waiting, Pending
<1>10. QED
  BY <1>1, <1>2, <1>3, <1>4, <1>5, <1>6, <1>7, <1>8, <1>9 DEF Next, WorkerStep

(* No wake-up is lost: in every run, while a worker sleeps and the pool is *)
(* not stopped, every queued task has a worker or a notification coming.   *)
THEOREM NoLostWakeup == Spec => []EveryTaskHasAWorker
<1>1. Init => WakeInv
  <2> SUFFICES ASSUME Init PROVE WakeInv
    OBVIOUS
  <2>1. Waiting = {} /\ BlockedOverEmpty
    BY DEF Init, Waiting, BlockedOverEmpty
  <2>2. QED
    BY <2>1 DEF WakeInv, EveryTaskHasAWorker
<1>2. WakeInv => EveryTaskHasAWorker
  BY DEF WakeInv
<1>3. QED
  BY <1>1, <1>2, WakeStep, TypeCorrect, StopInvariant, PTL DEF Spec
=============================================================================
