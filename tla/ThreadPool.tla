----------------------------- MODULE ThreadPool -----------------------------
(***************************************************************************)
(* The worker pool of src/src/threadpool/thread_pool.cpp: a FIFO of        *)
(* closures m_tasks under m_mutex, one condition variable m_cv, and an     *)
(* atomic flag m_stop that the workers also read without the lock.         *)
(*                                                                         *)
(* A critical section that does not look at the state twice is one step    *)
(* guarded by the mutex being free.  The worker's is not: it evaluates the *)
(* predicate of m_cv.wait, and only later joins the waiters, so the mutex  *)
(* holder is a variable and those are two steps.                           *)
(***************************************************************************)
EXTENDS Integers, Sequences, FiniteSets

CONSTANTS
  Workers,      \* the threads started by the constructor
  Callers,      \* the threads that call addTask
  Tasks,        \* the closures that are submitted
  Free,         \* value of m_mutex when nobody holds it
  MaxTasks      \* bound: number of addTask calls explored

ASSUME WorkersFinite == IsFiniteSet(Workers) /\ Workers # {}
ASSUME CallersFinite == IsFiniteSet(Callers)
ASSUME FreeIsNoWorker == Free \notin Workers
ASSUME MaxTasksNat == MaxTasks \in Nat

VARIABLES
  m_tasks,      \* the queue
  m_stop,       \* the stop flag
  m_mutex,      \* the worker holding m_mutex, or Free
  wpc,          \* where each worker is in worker()
  apc,          \* where each caller is in addTask()
  spc,          \* where the (single) caller of shutdown() is
  submitted,    \* history: every task pushed, in order
  started       \* history: every task popped to be run, in order

vars == <<m_tasks, m_stop, m_mutex, wpc, apc, spc, submitted, started>>

WorkerPC == {"loop",      \* about to test while(!m_stop)
             "lock",      \* wants m_mutex: first entry, or woken in m_cv.wait
             "pred",      \* holds m_mutex, about to evaluate the predicate
             "block",     \* holds m_mutex, predicate was false
             "waiting",   \* released m_mutex and sleeps on m_cv
             "run",       \* runs task()
             "exited"}

-----------------------------------------------------------------------------
Init ==
  /\ m_tasks = <<>>
  /\ m_stop = FALSE
  /\ m_mutex = Free
  /\ wpc = [w \in Workers |-> "loop"]
  /\ apc = [c \in Callers |-> "idle"]
  /\ spc = "idle"
  /\ submitted = <<>>
  /\ started = <<>>

Waiting == {w \in Workers : wpc[w] = "waiting"}

(* Slips in thread_pool.cpp that the properties below must notice; each     *)
(* stands for the action or helper it is named after.                       *)

(* the notification is forgotten *)
WakeNone == wpc' = wpc

(* notify only when the queue was empty *)
AddTaskNotifyIfFirst(c, t) ==
  /\ apc[c] = "idle"
  /\ Len(submitted) < MaxTasks
  /\ m_mutex = Free
  /\ m_tasks' = Append(m_tasks, t)
  /\ submitted' = Append(submitted, t)
  /\ apc' = [apc EXCEPT ![c] = IF m_tasks = <<>> THEN "notify" ELSE "idle"]
  /\ UNCHANGED <<m_stop, m_mutex, wpc, spc, started>>

(* the worker sleeps without giving the mutex back *)
WorkerSleepLocked(w) ==
  /\ wpc[w] = "block"
  /\ wpc' = [wpc EXCEPT ![w] = "waiting"]
  /\ UNCHANGED <<m_tasks, m_stop, m_mutex, apc, spc, submitted, started>>

(* pop() is forgotten *)
WorkerTakeNoPop(w) ==
  /\ wpc[w] = "pred"
  /\ m_tasks # <<>>
  /\ started' = Append(started, Head(m_tasks))
  /\ m_mutex' = Free
  /\ wpc' = [wpc EXCEPT ![w] = "run"]
  /\ UNCHANGED <<m_tasks, m_stop, apc, spc, submitted>>

(* m_stop is atomic, so the lock looks unnecessary *)
ShutdownStopUnlocked ==
  /\ spc = "idle"
  /\ m_stop' = TRUE
  /\ spc' = "notify"
  /\ UNCHANGED <<m_tasks, m_mutex, wpc, apc, submitted, started>>

(* notify_all is forgotten: only idle workers with work would wake *)
ShutdownNoNotify ==
  /\ spc = "notify"
  /\ spc' = "join"
  /\ UNCHANGED <<m_tasks, m_stop, m_mutex, wpc, apc, submitted, started>>

-----------------------------------------------------------------------------
(* m_cv.notify_one() without its predicate re-check: one sleeper, if any,  *)
(* goes for the mutex.                                                     *)
WakeOne ==
  \/ /\ Waiting = {}
     /\ wpc' = wpc
  \/ \E w \in Waiting : wpc' = [wpc EXCEPT ![w] = "lock"]

(* addTask: push under the lock ...                                        *)
AddTask(c, t) ==
  /\ apc[c] = "idle"
  /\ Len(submitted) < MaxTasks
  /\ m_mutex = Free
  /\ m_tasks' = Append(m_tasks, t)
  /\ submitted' = Append(submitted, t)
  /\ apc' = [apc EXCEPT ![c] = "notify"]
  /\ UNCHANGED <<m_stop, m_mutex, wpc, spc, started>>

(* ... and notify_one after the lock is released.                          *)
AddTaskNotify(c) ==
  /\ apc[c] = "notify"
  /\ apc' = [apc EXCEPT ![c] = "idle"]
  /\ WakeOne
  /\ UNCHANGED <<m_tasks, m_stop, m_mutex, spc, submitted, started>>

-----------------------------------------------------------------------------
(* while(!m_stop), read without the lock.                                  *)
WorkerLoop(w) ==
  /\ wpc[w] = "loop"
  /\ wpc' = [wpc EXCEPT ![w] = IF m_stop THEN "exited" ELSE "lock"]
  /\ UNCHANGED <<m_tasks, m_stop, m_mutex, apc, spc, submitted, started>>

(* The unique_lock on entry, and the re-lock inside m_cv.wait.             *)
WorkerLock(w) ==
  /\ wpc[w] = "lock"
  /\ m_mutex = Free
  /\ m_mutex' = w
  /\ wpc' = [wpc EXCEPT ![w] = "pred"]
  /\ UNCHANGED <<m_tasks, m_stop, apc, spc, submitted, started>>

(* The predicate is false: the worker is going to sleep ...                *)
WorkerPredFalse(w) ==
  /\ wpc[w] = "pred"
  /\ ~m_stop
  /\ m_tasks = <<>>
  /\ wpc' = [wpc EXCEPT ![w] = "block"]
  /\ UNCHANGED <<m_tasks, m_stop, m_mutex, apc, spc, submitted, started>>

(* ... and does: joining the waiters and unlocking are one step of m_cv.   *)
WorkerSleep(w) ==
  /\ wpc[w] = "block"
  /\ m_mutex' = Free
  /\ wpc' = [wpc EXCEPT ![w] = "waiting"]
  /\ UNCHANGED <<m_tasks, m_stop, apc, spc, submitted, started>>

(* if(m_stop && m_tasks.empty()) return;                                   *)
WorkerReturn(w) ==
  /\ wpc[w] = "pred"
  /\ m_stop
  /\ m_tasks = <<>>
  /\ m_mutex' = Free
  /\ wpc' = [wpc EXCEPT ![w] = "exited"]
  /\ UNCHANGED <<m_tasks, m_stop, apc, spc, submitted, started>>

(* Take the front task and unlock; a stopped pool still gets here once per *)
(* worker when the queue is not empty.                                     *)
WorkerTake(w) ==
  /\ wpc[w] = "pred"
  /\ m_tasks # <<>>
  /\ started' = Append(started, Head(m_tasks))
  /\ m_tasks' = Tail(m_tasks)
  /\ m_mutex' = Free
  /\ wpc' = [wpc EXCEPT ![w] = "run"]
  /\ UNCHANGED <<m_stop, apc, spc, submitted>>

(* task() returns and the loop condition is next.                          *)
WorkerFinish(w) ==
  /\ wpc[w] = "run"
  /\ wpc' = [wpc EXCEPT ![w] = "loop"]
  /\ UNCHANGED <<m_tasks, m_stop, m_mutex, apc, spc, submitted, started>>

(* A condition variable may wake without a notification.                   *)
SpuriousWakeup(w) ==
  /\ wpc[w] = "waiting"
  /\ wpc' = [wpc EXCEPT ![w] = "lock"]
  /\ UNCHANGED <<m_tasks, m_stop, m_mutex, apc, spc, submitted, started>>

-----------------------------------------------------------------------------
(* shutdown: set m_stop under the lock, notify_all outside it, join all.   *)
ShutdownStop ==
  /\ spc = "idle"
  /\ m_mutex = Free
  /\ m_stop' = TRUE
  /\ spc' = "notify"
  /\ UNCHANGED <<m_tasks, m_mutex, wpc, apc, submitted, started>>

ShutdownNotifyAll ==
  /\ spc = "notify"
  /\ wpc' = [w \in Workers |-> IF wpc[w] = "waiting" THEN "lock" ELSE wpc[w]]
  /\ spc' = "join"
  /\ UNCHANGED <<m_tasks, m_stop, m_mutex, apc, submitted, started>>

ShutdownJoin ==
  /\ spc = "join"
  /\ \A w \in Workers : wpc[w] = "exited"
  /\ spc' = "done"
  /\ UNCHANGED <<m_tasks, m_stop, m_mutex, wpc, apc, submitted, started>>

-----------------------------------------------------------------------------
WorkerStep(w) ==
  \/ WorkerLoop(w)
  \/ WorkerPredFalse(w)
  \/ WorkerSleep(w)
  \/ WorkerReturn(w)
  \/ WorkerTake(w)
  \/ WorkerFinish(w)

ShutdownStep == ShutdownNotifyAll \/ ShutdownJoin

Next ==
  \/ \E c \in Callers : AddTaskNotify(c) \/ \E t \in Tasks : AddTask(c, t)
  \/ \E w \in Workers : WorkerStep(w) \/ WorkerLock(w) \/ SpuriousWakeup(w)
  \/ ShutdownStop
  \/ ShutdownStep

(* Every thread keeps running, task() returns, and a thread that finds the *)
(* mutex free again and again gets it.  Nobody is obliged to submit a task *)
(* or to call shutdown, and no spurious wake-up may be relied on.          *)
Fairness ==
  /\ \A w \in Workers : WF_vars(WorkerStep(w)) /\ SF_vars(WorkerLock(w))
  /\ \A c \in Callers : WF_vars(AddTaskNotify(c))
  /\ WF_vars(ShutdownStep)

Spec == Init /\ [][Next]_vars
FairSpec == Spec /\ Fairness

-----------------------------------------------------------------------------
(* The mutex is held by exactly the worker that is awake inside the block    *)
(* of lines 49-63.                                                          *)
LockHolder ==
  \A w \in Workers : m_mutex = w <=> wpc[w] \in {"pred", "block"}

(* Types of the members of ThreadPool and of the threads' positions, and    *)
(* the ownership of the mutex they imply.                                   *)
TypeOK ==
  /\ m_tasks \in Seq(Tasks)
  /\ m_stop \in BOOLEAN
  /\ m_mutex \in Workers \cup {Free}
  /\ wpc \in [Workers -> WorkerPC]
  /\ apc \in [Callers -> {"idle", "notify"}]
  /\ spc \in {"idle", "notify", "join", "done"}
  /\ submitted \in Seq(Tasks)
  /\ started \in Seq(Tasks)
  /\ LockHolder

(* Whatever the interleaving of addTask, worker() and shutdown(), the tasks *)
(* that were taken followed by those still queued are the submitted ones in *)
(* submission order: nothing is lost, taken twice or reordered (lines 21,   *)
(* 61-62), stopping included.                                               *)
TakenInOrder == started \o m_tasks = submitted

(* Workers on their way to the predicate of m_cv.wait, and the addTask      *)
(* calls whose notify_one is still to come.                                 *)
Coming == {w \in Workers : wpc[w] \in {"loop", "lock", "pred"}}
Pending == {c \in Callers : apc[c] = "notify"}

(* No lost wake-up: while the pool is not stopped and some worker sleeps,   *)
(* every queued task has a worker or a notification of its own on the way.  *)
(* This is why notify_one after the unlock (line 24) is enough.             *)
EveryTaskHasAWorker ==
  ~m_stop /\ Waiting # {} =>
    Len(m_tasks) <= Cardinality(Coming) + Cardinality(Pending)

(* Once shutdown has called notify_all (line 32) no worker sleeps and none  *)
(* is about to: the flag is set under the lock (lines 29-30) exactly so     *)
(* that no worker is between its predicate and its sleep.                   *)
NoSleeperAfterStop ==
  spc \in {"join", "done"} =>
    \A w \in Workers : wpc[w] \notin {"block", "waiting"}

(* shutdown() returns: every worker is joined, whatever is still queued.    *)
ShutdownReturns == m_stop ~> spc = "done"

(* A submitted task is started, unless the pool is stopped first.           *)
TaskServed ==
  \A n \in 1..MaxTasks :
    Len(submitted) >= n ~> (Len(started) >= n \/ m_stop)

=============================================================================
