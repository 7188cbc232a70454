----------------------------- MODULE SqlConnPool -----------------------------
(***************************************************************************)
(* src/src/db and the two DAOs that write: worker threads borrow MYSQL     *)
(* handles from a blocking pool through SqlConnRAII, insert a row, with    *)
(* SqlTransaction (TextTxDao) or without (UserDao), and give the handle    *)
(* back in the destructor.  MySQL is external: per handle a session that   *)
(* may hold an open transaction, and one table.                            *)
(*                                                                         *)
(* The pool's critical sections look at the state once, so each is a step. *)
(* A C++ exception reaches no handler, so throwing ends the process.       *)
(* NetServer::shutdown drains the pool before it stops the threads; the    *)
(* pool is drained again by the destructor of the singleton.               *)
(***************************************************************************)
EXTENDS Integers, Sequences, FiniteSets, SequencesExt

CONSTANTS
  Workers,      \* threads of the thread pool
  Handles,      \* the conn_size handles made by init
  TxRequests,   \* requests served by TextTxDao::insertUser
  AutoRequests, \* requests served by UserDao::insertUser
  None,
  MayLose,      \* MySQL may drop a connection
  MayShutdown   \* a signal may stop the server

Requests == TxRequests \cup AutoRequests

ASSUME SetsFinite == IsFiniteSet(Workers) /\ IsFiniteSet(Handles)
ASSUME NoneIsNothing == None \notin Handles \cup Requests
ASSUME OneDao == TxRequests \cap AutoRequests = {}
ASSUME FlagsBoolean == MayLose \in BOOLEAN /\ MayShutdown \in BOOLEAN

VARIABLES
  m_conn_queue, \* the free handles
  m_free_conn,  \* their number
  pc,           \* where each worker is in its request
  req,          \* the request it serves
  conn,         \* the handle it holds
  result,       \* what the DAO will return: "none", "ok", "failed"
  session,      \* per handle, at MySQL: alive?, transaction open?, its rows
  closed,       \* handles passed to mysql_close
  table,        \* the committed rows, each named by its request
  todo,         \* requests no worker has taken
  reply,        \* per request: "none", "ok", "failed"
  main          \* the main thread: see MainPC

vars == <<m_conn_queue, m_free_conn, pc, req, conn, result, session, closed,
          table, todo, reply, main>>
pool == <<m_conn_queue, m_free_conn, closed>>
work == <<pc, req, conn, result>>
mysql == <<session, table>>

WorkerPC == {"idle", "get", "sleep", "begin", "insert", "decide", "commit",
             "rollback", "release", "reply", "exited"}
MainPC == {"running",     \* serves
           "drained",     \* SqlConnPool::shutdown has returned
           "stopping",    \* m_stop is set, joining the workers
           "exited",      \* the process has ended after ~SqlConnPool
           "terminated"}  \* an exception ended it

Session == [up : BOOLEAN, tx : BOOLEAN, rows : SUBSET Requests]
NoTx == [up |-> TRUE, tx |-> FALSE, rows |-> {}]
InTx(rows) == [up |-> TRUE, tx |-> TRUE, rows |-> rows]
Dead == [up |-> FALSE, tx |-> FALSE, rows |-> {}]

Alive == main \notin {"exited", "terminated"}

Init ==
  /\ m_conn_queue \in SetToSeqs(Handles)
  /\ m_free_conn = Len(m_conn_queue)
  /\ pc = [w \in Workers |-> "idle"]
  /\ req = [w \in Workers |-> None]
  /\ conn = [w \in Workers |-> None]
  /\ result = [w \in Workers |-> "none"]
  /\ session = [h \in Handles |-> NoTx]
  /\ closed = {}
  /\ table = {}
  /\ todo = Requests
  /\ reply = [r \in Requests |-> "none"]
  /\ main = "running"

-----------------------------------------------------------------------------
(* An exception leaves the thread function: std::terminate.  MySQL rolls   *)
(* back every open transaction of the dead client.                         *)
Terminate ==
  /\ main' = "terminated"
  /\ session' = [h \in Handles |-> Dead]
  /\ UNCHANGED <<pool, work, todo, reply>>

(* A worker takes a request; a worker that waits for a task takes one even *)
(* if m_stop is set meanwhile.                                             *)
Start(w, r) ==
  /\ Alive /\ pc[w] = "idle" /\ r \in todo
  /\ todo' = todo \ {r}
  /\ req' = [req EXCEPT ![w] = r]
  /\ pc' = [pc EXCEPT ![w] = "get"]
  /\ UNCHANGED <<pool, conn, result, mysql, reply, main>>

(* getConn with a free handle.                                             *)
GetConn(w) ==
  /\ Alive /\ pc[w] = "get" /\ m_conn_queue # <<>>
  /\ conn' = [conn EXCEPT ![w] = Head(m_conn_queue)]
  /\ m_conn_queue' = Tail(m_conn_queue)
  /\ m_free_conn' = m_free_conn - 1
  /\ pc' = [pc EXCEPT ![w] = IF req[w] \in TxRequests THEN "begin" ELSE "insert"]
  /\ UNCHANGED <<req, result, closed, mysql, todo, reply, main>>

(* getConn without one: m_cond.wait.                                       *)
GetWait(w) ==
  /\ Alive /\ pc[w] = "get" /\ m_conn_queue = <<>>
  /\ pc' = [pc EXCEPT ![w] = "sleep"]
  /\ UNCHANGED <<pool, req, conn, result, mysql, todo, reply, main>>

(* m_cond.wait may return without a notification.                          *)
Spurious(w) ==
  /\ Alive /\ pc[w] = "sleep"
  /\ pc' = [pc EXCEPT ![w] = "get"]
  /\ UNCHANGED <<pool, req, conn, result, mysql, todo, reply, main>>

(* SqlTransaction::begin.  START TRANSACTION commits what a transaction    *)
(* already open in the session did; on a dead connection it throws.        *)
Begin(w) ==
  LET h == conn[w] IN
  /\ Alive /\ pc[w] = "begin"
  /\ IF session[h].up
     THEN /\ session' = [session EXCEPT ![h] = InTx({})]
          /\ table' = table \cup session[h].rows
          /\ pc' = [pc EXCEPT ![w] = "insert"]
          /\ UNCHANGED <<pool, req, conn, result, todo, reply, main>>
     ELSE Terminate /\ UNCHANGED table

(* Where a DAO goes with false in its hands: a transaction's destructor    *)
(* runs first.                                                             *)
Unwind(w) == IF req[w] \in TxRequests THEN "rollback" ELSE "release"

(* prepare/execute or mysql_query succeed: the row joins the open          *)
(* transaction, or is committed on its own.                                *)
Insert(w) ==
  LET h == conn[w] IN
  /\ Alive /\ pc[w] = "insert" /\ session[h].up
  /\ IF session[h].tx
     THEN /\ session' = [session EXCEPT ![h] = InTx(session[h].rows \cup {req[w]})]
          /\ UNCHANGED table
     ELSE table' = table \cup {req[w]} /\ UNCHANGED session
  /\ \/ /\ req[w] \in TxRequests
        /\ pc' = [pc EXCEPT ![w] = "decide"]
        /\ UNCHANGED result
     \/ /\ req[w] \in AutoRequests
        /\ pc' = [pc EXCEPT ![w] = "release"]
        /\ result' = [result EXCEPT ![w] = "ok"]
  /\ UNCHANGED <<pool, req, conn, todo, reply, main>>

(* They fail: MySQL refuses the statement, or the connection is dead.      *)
InsertFails(w) ==
  /\ Alive /\ pc[w] = "insert"
  /\ result' = [result EXCEPT ![w] = "failed"]
  /\ pc' = [pc EXCEPT ![w] = Unwind(w)]
  /\ UNCHANGED <<pool, req, conn, mysql, todo, reply, main>>

(* The connection dies after an autocommitted INSERT and before its        *)
(* answer: the caller sees a failure.                                      *)
InsertAnswerLost(w) ==
  LET h == conn[w] IN
  /\ Alive /\ pc[w] = "insert" /\ MayLose
  /\ session[h].up /\ ~session[h].tx
  /\ table' = table \cup {req[w]}
  /\ session' = [session EXCEPT ![h] = Dead]
  /\ result' = [result EXCEPT ![w] = "failed"]
  /\ pc' = [pc EXCEPT ![w] = Unwind(w)]
  /\ UNCHANGED <<pool, req, conn, todo, reply, main>>

(* TextTxDao: the business check refuses the row, or goes on to commit.    *)
Decide(w) ==
  /\ Alive /\ pc[w] = "decide"
  /\ \/ /\ result' = [result EXCEPT ![w] = "failed"]
        /\ pc' = [pc EXCEPT ![w] = "rollback"]
     \/ /\ pc' = [pc EXCEPT ![w] = "commit"]
        /\ UNCHANGED result
  /\ UNCHANGED <<pool, req, conn, mysql, todo, reply, main>>

(* SqlTransaction::commit; the destructor then finds m_committed set.      *)
Commit(w) ==
  LET h == conn[w] IN
  /\ Alive /\ pc[w] = "commit" /\ session[h].up
  /\ table' = table \cup session[h].rows
  /\ session' = [session EXCEPT ![h] = NoTx]
  /\ result' = [result EXCEPT ![w] = "ok"]
  /\ pc' = [pc EXCEPT ![w] = "release"]
  /\ UNCHANGED <<pool, req, conn, todo, reply, main>>

(* Slip: the error of mysql_commit is logged and not thrown.               *)
CommitFailsSilently(w) ==
  /\ Alive /\ pc[w] = "commit" /\ ~session[conn[w]].up
  /\ result' = [result EXCEPT ![w] = "ok"]
  /\ pc' = [pc EXCEPT ![w] = "release"]
  /\ UNCHANGED <<pool, req, conn, mysql, todo, reply, main>>

(* mysql_commit on a dead connection: an exception.                        *)
CommitFails(w) ==
  /\ Alive /\ pc[w] = "commit" /\ ~session[conn[w]].up
  /\ Terminate
  /\ UNCHANGED table

(* MySQL commits but the answer is lost: the same exception.               *)
CommitAnswerLost(w) ==
  /\ Alive /\ pc[w] = "commit" /\ session[conn[w]].up /\ MayLose
  /\ Terminate
  /\ table' = table \cup session[conn[w]].rows

(* Slip: the destructor of SqlTransaction does not roll back.              *)
RollbackForgotten(w) ==
  /\ Alive /\ pc[w] = "rollback"
  /\ pc' = [pc EXCEPT ![w] = "release"]
  /\ UNCHANGED <<pool, req, conn, result, mysql, todo, reply, main>>

(* ~SqlTransaction without a commit; an error is only logged.              *)
Rollback(w) ==
  /\ Alive /\ pc[w] = "rollback"
  /\ session' = [session EXCEPT ![conn[w]] = IF session[conn[w]].up THEN NoTx ELSE Dead]
  /\ pc' = [pc EXCEPT ![w] = "release"]
  /\ UNCHANGED <<pool, req, conn, result, table, todo, reply, main>>

Sleepers == {w \in Workers : pc[w] = "sleep"}

(* m_cond.notify_one, by a worker that goes on to its reply.               *)
NotifyOne(w) ==
  IF Sleepers = {} THEN pc' = [pc EXCEPT ![w] = "reply"]
  ELSE \E s \in Sleepers : pc' = [pc EXCEPT ![w] = "reply", ![s] = "get"]

(* Slip: releaseConn notifies only when the queue was empty.               *)
ReleaseNotifyIfFirst(w) ==
  /\ Alive /\ pc[w] = "release"
  /\ m_conn_queue' = Append(m_conn_queue, conn[w])
  /\ m_free_conn' = m_free_conn + 1
  /\ conn' = [conn EXCEPT ![w] = None]
  /\ IF m_conn_queue = <<>> THEN NotifyOne(w) ELSE pc' = [pc EXCEPT ![w] = "reply"]
  /\ UNCHANGED <<req, result, closed, mysql, todo, reply, main>>

(* Slip: the handle is returned, and kept in m_conn.                       *)
ReleaseKept(w) ==
  /\ Alive /\ pc[w] = "release"
  /\ m_conn_queue' = Append(m_conn_queue, conn[w])
  /\ m_free_conn' = m_free_conn + 1
  /\ NotifyOne(w)
  /\ UNCHANGED <<req, conn, result, closed, mysql, todo, reply, main>>

(* ~SqlConnRAII: releaseConn.                                              *)
Release(w) ==
  /\ Alive /\ pc[w] = "release"
  /\ m_conn_queue' = Append(m_conn_queue, conn[w])
  /\ m_free_conn' = m_free_conn + 1
  /\ conn' = [conn EXCEPT ![w] = None]
  /\ NotifyOne(w)
  /\ UNCHANGED <<req, result, closed, mysql, todo, reply, main>>

(* The controller answers; the worker tests m_stop for its next turn.      *)
Reply(w) ==
  /\ Alive /\ pc[w] = "reply"
  /\ reply' = [reply EXCEPT ![req[w]] = result[w]]
  /\ req' = [req EXCEPT ![w] = None]
  /\ result' = [result EXCEPT ![w] = "none"]
  /\ pc' = [pc EXCEPT ![w] = IF main = "stopping" THEN "exited" ELSE "idle"]
  /\ UNCHANGED <<pool, conn, mysql, todo, main>>

(* A worker without a task sees m_stop.                                    *)
WorkerExit(w) ==
  /\ main = "stopping" /\ pc[w] = "idle"
  /\ pc' = [pc EXCEPT ![w] = "exited"]
  /\ UNCHANGED <<pool, req, conn, result, mysql, todo, reply, main>>

(* MySQL drops a connection (timeout, restart): its transaction is rolled  *)
(* back, and nothing in the pool ever connects again.                      *)
ConnLost(h) ==
  /\ MayLose /\ Alive /\ session[h].up
  /\ session' = [session EXCEPT ![h] = Dead]
  /\ UNCHANGED <<pool, work, table, todo, reply, main>>

(* Slip: shutdown closes every handle it made, the borrowed ones too.      *)
DrainAll ==
  /\ closed' = Handles
  /\ m_conn_queue' = <<>>
  /\ m_free_conn' = 0

(* SqlConnPool::shutdown: close what is in the queue, wake nobody.         *)
Drain ==
  /\ closed' = closed \cup ToSet(m_conn_queue)
  /\ m_conn_queue' = <<>>
  /\ m_free_conn' = 0

(* NetServer::shutdown, up to the pool.                                    *)
ShutdownPool ==
  /\ MayShutdown /\ main = "running"
  /\ Drain
  /\ main' = "drained"
  /\ UNCHANGED <<work, mysql, todo, reply>>

(* ThreadPool::shutdown sets m_stop and starts to join.                    *)
StopThreads ==
  /\ main = "drained"
  /\ main' = "stopping"
  /\ UNCHANGED <<pool, work, mysql, todo, reply>>

(* Every worker is joined; main returns and ~SqlConnPool drains again.     *)
Exit ==
  /\ main = "stopping"
  /\ \A w \in Workers : pc[w] = "exited"
  /\ Drain
  /\ main' = "exited"
  /\ UNCHANGED <<work, mysql, todo, reply>>

WorkerStep(w) ==
  \/ GetConn(w) \/ GetWait(w) \/ Begin(w) \/ Insert(w) \/ InsertFails(w)
  \/ InsertAnswerLost(w) \/ Decide(w) \/ Commit(w) \/ CommitFails(w)
  \/ CommitAnswerLost(w) \/ Rollback(w) \/ Release(w) \/ Reply(w) \/ WorkerExit(w)

Main == ShutdownPool \/ StopThreads \/ Exit

Next ==
  \/ \E w \in Workers, r \in Requests : Start(w, r)
  \/ \E w \in Workers : WorkerStep(w) \/ Spurious(w)
  \/ \E h \in Handles : ConnLost(h)
  \/ Main

Spec == Init /\ [][Next]_vars

(* Threads are scheduled fairly and every MySQL call returns.  No fairness  *)
(* for signals, lost connections, spurious wake-ups and new requests.       *)
FairSpec ==
  /\ Spec
  /\ \A w \in Workers : WF_vars(WorkerStep(w))
  /\ WF_vars(StopThreads \/ Exit)

-----------------------------------------------------------------------------
Holding == {"begin", "insert", "decide", "commit", "rollback", "release"}

(* Types; a worker has a handle exactly between getConn and releaseConn,    *)
(* and a request exactly between its start and its reply.                   *)
TypeOK ==
  /\ m_conn_queue \in Seq(Handles)
  /\ m_free_conn \in Int
  /\ pc \in [Workers -> WorkerPC]
  /\ req \in [Workers -> Requests \cup {None}]
  /\ conn \in [Workers -> Handles \cup {None}]
  /\ result \in [Workers -> {"none", "ok", "failed"}]
  /\ session \in [Handles -> Session]
  /\ closed \subseteq Handles
  /\ table \subseteq Requests
  /\ todo \subseteq Requests
  /\ reply \in [Requests -> {"none", "ok", "failed"}]
  /\ main \in MainPC
  /\ \A w \in Workers : (conn[w] # None) <=> (pc[w] \in Holding)
  /\ \A w \in Workers : (req[w] # None) <=> (pc[w] \notin {"idle", "exited"})

(* A handle is in one place: the queue, one worker or among the closed.     *)
OnePlace ==
  /\ m_free_conn = Len(m_conn_queue)
  /\ \A i, j \in DOMAIN m_conn_queue : m_conn_queue[i] = m_conn_queue[j] => i = j
  /\ \A v, w \in Workers : conn[v] = conn[w] => v = w \/ conn[v] = None
  /\ \A h \in Handles :
       LET queued == h \in ToSet(m_conn_queue)
           held == \E w \in Workers : conn[w] = h
       IN  /\ queued \/ held \/ h \in closed
           /\ ~(queued /\ held) /\ ~(queued /\ h \in closed) /\ ~(held /\ h \in closed)

(* Every handle is in the queue once, with one worker, or closed, and never *)
(* two of these; m_free_conn counts the queue, also after shutdown, when    *)
(* borrowed handles come back (getConn, releaseConn, shutdown); and a       *)
(* process that ends in order has closed them all, those returned after the *)
(* shutdown included (the destructor, which drains once more).              *)
HandlesAccounted == OnePlace /\ (main = "exited" => closed = Handles)

(* An open transaction belongs to the worker that has the handle and holds  *)
(* that worker's row only: nobody borrows a handle with somebody else's     *)
(* transaction in it (the destructors' order in TextTxDao::insertUser).     *)
TxBelongsToHolder ==
  \A h \in Handles : session[h].tx =>
    \E w \in Workers : /\ conn[w] = h
                       /\ pc[w] \in {"insert", "decide", "commit", "rollback"}
                       /\ session[h].rows \subseteq {req[w]}

(* What a client is told is what the table says: "committed" rows are       *)
(* there, and rows of a transaction that "failed, rolled back" are not,     *)
(* whatever connections die and whoever uses the handle next.               *)
ReplyTruthful ==
  /\ \A r \in Requests : reply[r] = "ok" => r \in table
  /\ \A r \in TxRequests : reply[r] = "failed" => r \notin table

(* A free handle and a worker asleep for want of one: then enough workers   *)
(* are on their way to take what is free (notify_one in releaseConn).       *)
NoLostWaiter ==
  Sleepers # {} => Len(m_conn_queue) <= Cardinality({w \in Workers : pc[w] = "get"})

(* The shutdown of the server comes to its end.                             *)
ShutdownCompletes == (main = "drained") ~> ~Alive
==============================================================================
