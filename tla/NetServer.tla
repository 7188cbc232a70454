------------------------------ MODULE NetServer ------------------------------
(***************************************************************************)
(* The event loop of src/src/net/net_server.cpp with the HTTP connections  *)
(* of src/src/conn/http/http_conn.cpp that it drives: the main thread      *)
(* (epoll_wait, timer tick, dispatch), the worker threads that run the     *)
(* closures of handleReadEvent and handleWriteEvent, the epoll interest    *)
(* list with EPOLLONESHOT, the descriptor table with reuse of descriptor   *)
(* numbers, m_users, the connection timers, and the clients.               *)
(*                                                                         *)
(* A request comes in fragments; what it says is abstracted to the outcome *)
(* of process().  A connection identity stands for one client socket and   *)
(* for the HttpConn created for it.                                        *)
(***************************************************************************)
EXTENDS Integers, Sequences, FiniteSets, SequencesExt

CONSTANTS
  Conns,          \* client connections, one HttpConn each
  Fds,            \* descriptor numbers the kernel hands out
  Workers,        \* threads of the pool
  None,           \* no connection / no descriptor (-1)
  ActorModels,    \* values of m_actor_model: TRUE = Reactor, workers read;
                  \* FALSE = Proactor, the main thread reads
  TrigModes,      \* values of m_trig_mode: TRUE = edge triggered; decides how
                  \* HttpConn::read treats the end of file
  Fragments,      \* a client sends a request in this many pieces
  MayExpire,      \* connection timers may run out
  MayFail,        \* process() may find a request malformed, its response too
                  \* large for m_write_buf, or fail to build one
  MaySignal       \* SIGINT or SIGTERM may arrive

ASSUME NoneIsNothing == None \notin Conns /\ None \notin Fds /\ None \notin Workers
ASSUME SomeFragments == Fragments \in Nat \ {0}
ASSUME Modes ==
  {MayExpire, MayFail, MaySignal} \cup ActorModels \cup TrigModes \subseteq BOOLEAN

VARIABLES
  \* configuration, set once
  m_actor_model, m_trig_mode,
  \* the kernel
  owner,        \* owner[f]: the connection whose socket descriptor f is
  interest,     \* interest[f]: "none" (not in epoll), "off" (disarmed), "in", "out"
  \* the clients
  cst,          \* "new", "backlog" (connected, not accepted), "accepted"
  sent,         \* fragments of its request that the client has sent; more than
                \* Fragments: it was answered in the middle of a request and
                \* has lost count of what belongs to which
  inb,          \* fragments in the socket that the server has not received
  eof,          \* the client has closed its side
  \* HttpConn
  m_sockfd,     \* descriptor, or None
  m_is_closed,
  got,          \* fragments in m_read_buf
  parsed,       \* process() has seen a part of this request: a connection
                \* header in it has set keep-alive
  resp,         \* "none", or the built response: "keep" alive or "close"
  \* NetServer
  m_users,      \* descriptor -> connection
  timers,       \* the live timers' descriptors, earliest deadline first
  mpc,          \* where the main thread is
  batch,        \* events of the last epoll_wait not yet dispatched
  mfd, mconn,   \* the handler's fd and conn
  m_is_running,
  sig,          \* "no", "pending" (in the pipe) or "read"
  \* ThreadPool
  m_tasks,      \* queue of [kind, fd, conn]
  m_stop,
  wpc,          \* where each worker is: "idle", a step of a closure, "exited"
  job,          \* job[w]: the task worker w runs
  wconn,        \* wconn[w]: the local conn of closeConnection
  \* history
  raced         \* a connection was closed while something still referred to
                \* it, or its number given out while a closure was to re-arm it

modes == <<m_actor_model, m_trig_mode>>
kernel == <<owner, interest>>
client == <<cst, sent, inb, eof>>
conn == <<m_sockfd, m_is_closed, got, parsed, resp>>
loop == <<mpc, batch, mfd, mconn, m_is_running, sig>>
pool == <<m_tasks, m_stop, wpc, job, wconn>>
vars == <<modes, kernel, client, conn, m_users, timers, loop, pool, raced>>

Task == [kind : {"read", "process", "write"}, fd : Fds, conn : Conns]
NoTask == [kind |-> "none", fd |-> None, conn |-> None]
Event == [fd : Fds, ev : {"in", "out"}]
ListenEvent == [fd |-> None, ev |-> "listen"]
SignalEvent == [fd |-> None, ev |-> "signal"]

MainPC == {"wait", "tick", "tickclose", "dispatch", "accepted", "installed",
           "read", "erase", "close", "join", "stopped"}
WorkerPC == {"idle", "read", "process", "callback", "modout", "modin", "check",
             "refresh", "write", "rewrite", "init", "erase", "close", "done",
             "exited"}

Init ==
  /\ m_actor_model \in ActorModels
  /\ m_trig_mode \in TrigModes
  /\ owner = [f \in Fds |-> None]
  /\ interest = [f \in Fds |-> "none"]
  /\ cst = [c \in Conns |-> "new"]
  /\ sent = [c \in Conns |-> 0]
  /\ inb = [c \in Conns |-> 0]
  /\ eof = [c \in Conns |-> FALSE]
  /\ m_sockfd = [c \in Conns |-> None]
  /\ m_is_closed = [c \in Conns |-> FALSE]
  /\ got = [c \in Conns |-> 0]
  /\ parsed = [c \in Conns |-> FALSE]
  /\ resp = [c \in Conns |-> "none"]
  /\ m_users = [f \in Fds |-> None]
  /\ timers = <<>>
  /\ mpc = "wait"
  /\ batch = {}
  /\ mfd = None
  /\ mconn = None
  /\ m_is_running = TRUE
  /\ sig = "no"
  /\ m_tasks = <<>>
  /\ m_stop = FALSE
  /\ wpc = [w \in Workers |-> "idle"]
  /\ job = [w \in Workers |-> NoTask]
  /\ wconn = [w \in Workers |-> None]
  /\ raced = FALSE

-----------------------------------------------------------------------------
(* Helpers.                                                                *)

QueuedFor(c) == \E i \in 1..Len(m_tasks) : m_tasks[i].conn = c

(* shared_ptrs to c other than those of worker w (None: the main thread).   *)
ReferredBeside(c, w) ==
  \/ \E f \in Fds : m_users[f] = c
  \/ QueuedFor(c)
  \/ \E v \in Workers \ {w} : job[v].conn = c \/ wconn[v] = c
  \/ w # None /\ mconn = c

(* A closure that has not yet re-armed its descriptor or closed it.         *)
Active(w) == wpc[w] \notin {"check", "refresh", "done"}

(* Closing c now leaves a queued or running closure, or an event already    *)
(* fetched, with its descriptor number.                                     *)
Busy(c, w) ==
  \/ QueuedFor(c)
  \/ \E v \in Workers \ {w} : job[v].conn = c
  \/ \E e \in batch : e.fd # None /\ e.fd = m_sockfd[c]

(* HttpConn::closeConn on the connections C, after removeFd of the          *)
(* descriptors D: only the first call closes the descriptor.  The kernel    *)
(* discards what a closed socket holds and its client is out of the game.   *)
(* The objects X cease to exist.                                            *)
CloseConns(C, D, X) ==
  LET closing == {c \in C : ~m_is_closed[c]}
      closed == {m_sockfd[c] : c \in closing} \ {None}
      lost == {owner[f] : f \in closed} \ {None}
  IN /\ owner' = [f \in Fds |-> IF f \in closed THEN None ELSE owner[f]]
     /\ interest' = [f \in Fds |-> IF f \in closed \cup D THEN "none" ELSE interest[f]]
     /\ sent' = [c \in Conns |-> IF c \in lost THEN 0 ELSE sent[c]]
     /\ inb' = [c \in Conns |-> IF c \in lost THEN 0 ELSE inb[c]]
     /\ eof' = [c \in Conns |-> c \in lost \/ eof[c]]
     /\ m_sockfd' = [c \in Conns |-> IF c \in closing THEN None ELSE m_sockfd[c]]
     /\ m_is_closed' = [c \in Conns |-> c \in C \/ m_is_closed[c]]
     /\ got' = [c \in Conns |-> IF c \in X THEN 0 ELSE got[c]]
     /\ parsed' = [c \in Conns |-> c \notin X /\ parsed[c]]
     /\ resp' = [c \in Conns |-> IF c \in X THEN "none" ELSE resp[c]]

(* The connections among C whose last shared_ptr is the one worker w (None: *)
(* the main thread) is about to drop.                                       *)
LastRef(C, w) == {c \in C \ {None} : ~ReferredBeside(c, w)}

(* epoll_ctl(EPOLL_CTL_MOD): fails on a descriptor that is not registered.  *)
ModFd(f, ev) ==
  interest' = IF f \in Fds /\ interest[f] # "none"
              THEN [interest EXCEPT ![f] = ev] ELSE interest

(* Slip: the older timer of the descriptor stays live beside the new one.   *)
RefreshTimerTwice(f) == timers' = Append(timers, f)

(* refreshTimer: every timer has the same length, so the refreshed one is   *)
(* the last to run out.                                                     *)
RefreshTimer(f) == timers' = Append(RemoveFirst(timers, f), f)

(* closeConnection, first half: what it finds under m_users_mtx.            *)
Closable(f) == m_users[f] # None /\ ~m_is_closed[m_users[f]]

(* Slip: end of file counts as a successful read.                           *)
ReadResultEof(c) == m_sockfd[c] # None /\ owner[m_sockfd[c]] # None

(* recv until there is no more: the result of HttpConn::read and the        *)
(* fragments it leaves, for the connection d whose socket m_sockfd is.      *)
ReadResult(c) ==
  LET f == m_sockfd[c]
      d == IF f = None THEN None ELSE owner[f]
  IN  IF d = None THEN FALSE
      ELSE IF m_trig_mode THEN ~eof[d] ELSE inb[d] > 0

HttpRead(c) ==
  LET f == m_sockfd[c]
      d == IF f = None THEN None ELSE owner[f]
  IN  IF d = None THEN UNCHANGED <<inb, got>>
      ELSE /\ got' = [got EXCEPT ![c] = IF @ + inb[d] > Fragments THEN Fragments ELSE @ + inb[d]]
           /\ inb' = [inb EXCEPT ![d] = 0]

-----------------------------------------------------------------------------
(* The clients.                                                            *)

Connect(c) ==
  /\ cst[c] = "new"
  /\ mpc # "stopped"
  /\ cst' = [cst EXCEPT ![c] = "backlog"]
  /\ UNCHANGED <<modes, kernel, sent, inb, eof, conn, m_users, timers, loop, pool,
                 raced>>

(* The client's socket is connected as far as the client can tell.         *)
Connected(c) == cst[c] = "backlog" \/ \E f \in Fds : owner[f] = c

(* A client sends one request at a time, piece by piece.                   *)
Send(c) ==
  /\ Connected(c)
  /\ ~eof[c]
  /\ sent[c] # Fragments /\ inb[c] < Fragments
  /\ sent' = [sent EXCEPT ![c] = IF @ < Fragments THEN @ + 1 ELSE @]
  /\ inb' = [inb EXCEPT ![c] = @ + 1]
  /\ UNCHANGED <<modes, kernel, cst, eof, conn, m_users, timers, loop, pool,
                 raced>>

ClientClose(c) ==
  /\ Connected(c)
  /\ ~eof[c]
  /\ eof' = [eof EXCEPT ![c] = TRUE]
  /\ UNCHANGED <<modes, kernel, cst, sent, inb, conn, m_users, timers, loop, pool,
                 raced>>

(* The signal handler writes to the pipe; if the main thread is in          *)
(* epoll_wait that call may return EINTR, which leads to a tick without     *)
(* events.                                                                  *)
Signal ==
  /\ MaySignal
  /\ sig = "no"
  /\ sig' = "pending"
  /\ mpc' \in IF mpc = "wait" THEN {"wait", "tick"} ELSE {mpc}
  /\ UNCHANGED <<modes, kernel, client, conn, m_users, timers, batch, mfd,
                 mconn, m_is_running, pool, raced>>

-----------------------------------------------------------------------------
(* The main thread.                                                        *)

Ready ==
  {e \in Event :
     /\ owner[e.fd] # None
     /\ interest[e.fd] = e.ev
     /\ e.ev = "in" => inb[owner[e.fd]] > 0 \/ eof[owner[e.fd]]}
  \cup {e \in {ListenEvent} : \E c \in Conns : cst[c] = "backlog"}
  \cup {e \in {SignalEvent} : sig = "pending"}

(* Slip: the connections are registered without EPOLLONESHOT.               *)
EpollWaitNoOneShot ==
  /\ mpc = "wait"
  /\ Ready # {}
  /\ batch' = Ready
  /\ mpc' = "tick"
  /\ UNCHANGED <<modes, kernel, client, conn, m_users, timers, mfd, mconn,
                 m_is_running, sig, pool, raced>>

(* epoll_wait(..., -1): returns all that is ready; EPOLLONESHOT disarms     *)
(* the connections it reports.                                              *)
EpollWait ==
  /\ mpc = "wait"
  /\ Ready # {}
  /\ batch' = Ready
  /\ interest' = [f \in Fds |-> IF \E e \in Ready : e.fd = f THEN "off" ELSE interest[f]]
  /\ mpc' = "tick"
  /\ UNCHANGED <<modes, owner, client, conn, m_users, timers, mfd, mconn,
                 m_is_running, sig, pool, raced>>

(* TimerManager::tick runs closeConnection for each timer that is due, in   *)
(* deadline order, holding the timer mutex from the first to the last.      *)
TickSkip ==
  /\ mpc = "tick"
  /\ MayExpire
  /\ timers # <<>>
  /\ ~Closable(Head(timers))
  /\ timers' = Tail(timers)
  /\ UNCHANGED <<modes, kernel, client, conn, m_users, loop, pool, raced>>

TickErase ==
  /\ mpc = "tick"
  /\ MayExpire
  /\ timers # <<>>
  /\ Closable(Head(timers))
  /\ mfd' = Head(timers)
  /\ mconn' = m_users[Head(timers)]
  /\ m_users' = [m_users EXCEPT ![Head(timers)] = None]
  /\ raced' = (raced \/ Busy(mconn', None))
  /\ mpc' = "tickclose"
  /\ UNCHANGED <<modes, kernel, client, conn, timers, batch, m_is_running, sig,
                 pool>>

TickClose ==
  /\ mpc = "tickclose"
  /\ CloseConns({mconn}, {mfd}, LastRef({mconn}, None))
  /\ timers' = Tail(timers)
  /\ mpc' = "tick"
  /\ mfd' = None
  /\ mconn' = None
  /\ UNCHANGED <<modes, cst, m_users, batch, m_is_running, sig, pool, raced>>

TickEnd ==
  /\ mpc = "tick"
  /\ mpc' = "dispatch"
  /\ UNCHANGED <<modes, kernel, client, conn, m_users, timers, batch, mfd,
                 mconn, m_is_running, sig, pool, raced>>

(* handleNewConnection: accept and addFd(EPOLLIN) ...                       *)
Accept ==
  /\ mpc = "dispatch"
  /\ ListenEvent \in batch
  /\ batch' = batch \ {ListenEvent}
  /\ \E c \in Conns, f \in Fds :
       /\ cst[c] = "backlog"
       /\ owner[f] = None
       /\ m_is_running
       /\ cst' = [cst EXCEPT ![c] = "accepted"]
       /\ owner' = [owner EXCEPT ![f] = c]
       /\ interest' = [interest EXCEPT ![f] = "in"]
       /\ mfd' = f
       /\ mconn' = c
  /\ raced' = (raced \/ \E w \in Workers : job[w].fd = mfd' /\ Active(w))
  /\ mpc' = "accepted"
  /\ UNCHANGED <<modes, sent, inb, eof, conn, m_users, timers, m_is_running, sig,
                 pool>>

(* ... accept fails: no descriptor left, or the listening socket is closed  *)
AcceptFails ==
  /\ mpc = "dispatch"
  /\ ListenEvent \in batch
  /\ (\A f \in Fds : owner[f] # None) \/ ~m_is_running
  /\ batch' = batch \ {ListenEvent}
  /\ UNCHANGED <<modes, kernel, client, conn, m_users, timers, mpc, mfd, mconn,
                 m_is_running, sig, pool, raced>>

(* ... m_users[fd] = conn, which drops the entry that was there ...         *)
InstallConn ==
  /\ mpc = "accepted"
  /\ m_users' = [m_users EXCEPT ![mfd] = mconn]
  /\ LET old == {m_users[mfd]} \ {None}
         dead == {c \in old : /\ ~QueuedFor(c)
                              /\ \A v \in Workers : job[v].conn # c /\ wconn[v] # c}
     IN CloseConns(dead, {}, dead)
  /\ mpc' = "installed"
  /\ UNCHANGED <<modes, cst, timers, batch, mfd, mconn, m_is_running, sig, pool,
                 raced>>

(* HttpConn::init(fd): also what a keep-alive connection is reset with.     *)
HttpInit(c, f) ==
  /\ m_sockfd' = [m_sockfd EXCEPT ![c] = f]
  /\ m_is_closed' = [m_is_closed EXCEPT ![c] = FALSE]
  /\ got' = [got EXCEPT ![c] = 0]
  /\ parsed' = [parsed EXCEPT ![c] = FALSE]
  /\ resp' = [resp EXCEPT ![c] = "none"]

(* Slip: a new connection gets its first timer with its first request.      *)
InitConnNoTimer ==
  /\ mpc = "installed"
  /\ HttpInit(mconn, mfd)
  /\ mpc' = "dispatch"
  /\ mfd' = None
  /\ mconn' = None
  /\ UNCHANGED <<modes, kernel, client, m_users, timers, batch, m_is_running,
                 sig, pool, raced>>

(* ... and conn->init, then refreshTimer.                                   *)
InitConn ==
  /\ mpc = "installed"
  /\ HttpInit(mconn, mfd)
  /\ RefreshTimer(mfd)
  /\ mpc' = "dispatch"
  /\ mfd' = None
  /\ mconn' = None
  /\ UNCHANGED <<modes, kernel, client, m_users, batch, m_is_running, sig, pool,
                 raced>>

(* handleReadEvent and handleWriteEvent on a descriptor without a live      *)
(* connection return; the descriptor stays disarmed.                        *)
DispatchIgnored ==
  /\ mpc = "dispatch"
  /\ \E e \in batch \cap Event :
       /\ ~Closable(e.fd)
       /\ batch' = batch \ {e}
  /\ UNCHANGED <<modes, kernel, client, conn, m_users, timers, mpc, mfd, mconn,
                 m_is_running, sig, pool, raced>>

(* handleWriteEvent, and handleReadEvent of the Reactor: a task.            *)
DispatchTask ==
  /\ mpc = "dispatch"
  /\ \E e \in batch \cap Event :
       /\ Closable(e.fd)
       /\ e.ev = "out" \/ m_actor_model
       /\ batch' = batch \ {e}
       /\ m_tasks' = Append(m_tasks, [kind |-> IF e.ev = "out" THEN "write" ELSE "read",
                                      fd |-> e.fd, conn |-> m_users[e.fd]])
  /\ UNCHANGED <<modes, kernel, client, conn, m_users, timers, mpc, mfd, mconn,
                 m_is_running, sig, m_stop, wpc, job, wconn, raced>>

(* handleReadEvent of the Proactor: the main thread reads.                  *)
DispatchRead ==
  /\ mpc = "dispatch"
  /\ ~m_actor_model
  /\ \E e \in batch \cap Event :
       /\ Closable(e.fd)
       /\ e.ev = "in"
       /\ batch' = batch \ {e}
       /\ mfd' = e.fd
       /\ mconn' = m_users[e.fd]
  /\ mpc' = "read"
  /\ UNCHANGED <<modes, kernel, client, conn, m_users, timers, m_is_running,
                 sig, pool, raced>>

MainRead ==
  /\ mpc = "read"
  /\ HttpRead(mconn)
  /\ IF ReadResult(mconn)
     THEN /\ m_tasks' = Append(m_tasks, [kind |-> "process", fd |-> mfd, conn |-> mconn])
          /\ mpc' = "dispatch"
          /\ mfd' = None
          /\ mconn' = None
     ELSE /\ mpc' = "erase"
          /\ mconn' = None
          /\ UNCHANGED <<m_tasks, mfd>>
  /\ UNCHANGED <<modes, kernel, cst, sent, eof, m_sockfd, m_is_closed, parsed, resp,
                 m_users, timers, batch, m_is_running, sig, m_stop, wpc, job,
                 wconn, raced>>

(* closeConnection called by the main thread.                               *)
MainErase ==
  /\ mpc = "erase"
  /\ IF Closable(mfd)
     THEN /\ mconn' = m_users[mfd]
          /\ m_users' = [m_users EXCEPT ![mfd] = None]
          /\ raced' = (raced \/ Busy(mconn', None))
          /\ mpc' = "close"
          /\ mfd' = mfd
     ELSE /\ mpc' = "dispatch"
          /\ mfd' = None
          /\ UNCHANGED <<m_users, mconn, raced>>
  /\ UNCHANGED <<modes, kernel, client, conn, timers, batch, m_is_running, sig,
                 pool>>

MainClose ==
  /\ mpc = "close"
  /\ CloseConns({mconn}, {mfd}, LastRef({mconn}, None))
  /\ mpc' = "dispatch"
  /\ mfd' = None
  /\ mconn' = None
  /\ UNCHANGED <<modes, cst, m_users, timers, batch, m_is_running, sig, pool,
                 raced>>

DispatchEnd ==
  /\ mpc = "dispatch"
  /\ batch = {}
  /\ mpc' = IF m_is_running THEN "wait" ELSE "stopped"
  /\ UNCHANGED <<modes, kernel, client, conn, m_users, timers, batch, mfd,
                 mconn, m_is_running, sig, pool, raced>>

(* Slip: shutdown() joins the pool without having stopped it.               *)
ShutdownNoStop ==
  /\ mpc = "dispatch"
  /\ SignalEvent \in batch
  /\ batch' = batch \ {SignalEvent}
  /\ sig' = "read"
  /\ mpc' = "join"
  /\ UNCHANGED <<modes, kernel, client, conn, m_users, timers, mfd, mconn,
                 m_is_running, pool, raced>>

(* handleSignalEvent -> shutdown(): close every connection, clear m_users,  *)
(* stop the pool ...                                                        *)
Shutdown ==
  /\ mpc = "dispatch"
  /\ SignalEvent \in batch
  /\ batch' = batch \ {SignalEvent}
  /\ sig' = "read"
  /\ LET C == {c \in Conns : \E f \in Fds : m_users[f] = c}
     IN /\ CloseConns(C, {}, {})
        /\ raced' = (raced \/ \E c \in C : Busy(c, None))
  /\ m_users' = [f \in Fds |-> None]
  /\ m_stop' = TRUE
  /\ mpc' = "join"
  /\ UNCHANGED <<modes, cst, timers, mfd, mconn, m_is_running, m_tasks, wpc,
                 job, wconn>>

(* ... join it, and only then stop the loop.                                *)
ShutdownJoin ==
  /\ mpc = "join"
  /\ \A w \in Workers : wpc[w] = "exited"
  /\ m_is_running' = FALSE
  /\ mpc' = "dispatch"
  /\ UNCHANGED <<modes, kernel, client, conn, m_users, timers, batch, mfd,
                 mconn, sig, pool, raced>>

MainStep ==
  \/ EpollWait \/ TickSkip \/ TickErase \/ TickClose \/ TickEnd
  \/ Accept \/ AcceptFails \/ InstallConn \/ InitConn
  \/ DispatchIgnored \/ DispatchTask \/ DispatchRead
  \/ MainRead \/ MainErase \/ MainClose \/ DispatchEnd
  \/ Shutdown \/ ShutdownJoin

-----------------------------------------------------------------------------
(* The workers.                                                            *)

To(w, p) == wpc' = [wpc EXCEPT ![w] = p]

(* The pool (see ThreadPool): an idle worker takes the oldest task; a       *)
(* stopped pool lets it take at most one more, or return.                   *)
WorkerTake(w) ==
  /\ wpc[w] = "idle"
  /\ m_tasks # <<>>
  /\ job' = [job EXCEPT ![w] = Head(m_tasks)]
  /\ m_tasks' = Tail(m_tasks)
  /\ To(w, Head(m_tasks).kind)
  /\ UNCHANGED <<modes, kernel, client, conn, m_users, timers, loop, m_stop,
                 wconn, raced>>

WorkerExit(w) ==
  /\ wpc[w] = "idle"
  /\ m_stop
  /\ To(w, "exited")
  /\ UNCHANGED <<modes, kernel, client, conn, m_users, timers, loop, m_tasks,
                 m_stop, job, wconn, raced>>

WorkerRead(w) ==
  /\ wpc[w] = "read"
  /\ HttpRead(job[w].conn)
  /\ To(w, IF ReadResult(job[w].conn) THEN "process" ELSE "erase")
  /\ UNCHANGED <<modes, kernel, cst, sent, eof, m_sockfd, m_is_closed, parsed, resp,
                 m_users, timers, loop, m_tasks, m_stop, job, wconn, raced>>

(* process() returns true: the request is answered, or whatever was         *)
(* received of it is refused with 429.  The rate limiter is asked before    *)
(* anything is parsed, so that its answer keeps the connection alive only   *)
(* if an earlier process() has read the connection header; what is still to *)
(* come of the request is then taken for the next one.                      *)
WorkerProcessed(w) ==
  LET c == job[w].conn IN
  /\ wpc[w] = "process"
  /\ \E r \in {"keep", "close"} :
       /\ r = "keep" => got[c] = Fragments \/ parsed[c]
       /\ resp' = [resp EXCEPT ![c] = r]
  /\ To(w, "callback")
  /\ UNCHANGED <<modes, kernel, client, m_sockfd, m_is_closed, got, parsed,
                 m_users, timers, loop, m_tasks, m_stop, job, wconn, raced>>

(* What process() leaves of a request it does not answer: it is parsed as   *)
(* far as it goes, and a complete one (MayFail) is never looked at again.   *)
LeftUnprocessed(c) ==
  /\ got[c] < Fragments \/ MayFail
  /\ parsed' = [parsed EXCEPT ![c] = TRUE]

(* Slip: an incomplete request is left without modFd(EPOLLIN).              *)
WorkerUnprocessedNoRearm(w) ==
  /\ wpc[w] = "process"
  /\ LeftUnprocessed(job[w].conn)
  /\ To(w, "check")
  /\ UNCHANGED <<modes, kernel, client, m_sockfd, m_is_closed, got, resp,
                 m_users, timers, loop, m_tasks, m_stop, job, wconn, raced>>

(* process() returns false: the request is not complete, or its request     *)
(* line is malformed or its response does not fit m_write_buf; the          *)
(* connection is armed for more.                                            *)
WorkerUnprocessed(w) ==
  /\ wpc[w] = "process"
  /\ LeftUnprocessed(job[w].conn)
  /\ To(w, "modin")
  /\ UNCHANGED <<modes, kernel, client, m_sockfd, m_is_closed, got, resp,
                 m_users, timers, loop, m_tasks, m_stop, job, wconn, raced>>

(* process() returns false after closeConn: no response could be built.     *)
(* The entry of m_users stays.                                              *)
WorkerProcessFails(w) ==
  /\ wpc[w] = "process"
  /\ MayFail
  /\ got[job[w].conn] = Fragments
  /\ CloseConns({job[w].conn}, {}, {})
  /\ To(w, "modin")
  /\ UNCHANGED <<modes, cst, m_users, timers, loop, m_tasks, m_stop, job,
                 wconn, raced>>

(* m_write_cb: modFd(EPOLLOUT) unless the connection is closed.             *)
WorkerCallback(w) ==
  /\ wpc[w] = "callback"
  /\ To(w, IF m_is_closed[job[w].conn] THEN "check" ELSE "modout")
  /\ UNCHANGED <<modes, kernel, client, conn, m_users, timers, loop, m_tasks,
                 m_stop, job, wconn, raced>>

(* After modFd the closures of a read refresh the timer unless the          *)
(* connection is closed, those of a write refresh it in any case.           *)
AfterModFd(w) == IF job[w].kind = "write" THEN "refresh" ELSE "check"

WorkerModOut(w) ==
  /\ wpc[w] = "modout"
  /\ ModFd(job[w].fd, "out")
  /\ To(w, AfterModFd(w))
  /\ UNCHANGED <<modes, owner, client, conn, m_users, timers, loop, m_tasks,
                 m_stop, job, wconn, raced>>

WorkerModIn(w) ==
  /\ wpc[w] = "modin"
  /\ ModFd(job[w].fd, "in")
  /\ To(w, AfterModFd(w))
  /\ UNCHANGED <<modes, owner, client, conn, m_users, timers, loop, m_tasks,
                 m_stop, job, wconn, raced>>

WorkerCheck(w) ==
  /\ wpc[w] = "check"
  /\ To(w, IF m_is_closed[job[w].conn] THEN "done" ELSE "refresh")
  /\ UNCHANGED <<modes, kernel, client, conn, m_users, timers, loop, m_tasks,
                 m_stop, job, wconn, raced>>

(* addTimer waits for the timer mutex while the main thread ticks.          *)
WorkerRefresh(w) ==
  /\ wpc[w] = "refresh"
  /\ mpc \notin {"tick", "tickclose"}
  /\ RefreshTimer(job[w].fd)
  /\ To(w, "done")
  /\ UNCHANGED <<modes, kernel, client, conn, m_users, loop, m_tasks, m_stop,
                 job, wconn, raced>>

(* The socket HttpConn::write sends on: whose client receives it.           *)
Peer(w) == LET f == m_sockfd[job[w].conn] IN IF f = None THEN None ELSE owner[f]

(* What a client that had sent n fragments makes of c's response: the next  *)
(* request, unless the connection is going to be closed.                    *)
Answered(c, n) ==
  IF resp[c] # "keep" THEN n
  ELSE IF got[c] = Fragments THEN 0 ELSE Fragments + 1

(* write() == OK: everything was handed to the kernel.                      *)
WorkerWriteOK(w) ==
  /\ wpc[w] \in {"write", "rewrite"}
  /\ Peer(w) # None
  /\ sent' = [sent EXCEPT ![Peer(w)] = Answered(job[w].conn, @)]
  /\ To(w, IF wpc[w] = "write" /\ resp[job[w].conn] = "keep" THEN "init" ELSE "erase")
  /\ UNCHANGED <<modes, kernel, cst, inb, eof, conn, m_users, timers, loop,
                 m_tasks, m_stop, job, wconn, raced>>

(* write() == AGAIN; the closure calls write() a second time.               *)
WorkerWriteAgain(w) ==
  /\ wpc[w] \in {"write", "rewrite"}
  /\ Peer(w) # None
  /\ To(w, IF wpc[w] = "write" THEN "rewrite" ELSE "modout")
  /\ UNCHANGED <<modes, kernel, client, conn, m_users, timers, loop, m_tasks,
                 m_stop, job, wconn, raced>>

(* write() == ERROR: the peer is gone or the descriptor is not a socket.    *)
WorkerWriteError(w) ==
  /\ wpc[w] \in {"write", "rewrite"}
  /\ Peer(w) # None => eof[Peer(w)]
  /\ To(w, IF wpc[w] = "write" THEN "rewrite" ELSE "erase")
  /\ UNCHANGED <<modes, kernel, client, conn, m_users, timers, loop, m_tasks,
                 m_stop, job, wconn, raced>>

(* conn->init(fd, ...) of a kept connection.                                *)
WorkerInit(w) ==
  /\ wpc[w] = "init"
  /\ HttpInit(job[w].conn, job[w].fd)
  /\ To(w, "modin")
  /\ UNCHANGED <<modes, kernel, client, m_users, timers, loop, m_tasks, m_stop,
                 job, wconn, raced>>

(* closeConnection called by a worker.                                      *)
WorkerErase(w) ==
  /\ wpc[w] = "erase"
  /\ IF Closable(job[w].fd)
     THEN /\ wconn' = [wconn EXCEPT ![w] = m_users[job[w].fd]]
          /\ m_users' = [m_users EXCEPT ![job[w].fd] = None]
          /\ raced' = (raced \/ Busy(m_users[job[w].fd], w))
          /\ To(w, "close")
     ELSE /\ To(w, "done")
          /\ UNCHANGED <<m_users, wconn, raced>>
  /\ UNCHANGED <<modes, kernel, client, conn, timers, loop, m_tasks, m_stop,
                 job>>

(* Slip: closeConnection leaves the descriptor to the destructor, which     *)
(* finds m_is_closed set.                                                   *)
WorkerCloseLeak(w) ==
  /\ wpc[w] = "close"
  /\ m_is_closed' = [m_is_closed EXCEPT ![wconn[w]] = TRUE]
  /\ wconn' = [wconn EXCEPT ![w] = None]
  /\ To(w, "done")
  /\ UNCHANGED <<modes, kernel, client, m_sockfd, got, parsed, resp, m_users, timers,
                 loop, m_tasks, m_stop, job, raced>>

WorkerClose(w) ==
  /\ wpc[w] = "close"
  /\ CloseConns({wconn[w]}, {job[w].fd}, {})
  /\ wconn' = [wconn EXCEPT ![w] = None]
  /\ To(w, "done")
  /\ UNCHANGED <<modes, cst, m_users, timers, loop, m_tasks, m_stop, job,
                 raced>>

(* The closure and its shared_ptr are gone; ~HttpConn closes an unclosed    *)
(* connection that nothing else refers to.  A stopped pool's worker leaves. *)
WorkerDone(w) ==
  /\ wpc[w] = "done"
  /\ LET dead == LastRef({job[w].conn}, w) IN CloseConns(dead, {}, dead)
  /\ job' = [job EXCEPT ![w] = NoTask]
  /\ To(w, IF m_stop THEN "exited" ELSE "idle")
  /\ UNCHANGED <<modes, cst, m_users, timers, loop, m_tasks, m_stop, wconn,
                 raced>>

WorkerStep(w) ==
  \/ WorkerTake(w) \/ WorkerExit(w) \/ WorkerRead(w) \/ WorkerProcessed(w)
  \/ WorkerUnprocessed(w) \/ WorkerProcessFails(w) \/ WorkerCallback(w)
  \/ WorkerModOut(w) \/ WorkerModIn(w) \/ WorkerCheck(w) \/ WorkerRefresh(w)
  \/ WorkerWriteOK(w) \/ WorkerWriteAgain(w) \/ WorkerWriteError(w)
  \/ WorkerInit(w) \/ WorkerErase(w) \/ WorkerClose(w) \/ WorkerDone(w)

Next ==
  \/ \E c \in Conns : Connect(c) \/ Send(c) \/ ClientClose(c)
  \/ Signal
  \/ MainStep
  \/ \E w \in Workers : WorkerStep(w)

Spec == Init /\ [][Next]_vars

(* The main thread and the workers run; a worker that waits for the timer   *)
(* mutex gets it though the main thread keeps taking it; a peer that keeps  *)
(* reading makes send succeed in the end; clients owe nothing.              *)
Fairness ==
  /\ WF_vars(MainStep)
  /\ \A w \in Workers :
       WF_vars(WorkerStep(w)) /\ SF_vars(WorkerRefresh(w)) /\ SF_vars(WorkerWriteOK(w))

FairSpec == Spec /\ Fairness

-----------------------------------------------------------------------------
(* Types of the kernel's, the connections' and the threads' state; no timer *)
(* is live twice (a refresh replaces the older one).                        *)
TypeOK ==
  /\ m_actor_model \in ActorModels /\ m_trig_mode \in TrigModes
  /\ owner \in [Fds -> Conns \cup {None}]
  /\ interest \in [Fds -> {"none", "off", "in", "out"}]
  /\ cst \in [Conns -> {"new", "backlog", "accepted"}]
  /\ sent \in [Conns -> 0..(Fragments + 1)]
  /\ inb \in [Conns -> 0..Fragments]
  /\ eof \in [Conns -> BOOLEAN]
  /\ m_sockfd \in [Conns -> Fds \cup {None}]
  /\ m_is_closed \in [Conns -> BOOLEAN]
  /\ got \in [Conns -> 0..Fragments]
  /\ parsed \in [Conns -> BOOLEAN]
  /\ resp \in [Conns -> {"none", "keep", "close"}]
  /\ m_users \in [Fds -> Conns \cup {None}]
  /\ timers \in Seq(Fds)
  /\ \A i, j \in 1..Len(timers) : timers[i] = timers[j] => i = j
  /\ mpc \in MainPC
  /\ batch \subseteq Event \cup {ListenEvent, SignalEvent}
  /\ mfd \in Fds \cup {None}
  /\ mconn \in Conns \cup {None}
  /\ m_is_running \in BOOLEAN
  /\ sig \in {"no", "pending", "read"}
  /\ m_tasks \in Seq(Task)
  /\ m_stop \in BOOLEAN
  /\ wpc \in [Workers -> WorkerPC]
  /\ job \in [Workers -> Task \cup {NoTask}]
  /\ wconn \in [Workers -> Conns \cup {None}]
  /\ raced \in BOOLEAN

(* The descriptor the main thread is still building a connection for.       *)
Installing(f) == mpc \in {"accepted", "installed"} /\ mfd = f

(* Who may touch the unsynchronised HttpConn behind descriptor f next: the  *)
(* armed epoll entry, an event fetched but not dispatched, a queued task, a *)
(* closure that has not yet re-armed or closed, the main thread's handler.  *)
Tokens(f) ==
    (IF interest[f] \in {"in", "out"} THEN 1 ELSE 0)
  + Cardinality({e \in batch : e.fd = f})
  + Cardinality({i \in 1..Len(m_tasks) : m_tasks[i].fd = f})
  + Cardinality({w \in Workers : job[w].fd = f /\ Active(w)})
  + (IF mpc \in {"read", "erase", "close"} /\ mfd = f THEN 1 ELSE 0)

(* EPOLLONESHOT as the server uses it: exactly one party at a time owns   *)
(* an open connection. More than one would run read(), process() or       *)
(* write() concurrently on unlocked buffers; none would mean that nobody  *)
(* ever re-arms the descriptor and the connection hangs. Nothing is said  *)
(* once a time-out or shutdown closed a connection under its queued or    *)
(* running closure, or a descriptor number was given out while a closure  *)
(* had yet to re-arm it (raced).                                          *)
OneToken ==
  ~raced => \A f \in Fds : owner[f] # None => Tokens(f) = 1

(* m_users, the descriptor table and the connection objects agree, as     *)
(* long as OneToken is promised (~raced): an entry names the connection   *)
(* its descriptor belongs to, or (handleRequest closed it,                *)
(* http_conn.cpp:559) a closed one whose number is free; and no open      *)
(* descriptor has neither an entry nor a thread about to install or close *)
(* it.                                                                    *)
UsersAgree ==
  ~raced => \A f \in Fds :
    /\ m_users[f] # None /\ ~Installing(f) =>
         IF owner[f] = None THEN m_is_closed[m_users[f]]
         ELSE /\ owner[f] = m_users[f]
              /\ m_sockfd[m_users[f]] = f
              /\ ~m_is_closed[m_users[f]]
    /\ owner[f] # None /\ m_users[f] = None =>
         \/ Installing(f)
         \/ mpc \in {"close", "tickclose"} /\ mfd = f
         \/ \E w \in Workers : wpc[w] = "close" /\ job[w].fd = f

(* Every connection the server still serves has a live timer, so it can be  *)
(* timed out: refreshTimer comes last in each handler and tick only drops   *)
(* the timer of a connection it closes.  Once a timer raced with a closure  *)
(* a connection may be left that no timer will close: init makes a closed   *)
(* one look open after tick has passed it over.                             *)
TimerCoverage ==
  ~raced => \A f \in Fds : Closable(f) /\ ~Installing(f) =>
    \E i \in 1..Len(timers) : timers[i] = f

(* "Remove the epoll entry, so that no operation goes on with a closed fd"  *)
(* (net_server.cpp:444): a closure never uses a descriptor number that now  *)
(* belongs to another connection.                                           *)
NoForeignFd ==
  \A w \in Workers :
    wpc[w] \in {"modin", "modout", "init", "refresh", "erase"} =>
      owner[job[w].fd] \in {None, job[w].conn}

Open(c) == \E f \in Fds : owner[f] = c

(* The connection is armed for more input with a complete request in its    *)
(* buffer: process() has turned it down without an answer.                  *)
LeftUnheard(c) ==
  \E f \in Fds : owner[f] = c /\ interest[f] = "in" /\ got[c] = Fragments

(* A complete request of an accepted connection is answered, or the       *)
(* connection is closed, unless process() turns the request down without  *)
(* a word: for a malformed request line (http_conn.cpp:469, which logs    *)
(* that it terminates the connection) or an answer too large for          *)
(* m_write_buf (:428) the connection stays open and waits for more input. *)
(* A client that was answered in the middle of a request (a 429 that kept *)
(* the connection, :294) has lost count and is promised nothing, nor is   *)
(* anything promised after a race (raced, see OneToken).                  *)
RequestAnswered ==
  \A c \in Conns :
    (sent[c] = Fragments /\ Open(c))
      ~> (sent[c] # Fragments \/ ~Open(c) \/ LeftUnheard(c) \/ raced)

(* When the peer closes, its descriptor is released.                        *)
PeerCloseReleases == \A c \in Conns : (eof[c] /\ Open(c)) ~> ~Open(c)

(* A termination signal ends the loop: every worker is joined and run()     *)
(* returns.                                                                 *)
SignalStops == sig = "pending" ~> mpc = "stopped"
==============================================================================
