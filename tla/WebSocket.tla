------------------------------ MODULE WebSocket ------------------------------
(***************************************************************************)
(* WebSocket connections: WebSocketConn with WebsocketConnManager, under   *)
(* the event loop, the workers and the timers of NetServer, and a thread   *)
(* that pushes messages with sendToSession.                                *)
(*                                                                         *)
(* A connection object lives as long as m_users or a closure refers to it. *)
(* closeConn tests m_is_closed the other way round than HttpConn's: the    *)
(* first call, by closeConnection, only marks the connection, and the      *)
(* second one, by the destructor, closes the descriptor.                   *)
(*                                                                         *)
(* What a client sends comes in units: a handshake is two and so is every  *)
(* frame, so that a read can end in the middle of each.  Units 1 and 2 are *)
(* the handshake, units 2 i + 1 and 2 i + 2 are frame i.                   *)
(***************************************************************************)
EXTENDS Integers, Sequences, SequencesExt

CONSTANTS
  Conns,      \* connection objects, each used for one client
  Fds,        \* descriptor numbers
  Sessions,   \* session ids
  Workers,    \* threads of the pool
  Frames,     \* bound: frames that a client sends
  MaxPushes,  \* bound: calls of sendToSession
  NoKey,      \* a handshake without Sec-WebSocket-Key
  None

ASSUME BoundsNat == Frames \in Nat /\ MaxPushes \in Nat
ASSUME Distinct == {NoKey, None} \cap (Conns \cup Fds \cup Sessions) = {} /\ NoKey # None
ASSUME PushIsNoWorker == "push" \notin Workers

Unit(j) == <<(j - 1) \div 2, 1 + ((j - 1) % 2)>>
UnitsFrom(j) == [i \in 1..2 * (Frames + 1) - j + 1 |-> Unit(j + i - 1)]
HandshakeEnd == Unit(2)
Handshake == <<Unit(1), HandshakeEnd>>
FramesFrom(i) == UnitsFrom(2 * i + 1)
Junk == -1

VARIABLES
  (* the clients and the kernel *)
  hello,           \* the session a client names in its URL, None or NoKey
  sock,            \* the connection a descriptor belongs to, None if closed
  epoll,           \* a descriptor's registration, "off" if there is none and
                   \* "idle" once its one-shot event was delivered
  (* NetServer *)
  m_users, job,    \* what each worker does, and with which connection
  (* WebSocketConn *)
  obj,             \* "new", "live" or "dead"
  m_sockfd, m_is_closed,
  data,            \* m_status, m_read_buf and m_write_buf; wire: units sent by
                   \* the client and not yet received; handled: the messages
                   \* that were dispatched
  (* WebsocketConnManager *)
  m_session_to_fd, m_fd_to_session,
  push,            \* the call of sendToSession in progress: it holds m_mutex
  (* History *)
  pushes,          \* calls of sendToSession so far
  revived,         \* connections that were initialised after closeConn
  crossed,         \* a number was given to a new client while the maps still
                   \* had it for its last one
  blurred          \* connections whose handshake was received together with
                   \* frames, or that two workers served at once

kernel == <<hello, sock>>
maps == <<m_session_to_fd, m_fd_to_session>>
object == <<obj, m_sockfd, m_is_closed>>
pushing == <<push, pushes>>
history == <<revived, crossed, blurred>>
vars == <<kernel, epoll, m_users, job, object, data, maps, pushing, history>>

NoData == [m_status |-> "HANDSHAKE", m_read_buf |-> <<>>, m_write_buf |-> <<>>,
           wire |-> <<>>, handled |-> <<>>]
Idle == [conn |-> None, at |-> "idle"]
Quiet == [conn |-> None, to |-> None, at |-> "idle"]

Init ==
  /\ hello = [c \in Conns |-> None]
  /\ sock = [f \in Fds |-> None] /\ epoll = [f \in Fds |-> "off"]
  /\ m_users = [f \in Fds |-> None] /\ job = [w \in Workers |-> Idle]
  /\ obj = [c \in Conns |-> "new"] /\ m_sockfd = [c \in Conns |-> None]
  /\ m_is_closed = [c \in Conns |-> FALSE]
  /\ data = [c \in Conns |-> NoData]
  /\ m_session_to_fd = [s \in Sessions |-> None]
  /\ m_fd_to_session = [f \in Fds |-> None]
  /\ push = Quiet /\ pushes = 0
  /\ revived = {} /\ crossed = FALSE /\ blurred = {}

-----------------------------------------------------------------------------
(* Who holds a connection, and what the last holder does.                  *)

Serves(w, c) == job[w].conn = c /\ job[w].at # "unbind"
Holders(c) == {w \in Workers : Serves(w, c)}
                \cup (IF push.conn = c /\ push.at = "found" THEN {"push"} ELSE {})

(* Connections whose descriptor is closed and whose removeFd is to come.   *)
Unbinding == {job[w].conn : w \in {v \in Workers : job[v].at = "unbind"}}
               \cup (IF push.at = "stuck" THEN {push.conn} ELSE {})

(* ~WebSocketConn: closeConn closes the descriptor of a connection that    *)
(* closeConnection marked.  The maps follow.                               *)
Destroy(c) ==
  /\ obj' = [obj EXCEPT ![c] = "dead"]
  /\ sock' = IF m_is_closed'[c] THEN [sock EXCEPT ![m_sockfd[c]] = None] ELSE sock
  /\ data' = [data EXCEPT ![c] = NoData]

(* Slip: the session keeps its number.                                     *)
RemoveFdKeepsSession(f) ==
  /\ m_fd_to_session' = [m_fd_to_session EXCEPT ![f] = None]
  /\ UNCHANGED m_session_to_fd

(* WebsocketConnManager::removeFd, the end of closeConn.                   *)
RemoveFd(f) ==
  LET s == m_fd_to_session[f] IN
  /\ m_session_to_fd' = IF s = None THEN m_session_to_fd
                        ELSE [m_session_to_fd EXCEPT ![s] = None]
  /\ m_fd_to_session' = [m_fd_to_session EXCEPT ![f] = None]

(* A closure of worker w ends with d as c's data, and lets go of c.        *)
Release(w, c, d) ==
  IF Holders(c) = {w} /\ m_users'[m_sockfd[c]] # c
  THEN /\ Destroy(c)
       /\ job' = [job EXCEPT ![w] = IF m_is_closed'[c] THEN [conn |-> c, at |-> "unbind"]
                                                       ELSE Idle]
  ELSE /\ job' = [job EXCEPT ![w] = Idle]
       /\ data' = [data EXCEPT ![c] = d]
       /\ UNCHANGED <<obj, sock>>

(* Slip: the connection is not marked.                                     *)
CloseConnectionUnmarked(f) ==
  /\ m_users' = [m_users EXCEPT ![f] = None]
  /\ epoll' = [epoll EXCEPT ![f] = IF m_users[f] = None THEN @ ELSE "off"]
  /\ UNCHANGED m_is_closed

(* NetServer::closeConnection with the first closeConn.                    *)
CloseConnection(f) ==
  LET c == m_users[f] IN
  IF c = None THEN UNCHANGED <<m_users, epoll, m_is_closed>>
  ELSE /\ m_users' = [m_users EXCEPT ![f] = None]
       /\ epoll' = [epoll EXCEPT ![f] = "off"]
       /\ m_is_closed' = [m_is_closed EXCEPT ![c] = TRUE]

(* modFd fails for a descriptor that is not registered.                    *)
ModFd(f, event) ==
  epoll' = IF epoll[f] = "off" THEN epoll ELSE [epoll EXCEPT ![f] = event]

-----------------------------------------------------------------------------
(* The event loop.                                                         *)

(* handleNewConnection and WebSocketConn::init.                            *)
Accept(c, f, h) ==
  /\ obj[c] = "new" /\ sock[f] = None
  /\ hello' = [hello EXCEPT ![c] = h]
  /\ data' = [data EXCEPT ![c] = [NoData EXCEPT !.wire = UnitsFrom(1)]]
  /\ sock' = [sock EXCEPT ![f] = c] /\ epoll' = [epoll EXCEPT ![f] = "IN"]
  /\ m_users' = [m_users EXCEPT ![f] = c]
  /\ obj' = [obj EXCEPT ![c] = "live"] /\ m_sockfd' = [m_sockfd EXCEPT ![c] = f]
  /\ crossed' = (crossed \/ \E d \in Unbinding : m_sockfd[d] = f)
  /\ UNCHANGED <<job, m_is_closed, maps, pushing, revived, blurred>>

(* handleReadEvent and handleWriteEvent: a closure for the pool.  A second *)
(* one for the same connection is possible since sendToSession registers   *)
(* the descriptor again while a worker has it.                             *)
Dispatch(f, w) ==
  LET c == m_users[f] IN
  /\ epoll[f] \in {"IN", "OUT"} /\ c # None /\ job[w] = Idle
  /\ job' = [job EXCEPT ![w] = [conn |-> c,
                                at |-> IF epoll[f] = "IN" THEN "read" ELSE "write"]]
  /\ epoll' = [epoll EXCEPT ![f] = "idle"]
  /\ blurred' = IF \E v \in Workers : Serves(v, c) THEN blurred \cup {c} ELSE blurred
  /\ UNCHANGED <<kernel, m_users, object, data, maps, pushing, revived, crossed>>

(* The timer of a connection fires in tick: closeConnection, and if nobody *)
(* else holds the connection its destructor.  The loop does nothing else   *)
(* until removeFd has the manager's mutex.                                 *)
Expire(f) ==
  LET c == m_users[f] IN
  /\ c # None
  /\ CloseConnection(f)
  /\ \/ /\ Holders(c) = {} /\ push.at = "idle"
        /\ Destroy(c) /\ RemoveFd(f)
     \/ /\ Holders(c) # {}
        /\ UNCHANGED <<obj, sock, data, maps>>
  /\ UNCHANGED <<hello, job, m_sockfd, pushing, history>>

-----------------------------------------------------------------------------
(* The workers.                                                            *)

(* WebSocketConn::read returns true: n units arrived.                      *)
Read(w, n) ==
  LET c == job[w].conn
      d == data[c]
  IN
  /\ job[w].at = "read" /\ n \in 1..Len(d.wire)
  /\ data' = [data EXCEPT ![c] = [d EXCEPT !.m_read_buf = d.m_read_buf \o SubSeq(d.wire, 1, n),
                                          !.wire = SubSeq(d.wire, n + 1, Len(d.wire))]]
  /\ job' = [job EXCEPT ![w] = [conn |-> c, at |-> "process"]]
  /\ UNCHANGED <<kernel, epoll, m_users, object, maps, pushing, history>>

(* recv fails, has nothing, or the client closed: closeConnection.         *)
ReadFails(w) ==
  LET c == job[w].conn IN
  /\ job[w].at = "read"
  /\ CloseConnection(m_sockfd[c])
  /\ Release(w, c, data[c])
  /\ UNCHANGED <<hello, m_sockfd, maps, pushing, history>>

(* process in HANDSHAKE: handleHandshake appends its answer and sets       *)
(* m_status ...                                                            *)
HandleHandshake(w) ==
  LET c == job[w].conn
      d == data[c]
  IN  /\ job[w].at = "process" /\ d.m_status = "HANDSHAKE"
      /\ HandshakeEnd \in ToSet(d.m_read_buf) /\ hello[c] # NoKey
      /\ data' = [data EXCEPT ![c] = [d EXCEPT !.m_write_buf = Append(d.m_write_buf, "101"),
                                               !.m_status = "CONNECTED"]]
      /\ job' = [job EXCEPT ![w] = [conn |-> c, at |-> "bind"]]
      /\ UNCHANGED <<kernel, epoll, m_users, object, maps, pushing, history>>

(* ... and process goes on: bindSession, under the manager's mutex, if the *)
(* client named a session.  The read buffer is emptied with whatever came  *)
(* behind the handshake.                                                   *)
BindSession(w) ==
  LET c == job[w].conn
      f == m_sockfd[c]
      s == hello[c]
      d == data[c]
  IN  /\ job[w].at = "bind"
      /\ \/ /\ s # None /\ push.at = "idle"
            /\ m_session_to_fd' = [m_session_to_fd EXCEPT ![s] = f]
            /\ m_fd_to_session' = [m_fd_to_session EXCEPT ![f] = s]
         \/ s = None /\ UNCHANGED maps
      /\ blurred' = IF d.m_read_buf = Handshake THEN blurred ELSE blurred \cup {c}
      /\ ModFd(f, "OUT")
      /\ UNCHANGED <<m_users, m_is_closed>>
      /\ Release(w, c, [d EXCEPT !.m_read_buf = <<>>])
      /\ UNCHANGED <<hello, m_sockfd, pushing, revived, crossed>>

(* parseWebSocketFrame: the first frame in the buffer, if it is complete.  *)
(* What it makes of a buffer that does not begin with a frame's head is    *)
(* left open: nothing, or a message of any length.                         *)
ParsedFrames(buf) ==
  IF buf = <<>> THEN {}
  ELSE IF buf[1][1] # 0 /\ buf[1][2] = 1
       THEN IF Len(buf) >= 2 THEN {[msg |-> buf[1][1], len |-> 2]} ELSE {}
       ELSE {[msg |-> Junk, len |-> n] : n \in 1..Len(buf)}

MayFail(buf) == \A m \in ParsedFrames(buf) : m.msg = Junk

(* The record of dispatched messages ends where two workers may interleave *)
(* or the buffer was cut.                                                  *)
Note(c, msg) == IF c \in blurred THEN <<>> ELSE Append(data[c].handled, msg)

(* Slip: the message is left in the buffer.                                *)
HandleFrameKeeps(w, m) ==
  LET c == job[w].conn
      d == data[c]
  IN  /\ job[w].at = "process" /\ d.m_status = "CONNECTED"
      /\ m \in ParsedFrames(d.m_read_buf)
      /\ ModFd(m_sockfd[c], "OUT")
      /\ UNCHANGED <<m_users, m_is_closed>>
      /\ Release(w, c, [d EXCEPT !.handled = Note(c, m.msg)])
      /\ UNCHANGED <<hello, m_sockfd, maps, pushing, history>>

(* process in CONNECTED: one frame is dispatched, and even if nothing is   *)
(* to be sent the connection waits for EPOLLOUT.                           *)
HandleFrame(w, m) ==
  LET c == job[w].conn
      d == data[c]
  IN  /\ job[w].at = "process" /\ d.m_status = "CONNECTED"
      /\ m \in ParsedFrames(d.m_read_buf)
      /\ ModFd(m_sockfd[c], "OUT")
      /\ UNCHANGED <<m_users, m_is_closed>>
      /\ Release(w, c, [d EXCEPT !.handled = Note(c, m.msg),
                                 !.m_read_buf = SubSeq(d.m_read_buf, m.len + 1,
                                                        Len(d.m_read_buf))])
      /\ UNCHANGED <<hello, m_sockfd, maps, pushing, history>>

(* process returns false: the connection waits for more.                   *)
ProcessFails(w) ==
  LET c == job[w].conn
  IN  /\ job[w].at = "process"
      /\ \/ /\ data[c].m_status = "HANDSHAKE"
            /\ HandshakeEnd \notin ToSet(data[c].m_read_buf) \/ hello[c] = NoKey
         \/ data[c].m_status = "CONNECTED" /\ MayFail(data[c].m_read_buf)
      /\ ModFd(m_sockfd[c], "IN")
      /\ UNCHANGED <<m_users, m_is_closed>>
      /\ Release(w, c, data[c])
      /\ UNCHANGED <<hello, m_sockfd, maps, pushing, history>>

(* write returns OK and empties the buffer, with a frame that was appended *)
(* during the call as well.                                                *)
WriteOK(w) ==
  LET c == job[w].conn IN
  /\ job[w].at = "write" /\ ~m_is_closed[c]
  /\ data' = [data EXCEPT ![c] = [data[c] EXCEPT !.m_write_buf = <<>>]]
  /\ job' = [job EXCEPT ![w] = [conn |-> c, at |-> "init"]]
  /\ UNCHANGED <<kernel, epoll, m_users, object, maps, pushing, history>>

(* Both calls of write return AGAIN; the next one starts from the first    *)
(* byte of the buffer.                                                     *)
WriteAgain(w) ==
  LET c == job[w].conn IN
  /\ job[w].at = "write" /\ ~m_is_closed[c] /\ data[c].m_write_buf # <<>>
  /\ ModFd(m_sockfd[c], "OUT")
  /\ UNCHANGED <<m_users, m_is_closed>>
  /\ Release(w, c, data[c])
  /\ UNCHANGED <<hello, m_sockfd, maps, pushing, history>>

(* The first call does not return OK and the second not AGAIN: always so   *)
(* for a connection that is marked.                                        *)
WriteFails(w) ==
  LET c == job[w].conn IN
  /\ job[w].at = "write" /\ (m_is_closed[c] \/ data[c].m_write_buf # <<>>)
  /\ CloseConnection(m_sockfd[c])
  /\ Release(w, c, data[c])
  /\ UNCHANGED <<hello, m_sockfd, maps, pushing, history>>

(* After OK, init: nothing for a connection in use, but one that a timer   *)
(* closed in the meantime is initialised again, and then destroyed without *)
(* its descriptor being closed.                                            *)
Reinit(w) ==
  LET c == job[w].conn
      closed == m_is_closed[c]
  IN  /\ job[w].at = "init"
      /\ m_is_closed' = [m_is_closed EXCEPT ![c] = FALSE]
      /\ revived' = IF closed THEN revived \cup {c} ELSE revived
      /\ ModFd(m_sockfd[c], "IN")
      /\ UNCHANGED m_users
      /\ Release(w, c, IF closed THEN [NoData EXCEPT !.wire = data[c].wire] ELSE data[c])
      /\ UNCHANGED <<hello, m_sockfd, maps, pushing, crossed, blurred>>

(* The destructor's removeFd, on a worker: between it and close another    *)
(* client may have got the number.                                         *)
Unbind(w) ==
  /\ job[w].at = "unbind" /\ push.at = "idle"
  /\ RemoveFd(m_sockfd[job[w].conn])
  /\ job' = [job EXCEPT ![w] = Idle]
  /\ UNCHANGED <<kernel, epoll, m_users, object, data, pushing, history>>

-----------------------------------------------------------------------------
(* sendToSession, which holds the manager's mutex to its end.              *)

(* Slip: the connection is used without a look whether there is one.       *)
PushFindUnchecked(s) ==
  /\ push.at = "idle" /\ pushes < MaxPushes
  /\ m_session_to_fd[s] # None
  /\ push' = [conn |-> m_users[m_session_to_fd[s]], to |-> s, at |-> "found"]
  /\ pushes' = pushes + 1
  /\ UNCHANGED <<kernel, epoll, m_users, job, object, data, maps, history>>

(* The session is looked up and getConn returns its connection.            *)
PushFind(s) ==
  LET f == m_session_to_fd[s] IN
  /\ push.at = "idle" /\ pushes < MaxPushes
  /\ f # None /\ m_users[f] # None
  /\ push' = [conn |-> m_users[f], to |-> s, at |-> "found"]
  /\ pushes' = pushes + 1
  /\ UNCHANGED <<kernel, epoll, m_users, job, object, data, maps, history>>

(* sendTextFrame and the write callback.  isClosed is false whatever       *)
(* closeConn has done, so a connection that was closed since gets the      *)
(* frame as well.  If no worker has it then, its destructor runs here:     *)
(* removeFd waits for the mutex that this thread holds, for ever.          *)
PushSend ==
  LET c == push.conn
      d == data[c]
      last == Holders(c) = {"push"} /\ m_users[m_sockfd[c]] # c
  IN  /\ push.at = "found"
      /\ ModFd(m_sockfd[c], "OUT")
      /\ UNCHANGED m_is_closed
      /\ \/ /\ last /\ Destroy(c)
            /\ push' = IF m_is_closed[c] THEN [conn |-> c, to |-> push.to, at |-> "stuck"]
                       ELSE Quiet
         \/ /\ ~last /\ push' = Quiet
            /\ data' = [data EXCEPT ![c] =
                          [d EXCEPT !.m_write_buf = Append(d.m_write_buf, push.to)]]
            /\ UNCHANGED <<obj, sock>>
      /\ UNCHANGED <<hello, m_users, job, m_sockfd, maps, pushes, history>>

-----------------------------------------------------------------------------
Messages == [msg : {Junk} \cup (1..Frames), len : 1..2 * Frames]

Next ==
  \/ \E c \in Conns, f \in Fds, h \in Sessions \cup {None, NoKey} : Accept(c, f, h)
  \/ \E f \in Fds : Expire(f) \/ \E w \in Workers : Dispatch(f, w)
  \/ \E w \in Workers :
       \/ \E n \in 1..2 * (Frames + 1) : Read(w, n)
       \/ ReadFails(w)
       \/ HandleHandshake(w) \/ BindSession(w) \/ ProcessFails(w)
       \/ \E m \in Messages : HandleFrame(w, m)
       \/ WriteOK(w) \/ WriteAgain(w) \/ WriteFails(w) \/ Reinit(w)
       \/ Unbind(w)
  \/ \E s \in Sessions : PushFind(s)
  \/ PushSend

Spec == Init /\ [][Next]_vars

-----------------------------------------------------------------------------
Units == (0..Frames) \X {1, 2}
Data == [m_status : {"HANDSHAKE", "CONNECTED"}, m_read_buf : Seq(Units),
         m_write_buf : Seq(Sessions \cup {"101"}), wire : Seq(Units),
         handled : Seq({Junk} \cup (1..Frames))]
Jobs == [conn : Conns, at : {"read", "process", "bind", "write", "init", "unbind"}] \cup {Idle}
Pushes == [conn : Conns, to : Sessions, at : {"found", "stuck"}] \cup {Quiet}

(* Types of the kernel's, the server's and the connections' state; a push  *)
(* in progress has a connection to send on.                                *)
TypeOK ==
  /\ hello \in [Conns -> Sessions \cup {None, NoKey}]
  /\ sock \in [Fds -> Conns \cup {None}]
  /\ epoll \in [Fds -> {"off", "idle", "IN", "OUT"}]
  /\ m_users \in [Fds -> Conns \cup {None}]
  /\ job \in [Workers -> Jobs]
  /\ obj \in [Conns -> {"new", "live", "dead"}]
  /\ m_sockfd \in [Conns -> Fds \cup {None}]
  /\ m_is_closed \in [Conns -> BOOLEAN]
  /\ data \in [Conns -> Data]
  /\ m_session_to_fd \in [Sessions -> Fds \cup {None}]
  /\ m_fd_to_session \in [Fds -> Sessions \cup {None}]
  /\ push \in Pushes
  /\ pushes \in 0..MaxPushes
  /\ revived \in SUBSET Conns /\ crossed \in BOOLEAN /\ blurred \in SUBSET Conns

(* As long as m_users, a worker or a push refers to a connection, its      *)
(* descriptor is open and is its own, so that no closure reads, writes or  *)
(* registers another client's; and it is closed when the last of them lets *)
(* go, unless init was called after closeConn, in which case the           *)
(* destructor takes the connection for an open one and never closes it.    *)
FdLivesWithConn ==
  \A c \in Conns :
    /\ obj[c] = "live" => sock[m_sockfd[c]] = c
    /\ ((\E f \in Fds : m_users[f] = c) \/ Holders(c) # {}) => obj[c] = "live"
    /\ obj[c] = "dead" /\ c \notin revived => \A f \in Fds : sock[f] # c

(* The handshake is over, bindSession included.                            *)
Connected(c) ==
  /\ data[c].m_status = "CONNECTED"
  /\ \A w \in Workers : Serves(w, c) => job[w].at # "bind"

(* The two maps of WebsocketConnManager, kept by handshakes and by         *)
(* destructors on several threads.  A push for a session finds nobody or a *)
(* connection whose client named that session; and a connection in use is  *)
(* found under its session if no other client named it too (the first of   *)
(* two to go takes the entry of the other with it).  Both hold unless a    *)
(* new client got the number of a closed descriptor before its removeFd.   *)
SessionsAgree ==
  crossed
  \/ /\ \A s \in Sessions :
          LET f == m_session_to_fd[s] IN
          f # None => m_users[f] = None \/ hello[m_users[f]] = s
     /\ push.conn # None => hello[push.conn] = push.to
     /\ \A c \in Conns :
          LET s == hello[c] IN
          (/\ obj[c] = "live" /\ m_users[m_sockfd[c]] = c /\ Connected(c)
           /\ s # None /\ \A d \in Conns \ {c} : hello[d] # s)
          => m_session_to_fd[s] = m_sockfd[c]

(* Through partial reads, several frames in one read, EPOLLOUT rounds that *)
(* have nothing to send and calls of init in between, every frame of a     *)
(* client is dispatched once and in order, or is still to be read or       *)
(* parsed; unless some of it arrived with the handshake, which process     *)
(* throws away, or a push had two workers serve the connection at once.    *)
HandledInOrder ==
  \A c \in Conns \ blurred :
    LET d == data[c] IN
    (obj[c] = "live" /\ Connected(c))
    => /\ d.handled = [i \in 1..Len(d.handled) |-> i]
       /\ d.m_read_buf \o d.wire = FramesFrom(Len(d.handled) + 1)
=============================================================================
